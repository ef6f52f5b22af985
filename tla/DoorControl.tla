---------------------------- MODULE DoorControl ----------------------------
(***************************************************************************)
(* The lock of pet doors and cat flaps: Home Assistant switches on one     *)
(* side, the lock register of the device on the other, and in between the  *)
(* single-threaded pethub service (pethubmqtt.py) with its SQLite table    *)
(* `doors` (pethubpacket.py).                                              *)
(*                                                                         *)
(* A switch command is turned into an absolute lock command from the lock  *)
(* mode the database remembers; the device applies it and reports its      *)
(* register; decoding the report commits the database, and what is         *)
(* published to Home Assistant leaves only when the MQTT callback returns. *)
(* A cat flap's message may hold several reports: all are stored, and then *)
(* the first is published and stored once more.                            *)
(* The service may die at any point and is started again by hand.          *)
(*                                                                         *)
(* Only messages about the lock are kept: time, battery, movement, acks    *)
(* and the reflected commands, which the handlers skip, do not touch the   *)
(* state below.                                                            *)
(***************************************************************************)
EXTENDS Naturals, Sequences, FiniteSets, SequencesExt

CONSTANTS
    PetDoors,        \* MAC addresses with product_id 3
    CatFlaps,        \* MAC addresses with product_id 6
    DevId,           \* the global devid: the id of the last device the startup loop loads
    StateOnStartup,  \* the configuration flag of that name
    MaxFrames,       \* how many reports a message of a cat flap may hold
    MaxInFlight      \* bound: messages travelling at the same time

ASSUME ConstantsAssumption ==
    /\ PetDoors \cap CatFlaps = {}
    /\ StateOnStartup \in BOOLEAN
    /\ MaxFrames \in Nat \ {0}
    /\ MaxInFlight \in Nat

VARIABLES
    up,       \* the pethub process is running and subscribed
    db,       \* doors.lockingmode, per door
    ha,       \* retained Home Assistant topics, per device id
    pending,  \* the message whose callback runs, if any: its first report, and those left
    sets,     \* switch commands from Home Assistant waiting for pethub
    cmd,      \* lock commands waiting for the device, per door
    reports,  \* messages with lock reports waiting for pethub, per door
    lock,     \* the lock register of the device
    missed,   \* history: doors whose latest report never reached pethub
    setBack   \* history: doors whose row a handler has set back to an older report

vars == <<up, db, ha, pending, sets, cmd, reports, lock, missed, setBack>>

Doors    == PetDoors \cup CatFlaps
Topics   == Doors \cup {DevId}
Switches == {"KeepIn", "KeepOut", "Curfew"}
OnOff    == {"ON", "OFF"}

\* PetDoorLockState, and the part of it a cat flap report is converted to.
FlapLocks == {"Unlocked", "KeepIn", "KeepOut", "Locked"}
DoorLocks == FlapLocks \cup {"Curfew"}
LocksOf(d) == IF d \in CatFlaps THEN FlapLocks ELSE DoorLocks

\* A message: a pet door's has one lock register, a cat flap's some frames, oldest first.
Messages(d) ==
    UNION {[1 .. n -> LocksOf(d)] : n \in 1 .. IF d \in CatFlaps THEN MaxFrames ELSE 1}

\* A request to send the registers, which leaves the lock as it is.
Dump == "DumpState"

Switch(on) == IF on THEN "ON" ELSE "OFF"

KeepInOf(lm)  == Switch(lm \in {"KeepIn", "Locked"})
KeepOutOf(lm) == Switch(lm \in {"KeepOut", "Locked"})
CurfewOf(lm)  == Switch(lm = "Curfew")

\* The three switch topics and the State attribute of a door in lock mode lm.
ViewOf(lm) == [KeepIn |-> KeepInOf(lm), KeepOut |-> KeepOutOf(lm),
               Curfew |-> CurfewOf(lm), State |-> lm]

\* Nothing has been published yet.
Blank == [KeepIn |-> "unset", KeepOut |-> "unset", Curfew |-> "unset", State |-> "unset"]

-----------------------------------------------------------------------------
\* Mutant: the row for KeepIn switched on while KeepOut is on forgets KeepOut.
LockCommandForgets(key, val, lm) ==
    IF key = "Curfew" THEN IF val = "ON" THEN "Curfew" ELSE "Unlocked"
    ELSE IF val = "ON" THEN key
    ELSE IF lm # "Locked" THEN "Unlocked"
    ELSE IF key = "KeepIn" THEN "KeepOut" ELSE "KeepIn"

\* generatemessage: the lock mode a switch command asks the device for, given
\* the lock mode lm in the database.  Whatever the table does not list unlocks.
LockCommand(key, val, lm) ==
    CASE key = "Curfew" -> IF val = "ON" THEN "Curfew" ELSE "Unlocked"
      [] <<key, val, lm>> \in {<<"KeepIn", "ON", "Unlocked">>, <<"KeepOut", "OFF", "Locked">>}
           -> "KeepIn"
      [] <<key, val, lm>> \in {<<"KeepOut", "ON", "Unlocked">>, <<"KeepIn", "OFF", "Locked">>}
           -> "KeepOut"
      [] <<key, val, lm>> \in {<<"KeepIn", "ON", "KeepOut">>, <<"KeepOut", "ON", "KeepIn">>}
           -> "Locked"
      [] OTHER -> "Unlocked"

Init ==
    /\ up = FALSE
    /\ db \in [Doors -> DoorLocks] /\ \A d \in Doors : db[d] \in LocksOf(d)
    /\ lock = db
    /\ ha = [t \in Topics |-> Blank]
    /\ pending = {}
    /\ sets = <<>>
    /\ cmd = [d \in Doors |-> <<>>]
    /\ reports = [d \in Doors |-> <<>>]
    /\ missed = {}
    /\ setBack = {}

-----------------------------------------------------------------------------
(* The environment *)

\* How many messages the queues, one per door, hold together.
Held(queue) == Cardinality({x \in Doors \X (1 .. MaxInFlight) : x[2] <= Len(queue[x[1]])})

\* Bound on what the environment adds; the service itself never waits.
HasRoomFor(n) == Len(sets) + Held(cmd) + Held(reports) + n <= MaxInFlight

\* Home Assistant publishes a switch command (QoS 0: gone when pethub is down).
HASet(d, key, val) ==
    /\ up
    /\ sets' = Append(sets, [door |-> d, key |-> key, val |-> val])
    /\ UNCHANGED <<up, db, ha, pending, cmd, reports, lock, missed, setBack>>

\* cli.py, a process of its own, sends a lock mode or asks for the registers.
CliCommand(d, op) ==
    /\ op \in LocksOf(d) \cup {Dump}
    /\ cmd' = [cmd EXCEPT ![d] = Append(@, op)]
    /\ UNCHANGED <<up, db, ha, pending, sets, reports, lock, missed, setBack>>

\* The lock register after a command.
Obey(command, lm) == IF command = Dump THEN lm ELSE command

\* The device executes its oldest commands and reports the register after each, in
\* one message m.  It is not kept for a pethub that is down: its MQTT session is a
\* clean one.
DeviceStep(d, m) ==
    /\ Len(m) <= Len(cmd[d])
    /\ \A i \in 1 .. Len(m) : m[i] = Obey(cmd[d][i], IF i = 1 THEN lock[d] ELSE m[i - 1])
    /\ lock' = [lock EXCEPT ![d] = Last(m)]
    /\ cmd' = [cmd EXCEPT ![d] = SubSeq(@, Len(m) + 1, Len(@))]
    /\ reports' = IF up THEN [reports EXCEPT ![d] = Append(@, m)] ELSE reports
    /\ missed' = IF up THEN missed \ {d} ELSE missed \cup {d}
    /\ UNCHANGED <<up, db, ha, pending, sets, setBack>>

\* The device is out of radio reach and the command is lost.
CommandLost(d) ==
    /\ cmd[d] # <<>>
    /\ cmd' = [cmd EXCEPT ![d] = Tail(@)]
    /\ UNCHANGED <<up, db, ha, pending, sets, reports, lock, missed, setBack>>

\* QoS 1: after a reconnect the broker bridge sends again, in order, the
\* messages that were not acknowledged.
CommandsAgain(d) ==
    /\ cmd[d] # <<>> /\ HasRoomFor(Len(cmd[d]))
    /\ cmd' = [cmd EXCEPT ![d] = @ \o @]
    /\ UNCHANGED <<up, db, ha, pending, sets, reports, lock, missed, setBack>>

ReportsAgain(d) ==
    /\ reports[d] # <<>> /\ HasRoomFor(Len(reports[d]))
    /\ reports' = [reports EXCEPT ![d] = @ \o @]
    /\ UNCHANGED <<up, db, ha, pending, sets, cmd, lock, missed, setBack>>

-----------------------------------------------------------------------------
(* The pethub service: one callback at a time *)

\* Mutant: the cat flap's Curfew switch is given the pet door's callback.
HandleSetFlapCurfew ==
    /\ up /\ pending = {} /\ sets # <<>>
    /\ LET m == Head(sets)
       IN  cmd' = [cmd EXCEPT ![m.door] = Append(@, LockCommand(m.key, m.val, db[m.door]))]
    /\ sets' = Tail(sets)
    /\ UNCHANGED <<up, db, ha, pending, reports, lock, missed, setBack>>

\* Mutant: the Curfew switch of a pet door has no callback either.
HandleSetNoCurfew ==
    /\ up /\ pending = {} /\ sets # <<>>
    /\ LET m == Head(sets)
       IN  cmd' = IF m.key = "Curfew" THEN cmd
                  ELSE [cmd EXCEPT ![m.door] = Append(@, LockCommand(m.key, m.val, db[m.door]))]
    /\ sets' = Tail(sets)
    /\ UNCHANGED <<up, db, ha, pending, reports, lock, missed, setBack>>

\* on_ha_lock_message and on_petdoor_ha_curfew_message.  The Curfew switch of a
\* cat flap has no callback: on_message only logs it.
HandleSet ==
    /\ up /\ pending = {} /\ sets # <<>>
    /\ LET m == Head(sets)
       IN  cmd' = IF m.door \in CatFlaps /\ m.key = "Curfew" THEN cmd
                  ELSE [cmd EXCEPT ![m.door] = Append(@, LockCommand(m.key, m.val, db[m.door]))]
    /\ sets' = Tail(sets)
    /\ UNCHANGED <<up, db, ha, pending, reports, lock, missed, setBack>>

\* Mutant: decoding leaves the database to the write at the end of the callback.
StoreLater(d, lm) == UNCHANGED db

\* A decoded lock mode is committed while the callback still runs.
Store(d, lm) == db' = [db EXCEPT ![d] = lm]

\* decodehubmqtt begins with the first report of the oldest message of a door ...
DecodeReport(d) ==
    /\ up /\ pending = {} /\ reports[d] # <<>>
    /\ LET m == Head(reports[d])
       IN  /\ Store(d, Head(m))
           /\ pending' = {[door |-> d, first |-> Head(m), left |-> Tail(m)]}
    /\ reports' = [reports EXCEPT ![d] = Tail(@)]
    /\ setBack' = setBack \ {d}
    /\ UNCHANGED <<up, ha, sets, cmd, lock, missed>>

\* ... and parsemultiframe goes on, frame by frame.
StoreFrame ==
    /\ up
    /\ \E r \in pending :
         /\ r.left # <<>>
         /\ Store(r.door, Head(r.left))
         /\ pending' = {[r EXCEPT !.left = Tail(@)]}
    /\ UNCHANGED <<up, ha, sets, cmd, reports, lock, missed, setBack>>

\* Mutant: the pet door handler publishes no Curfew switch, like the cat flap's.
PublishPetDoorTwo(r) ==
    ha' = [ha EXCEPT ![r.door] = [ViewOf(r.first) EXCEPT !.Curfew = ha[r.door].Curfew]]

\* Mutant: the pet door handler uses the global devid, like the cat flap's.
PublishPetDoorDevId(r) ==
    ha' = [ha EXCEPT ![DevId] = ViewOf(r.first)]

\* on_petdoor_hub_message: all three switches and the status of the sender.
PublishPetDoor(r) ==
    ha' = [ha EXCEPT ![r.door] = ViewOf(r.first)]

\* on_catflap_hub_message: two switches of the device in the global devid, and
\* the status of the sender, all of the message's first lock frame.
PublishCatFlap(r) ==
    ha' = [ha EXCEPT ![DevId].KeepIn = KeepInOf(r.first),
                     ![DevId].KeepOut = KeepOutOf(r.first),
                     ![r.door].State = r.first]

\* The rest of the callback: the first lock mode of the message is stored once more,
\* over those that came after it, and the return lets the queued messages go out.
Publish ==
    /\ up
    /\ \E r \in pending :
         /\ r.left = <<>>
         /\ IF r.door \in CatFlaps THEN PublishCatFlap(r) ELSE PublishPetDoor(r)
         /\ db' = [db EXCEPT ![r.door] = r.first]
         /\ setBack' = IF r.first = db[r.door] THEN setBack ELSE setBack \cup {r.door}
    /\ pending' = {}
    /\ UNCHANGED <<up, sets, cmd, reports, lock, missed>>

\* The process ends; what was waiting for it is lost, the database is not.
Crash ==
    /\ up
    /\ up' = FALSE
    /\ pending' = {}
    /\ sets' = <<>>
    /\ reports' = [d \in Doors |-> <<>>]
    /\ missed' = missed \cup {d \in Doors : reports[d] # <<>>}
                      \cup {r.door : r \in {x \in pending : x.left # <<>>}}
    /\ UNCHANGED <<db, ha, cmd, lock, setBack>>

\* Mutant: a restarted service trusts the retained topics.
StartSilent ==
    /\ ~up
    /\ up' = TRUE
    /\ ha' = [t \in Topics |-> IF t \in Doors /\ ha[t] = Blank THEN ViewOf(db[t]) ELSE ha[t]]
    /\ UNCHANGED <<db, pending, sets, cmd, reports, lock, missed, setBack>>

\* The startup loop publishes every door from its database row, asks pet doors for
\* their registers if so configured, and subscribes only then: a door that has nothing
\* else to do may answer too early, and its answer is lost.
Start ==
    /\ ~up
    /\ up' = TRUE
    /\ ha' = [t \in Topics |-> IF t \in Doors THEN ViewOf(db[t]) ELSE ha[t]]
    /\ IF StateOnStartup
       THEN \E early \in SUBSET {d \in PetDoors : cmd[d] = <<>>} :
              /\ HasRoomFor(Cardinality(PetDoors \ early))
              /\ cmd' = [d \in Doors |-> IF d \in PetDoors \ early THEN Append(cmd[d], Dump)
                                         ELSE cmd[d]]
              /\ missed' = missed \cup early
       ELSE UNCHANGED <<cmd, missed>>
    /\ UNCHANGED <<db, pending, sets, reports, lock, setBack>>

-----------------------------------------------------------------------------
Service == HandleSet \/ (\E d \in Doors : DecodeReport(d)) \/ StoreFrame \/ Publish

Environment(d) ==
    \/ HasRoomFor(1) /\ \E key \in Switches, val \in OnOff : HASet(d, key, val)
    \/ HasRoomFor(1) /\ \E op \in DoorLocks \cup {Dump} : CliCommand(d, op)
    \/ cmd[d] # <<>> /\ \E m \in Messages(d) : DeviceStep(d, m)
    \/ CommandLost(d)
    \/ CommandsAgain(d)
    \/ ReportsAgain(d)

Next ==
    \/ Service
    \/ \E d \in Doors : Environment(d)
    \/ Crash
    \/ Start

Spec == Init /\ [][Next]_vars

-----------------------------------------------------------------------------
SetMessages == [door : Doors, key : Switches, val : OnOff]
Views == [KeepIn : OnOff \cup {"unset"}, KeepOut : OnOff \cup {"unset"},
          Curfew : OnOff \cup {"unset"}, State : DoorLocks \cup {"unset"}]

\* A lock mode, or a queue of them, for every door, of the modes its kind has.
TypedLocks(f)  == f \in [Doors -> DoorLocks] /\ \A d \in Doors : f[d] \in LocksOf(d)
TypedQueues(q) == /\ q \in [Doors -> Seq(DoorLocks \cup {Dump})]
                  /\ \A d \in Doors : q[d] \in Seq(LocksOf(d) \cup {Dump})

TypedReports(q) == /\ q \in [Doors -> Seq(Seq(DoorLocks))]
                   /\ \A d \in Doors : q[d] \in Seq(Messages(d))

\* At most one callback runs.  Of a pet door's message nothing is left to decode, and
\* what it said is what the database holds.
PendingOK ==
    /\ \A r, s \in pending : r = s
    /\ \A r \in pending :
         /\ r \in [door : Doors, first : DoorLocks, left : Seq(DoorLocks)]
         /\ r.first \in LocksOf(r.door) /\ r.left \in Seq(LocksOf(r.door))
         /\ r.door \in PetDoors => r.left = <<>> /\ r.first = db[r.door]

\* Type invariant: in particular a lock mode stored, sent or reported is always
\* one that this kind of device has (a cat flap has no curfew mode), and only the row
\* of a cat flap is ever set back.
TypeOK ==
    /\ up \in BOOLEAN
    /\ TypedLocks(db) /\ TypedLocks(lock)
    /\ ha \in [Topics -> Views]
    /\ PendingOK
    /\ sets \in Seq(SetMessages)
    /\ TypedQueues(cmd) /\ TypedReports(reports)
    /\ missed \subseteq Doors /\ setBack \subseteq CatFlaps

\* While pethub runs, what Home Assistant shows of a door (switches and status)
\* is what the database holds, except for the one door whose callback is still
\* running: commit and publication never drift apart, over crashes and restarts.
HAMatchesDb ==
    up => \A d \in Doors : (\A r \in pending : r.door # d) => ha[d] = ViewOf(db[d])

\* The newest report of a door tells its actual lock, whether it waits, is yet to be
\* decoded in the running callback, or is in the database.
NewestTells(d) ==
    /\ reports[d] # <<>> => Last(Last(reports[d])) = lock[d]
    /\ reports[d] = <<>> =>
         /\ \A r \in pending : r.door = d /\ r.left # <<>> => Last(r.left) = lock[d]
         /\ d \notin setBack /\ (\A r \in pending : r.door = d => r.left = <<>>)
              => db[d] = lock[d]

\* Unless a report was lost with a stopped pethub, the newest report of a door is true:
\* no order of commands, redeliveries and crashes leaves the database on an older one,
\* but for a handler that sets it back to the first of a message.
NewestReportIsTrue == \A d \in Doors \ missed : NewestTells(d)

\* Nothing pethub does, and nothing it has been told, is unfinished for this door.
Quiet(d) == up /\ pending = {} /\ reports[d] = <<>> /\ d \notin missed

\* With pethub running, no callback open and no report on its way, Home Assistant
\* shows the real lock of the door, unless the handler has set it back.
QuietShowsLock ==
    \A d \in Doors \ setBack : Quiet(d) => ha[d] = ViewOf(lock[d])

\* The same of all doors, which a cat flap with two reports in a message refutes:
\* "126 Frames aka can have multiple messages, so need to loop until you get to the
\* end" (pethubpacket.py), "Update state value with change" (pethubmqtt.py).
QuietShowsNewest ==
    \A d \in Doors : Quiet(d) => ha[d] = ViewOf(lock[d])

\* A running pethub changes the topics of a door only on a report of that door.
NoCrossTalk ==
    [][\A d \in Doors : ha'[d] # ha[d] => ~up \/ \E r \in pending : r.door = d]_vars
=============================================================================
