------------------------------- MODULE Household -------------------------------
(***************************************************************************)
(* What the pethub service does besides locks, counters and bowls: the     *)
(* state of the hub, the side of the door a pet is on, and the curfews.    *)
(* It shares the tables of LocalDatabase with mkpetlocaldb.py, which may   *)
(* build them anew at any time.                                            *)
(*                                                                         *)
(* All messages come through one socket and are handled one at a time: the *)
(* tables are written while a message is decoded, and what the handler     *)
(* publishes leaves when it returns.  A handler that raises ends the       *)
(* service.                                                                *)
(***************************************************************************)
EXTENDS LocalDatabase

CONSTANTS
    Slots,        \* Slots[d]: the pets a pet door has learnt, by their index
    Texts,        \* texts that Home Assistant sets as a door's curfews
    MaxUptime,    \* bound: the uptimes the hub reports
    MaxMessages,  \* bound: messages waiting, and commands to one door
    Scenarios     \* bound: each behaviour is about one of these sets of topics

ASSUME HouseholdAssumption ==
    /\ Slots \in [PetDoors -> Seq(Pets)]
    /\ Texts \subseteq Seq(Spans \cup {Comma})
    /\ MaxUptime \in Nat /\ MaxMessages \in Nat
    /\ Scenarios \subseteq SUBSET {"hub", "uptime", "pets", "flaps", "times", "cli", "build"}
    /\ Hub \notin Pets /\ Doors \cap Pets = {}

VARIABLES
    up,        \* the service is running and subscribed
    served,    \* the devices whose callbacks are registered
    inbox,     \* messages on their way to the service
    pending,   \* what the running callback will publish, if one is running
    shown,     \* the retained topics of Home Assistant
    cmd,       \* cmd[d]: curfew commands on their way to a pet door
    hubOn,     \* the hub is connected
    side,      \* side[p]: where a pet is, "in" or "out"
    via,       \* via[p]: the door it last went through
    own,       \* own[d]: the curfew register of a pet door
    missed,    \* history: subjects of which the tables may not hold the last report
    fresh,     \* history: no build has written to the tables since the service started
    scenario   \* bound: what this behaviour is about

world == <<hubOn, side, via, own>>
serviceVars == <<up, served, inbox, pending, shown>>
houseVars == <<buildVars, serviceVars, cmd, world, missed, fresh, scenario>>

\* PetDoorDirection and CatFlapDirection, the latter without the two of a status.
Inwards == {"Inside", "Inside_Already"}
DoorDirections == Inwards \cup {"Outside", "Outside_LookedIn"}
FlapDirections == {"In", "Out", "LookedIn", "LookedOut"}

\* Disabled, Off and On of CurfewState.
Registers == [enabled : 0 .. 2, span : Spans]

\* Shown before the service has ever started.
Unset == 9

\* What a message is the newest report of.
Subjects == {Hub} \cup PetDoors \cup Pets

DoorsOf(tables, p) == {d \in Doors : <<p, d>> \in DOMAIN tables.petstate /\ d \in ToSet(tables.devices)}

\* Tables as in pethubtest.sql: those the document describes, and the side of each
\* pet at some doors.  A flap's counter is gone if it could not be inserted.
Supplied(c, rows, s, gone) ==
    LET image == Image(c)
    IN  [image EXCEPT !.petstate = [k \in rows |-> s], !.counters = @ \ gone]

Init ==
    /\ scenario \in Scenarios
    /\ BuildInit /\ source.sound
    /\ \E rows \in SUBSET (Pets \X Doors), s \in {"0", "1"}, gone \in SUBSET CatFlaps :
          /\ scenario \cap {"pets", "flaps"} = {} => rows = {} /\ gone = {}
          /\ db = Supplied(source, rows, s, gone)
    /\ up = FALSE /\ served = {} /\ inbox = <<>> /\ pending = {}
    /\ shown = [hub |-> [state |-> Unset, uptime |-> Unset],
                curfew |-> [d \in Doors |-> [enabled |-> Unset, curfews |-> <<>>]],
                pet |-> [p \in Pets |-> "unset"]]
    /\ cmd = [d \in PetDoors |-> <<>>]
    /\ hubOn \in BOOLEAN /\ ("hub" \notin scenario => hubOn)
    /\ side \in [Pets -> {"in", "out"}] /\ via = [p \in Pets |-> NoMac]
    /\ own \in [PetDoors -> {r \in Registers : r.enabled \in {1, 2}}]
    /\ \A d \in PetDoors : \A i \in DOMAIN source.curfew[d] :
          own[d] = [enabled |-> IF source.curfew[d][i].on THEN 2 ELSE 1, span |-> source.curfew[d][i].span]
    /\ missed = Subjects /\ fresh = FALSE

-----------------------------------------------------------------------------
(* The hub, the pets, the doors and Home Assistant *)

\* A message of the devices: lost if the service is down, whose MQTT session is a clean one.
Send(m, subjects) ==
    /\ Len(inbox) < MaxMessages
    /\ inbox' = IF up THEN Append(inbox, m) ELSE inbox
    /\ missed' = IF up THEN missed \ subjects ELSE missed \cup subjects

\* The hub connects and says so, or the broker publishes its last will.
HubSwitches ==
    /\ "hub" \in scenario
    /\ hubOn' = ~hubOn
    /\ Send([kind |-> "online", on |-> hubOn'], {Hub})
    /\ UNCHANGED <<buildVars, up, served, pending, shown, cmd, side, via, own, fresh, scenario>>

HubUptime ==
    /\ "uptime" \in scenario /\ hubOn
    /\ \E t \in 1 .. MaxUptime : Send([kind |-> "uptime", mins |-> t], {})
    /\ UNCHANGED <<buildVars, up, served, pending, shown, cmd, world, fresh, scenario>>

\* A pet goes through a pet door, or looks in from outside.
Passage(d, i, dir) ==
    /\ "pets" \in scenario
    /\ LET p == Slots[d][i]
       IN  /\ side[p] = "in" => dir \in {"Outside", "Inside_Already"}
           /\ side[p] = "out" => dir # "Outside"
           /\ side' = [side EXCEPT ![p] = IF dir \in Inwards THEN "in" ELSE "out"]
           /\ via' = [via EXCEPT ![p] = d]
           /\ Send([kind |-> "passage", door |-> d, index |-> i, dir |-> dir], {p})
    /\ UNCHANGED <<buildVars, up, served, pending, shown, cmd, hubOn, own, fresh, scenario>>

\* A pet goes through a cat flap, or looks through it.  The service does not store it.
Movement(d, p, dir) ==
    /\ "flaps" \in scenario
    /\ side[p] = "in" <=> dir \in {"Out", "LookedOut"}
    /\ side' = [side EXCEPT ![p] = IF dir \in {"In", "LookedOut"} THEN "in" ELSE "out"]
    /\ via' = [via EXCEPT ![p] = d]
    /\ Send([kind |-> "movement", door |-> d, pet |-> p, dir |-> dir], {})
    /\ UNCHANGED <<buildVars, up, served, pending, shown, cmd, hubOn, own, fresh, scenario>>

\* A cat flap reports that a curfew has locked or unlocked it.
CurfewLock(d) ==
    /\ "flaps" \in scenario
    /\ Send([kind |-> "curfewlock", door |-> d], {})
    /\ UNCHANGED <<buildVars, up, served, pending, shown, cmd, world, fresh, scenario>>

\* Home Assistant sets the times of a door.
SetTimes(d, text) ==
    /\ "times" \in scenario
    /\ Send([kind |-> "times", door |-> d, text |-> text], {})
    /\ UNCHANGED <<buildVars, up, served, pending, shown, cmd, world, fresh, scenario>>

\* A pet door takes a command and reports the register.
DoorObeys(d) ==
    /\ cmd[d] # <<>>
    /\ own' = [own EXCEPT ![d] = Head(cmd[d])]
    /\ cmd' = [cmd EXCEPT ![d] = Tail(@)]
    /\ Send([kind |-> "report", door |-> d, curfew |-> own'[d]], {d})
    /\ UNCHANGED <<buildVars, up, served, pending, shown, hubOn, side, via, fresh, scenario>>

CommandLost(d) ==
    /\ cmd[d] # <<>>
    /\ cmd' = [cmd EXCEPT ![d] = Tail(@)]
    /\ UNCHANGED <<buildVars, serviceVars, world, missed, fresh, scenario>>

\* QoS 1: after a reconnect the broker's bridge sends again, in order, the last of its
\* messages, which were not acknowledged.  Home Assistant's have QoS 0.
SendAgain ==
    /\ \E first, last \in DOMAIN inbox :
          /\ first <= last /\ Len(inbox) + (last - first) + 1 <= MaxMessages
          /\ \A i \in DOMAIN inbox : i >= first => (inbox[i].kind = "times" <=> i > last)
          /\ inbox' = inbox \o SubSeq(inbox, first, last)
    /\ UNCHANGED <<buildVars, up, served, pending, shown, cmd, world, missed, fresh, scenario>>

-----------------------------------------------------------------------------
(* The curfew command of generatemessage *)

\* The text is split at its hyphens, and of the first two pieces hours and minutes
\* are read: that raises unless it is one span and no more.
OneSpan(text) == Len(text) = 1 /\ text[1] \in Spans

\* Mutant: the numbers are those of a cat flap.
CurfewCommandX(row, state) ==
    [enabled |-> IF state = "UPD" THEN row.enabled ELSE IF state = "ON" THEN 3 ELSE 6,
     span |-> row.curfews[1]]

\* SetCurfewState with "OFF" (1), "ON" (2) or "UPD" (what the table has).
CurfewCommand(row, state) ==
    [enabled |-> IF state = "UPD" THEN row.enabled ELSE IF state = "ON" THEN 2 ELSE 1,
     span |-> row.curfews[1]]

\* cli.py <mac> SetCurfewState ON or OFF, a process of its own.
CliCurfew(d, state) ==
    /\ "cli" \in scenario
    /\ d \in ToSet(db.devices) /\ d \in DOMAIN db.doors /\ OneSpan(db.doors[d].curfews)
    /\ Len(cmd[d]) < MaxMessages
    /\ cmd' = [cmd EXCEPT ![d] = Append(@, CurfewCommand(db.doors[d], state))]
    /\ UNCHANGED <<buildVars, serviceVars, world, missed, fresh, scenario>>

-----------------------------------------------------------------------------
(* decodehubmqtt and the handlers up to their return *)

Known(d) == d \in ToSet(db.devices)

\* A pet door's index is looked up in tagmap and its tag in pets.
Named(d, i) == {p \in db.pets : <<d, i>> \in DOMAIN db.tagmap /\ db.tagmap[<<d, i>>] = p}

\* Mutant: the state is published only.
StoreHubX(field, value) ==
    IF Known(Hub) /\ Hub \in DOMAIN db.hubs /\ field # "state"
    THEN [db EXCEPT !.hubs[Hub] = [@ EXCEPT ![field] = value]] ELSE db

\* UPDATE hubs, if the hub is in devices and has a row.
StoreHub(field, value) ==
    IF Known(Hub) /\ Hub \in DOMAIN db.hubs THEN [db EXCEPT !.hubs[Hub] = [@ EXCEPT ![field] = value]] ELSE db

\* Mutant: only a pet the door thought outside comes in.
StayX(dir) == IF dir = "Inside" THEN "1" ELSE "0"

\* Inside for an ingress, outside for everything else.
Stay(dir) == IF dir \in Inwards THEN "1" ELSE "0"

\* UPDATE petstate, if the pet has a row for the door.
StorePassage(m) ==
    [db EXCEPT !.petstate =
        [k \in DOMAIN @ |-> IF k[2] = m.door /\ k[1] \in Named(m.door, m.index) THEN Stay(m.dir) ELSE @[k]]]

\* Mutant: the times are kept.
StoreReportState(m) ==
    [db EXCEPT !.doors =
        [d \in DOMAIN @ |-> IF d = m.door THEN [@[d] EXCEPT !.enabled = m.curfew.enabled] ELSE @[d]]]

\* UPDATE doors, if the door has a row.
StoreReport(m) ==
    [db EXCEPT !.doors =
        [d \in DOMAIN @ |-> IF d = m.door
                            THEN [enabled |-> m.curfew.enabled, curfews |-> <<m.curfew.span>>] ELSE @[d]]]

\* The times are stored for all doors ...
StoreTimes(m) == [db EXCEPT !.doors = [d \in DOMAIN @ |-> [@[d] EXCEPT !.curfews = m.text]]]

\* The tables after a message has been decoded.
Stored(m) ==
    CASE m.kind = "online" -> StoreHub("state", IF m.on THEN 1 ELSE 0)
      [] m.kind = "uptime" -> StoreHub("uptime", m.mins)
      [] m.kind = "passage" -> StorePassage(m)
      [] m.kind = "report" -> StoreReport(m)
      [] m.kind = "times" /\ m.door \in served -> StoreTimes(m)
      [] OTHER -> db

\* Messages whose decoding or handling raises.  A pet door's message needs its row
\* in devices; a cat flap's is acknowledged, which needs that row and the
\* counter; one with nothing but a curfew's lock state meets a variable that is not
\* set; and of the times, already stored, a command can be made for a pet door only,
\* from one span.
Raises(m) ==
    \/ m.kind \in {"passage", "report"} /\ ~Known(m.door)
    \/ m.kind = "movement" /\ m.door \in served /\ (~Known(m.door) \/ m.door \notin db.counters)
    \/ m.kind = "curfewlock" /\ m.door \in served
    \/ m.kind = "times" /\ m.door \in served
       /\ ~(m.door \in PetDoors /\ Known(m.door) /\ m.door \in DOMAIN db.doors /\ OneSpan(m.text))

\* What the handler has to publish when it returns: nothing if it is not registered.
Publication(m) ==
    CASE m.kind = "online" /\ Hub \in served -> [to |-> "hub", field |-> "state", value |-> IF m.on THEN 1 ELSE 0]
      [] m.kind = "uptime" /\ Hub \in served -> [to |-> "hub", field |-> "uptime", value |-> m.mins]
      [] m.kind = "passage" /\ m.door \in served -> [to |-> "pets", pets |-> Named(m.door, m.index), value |-> m.dir]
      [] m.kind = "movement" /\ m.door \in served -> [to |-> "pets", pets |-> {m.pet} \cap db.pets, value |-> m.dir]
      [] m.kind = "report" /\ m.door \in served -> [to |-> "curfew", door |-> m.door, value |-> m.curfew]
      [] m.kind = "times" /\ m.door \in served ->
             [to |-> "door", door |-> m.door, value |-> CurfewCommand(StoreTimes(m).doors[m.door], "UPD")]
      [] OTHER -> [to |-> "nobody"]

\* Times that are stored overwrite what the doors have reported.
Overwritten(m) == IF m.kind = "times" /\ m.door \in served THEN PetDoors ELSE {}

\* The oldest message is decoded, and the tables are written.
Decode ==
    /\ up /\ pending = {} /\ inbox # <<>>
    /\ ~Raises(Head(inbox))
    /\ db' = Stored(Head(inbox))
    /\ touched' = (touched \/ db' # db)
    /\ pending' = {Publication(Head(inbox))}
    /\ inbox' = Tail(inbox)
    /\ missed' = missed \cup Overwritten(Head(inbox))
    /\ UNCHANGED <<todo, source, failed, up, served, shown, cmd, world, fresh, scenario>>

Published(topics, p) ==
    CASE p.to = "hub" -> [topics EXCEPT !.hub = [@ EXCEPT ![p.field] = p.value]]
      [] p.to = "pets" -> [topics EXCEPT !.pet = [q \in Pets |-> IF q \in p.pets THEN p.value ELSE @[q]]]
      [] p.to = "curfew" -> [topics EXCEPT !.curfew[p.door] =
                                [enabled |-> p.value.enabled, curfews |-> <<p.value.span>>]]
      [] OTHER -> topics

\* Mutant: without the MAC address, as the times are.
StoredAgainX(p) ==
    IF p.to = "curfew"
    THEN [db EXCEPT !.doors = [d \in DOMAIN @ |-> [@[d] EXCEPT !.enabled = p.value.enabled]]]
    ELSE db

\* A curfew's state, which decoding has stored already, is stored once more.
StoredAgain(p) ==
    IF p.to = "curfew"
    THEN [db EXCEPT !.doors =
             [d \in DOMAIN @ |-> IF d = p.door THEN [@[d] EXCEPT !.enabled = p.value.enabled] ELSE @[d]]]
    ELSE db

\* The handler returns, and what it has published goes out.
Return ==
    /\ \E p \in pending :
         /\ shown' = Published(shown, p)
         /\ db' = StoredAgain(p)
         /\ touched' = (touched \/ db' # db)
         /\ IF p.to = "door"
            THEN Len(cmd[p.door]) < MaxMessages /\ cmd' = [cmd EXCEPT ![p.door] = Append(@, p.value)]
            ELSE cmd' = cmd
    /\ pending' = {}
    /\ UNCHANGED <<todo, source, failed, up, served, inbox, world, missed, fresh, scenario>>

-----------------------------------------------------------------------------
(* The end of the service, and its start *)

\* The subjects of the messages that are lost.
Lost == UNION {CASE m.kind = "online" -> {Hub}
                 [] m.kind = "passage" -> {Slots[m.door][m.index]}
                 [] m.kind = "report" -> {m.door}
                 [] OTHER -> {} : m \in ToSet(inbox)}

Down ==
    /\ up' = FALSE /\ served' = {} /\ inbox' = <<>> /\ pending' = {}
    /\ UNCHANGED <<todo, source, failed, shown, cmd, world, fresh, scenario>>

\* A handler raises, the times of a message being stored already.
Die ==
    /\ up /\ pending = {} /\ inbox # <<>>
    /\ Raises(Head(inbox))
    /\ db' = IF Head(inbox).kind = "times" THEN Stored(Head(inbox)) ELSE db
    /\ touched' = (touched \/ db' # db)
    /\ missed' = missed \cup Lost \cup Overwritten(Head(inbox))
    /\ Down

\* The process ends between two steps.
Crash ==
    /\ up
    /\ missed' = missed \cup Lost
    /\ UNCHANGED <<db, touched>>
    /\ Down

\* Mutant: a cat flap is loaded without taking a number.
LoadsX(m) ==
    CASE m = Hub -> m \in DOMAIN db.hubs
      [] m \in Doors -> m \in DOMAIN db.doors
      [] m \in Feeders -> m \in db.feeders /\ m \in db.counters
      [] OTHER -> FALSE

\* What the startup loop needs of the tables for each kind of device; for a Felaqua
\* it asks for operations that do not exist.
Loads(m) ==
    CASE m = Hub -> m \in DOMAIN db.hubs
      [] m \in PetDoors -> m \in DOMAIN db.doors
      [] m \in CatFlaps -> m \in DOMAIN db.doors /\ m \in db.counters
      [] m \in Feeders -> m \in db.feeders /\ m \in db.counters
      [] OTHER -> FALSE

\* The first n devices load.
Load(n) == n <= Len(db.devices) /\ \A i \in 1 .. n : Loads(db.devices[i])

\* It gets through: devices and pets are not empty, and each device loads.
Starts == db.devices # <<>> /\ db.pets # {} /\ Load(Len(db.devices))

FirstDevices(n) == {db.devices[i] : i \in 1 .. n}

\* The topics after the first n devices have been loaded ...
DeviceTopics(n) ==
    LET loaded == FirstDevices(n)
    IN  [shown EXCEPT
            !.hub = IF Hub \in loaded THEN db.hubs[Hub] ELSE @,
            !.curfew = [d \in Doors |-> IF d \in loaded THEN db.doors[d] ELSE @[d]]]

AnimalState(s) == IF s = "1" THEN "Inside" ELSE "Outside"

\* ... and after the pets: one with rows for several doors is published for each,
\* in the order the query gives them.
PetTopics(topics, last) ==
    [topics EXCEPT !.pet = [p \in Pets |->
        IF p \in db.pets /\ DoorsOf(db, p) # {} THEN AnimalState(db.petstate[<<p, last[p]>>]) ELSE @[p]]]

\* The startup loops publish all devices and pets, and then the service subscribes.
Start ==
    /\ ~up /\ Starts
    /\ up' = TRUE
    /\ served' = ToSet(db.devices)
    /\ \E last \in [Pets -> Doors] :
         /\ \A p \in Pets : DoorsOf(db, p) # {} => last[p] \in DoorsOf(db, p)
         /\ shown' = PetTopics(DeviceTopics(Len(db.devices)), last)
    /\ fresh' = (todo = <<>>)
    /\ UNCHANGED <<buildVars, inbox, pending, cmd, world, missed, scenario>>

\* They end after some device, because the next one does not load or for another reason.
StartFails ==
    /\ ~up
    /\ \E n \in 1 .. Len(db.devices) : Load(n) /\ shown' = DeviceTopics(n)
    /\ UNCHANGED <<buildVars, up, served, inbox, pending, cmd, world, missed, fresh, scenario>>

-----------------------------------------------------------------------------
(* The database builder beside the service *)

Build ==
    /\ "build" \in scenario
    /\ (\E c \in Clouds : DropAndCreate(c)) \/ InsertRow
    /\ missed' = Subjects /\ fresh' = FALSE
    /\ UNCHANGED <<serviceVars, cmd, world, scenario>>

BuildStops ==
    /\ BuildEnds
    /\ UNCHANGED <<serviceVars, cmd, world, missed, fresh, scenario>>

-----------------------------------------------------------------------------
Environment ==
    \/ HubSwitches \/ HubUptime \/ SendAgain
    \/ \E d \in PetDoors :
         \/ \E i \in DOMAIN Slots[d], dir \in DoorDirections : Passage(d, i, dir)
         \/ DoorObeys(d) \/ CommandLost(d)
         \/ \E state \in {"ON", "OFF"} : CliCurfew(d, state)
    \/ \E d \in CatFlaps :
         \/ \E p \in Pets, dir \in FlapDirections : Movement(d, p, dir)
         \/ CurfewLock(d)
    \/ \E d \in Doors, text \in Texts : SetTimes(d, text)

Next ==
    \/ Environment
    \/ Decode \/ Return \/ Die \/ Crash
    \/ Start \/ StartFails
    \/ Build \/ BuildStops

Spec == Init /\ [][Next]_houseVars

-----------------------------------------------------------------------------
(* Properties *)

IsHubRow(r) == r = [state |-> r.state, uptime |-> r.uptime] /\ r.state \in Nat /\ r.uptime \in Nat
IsDoorRow(r) == r = [enabled |-> r.enabled, curfews |-> r.curfews] /\ r.enabled \in Nat

\* The tables have their columns, and their keys and rows are what they should be.
IsTables(t) ==
    /\ t = [devices |-> t.devices, hubs |-> t.hubs, doors |-> t.doors, feeders |-> t.feeders,
            counters |-> t.counters, tagmap |-> t.tagmap, pets |-> t.pets, petstate |-> t.petstate]
    /\ t.devices \in Seq(Devices)
    /\ DOMAIN t.hubs \subseteq {Hub} /\ \A h \in DOMAIN t.hubs : IsHubRow(t.hubs[h])
    /\ DOMAIN t.doors \subseteq Doors /\ \A d \in DOMAIN t.doors : IsDoorRow(t.doors[d])
    /\ t.feeders \subseteq Bowls /\ t.counters \subseteq Bowls \cup CatFlaps /\ t.pets \subseteq Pets

IsStatement(s) ==
    /\ s = Into(s.table, s.key, s.row)
    /\ CASE s.table = "devices" -> s.key \in Devices
         [] s.table = "hubs" -> s.key = Hub /\ IsHubRow(s.row)
         [] s.table = "doors" -> s.key \in Doors /\ IsDoorRow(s.row)
         [] s.table = "feeders" -> s.key \in Bowls
         [] s.table = "counters" -> s.key \in Bowls \cup CatFlaps
         [] s.table = "pets" -> s.key \in Pets
         [] OTHER -> s.table \in {"tagmap", "petstate", "raise"}

IsMessage(m) ==
    CASE m.kind = "online" -> m.on \in BOOLEAN
      [] m.kind = "uptime" -> m.mins \in Nat
      [] m.kind = "passage" -> m.door \in PetDoors /\ m.index \in DOMAIN Slots[m.door]
      [] m.kind = "report" -> m.door \in PetDoors /\ m.curfew \in Registers
      [] m.kind = "movement" -> m.door \in CatFlaps /\ m.pet \in Pets
      [] m.kind = "curfewlock" -> m.door \in CatFlaps
      [] m.kind = "times" -> m.door \in Doors /\ m.text \in Texts
      [] OTHER -> FALSE

IsPublication(p) ==
    CASE p.to = "hub" -> p.field \in {"state", "uptime"} /\ p.value \in Nat
      [] p.to = "pets" -> p.pets \subseteq Pets
      [] p.to = "curfew" -> p.door \in PetDoors /\ p.value \in Registers
      [] p.to = "door" -> p.door \in PetDoors /\ p.value \in Registers
      [] OTHER -> p.to = "nobody"

\* Type invariant.
TypeOK ==
    /\ IsTables(db)
    /\ \A i \in DOMAIN todo : todo[i] # <<>> /\ \A j \in DOMAIN todo[i] : IsStatement(todo[i][j])
    /\ source \in Clouds /\ failed \in Nat /\ touched \in BOOLEAN
    /\ up \in BOOLEAN /\ served \subseteq Devices
    /\ \A i \in DOMAIN inbox : IsMessage(inbox[i])
    /\ \A p, q \in pending : IsPublication(p) /\ p = q
    /\ ~up => served = {} /\ inbox = <<>> /\ pending = {}
    /\ IsHubRow(shown.hub) /\ \A d \in Doors : IsDoorRow(shown.curfew[d])
    /\ \A d \in PetDoors : \A i \in DOMAIN cmd[d] : cmd[d][i] \in Registers
    /\ hubOn \in BOOLEAN /\ side \in [Pets -> {"in", "out"}]
    /\ via \in [Pets -> Doors \cup {NoMac}] /\ own \in [PetDoors -> Registers]
    /\ missed \subseteq Subjects /\ fresh \in BOOLEAN /\ scenario \in Scenarios

AtRest == up /\ inbox = <<>> /\ pending = {}

\* Home Assistant shows the hub as it is, once everything it said has been handled, whatever
\* crashes, starts and repetitions lie between; unless the hub spoke to a stopped
\* service, or a build has put the cloud's view into the tables.
HubTells ==
    AtRest /\ Hub \notin missed /\ Hub \in served /\ Hub \in DOMAIN db.hubs =>
        shown.hub.state = IF hubOn THEN 1 ELSE 0

\* A pet is shown on the side it is on, if it last went through a pet door that has
\* its one row in petstate.
PetTells ==
    \A d \in PetDoors : \A i \in DOMAIN Slots[d] :
        LET p == Slots[d][i]
        IN  /\ AtRest /\ p \notin missed /\ via[p] = d /\ d \in served
            /\ p \in Named(d, i) /\ DoorsOf(db, p) = {d}
            => shown.pet[p] \in IF side[p] = "in" THEN Inwards ELSE DoorDirections \ Inwards

\* A pet door's curfew is in the table and in Home Assistant as the door has it, after each
\* change of it that the service could hear of, unless times were set, for any
\* door, that the door has not confirmed.
CurfewTells ==
    \A d \in PetDoors :
        AtRest /\ d \notin missed /\ d \in served /\ d \in DOMAIN db.doors =>
            LET row == [enabled |-> own[d].enabled, curfews |-> <<own[d].span>>]
            IN  db.doors[d] = row /\ shown.curfew[d] = row

\* Between handlers, and until the next build, Home Assistant shows the hub and whether
\* the curfews are on as the tables have it, which is what the next start will show.
HouseShownIsStored ==
    up /\ pending = {} /\ fresh =>
        /\ Hub \in served => shown.hub = db.hubs[Hub]
        /\ \A d \in Doors \cap served : shown.curfew[d].enabled = db.doors[d].enabled

\* Until the next build a device the service has loaded cannot end it by reporting
\* passages, movements or its curfew: the loop has tried what the handlers need.
LoadedIsSafe ==
    up /\ fresh => \A i \in DOMAIN inbox :
        inbox[i].kind \in {"passage", "report", "movement"} /\ inbox[i].door \in served => ~Raises(inbox[i])

\* After a build without a failed statement the service starts, if there are a pet and
\* a device and no Felaqua, whatever the service writes meanwhile.
BuiltStarts ==
    Built /\ source.pets # <<>> /\ source.devices # <<>> /\ ToSet(source.devices) \cap Felaquas = {} => Starts

\* What setting the times of a curfew is taken for: it leaves the curfew on if it is.
TimeChangeKeepsCurfew ==
    [][\A d \in PetDoors : own[d].span # own'[d].span => own[d].enabled = own'[d].enabled]_houseVars
=============================================================================
