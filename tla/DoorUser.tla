----------------------------- MODULE DoorUser -----------------------------
(***************************************************************************)
(* The promise behind the three switches of a door: what the user asks for *)
(* is what the door ends up doing.  DoorControl composed with a user who   *)
(* remembers what was asked.                                               *)
(*                                                                         *)
(* The service works out an absolute lock mode from a remembered one, so   *)
(* the promise depends on how the switches are used.  Habits lists what    *)
(* this user does besides flipping one switch of a settled door:           *)
(*   "repeat"  send a switch the value it already has (an automation does) *)
(*   "hurry"   use a second switch before the door has answered            *)
(*   "curfew"  use KeepIn or KeepOut while the curfew mode is on           *)
(* The user is the only one to command the doors, the radio loses nothing, *)
(* and the service is restarted only when all is quiet.                    *)
(***************************************************************************)
EXTENDS DoorControl

CONSTANT Habits

ASSUME HabitsAssumption == Habits \subseteq {"repeat", "hurry", "curfew"}

VARIABLE wanted  \* wanted[d]: the switch positions the user asked for

userVars == <<vars, wanted>>

SwitchesOf(view) == [key \in Switches |-> view[key]]

\* Nothing about door d is on its way.
Settled(d) ==
    /\ up /\ pending = {} /\ cmd[d] = <<>> /\ reports[d] = <<>>
    /\ \A i \in 1 .. Len(sets) : sets[i].door # d

UserInit == Init /\ wanted = [d \in Doors |-> SwitchesOf(ViewOf(db[d]))]

\* The switches a door has callbacks for.
Controls(d) == IF d \in CatFlaps THEN {"KeepIn", "KeepOut"} ELSE Switches

\* Curfew is a lock mode of its own: it takes the place of the other two.
Wish(w, key, val) ==
    [k \in Switches |-> IF k = key THEN val
                        ELSE IF "Curfew" \in {k, key} THEN "OFF" ELSE w[k]]

Flip(d, key, val) ==
    /\ key \in Controls(d)
    /\ Settled(d) \/ "hurry" \in Habits
    /\ ha[d][key] # val \/ "repeat" \in Habits
    /\ key = "Curfew" \/ ha[d].Curfew = "OFF" \/ "curfew" \in Habits
    /\ HasRoomFor(1) /\ HASet(d, key, val)
    /\ wanted' = [wanted EXCEPT ![d] = Wish(@, key, val)]

Executes(d) == cmd[d] # <<>> /\ \E m \in Messages(d) : DeviceStep(d, m)

Transport(d) == Executes(d) \/ CommandsAgain(d) \/ ReportsAgain(d)

CalmCrash == (\A d \in Doors : Settled(d)) /\ Crash

UserNext ==
    \/ \E d \in Doors, key \in Switches, val \in OnOff : Flip(d, key, val)
    \/ (Service \/ (\E d \in Doors : Transport(d)) \/ CalmCrash \/ Start) /\ UNCHANGED wanted

\* loop_forever takes the messages of its one socket in the order they arrive,
\* so none waits for ever (strong fairness: a callback in progress disables the
\* others again and again); a callback goes on and returns; a device in reach executes its
\* commands.  Nothing restarts a dead service: Start is not fair.
Fairness ==
    /\ SF_userVars(HandleSet /\ UNCHANGED wanted)
    /\ WF_userVars((StoreFrame \/ Publish) /\ UNCHANGED wanted)
    /\ \A d \in Doors : /\ SF_userVars(DecodeReport(d) /\ UNCHANGED wanted)
                        /\ WF_userVars(Executes(d) /\ UNCHANGED wanted)

UserSpec == UserInit /\ [][UserNext]_userVars /\ Fairness

-----------------------------------------------------------------------------
\* Whenever a door has settled, Home Assistant shows, and the lock is in, the
\* position the user asked for, across redeliveries and restarts.
SettledAsWanted ==
    \A d \in Doors : Settled(d) =>
        /\ SwitchesOf(ha[d]) = wanted[d]
        /\ SwitchesOf(ViewOf(lock[d])) = wanted[d]

\* Every request takes effect: it is shown unless the service stops or the user
\* asks for something else first.
RequestTakesEffect ==
    \A d \in Doors : \A w \in [Switches -> OnOff] :
        (up /\ wanted[d] = w) ~> (~up \/ wanted[d] # w \/ SwitchesOf(ha[d]) = w)
=============================================================================
