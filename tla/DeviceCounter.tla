--------------------------- MODULE DeviceCounter ---------------------------
(***************************************************************************)
(* The send counter of feeders, cat flaps and Felaquas.  generatemessage   *)
(* takes the next number from the table `devicecounter` by a SELECT and a  *)
(* later UPDATE, puts it on the message and hands the message back to be   *)
(* published.  pethubmqtt.py is one such process for its whole life; every *)
(* call of cli.py is another, on a connection of its own.                  *)
(***************************************************************************)
EXTENDS Naturals, Sequences

CONSTANTS
    Feeders, CatFlaps, Felaquas,  \* devices by product
    Processes,                    \* the processes that generate messages
    Largest,                      \* 65535: the last value before the reset to 0
    MaxCalls                      \* bound: counted updates per device

Devices == Feeders \cup CatFlaps \cup Felaquas

ASSUME CounterAssumption ==
    /\ Largest \in Nat /\ MaxCalls \in Nat
    /\ Feeders \cap (CatFlaps \cup Felaquas) = {} /\ CatFlaps \cap Felaquas = {}

VARIABLES
    send,     \* send[d]: the column of that name
    at,       \* at[p]: where process p is in generatemessage
    job,      \* job[p]: the device and the kind of the message, <<>> when idle
    got,      \* got[p]: devc.send
    wire,     \* wire[d]: the numbered messages published, in order
    updates   \* history: how often the row of d was updated

counterVars == <<send, at, job, got, wire, updates>>

\* "set": an operation with a value it accepts; "invalid": with one it rejects,
\* or whose conversion raises; "ack": an acknowledgement.
Kinds == {"set", "invalid", "ack"}
Field == 0 .. Largest

Init ==
    /\ send \in [Devices -> Field]
    /\ at = [p \in Processes |-> "idle"]
    /\ job = [p \in Processes |-> <<>>]
    /\ got = [p \in Processes |-> 0]
    /\ wire = [d \in Devices |-> <<>>]
    /\ updates = [d \in Devices |-> 0]

\* An acknowledgement to a feeder returns before the counter is touched, and so
\* does a value rejected for a cat flap; those for the others are rejected later.
TakesNumber(d, k) ==
    /\ ~ (d \in Feeders /\ k = "ack")
    /\ ~ (d \in CatFlaps /\ k = "invalid")

\* A cat flap's acknowledgement takes a number and carries the device's own; a
\* Felaqua's cannot be converted ("0c-5" is no number) and raises.
CarriesNumber(k) == k = "set"

Idle(p) ==
    /\ at' = [at EXCEPT ![p] = "idle"]
    /\ job' = [job EXCEPT ![p] = <<>>]
    /\ got' = [got EXCEPT ![p] = 0]

Generate(p, d, k) ==
    /\ at[p] = "idle" /\ updates[d] < MaxCalls
    /\ TakesNumber(d, k)
    /\ job' = [job EXCEPT ![p] = <<d, k>>]
    /\ at' = [at EXCEPT ![p] = "select"]
    /\ UNCHANGED <<send, got, wire, updates>>

\* Mutant: past the end of the field the counter stays where it is.
IncrementSticks(n) == IF n + 1 > Largest THEN Largest ELSE n + 1

\* Mutant: the reset comes one number too late.
IncrementLateReset(n) == IF n > Largest THEN 0 ELSE n + 1

\* devc.send, with the reset "if larger than 65535".
Increment(n) == IF n + 1 > Largest THEN 0 ELSE n + 1

Select(p) ==
    /\ at[p] = "select"
    /\ got' = [got EXCEPT ![p] = Increment(send[job[p][1]])]
    /\ at' = [at EXCEPT ![p] = "update"]
    /\ UNCHANGED <<send, job, wire, updates>>

\* Mutant: a number that goes on no message is not written back.
UpdateIfCarried(p) ==
    LET d == job[p][1]
    IN  /\ at[p] = "update"
        /\ send' = IF CarriesNumber(job[p][2]) THEN [send EXCEPT ![d] = got[p]] ELSE send
        /\ updates' = [updates EXCEPT ![d] = @ + 1]
        /\ at' = [at EXCEPT ![p] = "reply"]
        /\ UNCHANGED <<job, got, wire>>

Update(p) ==
    LET d == job[p][1]
    IN  /\ at[p] = "update"
        /\ send' = [send EXCEPT ![d] = got[p]]
        /\ updates' = [updates EXCEPT ![d] = @ + 1]
        /\ at' = [at EXCEPT ![p] = "reply"]
        /\ UNCHANGED <<job, got, wire>>

\* The message is returned and published, or an error is returned or raised.
Reply(p) ==
    LET d == job[p][1]
    IN  /\ at[p] = "reply"
        /\ wire' = IF CarriesNumber(job[p][2])
                   THEN [wire EXCEPT ![d] = Append(@, [number |-> got[p], count |-> updates[d]])]
                   ELSE wire
        /\ Idle(p)
        /\ UNCHANGED <<send, updates>>

\* The process ends between two statements; the next one starts from the table.
Die(p) ==
    /\ at[p] # "idle"
    /\ Idle(p)
    /\ UNCHANGED <<send, wire, updates>>

Next ==
    \E p \in Processes :
        \/ \E d \in Devices, k \in Kinds : Generate(p, d, k)
        \/ Select(p) \/ Update(p) \/ Reply(p) \/ Die(p)

Spec == Init /\ [][Next]_counterVars

-----------------------------------------------------------------------------
\* Type invariant: a process past its SELECT works for a device, on a number
\* that fits the two bytes it is written to.
TypeOK ==
    /\ send \in [Devices -> Field]
    /\ at \in [Processes -> {"idle", "select", "update", "reply"}]
    /\ job \in [Processes -> {<<>>} \cup (Devices \X Kinds)]
    /\ \A p \in Processes : at[p] # "idle" => job[p] \in Devices \X Kinds
    /\ got \in [Processes -> Field]
    /\ wire \in [Devices -> Seq([number : Field, count : Nat])]
    /\ updates \in [Devices -> Nat]

\* Two messages to one device carry the same number only a full cycle of the
\* counter apart, whatever was rejected, acknowledged or lost in between.
NoReuse ==
    \A d \in Devices : \A i, j \in 1 .. Len(wire[d]) :
        i < j /\ wire[d][i].number = wire[d][j].number
            => wire[d][j].count - wire[d][i].count > Largest

\* The numbers that are neither in the table's future nor on a message yet.
Held(d) == {got[p] : p \in {q \in Processes : at[q] = "reply" /\ job[q][1] = d}}

T == INSTANCE Tickets WITH
         last <- send,
         held <- [d \in Devices |-> Held(d)],
         wire <- [d \in Devices |-> [i \in DOMAIN wire[d] |-> wire[d][i].number]]

\* A single process using the counter hands out tickets as Tickets specifies:
\* SELECT and UPDATE together look like one step.
ImplementsTickets == T!TicketSpec
=============================================================================
