------------------------------- MODULE Feeder -------------------------------
(***************************************************************************)
(* Feeders with two bowls: the device keeps every event until the service  *)
(* acknowledges it and sends up to MaxFrames of them in one message        *)
(* (docs/Feeder.md: "it can send two messages in a single payload").  The  *)
(* service stores a message frame by frame while decoding it, then         *)
(* acknowledges all of its frames and publishes the first.                 *)
(*                                                                         *)
(* Every event leaves weights of its own in the bowls, and the animal a    *)
(* meal of its own, so that the number of the event stands for each.       *)
(* Frames other than Feed touch none of this state and are left out.       *)
(***************************************************************************)
EXTENDS Naturals, Sequences, FiniteSets

CONSTANTS
    Feeders,      \* MAC addresses with product_id 4 and bowltype 2
    Pets,         \* tags in the table `pets`, with a row in `petstate` for each feeder
    Strays,       \* tags that are not in it
    MaxFrames,    \* frames in one message
    MaxEvents,    \* bound: events of one feeder
    MaxInFlight   \* bound: messages and acknowledgements of one feeder on their
                  \* way when it sends another one

ASSUME FeederAssumption ==
    /\ MaxFrames \in Nat \ {0} /\ MaxEvents \in Nat /\ MaxInFlight \in Nat
    /\ Pets \cap Strays = {} /\ "Manual" \notin Pets \cup Strays

VARIABLES
    log,       \* log[f]: what has happened at the feeder
    outbox,    \* outbox[f]: the events of it that are not acknowledged yet
    wire,      \* wire[f]: messages waiting for pethub, each a set of events,
               \* whose frames are in their order
    acks,      \* acks[f]: acknowledgements waiting for the feeder
    up,        \* the pethub process is running and subscribed
    pending,   \* the message whose callback is running, if any
    bowl,      \* feeders.bowl1 and bowl2
    ate,       \* ate[p][f]: petstate.state
    shown,     \* shown[f]: the bowl and status topics of the feeder
    shownPet,  \* shownPet[a]: the bowl topic of an animal, <<feeder, event>>
    odd,       \* history: feeders that sent several frames at once, or had an
               \* intruder, since the service started
    repeated,  \* history: feeders whose messages were delivered again
    doubtful   \* history: feeders that missed an acknowledgement, or whose repeated
               \* messages may have been cut short by a death of the service

device  == <<log, outbox>>
stored  == <<bowl, ate>>
topics  == <<shown, shownPet>>
faults  == <<repeated, doubtful>>
feederVars == <<device, wire, acks, up, pending, stored, topics, odd, faults>>

Animals == Pets \cup Strays

\* FeederState, without the zeroing of the scales, which leaves the lid alone.
Opens  == {"Animal_Open", "Manual_Open"}
Closes == {"Animal_Closed", "Intruder_Closed", "Manual_Closed"}
Manual == {"Manual_Open", "Manual_Closed"}

Events == {e \in [action : Opens \cup Closes, animal : Animals \cup {"Manual"}] :
              (e.action \in Manual) = (e.animal = "Manual")}

\* The events whose weights are stored, and those that are stored for the pet.
KeepsBowl(e) == e.action \in {"Animal_Closed", "Manual_Closed"}
KeepsMeal(e) == e.action = "Animal_Closed" /\ e.animal \in Pets

\* The weights of both bowls after the event n.
Both(n) == [left |-> n, right |-> n]
Weights == [left : Nat, right : Nat]

Nothing == [bowl |-> Both(0), action |-> "unset"]

Init ==
    /\ log = [f \in Feeders |-> <<>>]
    /\ outbox = [f \in Feeders |-> {}]
    /\ wire = [f \in Feeders |-> <<>>]
    /\ acks = [f \in Feeders |-> <<>>]
    /\ up = FALSE
    /\ pending = {}
    /\ bowl = [f \in Feeders |-> Both(0)]
    /\ ate = [p \in Pets |-> [f \in Feeders |-> 0]]
    /\ shown = [f \in Feeders |-> Nothing]
    /\ shownPet = [a \in Animals |-> <<>>]
    /\ odd = {} /\ repeated = {} /\ doubtful = {}

-----------------------------------------------------------------------------
(* The feeder and the way to it *)

\* What can happen after the event `last`: an open lid is closed by hand, or, if
\* an animal opened it, when that animal leaves or an intruder turns up.  The first
\* event may be any: the log starts somewhere in the feeder's life.
Follows(e, last) ==
    CASE last.action \notin Opens -> e.action \in Opens
      [] last.action = "Manual_Open" -> e.action = "Manual_Closed"
      [] OTHER -> /\ e.action \in Closes
                  /\ e.action = "Animal_Closed" => e.animal = last.animal

\* The lid opens or closes.
Event(f, e) ==
    /\ Len(log[f]) < MaxEvents
    /\ log[f] # <<>> => Follows(e, log[f][Len(log[f])])
    /\ log' = [log EXCEPT ![f] = Append(@, e)]
    /\ outbox' = [outbox EXCEPT ![f] = @ \cup {Len(log[f]) + 1}]
    /\ UNCHANGED <<wire, acks, up, pending, stored, topics, odd, faults>>

Oldest(events) == {n \in events : \A m \in events : n <= m}

\* The events that fit into a message: as many of the oldest as it takes.
Batch(events) == {n \in events : Cardinality({m \in events : m < n}) < MaxFrames}

\* The feeder sends what it has no acknowledgement for.  A message is not kept
\* for a pethub that is down: its MQTT session is a clean one.
Send(f) ==
    /\ outbox[f] # {} /\ Len(wire[f]) + Len(acks[f]) < MaxInFlight
    /\ wire' = IF up THEN [wire EXCEPT ![f] = Append(@, Batch(outbox[f]))] ELSE wire
    /\ UNCHANGED <<device, acks, up, pending, stored, topics, odd, faults>>

\* QoS 1: after a reconnect the broker bridge sends again, in order, the
\* messages that were not acknowledged.
SendAgain(f) ==
    /\ wire[f] # <<>> /\ 2 * Len(wire[f]) + Len(acks[f]) <= MaxInFlight
    /\ wire' = [wire EXCEPT ![f] = @ \o @]
    /\ repeated' = repeated \cup {f}
    /\ UNCHANGED <<device, acks, up, pending, stored, topics, odd, doubtful>>

AckArrives(f) ==
    /\ acks[f] # <<>>
    /\ outbox' = [outbox EXCEPT ![f] = @ \ {Head(acks[f])}]
    /\ acks' = [acks EXCEPT ![f] = Tail(@)]
    /\ UNCHANGED <<log, wire, up, pending, stored, topics, odd, faults>>

\* The feeder is out of radio reach.
AckLost(f) ==
    /\ acks[f] # <<>>
    /\ acks' = [acks EXCEPT ![f] = Tail(@)]
    /\ doubtful' = doubtful \cup {f}
    /\ UNCHANGED <<device, wire, up, pending, stored, topics, odd, repeated>>

-----------------------------------------------------------------------------
(* The pethub service: one callback at a time *)

\* Mutant: the first frame is acknowledged before it is stored.
ReceiveAndAck(f) ==
    /\ up /\ pending = {} /\ wire[f] # <<>>
    /\ pending' = {[feeder |-> f, left |-> Head(wire[f]), done |-> <<>>]}
    /\ wire' = [wire EXCEPT ![f] = Tail(@)]
    /\ \E n \in Oldest(Head(wire[f])) : acks' = [acks EXCEPT ![f] = Append(@, n)]
    /\ UNCHANGED <<device, up, stored, topics, odd, faults>>

\* on_feeder_hub_message is called with the oldest message.
Receive(f) ==
    /\ up /\ pending = {} /\ wire[f] # <<>>
    /\ pending' = {[feeder |-> f, left |-> Head(wire[f]), done |-> <<>>]}
    /\ wire' = [wire EXCEPT ![f] = Tail(@)]
    /\ UNCHANGED <<device, acks, up, stored, topics, odd, faults>>

\* What the number n of a feeder's log was.
EventOf(f, n) == log[f][n]

\* parseframe commits the pet's row first ...
StoreMeal(f, n) ==
    LET e == EventOf(f, n)
    IN  ate' = IF KeepsMeal(e) THEN [ate EXCEPT ![e.animal][f] = n] ELSE ate

\* ... and then the bowls of the feeder.
StoreBowl(f, n) ==
    bowl' = IF KeepsBowl(EventOf(f, n)) THEN [bowl EXCEPT ![f] = Both(n)] ELSE bowl

\* The commit of the left bowl without that of the right.
StoreLeft(f, n) ==
    bowl' = IF KeepsBowl(EventOf(f, n)) THEN [bowl EXCEPT ![f].left = n] ELSE bowl

\* Mutant: the counter of a frame is read from the next one.
StoreFrameMisread ==
    /\ \E r \in pending : \E n \in Oldest(r.left) :
         /\ StoreMeal(r.feeder, n) /\ StoreBowl(r.feeder, n)
         /\ pending' = {[r EXCEPT !.left = @ \ {n}, !.done = Append(@, n + 1)]}
    /\ UNCHANGED <<device, wire, acks, up, topics, odd, faults>>

\* parsemultiframe: the next frame of the message.
StoreFrame ==
    /\ \E r \in pending : \E n \in Oldest(r.left) :
         /\ StoreMeal(r.feeder, n) /\ StoreBowl(r.feeder, n)
         /\ pending' = {[r EXCEPT !.left = @ \ {n}, !.done = Append(@, n)]}
    /\ UNCHANGED <<device, wire, acks, up, topics, odd, faults>>

\* Mutant: the last frame is taken for the message info and not acknowledged.
AckAllButLast(r) ==
    acks' = [acks EXCEPT ![r.feeder] = @ \o SubSeq(r.done, 1, Len(r.done) - 1)]

\* Every frame of the message is acknowledged.
AckAll(r) == acks' = [acks EXCEPT ![r.feeder] = @ \o r.done]

\* Mutant: the bowl is published when the lid opens, too.
PublishAlways(r) ==
    LET n == Head(r.done)
        e == EventOf(r.feeder, n)
    IN  /\ shown' = [shown EXCEPT ![r.feeder] = [bowl |-> Both(n), action |-> e.action]]
        /\ shownPet' = IF e.action \in Closes /\ e.animal # "Manual"
                       THEN [shownPet EXCEPT ![e.animal] = <<r.feeder, n>>] ELSE shownPet

\* The first frame only: the state of the lid, and when it closed the bowl and
\* what the animal ate.
PublishFirst(r) ==
    LET n == Head(r.done)
        e == EventOf(r.feeder, n)
    IN  /\ shown' = [shown EXCEPT ![r.feeder] =
                         [bowl |-> IF e.action \in Closes THEN Both(n) ELSE @.bowl, action |-> e.action]]
        /\ shownPet' = IF e.action \in Closes /\ e.animal # "Manual"
                       THEN [shownPet EXCEPT ![e.animal] = <<r.feeder, n>>] ELSE shownPet

IsOdd(r) == Len(r.done) > 1 \/ EventOf(r.feeder, Head(r.done)).action = "Intruder_Closed"

\* The callback returns, and what it has published goes out.
Return ==
    /\ \E r \in pending :
         /\ r.left = {}
         /\ AckAll(r) /\ PublishFirst(r)
         /\ odd' = IF IsOdd(r) THEN odd \cup {r.feeder} ELSE odd
    /\ pending' = {}
    /\ UNCHANGED <<device, wire, up, stored, faults>>

\* The process ends, between two messages, two frames or two commits of one.
Crash ==
    /\ up
    /\ up' = FALSE
    /\ \/ UNCHANGED stored
       \/ \E r \in pending : \E n \in Oldest(r.left) :
            StoreMeal(r.feeder, n) /\ (UNCHANGED bowl \/ StoreLeft(r.feeder, n))
    /\ pending' = {}
    /\ wire' = [f \in Feeders |-> <<>>]
    /\ doubtful' = doubtful \cup repeated
    /\ UNCHANGED <<device, acks, topics, odd, repeated>>

\* The startup loop publishes every feeder and every pet from the database.  A
\* pet has a row per feeder and one topic; the query gives the rows no order.
Start ==
    /\ ~up
    /\ up' = TRUE
    /\ shown' = [f \in Feeders |-> [bowl |-> bowl[f], action |-> "Closed"]]
    /\ \E last \in [Pets -> Feeders] :
         shownPet' = [a \in Animals |-> IF a \in Pets THEN <<last[a], ate[a][last[a]]>>
                                                     ELSE shownPet[a]]
    /\ odd' = {}
    /\ UNCHANGED <<device, wire, acks, pending, stored, faults>>

-----------------------------------------------------------------------------
Environment(f) ==
    \/ \E e \in Events : Event(f, e)
    \/ Send(f) \/ SendAgain(f)
    \/ AckArrives(f) \/ AckLost(f)

Next ==
    \/ \E f \in Feeders : Environment(f) \/ Receive(f)
    \/ StoreFrame \/ Return
    \/ Crash \/ Start

\* The feeder repeats what is not acknowledged; loop_forever takes the messages
\* of its one socket in order; a callback returns.  Nothing restarts a dead
\* service: Start is not fair.
Fairness ==
    /\ WF_feederVars(StoreFrame) /\ WF_feederVars(Return)
    /\ \A f \in Feeders :
         /\ WF_feederVars(Send(f)) /\ WF_feederVars(AckArrives(f)) /\ SF_feederVars(Receive(f))

Spec == Init /\ [][Next]_feederVars
FairSpec == Spec /\ Fairness

-----------------------------------------------------------------------------
Numbers(f) == 1 .. Len(log[f])

\* What is waiting, sent, in work, stored, acknowledged or shown has happened.
Happened ==
    \A f \in Feeders :
        /\ outbox[f] \subseteq Numbers(f)
        /\ \A i \in 1 .. Len(wire[f]) : wire[f][i] # {} /\ wire[f][i] \subseteq Numbers(f)
        /\ \A i \in 1 .. Len(acks[f]) : acks[f][i] \in Numbers(f)
        /\ bowl[f].left \in Numbers(f) \cup {0} /\ bowl[f].right \in Numbers(f) \cup {0}
        /\ \A p \in Pets : ate[p][f] \in Numbers(f) \cup {0}
        /\ shown[f].bowl.left \in Numbers(f) \cup {0}
        /\ shown[f].bowl.right \in Numbers(f) \cup {0}

\* One callback runs at a time, on a message with at least one frame.
PendingOK ==
    /\ \A r \in pending : /\ r \in [feeder : Feeders, left : SUBSET Nat, done : Seq(Nat)]
                          /\ r.left \subseteq Numbers(r.feeder)
                          /\ \A i \in 1 .. Len(r.done) : r.done[i] \in Numbers(r.feeder)
                          /\ r.left # {} \/ r.done # <<>>
    /\ \A r, s \in pending : r = s
    /\ pending # {} => up

\* Type invariant, with the above.
TypeOK ==
    /\ log \in [Feeders -> Seq(Events)]
    /\ outbox \in [Feeders -> SUBSET Nat] /\ wire \in [Feeders -> Seq(SUBSET Nat)]
    /\ acks \in [Feeders -> Seq(Nat)]
    /\ up \in BOOLEAN
    /\ bowl \in [Feeders -> Weights] /\ ate \in [Pets -> [Feeders -> Nat]]
    /\ shown \in [Feeders -> [bowl : Weights, action : Opens \cup Closes \cup {"unset", "Closed"}]]
    /\ shownPet \in [Animals -> {<<>>} \cup (Feeders \X Nat)]
    /\ odd \subseteq Feeders /\ repeated \subseteq Feeders /\ doubtful \subseteq Feeders
    /\ Happened /\ PendingOK

AtRest(f) == wire[f] = <<>> /\ \A r \in pending : r.feeder # f

\* An event the feeder no longer keeps is in the database, or a newer one is:
\* the service may die anywhere between storing and acknowledging.  It takes a
\* lost acknowledgement, or a repeated message cut short by a death, for an
\* older event to overwrite a newer one for good.  (Or messages of more than two
\* frames, with two events to store in one that the feeder itself sends again.)
AcknowledgedIsStored ==
    \A f \in Feeders :
        AtRest(f) /\ f \notin doubtful =>
            \A n \in Numbers(f) \ outbox[f] : KeepsBowl(log[f][n]) => bowl[f].left >= n /\ bowl[f].right >= n

\* Between callbacks of a running service Home Assistant shows the weights the
\* database holds, of a feeder and of what a pet ate, unless since the start of
\* the service several frames came in a message or an intruder closed the lid.
ShownIsStored ==
    up /\ pending = {} =>
        /\ \A f \in Feeders \ odd : shown[f].bowl = bowl[f]
        /\ odd = {} => \A p \in Pets : \E f \in Feeders : shownPet[p] = <<f, ate[p][f]>>

\* When the feeder stays in reach and the broker's bridge connected from some time
\* on, every event is acknowledged in the end, unless the service stops.
AcknowledgedInTheEnd ==
    <>[][\A f \in Feeders : ~ SendAgain(f) /\ ~ AckLost(f)]_feederVars =>
    \A f \in Feeders : \A n \in 1 .. MaxEvents :
        (up /\ n \in outbox[f]) ~> (~up \/ n \notin outbox[f])

\* What reading all frames of a message leads one to expect: however many come at
\* once, the bowl shown is the bowl stored, where no intruder has closed the lid.
ShownAtRest ==
    \A f \in Feeders :
        /\ up /\ AtRest(f)
        /\ \A n \in 1 .. Len(log[f]) : log[f][n].action # "Intruder_Closed"
        => shown[f].bowl = bowl[f]
=============================================================================
