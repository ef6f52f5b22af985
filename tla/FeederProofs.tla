---------------------------- MODULE FeederProofs ----------------------------
(***************************************************************************)
(* Proofs about Feeder, for any feeders, animals and bounds: its type      *)
(* invariant; that Home Assistant shows what the database holds unless     *)
(* frames came several at once or an intruder closed the lid; and that     *)
(* what a feeder may forget is in the database, if its messages have two   *)
(* frames at most.                                                         *)
(***************************************************************************)
EXTENDS Feeder, FiniteSetTheorems, SequenceTheorems, WellFoundedInduction, TLAPS

\* A message is never empty: the oldest of the events fits into it.
LEMMA OldestExists ==
  ASSUME NEW S \in SUBSET Nat, S # {}
  PROVE  \E n \in S : \A m \in S : n <= m
<1> DEFINE R == OpToRel(<, Nat)
<1>1. IsWellFoundedOn(R, Nat)
  BY NatLessThanWellFounded
<1>2. \A m, n \in Nat : m < n => <<m, n>> \in R
  BY DEF OpToRel
<1> HIDE DEF R
<1>3. PICK n \in S : \A m \in S : ~ (<<m, n>> \in R)
  BY <1>1, WFMin
<1>4. \A m \in S : ~ (m < n)
  BY <1>2, <1>3
<1>5. QED
  BY <1>4

LEMMA BatchHasEvents ==
  ASSUME NEW S \in SUBSET Nat, S # {}
  PROVE  Batch(S) # {} /\ Batch(S) \subseteq S
<1>1. PICK n \in S : \A m \in S : n <= m
  BY OldestExists
<1>2. {m \in S : m < n} = {}
  <2>1. \A m \in S : m \in Nat /\ n \in Nat /\ n <= m
    BY <1>1
  <2>2. \A m \in S : ~ (m < n)
    BY <2>1
  <2>3. QED
    BY <2>2
<1>3. Cardinality({m \in S : m < n}) < MaxFrames
  BY <1>2, FS_EmptySet, FeederAssumption
<1>4. QED
  BY <1>3 DEF Batch

-----------------------------------------------------------------------------
(* Queues of messages and of acknowledgements under one step. *)

\* A queue of messages about events of S, none of them empty.
MessagesOf(q, S) == /\ q \in Seq(SUBSET Nat)
                    /\ \A i \in 1 .. Len(q) : q[i] # {} /\ q[i] \subseteq S

NumbersIn(q, S) == q \in Seq(Nat) /\ \A i \in 1 .. Len(q) : q[i] \in S

LEMMA MessagesTail ==
  ASSUME NEW S, NEW q, MessagesOf(q, S), q # <<>>
  PROVE  MessagesOf(Tail(q), S) /\ Head(q) # {} /\ Head(q) \subseteq S /\ Head(q) \in SUBSET Nat
  BY DEF MessagesOf

LEMMA MessagesAppend ==
  ASSUME NEW S, NEW q, MessagesOf(q, S), NEW m \in SUBSET Nat, m # {}, m \subseteq S
  PROVE  MessagesOf(Append(q, m), S)
<1> DEFINE p == Append(q, m)
<1>1. q \in Seq(SUBSET Nat)
  BY DEF MessagesOf
<1>2. p \in Seq(SUBSET Nat) /\ Len(p) = Len(q) + 1
  BY <1>1, AppendProperties
<1>3. ASSUME NEW i \in 1 .. Len(p) PROVE p[i] # {} /\ p[i] \subseteq S
  <2>1. p[i] = IF i = Len(q) + 1 THEN m ELSE q[i]
    BY <1>1, <1>2, AppendProperties
  <2>2. i # Len(q) + 1 => i \in 1 .. Len(q)
    BY <1>1, <1>2
  <2>3. QED
    BY <2>1, <2>2 DEF MessagesOf
<1>4. QED
  BY <1>2, <1>3 DEF MessagesOf

LEMMA MessagesTwice ==
  ASSUME NEW S, NEW q, MessagesOf(q, S)
  PROVE  MessagesOf(q \o q, S)
<1> DEFINE p == q \o q
<1>1. q \in Seq(SUBSET Nat)
  BY DEF MessagesOf
<1>2. p \in Seq(SUBSET Nat) /\ Len(p) = Len(q) + Len(q)
  BY <1>1, ConcatProperties
<1>3. ASSUME NEW i \in 1 .. Len(p) PROVE p[i] # {} /\ p[i] \subseteq S
  <2>1. p[i] = IF i <= Len(q) THEN q[i] ELSE q[i - Len(q)]
    BY <1>1, <1>2, ConcatProperties
  <2>2. i \in 1 .. Len(q) \/ i - Len(q) \in 1 .. Len(q)
    BY <1>1, <1>2
  <2>3. i \in Nat /\ Len(q) \in Nat
    BY <1>1
  <2>4. CASE i <= Len(q)
    BY <2>1, <2>3, <2>4 DEF MessagesOf
  <2>5. CASE ~ (i <= Len(q))
    <3>1. i - Len(q) \in 1 .. Len(q)
      BY <2>2, <2>3, <2>5
    <3>2. QED
      BY <2>1, <2>5, <3>1 DEF MessagesOf
  <2>6. QED
    BY <2>4, <2>5
<1>4. QED
  BY <1>2, <1>3 DEF MessagesOf

LEMMA NumbersConcat ==
  ASSUME NEW S, NEW q, NumbersIn(q, S), NEW r, NumbersIn(r, S)
  PROVE  NumbersIn(q \o r, S)
  BY DEF NumbersIn

LEMMA NumbersTail ==
  ASSUME NEW S, NEW q, NumbersIn(q, S), q # <<>>
  PROVE  NumbersIn(Tail(q), S)
  BY DEF NumbersIn

LEMMA FirstOrMore ==
  ASSUME NEW q \in Seq(Nat), q # <<>>
  PROVE  Head(q) = q[1] /\ (Len(q) = 1 \/ Len(q) > 1)
<1>1. Head(q) = q[1]
  OBVIOUS
<1>2. Len(q) \in Nat /\ Len(q) # 0
  OBVIOUS
<1>3. \A n \in Nat : n # 0 => n = 1 \/ n > 1
  OBVIOUS
<1>4. QED
  BY <1>1, <1>2, <1>3

-----------------------------------------------------------------------------
(* The type invariant *)

\* TypeOK, part by part of the state, so that a step says only what it changes.
DeviceOK  == /\ log \in [Feeders -> Seq(Events)] /\ outbox \in [Feeders -> SUBSET Nat]
             /\ \A f \in Feeders : outbox[f] \subseteq Numbers(f)
WireOK    == /\ wire \in [Feeders -> Seq(SUBSET Nat)]
             /\ \A f \in Feeders : MessagesOf(wire[f], Numbers(f))
AcksOK    == /\ acks \in [Feeders -> Seq(Nat)]
             /\ \A f \in Feeders : NumbersIn(acks[f], Numbers(f))
StoredOK  == /\ bowl \in [Feeders -> Weights] /\ ate \in [Pets -> [Feeders -> Nat]]
             /\ \A f \in Feeders : /\ bowl[f].left \in Numbers(f) \cup {0}
                                   /\ bowl[f].right \in Numbers(f) \cup {0}
                                   /\ \A p \in Pets : ate[p][f] \in Numbers(f) \cup {0}
TopicsOK  == /\ shown \in [Feeders -> [bowl : Weights, action : Opens \cup Closes \cup {"unset", "Closed"}]]
             /\ shownPet \in [Animals -> {<<>>} \cup (Feeders \X Nat)]
             /\ \A f \in Feeders : /\ shown[f].bowl.left \in Numbers(f) \cup {0}
                                   /\ shown[f].bowl.right \in Numbers(f) \cup {0}
HistoryOK == odd \subseteq Feeders /\ repeated \subseteq Feeders /\ doubtful \subseteq Feeders

LEMMA TypeOKParts ==
  TypeOK <=> /\ DeviceOK /\ WireOK /\ AcksOK /\ StoredOK /\ TopicsOK /\ HistoryOK
             /\ up \in BOOLEAN /\ PendingOK
<1>1. WireOK <=> /\ wire \in [Feeders -> Seq(SUBSET Nat)]
                 /\ \A f \in Feeders : \A i \in 1 .. Len(wire[f]) :
                       wire[f][i] # {} /\ wire[f][i] \subseteq Numbers(f)
  BY DEF WireOK, MessagesOf
<1>2. AcksOK <=> /\ acks \in [Feeders -> Seq(Nat)]
                 /\ \A f \in Feeders : \A i \in 1 .. Len(acks[f]) : acks[f][i] \in Numbers(f)
  BY DEF AcksOK, NumbersIn
<1>3. QED
  BY <1>1, <1>2, Zenon DEF TypeOK, Happened, DeviceOK, StoredOK, TopicsOK, HistoryOK

LEMMA TypeOKPartsNext ==
  TypeOK' <=> /\ DeviceOK' /\ WireOK' /\ AcksOK' /\ StoredOK' /\ TopicsOK' /\ HistoryOK'
              /\ (up \in BOOLEAN)' /\ PendingOK'
  BY TypeOKParts, PTL

LEMMA BothWeights ==
  ASSUME NEW n \in Nat
  PROVE  Both(n) \in Weights /\ Both(n).left = n /\ Both(n).right = n
  BY DEF Both, Weights

LEMMA InitTypeOK == Init => TypeOK
<1> SUFFICES ASSUME Init PROVE TypeOK
  OBVIOUS
<1>1. DeviceOK
  BY DEF Init, DeviceOK
<1>2. WireOK /\ AcksOK
  BY DEF Init, WireOK, AcksOK, MessagesOf, NumbersIn
<1>3. StoredOK
  BY BothWeights DEF Init, StoredOK
<1>4. TopicsOK
  BY BothWeights DEF Init, TopicsOK, Nothing
<1>5. HistoryOK /\ up \in BOOLEAN /\ PendingOK
  BY DEF Init, HistoryOK, PendingOK
<1>6. QED
  BY <1>1, <1>2, <1>3, <1>4, <1>5, TypeOKParts

\* A step that leaves the log alone keeps every part whose state it leaves alone.
LEMMA Kept ==
  ASSUME TypeOK, UNCHANGED log
  PROVE  /\ UNCHANGED outbox => DeviceOK'
         /\ UNCHANGED wire => WireOK'
         /\ UNCHANGED acks => AcksOK'
         /\ UNCHANGED stored => StoredOK'
         /\ UNCHANGED topics => TopicsOK'
         /\ UNCHANGED <<odd, faults>> => HistoryOK'
         /\ UNCHANGED <<up, pending>> => PendingOK'
<1> USE TypeOKParts, TypeOKPartsNext
<1>1. \A f \in Feeders : Numbers(f)' = Numbers(f)
  BY DEF Numbers
<1>2. UNCHANGED outbox => DeviceOK'
  BY <1>1 DEF DeviceOK
<1>3. UNCHANGED wire => WireOK'
  BY <1>1 DEF WireOK
<1>4. UNCHANGED acks => AcksOK'
  BY <1>1 DEF AcksOK
<1>5. UNCHANGED stored => StoredOK'
  BY <1>1 DEF StoredOK, stored
<1>6. UNCHANGED topics => TopicsOK'
  BY <1>1 DEF TopicsOK, topics
<1>7. UNCHANGED <<odd, faults>> => HistoryOK'
  BY DEF HistoryOK, faults
<1>8. UNCHANGED <<up, pending>> => PendingOK'
  BY <1>1 DEF PendingOK
<1>9. QED
  BY <1>2, <1>3, <1>4, <1>5, <1>6, <1>7, <1>8

LEMMA EventTypeOK ==
  ASSUME TypeOK, NEW f \in Feeders, NEW e \in Events, Event(f, e)
  PROVE  TypeOK'
<1> USE TypeOKParts, TypeOKPartsNext
<1>1. log[f] \in Seq(Events) /\ log \in [Feeders -> Seq(Events)]
  BY DEF DeviceOK
<1>2. /\ log' = [log EXCEPT ![f] = Append(@, e)]
      /\ log' \in [Feeders -> Seq(Events)]
      /\ Len(log'[f]) = Len(log[f]) + 1 /\ Len(log[f]) \in Nat
  BY <1>1, AppendProperties DEF Event
<1>3. \A g \in Feeders : Numbers(g) \subseteq Numbers(g)'
  BY <1>1, <1>2 DEF Numbers
<1>4. Len(log[f]) + 1 \in Numbers(f)' /\ Len(log[f]) + 1 \in Nat
  BY <1>2 DEF Numbers
<1>5. DeviceOK'
  BY <1>2, <1>3, <1>4 DEF DeviceOK, Event
<1>6. WireOK' /\ AcksOK'
  BY <1>3 DEF Event, WireOK, AcksOK, MessagesOf, NumbersIn
<1>7. StoredOK' /\ TopicsOK'
  BY <1>3 DEF Event, StoredOK, TopicsOK, stored, topics
<1>8. HistoryOK' /\ (up \in BOOLEAN)'
  BY DEF Event, HistoryOK, faults
<1>9. PendingOK'
  BY <1>3 DEF Event, PendingOK
<1>10. QED
  BY <1>5, <1>6, <1>7, <1>8, <1>9

LEMMA WayTypeOK ==
  ASSUME TypeOK, NEW f \in Feeders,
         Send(f) \/ SendAgain(f) \/ AckArrives(f) \/ AckLost(f) \/ Receive(f)
  PROVE  TypeOK'
<1> USE TypeOKParts, TypeOKPartsNext
<1>n. UNCHANGED log
  BY DEF Send, SendAgain, AckArrives, AckLost, Receive, device
<1>m. \A g \in Feeders : Numbers(g)' = Numbers(g)
  BY <1>n DEF Numbers
<1>1. CASE Send(f)
  <2>1. Batch(outbox[f]) # {} /\ Batch(outbox[f]) \subseteq Numbers(f) /\ Batch(outbox[f]) \in SUBSET Nat
    BY <1>1, BatchHasEvents DEF Send, DeviceOK
  <2>2. MessagesOf(Append(wire[f], Batch(outbox[f])), Numbers(f))
    BY <2>1, MessagesAppend DEF WireOK
  <2>3. WireOK'
    BY <1>1, <1>m, <2>2 DEF Send, WireOK, MessagesOf
  <2>4. QED
    BY <1>1, <1>n, <2>3, Kept DEF Send, device
<1>2. CASE SendAgain(f)
  <2>1. MessagesOf(wire[f] \o wire[f], Numbers(f))
    BY MessagesTwice DEF WireOK
  <2>2. WireOK'
    BY <1>2, <1>m, <2>1 DEF SendAgain, WireOK, MessagesOf
  <2>3. HistoryOK'
    BY <1>2 DEF SendAgain, HistoryOK
  <2>4. QED
    BY <1>2, <1>n, <2>2, <2>3, Kept DEF SendAgain, device
<1>3. CASE AckArrives(f) \/ AckLost(f)
  <2>1. NumbersIn(Tail(acks[f]), Numbers(f)) /\ acks' = [acks EXCEPT ![f] = Tail(@)]
    BY <1>3, NumbersTail DEF AckArrives, AckLost, AcksOK
  <2>2. AcksOK'
    BY <1>m, <2>1 DEF AcksOK, NumbersIn
  <2>3. DeviceOK'
    BY <1>3, <1>n, <1>m DEF AckArrives, AckLost, DeviceOK, device
  <2>4. HistoryOK'
    BY <1>3 DEF AckArrives, AckLost, HistoryOK, faults
  <2>5. QED
    BY <1>3, <1>n, <2>2, <2>3, <2>4, Kept DEF AckArrives, AckLost
<1>4. CASE Receive(f)
  <2>1. /\ MessagesOf(Tail(wire[f]), Numbers(f))
        /\ Head(wire[f]) # {} /\ Head(wire[f]) \subseteq Numbers(f) /\ Head(wire[f]) \in SUBSET Nat
    BY <1>4, MessagesTail DEF Receive, WireOK
  <2>2. WireOK'
    BY <1>4, <1>m, <2>1 DEF Receive, WireOK, MessagesOf
  <2>3. PendingOK'
    BY <1>4, <1>m, <2>1 DEF Receive, PendingOK
  <2>4. QED
    BY <1>4, <1>n, <2>2, <2>3, Kept DEF Receive, device
<1>5. QED
  BY <1>1, <1>2, <1>3, <1>4

LEMMA MealOK ==
  ASSUME StoredOK, NEW f \in Feeders, NEW n \in Numbers(f), StoreMeal(f, n)
  PROVE  /\ ate' \in [Pets -> [Feeders -> Nat]]
         /\ \A g \in Feeders : \A p \in Pets : ate'[p][g] \in Numbers(g) \cup {0}
<1>1. n \in Nat
  BY DEF Numbers
<1>2. ate' \in [Pets -> [Feeders -> Nat]]
  BY <1>1 DEF StoreMeal, StoredOK, KeepsMeal
<1>3. ASSUME NEW g \in Feeders, NEW p \in Pets
      PROVE  ate'[p][g] = ate[p][g] \/ (g = f /\ ate'[p][g] = n)
  BY <1>1 DEF StoreMeal, StoredOK, KeepsMeal
<1>4. QED
  BY <1>2, <1>3 DEF StoredOK

LEMMA BowlOK ==
  ASSUME StoredOK, NEW f \in Feeders, NEW n \in Numbers(f),
         StoreBowl(f, n) \/ StoreLeft(f, n) \/ UNCHANGED bowl
  PROVE  /\ bowl' \in [Feeders -> Weights]
         /\ \A g \in Feeders : /\ bowl'[g].left \in Numbers(g) \cup {0}
                               /\ bowl'[g].right \in Numbers(g) \cup {0}
<1>1. n \in Nat
  BY DEF Numbers
<1>2. CASE UNCHANGED bowl
  BY <1>2 DEF StoredOK
<1>3. CASE bowl' = [bowl EXCEPT ![f] = Both(n)]
  BY <1>1, <1>3, BothWeights DEF StoredOK
<1>4. CASE bowl' = [bowl EXCEPT ![f].left = n]
  <2>1. \A g \in Feeders : bowl'[g] = IF g = f THEN [bowl[f] EXCEPT !.left = n] ELSE bowl[g]
    BY <1>4 DEF StoredOK
  <2>2. /\ [bowl[f] EXCEPT !.left = n] \in Weights
        /\ [bowl[f] EXCEPT !.left = n].left = n /\ [bowl[f] EXCEPT !.left = n].right = bowl[f].right
    BY <1>1 DEF StoredOK, Weights
  <2>3. bowl' \in [Feeders -> Weights]
    BY <1>4, <2>2 DEF StoredOK
  <2>4. QED
    BY <2>1, <2>2, <2>3 DEF StoredOK
<1>5. QED
  BY <1>2, <1>3, <1>4 DEF StoreBowl, StoreLeft

LEMMA ServiceTypeOK ==
  ASSUME TypeOK, StoreFrame \/ Return \/ Crash \/ Start
  PROVE  TypeOK'
<1> USE TypeOKParts, TypeOKPartsNext
<1>n. UNCHANGED log
  BY DEF StoreFrame, Return, Crash, Start, device
<1>m. \A g \in Feeders : Numbers(g)' = Numbers(g)
  BY <1>n DEF Numbers
<1>1. CASE StoreFrame
  <2>1. PICK r \in pending : \E n \in Oldest(r.left) :
           /\ StoreMeal(r.feeder, n) /\ StoreBowl(r.feeder, n)
           /\ pending' = {[r EXCEPT !.left = @ \ {n}, !.done = Append(@, n)]}
    BY <1>1 DEF StoreFrame
  <2>2. PICK n \in Oldest(r.left) :
           /\ StoreMeal(r.feeder, n) /\ StoreBowl(r.feeder, n)
           /\ pending' = {[r EXCEPT !.left = @ \ {n}, !.done = Append(@, n)]}
    BY <2>1
  <2>3. /\ r \in [feeder : Feeders, left : SUBSET Nat, done : Seq(Nat)]
        /\ n \in Numbers(r.feeder) /\ n \in Nat /\ r.left \subseteq Numbers(r.feeder)
        /\ NumbersIn(r.done, Numbers(r.feeder)) /\ up
    BY DEF PendingOK, Oldest, NumbersIn
  <2>4. StoredOK'
    BY <2>2, <2>3, <1>m, MealOK, BowlOK DEF StoredOK
  <2>5. PendingOK'
    <3> DEFINE s == [r EXCEPT !.left = @ \ {n}, !.done = Append(@, n)]
    <3>0. s.feeder = r.feeder /\ s.left = r.left \ {n} /\ s.done = Append(r.done, n)
      BY <2>3
    <3>1. s \in [feeder : Feeders, left : SUBSET Nat, done : Seq(Nat)]
      BY <2>3, AppendProperties
    <3>2. NumbersIn(Append(r.done, n), Numbers(r.feeder)) /\ Append(r.done, n) # <<>>
      <4>1. r.done \in Seq(Nat)
        BY <2>3
      <4>2. Len(Append(r.done, n)) = Len(r.done) + 1 /\ Append(r.done, n) \in Seq(Nat)
        BY <2>3, <4>1, AppendProperties
      <4>3. \A i \in 1 .. Len(Append(r.done, n)) :
              Append(r.done, n)[i] = IF i = Len(r.done) + 1 THEN n ELSE r.done[i]
        BY <2>3, <4>1, AppendProperties
      <4>4. QED
        BY <2>3, <4>1, <4>2, <4>3 DEF NumbersIn
    <3>3. pending' = {s} /\ up'
      BY <1>1, <2>2, <2>3 DEF StoreFrame
    <3> HIDE DEF s
    <3>4. QED
      BY <1>m, <2>3, <3>0, <3>1, <3>2, <3>3 DEF PendingOK, NumbersIn
  <2>6. QED
    BY <1>1, <1>n, <2>4, <2>5, Kept DEF StoreFrame, device
<1>2. CASE Return
  <2>1. PICK r \in pending : r.left = {} /\ AckAll(r) /\ PublishFirst(r)
                             /\ odd' = IF IsOdd(r) THEN odd \cup {r.feeder} ELSE odd
    BY <1>2 DEF Return
  <2>2. /\ r \in [feeder : Feeders, left : SUBSET Nat, done : Seq(Nat)]
        /\ NumbersIn(r.done, Numbers(r.feeder)) /\ r.done # <<>>
    BY <2>1 DEF PendingOK, NumbersIn
  <2>3. NumbersIn(acks[r.feeder] \o r.done, Numbers(r.feeder))
    BY <2>2, NumbersConcat DEF AcksOK
  <2>4. AcksOK'
    BY <1>m, <2>1, <2>2, <2>3 DEF AckAll, AcksOK, NumbersIn
  <2>5. Head(r.done) \in Numbers(r.feeder) /\ Head(r.done) \in Nat
    BY <2>2 DEF NumbersIn
  <2>6. EventOf(r.feeder, Head(r.done)) \in Events
    BY <2>2, <2>5 DEF EventOf, DeviceOK, Numbers
  <2>7. TopicsOK'
    <3> DEFINE n == Head(r.done)
               e == EventOf(r.feeder, n)
    <3>1. e.action \in Opens \cup Closes /\ e.animal \in Animals \cup {"Manual"}
      BY <2>6 DEF Events
    <3>2. /\ shown' = [shown EXCEPT ![r.feeder] =
                          [bowl |-> IF e.action \in Closes THEN Both(n) ELSE @.bowl, action |-> e.action]]
          /\ shownPet' = IF e.action \in Closes /\ e.animal # "Manual"
                         THEN [shownPet EXCEPT ![e.animal] = <<r.feeder, n>>] ELSE shownPet
      BY <2>1 DEF PublishFirst
    <3>3. Both(n) \in Weights /\ Both(n).left = n /\ Both(n).right = n
      BY <2>5, BothWeights
    <3> HIDE DEF e
    <3>4. shown' \in [Feeders -> [bowl : Weights, action : Opens \cup Closes \cup {"unset", "Closed"}]]
      BY <2>2, <3>1, <3>2, <3>3 DEF TopicsOK
    <3>5. shownPet' \in [Animals -> {<<>>} \cup (Feeders \X Nat)]
      BY <2>2, <2>5, <3>1, <3>2 DEF TopicsOK
    <3>6. \A f \in Feeders : shown'[f].bowl = shown[f].bowl \/ (f = r.feeder /\ shown'[f].bowl = Both(n))
      BY <2>2, <3>2 DEF TopicsOK
    <3>7. QED
      BY <1>m, <2>5, <3>3, <3>4, <3>5, <3>6 DEF TopicsOK
  <2>8. HistoryOK' /\ PendingOK'
    BY <1>2, <2>1, <2>2 DEF Return, HistoryOK, PendingOK, faults
  <2>9. QED
    BY <1>2, <1>n, <2>4, <2>7, <2>8, Kept DEF Return, device
<1>3. CASE Crash
  <2>1. WireOK' /\ HistoryOK' /\ PendingOK'
    BY <1>3 DEF Crash, WireOK, MessagesOf, HistoryOK, PendingOK
  <2>2. StoredOK'
    <3>1. CASE UNCHANGED stored
      BY <1>n, <3>1, Kept
    <3>2. CASE \E r \in pending : \E n \in Oldest(r.left) :
                 StoreMeal(r.feeder, n) /\ (UNCHANGED bowl \/ StoreLeft(r.feeder, n))
      <4>1. PICK r \in pending : \E n \in Oldest(r.left) :
                 StoreMeal(r.feeder, n) /\ (UNCHANGED bowl \/ StoreLeft(r.feeder, n))
        BY <3>2
      <4>2. PICK n \in Oldest(r.left) :
                 StoreMeal(r.feeder, n) /\ (UNCHANGED bowl \/ StoreLeft(r.feeder, n))
        BY <4>1
      <4>3. r.feeder \in Feeders /\ n \in Numbers(r.feeder) /\ n \in Nat
        BY DEF PendingOK, Oldest
      <4>4. QED
        BY <1>m, <4>2, <4>3, MealOK, BowlOK DEF StoredOK
    <3>3. QED
      BY <1>3, <3>1, <3>2 DEF Crash
  <2>3. QED
    BY <1>3, <1>n, <2>1, <2>2, Kept DEF Crash, device
<1>4. CASE Start
  <2>1. TopicsOK'
    <3>1. shown' \in [Feeders -> [bowl : Weights, action : Opens \cup Closes \cup {"unset", "Closed"}]]
      BY <1>4 DEF Start, StoredOK
    <3>2. shownPet' \in [Animals -> {<<>>} \cup (Feeders \X Nat)]
      BY <1>4 DEF Start, StoredOK, TopicsOK, Animals
    <3>3. \A f \in Feeders : shown'[f].bowl = bowl[f]
      BY <1>4 DEF Start
    <3>4. QED
      BY <1>m, <3>1, <3>2, <3>3 DEF TopicsOK, StoredOK
  <2>2. HistoryOK' /\ PendingOK'
    BY <1>4, <1>m DEF Start, HistoryOK, PendingOK, faults
  <2>3. QED
    BY <1>4, <1>n, <2>1, <2>2, Kept DEF Start, device
<1>5. QED
  BY <1>1, <1>2, <1>3, <1>4

LEMMA NextTypeOK ==
  ASSUME TypeOK, [Next]_feederVars
  PROVE  TypeOK'
<1>1. CASE UNCHANGED feederVars
  BY <1>1, Kept, TypeOKParts, TypeOKPartsNext DEF feederVars, device
<1>2. CASE Next
  BY <1>2, EventTypeOK, WayTypeOK, ServiceTypeOK DEF Next, Environment
<1>3. QED
  BY <1>1, <1>2

\* What the feeders keep, what is on its way and what is stored, acknowledged or
\* shown are events that have happened; one callback runs at a time, and only
\* while the service is up.
THEOREM FeederTypes == Spec => []TypeOK
  BY InitTypeOK, NextTypeOK, PTL DEF Spec

-----------------------------------------------------------------------------
(* ShownIsStored: what callbacks in the middle of a message have stored of it. *)

BowlStands(f) == shown[f].bowl = bowl[f]
PetStands(p)  == \E f \in Feeders : shownPet[p] = <<f, ate[p][f]>>

\* The first frame decides: from it on the bowl is what Return will show.
BowlInWork(r) ==
    /\ r.done = <<>> => BowlStands(r.feeder)
    /\ Len(r.done) = 1 => IF KeepsBowl(EventOf(r.feeder, r.done[1]))
                          THEN bowl[r.feeder] = Both(r.done[1]) ELSE BowlStands(r.feeder)

PetInWork(p, r) ==
    /\ r.done = <<>> => PetStands(p)
    /\ Len(r.done) = 1 =>
           LET e == EventOf(r.feeder, r.done[1])
           IN  IF KeepsMeal(e) /\ e.animal = p
               THEN ate[p][r.feeder] = r.done[1] ELSE PetStands(p)

\* The inductive invariant.
BowlInv == up => \A f \in Feeders \ odd :
                    /\ (\A r \in pending : r.feeder # f) => BowlStands(f)
                    /\ \A r \in pending : r.feeder = f => BowlInWork(r)

PetInv == up /\ odd = {} => \A p \in Pets :
                               /\ pending = {} => PetStands(p)
                               /\ \A r \in pending : PetInWork(p, r)

LEMMA InvShows == BowlInv /\ PetInv => ShownIsStored
  BY DEF BowlInv, PetInv, ShownIsStored, BowlStands, PetStands

\* What the environment does changes none of this, and no event of the past.
LEMMA QuietStep ==
  ASSUME TypeOK, UNCHANGED feederVars \/ \E f \in Feeders : Environment(f)
  PROVE  /\ UNCHANGED <<up, pending, stored, topics, odd>>
         /\ \A r \in pending : Len(r.done) = 1 =>
               EventOf(r.feeder, r.done[1])' = EventOf(r.feeder, r.done[1])
<1> USE TypeOKParts
<1>1. UNCHANGED <<up, pending, stored, topics, odd>>
  BY DEF feederVars, Environment, Event, Send, SendAgain, AckArrives, AckLost
<1>2. ASSUME NEW g \in Feeders, NEW n \in Numbers(g)
      PROVE  log'[g][n] = log[g][n]
  <2>1. CASE UNCHANGED log
    BY <2>1
  <2>2. CASE \E f \in Feeders : \E e \in Events : Event(f, e)
    <3>1. PICK f \in Feeders, e \in Events : Event(f, e)
      BY <2>2
    <3>2. log[f] \in Seq(Events) /\ log' = [log EXCEPT ![f] = Append(@, e)]
      BY <3>1 DEF Event, DeviceOK
    <3>3. \A i \in 1 .. Len(log[f]) : Append(log[f], e)[i] = log[f][i]
      BY <3>2, AppendProperties
    <3>4. log'[g] = IF g = f THEN Append(log[f], e) ELSE log[g]
      BY <3>2 DEF DeviceOK
    <3>5. QED
      BY <3>3, <3>4 DEF Numbers
  <2>3. QED
    BY <2>1, <2>2 DEF feederVars, device, Environment, Send, SendAgain, AckArrives, AckLost
<1>3. ASSUME NEW r \in pending, Len(r.done) = 1
      PROVE  r.feeder \in Feeders /\ r.done[1] \in Numbers(r.feeder)
  BY <1>3 DEF PendingOK
<1>4. QED
  BY <1>1, <1>2, <1>3 DEF EventOf

LEMMA BowlInvQuiet ==
  ASSUME TypeOK, BowlInv, UNCHANGED feederVars \/ \E f \in Feeders : Environment(f)
  PROVE  BowlInv'
<1>1. UNCHANGED <<up, pending, bowl, shown, odd>>
  BY QuietStep DEF stored, topics
<1>2. \A r \in pending : BowlInWork(r) => BowlInWork(r)'
  BY <1>1, QuietStep DEF BowlInWork, BowlStands
<1>3. QED
  BY <1>1, <1>2 DEF BowlInv, BowlStands

LEMMA PetInvQuiet ==
  ASSUME TypeOK, PetInv, UNCHANGED feederVars \/ \E f \in Feeders : Environment(f)
  PROVE  PetInv'
<1>1. UNCHANGED <<up, pending, ate, shownPet, odd>>
  BY QuietStep DEF stored, topics
<1>2. \A r \in pending : \A p \in Pets : PetInWork(p, r) => PetInWork(p, r)'
  BY <1>1, QuietStep DEF PetInWork, PetStands
<1>3. QED
  BY <1>1, <1>2 DEF PetInv, PetStands

\* What the frame that StoreFrame takes does to the message in work.
LEMMA FrameStep ==
  ASSUME TypeOK, StoreFrame
  PROVE  \E r \in pending : \E n \in Numbers(r.feeder) : \E s \in pending' :
            /\ pending = {r} /\ pending' = {s} /\ r.feeder \in Feeders
            /\ StoreMeal(r.feeder, n) /\ StoreBowl(r.feeder, n)
            /\ s.feeder = r.feeder /\ s.done # <<>>
            /\ Len(s.done) = 1 => r.done = <<>> /\ s.done[1] = n
<1> USE TypeOKParts
<1>1. PICK r \in pending : \E n \in Oldest(r.left) :
         /\ StoreMeal(r.feeder, n) /\ StoreBowl(r.feeder, n)
         /\ pending' = {[r EXCEPT !.left = @ \ {n}, !.done = Append(@, n)]}
  BY DEF StoreFrame
<1>2. PICK n \in Oldest(r.left) :
         /\ StoreMeal(r.feeder, n) /\ StoreBowl(r.feeder, n)
         /\ pending' = {[r EXCEPT !.left = @ \ {n}, !.done = Append(@, n)]}
  BY <1>1
<1>3. /\ r \in [feeder : Feeders, left : SUBSET Nat, done : Seq(Nat)]
      /\ n \in Numbers(r.feeder) /\ n \in Nat /\ pending = {r}
  BY DEF PendingOK, Oldest
<1> DEFINE s == [r EXCEPT !.left = @ \ {n}, !.done = Append(@, n)]
<1>4. s.feeder = r.feeder /\ s.done = Append(r.done, n)
  BY <1>3
<1>5. /\ Append(r.done, n) \in Seq(Nat) /\ Len(Append(r.done, n)) = Len(r.done) + 1
      /\ Append(r.done, n)[Len(r.done) + 1] = n
  BY <1>3, AppendProperties
<1>6. Append(r.done, n) # <<>> /\ (Len(Append(r.done, n)) = 1 => r.done = <<>> /\ Append(r.done, n)[1] = n)
  BY <1>3, <1>5
<1>7. pending' = {s}
  BY <1>2
<1> HIDE DEF s
<1>8. QED
  BY <1>2, <1>3, <1>4, <1>6, <1>7

LEMMA BowlInvService ==
  ASSUME TypeOK, BowlInv, (\E f \in Feeders : Receive(f)) \/ StoreFrame \/ Return \/ Crash \/ Start
  PROVE  BowlInv'
<1> USE TypeOKParts
<1>1. CASE \E f \in Feeders : Receive(f)
  <2>1. PICK f \in Feeders : Receive(f)
    BY <1>1
  <2>2. UNCHANGED <<bowl, shown, odd, up>> /\ pending = {}
    BY <2>1 DEF Receive, stored, topics
  <2>3. \A r \in pending' : r.feeder = f /\ r.done = <<>> /\ Len(r.done) # 1
    BY <2>1 DEF Receive
  <2>4. QED
    BY <2>2, <2>3 DEF BowlInv, BowlInWork, BowlStands
<1>2. CASE StoreFrame
  <2>1. PICK r \in pending : \E n \in Numbers(r.feeder) : \E s \in pending' :
            /\ pending = {r} /\ pending' = {s} /\ r.feeder \in Feeders
            /\ StoreMeal(r.feeder, n) /\ StoreBowl(r.feeder, n)
            /\ s.feeder = r.feeder /\ s.done # <<>>
            /\ Len(s.done) = 1 => r.done = <<>> /\ s.done[1] = n
    BY <1>2, FrameStep
  <2>2. PICK n \in Numbers(r.feeder), s \in pending' :
            /\ pending = {r} /\ pending' = {s} /\ r.feeder \in Feeders
            /\ StoreMeal(r.feeder, n) /\ StoreBowl(r.feeder, n)
            /\ s.feeder = r.feeder /\ s.done # <<>>
            /\ Len(s.done) = 1 => r.done = <<>> /\ s.done[1] = n
    BY <2>1
  <2>3. UNCHANGED <<log, shown, odd, up>>
    BY <1>2 DEF StoreFrame, device, topics
  <2>4. /\ \A f \in Feeders \ {r.feeder} : bowl'[f] = bowl[f]
        /\ bowl'[r.feeder] = IF KeepsBowl(EventOf(r.feeder, n)) THEN Both(n) ELSE bowl[r.feeder]
    BY <2>2 DEF StoreBowl, StoredOK
  <2>5. ASSUME up, r.feeder \notin odd PROVE BowlInWork(s)'
    <3>1. r.done = <<>> => BowlStands(r.feeder)
      BY <2>2, <2>5 DEF BowlInv, BowlInWork
    <3>2. QED
      BY <2>2, <2>3, <2>4, <3>1 DEF BowlInWork, BowlStands, EventOf
  <2>6. ASSUME up, NEW f \in Feeders \ odd, f # r.feeder PROVE BowlStands(f)'
    BY <2>2, <2>3, <2>4, <2>6 DEF BowlInv, BowlStands
  <2>7. QED
    BY <2>2, <2>3, <2>5, <2>6 DEF BowlInv
<1>3. CASE Return
  <2>1. PICK r \in pending : r.left = {} /\ AckAll(r) /\ PublishFirst(r)
                             /\ odd' = IF IsOdd(r) THEN odd \cup {r.feeder} ELSE odd
    BY <1>3 DEF Return
  <2>2. /\ r \in [feeder : Feeders, left : SUBSET Nat, done : Seq(Nat)] /\ r.done # <<>>
        /\ pending = {r} /\ r.done[1] \in Numbers(r.feeder)
    BY <2>1 DEF PendingOK
  <2>3. Head(r.done) = r.done[1] /\ (Len(r.done) = 1 \/ Len(r.done) > 1)
    BY <2>2, FirstOrMore
  <2>4. EventOf(r.feeder, r.done[1]).action \in Opens \cup Closes
    <3>1. EventOf(r.feeder, r.done[1]) \in Events
      BY <2>2 DEF EventOf, DeviceOK, Numbers
    <3>2. QED
      BY <3>1 DEF Events
  <2>5. UNCHANGED <<log, bowl, up>> /\ pending' = {}
    BY <1>3 DEF Return, device, stored
  <2>6. /\ \A f \in Feeders \ {r.feeder} : shown'[f] = shown[f]
        /\ shown'[r.feeder].bowl = IF EventOf(r.feeder, r.done[1]).action \in Closes
                                   THEN Both(r.done[1]) ELSE shown[r.feeder].bowl
    BY <2>1, <2>2, <2>3 DEF PublishFirst, TopicsOK
  <2>7. ASSUME up, r.feeder \notin odd' PROVE BowlStands(r.feeder)'
    <3>1. Len(r.done) = 1 /\ EventOf(r.feeder, r.done[1]).action # "Intruder_Closed" /\ r.feeder \notin odd
      BY <2>1, <2>2, <2>3, <2>7 DEF IsOdd
    <3>2. BowlInWork(r)
      BY <2>2, <2>7, <3>1 DEF BowlInv
    <3>3. EventOf(r.feeder, r.done[1]).action \in Closes <=> KeepsBowl(EventOf(r.feeder, r.done[1]))
      BY <2>4, <3>1 DEF KeepsBowl, Closes
    <3>4. QED
      BY <2>5, <2>6, <3>1, <3>2, <3>3 DEF BowlInWork, BowlStands
  <2>8. ASSUME up, NEW f \in Feeders \ odd', f # r.feeder PROVE BowlStands(f)'
    BY <2>1, <2>2, <2>5, <2>6, <2>8 DEF BowlInv, BowlStands
  <2>9. QED
    BY <2>5, <2>7, <2>8 DEF BowlInv
<1>4. CASE Crash
  BY <1>4 DEF Crash, BowlInv
<1>5. CASE Start
  BY <1>5 DEF Start, BowlInv, BowlStands, StoredOK, stored, PendingOK
<1>6. QED
  BY <1>1, <1>2, <1>3, <1>4, <1>5

LEMMA PetInvService ==
  ASSUME TypeOK, PetInv, (\E f \in Feeders : Receive(f)) \/ StoreFrame \/ Return \/ Crash \/ Start
  PROVE  PetInv'
<1> USE TypeOKParts
<1>1. CASE \E f \in Feeders : Receive(f)
  <2>1. PICK f \in Feeders : Receive(f)
    BY <1>1
  <2>2. UNCHANGED <<ate, shownPet, odd, up>> /\ pending = {}
    BY <2>1 DEF Receive, stored, topics
  <2>3. pending' # {} /\ \A r \in pending' : r.feeder = f /\ r.done = <<>> /\ Len(r.done) # 1
    BY <2>1 DEF Receive
  <2>4. QED
    BY <2>2, <2>3 DEF PetInv, PetInWork, PetStands
<1>2. CASE StoreFrame
  <2>1. PICK r \in pending : \E n \in Numbers(r.feeder) : \E s \in pending' :
            /\ pending = {r} /\ pending' = {s} /\ r.feeder \in Feeders
            /\ StoreMeal(r.feeder, n) /\ StoreBowl(r.feeder, n)
            /\ s.feeder = r.feeder /\ s.done # <<>>
            /\ Len(s.done) = 1 => r.done = <<>> /\ s.done[1] = n
    BY <1>2, FrameStep
  <2>2. PICK n \in Numbers(r.feeder), s \in pending' :
            /\ pending = {r} /\ pending' = {s} /\ r.feeder \in Feeders
            /\ StoreMeal(r.feeder, n) /\ StoreBowl(r.feeder, n)
            /\ s.feeder = r.feeder /\ s.done # <<>>
            /\ Len(s.done) = 1 => r.done = <<>> /\ s.done[1] = n
    BY <2>1
  <2>3. UNCHANGED <<log, shownPet, odd, up>>
    BY <1>2 DEF StoreFrame, device, topics
  <2> DEFINE e == EventOf(r.feeder, n)
  <2>4. ASSUME NEW p \in Pets
        PROVE  IF KeepsMeal(e) /\ e.animal = p THEN ate'[p][r.feeder] = n ELSE ate'[p] = ate[p]
    BY <2>2 DEF StoreMeal, StoredOK, KeepsMeal
  <2> HIDE DEF e
  <2>5. ASSUME up, odd = {}, NEW p \in Pets PROVE PetInWork(p, s)'
    <3>1. r.done = <<>> => PetStands(p)
      BY <2>5 DEF PetInv, PetInWork
    <3>2. EventOf(r.feeder, n)' = e
      BY <2>3 DEF EventOf, e
    <3>3. r.done = <<>> /\ ~ (KeepsMeal(e) /\ e.animal = p) => PetStands(p)'
      BY <2>3, <2>4, <3>1 DEF PetStands
    <3>4. Len(s.done) = 1 => EventOf(s.feeder, s.done[1])' = e
      BY <2>2, <3>2
    <3>5. QED
      BY <2>2, <2>4, <3>3, <3>4 DEF PetInWork, KeepsMeal
  <2>6. QED
    BY <2>2, <2>3, <2>5 DEF PetInv
<1>3. CASE Return
  <2>1. PICK r \in pending : r.left = {} /\ AckAll(r) /\ PublishFirst(r)
                             /\ odd' = IF IsOdd(r) THEN odd \cup {r.feeder} ELSE odd
    BY <1>3 DEF Return
  <2>2. /\ r \in [feeder : Feeders, left : SUBSET Nat, done : Seq(Nat)] /\ r.done # <<>>
        /\ pending = {r} /\ r.done[1] \in Numbers(r.feeder)
    BY <2>1 DEF PendingOK
  <2>3. Head(r.done) = r.done[1] /\ (Len(r.done) = 1 \/ Len(r.done) > 1)
    BY <2>2, FirstOrMore
  <2> DEFINE e == EventOf(r.feeder, r.done[1])
  <2>4. e \in Events
    BY <2>2 DEF EventOf, DeviceOK, Numbers
  <2>5. UNCHANGED <<log, ate, up>> /\ pending' = {}
    BY <1>3 DEF Return, device, stored
  <2>6. ASSUME NEW p \in Pets
        PROVE  shownPet'[p] = IF e.action \in Closes /\ e.animal = p
                              THEN <<r.feeder, r.done[1]>> ELSE shownPet[p]
    <3>1. p # "Manual" /\ p \in Animals
      BY FeederAssumption DEF Animals
    <3>2. shownPet' = IF e.action \in Closes /\ e.animal # "Manual"
                      THEN [shownPet EXCEPT ![e.animal] = <<r.feeder, r.done[1]>>] ELSE shownPet
      BY <2>1, <2>3 DEF PublishFirst
    <3> HIDE DEF e
    <3>3. QED
      BY <3>1, <3>2 DEF TopicsOK
  <2>7. ASSUME up, odd' = {}, NEW p \in Pets PROVE PetStands(p)'
    <3>1. Len(r.done) = 1 /\ e.action # "Intruder_Closed" /\ odd = {}
      BY <2>1, <2>2, <2>3, <2>7 DEF IsOdd
    <3>2. PetInWork(p, r)
      BY <2>7, <3>1 DEF PetInv
    <3>3. IF KeepsMeal(e) /\ e.animal = p THEN ate[p][r.feeder] = r.done[1] ELSE PetStands(p)
      BY <3>1, <3>2 DEF PetInWork
    <3>4. e.action \in Closes /\ e.animal = p => KeepsMeal(e)
      <4>1. p # "Manual"
        BY FeederAssumption
      <4> HIDE DEF e
      <4>2. QED
        BY <2>4, <3>1, <4>1 DEF KeepsMeal, Closes, Events, Manual
    <3>5. KeepsMeal(e) => e.action \in Closes
      BY DEF KeepsMeal, Closes
    <3> HIDE DEF e
    <3>6. QED
      BY <2>2, <2>5, <2>6, <3>3, <3>4, <3>5 DEF PetStands
  <2>8. QED
    BY <2>5, <2>7 DEF PetInv
<1>4. CASE Crash
  BY <1>4 DEF Crash, PetInv
<1>5. CASE Start
  <2>1. PICK last \in [Pets -> Feeders] :
           shownPet' = [a \in Animals |-> IF a \in Pets THEN <<last[a], ate[a][last[a]]>>
                                                       ELSE shownPet[a]]
    BY <1>5 DEF Start
  <2>2. UNCHANGED ate /\ pending' = {}
    BY <1>5 DEF Start, stored, PendingOK
  <2>3. QED
    BY <2>1, <2>2 DEF PetInv, PetStands, Animals
<1>6. QED
  BY <1>1, <1>2, <1>3, <1>4, <1>5

\* Between callbacks of a running service, whatever dies, is lost or comes twice,
\* the weights shown are those of the database, unless since the service started
\* several frames came in a message or an intruder closed a lid: the odd ones.
THEOREM FeederShownIsStored == Spec => []ShownIsStored
<1>1. Init => BowlInv /\ PetInv
  BY DEF Init, BowlInv, PetInv
<1>2. TypeOK /\ BowlInv /\ PetInv /\ [Next]_feederVars => BowlInv' /\ PetInv'
  <2> SUFFICES ASSUME TypeOK, BowlInv, PetInv, [Next]_feederVars PROVE BowlInv' /\ PetInv'
    OBVIOUS
  <2>1. CASE UNCHANGED feederVars \/ \E f \in Feeders : Environment(f)
    BY <2>1, BowlInvQuiet, PetInvQuiet
  <2>2. CASE (\E f \in Feeders : Receive(f)) \/ StoreFrame \/ Return \/ Crash \/ Start
    BY <2>2, BowlInvService, PetInvService
  <2>3. QED
    BY <2>1, <2>2 DEF Next
<1>3. QED
  BY <1>1, <1>2, FeederTypes, InvShows, PTL DEF Spec

-----------------------------------------------------------------------------
(* AcknowledgedIsStored: the events that are on their way to the database. *)

\* The messages of the device have a single frame or two (docs/Feeder.md).
TwoAtMost == MaxFrames <= 2

Items(q) == {q[i] : i \in 1 .. Len(q)}

LEMMA ItemsAppend ==
  ASSUME NEW S, NEW q \in Seq(S), NEW x \in S
  PROVE  Items(Append(q, x)) = Items(q) \cup {x}
<1>1. Len(q) \in Nat /\ Len(Append(q, x)) = Len(q) + 1
  BY AppendProperties
<1>2. \A i \in 1 .. Len(q) : Append(q, x)[i] = q[i]
  BY AppendProperties
<1>3. Append(q, x)[Len(q) + 1] = x
  BY AppendProperties
<1>4. Items(q) \cup {x} \subseteq Items(Append(q, x))
  BY <1>1, <1>2, <1>3 DEF Items
<1>5. Items(Append(q, x)) \subseteq Items(q) \cup {x}
  <2>1. \A i \in 1 .. Len(q) + 1 : i \in 1 .. Len(q) \/ i = Len(q) + 1
    BY <1>1
  <2>2. QED
    BY <1>1, <1>2, <1>3, <2>1 DEF Items
<1>6. QED
  BY <1>4, <1>5

LEMMA ItemsConcat ==
  ASSUME NEW S, NEW q \in Seq(S), NEW r \in Seq(S)
  PROVE  Items(q \o r) = Items(q) \cup Items(r)
<1>1. Len(q) \in Nat /\ Len(r) \in Nat /\ Len(q \o r) = Len(q) + Len(r)
  BY ConcatProperties
<1>2. \A i \in 1 .. Len(q) + Len(r) : (q \o r)[i] = IF i <= Len(q) THEN q[i] ELSE r[i - Len(q)]
  BY ConcatProperties
<1>3. ASSUME NEW i \in 1 .. Len(q) PROVE q[i] \in Items(q \o r)
  <2>1. i \in 1 .. Len(q) + Len(r) /\ i <= Len(q)
    BY <1>1
  <2>2. QED
    BY <1>1, <1>2, <2>1 DEF Items
<1>4. ASSUME NEW i \in 1 .. Len(r) PROVE r[i] \in Items(q \o r)
  <2>1. /\ Len(q) + i \in 1 .. Len(q) + Len(r) /\ ~ (Len(q) + i <= Len(q))
        /\ Len(q) + i - Len(q) = i
    BY <1>1
  <2>2. (q \o r)[Len(q) + i] = r[i]
    BY <1>2, <2>1
  <2>3. QED
    BY <1>1, <2>1, <2>2 DEF Items
<1>5. Items(q) \cup Items(r) \subseteq Items(q \o r)
  BY <1>3, <1>4 DEF Items
<1>6. ASSUME NEW i \in 1 .. Len(q) + Len(r) PROVE (q \o r)[i] \in Items(q) \cup Items(r)
  <2>1. CASE i <= Len(q)
    <3>1. i \in 1 .. Len(q)
      BY <1>1, <2>1
    <3>2. QED
      BY <1>2, <2>1, <3>1 DEF Items
  <2>2. CASE ~ (i <= Len(q))
    <3>1. i - Len(q) \in 1 .. Len(r)
      BY <1>1, <2>2
    <3>2. QED
      BY <1>2, <2>2, <3>1 DEF Items
  <2>3. QED
    BY <2>1, <2>2
<1>7. QED
  BY <1>1, <1>5, <1>6 DEF Items

LEMMA ItemsTail ==
  ASSUME NEW S, NEW q \in Seq(S), q # <<>>
  PROVE  /\ Items(q) = {Head(q)} \cup Items(Tail(q))
         /\ Tail(q) \in Seq(S) /\ Head(q) = q[1] /\ Head(q) \in S
         /\ Len(q) \in Nat /\ 1 <= Len(q) /\ Len(Tail(q)) = Len(q) - 1
         /\ \A i \in 1 .. Len(q) - 1 : Tail(q)[i] = q[i + 1]
<1>1. /\ Len(q) \in Nat /\ 1 <= Len(q) /\ Tail(q) \in Seq(S) /\ Head(q) = q[1] /\ Head(q) \in S
      /\ Len(Tail(q)) = Len(q) - 1
      /\ \A i \in 1 .. Len(q) - 1 : Tail(q)[i] = q[i + 1]
  BY HeadTailProperties
<1>2. ASSUME NEW i \in 1 .. Len(q) PROVE q[i] \in {Head(q)} \cup Items(Tail(q))
  <2>1. i = 1 \/ (i - 1 \in 1 .. Len(q) - 1 /\ i - 1 + 1 = i)
    BY <1>1
  <2>2. QED
    BY <1>1, <2>1 DEF Items
<1>3. ASSUME NEW i \in 1 .. Len(Tail(q)) PROVE Tail(q)[i] \in Items(q)
  <2>1. i + 1 \in 1 .. Len(q) /\ i \in 1 .. Len(q) - 1
    BY <1>1
  <2>2. QED
    BY <1>1, <2>1 DEF Items
<1>4. Head(q) \in Items(q)
  <2>1. 1 \in 1 .. Len(q)
    BY <1>1
  <2>2. QED
    BY <1>1, <2>1 DEF Items
<1>5. Items(q) = {Head(q)} \cup Items(Tail(q))
  BY <1>2, <1>3, <1>4 DEF Items
<1>6. QED
  BY <1>1, <1>5

LEMMA NoItems == Items(<<>>) = {} /\ Len(<<>>) = 0
  BY DEF Items

-----------------------------------------------------------------------------
(* The oldest of the events a feeder keeps, which a message takes. *)

LEMMA OlderAreFinite ==
  ASSUME NEW N \in Nat, NEW O \in SUBSET (1 .. N), NEW n
  PROVE  /\ IsFiniteSet({m \in O : m < n}) /\ Cardinality({m \in O : m < n}) \in Nat
         /\ \A T \in SUBSET {m \in O : m < n} :
               Cardinality(T) \in Nat /\ Cardinality(T) <= Cardinality({m \in O : m < n})
<1> DEFINE B == {m \in O : m < n}
<1>1. IsFiniteSet(1 .. N)
  BY FS_Interval
<1>5. B \in SUBSET (1 .. N)
  OBVIOUS
<1> HIDE DEF B
<1>2. IsFiniteSet(B)
  BY <1>1, <1>5, FS_Subset
<1>3. \A T \in SUBSET B : IsFiniteSet(T) /\ Cardinality(T) <= Cardinality(B)
  BY <1>2, FS_Subset
<1>4. QED
  BY <1>2, <1>3, FS_CardinalityType DEF B

\* An event that fits fits still when others are acknowledged or follow it, and so do older ones.
LEMMA StillFits ==
  ASSUME NEW N \in Nat, NEW O \in SUBSET (1 .. N), NEW n \in Batch(O),
         NEW P \in SUBSET Nat, NEW k \in P, k <= n, \A m \in P : m < k => m \in O
  PROVE  k \in Batch(P)
<1>1. n \in Nat /\ Cardinality({m \in O : m < n}) < MaxFrames
  BY DEF Batch
<1>2. {m \in P : m < k} \subseteq {m \in O : m < n}
  <2>1. ASSUME NEW m \in P, m < k PROVE m < n
    BY <1>1, <2>1
  <2>2. QED
    BY <2>1
<1>3. /\ Cardinality({m \in P : m < k}) \in Nat
      /\ Cardinality({m \in P : m < k}) <= Cardinality({m \in O : m < n})
      /\ Cardinality({m \in O : m < n}) \in Nat
  BY <1>2, OlderAreFinite
<1>4. Cardinality({m \in P : m < k}) < MaxFrames
  BY <1>1, <1>3, FeederAssumption
<1>5. QED
  BY <1>4 DEF Batch

\* The two events of a message are neighbours.
LEMMA NoneBetween ==
  ASSUME TwoAtMost, NEW N \in Nat, NEW O \in SUBSET (1 .. N), NEW n \in Batch(O),
         NEW m \in O, NEW k \in O, m < k, k < n
  PROVE  FALSE
<1>1. n \in O /\ Cardinality({x \in O : x < n}) < MaxFrames /\ m \in Nat /\ k \in Nat /\ n \in Nat
  BY DEF Batch
<1>2. {m, k} \subseteq {x \in O : x < n}
  BY <1>1
<1>3. Cardinality({m, k}) = 2
  <2>1. IsFiniteSet({m}) /\ Cardinality({m}) = 1
    BY FS_Singleton
  <2>2. {m, k} = {m} \cup {k} /\ k \notin {m}
    BY <1>1
  <2>3. Cardinality({m} \cup {k}) = Cardinality({m}) + 1
    BY <2>1, <2>2, FS_AddElement
  <2>4. QED
    BY <2>1, <2>2, <2>3
<1>4. 2 <= Cardinality({x \in O : x < n}) /\ Cardinality({x \in O : x < n}) \in Nat
  BY <1>2, <1>3, OlderAreFinite
<1>5. QED
  BY <1>1, <1>4, FeederAssumption DEF TwoAtMost

-----------------------------------------------------------------------------
(* One feeder *)

\* What its callback, if it is the one of P that runs, has still to do and has done.
Idle(f) == [feeder |-> f, left |-> {}, done |-> <<>>]
WorkIn(P, f) == IF \E r \in P : r.feeder = f THEN CHOOSE r \in P : r.feeder = f ELSE Idle(f)
Work(f) == WorkIn(pending, f)

\* All there is of the feeder: the size of its log, the events in it that are
\* stored, what it keeps, and what is on its way.
Side(f) ==
    [size |-> Len(log[f]), kept |-> {n \in Numbers(f) : KeepsBowl(log[f][n])},
     outbox |-> outbox[f], wire |-> wire[f], acks |-> acks[f],
     left |-> Work(f).left, done |-> Work(f).done, bowl |-> bowl[f]]

IsSide(s) ==
    /\ s.size \in Nat /\ s.kept \subseteq 1 .. s.size /\ s.outbox \subseteq 1 .. s.size
    /\ s.wire \in Seq(SUBSET Nat) /\ \A S \in Items(s.wire) : S \subseteq 1 .. s.size
    /\ s.acks \in Seq(Nat) /\ Items(s.acks) \subseteq 1 .. s.size
    /\ s.left \subseteq 1 .. s.size
    /\ s.done \in Seq(Nat) /\ Items(s.done) \subseteq 1 .. s.size
    /\ s.bowl \in Weights

\* The lid has to open before it closes again.
Alternates(s) == \A m \in s.kept : m + 1 \notin s.kept

\* The events the feeder keeps are the newest.
AllNewer(s) == \A m \in s.outbox : \A n \in 1 .. s.size : m < n => n \in s.outbox

\* A message has all older events that are not acknowledged, and one at most that is stored.
GoodMessage(s, S) ==
    /\ \A n \in S : \A m \in s.outbox : m < n => m \in S
    /\ \A m, n \in S \cap s.kept : m = n

GoodMessages(s) ==
    /\ \A S \in Items(s.wire) : GoodMessage(s, S)
    /\ GoodMessage(s, s.left \cup Items(s.done))

\* What has been sent is among the oldest the feeder keeps, if it keeps it.
Flying(s) == UNION Items(s.wire)
OnWay(s) == Flying(s) \cup s.left \cup Items(s.done)
Sent(s)  == OnWay(s) \cup Items(s.acks) \cup {s.bowl.left, s.bowl.right}
AmongOldest(s) == Sent(s) \cap s.outbox \subseteq Batch(s.outbox)

\* Frames are decoded, and acknowledgements arrive, oldest first.
DoneInOrder(s) ==
    /\ \A i, j \in 1 .. Len(s.done) : i < j => s.done[i] < s.done[j]
    /\ \A i \in 1 .. Len(s.done) : \A m \in s.left : s.done[i] < m

AcksInOrder(s) ==
    \A i \in 1 .. Len(s.acks) : \A m \in s.outbox :
        m < s.acks[i] => \E j \in 1 .. Len(s.acks) : j < i /\ s.acks[j] = m

BowlIsStored(s) == {s.bowl.left, s.bowl.right} \subseteq s.kept \cup {0}

\* The events the database must have had, and those it will have: the last
\* message that has something to store brings the newest of them.
Sure(s) == {n \in s.kept : n \notin s.outbox \/ n \in Items(s.acks) \/ n \in Items(s.done)}
Due(s)  == {n \in s.kept : n \notin s.outbox \/ n \in Items(s.acks) \/ n \in OnWay(s)}

Silent(s)     == \A i \in 1 .. Len(s.wire) : s.wire[i] \cap s.kept = {}
Brings(s, S, n) == \E k \in S \cap s.kept : k >= n

WillHold(s, n) ==
    \/ \E i \in 1 .. Len(s.wire) :
          Brings(s, s.wire[i], n) /\ \A j \in 1 .. Len(s.wire) : j > i => s.wire[j] \cap s.kept = {}
    \/ Silent(s) /\ Brings(s, s.left, n)
    \/ Silent(s) /\ s.left \cap s.kept = {} /\ s.bowl.left >= n /\ s.bowl.right >= n

InOrder(s) ==
    /\ Alternates(s) /\ AllNewer(s) /\ GoodMessages(s) /\ AmongOldest(s)
    /\ DoneInOrder(s) /\ AcksInOrder(s) /\ BowlIsStored(s)
    /\ \A n \in Due(s) : WillHold(s, n)

\* Unless messages have come twice, the database has those already, and what is
\* on its way comes oldest first.
Holds(s) == \A n \in Sure(s) : n <= s.bowl.left /\ n <= s.bowl.right

ComesInOrder(s) ==
    /\ \A k \in s.kept \cap (s.left \cup Flying(s)) : s.bowl.left <= k /\ s.bowl.right <= k
    /\ \A i, j \in 1 .. Len(s.wire) :
          i < j => \A m \in s.wire[i] \cap s.kept : \A n \in s.wire[j] \cap s.kept : m <= n
    /\ \A m \in s.left \cap s.kept : \A n \in Flying(s) \cap s.kept : m <= n

Once(s) == Holds(s) /\ ComesInOrder(s)

\* The inductive invariant.
AckInv ==
    \A f \in Feeders \ doubtful : InOrder(Side(f)) /\ (f \notin repeated => Once(Side(f)))

\* At rest nothing is on its way, so that what is due is in the bowls.
LEMMA AckInvStores ==
  ASSUME TypeOK, AckInv
  PROVE  AcknowledgedIsStored
<1> SUFFICES ASSUME NEW f \in Feeders, AtRest(f), f \notin doubtful,
                    NEW n \in Numbers(f) \ outbox[f], KeepsBowl(log[f][n])
             PROVE  bowl[f].left >= n /\ bowl[f].right >= n
  BY DEF AcknowledgedIsStored
<1> DEFINE s == Side(f)
<1>1. s.wire = <<>> /\ s.left = {} /\ s.bowl = bowl[f] /\ n \in s.kept /\ n \notin s.outbox
  BY DEF AtRest, Side, Work, WorkIn, Idle
<1>2. InOrder(s)
  BY DEF AckInv
<1> HIDE DEF s
<1>3. n \in Due(s)
  BY <1>1 DEF Due
<1>4. WillHold(s, n)
  BY <1>2, <1>3 DEF InOrder
<1>5. 1 .. Len(s.wire) = {}
  BY <1>1
<1>6. QED
  BY <1>1, <1>4, <1>5 DEF WillHold, Brings

-----------------------------------------------------------------------------
(* What each step does to a feeder *)

\* The feeder keeps an event that is stored: what is due is not newer.
LEMMA NewestFits ==
  ASSUME TwoAtMost, NEW s, IsSide(s), InOrder(s)
  PROVE  /\ \A m, n \in Batch(s.outbox) \cap s.kept : m = n
         /\ \A k \in Batch(s.outbox) \cap s.kept :
               /\ \A n \in Due(s) : n <= k
               /\ s.bowl.left <= k /\ s.bowl.right <= k
<1> USE DEF IsSide
<1>1. Batch(s.outbox) \subseteq s.outbox /\ s.outbox \subseteq Nat /\ s.kept \subseteq Nat
  BY DEF Batch
<1>2. ASSUME NEW m \in Batch(s.outbox) \cap s.kept, NEW n \in Batch(s.outbox) \cap s.kept, m < n
      PROVE  FALSE
  <2>1. m \in 1 .. s.size /\ n \in 1 .. s.size /\ m + 1 # n
    BY <1>1 DEF InOrder, Alternates
  <2>2. m + 1 \in 1 .. s.size /\ m < m + 1 /\ m + 1 < n
    BY <1>2, <2>1
  <2>3. m + 1 \in s.outbox
    BY <1>1, <2>2 DEF InOrder, AllNewer
  <2>4. QED
    BY <1>1, <2>2, <2>3, NoneBetween
<1>3. ASSUME NEW m \in Batch(s.outbox) \cap s.kept, NEW n \in Batch(s.outbox) \cap s.kept
      PROVE  m = n
  <2>1. m \in Nat /\ n \in Nat
    BY <1>1
  <2>2. ~ (m < n) /\ ~ (n < m)
    BY <1>2
  <2>3. QED
    BY <2>1, <2>2
<1>4. ASSUME NEW k \in Batch(s.outbox) \cap s.kept, NEW n \in s.kept,
             n \in s.outbox => n \in Batch(s.outbox)
      PROVE  n <= k
  <2>1. CASE n \in s.outbox
    BY <1>1, <1>3, <1>4, <2>1
  <2>2. CASE n \notin s.outbox
    <3>1. k \in s.outbox /\ n \in 1 .. s.size /\ k \in Nat
      BY <1>1
    <3>2. ~ (k < n)
      BY <2>2, <3>1 DEF InOrder, AllNewer
    <3>3. QED
      BY <3>1, <3>2
  <2>3. QED
    BY <2>1, <2>2
<1>5. ASSUME NEW n \in Due(s) PROVE n \in s.kept /\ (n \in s.outbox => n \in Batch(s.outbox))
  BY DEF Due, InOrder, AmongOldest, Sent
<1>6. /\ s.bowl.left \in s.kept \cup {0} /\ s.bowl.right \in s.kept \cup {0}
      /\ s.bowl.left \in s.outbox => s.bowl.left \in Batch(s.outbox)
      /\ s.bowl.right \in s.outbox => s.bowl.right \in Batch(s.outbox)
  BY DEF InOrder, AmongOldest, Sent, BowlIsStored
<1>7. \A k \in Batch(s.outbox) \cap s.kept : 0 <= k
  BY <1>1
<1>8. QED
  BY <1>3, <1>4, <1>5, <1>6, <1>7

\* An event is new, so that no message is about it.
LEMMA EventInOrder ==
  ASSUME NEW s, NEW t, IsSide(s), IsSide(t), InOrder(s),
         t.size = s.size + 1, t.outbox = s.outbox \cup {t.size},
         t.kept = s.kept \/ (t.kept = s.kept \cup {t.size} /\ s.size \notin s.kept),
         t.wire = s.wire, t.acks = s.acks, t.left = s.left, t.done = s.done, t.bowl = s.bowl
  PROVE  InOrder(t) /\ (Once(s) => Once(t))
<1> USE DEF IsSide
<1>1. /\ s.size \in Nat /\ s.size \notin 1 .. 0 /\ t.size \notin 1 .. s.size
      /\ s.kept \subseteq Nat /\ s.outbox \subseteq Nat
      /\ \A n \in 1 .. t.size : n \in 1 .. s.size \/ n = t.size
      /\ \A n \in 1 .. s.size : n \in Nat /\ n < t.size /\ n + 1 # t.size + 1 /\ n \in 1 .. t.size
      /\ t.size + 1 \notin 1 .. s.size /\ t.size + 1 # t.size
  OBVIOUS
<1>2. \A S \in SUBSET (1 .. s.size) : S \cap t.kept = S \cap s.kept
  BY <1>1
<1>3. OnWay(t) = OnWay(s) /\ OnWay(s) \subseteq 1 .. s.size
  <2>1. Flying(s) \subseteq 1 .. s.size
    BY DEF Flying
  <2>2. Flying(t) = Flying(s)
    BY DEF Flying
  <2>3. QED
    BY <2>1, <2>2 DEF OnWay
<1>4. Alternates(t)
  <2>1. ASSUME NEW m \in t.kept, m + 1 \in t.kept PROVE FALSE
    <3>1. m \in 1 .. s.size \/ m = t.size
      BY <1>1
    <3>2. m + 1 = t.size => m = s.size
      BY <1>1, <3>1
    <3>3. m \in s.kept => m + 1 \notin s.kept
      BY DEF InOrder, Alternates
    <3>4. m = t.size => m + 1 \notin 1 .. s.size /\ m + 1 # t.size
      BY <1>1
    <3>5. s.size # t.size
      BY <1>1
    <3>6. QED
      BY <1>1, <2>1, <3>1, <3>2, <3>3, <3>4, <3>5
  <2>2. QED
    BY <2>1 DEF Alternates
<1>5. AllNewer(t)
  <2>1. ASSUME NEW m \in t.outbox, NEW n \in 1 .. t.size, m < n, n # t.size PROVE n \in t.outbox
    <3>1. n \in 1 .. s.size /\ (m = t.size => n < m /\ m \in Nat)
      BY <1>1, <2>1
    <3>2. m \in s.outbox
      BY <2>1, <3>1
    <3>3. QED
      BY <2>1, <3>1, <3>2 DEF InOrder, AllNewer
  <2>2. QED
    BY <2>1 DEF AllNewer
<1>6. ASSUME NEW S \in SUBSET (1 .. s.size), GoodMessage(s, S) PROVE GoodMessage(t, S)
  <2>1. \A n \in S : ~ (t.size < n)
    BY <1>1
  <2>2. \A n \in S : \A m \in t.outbox : m < n => m \in S
    BY <1>6, <2>1 DEF GoodMessage
  <2>3. QED
    BY <1>2, <1>6, <2>2 DEF GoodMessage
<1>7. GoodMessages(t)
  BY <1>6 DEF InOrder, GoodMessages
<1>8. AmongOldest(t)
  <2>1. \A n \in Sent(t) : n \in 1 .. s.size \/ n = 0
    <3>1. s.bowl.left \in s.kept \cup {0} /\ s.bowl.right \in s.kept \cup {0}
      BY DEF InOrder, BowlIsStored
    <3>2. QED
      BY <1>3, <3>1 DEF Sent
  <2>2. ASSUME NEW n \in Sent(t) \cap t.outbox PROVE n \in Batch(t.outbox)
    <3>1. n \in 1 .. s.size
      BY <1>1, <2>1
    <3>2. n \in s.outbox /\ n \in Sent(s)
      BY <1>1, <1>3, <3>1 DEF Sent
    <3>3. n \in Batch(s.outbox)
      BY <3>2 DEF InOrder, AmongOldest
    <3>4. \A m \in t.outbox : m < n => m \in s.outbox
      BY <1>1, <3>1
    <3>5. n <= n /\ t.outbox \in SUBSET Nat /\ n \in t.outbox /\ s.outbox \in SUBSET (1 .. s.size)
      BY <1>1, <3>1
    <3>6. QED
      BY <1>1, <3>3, <3>4, <3>5, StillFits
  <2>3. QED
    BY <2>2 DEF AmongOldest
<1>9. DoneInOrder(t)
  BY DEF InOrder, DoneInOrder
<1>10. AcksInOrder(t)
  <2>1. ASSUME NEW i \in 1 .. Len(s.acks) PROVE ~ (t.size < s.acks[i])
    <3>1. s.acks[i] \in 1 .. s.size
      BY DEF Items
    <3>2. QED
      BY <1>1, <3>1
  <2>2. QED
    BY <2>1 DEF InOrder, AcksInOrder
<1>11. BowlIsStored(t)
  BY DEF InOrder, BowlIsStored
<1>12. Due(t) = Due(s) /\ Sure(t) = Sure(s)
  <2>1. t.size \notin OnWay(t) /\ t.size \notin Items(t.acks) /\ t.size \notin Items(t.done)
    BY <1>1, <1>3
  <2>2. \A n \in s.kept : n \in t.outbox <=> n \in s.outbox
    BY <1>1
  <2>3. QED
    BY <1>3, <2>1, <2>2 DEF Due, Sure
<1>13. /\ \A i \in 1 .. Len(s.wire) : s.wire[i] \in SUBSET (1 .. s.size)
       /\ Flying(s) \in SUBSET (1 .. s.size) /\ Flying(t) = Flying(s)
  BY DEF Items, Flying
<1>14. /\ Silent(t) <=> Silent(s)
       /\ t.left \cap t.kept = s.left \cap s.kept
       /\ Flying(t) \cap t.kept = Flying(s) \cap s.kept
       /\ \A i \in 1 .. Len(s.wire) : t.wire[i] \cap t.kept = s.wire[i] \cap s.kept
  <2>1. \A i \in 1 .. Len(s.wire) : t.wire[i] \cap t.kept = s.wire[i] \cap s.kept
    BY <1>2, <1>13, Zenon
  <2>2. t.left \cap t.kept = s.left \cap s.kept
    BY <1>2
  <2>3. Flying(t) \cap t.kept = Flying(s) \cap s.kept
    BY <1>2, <1>13, Zenon
  <2>4. QED
    BY <2>1, <2>2, <2>3 DEF Silent
<1>15. ASSUME NEW n, WillHold(s, n) PROVE WillHold(t, n)
  <2>1. \A i \in 1 .. Len(s.wire) : Brings(t, t.wire[i], n) <=> Brings(s, s.wire[i], n)
    BY <1>14 DEF Brings
  <2>2. Brings(t, t.left, n) <=> Brings(s, s.left, n)
    BY <1>14 DEF Brings
  <2>3. QED
    BY <1>14, <1>15, <2>1, <2>2 DEF WillHold
<1>16. Once(s) => Once(t)
  <2>1. t.kept \cap (t.left \cup Flying(t)) = s.kept \cap (s.left \cup Flying(s))
    BY <1>14
  <2>2. QED
    BY <1>12, <1>14, <2>1 DEF Once, Holds, ComesInOrder
<1>17. QED
  BY <1>4, <1>5, <1>7, <1>8, <1>9, <1>10, <1>11, <1>12, <1>15, <1>16 DEF InOrder

\* A message has the oldest of what the feeder keeps, and nothing due is newer than
\* what it brings.
LEMMA SendInOrder ==
  ASSUME TwoAtMost, NEW s, NEW t, IsSide(s), IsSide(t), InOrder(s),
         t.wire = Append(s.wire, Batch(s.outbox)),
         t.size = s.size, t.kept = s.kept, t.outbox = s.outbox,
         t.acks = s.acks, t.left = s.left, t.done = s.done, t.bowl = s.bowl
  PROVE  InOrder(t) /\ (Once(s) => Once(t))
<1> USE DEF IsSide
<1> DEFINE B == Batch(s.outbox)
<1>0. B \subseteq s.outbox /\ s.outbox \subseteq Nat /\ s.kept \subseteq Nat /\ B \in SUBSET Nat
  BY DEF Batch
<1>n. /\ \A m, n \in B \cap s.kept : m = n
      /\ \A k \in B \cap s.kept : /\ \A n \in Due(s) : n <= k
                                  /\ s.bowl.left <= k /\ s.bowl.right <= k
  BY NewestFits
<1>1. /\ B \subseteq s.outbox /\ s.outbox \subseteq Nat /\ s.kept \subseteq Nat /\ B \in SUBSET Nat
      /\ \A m, n \in B \cap s.kept : m = n
      /\ \A k \in B \cap s.kept : /\ \A n \in Due(s) : n <= k
                                  /\ s.bowl.left <= k /\ s.bowl.right <= k
  BY <1>0, <1>n
<1>2. ASSUME NEW n \in B, NEW m \in s.outbox, m < n PROVE m \in B
  <2>1. m <= n /\ m \in s.outbox /\ \A x \in s.outbox : x < m => x \in s.outbox
    BY <1>1, <1>2
  <2>2. s.outbox \in SUBSET (1 .. s.size) /\ s.outbox \in SUBSET Nat /\ n \in Batch(s.outbox)
    BY <1>1
  <2> HIDE DEF B
  <2>3. m \in Batch(s.outbox)
    BY <2>1, <2>2, StillFits
  <2>4. QED
    BY <2>3 DEF B
<1>3. GoodMessage(t, B)
  BY <1>1, <1>2 DEF GoodMessage
<1> HIDE DEF B
<1>4. /\ Items(t.wire) = Items(s.wire) \cup {B}
      /\ Len(s.wire) \in Nat /\ Len(t.wire) = Len(s.wire) + 1 /\ t.wire[Len(s.wire) + 1] = B
      /\ \A i \in 1 .. Len(s.wire) : t.wire[i] = s.wire[i]
  <2>1. t.wire = Append(s.wire, B) /\ B \in SUBSET Nat
    BY <1>1 DEF B
  <2>2. Items(t.wire) = Items(s.wire) \cup {B}
    <3>1. s.wire \in Seq(SUBSET Nat)
      OBVIOUS
    <3> HIDE DEF IsSide
    <3>2. \A q \in Seq(SUBSET Nat) : \A S \in SUBSET Nat : Items(Append(q, S)) = Items(q) \cup {S}
      BY ItemsAppend
    <3>4. Items(Append(s.wire, B)) = Items(s.wire) \cup {B}
      BY <2>1, <3>1, <3>2
    <3>3. QED
      BY <2>1, <3>4
  <2>3. QED
    BY <2>1, <2>2, AppendProperties
<1>5. /\ \A i \in 1 .. Len(t.wire) : i \in 1 .. Len(s.wire) \/ i = Len(s.wire) + 1
      /\ \A i \in 1 .. Len(s.wire) : i \in 1 .. Len(t.wire) /\ i < Len(s.wire) + 1 /\ ~ (i > Len(s.wire) + 1)
      /\ Len(s.wire) + 1 \in 1 .. Len(t.wire) /\ ~ (Len(s.wire) + 1 > Len(s.wire) + 1)
  BY <1>4
<1>6. OnWay(t) = OnWay(s) \cup B /\ Flying(t) = Flying(s) \cup B
  <2>1. Flying(t) = Flying(s) \cup B
    BY <1>4, Zenon DEF Flying
  <2>2. QED
    BY <2>1 DEF OnWay
<1>7. GoodMessages(t)
  BY <1>3, <1>4 DEF InOrder, GoodMessages, GoodMessage
<1>8. AmongOldest(t)
  BY <1>6 DEF InOrder, AmongOldest, Sent, B
<1>9. Alternates(t) /\ AllNewer(t) /\ DoneInOrder(t) /\ AcksInOrder(t) /\ BowlIsStored(t)
  BY DEF InOrder, Alternates, AllNewer, DoneInOrder, AcksInOrder, BowlIsStored
<1>10. Due(t) = Due(s) \cup (B \cap s.kept) /\ Sure(t) = Sure(s)
  BY <1>6 DEF Due, Sure
<1>11. ASSUME NEW n \in Due(t) PROVE WillHold(t, n)
  <2>1. CASE B \cap s.kept = {}
    <3>1. WillHold(s, n)
      BY <1>10, <2>1 DEF InOrder
    <3>2. Silent(s) => Silent(t)
      BY <1>4, <1>5, <2>1 DEF Silent
    <3>3. ASSUME NEW i \in 1 .. Len(s.wire), Brings(s, s.wire[i], n),
                 \A j \in 1 .. Len(s.wire) : j > i => s.wire[j] \cap s.kept = {}
          PROVE  WillHold(t, n)
      <4>1. Brings(t, t.wire[i], n) /\ i \in 1 .. Len(t.wire)
        BY <1>4, <1>5, <3>3 DEF Brings
      <4>2. \A j \in 1 .. Len(t.wire) : j > i => t.wire[j] \cap t.kept = {}
        BY <1>4, <1>5, <2>1, <3>3
      <4>3. QED
        BY <4>1, <4>2 DEF WillHold
    <3>4. QED
      BY <3>1, <3>2, <3>3 DEF WillHold, Brings
  <2>2. CASE B \cap s.kept # {}
    <3>1. PICK k \in B \cap s.kept : TRUE
      BY <2>2
    <3>2. n <= k
      <4>1. n \in Due(s) \/ n = k
        BY <1>1, <1>10
      <4>2. k \in Nat
        BY <1>1
      <4>3. QED
        BY <1>1, <4>1, <4>2
    <3>3. n \in Nat /\ k \in Nat
      BY <1>1 DEF Due
    <3>4. Brings(t, t.wire[Len(s.wire) + 1], n)
      BY <1>4, <3>2, <3>3 DEF Brings
    <3>5. \A j \in 1 .. Len(t.wire) : ~ (j > Len(s.wire) + 1)
      BY <1>4
    <3>6. QED
      BY <1>5, <3>4, <3>5 DEF WillHold
  <2>3. QED
    BY <2>1, <2>2
<1>12. ASSUME Once(s) PROVE Once(t)
  <2>1. Holds(t)
    BY <1>10, <1>12 DEF Once, Holds
  <2>2. \A n \in OnWay(s) \cap s.kept : n \in Due(s)
    BY DEF Due
  <2>s. /\ \A k \in s.kept \cap (s.left \cup Flying(s)) : s.bowl.left <= k /\ s.bowl.right <= k
        /\ \A m \in s.left \cap s.kept : \A n \in Flying(s) \cap s.kept : m <= n
    BY <1>12 DEF Once, ComesInOrder
  <2>3. ASSUME NEW k \in t.kept \cap (t.left \cup Flying(t))
        PROVE  t.bowl.left <= k /\ t.bowl.right <= k
    <3>1. k \in s.kept /\ (k \in s.left \cup Flying(s) \/ k \in B)
      BY <1>6
    <3>2. QED
      BY <1>1, <2>s, <3>1
  <2>4. ASSUME NEW m \in t.left \cap t.kept, NEW n \in Flying(t) \cap t.kept
        PROVE  m <= n
    <3>1. n \in s.kept /\ (n \in Flying(s) \/ n \in B) /\ m \in s.left \cap s.kept
      BY <1>6
    <3>2. m \in Due(s)
      BY <2>2, <3>1 DEF OnWay
    <3>3. QED
      BY <1>1, <2>s, <3>1, <3>2
  <2>5. ASSUME NEW i \in 1 .. Len(t.wire), NEW j \in 1 .. Len(t.wire), i < j,
               NEW m \in t.wire[i] \cap t.kept, NEW n \in t.wire[j] \cap t.kept
        PROVE  m <= n
    <3>1. i \in 1 .. Len(s.wire)
      BY <1>4, <2>5
    <3>2. CASE j \in 1 .. Len(s.wire)
      BY <1>4, <1>12, <2>5, <3>1, <3>2 DEF Once, ComesInOrder
    <3>3. CASE j = Len(s.wire) + 1
      <4>1. m \in Due(s)
        BY <1>4, <2>2, <3>1 DEF OnWay, Flying, Items
      <4>2. QED
        BY <1>1, <1>4, <3>3, <4>1
    <3>4. QED
      BY <1>5, <3>2, <3>3
  <2>6. QED
    BY <2>1, <2>3, <2>4, <2>5 DEF Once, ComesInOrder
<1>13. QED
  BY <1>7, <1>8, <1>9, <1>11, <1>12 DEF InOrder

\* Messages that come again come in their order, so that the last is what it was.
LEMMA AgainInOrder ==
  ASSUME NEW s, NEW t, IsSide(s), IsSide(t), InOrder(s), t.wire = s.wire \o s.wire,
         t.size = s.size, t.kept = s.kept, t.outbox = s.outbox,
         t.acks = s.acks, t.left = s.left, t.done = s.done, t.bowl = s.bowl
  PROVE  InOrder(t)
<1> DEFINE L == Len(s.wire)
<1>1. s.wire \in Seq(SUBSET Nat)
  BY DEF IsSide
<1>2. /\ L \in Nat /\ Len(t.wire) = L + L
      /\ \A i \in 1 .. L + L : t.wire[i] = IF i <= L THEN s.wire[i] ELSE s.wire[i - L]
  BY <1>1, ConcatProperties
<1>3. Items(t.wire) = Items(s.wire)
  <2>1. \A q \in Seq(SUBSET Nat) : Items(q \o q) = Items(q) \cup Items(q)
    BY ItemsConcat
  <2>2. QED
    BY <1>1, <2>1
<1>4. OnWay(t) = OnWay(s) /\ Due(t) = Due(s)
  BY <1>3 DEF OnWay, Flying, Due
<1>5. GoodMessages(t) /\ AmongOldest(t)
  BY <1>3, <1>4 DEF InOrder, GoodMessages, GoodMessage, AmongOldest, Sent
<1>6. Alternates(t) /\ AllNewer(t) /\ DoneInOrder(t) /\ AcksInOrder(t) /\ BowlIsStored(t)
  BY DEF InOrder, Alternates, AllNewer, DoneInOrder, AcksInOrder, BowlIsStored
<1>7. Silent(s) => Silent(t)
  <2>1. \A i \in 1 .. L + L : i \in 1 .. L \/ i - L \in 1 .. L
    BY <1>2
  <2>2. \A i \in 1 .. L + L : \E j \in 1 .. L : t.wire[i] = s.wire[j]
    BY <1>2, <2>1
  <2>3. QED
    BY <1>2, <2>2 DEF Silent
<1>8. ASSUME NEW n \in Due(t) PROVE WillHold(t, n)
  <2>1. WillHold(s, n)
    BY <1>4 DEF InOrder
  <2>2. ASSUME NEW i \in 1 .. L, Brings(s, s.wire[i], n),
               \A j \in 1 .. L : j > i => s.wire[j] \cap s.kept = {}
        PROVE  WillHold(t, n)
    <3>1. L + i \in 1 .. L + L /\ ~ (L + i <= L) /\ L + i - L = i
      BY <1>2
    <3>2. Brings(t, t.wire[L + i], n) /\ L + i \in 1 .. Len(t.wire)
      BY <1>2, <2>2, <3>1 DEF Brings
    <3>3. ASSUME NEW j \in 1 .. Len(t.wire), j > L + i PROVE t.wire[j] \cap t.kept = {}
      <4>1. j \in 1 .. L + L /\ ~ (j <= L) /\ j - L \in 1 .. L /\ j - L > i
        BY <1>2, <3>3
      <4>2. QED
        BY <1>2, <2>2, <4>1
    <3>4. QED
      BY <3>2, <3>3 DEF WillHold
  <2>3. QED
    BY <1>7, <2>1, <2>2 DEF WillHold, Brings
<1>9. QED
  BY <1>5, <1>6, <1>8 DEF InOrder

\* The feeder drops the oldest event it keeps, or one it had dropped.
LEMMA AckInOrder ==
  ASSUME NEW s, NEW t, IsSide(s), IsSide(t), InOrder(s), s.acks # <<>>,
         t.outbox = s.outbox \ {Head(s.acks)}, t.acks = Tail(s.acks),
         t.size = s.size, t.kept = s.kept,
         t.wire = s.wire, t.left = s.left, t.done = s.done, t.bowl = s.bowl
  PROVE  InOrder(t) /\ (Once(s) => Once(t))
<1> DEFINE a == Head(s.acks)
<1>1. s.acks \in Seq(Nat) /\ s.outbox \subseteq 1 .. s.size /\ s.size \in Nat /\ Items(s.acks) \subseteq 1 .. s.size
  BY DEF IsSide
<1>2. /\ Items(s.acks) = {a} \cup Items(t.acks) /\ a = s.acks[1] /\ a \in Nat
      /\ Len(s.acks) \in Nat /\ 1 <= Len(s.acks) /\ Len(t.acks) = Len(s.acks) - 1
      /\ \A i \in 1 .. Len(s.acks) - 1 : t.acks[i] = s.acks[i + 1]
  BY <1>1, ItemsTail
<1> HIDE DEF a
<1>3. t.outbox = s.outbox \ {a} /\ OnWay(t) = OnWay(s)
  BY DEF a, OnWay, Flying
<1>4. \A m \in s.outbox : ~ (m < a)
  <2>1. 1 \in 1 .. Len(s.acks) /\ \A j \in 1 .. Len(s.acks) : ~ (j < 1)
    BY <1>2
  <2>2. QED
    BY <1>2, <2>1 DEF InOrder, AcksInOrder
<1>5. AllNewer(t)
  <2>1. ASSUME NEW m \in t.outbox, NEW n \in 1 .. t.size, m < n PROVE n \in t.outbox
    <3>1. m \in s.outbox /\ n \in s.outbox
      BY <1>3, <2>1 DEF InOrder, AllNewer
    <3>2. n # a
      BY <1>4, <2>1, <3>1
    <3>3. QED
      BY <1>3, <3>1, <3>2
  <2>2. QED
    BY <2>1 DEF AllNewer
<1>6. GoodMessages(t)
  BY <1>3 DEF InOrder, GoodMessages, GoodMessage
<1>7. AmongOldest(t)
  <2>1. ASSUME NEW n \in Sent(t) \cap t.outbox PROVE n \in Batch(t.outbox)
    <3>1. n \in Sent(s) \cap s.outbox
      BY <1>2, <1>3 DEF Sent
    <3>2. n \in Batch(s.outbox)
      BY <3>1 DEF InOrder, AmongOldest
    <3>3. t.outbox \in SUBSET Nat /\ s.outbox \in SUBSET (1 .. s.size) /\ s.size \in Nat
      BY <1>1, <1>3
    <3>4. n \in t.outbox /\ n <= n /\ \A m \in t.outbox : m < n => m \in s.outbox
      BY <1>3, <3>3
    <3>5. QED
      BY <3>2, <3>3, <3>4, StillFits
  <2>2. QED
    BY <2>1 DEF AmongOldest
<1>8. AcksInOrder(t)
  <2>1. ASSUME NEW i \in 1 .. Len(t.acks), NEW m \in t.outbox, m < t.acks[i]
        PROVE  \E j \in 1 .. Len(t.acks) : j < i /\ t.acks[j] = m
    <3>1. i + 1 \in 1 .. Len(s.acks) /\ t.acks[i] = s.acks[i + 1] /\ m \in s.outbox /\ m # a
      BY <1>2, <1>3
    <3>2. PICK j \in 1 .. Len(s.acks) : j < i + 1 /\ s.acks[j] = m
      BY <2>1, <3>1 DEF InOrder, AcksInOrder
    <3>3. j # 1
      BY <1>2, <3>1, <3>2
    <3>4. j - 1 \in 1 .. Len(s.acks) - 1 /\ j - 1 + 1 = j /\ j - 1 < i
      BY <1>2, <3>2, <3>3
    <3>5. QED
      BY <1>2, <3>2, <3>4
  <2>2. QED
    BY <2>1 DEF AcksInOrder
<1>9. Alternates(t) /\ DoneInOrder(t) /\ BowlIsStored(t)
  BY DEF InOrder, Alternates, DoneInOrder, BowlIsStored
<1>10. Due(t) \subseteq Due(s) /\ Sure(t) \subseteq Sure(s)
  BY <1>2, <1>3 DEF Due, Sure
<1>11. \A n : WillHold(s, n) => WillHold(t, n)
  BY DEF WillHold, Silent, Brings
<1>12. Once(s) => Once(t)
  BY <1>10 DEF Once, Holds, ComesInOrder, Flying
<1>13. QED
  BY <1>5, <1>6, <1>7, <1>8, <1>9, <1>10, <1>11, <1>12 DEF InOrder

\* The oldest message goes from the queue into work.
LEMMA ReceiveInOrder ==
  ASSUME NEW s, NEW t, IsSide(s), IsSide(t), InOrder(s), s.wire # <<>>, s.left = {}, s.done = <<>>,
         t.wire = Tail(s.wire), t.left = Head(s.wire), t.done = <<>>,
         t.size = s.size, t.kept = s.kept, t.outbox = s.outbox, t.acks = s.acks, t.bowl = s.bowl
  PROVE  InOrder(t) /\ (Once(s) => Once(t))
<1> DEFINE M == Head(s.wire)
<1>1. s.wire \in Seq(SUBSET Nat)
  BY DEF IsSide
<1>2. /\ Items(s.wire) = {M} \cup Items(t.wire) /\ M = s.wire[1]
      /\ Len(s.wire) \in Nat /\ 1 <= Len(s.wire) /\ Len(t.wire) = Len(s.wire) - 1
      /\ \A i \in 1 .. Len(s.wire) - 1 : t.wire[i] = s.wire[i + 1]
  BY <1>1, ItemsTail
<1>3. t.left = M /\ Items(s.done) = {} /\ Items(t.done) = {} /\ Len(t.done) = 0
  BY NoItems
<1> HIDE DEF M
<1>4. Flying(s) = M \cup Flying(t)
  BY <1>2, Zenon DEF Flying
<1>5. OnWay(t) = OnWay(s) /\ Due(t) = Due(s) /\ Sure(t) = Sure(s)
  BY <1>3, <1>4 DEF OnWay, Due, Sure
<1>6. GoodMessages(t)
  <2>1. t.left \cup Items(t.done) = M /\ M \in Items(s.wire) /\ Items(t.wire) \subseteq Items(s.wire)
    BY <1>2, <1>3
  <2>2. QED
    BY <2>1 DEF InOrder, GoodMessages, GoodMessage
<1>7. AmongOldest(t)
  BY <1>5 DEF InOrder, AmongOldest, Sent
<1>8. DoneInOrder(t)
  BY <1>3 DEF DoneInOrder
<1>9. Alternates(t) /\ AllNewer(t) /\ AcksInOrder(t) /\ BowlIsStored(t)
  BY DEF InOrder, Alternates, AllNewer, AcksInOrder, BowlIsStored
<1>10. \A j \in 1 .. Len(t.wire) : j + 1 \in 1 .. Len(s.wire) /\ j + 1 > 1 /\ t.wire[j] = s.wire[j + 1]
  BY <1>2
<1>11. ASSUME NEW n \in Due(t) PROVE WillHold(t, n)
  <2>1. WillHold(s, n)
    BY <1>5 DEF InOrder
  <2>2. ASSUME NEW i \in 1 .. Len(s.wire), Brings(s, s.wire[i], n),
               \A j \in 1 .. Len(s.wire) : j > i => s.wire[j] \cap s.kept = {}
        PROVE  WillHold(t, n)
    <3>1. CASE i = 1
      <4>1. Silent(t) /\ Brings(t, t.left, n)
        BY <1>2, <1>3, <1>10, <2>2, <3>1 DEF Silent, Brings
      <4>2. QED
        BY <4>1 DEF WillHold
    <3>2. CASE i # 1
      <4>1. i - 1 \in 1 .. Len(t.wire) /\ t.wire[i - 1] = s.wire[i]
        BY <1>2, <3>2
      <4>2. \A j \in 1 .. Len(t.wire) : j > i - 1 => j + 1 > i
        BY <1>2
      <4>3. \A j \in 1 .. Len(t.wire) : j > i - 1 => t.wire[j] \cap t.kept = {}
        BY <1>10, <2>2, <4>2
      <4>4. Brings(t, t.wire[i - 1], n)
        BY <2>2, <4>1 DEF Brings
      <4>5. QED
        BY <4>1, <4>3, <4>4 DEF WillHold
    <3>3. QED
      BY <3>1, <3>2
  <2>3. ASSUME Silent(s), s.bowl.left >= n, s.bowl.right >= n PROVE WillHold(t, n)
    <3>1. 1 \in 1 .. Len(s.wire)
      BY <1>2
    <3>2. Silent(t) /\ t.left \cap t.kept = {}
      BY <1>2, <1>3, <1>10, <2>3, <3>1 DEF Silent
    <3>3. QED
      BY <2>3, <3>2 DEF WillHold
  <2>4. QED
    BY <2>1, <2>2, <2>3 DEF WillHold, Brings
<1>12. ASSUME Once(s) PROVE Once(t)
  <2>1. Holds(t)
    BY <1>5, <1>12 DEF Once, Holds
  <2>2. t.left \cup Flying(t) = s.left \cup Flying(s)
    BY <1>3, <1>4
  <2>3. \A k \in t.kept \cap (t.left \cup Flying(t)) : t.bowl.left <= k /\ t.bowl.right <= k
    BY <1>12, <2>2 DEF Once, ComesInOrder
  <2>4. /\ \A i, j \in 1 .. Len(s.wire) :
              i < j => \A m \in s.wire[i] \cap s.kept : \A n \in s.wire[j] \cap s.kept : m <= n
        /\ 1 \in 1 .. Len(s.wire)
    BY <1>2, <1>12 DEF Once, ComesInOrder
  <2>5. ASSUME NEW i \in 1 .. Len(t.wire), NEW j \in 1 .. Len(t.wire), i < j,
               NEW m \in t.wire[i] \cap t.kept, NEW n \in t.wire[j] \cap t.kept
        PROVE  m <= n
    <3>1. i + 1 < j + 1
      BY <2>5
    <3>2. QED
      BY <1>10, <2>4, <3>1
  <2>6. ASSUME NEW m \in t.left \cap t.kept, NEW n \in Flying(t) \cap t.kept PROVE m <= n
    <3>1. PICK j \in 1 .. Len(t.wire) : n \in t.wire[j]
      BY DEF Flying, Items
    <3>2. j + 1 \in 1 .. Len(s.wire) /\ 1 < j + 1 /\ n \in s.wire[j + 1] /\ m \in s.wire[1]
      BY <1>2, <1>3, <1>10, <3>1
    <3>3. QED
      BY <2>4, <3>2
  <2>7. QED
    BY <2>1, <2>3, <2>5, <2>6 DEF Once, ComesInOrder
<1>13. QED
  BY <1>6, <1>7, <1>8, <1>9, <1>11, <1>12 DEF InOrder

\* The next frame, the oldest that is left, is stored, which makes it the newest stored.
LEMMA FrameInOrder ==
  ASSUME NEW s, NEW t, IsSide(s), IsSide(t), InOrder(s),
         NEW n \in s.left, \A m \in s.left : n <= m,
         t.left = s.left \ {n}, t.done = Append(s.done, n),
         t.bowl = IF n \in s.kept THEN Both(n) ELSE s.bowl,
         t.size = s.size, t.kept = s.kept, t.outbox = s.outbox, t.acks = s.acks, t.wire = s.wire
  PROVE  InOrder(t) /\ (Once(s) => Once(t))
<1>1. /\ s.done \in Seq(Nat) /\ n \in 1 .. s.size /\ s.size \in Nat /\ n \in Nat
      /\ s.left \subseteq Nat /\ s.kept \subseteq Nat /\ s.bowl \in Weights
  BY DEF IsSide
<1>2. /\ Items(t.done) = Items(s.done) \cup {n}
      /\ Len(s.done) \in Nat /\ Len(t.done) = Len(s.done) + 1 /\ t.done[Len(s.done) + 1] = n
      /\ \A i \in 1 .. Len(s.done) : t.done[i] = s.done[i]
  BY <1>1, ItemsAppend, AppendProperties
<1>3. t.left \cup Items(t.done) = s.left \cup Items(s.done)
  BY <1>2
<1>4. OnWay(t) = OnWay(s) /\ Due(t) = Due(s) /\ Flying(t) = Flying(s)
  <2>1. Flying(t) = Flying(s)
    BY DEF Flying
  <2>2. OnWay(t) = OnWay(s)
    BY <1>3, <2>1 DEF OnWay
  <2>3. QED
    BY <2>1, <2>2 DEF Due
<1>5. GoodMessages(t)
  BY <1>3 DEF InOrder, GoodMessages, GoodMessage
<1>6. n \in s.kept => t.bowl.left = n /\ t.bowl.right = n
  BY <1>1, BothWeights
<1>7. AmongOldest(t)
  <2>1. n \in OnWay(s)
    BY DEF OnWay
  <2>2. Sent(t) \subseteq Sent(s)
    BY <1>4, <1>6, <2>1 DEF Sent
  <2>3. QED
    BY <2>2 DEF InOrder, AmongOldest
<1>8. DoneInOrder(t)
  <2>1. /\ \A i, j \in 1 .. Len(s.done) : i < j => s.done[i] < s.done[j]
        /\ \A i \in 1 .. Len(s.done) : \A m \in s.left : s.done[i] < m
    BY DEF InOrder, DoneInOrder
  <2>2. \A i \in 1 .. Len(t.done) : i \in 1 .. Len(s.done) \/ i = Len(s.done) + 1
    BY <1>2
  <2>3. ASSUME NEW i \in 1 .. Len(t.done), NEW j \in 1 .. Len(t.done), i < j PROVE t.done[i] < t.done[j]
    <3>1. i \in 1 .. Len(s.done)
      BY <1>2, <2>3
    <3>2. QED
      BY <1>2, <2>1, <2>2, <2>3, <3>1
  <2>4. ASSUME NEW i \in 1 .. Len(t.done), NEW m \in t.left PROVE t.done[i] < m
    <3>1. m \in s.left /\ n < m
      BY <1>1
    <3>2. QED
      BY <1>2, <2>1, <2>2, <3>1
  <2>5. QED
    BY <2>3, <2>4 DEF DoneInOrder
<1>9. BowlIsStored(t)
  BY <1>6 DEF InOrder, BowlIsStored
<1>10. Alternates(t) /\ AllNewer(t) /\ AcksInOrder(t)
  BY DEF InOrder, Alternates, AllNewer, AcksInOrder
<1>11. n \in s.kept => s.left \cap s.kept = {n} /\ t.left \cap t.kept = {}
  BY DEF InOrder, GoodMessages, GoodMessage
<1>12. n \notin s.kept => t.left \cap t.kept = s.left \cap s.kept
  OBVIOUS
<1>13. ASSUME NEW m \in Due(t) PROVE WillHold(t, m)
  <2>1. WillHold(s, m) /\ m \in Nat
    BY <1>1, <1>4 DEF InOrder, Due
  <2>2. CASE n \notin s.kept
    BY <1>12, <2>1, <2>2 DEF WillHold, Silent, Brings
  <2>3. CASE n \in s.kept
    <3>1. Brings(s, s.left, m) => t.bowl.left >= m /\ t.bowl.right >= m
      BY <1>6, <1>11, <2>3 DEF Brings
    <3>2. s.left \cap s.kept # {}
      BY <2>3
    <3>3. Silent(t) <=> Silent(s)
      BY DEF Silent
    <3>4. \A i \in 1 .. Len(s.wire) : Brings(t, t.wire[i], m) <=> Brings(s, s.wire[i], m)
      BY DEF Brings
    <3>5. QED
      BY <1>11, <2>1, <2>3, <3>1, <3>2, <3>3, <3>4 DEF WillHold
  <2>4. QED
    BY <2>2, <2>3
<1>14. ASSUME Once(s) PROVE Once(t)
  <2>1. /\ \A m \in Sure(s) : m <= s.bowl.left /\ m <= s.bowl.right
        /\ \A k \in s.kept \cap (s.left \cup Flying(s)) : s.bowl.left <= k /\ s.bowl.right <= k
        /\ \A m \in s.left \cap s.kept : \A k \in Flying(s) \cap s.kept : m <= k
    BY <1>14 DEF Once, Holds, ComesInOrder
  <2>2. \A m \in Sure(t) : m \in Sure(s) \/ (m = n /\ n \in s.kept)
    BY <1>2 DEF Sure
  <2>3. Holds(t)
    <3>1. CASE n \notin s.kept
      BY <2>1, <2>2, <3>1 DEF Holds
    <3>2. CASE n \in s.kept
      <4>1. s.bowl.left <= n /\ s.bowl.left \in Nat
        BY <1>1, <2>1, <3>2 DEF Weights
      <4>2. ASSUME NEW m \in Sure(t) PROVE m <= n
        <5>1. m \in Nat
          BY <1>1 DEF Sure
        <5>2. QED
          BY <1>1, <2>1, <2>2, <4>1, <5>1
      <4>3. QED
        BY <1>6, <3>2, <4>2 DEF Holds
    <3>3. QED
      BY <3>1, <3>2
  <2>4. \A k \in t.kept \cap (t.left \cup Flying(t)) : t.bowl.left <= k /\ t.bowl.right <= k
    <3>1. CASE n \notin s.kept
      BY <1>4, <2>1, <3>1
    <3>2. CASE n \in s.kept
      BY <1>4, <1>6, <1>11, <2>1, <3>2
    <3>3. QED
      BY <3>1, <3>2
  <2>5. \A m \in t.left \cap t.kept : \A k \in Flying(t) \cap t.kept : m <= k
    BY <1>4, <2>1
  <2>6. QED
    BY <1>14, <2>3, <2>4, <2>5 DEF Once, ComesInOrder
<1>15. QED
  BY <1>5, <1>7, <1>8, <1>9, <1>10, <1>13, <1>14 DEF InOrder

\* The callback acknowledges what it has done, in the order in which it has done it.
LEMMA ReturnInOrder ==
  ASSUME NEW s, NEW t, IsSide(s), IsSide(t), InOrder(s), s.left = {},
         t.left = {}, t.done = <<>>, t.acks = s.acks \o s.done,
         t.size = s.size, t.kept = s.kept, t.outbox = s.outbox, t.wire = s.wire, t.bowl = s.bowl
  PROVE  InOrder(t) /\ (Once(s) => Once(t))
<1>1. s.acks \in Seq(Nat) /\ s.done \in Seq(Nat)
  BY DEF IsSide
<1> DEFINE A == Len(s.acks)
           D == Len(s.done)
           r == t.acks
<1>n. A \in Nat /\ D \in Nat
  BY <1>1
<1>c. /\ Len(r) = A + D
      /\ \A i \in 1 .. A + D : r[i] = IF i <= A THEN s.acks[i] ELSE s.done[i - A]
  <2>1. \A p, q \in Seq(Nat) :
           /\ Len(p \o q) = Len(p) + Len(q)
           /\ \A i \in 1 .. Len(p) + Len(q) : (p \o q)[i] = IF i <= Len(p) THEN p[i] ELSE q[i - Len(p)]
    BY ConcatProperties
  <2>2. r = s.acks \o s.done
    OBVIOUS
  <2> HIDE DEF r
  <2>3. QED
    BY <1>1, <2>1, <2>2
<1>i. Items(r) = Items(s.acks) \cup Items(s.done)
  <2>1. \A p, q \in Seq(Nat) : Items(p \o q) = Items(p) \cup Items(q)
    BY ItemsConcat
  <2>2. QED
    BY <1>1, <2>1
<1>2. /\ Items(t.acks) = Items(s.acks) \cup Items(s.done)
      /\ A \in Nat /\ D \in Nat /\ Len(t.acks) = A + D
      /\ \A i \in 1 .. A : i \in 1 .. A + D /\ t.acks[i] = s.acks[i]
      /\ \A k \in 1 .. D : A + k \in 1 .. A + D /\ t.acks[A + k] = s.done[k]
  <2> HIDE DEF A, D, r
  <2>1. \A i \in 1 .. A : i \in 1 .. A + D /\ i <= A
    BY <1>n
  <2>2. \A k \in 1 .. D : A + k \in 1 .. A + D /\ ~ (A + k <= A) /\ A + k - A = k
    BY <1>n
  <2>3. \A i \in 1 .. A : r[i] = s.acks[i]
    BY <1>c, <2>1
  <2>4. ASSUME NEW k \in 1 .. D PROVE r[A + k] = s.done[k]
    <3>1. PICK x \in 1 .. A + D : x = A + k /\ ~ (x <= A) /\ x - A = k
      BY <1>n, <2>2
    <3>2. r[x] = s.done[x - A]
      BY <1>c, <3>1
    <3>3. QED
      BY <3>1, <3>2
  <2>5. QED
    BY <1>n, <1>c, <1>i, <2>1, <2>2, <2>3, <2>4 DEF r
<1>3. Items(t.done) = {} /\ Len(t.done) = 0
  BY NoItems
<1>4. Flying(t) = Flying(s)
  BY DEF Flying
<1>5. Due(t) = Due(s) /\ Sure(t) = Sure(s) /\ OnWay(t) \subseteq OnWay(s)
  BY <1>2, <1>3, <1>4 DEF OnWay, Due, Sure
<1>6. GoodMessages(t)
  BY <1>3 DEF InOrder, GoodMessages, GoodMessage
<1>7. AmongOldest(t)
  <2>1. Sent(t) \subseteq Sent(s)
    BY <1>2, <1>5 DEF Sent, OnWay
  <2>2. QED
    BY <2>1 DEF InOrder, AmongOldest
<1>8. DoneInOrder(t)
  BY <1>3 DEF DoneInOrder
<1>9. AcksInOrder(t)
  <2>a. /\ A = Len(s.acks) /\ D = Len(s.done)
        /\ \A i \in 1 .. A : \A m \in s.outbox : m < s.acks[i] => \E j \in 1 .. A : j < i /\ s.acks[j] = m
        /\ \A i, j \in 1 .. D : i < j => s.done[i] < s.done[j]
    BY DEF InOrder, AcksInOrder, DoneInOrder
  <2>b. \A k \in 1 .. D : s.done[k] \in Nat
    BY <1>1
  <2> HIDE DEF A, D, r
  <2>1. ASSUME NEW i \in 1 .. Len(t.acks), NEW m \in t.outbox, m < t.acks[i]
        PROVE  \E j \in 1 .. Len(t.acks) : j < i /\ t.acks[j] = m
    <3>1. CASE i \in 1 .. A
      <4>1. PICK j \in 1 .. A : j < i /\ s.acks[j] = m
        BY <1>2, <2>a, <2>1, <3>1
      <4>2. QED
        BY <1>2, <4>1
    <3>2. CASE i \notin 1 .. A
      <4>1. PICK k \in 1 .. D : i = A + k
        <5>1. i - A \in 1 .. D /\ i = A + (i - A)
          BY <1>2, <3>2
        <5>2. QED
          BY <5>1
      <4>2. m < s.done[k]
        BY <1>2, <2>1, <4>1
      <4>3. m \in Items(s.done)
        <5>1. s.done[k] \in s.left \cup Items(s.done)
          BY <2>a, <4>1 DEF Items
        <5>2. QED
          BY <4>2, <5>1 DEF InOrder, GoodMessages, GoodMessage
      <4>4. PICK j \in 1 .. D : s.done[j] = m
        BY <2>a, <4>3 DEF Items
      <4>5. j < k
        <5>1. s.done[j] \in Nat /\ s.done[k] \in Nat /\ ~ (s.done[k] < s.done[j]) /\ s.done[k] # s.done[j]
          BY <2>b, <4>2, <4>4
        <5>2. j # k /\ ~ (k < j)
          BY <2>a, <5>1
        <5>3. QED
          BY <1>2, <5>2
      <4>6. A + j < i
        BY <1>2, <4>1, <4>5
      <4>7. QED
        BY <1>2, <4>4, <4>6
    <3>3. QED
      BY <3>1, <3>2
  <2>2. QED
    BY <2>1 DEF AcksInOrder
<1>10. Alternates(t) /\ AllNewer(t) /\ BowlIsStored(t)
  BY DEF InOrder, Alternates, AllNewer, BowlIsStored
<1>11. \A n : WillHold(s, n) => WillHold(t, n)
  BY DEF WillHold, Silent, Brings
<1>12. Once(s) => Once(t)
  BY <1>4, <1>5 DEF Once, Holds, ComesInOrder
<1>13. QED
  BY <1>5, <1>6, <1>7, <1>8, <1>9, <1>10, <1>11, <1>12 DEF InOrder

\* The service dies, where no message has come twice: what it was about to store is newer
\* than what is in the bowls, and the feeder keeps it.
LEMMA CrashInOrder ==
  ASSUME NEW s, NEW t, IsSide(s), IsSide(t), InOrder(s), Once(s),
         t.wire = <<>>, t.left = {}, t.done = <<>>,
         \/ t.bowl = s.bowl
         \/ \E n \in s.left \cap s.kept : t.bowl.left = n /\ t.bowl.right = s.bowl.right,
         t.size = s.size, t.kept = s.kept, t.outbox = s.outbox, t.acks = s.acks
  PROVE  InOrder(t) /\ Once(t)
<1>1. /\ s.kept \subseteq Nat /\ s.bowl \in Weights /\ t.bowl \in Weights
  BY DEF IsSide
<1>2. Items(t.wire) = {} /\ Items(t.done) = {} /\ Len(t.wire) = 0 /\ Len(t.done) = 0
  BY NoItems
<1>3. Flying(t) = {} /\ OnWay(t) = {}
  BY <1>2 DEF OnWay, Flying
<1>4. Due(t) = Sure(t) /\ Sure(t) \subseteq Sure(s)
  BY <1>2, <1>3 DEF Due, Sure
<1>5. Holds(t)
  <2>1. ASSUME NEW n \in Sure(t) PROVE n <= t.bowl.left /\ n <= t.bowl.right
    <3>1. n <= s.bowl.left /\ n <= s.bowl.right /\ n \in Nat
      BY <1>1, <1>4 DEF Once, Holds, Sure
    <3>2. ASSUME NEW k \in s.left \cap s.kept, t.bowl.left = k, t.bowl.right = s.bowl.right
          PROVE  n <= t.bowl.left /\ n <= t.bowl.right
      <4>1. s.bowl.left <= k /\ s.bowl.left \in Nat /\ k \in Nat
        BY <1>1 DEF Once, ComesInOrder, Weights
      <4>2. QED
        BY <3>1, <3>2, <4>1
    <3>3. QED
      BY <3>1, <3>2
  <2>2. QED
    BY <2>1 DEF Holds
<1>6. AmongOldest(t)
  <2>1. t.bowl.left \in {s.bowl.left} \cup OnWay(s) /\ t.bowl.right = s.bowl.right
    BY DEF OnWay
  <2>2. Sent(t) \subseteq Sent(s)
    BY <1>3, <2>1 DEF Sent
  <2>3. QED
    BY <2>2 DEF InOrder, AmongOldest
<1>7. BowlIsStored(t)
  BY DEF InOrder, BowlIsStored
<1>8. GoodMessages(t) /\ DoneInOrder(t)
  BY <1>2 DEF GoodMessages, GoodMessage, DoneInOrder
<1>9. Alternates(t) /\ AllNewer(t) /\ AcksInOrder(t)
  BY DEF InOrder, Alternates, AllNewer, AcksInOrder
<1>10. ASSUME NEW n \in Due(t) PROVE WillHold(t, n)
  <2>1. n <= t.bowl.left /\ n <= t.bowl.right /\ n \in Nat /\ t.bowl.left \in Nat /\ t.bowl.right \in Nat
    BY <1>1, <1>4, <1>5 DEF Holds, Sure, Weights
  <2>2. Silent(t) /\ t.left \cap t.kept = {}
    BY <1>2 DEF Silent
  <2>3. QED
    BY <2>1, <2>2 DEF WillHold
<1>11. ComesInOrder(t)
  BY <1>2, <1>3 DEF ComesInOrder
<1>12. QED
  BY <1>5, <1>6, <1>7, <1>8, <1>9, <1>10, <1>11 DEF InOrder, Once

-----------------------------------------------------------------------------
(* The steps of the system are these of its feeders *)

LEMMA WorkInOne ==
  ASSUME NEW r, NEW f
  PROVE  WorkIn({r}, f) = (IF r.feeder = f THEN r ELSE Idle(f)) /\ WorkIn({}, f) = Idle(f)
  BY DEF WorkIn

LEMMA WorkOK ==
  ASSUME TypeOK, NEW f \in Feeders
  PROVE  /\ Work(f).left \subseteq Numbers(f)
         /\ Work(f).done \in Seq(Nat) /\ Items(Work(f).done) \subseteq Numbers(f)
<1>1. CASE \E r \in pending : r.feeder = f
  <2>1. PICK r \in pending : r.feeder = f
    BY <1>1
  <2>2. pending = {r} /\ r.left \subseteq Numbers(f) /\ r.done \in Seq(Nat)
        /\ \A i \in 1 .. Len(r.done) : r.done[i] \in Numbers(f)
    BY <2>1, TypeOKParts DEF PendingOK
  <2>3. Work(f) = r
    BY <2>1, <2>2, WorkInOne DEF Work
  <2>4. QED
    BY <2>2, <2>3 DEF Items
<1>2. CASE ~ \E r \in pending : r.feeder = f
  <2>1. Work(f) = Idle(f)
    BY <1>2 DEF Work, WorkIn
  <2>2. Work(f).left = {} /\ Work(f).done = <<>>
    BY <2>1 DEF Idle
  <2>3. QED
    BY <2>2, NoItems, EmptySeq
<1>3. QED
  BY <1>1, <1>2

LEMMA SideOK == TypeOK => \A f \in Feeders : IsSide(Side(f))
<1> SUFFICES ASSUME TypeOK, NEW f \in Feeders PROVE IsSide(Side(f))
  OBVIOUS
<1> USE TypeOKParts
<1> DEFINE s == Side(f)
<1>1. /\ s.size = Len(log[f]) /\ s.kept = {n \in Numbers(f) : KeepsBowl(log[f][n])}
      /\ s.outbox = outbox[f] /\ s.wire = wire[f] /\ s.acks = acks[f]
      /\ s.left = Work(f).left /\ s.done = Work(f).done /\ s.bowl = bowl[f]
  BY DEF Side
<1> HIDE DEF s
<1>2. s.size \in Nat /\ Numbers(f) = 1 .. s.size
  BY <1>1 DEF DeviceOK, Numbers
<1>3. s.kept \subseteq Numbers(f) /\ s.outbox \subseteq Numbers(f) /\ s.bowl \in Weights
  BY <1>1 DEF DeviceOK, StoredOK
<1>4. s.wire \in Seq(SUBSET Nat) /\ \A S \in Items(s.wire) : S \subseteq Numbers(f)
  BY <1>1 DEF WireOK, MessagesOf, Items
<1>5. s.acks \in Seq(Nat) /\ Items(s.acks) \subseteq Numbers(f)
  BY <1>1 DEF AcksOK, NumbersIn, Items
<1>6. QED
  BY <1>1, <1>2, <1>3, <1>4, <1>5, WorkOK DEF IsSide, s

LEMMA SideOKNext == TypeOK' => \A f \in Feeders : IsSide(Side(f)')
<1>1. (TypeOK => \A f \in Feeders : IsSide(Side(f)))'
  BY SideOK, PTL
<1>2. QED
  BY <1>1

\* One feeder's part of the invariant.
AckInvOf(f) == f \notin doubtful => InOrder(Side(f)) /\ (f \notin repeated => Once(Side(f)))

LEMMA AckInvParts ==
  /\ AckInv <=> \A f \in Feeders : AckInvOf(f)
  /\ AckInv' <=> \A f \in Feeders : AckInvOf(f)'
  BY DEF AckInv, AckInvOf

\* A step leaves the other feeders alone.
LEMMA OthersStay ==
  ASSUME AckInv, NEW f \in Feeders, f \in repeated => f \in repeated', f \in doubtful => f \in doubtful',
         log'[f] = log[f], outbox'[f] = outbox[f], wire'[f] = wire[f], acks'[f] = acks[f],
         bowl'[f] = bowl[f], Work(f)' = Work(f)
  PROVE  AckInvOf(f)'
<1>1. Side(f)' = Side(f)
  BY DEF Side, Numbers
<1>2. AckInvOf(f)
  BY AckInvParts
<1>3. QED
  BY <1>1, <1>2 DEF AckInvOf

LEMMA InitAckInv == Init => AckInv
<1> SUFFICES ASSUME Init, NEW f \in Feeders PROVE InOrder(Side(f)) /\ Once(Side(f))
  BY DEF AckInv
<1> DEFINE s == Side(f)
<1>1. /\ s.size = 0 /\ s.outbox = {} /\ s.wire = <<>> /\ s.acks = <<>> /\ s.bowl = Both(0)
      /\ s.kept \subseteq 1 .. 0
  BY DEF Init, Side, Numbers
<1>2. s.left = {} /\ s.done = <<>>
  <2>1. Work(f) = Idle(f)
    BY WorkInOne DEF Init, Work
  <2>2. QED
    BY <2>1 DEF Side, Idle
<1> HIDE DEF s
<1>3. s.kept = {} /\ s.bowl.left = 0 /\ s.bowl.right = 0
  BY <1>1, BothWeights
<1>4. /\ Items(s.wire) = {} /\ Items(s.acks) = {} /\ Items(s.done) = {}
      /\ Len(s.wire) = 0 /\ Len(s.acks) = 0 /\ Len(s.done) = 0
  BY <1>1, <1>2, NoItems
<1>5. Due(s) = {} /\ Sure(s) = {} /\ Flying(s) = {}
  BY <1>3, <1>4 DEF Due, Sure, Flying
<1>6. Alternates(s) /\ AllNewer(s) /\ GoodMessages(s) /\ AmongOldest(s) /\ BowlIsStored(s)
  BY <1>1, <1>2, <1>3, <1>4 DEF Alternates, AllNewer, GoodMessages, GoodMessage, AmongOldest, BowlIsStored
<1>7. DoneInOrder(s) /\ AcksInOrder(s) /\ Once(s)
  BY <1>2, <1>3, <1>4, <1>5 DEF DoneInOrder, AcksInOrder, Once, Holds, ComesInOrder
<1>8. QED
  BY <1>5, <1>6, <1>7 DEF InOrder, s

LEMMA EventAckInv ==
  ASSUME TypeOK, TypeOK', AckInv, NEW f \in Feeders, NEW e \in Events, Event(f, e)
  PROVE  AckInv'
<1> USE TypeOKParts
<1>1. /\ log' = [log EXCEPT ![f] = Append(@, e)]
      /\ outbox' = [outbox EXCEPT ![f] = @ \cup {Len(log[f]) + 1}]
      /\ UNCHANGED <<wire, acks, pending, bowl, repeated, doubtful>>
  BY DEF Event, stored, faults
<1>2. \A g \in Feeders : Work(g)' = Work(g)
  BY <1>1 DEF Work
<1>3. ASSUME NEW g \in Feeders, g # f PROVE AckInvOf(g)'
  BY <1>1, <1>2, <1>3, OthersStay DEF DeviceOK
<1>4. ASSUME f \notin doubtful PROVE AckInvOf(f)'
  <2>1. PICK s, t : s = Side(f) /\ t = Side(f)'
    OBVIOUS
  <2>2. /\ log[f] \in Seq(Events) /\ log'[f] = Append(log[f], e) /\ Len(log[f]) \in Nat
        /\ Len(log'[f]) = Len(log[f]) + 1 /\ log'[f][Len(log[f]) + 1] = e
        /\ \A n \in 1 .. Len(log[f]) : log'[f][n] = log[f][n]
    BY <1>1, AppendProperties DEF DeviceOK
  <2>3. /\ s.size = Len(log[f]) /\ s.kept = {n \in 1 .. Len(log[f]) : KeepsBowl(log[f][n])}
        /\ t.size = Len(log'[f]) /\ t.kept = {n \in 1 .. Len(log'[f]) : KeepsBowl(log'[f][n])}
        /\ t.wire = s.wire /\ t.acks = s.acks /\ t.left = s.left /\ t.done = s.done /\ t.bowl = s.bowl
        /\ s.outbox = outbox[f] /\ t.outbox = outbox'[f]
    BY <1>1, <1>2, <2>1 DEF Side, Numbers
  <2>4. t.size = s.size + 1 /\ t.outbox = s.outbox \cup {t.size} /\ s.size \in Nat
    BY <1>1, <2>2, <2>3 DEF DeviceOK
  <2>5. \A n : n \in t.kept <=> n \in s.kept \/ (n = t.size /\ KeepsBowl(e))
    <3>1. \A n : n \in 1 .. s.size + 1 <=> n \in 1 .. s.size \/ n = s.size + 1
      BY <2>4
    <3>2. s.size + 1 \notin 1 .. s.size
      BY <2>4
    <3>3. QED
      BY <2>2, <2>3, <2>4, <3>1, <3>2
  <2>6. s.size \in s.kept => ~ KeepsBowl(e)
    <3>1. ASSUME s.size \in s.kept PROVE e.action \in Opens
      <4>1. log[f] # <<>> /\ KeepsBowl(log[f][Len(log[f])])
        BY <2>2, <2>3, <3>1
      <4>2. Follows(e, log[f][Len(log[f])])
        BY <4>1 DEF Event
      <4>3. QED
        BY <4>1, <4>2 DEF Follows, KeepsBowl, Opens
    <3>2. QED
      BY <3>1 DEF KeepsBowl, Opens
  <2>7. t.kept = s.kept \/ (t.kept = s.kept \cup {t.size} /\ s.size \notin s.kept)
    <3>1. CASE KeepsBowl(e)
      BY <2>5, <2>6, <3>1
    <3>2. CASE ~ KeepsBowl(e)
      BY <2>5, <3>2
    <3>3. QED
      BY <3>1, <3>2
  <2>8. IsSide(s) /\ IsSide(t)
    BY <2>1, SideOK, SideOKNext
  <2>9. InOrder(s) /\ (f \notin repeated => Once(s))
    BY <1>4, <2>1 DEF AckInv
  <2>10. InOrder(t) /\ (Once(s) => Once(t))
    BY <2>3, <2>4, <2>7, <2>8, <2>9, EventInOrder
  <2>11. QED
    BY <1>1, <2>1, <2>9, <2>10 DEF AckInvOf
<1>5. QED
  BY <1>1, <1>3, <1>4, AckInvParts DEF AckInvOf

LEMMA WayAckInv ==
  ASSUME TwoAtMost, TypeOK, TypeOK', AckInv, NEW f \in Feeders,
         Send(f) \/ SendAgain(f) \/ AckArrives(f) \/ AckLost(f)
  PROVE  AckInv'
<1> USE TypeOKParts
<1>1. UNCHANGED <<log, bowl, pending>>
  BY DEF Send, SendAgain, AckArrives, AckLost, stored, device
<1>2. \A g \in Feeders : Work(g)' = Work(g)
  BY <1>1 DEF Work
<1>3. /\ repeated \subseteq repeated' /\ doubtful \subseteq doubtful'
      /\ \A g \in Feeders : g # f => outbox'[g] = outbox[g] /\ wire'[g] = wire[g] /\ acks'[g] = acks[g]
  BY DEF Send, SendAgain, AckArrives, AckLost, device, faults, DeviceOK, WireOK, AcksOK
<1>4. ASSUME NEW g \in Feeders, g # f PROVE AckInvOf(g)'
  BY <1>1, <1>2, <1>3, <1>4, OthersStay
<1>5. PICK s, t : s = Side(f) /\ t = Side(f)'
  OBVIOUS
<1>6. /\ t.size = s.size /\ t.kept = s.kept /\ t.left = s.left /\ t.done = s.done /\ t.bowl = s.bowl
      /\ s.outbox = outbox[f] /\ t.outbox = outbox'[f] /\ s.wire = wire[f] /\ t.wire = wire'[f]
      /\ s.acks = acks[f] /\ t.acks = acks'[f]
  BY <1>1, <1>2, <1>5 DEF Side, Numbers
<1>7. IsSide(s) /\ IsSide(t)
  BY <1>5, SideOK, SideOKNext
<1>8. f \notin doubtful' => InOrder(s) /\ (f \notin repeated => Once(s))
  BY <1>3, <1>5 DEF AckInv
<1>9. CASE Send(f)
  <2>1. t.outbox = s.outbox /\ t.acks = s.acks /\ UNCHANGED <<repeated, doubtful>>
    BY <1>6, <1>9 DEF Send, device, faults
  <2>2. CASE up
    <3>1. t.wire = Append(s.wire, Batch(s.outbox))
      BY <1>6, <1>9, <2>2 DEF Send, WireOK
    <3>2. InOrder(s) => InOrder(t) /\ (Once(s) => Once(t))
      BY <1>6, <1>7, <2>1, <3>1, SendInOrder
    <3>3. QED
      BY <1>4, <1>5, <1>8, <2>1, <3>2, AckInvParts DEF AckInvOf
  <2>3. CASE ~ up
    <3>1. UNCHANGED <<wire, outbox, acks>>
      BY <1>9, <2>3 DEF Send, device
    <3>2. AckInvOf(f)'
      BY <1>1, <1>2, <1>3, <3>1, OthersStay
    <3>3. QED
      BY <1>4, <3>2, AckInvParts
  <2>4. QED
    BY <2>2, <2>3
<1>10. CASE SendAgain(f)
  <2>1. /\ t.outbox = s.outbox /\ t.acks = s.acks /\ t.wire = s.wire \o s.wire
        /\ f \in repeated'
    BY <1>6, <1>10 DEF SendAgain, device, WireOK
  <2>2. InOrder(s) => InOrder(t)
    BY <1>6, <1>7, <2>1, AgainInOrder
  <2>3. QED
    BY <1>4, <1>5, <1>8, <2>1, <2>2, AckInvParts DEF AckInvOf
<1>11. CASE AckArrives(f)
  <2>1. /\ s.acks # <<>> /\ t.outbox = s.outbox \ {Head(s.acks)} /\ t.acks = Tail(s.acks) /\ t.wire = s.wire
        /\ UNCHANGED <<repeated, doubtful>>
    BY <1>6, <1>11 DEF AckArrives, faults, DeviceOK, AcksOK
  <2>2. InOrder(s) => InOrder(t) /\ (Once(s) => Once(t))
    BY <1>6, <1>7, <2>1, AckInOrder
  <2>3. QED
    BY <1>4, <1>5, <1>8, <2>1, <2>2, AckInvParts DEF AckInvOf
<1>12. CASE AckLost(f)
  <2>1. f \in doubtful'
    BY <1>12 DEF AckLost
  <2>2. QED
    BY <1>4, <2>1, AckInvParts DEF AckInvOf
<1>13. QED
  BY <1>9, <1>10, <1>11, <1>12

LEMMA ReceiveAckInv ==
  ASSUME TypeOK, TypeOK', AckInv, NEW f \in Feeders, Receive(f)
  PROVE  AckInv'
<1> USE TypeOKParts
<1>1. /\ UNCHANGED <<log, outbox, acks, bowl, repeated, doubtful>>
      /\ wire[f] # <<>> /\ wire' = [wire EXCEPT ![f] = Tail(@)]
      /\ pending = {} /\ pending' = {[feeder |-> f, left |-> Head(wire[f]), done |-> <<>>]}
  BY DEF Receive, device, stored, faults
<1>2. /\ \A g \in Feeders : Work(g) = Idle(g)
      /\ \A g \in Feeders : g # f => Work(g)' = Idle(g)
      /\ Work(f)' = [feeder |-> f, left |-> Head(wire[f]), done |-> <<>>]
  <2>1. PICK r : r = [feeder |-> f, left |-> Head(wire[f]), done |-> <<>>]
    OBVIOUS
  <2>2. r.feeder = f /\ pending' = {r}
    BY <1>1, <2>1
  <2>3. \A g : Work(g)' = IF f = g THEN r ELSE Idle(g)
    BY <2>2, WorkInOne DEF Work
  <2>4. \A g : Work(g) = Idle(g)
    BY <1>1, WorkInOne DEF Work
  <2>5. QED
    BY <2>1, <2>3, <2>4
<1>3. ASSUME NEW g \in Feeders, g # f PROVE AckInvOf(g)'
  BY <1>1, <1>2, <1>3, OthersStay DEF WireOK
<1>4. PICK s, t : s = Side(f) /\ t = Side(f)'
  OBVIOUS
<1>5. /\ t.size = s.size /\ t.kept = s.kept /\ t.outbox = s.outbox /\ t.acks = s.acks /\ t.bowl = s.bowl
      /\ s.wire = wire[f] /\ t.wire = Tail(wire[f])
      /\ s.left = {} /\ s.done = <<>> /\ t.left = Head(wire[f]) /\ t.done = <<>>
  BY <1>1, <1>2, <1>4 DEF Side, Numbers, Idle, WireOK
<1>6. IsSide(s) /\ IsSide(t)
  BY <1>4, SideOK, SideOKNext
<1>7. InOrder(s) => InOrder(t) /\ (Once(s) => Once(t))
  BY <1>1, <1>5, <1>6, ReceiveInOrder
<1>8. AckInvOf(f)'
  BY <1>1, <1>4, <1>7, AckInvParts DEF AckInvOf
<1>9. QED
  BY <1>3, <1>8, AckInvParts

LEMMA FrameAckInv ==
  ASSUME TypeOK, TypeOK', AckInv, StoreFrame
  PROVE  AckInv'
<1> USE TypeOKParts
<1>1. PICK r \in pending : \E n \in Oldest(r.left) :
         /\ StoreMeal(r.feeder, n) /\ StoreBowl(r.feeder, n)
         /\ pending' = {[r EXCEPT !.left = @ \ {n}, !.done = Append(@, n)]}
  BY DEF StoreFrame
<1>2. PICK n \in Oldest(r.left) :
         /\ StoreMeal(r.feeder, n) /\ StoreBowl(r.feeder, n)
         /\ pending' = {[r EXCEPT !.left = @ \ {n}, !.done = Append(@, n)]}
  BY <1>1
<1>3. /\ r \in [feeder : Feeders, left : SUBSET Nat, done : Seq(Nat)] /\ pending = {r}
      /\ n \in r.left /\ \A m \in r.left : n <= m
      /\ r.left \subseteq Numbers(r.feeder)
  BY DEF PendingOK, Oldest
<1>4. PICK f \in Feeders : f = r.feeder
  BY <1>3
<1>5. UNCHANGED <<log, outbox, acks, wire, repeated, doubtful>>
  BY DEF StoreFrame, device, faults
<1>6. /\ \A g \in Feeders : g # f => Work(g)' = Work(g)
      /\ Work(f) = r /\ Work(f)' = [r EXCEPT !.left = @ \ {n}, !.done = Append(@, n)]
  <2>1. PICK q : q = [r EXCEPT !.left = @ \ {n}, !.done = Append(@, n)]
    OBVIOUS
  <2>2. q.feeder = f /\ pending' = {q}
    BY <1>2, <1>3, <1>4, <2>1
  <2>3. \A g : Work(g)' = IF f = g THEN q ELSE Idle(g)
    BY <2>2, WorkInOne DEF Work
  <2>4. \A g : Work(g) = IF f = g THEN r ELSE Idle(g)
    BY <1>3, <1>4, WorkInOne DEF Work
  <2>5. QED
    BY <2>1, <2>3, <2>4
<1>7. bowl' = IF KeepsBowl(log[f][n]) THEN [bowl EXCEPT ![f] = Both(n)] ELSE bowl
  BY <1>2, <1>4 DEF StoreBowl, EventOf
<1>8. ASSUME NEW g \in Feeders, g # f PROVE AckInvOf(g)'
  <2>1. bowl'[g] = bowl[g]
    BY <1>7, <1>8 DEF StoredOK
  <2>2. QED
    BY <1>5, <1>6, <1>8, <2>1, OthersStay
<1>9. PICK s, t : s = Side(f) /\ t = Side(f)'
  OBVIOUS
<1>10. /\ t.size = s.size /\ t.kept = s.kept /\ t.outbox = s.outbox /\ t.acks = s.acks /\ t.wire = s.wire
       /\ s.bowl = bowl[f] /\ t.bowl = bowl'[f]
       /\ s.left = r.left /\ s.done = r.done
       /\ s.kept = {m \in Numbers(f) : KeepsBowl(log[f][m])}
  BY <1>5, <1>6, <1>9 DEF Side, Numbers
<1>11. t.left = s.left \ {n} /\ t.done = Append(s.done, n)
  <2>1. Work(f)'.left = r.left \ {n} /\ Work(f)'.done = Append(r.done, n)
    BY <1>3, <1>6
  <2>2. QED
    BY <1>9, <1>10, <2>1 DEF Side
<1>12. t.bowl = IF n \in s.kept THEN Both(n) ELSE s.bowl
  <2>1. n \in s.kept <=> KeepsBowl(log[f][n])
    BY <1>3, <1>4, <1>10
  <2>2. bowl'[f] = IF KeepsBowl(log[f][n]) THEN Both(n) ELSE bowl[f]
    BY <1>7 DEF StoredOK
  <2>3. QED
    BY <1>10, <2>1, <2>2
<1>13. IsSide(s) /\ IsSide(t)
  BY <1>9, SideOK, SideOKNext
<1>14. InOrder(s) => InOrder(t) /\ (Once(s) => Once(t))
  <2>1. n \in s.left /\ \A m \in s.left : n <= m
    BY <1>3, <1>10
  <2>2. QED
    BY <1>10, <1>11, <1>12, <1>13, <2>1, FrameInOrder
<1>15. AckInvOf(f)'
  BY <1>5, <1>9, <1>14, AckInvParts DEF AckInvOf
<1>16. QED
  BY <1>8, <1>15, AckInvParts

LEMMA ReturnAckInv ==
  ASSUME TypeOK, TypeOK', AckInv, Return
  PROVE  AckInv'
<1> USE TypeOKParts
<1>1. PICK r \in pending : r.left = {} /\ AckAll(r)
  BY DEF Return
<1>2. /\ r \in [feeder : Feeders, left : SUBSET Nat, done : Seq(Nat)] /\ pending = {r}
  BY DEF PendingOK
<1>3. PICK f \in Feeders : f = r.feeder
  BY <1>2
<1>4. UNCHANGED <<log, outbox, wire, bowl, repeated, doubtful>> /\ pending' = {}
  BY DEF Return, device, stored, faults
<1>5. acks' = [acks EXCEPT ![f] = @ \o r.done]
  BY <1>1, <1>3 DEF AckAll
<1>6. /\ \A g \in Feeders : g # f => Work(g)' = Work(g)
      /\ Work(f) = r /\ Work(f)' = Idle(f)
  <2>1. \A g : Work(g)' = Idle(g)
    BY <1>4, WorkInOne DEF Work
  <2>2. \A g : Work(g) = IF f = g THEN r ELSE Idle(g)
    BY <1>2, <1>3, WorkInOne DEF Work
  <2>3. QED
    BY <2>1, <2>2
<1>7. ASSUME NEW g \in Feeders, g # f PROVE AckInvOf(g)'
  <2>1. acks'[g] = acks[g]
    BY <1>5, <1>7 DEF AcksOK
  <2>2. QED
    BY <1>4, <1>6, <1>7, <2>1, OthersStay
<1>8. PICK s, t : s = Side(f) /\ t = Side(f)'
  OBVIOUS
<1>9. /\ t.size = s.size /\ t.kept = s.kept /\ t.outbox = s.outbox /\ t.wire = s.wire /\ t.bowl = s.bowl
      /\ s.left = {} /\ s.done = r.done /\ t.left = {} /\ t.done = <<>>
      /\ s.acks = acks[f] /\ t.acks = acks'[f]
  BY <1>1, <1>4, <1>6, <1>8 DEF Side, Numbers, Idle
<1>10. t.acks = s.acks \o s.done
  BY <1>5, <1>9 DEF AcksOK
<1>11. IsSide(s) /\ IsSide(t)
  BY <1>8, SideOK, SideOKNext
<1>12. InOrder(s) => InOrder(t) /\ (Once(s) => Once(t))
  BY <1>9, <1>10, <1>11, ReturnInOrder
<1>13. AckInvOf(f)'
  BY <1>4, <1>8, <1>12, AckInvParts DEF AckInvOf
<1>14. QED
  BY <1>7, <1>13, AckInvParts

LEMMA CrashAckInv ==
  ASSUME TypeOK, TypeOK', AckInv, Crash
  PROVE  AckInv'
<1> USE TypeOKParts
<1>1. /\ UNCHANGED <<log, outbox, acks, repeated>> /\ pending' = {}
      /\ wire' = [f \in Feeders |-> <<>>] /\ doubtful' = doubtful \cup repeated
  BY DEF Crash, device
<1> SUFFICES ASSUME NEW f \in Feeders, f \notin doubtful, f \notin repeated
             PROVE  InOrder(Side(f)') /\ Once(Side(f)')
  BY <1>1, AckInvParts DEF AckInvOf
<1>2. PICK s, t : s = Side(f) /\ t = Side(f)'
  OBVIOUS
<1>3. Work(f)' = Idle(f)
  BY <1>1, WorkInOne DEF Work
<1>4. /\ t.size = s.size /\ t.kept = s.kept /\ t.outbox = s.outbox /\ t.acks = s.acks
      /\ t.wire = <<>> /\ t.left = {} /\ t.done = <<>>
      /\ s.bowl = bowl[f] /\ t.bowl = bowl'[f] /\ s.left = Work(f).left
      /\ s.kept = {m \in Numbers(f) : KeepsBowl(log[f][m])}
  BY <1>1, <1>2, <1>3 DEF Side, Numbers, Idle
<1>5. \/ t.bowl = s.bowl
      \/ \E n \in s.left \cap s.kept : t.bowl.left = n /\ t.bowl.right = s.bowl.right
  <2>1. CASE UNCHANGED stored
    BY <1>4, <2>1 DEF stored
  <2>2. CASE \E r \in pending : \E n \in Oldest(r.left) :
               StoreMeal(r.feeder, n) /\ (UNCHANGED bowl \/ StoreLeft(r.feeder, n))
    <3>1. PICK r \in pending : \E n \in Oldest(r.left) : UNCHANGED bowl \/ StoreLeft(r.feeder, n)
      BY <2>2
    <3>2. PICK n \in Oldest(r.left) : UNCHANGED bowl \/ StoreLeft(r.feeder, n)
      BY <3>1
    <3>3. /\ r.feeder \in Feeders /\ pending = {r} /\ n \in r.left /\ r.left \subseteq Numbers(r.feeder)
          /\ n \in Nat
      BY DEF PendingOK, Oldest
    <3>4. CASE UNCHANGED bowl \/ ~ KeepsBowl(log[r.feeder][n]) \/ r.feeder # f
      <4>1. bowl'[f] = bowl[f]
        BY <3>2, <3>3, <3>4 DEF StoreLeft, EventOf, StoredOK
      <4>2. QED
        BY <1>4, <4>1
    <3>5. CASE ~ (UNCHANGED bowl) /\ KeepsBowl(log[r.feeder][n]) /\ r.feeder = f
      <4>1. Work(f) = r
        BY <3>3, <3>5, WorkInOne DEF Work
      <4>2. n \in s.left \cap s.kept
        BY <1>4, <3>3, <3>5, <4>1
      <4>3. bowl' = [bowl EXCEPT ![f].left = n]
        BY <3>2, <3>5 DEF StoreLeft, EventOf
      <4>4. bowl'[f].left = n /\ bowl'[f].right = bowl[f].right
        BY <3>3, <4>3 DEF StoredOK, Weights
      <4>5. QED
        BY <1>4, <4>2, <4>4
    <3>6. QED
      BY <3>4, <3>5
  <2>3. QED
    BY <2>1, <2>2 DEF Crash
<1>6. IsSide(s) /\ IsSide(t)
  BY <1>2, SideOK, SideOKNext
<1>7. InOrder(s) /\ Once(s)
  BY <1>2 DEF AckInv
<1>8. InOrder(t) /\ Once(t)
  BY <1>4, <1>5, <1>6, <1>7, CrashInOrder
<1>9. QED
  BY <1>2, <1>8

\* An event the feeder no longer keeps is in the database, or a newer one is, wherever
\* the service dies between storing and acknowledging: for any feeders, events and
\* messages on their way, if the feeder sends at most two events in a message.
THEOREM AcknowledgedEventsAreStored == ASSUME TwoAtMost PROVE Spec => []AcknowledgedIsStored
<1>1. TypeOK /\ TypeOK' /\ AckInv /\ [Next]_feederVars => AckInv'
  <2> SUFFICES ASSUME TypeOK, TypeOK', AckInv, [Next]_feederVars PROVE AckInv'
    OBVIOUS
  <2>1. CASE UNCHANGED feederVars \/ Start
    <3>1. UNCHANGED <<log, outbox, wire, acks, bowl, pending, repeated, doubtful>>
      BY <2>1 DEF feederVars, Start, device, stored, faults
    <3>2. \A f \in Feeders : Work(f)' = Work(f)
      BY <3>1 DEF Work
    <3>3. QED
      BY <3>1, <3>2, OthersStay, AckInvParts
  <2>2. CASE \E f \in Feeders : Environment(f)
    BY <2>2, EventAckInv, WayAckInv DEF Environment
  <2>3. CASE \E f \in Feeders : Receive(f)
    BY <2>3, ReceiveAckInv
  <2>4. CASE StoreFrame \/ Return \/ Crash
    BY <2>4, FrameAckInv, ReturnAckInv, CrashAckInv
  <2>5. QED
    BY <2>1, <2>2, <2>3, <2>4 DEF Next
<1>2. QED
  BY <1>1, InitAckInv, FeederTypes, AckInvStores, PTL DEF Spec
=============================================================================
