------------------------ MODULE DeviceCounterProofs ------------------------
(***************************************************************************)
(* Proofs about DeviceCounter: its type invariant for any number of        *)
(* processes, and that a single process implements Tickets.                *)
(***************************************************************************)
EXTENDS DeviceCounter, TLAPS

LEMMA IncrementType == \A n \in Field : Increment(n) \in Field
  BY CounterAssumption DEF Increment, Field

LEMMA IncrementIsSuccessor == \A n \in Field : Increment(n) = T!Successor(n)
  BY CounterAssumption DEF Increment, T!Successor, Field

LEMMA IdleType ==
  ASSUME TypeOK, NEW p \in Processes, Idle(p)
  PROVE  /\ at' \in [Processes -> {"idle", "select", "update", "reply"}]
         /\ job' \in [Processes -> {<<>>} \cup (Devices \X Kinds)]
         /\ \A q \in Processes : at'[q] # "idle" => job'[q] \in Devices \X Kinds
         /\ got' \in [Processes -> Field]
<1>1. 0 \in Field
  BY CounterAssumption DEF Field
<1>2. QED
  BY <1>1 DEF TypeOK, Idle

LEMMA InitTypeOK == Init => TypeOK
<1> SUFFICES ASSUME Init PROVE TypeOK
  OBVIOUS
<1>1. got \in [Processes -> Field]
  BY CounterAssumption DEF Init, Field
<1>2. QED
  BY <1>1 DEF Init, TypeOK

LEMMA AppendWire ==
  ASSUME NEW S, NEW w \in [Devices -> Seq(S)], NEW d \in Devices, NEW x \in S
  PROVE  [w EXCEPT ![d] = Append(@, x)] \in [Devices -> Seq(S)]
<1>1. Append(w[d], x) \in Seq(S)
  OBVIOUS
<1>2. QED
  BY <1>1

LEMMA NextTypeOK == TypeOK /\ [Next]_counterVars => TypeOK'
<1> SUFFICES ASSUME TypeOK, [Next]_counterVars PROVE TypeOK'
  OBVIOUS
<1>1. ASSUME NEW p \in Processes, NEW d \in Devices, NEW k \in Kinds, Generate(p, d, k)
      PROVE  TypeOK'
  BY <1>1 DEF TypeOK, Generate
<1>2. ASSUME NEW p \in Processes, Select(p) PROVE TypeOK'
  <2>1. job[p][1] \in Devices
    BY <1>2 DEF TypeOK, Select
  <2>2. got' \in [Processes -> Field]
    BY <1>2, <2>1, IncrementType DEF TypeOK, Select
  <2>3. QED
    BY <1>2, <2>2 DEF TypeOK, Select
<1>3. ASSUME NEW p \in Processes, Update(p) PROVE TypeOK'
  <2>1. job[p][1] \in Devices
    BY <1>3 DEF TypeOK, Update
  <2>2. send' \in [Devices -> Field]
    BY <1>3, <2>1 DEF TypeOK, Update
  <2>3. updates' \in [Devices -> Nat]
    BY <1>3, <2>1 DEF TypeOK, Update
  <2>4. QED
    BY <1>3, <2>2, <2>3 DEF TypeOK, Update
<1>4. ASSUME NEW p \in Processes, Reply(p) PROVE TypeOK'
  <2>1. job[p][1] \in Devices
    BY <1>4 DEF TypeOK, Reply
  <2>2. [number |-> got[p], count |-> updates[job[p][1]]] \in [number : Field, count : Nat]
    BY <2>1 DEF TypeOK
  <2>3. wire' \in [Devices -> Seq([number : Field, count : Nat])]
    <3>1. CASE CarriesNumber(job[p][2])
      <4>1. wire' = [wire EXCEPT ![job[p][1]] =
                        Append(@, [number |-> got[p], count |-> updates[job[p][1]]])]
        BY <1>4, <3>1 DEF Reply
      <4>2. wire \in [Devices -> Seq([number : Field, count : Nat])]
        BY DEF TypeOK
      <4>3. QED
        BY <4>1, <4>2, <2>1, <2>2, AppendWire
    <3>2. CASE ~ CarriesNumber(job[p][2])
      BY <1>4, <3>2 DEF TypeOK, Reply
    <3>3. QED
      BY <3>1, <3>2
  <2>4. QED
    BY <1>4, <2>3, IdleType DEF TypeOK, Reply
<1>5. ASSUME NEW p \in Processes, Die(p) PROVE TypeOK'
  BY <1>5, IdleType DEF TypeOK, Die
<1>6. CASE UNCHANGED counterVars
  BY <1>6 DEF TypeOK, counterVars
<1>7. QED
  BY <1>1, <1>2, <1>3, <1>4, <1>5, <1>6 DEF Next

\* Whatever the processes, the counter stays within its two bytes: the
\* conversion to_bytes(2) in generatemessage never overflows.
THEOREM CounterFits == Spec => []TypeOK
  BY InitTypeOK, NextTypeOK, PTL DEF Spec

-----------------------------------------------------------------------------
(* A single process implements Tickets. *)

OneProcess == \A p, q \in Processes : p = q

\* Between its SELECT and its UPDATE the process holds the successor of what is
\* in the table, and from then to the reply it holds what is in the table.
InStep ==
    \A p \in Processes :
        /\ at[p] = "update" => got[p] = Increment(send[job[p][1]])
        /\ at[p] = "reply"  => got[p] = send[job[p][1]]

LEMMA NextInStep ==
  ASSUME OneProcess
  PROVE  TypeOK /\ InStep /\ [Next]_counterVars => InStep'
<1> SUFFICES ASSUME TypeOK, InStep, [Next]_counterVars PROVE InStep'
  OBVIOUS
<1>1. ASSUME NEW p \in Processes, NEW d \in Devices, NEW k \in Kinds, Generate(p, d, k)
      PROVE  InStep'
  BY <1>1 DEF OneProcess, InStep, TypeOK, Generate
<1>2. ASSUME NEW p \in Processes, Select(p) PROVE InStep'
  BY <1>2 DEF OneProcess, InStep, TypeOK, Select
<1>3. ASSUME NEW p \in Processes, Update(p) PROVE InStep'
  <2>1. job[p][1] \in Devices
    BY <1>3 DEF TypeOK, Update
  <2>2. QED
    BY <1>3, <2>1 DEF OneProcess, InStep, TypeOK, Update
<1>4. ASSUME NEW p \in Processes, Reply(p) \/ Die(p) PROVE InStep'
  BY <1>4 DEF OneProcess, InStep, TypeOK, Reply, Die, Idle
<1>5. CASE UNCHANGED counterVars
  BY <1>5 DEF InStep, counterVars
<1>6. QED
  BY <1>1, <1>2, <1>3, <1>4, <1>5 DEF Next

HeldMap == [d \in Devices |-> Held(d)]
WireMap == [d \in Devices |-> [i \in DOMAIN wire[d] |-> wire[d][i].number]]

\* With one process, what is held is its own number or nothing.
LEMMA HeldByOne ==
  ASSUME OneProcess, NEW p \in Processes, NEW d \in Devices
  PROVE  /\ HeldMap[d] = IF at[p] = "reply" /\ job[p][1] = d THEN {got[p]} ELSE {}
         /\ HeldMap'[d] = IF at'[p] = "reply" /\ job'[p][1] = d THEN {got'[p]} ELSE {}
  BY DEF OneProcess, Held, HeldMap

LEMMA SameHeld ==
  ASSUME OneProcess, NEW p \in Processes, at[p] # "reply", at'[p] # "reply"
  PROVE  HeldMap' = HeldMap
<1>1. \A d \in Devices : HeldMap'[d] = HeldMap[d]
  BY HeldByOne
<1>2. QED
  BY <1>1 DEF HeldMap

LEMMA UpdateHandsOut ==
  ASSUME OneProcess, TypeOK, InStep, NEW p \in Processes, Update(p)
  PROVE  T!HandOut(job[p][1])
<1> DEFINE d == job[p][1]
<1>1. d \in Devices /\ at[p] = "update" /\ at'[p] = "reply" /\ job' = job /\ got' = got
  BY DEF TypeOK, Update
<1>2. got[p] = T!Successor(send[d])
  BY <1>1, IncrementIsSuccessor DEF InStep, TypeOK
<1>3. send' = [send EXCEPT ![d] = T!Successor(send[d])] /\ send'[d] = got[p]
  BY <1>1, <1>2 DEF Update, TypeOK
<1>4. \A e \in Devices : HeldMap'[e] = IF e = d THEN HeldMap[e] \cup {send'[d]} ELSE HeldMap[e]
  <2> SUFFICES ASSUME NEW e \in Devices
               PROVE  HeldMap'[e] = IF e = d THEN HeldMap[e] \cup {send'[d]} ELSE HeldMap[e]
    OBVIOUS
  <2>1. HeldMap[e] = {}
    BY <1>1, HeldByOne
  <2>2. HeldMap'[e] = IF d = e THEN {got[p]} ELSE {}
    BY <1>1, HeldByOne
  <2>3. QED
    BY <2>1, <2>2, <1>3
<1>5. HeldMap' = [HeldMap EXCEPT ![d] = @ \cup {send'[d]}]
  BY <1>1, <1>4 DEF HeldMap
<1>6. WireMap' = WireMap
  BY DEF Update, WireMap
<1>7. QED
  BY <1>3, <1>5, <1>6 DEF T!HandOut, HeldMap, WireMap, Held

LEMMA IdleReleases ==
  ASSUME OneProcess, TypeOK, NEW p \in Processes, at[p] = "reply", Idle(p)
  PROVE  HeldMap' = [HeldMap EXCEPT ![job[p][1]] = @ \ {got[p]}]
         /\ got[p] \in HeldMap[job[p][1]] /\ job[p][1] \in Devices
<1>1. job[p][1] \in Devices /\ at'[p] = "idle"
  BY DEF TypeOK, Idle
<1>2. \A e \in Devices : HeldMap'[e] = IF e = job[p][1] THEN HeldMap[e] \ {got[p]} ELSE HeldMap[e]
  <2> SUFFICES ASSUME NEW e \in Devices
               PROVE  HeldMap'[e] = IF e = job[p][1] THEN HeldMap[e] \ {got[p]} ELSE HeldMap[e]
    OBVIOUS
  <2>1. HeldMap[e] = IF job[p][1] = e THEN {got[p]} ELSE {}
    BY HeldByOne
  <2>2. HeldMap'[e] = {}
    BY <1>1, HeldByOne
  <2>3. QED
    BY <2>1, <2>2
<1>3. HeldMap' = [HeldMap EXCEPT ![job[p][1]] = @ \ {got[p]}]
  <2>1. DOMAIN HeldMap = Devices /\ DOMAIN HeldMap' = Devices
    BY DEF HeldMap
  <2>2. HeldMap' = [e \in Devices |-> HeldMap'[e]]
    BY DEF HeldMap
  <2>3. QED
    BY <1>1, <1>2, <2>1, <2>2
<1>4. got[p] \in HeldMap[job[p][1]]
  <2>1. HeldMap[job[p][1]] = {got[p]}
    BY <1>1, HeldByOne
  <2>2. QED
    BY <2>1
<1>5. QED
  BY <1>1, <1>3, <1>4

LEMMA ElementType ==
  ASSUME NEW R, NEW s \in Seq(R), NEW i \in 1 .. Len(s)
  PROVE  s[i] \in R
  OBVIOUS

Message == [number : Field, count : Nat]

\* The numbers of a queue of messages.
Numbers(s) == [i \in DOMAIN s |-> s[i].number]

\* The numbers of a queue with a message appended.
LEMMA AppendNumber ==
  ASSUME NEW s \in Seq(Message), NEW x \in Message
  PROVE  Numbers(Append(s, x)) = Append(Numbers(s), x.number)
<1> DEFINE t == Numbers(s)
<1> DEFINE u == Numbers(Append(s, x))
<1>1. DOMAIN s = 1 .. Len(s) /\ Len(s) \in Nat /\ DOMAIN Append(s, x) = 1 .. Len(s) + 1
  OBVIOUS
<1>2. t \in Seq(Field) /\ Len(t) = Len(s)
  <2>1. \A i \in 1 .. Len(s) : s[i].number \in Field
    <3>1. \A i \in 1 .. Len(s) : s[i] \in Message
      BY ElementType
    <3>2. \A r \in Message : r.number \in Field
      BY DEF Message
    <3>3. QED
      BY <3>1, <3>2
  <2>2. t \in [1 .. Len(s) -> Field]
    BY <1>1, <2>1 DEF Numbers
  <2>3. QED
    BY <1>1, <2>2
<1>3. DOMAIN Append(t, x.number) = DOMAIN u
  BY <1>1, <1>2 DEF Numbers
<1>4. \A i \in DOMAIN u : u[i] = Append(t, x.number)[i]
  BY <1>1, <1>2 DEF Numbers
<1>5. QED
  BY <1>2, <1>3, <1>4 DEF Numbers

LEMMA WireNumbers ==
  ASSUME NEW d \in Devices
  PROVE  WireMap[d] = Numbers(wire[d]) /\ WireMap'[d] = Numbers(wire'[d])
  BY DEF WireMap, Numbers

LEMMA ReplyUses ==
  ASSUME OneProcess, TypeOK, NEW p \in Processes, Reply(p),
         NEW d \in Devices, d = job[p][1]
  PROVE  T!Use(d) \/ T!Discard(d)
<1>1. /\ HeldMap' = [HeldMap EXCEPT ![d] = @ \ {got[p]}]
      /\ got[p] \in HeldMap[d] /\ d \in Devices /\ send' = send
  BY IdleReleases DEF Reply
<1>2. CASE CarriesNumber(job[p][2])
  <2> DEFINE x == [number |-> got[p], count |-> updates[d]]
  <2>1. wire' = [wire EXCEPT ![d] = Append(@, x)] /\ wire[d] \in Seq(Message)
    BY <1>1, <1>2 DEF Reply, TypeOK, Message
  <2>2. wire'[d] = Append(wire[d], x)
    BY <1>1, <2>1 DEF TypeOK
  <2>3. WireMap'[d] = Append(WireMap[d], got[p])
    <3>1. x \in Message
      BY <1>1 DEF TypeOK, Message
    <3>2. x.number = got[p]
      OBVIOUS
    <3>3. Numbers(Append(wire[d], x)) = Append(Numbers(wire[d]), x.number)
      <4> HIDE DEF x
      <4>1. QED
        BY <2>1, <3>1, AppendNumber
    <3>4. WireMap[d] = Numbers(wire[d]) /\ WireMap'[d] = Numbers(wire'[d])
      BY WireNumbers
    <3> HIDE DEF x
    <3>5. QED
      BY <2>2, <3>2, <3>3, <3>4
  <2>4. \A e \in Devices : e # d => WireMap'[e] = WireMap[e]
    <3>1. \A e \in Devices : e # d => wire'[e] = wire[e]
      <4> HIDE DEF x
      <4>1. QED
        BY <2>1 DEF TypeOK
    <3>2. QED
      BY <3>1, WireNumbers
  <2>5. WireMap' = [WireMap EXCEPT ![d] = Append(@, got[p])]
    <3>1. DOMAIN WireMap = Devices /\ WireMap' = [e \in Devices |-> WireMap'[e]]
      BY DEF WireMap
    <3>2. QED
      BY <2>3, <2>4, <3>1
  <2>6. QED
    BY <1>1, <2>5 DEF T!Use, HeldMap, WireMap
<1>3. CASE ~ CarriesNumber(job[p][2])
  <2>1. WireMap' = WireMap
    BY <1>3 DEF Reply, WireMap
  <2>2. QED
    BY <1>1, <2>1 DEF T!Discard, HeldMap, WireMap
<1>4. QED
  BY <1>2, <1>3

LEMMA NextImplements ==
  ASSUME OneProcess
  PROVE  TypeOK /\ InStep /\ [Next]_counterVars => [T!TicketNext]_(T!ticketVars)
<1> SUFFICES ASSUME TypeOK, InStep, [Next]_counterVars
             PROVE  T!TicketNext \/ UNCHANGED <<send, HeldMap, WireMap>>
  BY DEF T!ticketVars, HeldMap, WireMap
<1>1. ASSUME NEW p \in Processes, NEW d \in Devices, NEW k \in Kinds, Generate(p, d, k)
      PROVE  UNCHANGED <<send, HeldMap, WireMap>>
  <2>1. at[p] # "reply" /\ at'[p] # "reply"
    BY <1>1 DEF Generate, TypeOK
  <2>2. QED
    BY <1>1, <2>1, SameHeld DEF Generate, WireMap
<1>2. ASSUME NEW p \in Processes, Select(p)
      PROVE  UNCHANGED <<send, HeldMap, WireMap>>
  <2>1. at[p] # "reply" /\ at'[p] # "reply"
    BY <1>2 DEF Select, TypeOK
  <2>2. QED
    BY <1>2, <2>1, SameHeld DEF Select, WireMap
<1>3. ASSUME NEW p \in Processes, Update(p) PROVE T!TicketNext
  <2>1. job[p][1] \in Devices
    BY <1>3 DEF Update, TypeOK
  <2>2. QED
    BY <1>3, <2>1, UpdateHandsOut DEF T!TicketNext
<1>4. ASSUME NEW p \in Processes, Reply(p) PROVE T!TicketNext
  <2>1. job[p][1] \in Devices
    BY <1>4 DEF Reply, TypeOK
  <2>2. PICK d \in Devices : d = job[p][1]
    BY <2>1
  <2>3. T!Use(d) \/ T!Discard(d)
    BY <1>4, <2>2, ReplyUses
  <2>4. QED
    BY <2>3 DEF T!TicketNext
<1>5. ASSUME NEW p \in Processes, Die(p)
      PROVE  T!TicketNext \/ UNCHANGED <<send, HeldMap, WireMap>>
  <2>1. CASE at[p] = "reply"
    <3>1. /\ HeldMap' = [HeldMap EXCEPT ![job[p][1]] = @ \ {got[p]}]
          /\ got[p] \in HeldMap[job[p][1]] /\ job[p][1] \in Devices
      BY <1>5, <2>1, IdleReleases DEF Die
    <3>2. send' = send /\ WireMap' = WireMap
      BY <1>5 DEF Die, WireMap
    <3>3. T!Discard(job[p][1])
      BY <3>1, <3>2 DEF T!Discard, HeldMap, WireMap, Held
    <3>4. QED
      BY <3>1, <3>3 DEF T!TicketNext
  <2>2. CASE at[p] # "reply"
    <3>1. at'[p] # "reply"
      BY <1>5 DEF Die, Idle, TypeOK
    <3>2. QED
      BY <1>5, <2>2, <3>1, SameHeld DEF Die, WireMap
  <2>3. QED
    BY <2>1, <2>2
<1>6. CASE UNCHANGED counterVars
  BY <1>6 DEF counterVars, HeldMap, WireMap, Held
<1>7. QED
  BY <1>1, <1>2, <1>3, <1>4, <1>5, <1>6 DEF Next

\* Without a second process the counter implements the tickets a device may rely
\* on: the SELECT and the later UPDATE of devicecounter act as one step, and a
\* death in between costs at most a number.
THEOREM OneProcessImplementsTickets ==
  ASSUME OneProcess
  PROVE  Spec => ImplementsTickets
<1>1. Init => InStep /\ T!TicketInit
  <2> SUFFICES ASSUME Init PROVE InStep /\ T!TicketInit
    OBVIOUS
  <2>1. \A d \in Devices : Held(d) = {}
    BY DEF Init, Held
  <2>2. \A d \in Devices : [i \in DOMAIN wire[d] |-> wire[d][i].number] = <<>>
    BY DEF Init
  <2>3. QED
    BY <2>1, <2>2 DEF Init, InStep, T!TicketInit, Field, T!Field
<1>2. QED
  BY <1>1, CounterFits, NextInStep, NextImplements, PTL DEF Spec, ImplementsTickets, T!TicketSpec

-----------------------------------------------------------------------------
(* No number comes twice within a cycle.  NoReuse is not inductive: it needs  *)
(* the relation between a number on the wire and the row it was taken from,   *)
(* by way of the number of updates in between.                                *)

\* The value the counter had k updates ago.
Back(n, k) == IF k <= n THEN n - k ELSE n + Largest + 1 - k

\* A message carries what was in the table when it was counted.
WireIsCounted ==
    \A d \in Devices : \A i \in 1 .. Len(wire[d]) :
        LET age == updates[d] - wire[d][i].count
        IN  /\ wire[d][i].count <= updates[d]
            /\ age <= Largest => wire[d][i].number = Back(send[d], age)

\* The number a process is about to put on a message is on none of them.
ReplyIsNew ==
    \A p \in Processes : at[p] = "reply" =>
        \A i \in 1 .. Len(wire[job[p][1]]) : wire[job[p][1]][i].count < updates[job[p][1]]

ReuseInv == TypeOK /\ InStep /\ WireIsCounted /\ ReplyIsNew /\ NoReuse

LEMMA BackOnce ==
  ASSUME NEW n \in Field, NEW k \in Nat, k < Largest
  PROVE  Back(Increment(n), k + 1) = Back(n, k)
  BY CounterAssumption DEF Back, Increment, Field

LEMMA BackIsElsewhere ==
  ASSUME NEW n \in Field, NEW k \in 1 .. Largest
  PROVE  Back(n, k) # n
  BY CounterAssumption DEF Back, Field

LEMMA WireElement ==
  ASSUME TypeOK, NEW d \in Devices, NEW i \in 1 .. Len(wire[d])
  PROVE  wire[d][i].number \in Field /\ wire[d][i].count \in Nat
<1>1. wire[d] \in Seq(Message)
  BY DEF TypeOK, Message
<1>2. wire[d][i] \in Message
  BY <1>1, ElementType
<1>3. QED
  BY <1>2 DEF Message

\* An update makes every message one update older.
LEMMA UpdateAges ==
  ASSUME ReuseInv, NEW p \in Processes, Update(p)
  PROVE  WireIsCounted' /\ ReplyIsNew' /\ NoReuse'
<1> DEFINE d == job[p][1]
<1>1. /\ d \in Devices /\ job' = job /\ wire' = wire
      /\ send' = [send EXCEPT ![d] = Increment(send[d])]
      /\ updates' = [updates EXCEPT ![d] = @ + 1]
      /\ send \in [Devices -> Field] /\ updates \in [Devices -> Nat]
  BY DEF Update, ReuseInv, TypeOK, InStep
<1>2. ASSUME NEW e \in Devices, NEW i \in 1 .. Len(wire[e])
      PROVE  LET age == updates'[e] - wire[e][i].count
             IN  /\ wire[e][i].count <= updates'[e]
                 /\ e = d => wire[e][i].count < updates'[e]
                 /\ age <= Largest => wire[e][i].number = Back(send'[e], age)
  <2> DEFINE c == wire[e][i].count
  <2>1. /\ c \in Nat /\ c <= updates[e]
        /\ updates[e] - c <= Largest => wire[e][i].number = Back(send[e], updates[e] - c)
    BY WireElement DEF ReuseInv, WireIsCounted
  <2>2. CASE e # d
    BY <1>1, <2>1, <2>2
  <2>3. CASE e = d
    <3>1. updates'[e] = updates[e] + 1 /\ send'[e] = Increment(send[e]) /\ send[e] \in Field
          /\ updates[e] \in Nat
      BY <1>1, <2>3
    <3> HIDE DEF c
    <3>2. ASSUME updates[e] + 1 - c <= Largest
          PROVE  wire[e][i].number = Back(Increment(send[e]), updates[e] + 1 - c)
      <4> DEFINE k == updates[e] - c
      <4>1. k \in Nat /\ k < Largest /\ updates[e] + 1 - c = k + 1
        BY <2>1, <3>1, <3>2, CounterAssumption
      <4>2. wire[e][i].number = Back(send[e], k)
        BY <2>1, <4>1, CounterAssumption
      <4> HIDE DEF k
      <4>3. Back(Increment(send[e]), k + 1) = Back(send[e], k)
        BY <3>1, <4>1, BackOnce
      <4>4. QED
        BY <4>1, <4>2, <4>3
    <3>3. c < updates'[e]
      BY <2>1, <3>1
    <3>4. QED
      BY <2>1, <3>1, <3>2, <3>3 DEF c
  <2>4. QED
    BY <2>2, <2>3
<1>3. WireIsCounted'
  BY <1>1, <1>2 DEF WireIsCounted
<1>4. ReplyIsNew'
  <2> SUFFICES ASSUME NEW q \in Processes, at'[q] = "reply"
               PROVE  \A i \in 1 .. Len(wire[job[q][1]]) :
                          wire[job[q][1]][i].count < updates'[job[q][1]]
    BY <1>1 DEF ReplyIsNew
  <2>1. job[q][1] \in Devices /\ (job[q][1] = d \/ at[q] = "reply")
    BY DEF Update, ReuseInv, TypeOK
  <2>2. CASE job[q][1] = d
    BY <1>1, <1>2, <2>2
  <2>3. CASE job[q][1] # d
    BY <1>1, <2>1, <2>3 DEF ReuseInv, ReplyIsNew
  <2>4. QED
    BY <2>2, <2>3
<1>5. NoReuse'
  BY <1>1 DEF ReuseInv, NoReuse
<1>6. QED
  BY <1>3, <1>4, <1>5

\* A reply puts the number that is in the table on the newest message.
LEMMA ReplyIsCounted ==
  ASSUME OneProcess, ReuseInv, NEW p \in Processes, Reply(p)
  PROVE  WireIsCounted' /\ ReplyIsNew' /\ NoReuse'
<1> DEFINE d == job[p][1]
<1> DEFINE x == [number |-> send[d], count |-> updates[d]]
<1>1. /\ d \in Devices /\ send' = send /\ updates' = updates
      /\ send \in [Devices -> Field] /\ updates \in [Devices -> Nat] /\ got[p] = send[d]
  BY DEF Reply, ReuseInv, TypeOK, InStep
<1>2. ReplyIsNew'
  <2>1. at'[p] = "idle"
    BY DEF Reply, Idle, ReuseInv, TypeOK
  <2>2. QED
    BY <2>1 DEF OneProcess, ReplyIsNew
<1>3. CASE ~ CarriesNumber(job[p][2])
  BY <1>1, <1>2, <1>3 DEF Reply, ReuseInv, WireIsCounted, NoReuse
<1>4. CASE CarriesNumber(job[p][2])
  <2>1. wire' = [wire EXCEPT ![d] = Append(@, x)]
    BY <1>1, <1>4 DEF Reply
  <2>2. /\ \A e \in Devices : e # d => wire'[e] = wire[e]
        /\ wire'[d] = Append(wire[d], x)
    <3> HIDE DEF x, d
    <3>1. QED
      BY <1>1, <2>1 DEF ReuseInv, TypeOK
  <2>3. wire[d] \in Seq(Message) /\ Len(wire[d]) \in Nat
    <3>1. wire \in [Devices -> Seq(Message)]
      BY DEF ReuseInv, TypeOK, Message
    <3> HIDE DEF x, d
    <3>2. wire[d] \in Seq(Message)
      BY <1>1, <3>1
    <3>3. QED
      BY <3>2
  <2>4. Len(wire'[d]) = Len(wire[d]) + 1
    <3> HIDE DEF x, d
    <3>1. QED
      BY <2>2, <2>3
  <2>5. \A i \in 1 .. Len(wire[d]) : wire'[d][i] = wire[d][i]
    <3> HIDE DEF x, d
    <3>1. QED
      BY <2>2, <2>3
  <2>6. wire'[d][Len(wire[d]) + 1] = x
    <3> HIDE DEF x, d
    <3>1. QED
      BY <2>2, <2>3
  <2>7. x.number = send[d] /\ x.count = updates[d]
    OBVIOUS
  <2>8. \A i \in 1 .. Len(wire[d]) :
            /\ wire[d][i].number \in Field /\ wire[d][i].count \in Nat
            /\ wire[d][i].count < updates[d]
            /\ updates[d] - wire[d][i].count <= Largest =>
                  wire[d][i].number = Back(send[d], updates[d] - wire[d][i].count)
    <3>1. \A i \in 1 .. Len(wire[d]) : wire[d][i].number \in Field /\ wire[d][i].count \in Nat
      BY <1>1, WireElement DEF ReuseInv
    <3>2. at[p] = "reply"
      BY DEF Reply
    <3>3. QED
      BY <1>1, <3>1, <3>2 DEF ReuseInv, WireIsCounted, ReplyIsNew
  <2> HIDE DEF x, d
  <2>9. WireIsCounted'
    <3> SUFFICES ASSUME NEW e \in Devices, NEW i \in 1 .. Len(wire'[e])
                 PROVE  /\ wire'[e][i].count <= updates[e]
                        /\ updates[e] - wire'[e][i].count <= Largest =>
                             wire'[e][i].number = Back(send[e], updates[e] - wire'[e][i].count)
      BY <1>1 DEF WireIsCounted
    <3>1. CASE e # d
      BY <2>2, <3>1 DEF ReuseInv, WireIsCounted
    <3>2. CASE e = d /\ i \in 1 .. Len(wire[d])
      BY <1>1, <2>5, <2>8, <3>2
    <3>3. CASE e = d /\ i = Len(wire[d]) + 1
      <4>1. wire'[e][i].number = send[d] /\ wire'[e][i].count = updates[d]
        BY <2>6, <2>7, <3>3
      <4>2. Back(send[d], 0) = send[d] /\ updates[d] - updates[d] = 0 /\ updates[d] \in Nat
        BY <1>1 DEF Back, Field
      <4>3. QED
        BY <4>1, <4>2, <3>3
    <3>4. QED
      BY <2>3, <2>4, <3>1, <3>2, <3>3
  <2>10. NoReuse'
    <3> SUFFICES ASSUME NEW e \in Devices, NEW i \in 1 .. Len(wire'[e]), NEW j \in 1 .. Len(wire'[e]),
                        i < j, wire'[e][i].number = wire'[e][j].number
                 PROVE  wire'[e][j].count - wire'[e][i].count > Largest
      BY DEF NoReuse
    <3>1. CASE e # d
      BY <2>2, <3>1 DEF ReuseInv, NoReuse
    <3>2. CASE e = d /\ j \in 1 .. Len(wire[d])
      <4>1. i \in 1 .. Len(wire[d])
        BY <2>3, <2>4, <3>2
      <4>2. wire'[e][i] = wire[d][i] /\ wire'[e][j] = wire[d][j]
        BY <2>5, <3>2, <4>1
      <4>3. QED
        BY <1>1, <3>2, <4>1, <4>2 DEF ReuseInv, NoReuse
    <3>3. CASE e = d /\ j = Len(wire[d]) + 1
      <4>1. i \in 1 .. Len(wire[d])
        BY <2>3, <2>4, <3>3
      <4>2. wire'[e][j].number = send[d] /\ wire'[e][j].count = updates[d]
            /\ wire'[e][i] = wire[d][i]
        BY <2>5, <2>6, <2>7, <3>3, <4>1
      <4> DEFINE k == updates[d] - wire[d][i].count
      <4>3. k \in Nat /\ k > 0 /\ (k <= Largest => send[d] = Back(send[d], k))
        BY <1>1, <2>8, <4>1, <4>2
      <4>4. ~ (k <= Largest)
        <5> HIDE DEF k
        <5>1. send[d] \in Field
          BY <1>1
        <5>2. QED
          BY <4>3, <5>1, BackIsElsewhere, CounterAssumption
      <4>5. k > Largest
        BY <4>3, <4>4, CounterAssumption
      <4>6. QED
        BY <4>2, <4>5
    <3>4. QED
      BY <2>3, <2>4, <3>2, <3>3, <3>1
  <2>11. QED
    BY <1>2, <2>9, <2>10
<1>5. QED
  BY <1>3, <1>4

LEMMA NextReuseInv ==
  ASSUME OneProcess
  PROVE  ReuseInv /\ [Next]_counterVars => ReuseInv'
<1> SUFFICES ASSUME ReuseInv, [Next]_counterVars
             PROVE  WireIsCounted' /\ ReplyIsNew' /\ NoReuse'
  BY NextTypeOK, NextInStep DEF ReuseInv
<1>1. ASSUME NEW p \in Processes, NEW d \in Devices, NEW k \in Kinds, Generate(p, d, k)
      PROVE  WireIsCounted' /\ ReplyIsNew' /\ NoReuse'
  <2>1. ReplyIsNew'
    BY <1>1 DEF OneProcess, Generate, ReuseInv, TypeOK, ReplyIsNew
  <2>2. QED
    BY <1>1, <2>1 DEF Generate, ReuseInv, WireIsCounted, NoReuse
<1>2. ASSUME NEW p \in Processes, Select(p)
      PROVE  WireIsCounted' /\ ReplyIsNew' /\ NoReuse'
  <2>1. ReplyIsNew'
    BY <1>2 DEF OneProcess, Select, ReuseInv, TypeOK, ReplyIsNew
  <2>2. QED
    BY <1>2, <2>1 DEF Select, ReuseInv, WireIsCounted, NoReuse
<1>3. ASSUME NEW p \in Processes, Die(p)
      PROVE  WireIsCounted' /\ ReplyIsNew' /\ NoReuse'
  <2>1. ReplyIsNew'
    BY <1>3 DEF OneProcess, Die, Idle, ReuseInv, TypeOK, ReplyIsNew
  <2>2. QED
    BY <1>3, <2>1 DEF Die, ReuseInv, WireIsCounted, NoReuse
<1>4. CASE UNCHANGED counterVars
  BY <1>4 DEF counterVars, ReuseInv, WireIsCounted, ReplyIsNew, NoReuse
<1>5. QED
  BY <1>1, <1>2, <1>3, <1>4, UpdateAges, ReplyIsCounted DEF Next

\* With one process, whatever is rejected, acknowledged or lost in between, two
\* messages to a device carry the same number only a full cycle of the counter
\* apart: for any devices and any length of the cycle.
THEOREM NumbersAreNotReused ==
  ASSUME OneProcess
  PROVE  Spec => []NoReuse
<1>1. Init => ReuseInv
  <2> SUFFICES ASSUME Init PROVE ReuseInv
    OBVIOUS
  <2>1. \A d \in Devices : wire[d] = <<>>
    BY DEF Init
  <2>2. InStep /\ ReplyIsNew
    BY DEF Init, InStep, ReplyIsNew
  <2>3. WireIsCounted /\ NoReuse
    BY <2>1 DEF WireIsCounted, NoReuse
  <2>4. QED
    BY <2>2, <2>3, InitTypeOK DEF ReuseInv
<1>2. ReuseInv => NoReuse
  BY DEF ReuseInv
<1>3. QED
  BY <1>1, <1>2, NextReuseInv, PTL DEF Spec
=============================================================================
