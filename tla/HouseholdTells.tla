---------------------------- MODULE HouseholdTells ----------------------------
(***************************************************************************)
(* For every house: what Home Assistant is shown of the hub, of a curfew   *)
(* and of a pet is how it is, once all messages have been handled.         *)
(*                                                                         *)
(* The argument is the same for all three.  Of the waiting messages about  *)
(* a subject only the newest counts, and it tells how the subject is; if   *)
(* none waits, the tables and the topics have it already, what the         *)
(* running handler is about to publish included.  Messages that are sent   *)
(* again come in their order and after all others of the devices, so the   *)
(* newest stays the newest.                                                *)
(***************************************************************************)
EXTENDS BuilderProofs

-----------------------------------------------------------------------------
(* The newest of some messages in a queue *)

\* No message of set A waits.
Silent(q, A) == \A i \in 1 .. Len(q) : q[i] \notin A

\* If one waits, the newest of them is one of the set G.
LastWord(q, A, G) ==
    \/ Silent(q, A)
    \/ \E k \in 1 .. Len(q) : q[k] \in G /\ \A j \in 1 .. Len(q) : j > k => q[j] \notin A

LEMMA OtherArrives ==
    ASSUME NEW q \in Seq(Messages), NEW m \in Messages, NEW A, NEW G, m \notin A
    PROVE  /\ Silent(Append(q, m), A) <=> Silent(q, A)
           /\ LastWord(q, A, G) => LastWord(Append(q, m), A, G)
  <1> DEFINE r == Append(q, m)
  <1>1. /\ Len(q) \in Nat /\ Len(r) = Len(q) + 1 /\ r[Len(q) + 1] = m
        /\ \A i \in 1 .. Len(q) : r[i] = q[i]
    BY AppendProperties
  <1> HIDE DEF r
  <1>2. Silent(r, A) <=> Silent(q, A)
    BY <1>1 DEF Silent
  <1>3. ASSUME NEW k \in 1 .. Len(q), q[k] \in G, \A j \in 1 .. Len(q) : j > k => q[j] \notin A
        PROVE  k \in 1 .. Len(r) /\ r[k] \in G /\ \A j \in 1 .. Len(r) : j > k => r[j] \notin A
    BY <1>1, <1>3
  <1>4. LastWord(q, A, G) => LastWord(r, A, G)
    BY <1>2, <1>3 DEF LastWord
  <1> QED
    BY <1>2, <1>4 DEF r

LEMMA NewestArrives ==
    ASSUME NEW q \in Seq(Messages), NEW m \in Messages, NEW A, NEW G, m \in A, m \in G
    PROVE  ~Silent(Append(q, m), A) /\ LastWord(Append(q, m), A, G)
  <1> DEFINE r == Append(q, m)
  <1>1. Len(q) \in Nat /\ Len(r) = Len(q) + 1 /\ r[Len(q) + 1] = m
    BY AppendProperties
  <1> HIDE DEF r
  <1>2. Len(r) \in 1 .. Len(r) /\ r[Len(r)] \in A /\ r[Len(r)] \in G
        /\ \A j \in 1 .. Len(r) : ~(j > Len(r))
    BY <1>1
  <1> QED
    BY <1>2 DEF Silent, LastWord, r

\* When the oldest is taken.
LEMMA OldestTaken ==
    ASSUME NEW q \in Seq(Messages), q # <<>>, NEW A, NEW G \in SUBSET A, LastWord(q, A, G)
    PROVE  /\ LastWord(Tail(q), A, G)
           /\ Silent(Tail(q), A) /\ Head(q) \in A => Head(q) \in G
           /\ Silent(Tail(q), A) /\ Head(q) \notin A => Silent(q, A)
  <1> DEFINE r == Tail(q)
  <1>1. /\ Len(q) \in Nat /\ Len(q) >= 1 /\ Len(r) = Len(q) - 1
        /\ \A i \in 1 .. Len(r) : r[i] = q[i + 1]
        /\ Head(q) = q[1]
    BY HeadTailProperties, EmptySeq
  <1> HIDE DEF r
  <1>2. \A i \in 2 .. Len(q) : i - 1 \in 1 .. Len(r) /\ q[i] = r[i - 1]
    BY <1>1
  <1>3. Silent(r, A) <=> \A i \in 2 .. Len(q) : q[i] \notin A
    BY <1>1, <1>2 DEF Silent
  <1>4. Silent(r, A) /\ Head(q) \notin A => Silent(q, A)
    BY <1>1, <1>3 DEF Silent
  <1>5. ASSUME Silent(q, A)
        PROVE  LastWord(r, A, G) /\ (Silent(r, A) /\ Head(q) \in A => Head(q) \in G)
    BY <1>1, <1>3, <1>5 DEF Silent, LastWord
  <1>6. ASSUME NEW k \in 1 .. Len(q), q[k] \in G, \A j \in 1 .. Len(q) : j > k => q[j] \notin A
        PROVE  LastWord(r, A, G) /\ (Silent(r, A) /\ Head(q) \in A => Head(q) \in G)
    <2>1. CASE k = 1
      <3>1. Silent(r, A)
        BY <1>1, <1>3, <1>6, <2>1
      <3> QED
        BY <1>1, <1>6, <2>1, <3>1 DEF LastWord
    <2>2. CASE k > 1
      <3> DEFINE h == k - 1
      <3>1. h \in 1 .. Len(r) /\ r[h] = q[k]
        BY <1>1, <2>2
      <3>2. \A j \in 1 .. Len(r) : j > h => r[j] \notin A
        BY <1>1, <1>6, <2>2
      <3>3. LastWord(r, A, G)
        BY <1>6, <3>1, <3>2 DEF LastWord
      <3> HIDE DEF h
      <3>4. ~Silent(r, A)
        BY <1>6, <3>1 DEF Silent
      <3> QED
        BY <3>3, <3>4
    <2> QED
      BY <1>1, <2>1, <2>2
  <1> QED
    BY <1>4, <1>5, <1>6 DEF LastWord, r

\* When messages are sent again, after which only others wait.
LEMMA SentAgain ==
    ASSUME NEW q \in Seq(Messages), NEW A, NEW G \in SUBSET A,
           NEW first \in 1 .. Len(q), NEW last \in 1 .. Len(q),
           \A i \in 1 .. Len(q) : i > last => q[i] \notin A, LastWord(q, A, G)
    PROVE  LET r == q \o SubSeq(q, first, last)
           IN  LastWord(r, A, G) /\ (Silent(r, A) => Silent(q, A))
  <1> DEFINE s == SubSeq(q, first, last)
             r == q \o s
             n == Len(q)
  <1>1. n \in Nat /\ first \in 1 .. n /\ last \in 1 .. n
    OBVIOUS
  <1>2. \A i \in first .. last : q[i] \in Messages
    BY <1>1, ElementOfSeq
  <1>3. /\ s \in Seq(Messages) /\ Len(s) = IF first <= last THEN last - first + 1 ELSE 0
        /\ \A i \in 1 .. last - first + 1 : s[i] = q[first + i - 1]
    BY <1>1, <1>2, SubSeqProperties
  <1> HIDE DEF s
  <1>4. /\ Len(r) = n + Len(s)
        /\ \A i \in 1 .. n + Len(s) : r[i] = IF i <= n THEN q[i] ELSE s[i - n]
    BY <1>3, ConcatProperties
  <1> HIDE DEF r, n
  <1>5. \A i \in 1 .. n : i \in 1 .. Len(r) /\ r[i] = q[i]
    BY <1>1, <1>3, <1>4
  <1>6. \A i \in 1 .. Len(r) : i > n => first + (i - n) - 1 \in first .. last
                                        /\ r[i] = q[first + (i - n) - 1]
    BY <1>1, <1>3, <1>4
  <1>7. Silent(r, A) => Silent(q, A)
    BY <1>5 DEF Silent, n
  <1>8. ASSUME Silent(q, A)
        PROVE  LastWord(r, A, G)
    <2>1. Silent(r, A)
      BY <1>1, <1>4, <1>5, <1>6, <1>8 DEF Silent, n
    <2> QED
      BY <2>1 DEF LastWord
  <1>9. ASSUME NEW k \in 1 .. n, q[k] \in G, \A j \in 1 .. n : j > k => q[j] \notin A
        PROVE  LastWord(r, A, G)
    <2>1. k <= last
      BY <1>1, <1>9 DEF n
    <2>2. CASE k < first
      <3>1. \A j \in 1 .. Len(r) : j > k => r[j] \notin A
        BY <1>1, <1>4, <1>5, <1>6, <1>9, <2>2
      <3> QED
        BY <1>5, <1>9, <3>1 DEF LastWord
    <2>3. CASE k >= first
      <3> DEFINE h == n + (k - first) + 1
      <3>1. h \in 1 .. Len(r) /\ h > n /\ first + (h - n) - 1 = k
        BY <1>1, <1>3, <1>4, <2>1, <2>3
      <3>2. r[h] = q[k]
        BY <1>6, <3>1
      <3>3. ASSUME NEW j \in 1 .. Len(r), j > h PROVE r[j] \notin A
        <4>1. r[j] = q[first + (j - n) - 1] /\ first + (j - n) - 1 \in 1 .. n
              /\ first + (j - n) - 1 > k
          BY <1>1, <1>6, <3>1, <3>3
        <4> QED
          BY <1>9, <4>1
      <3> HIDE DEF h
      <3> QED
        BY <1>9, <3>1, <3>2, <3>3 DEF LastWord
    <2> QED
      BY <1>1, <2>2, <2>3
  <1>10. LastWord(r, A, G)
    BY <1>8, <1>9 DEF LastWord, n
  <1> QED
    BY <1>7, <1>10 DEF r, s

-----------------------------------------------------------------------------
(* What is known of the hub, of a curfew and of a pet *)

Online == [kind : {"online"}, on : BOOLEAN]
HubState == IF hubOn THEN 1 ELSE 0

\* The hub's state, as far as its messages have been decoded.
HubIsTold ==
    /\ Known(Hub) /\ Hub \in DOMAIN db.hubs => db.hubs[Hub].state = HubState
    /\ up /\ Hub \in served =>
           /\ pending = {} => shown.hub.state = HubState
           /\ \A p \in pending : Published(shown, p).hub.state = HubState

HubTold ==
    Hub \notin missed =>
        /\ LastWord(inbox, Online, {m \in Online : m.on = hubOn})
        /\ Silent(inbox, Online) => HubIsTold

Reports(d) == {m \in Messages : m.kind = "report" /\ m.door = d}
CurfewRow(r) == [enabled |-> r.enabled, curfews |-> <<r.span>>]

\* A door's curfew, as far as its reports have been decoded.
CurfewIsTold(d) ==
    /\ d \in DOMAIN db.doors => db.doors[d] = CurfewRow(own[d])
    /\ \A p \in pending : p.to = "curfew" /\ p.door = d => p.value = own[d]
    /\ up /\ d \in served =>
           /\ pending = {} => shown.curfew[d] = CurfewRow(own[d])
           /\ \A p \in pending : Published(shown, p).curfew[d] = CurfewRow(own[d])

CurfewTold ==
    \A d \in PetDoors : d \notin missed =>
        /\ LastWord(inbox, Reports(d), {m \in Reports(d) : m.curfew = own[d]})
        /\ Silent(inbox, Reports(d)) => CurfewIsTold(d)

\* The messages in which a pet has gone through a door.
Sightings(p) ==
    {m \in Messages : \/ m.kind = "passage" /\ Slots[m.door][m.index] = p
                      \/ m.kind = "movement" /\ m.pet = p}

Directions(s) == IF s = "in" THEN Inwards ELSE DoorDirections \ Inwards

\* Where a pet is that went through pet door d last, as far as that has been decoded.
PetIsTold(p, d) ==
    \A i \in DOMAIN Slots[d] : Slots[d][i] = p /\ p \in Named(d, i) =>
        /\ <<p, d>> \in DOMAIN db.petstate => db.petstate[<<p, d>>] = IF side[p] = "in" THEN "1" ELSE "0"
        /\ up /\ d \in served /\ DoorsOf(db, p) = {d} =>
              /\ pending = {} => shown.pet[p] \in Directions(side[p])
              /\ \A q \in pending : Published(shown, q).pet[p] \in Directions(side[p])

PetTold ==
    \A p \in Pets : p \notin missed /\ via[p] \in PetDoors =>
        /\ LastWord(inbox, Sightings(p),
                    {m \in Sightings(p) : m.kind = "passage" /\ m.door = via[p] /\ m.dir \in Directions(side[p])})
        /\ Silent(inbox, Sightings(p)) => PetIsTold(p, via[p])

-----------------------------------------------------------------------------
(* What the environment says *)

\* A message the service hears, or misses, and what has become of the house.
Says(m, subjects) ==
    /\ Send(m, subjects)
    /\ \/ m.kind = "online" /\ subjects = {Hub} /\ m.on = hubOn' /\ UNCHANGED <<side, via, own>>
       \/ /\ m.kind = "passage" /\ subjects = {Slots[m.door][m.index]}
          /\ via' = [via EXCEPT ![Slots[m.door][m.index]] = m.door]
          /\ side' = [side EXCEPT ![Slots[m.door][m.index]] = IF m.dir \in Inwards THEN "in" ELSE "out"]
          /\ UNCHANGED <<hubOn, own>>
       \/ /\ m.kind = "movement" /\ subjects = {}
          /\ via' = [via EXCEPT ![m.pet] = m.door]
          /\ \A p \in Pets \ {m.pet} : side'[p] = side[p]
          /\ UNCHANGED <<hubOn, own>>
       \/ /\ m.kind = "report" /\ subjects = {m.door}
          /\ own' = [own EXCEPT ![m.door] = m.curfew]
          /\ UNCHANGED <<hubOn, side, via>>
       \/ m.kind \in {"uptime", "curfewlock", "times"} /\ subjects = {} /\ UNCHANGED world

\* Messages come once more, in their order and after all others of the devices.
Repeats ==
    \E first, last \in 1 .. Len(inbox) :
        /\ inbox' = inbox \o SubSeq(inbox, first, last)
        /\ \A i \in 1 .. Len(inbox) : i > last => inbox[i].kind = "times"

LEMMA EnvironmentSays ==
    ASSUME Types, Environment
    PROVE  /\ UNCHANGED <<buildVars, up, served, pending, shown, fresh>>
           /\ \/ (inbox' = inbox \/ Repeats) /\ UNCHANGED <<world, missed>>
              \/ \E m \in Messages : \E subjects \in SUBSET Subjects : Says(m, subjects)
  <1> USE DEF buildVars, serviceVars, world
  <1>1. CASE HubSwitches
    <2> DEFINE m == [kind |-> "online", on |-> hubOn']
    <2>1. m \in Messages /\ {Hub} \in SUBSET Subjects
      BY <1>1 DEF HubSwitches, Messages, Subjects, Types, HouseTypes
    <2>2. Says(m, {Hub})
      BY <1>1 DEF HubSwitches, Says
    <2> QED
      BY <1>1, <2>1, <2>2 DEF HubSwitches
  <1>2. CASE HubUptime
    <2>1. PICK t \in 1 .. MaxUptime : Send([kind |-> "uptime", mins |-> t], {})
      BY <1>2 DEF HubUptime
    <2> DEFINE m == [kind |-> "uptime", mins |-> t]
    <2>2. m \in Messages /\ {} \in SUBSET Subjects
      BY HouseholdAssumption DEF Messages
    <2>3. Says(m, {})
      BY <1>2, <2>1 DEF HubUptime, Says
    <2> QED
      BY <1>2, <2>2, <2>3 DEF HubUptime
  <1>3. CASE SendAgain
    <2>1. PICK first \in DOMAIN inbox, last \in DOMAIN inbox :
              /\ inbox' = inbox \o SubSeq(inbox, first, last) /\ first <= last
              /\ \A i \in DOMAIN inbox : i >= first => (inbox[i].kind = "times" <=> i > last)
      BY <1>3 DEF SendAgain
    <2>2. DOMAIN inbox = 1 .. Len(inbox) /\ Len(inbox) \in Nat
      BY DEF Types, ServiceTypes
    <2>3. ASSUME NEW i \in 1 .. Len(inbox), i > last
          PROVE  inbox[i].kind = "times"
      <3>1. i \in DOMAIN inbox /\ i >= first
        BY <2>1, <2>2, <2>3
      <3>2. inbox[i].kind = "times" <=> i > last
        BY <2>1, <3>1, Zenon
      <3> QED
        BY <2>3, <3>2
    <2>4. Repeats
      <3>1. first \in 1 .. Len(inbox) /\ last \in 1 .. Len(inbox)
        BY <2>2
      <3> QED
        BY <2>1, <2>3, <3>1, Zenon DEF Repeats
    <2> QED
      BY <1>3, <2>4 DEF SendAgain
  <1>4. ASSUME NEW d \in PetDoors, NEW i \in DOMAIN Slots[d], NEW dir \in DoorDirections, Passage(d, i, dir)
        PROVE  /\ UNCHANGED <<buildVars, up, served, pending, shown, fresh>>
               /\ \E m \in Messages : \E subjects \in SUBSET Subjects : Says(m, subjects)
    <2> DEFINE m == [kind |-> "passage", door |-> d, index |-> i, dir |-> dir]
    <2>1. Slots[d][i] \in Pets /\ i \in Nat
      BY HouseholdAssumption, ElementOfSeq
    <2>2. m \in Messages /\ {Slots[d][i]} \in SUBSET Subjects
      BY <2>1 DEF Messages, Subjects
    <2>3. Says(m, {Slots[d][i]})
      BY <1>4 DEF Passage, Says
    <2> QED
      BY <1>4, <2>2, <2>3 DEF Passage
  <1>5. ASSUME NEW d \in CatFlaps, NEW p \in Pets, NEW dir \in FlapDirections, Movement(d, p, dir)
        PROVE  /\ UNCHANGED <<buildVars, up, served, pending, shown, fresh>>
               /\ \E m \in Messages : \E subjects \in SUBSET Subjects : Says(m, subjects)
    <2> DEFINE m == [kind |-> "movement", door |-> d, pet |-> p, dir |-> dir]
    <2>1. m \in Messages /\ {} \in SUBSET Subjects
      BY DEF Messages
    <2>2. \A q \in Pets \ {p} : side'[q] = side[q]
      BY <1>5 DEF Movement, Types, HouseTypes
    <2>3. Says(m, {})
      BY <1>5, <2>2 DEF Movement, Says
    <2> QED
      BY <1>5, <2>1, <2>3 DEF Movement
  <1>6. ASSUME NEW d \in CatFlaps, CurfewLock(d)
        PROVE  /\ UNCHANGED <<buildVars, up, served, pending, shown, fresh>>
               /\ \E m \in Messages : \E subjects \in SUBSET Subjects : Says(m, subjects)
    <2> DEFINE m == [kind |-> "curfewlock", door |-> d]
    <2>1. m \in Messages /\ {} \in SUBSET Subjects
      BY DEF Messages
    <2>2. Says(m, {})
      BY <1>6 DEF CurfewLock, Says
    <2> QED
      BY <1>6, <2>1, <2>2 DEF CurfewLock
  <1>7. ASSUME NEW d \in Doors, NEW text \in Texts, SetTimes(d, text)
        PROVE  /\ UNCHANGED <<buildVars, up, served, pending, shown, fresh>>
               /\ \E m \in Messages : \E subjects \in SUBSET Subjects : Says(m, subjects)
    <2> DEFINE m == [kind |-> "times", door |-> d, text |-> text]
    <2>1. m \in Messages /\ {} \in SUBSET Subjects
      BY DEF Messages
    <2>2. Says(m, {})
      BY <1>7 DEF SetTimes, Says
    <2> QED
      BY <1>7, <2>1, <2>2 DEF SetTimes
  <1>8. ASSUME NEW d \in PetDoors, DoorObeys(d)
        PROVE  /\ UNCHANGED <<buildVars, up, served, pending, shown, fresh>>
               /\ \E m \in Messages : \E subjects \in SUBSET Subjects : Says(m, subjects)
    <2> DEFINE m == [kind |-> "report", door |-> d, curfew |-> own'[d]]
    <2>1. cmd[d] \in Seq(Registers) /\ cmd[d] # <<>>
      BY <1>8 DEF DoorObeys, Types, HouseTypes
    <2>2. Head(cmd[d]) \in Registers /\ own'[d] = Head(cmd[d])
      BY <1>8, <2>1 DEF DoorObeys, Types, HouseTypes
    <2>3. m \in Messages /\ {d} \in SUBSET Subjects
      BY <2>2 DEF Messages, Subjects
    <2>4. Says(m, {d})
      BY <1>8, <2>2 DEF DoorObeys, Says
    <2> QED
      BY <1>8, <2>3, <2>4 DEF DoorObeys
  <1>9. ASSUME NEW d \in PetDoors, CommandLost(d) \/ \E state \in {"ON", "OFF"} : CliCurfew(d, state)
        PROVE  UNCHANGED <<buildVars, up, served, pending, shown, fresh, inbox, world, missed>>
    BY <1>9 DEF CommandLost, CliCurfew
  <1> QED
    BY <1>1, <1>2, <1>3, <1>4, <1>5, <1>6, <1>7, <1>8, <1>9 DEF Environment

\* What a message leaves as it was: everything that is said of another subject.
LEMMA OtherSaid ==
    ASSUME inbox \in Seq(Messages), NEW m \in Messages, NEW subjects, Send(m, subjects),
           NEW s, s \notin subjects, s \notin missed', NEW A, m \notin A, NEW G
    PROVE  /\ s \notin missed
           /\ Silent(inbox', A) <=> Silent(inbox, A)
           /\ LastWord(inbox, A, G) => LastWord(inbox', A, G)
  <1>1. s \notin missed
    BY DEF Send
  <1>2. inbox' = Append(inbox, m) \/ inbox' = inbox
    BY DEF Send
  <1> QED
    BY <1>1, <1>2, OtherArrives

\* A message that is heard is the last word on its subject.
LEMMA SubjectSaid ==
    ASSUME inbox \in Seq(Messages), NEW m \in Messages, NEW subjects, Send(m, subjects),
           NEW s \in subjects, s \notin missed', NEW A, NEW G, m \in A, m \in G
    PROVE  LastWord(inbox', A, G) /\ ~Silent(inbox', A)
  <1>1. inbox' = Append(inbox, m)
    BY DEF Send
  <1> QED
    BY <1>1, NewestArrives

\* Repeated messages tell nothing new.
LEMMA Repeated ==
    ASSUME inbox \in Seq(Messages), inbox' = inbox \/ Repeats, NEW A, NEW G \in SUBSET A,
           \A m \in A : m.kind # "times", LastWord(inbox, A, G)
    PROVE  LastWord(inbox', A, G) /\ (Silent(inbox', A) => Silent(inbox, A))
  <1>1. CASE Repeats
    <2>1. PICK first, last \in 1 .. Len(inbox) :
              /\ inbox' = inbox \o SubSeq(inbox, first, last)
              /\ \A i \in 1 .. Len(inbox) : i > last => inbox[i].kind = "times"
      BY <1>1, Zenon DEF Repeats
    <2>2. \A i \in 1 .. Len(inbox) : i > last => inbox[i] \notin A
      BY <2>1
    <2> QED
      BY <2>1, <2>2, SentAgain
  <1> QED
    BY <1>1

-----------------------------------------------------------------------------
(* What is stored and published *)

LEMMA PublishedParts ==
    ASSUME NEW s, IsTopics(s), NEW p \in Publications
    PROVE  /\ Published(s, p).hub = IF p.to = "hub" THEN [s.hub EXCEPT ![p.field] = p.value] ELSE s.hub
           /\ Published(s, p).curfew = IF p.to = "curfew" THEN [s.curfew EXCEPT ![p.door] = CurfewRow(p.value)]
                                                          ELSE s.curfew
           /\ p.to # "pets" => Published(s, p).pet = s.pet
           /\ \A q \in Pets : p.to = "pets" =>
                 Published(s, p).pet[q] = IF q \in p.pets THEN p.value ELSE s.pet[q]
  <1>1. s = [hub |-> s.hub, curfew |-> s.curfew, pet |-> s.pet]
    BY DEF IsTopics
  <1>2. CASE p.to = "hub"
    <2> DEFINE hub == [s.hub EXCEPT ![p.field] = p.value]
    <2>1. Published(s, p) = [s EXCEPT !.hub = hub]
      BY <1>2 DEF Published
    <2> HIDE DEF hub
    <2>2. Published(s, p).hub = hub /\ Published(s, p).curfew = s.curfew /\ Published(s, p).pet = s.pet
      BY <1>1, <2>1
    <2> QED
      BY <1>2, <2>2 DEF hub
  <1>3. CASE p.to = "pets"
    <2> DEFINE pet == [q \in Pets |-> IF q \in p.pets THEN p.value ELSE s.pet[q]]
    <2>1. Published(s, p) = [s EXCEPT !.pet = pet]
      BY <1>3 DEF Published
    <2>2. \A q \in Pets : pet[q] = IF q \in p.pets THEN p.value ELSE s.pet[q]
      OBVIOUS
    <2> HIDE DEF pet
    <2>3. Published(s, p).hub = s.hub /\ Published(s, p).curfew = s.curfew /\ Published(s, p).pet = pet
      BY <1>1, <2>1
    <2> QED
      BY <1>3, <2>2, <2>3
  <1>4. CASE p.to = "curfew"
    <2> DEFINE curfew == [s.curfew EXCEPT ![p.door] = CurfewRow(p.value)]
    <2>1. Published(s, p) = [s EXCEPT !.curfew = curfew]
      BY <1>4 DEF Published, CurfewRow
    <2> HIDE DEF curfew
    <2>2. Published(s, p).hub = s.hub /\ Published(s, p).curfew = curfew /\ Published(s, p).pet = s.pet
      BY <1>1, <2>1
    <2> QED
      BY <1>4, <2>2 DEF curfew
  <1>5. CASE p.to \in {"door", "nobody"}
    <2>1. Published(s, p) = s
      BY <1>5 DEF Published
    <2> QED
      BY <1>5, <2>1
  <1>6. p.to \in {"hub", "pets", "curfew", "door", "nobody"}
    BY DEF Publications
  <1> QED
    BY <1>2, <1>3, <1>4, <1>5, <1>6

\* The topics after a start are those of the tables.
LEMMA StartShows ==
    ASSUME Types, Start
    PROVE  /\ served' = ToSet(db.devices) /\ db' = db /\ pending' = {} /\ inbox' = <<>>
           /\ \A m \in served' : Known(m) /\ Loads(m)
           /\ Hub \in served' => shown'.hub = db.hubs[Hub]
           /\ \A d \in Doors \cap served' : shown'.curfew[d] = db.doors[d]
           /\ \A p \in db.pets, d \in Doors : DoorsOf(db, p) = {d} =>
                  shown'.pet[p] = AnimalState(db.petstate[<<p, d>>])
  <1> DEFINE n == Len(db.devices)
             hub == IF Hub \in FirstDevices(n) THEN db.hubs[Hub] ELSE shown.hub
             curfew == [d \in Doors |-> IF d \in FirstDevices(n) THEN db.doors[d] ELSE shown.curfew[d]]
             loaded == DeviceTopics(n)
  <1>1. PICK last \in [Pets -> Doors] :
            /\ \A p \in Pets : DoorsOf(db, p) # {} => last[p] \in DoorsOf(db, p)
            /\ shown' = PetTopics(loaded, last)
    BY DEF Start
  <1>2. served' = ToSet(db.devices) /\ db' = db /\ pending' = {} /\ inbox' = <<>>
    BY DEF Start, buildVars, Types, ServiceTypes
  <1>3. db.devices \in Seq(Devices) /\ ToSet(db.devices) = FirstDevices(n) /\ db.pets \subseteq Pets
    BY DEF ToSet, FirstDevices, Types, BuildTypes, IsStore, IsTables
  <1>4. \A m \in served' : Known(m) /\ Loads(m)
    BY <1>2, <1>3 DEF Start, Starts, Load, FirstDevices, Known
  <1>5. loaded = [shown EXCEPT !.hub = hub, !.curfew = curfew]
    BY DEF DeviceTopics
  <1>6. /\ Hub \in FirstDevices(n) => hub = db.hubs[Hub]
        /\ \A d \in Doors : d \in FirstDevices(n) => curfew[d] = db.doors[d]
    OBVIOUS
  <1>7. shown = [hub |-> shown.hub, curfew |-> shown.curfew, pet |-> shown.pet]
    BY DEF Types, ServiceTypes, IsTopics
  <1> HIDE DEF n, hub, curfew, loaded
  <1>8. loaded.hub = hub /\ loaded.curfew = curfew
        /\ loaded = [hub |-> loaded.hub, curfew |-> loaded.curfew, pet |-> loaded.pet]
    BY <1>5, <1>7
  <1> DEFINE pet == [p \in Pets |-> IF p \in db.pets /\ DoorsOf(db, p) # {}
                                    THEN AnimalState(db.petstate[<<p, last[p]>>]) ELSE loaded.pet[p]]
  <1>9. shown' = [loaded EXCEPT !.pet = pet]
    BY <1>1 DEF PetTopics
  <1>10. ASSUME NEW p \in db.pets, NEW d \in Doors, DoorsOf(db, p) = {d}
         PROVE  pet[p] = AnimalState(db.petstate[<<p, d>>])
    <2>1. p \in Pets /\ last[p] = d
      BY <1>1, <1>3, <1>10
    <2> QED
      BY <1>10, <2>1
  <1> HIDE DEF pet
  <1>11. shown'.hub = loaded.hub /\ shown'.curfew = loaded.curfew /\ shown'.pet = pet
    BY <1>8, <1>9
  <1> QED
    BY <1>2, <1>3, <1>4, <1>6, <1>8, <1>10, <1>11

-----------------------------------------------------------------------------
(* The hub *)

OnlineNow == {m \in Online : m.on = hubOn}

\* What decoding stores of the hub's state.
LEMMA HubStored ==
    ASSUME IsStore(db), NEW m \in Messages
    PROVE  /\ DOMAIN Stored(m).hubs = DOMAIN db.hubs /\ Stored(m).devices = db.devices
           /\ Known(Hub) /\ Hub \in DOMAIN db.hubs =>
                Stored(m).hubs[Hub].state =
                    IF m \in Online THEN IF m.on THEN 1 ELSE 0 ELSE db.hubs[Hub].state
  <1>1. SameKeys(db, Stored(m))
    BY StoredKept
  <1>2. CASE m.kind = "online"
    <2>1. PICK v \in Nat : v = IF m.on THEN 1 ELSE 0
      OBVIOUS
    <2>2. m \in Online /\ Stored(m) = StoreHub("state", v)
      BY <1>2, <2>1 DEF Messages, Online, Stored
    <2>3. Known(Hub) /\ Hub \in DOMAIN db.hubs =>
              Stored(m).hubs[Hub] = [db.hubs[Hub] EXCEPT !["state"] = v] /\ db.hubs[Hub] \in HubRows
      BY <2>2, StoreHubKept, HubRowIsTyped DEF IsStore, IsTables
    <2> QED
      BY <1>1, <2>1, <2>2, <2>3 DEF SameKeys, HubRows
  <1>3. CASE m.kind = "uptime"
    <2>1. m \notin Online /\ m.mins \in Nat /\ Stored(m) = StoreHub("uptime", m.mins)
      BY <1>3 DEF Messages, Online, Stored
    <2>2. Known(Hub) /\ Hub \in DOMAIN db.hubs =>
              Stored(m).hubs[Hub] = [db.hubs[Hub] EXCEPT !["uptime"] = m.mins] /\ db.hubs[Hub] \in HubRows
      BY <2>1, StoreHubKept, HubRowIsTyped DEF IsStore, IsTables
    <2> QED
      BY <1>1, <2>1, <2>2 DEF SameKeys, HubRows
  <1>4. CASE m.kind \notin {"online", "uptime"}
    <2>1. m \notin Online
      BY <1>4 DEF Online
    <2>2. Stored(m).hubs = db.hubs
      <3>1. m.kind = "report" => m.curfew \in Registers
        BY DEF Messages
      <3>2. StorePassage(m).hubs = db.hubs /\ StoreTimes(m).hubs = db.hubs
        BY StorePassageKept, StoreTimesKept
      <3>3. m.kind = "report" => StoreReport(m).hubs = db.hubs
        BY <3>1, StoreReportKept
      <3> QED
        BY <1>4, <3>2, <3>3 DEF Stored
    <2> QED
      BY <1>1, <2>1, <2>2 DEF SameKeys
  <1> QED
    BY <1>2, <1>3, <1>4

\* What its handler publishes of it.
LEMMA HubPublished ==
    ASSUME Types, Hub \in served, NEW m \in Messages, ~Raises(m)
    PROVE  Published(shown, Publication(m)).hub.state =
               IF m \in Online THEN IF m.on THEN 1 ELSE 0 ELSE shown.hub.state
  <1> DEFINE p == Publication(m)
  <1>1. p \in Publications /\ IsTopics(shown) /\ shown.hub \in HubRows
    BY PublicationTyped DEF Types, BuildTypes, ServiceTypes, IsTopics
  <1>2. Published(shown, p).hub = IF p.to = "hub" THEN [shown.hub EXCEPT ![p.field] = p.value] ELSE shown.hub
    BY <1>1, PublishedParts
  <1>3. CASE m.kind = "online"
    <2>1. m \in Online /\ p = [to |-> "hub", field |-> "state", value |-> IF m.on THEN 1 ELSE 0]
      BY <1>3 DEF Messages, Online, Publication
    <2> QED
      BY <1>1, <1>2, <2>1 DEF HubRows
  <1>4. CASE m.kind = "uptime"
    <2>1. m \notin Online /\ p = [to |-> "hub", field |-> "uptime", value |-> m.mins]
      BY <1>4 DEF Online, Publication
    <2> QED
      BY <1>1, <1>2, <2>1 DEF HubRows
  <1>5. CASE m.kind \notin {"online", "uptime"}
    <2>1. m \notin Online /\ p.to # "hub"
      BY <1>5 DEF Online, Publication
    <2> QED
      BY <1>2, <2>1
  <1> QED
    BY <1>3, <1>4, <1>5

LEMMA HubToldStep ==
    ASSUME Types, HubTold, [Next]_houseVars
    PROVE  HubTold'
  <1> SUFFICES ASSUME Hub \notin missed'
               PROVE  /\ LastWord(inbox', Online, OnlineNow')
                      /\ Silent(inbox', Online) => HubIsTold'
    BY DEF HubTold, OnlineNow
  <1>1. /\ inbox \in Seq(Messages) /\ OnlineNow \in SUBSET Online
        /\ \A m \in Online : m.kind # "times"
        /\ Hub \notin missed => LastWord(inbox, Online, OnlineNow) /\ (Silent(inbox, Online) => HubIsTold)
        /\ IsStore(db) /\ IsTopics(shown) /\ hubOn \in BOOLEAN
    BY DEF Types, BuildTypes, ServiceTypes, HouseTypes, HubTold, Online, OnlineNow
  <1>2. ASSUME UNCHANGED <<db, up, served, pending, shown, hubOn>>
        PROVE  HubIsTold => HubIsTold'
    BY <1>2 DEF HubIsTold, Known, HubState
  <1>3. CASE UNCHANGED houseVars
    BY <1>1, <1>2, <1>3 DEF houseVars, buildVars, serviceVars, world, OnlineNow
  <1>4. CASE Environment
    <2>1. UNCHANGED <<db, up, served, pending, shown>>
      BY <1>4, EnvironmentSays DEF buildVars
    <2>2. CASE (inbox' = inbox \/ Repeats) /\ UNCHANGED <<world, missed>>
      <3>1. Hub \notin missed /\ hubOn' = hubOn /\ OnlineNow' = OnlineNow
        BY <2>2 DEF world, OnlineNow
      <3>2. LastWord(inbox', Online, OnlineNow) /\ (Silent(inbox', Online) => Silent(inbox, Online))
        BY <1>1, <2>2, <3>1, Repeated
      <3> QED
        BY <1>1, <1>2, <2>1, <3>1, <3>2
    <2>3. ASSUME NEW m \in Messages, NEW subjects \in SUBSET Subjects, Says(m, subjects)
          PROVE  /\ LastWord(inbox', Online, OnlineNow')
                 /\ Silent(inbox', Online) => HubIsTold'
      <3>1. CASE m.kind = "online"
        <4>1. Hub \in subjects /\ Send(m, subjects) /\ m \in Online /\ m \in OnlineNow'
          BY <2>3, <3>1 DEF Says, Messages, Online, OnlineNow
        <4>2. LastWord(inbox', Online, OnlineNow') /\ ~Silent(inbox', Online)
          BY <1>1, <4>1, SubjectSaid
        <4> QED
          BY <4>2
      <3>2. CASE m.kind # "online"
        <4>1. /\ Hub \notin subjects /\ Send(m, subjects) /\ m \notin Online
              /\ hubOn' = hubOn /\ OnlineNow' = OnlineNow
          <5>1. m.kind = "report" => m.door \in Doors
            BY DEF Messages, Doors
          <5>2. m.kind = "passage" => Slots[m.door][m.index] \in Pets
            <6>1. m.kind = "passage" => m.door \in PetDoors /\ m.index \in DOMAIN Slots[m.door]
              BY DEF Messages
            <6> QED
              BY <6>1, HouseholdAssumption, ElementOfSeq
          <5>3. Hub \notin subjects
            BY <2>3, <3>2, <5>1, <5>2, CloudAssumption, HouseholdAssumption DEF Says
          <5>4. hubOn' = hubOn
            BY <2>3, <3>2 DEF Says, world
          <5> QED
            BY <2>3, <3>2, <5>3, <5>4 DEF Says, Online, OnlineNow
        <4>2. /\ Hub \notin missed /\ (Silent(inbox', Online) <=> Silent(inbox, Online))
              /\ LastWord(inbox, Online, OnlineNow) => LastWord(inbox', Online, OnlineNow)
          BY <1>1, <4>1, OtherSaid
        <4> QED
          BY <1>1, <1>2, <2>1, <4>1, <4>2
      <3> QED
        BY <3>1, <3>2
    <2> QED
      BY <1>4, <2>2, <2>3, EnvironmentSays
  <1>5. CASE Decode
    <2> DEFINE m == Head(inbox)
    <2>1. /\ m \in Messages /\ ~Raises(m) /\ inbox # <<>> /\ inbox' = Tail(inbox) /\ db' = Stored(m)
          /\ pending = {} /\ pending' = {Publication(m)} /\ UNCHANGED <<up, served, shown, hubOn>>
      BY <1>5 DEF Decode, Types, ServiceTypes, world
    <2>2. Hub \notin missed /\ OnlineNow' = OnlineNow
      BY <1>5, <2>1 DEF Decode, OnlineNow
    <2>3. /\ LastWord(inbox', Online, OnlineNow)
          /\ Silent(inbox', Online) /\ m \in Online => m \in OnlineNow
          /\ Silent(inbox', Online) /\ m \notin Online => Silent(inbox, Online)
      BY <1>1, <2>1, <2>2, OldestTaken
    <2> HIDE DEF m
    <2>4. ASSUME Silent(inbox', Online) PROVE HubIsTold'
      <3>1. m \in Online => (IF m.on THEN 1 ELSE 0) = HubState
        BY <2>3, <2>4 DEF OnlineNow, HubState
      <3>2. m \notin Online => HubIsTold
        BY <1>1, <2>2, <2>3, <2>4
      <3>3. Known(Hub)' /\ Hub \in DOMAIN db'.hubs => db'.hubs[Hub].state = HubState
        <4>1. /\ DOMAIN db'.hubs = DOMAIN db.hubs /\ db'.devices = db.devices
              /\ Known(Hub) /\ Hub \in DOMAIN db.hubs =>
                   db'.hubs[Hub].state =
                       IF m \in Online THEN IF m.on THEN 1 ELSE 0 ELSE db.hubs[Hub].state
          BY <1>1, <2>1, HubStored
        <4>2. Known(Hub)' <=> Known(Hub)
          BY <4>1 DEF Known
        <4> QED
          BY <3>1, <3>2, <4>1, <4>2 DEF HubIsTold
      <3>4. up /\ Hub \in served => Published(shown, Publication(m)).hub.state = HubState
        BY <2>1, <3>1, <3>2, HubPublished DEF HubIsTold
      <3> QED
        BY <2>1, <3>3, <3>4 DEF HubIsTold, HubState
    <2> QED
      BY <2>2, <2>3, <2>4
  <1>6. CASE Return
    <2>1. PICK p \in pending : shown' = Published(shown, p) /\ db' = StoredAgain(p)
      BY <1>6 DEF Return
    <2>2. p \in Publications
      BY DEF Types, ServiceTypes
    <2>3. /\ UNCHANGED <<up, served, inbox, missed, hubOn>> /\ pending' = {}
          /\ OnlineNow' = OnlineNow
      BY <1>6 DEF Return, world, OnlineNow
    <2>4. db'.hubs = db.hubs /\ db'.devices = db.devices
      BY <1>1, <2>1, <2>2, StoredAgainKept DEF SameKeys
    <2>5. HubIsTold => HubIsTold'
      BY <2>1, <2>3, <2>4 DEF HubIsTold, Known, HubState
    <2> QED
      BY <1>1, <2>3, <2>5
  <1>7. CASE Die \/ Crash
    <2>1. /\ Lost \subseteq missed' /\ Hub \notin missed /\ hubOn' = hubOn
          /\ inbox' = <<>> /\ up' = FALSE /\ OnlineNow' = OnlineNow
      BY <1>7 DEF Die, Crash, Down, world, OnlineNow
    <2>2. Silent(inbox, Online)
      <3>1. ASSUME NEW i \in 1 .. Len(inbox), inbox[i] \in Online PROVE FALSE
        <4>1. inbox[i] \in ToSet(inbox) /\ inbox[i].kind = "online"
          BY <1>1, <3>1 DEF ToSet, Online
        <4>2. Hub \in Lost
          BY <4>1 DEF Lost
        <4> QED
          BY <2>1, <4>2
      <3> QED
        BY <3>1 DEF Silent
    <2>3. db'.hubs = db.hubs /\ db'.devices = db.devices
      <3>1. CASE Crash \/ db' = db
        BY <3>1 DEF Crash
      <3>2. CASE Die /\ Head(inbox).kind = "times" /\ db' = Stored(Head(inbox))
        <4>1. db' = StoreTimes(Head(inbox)) \/ db' = db
          BY <3>2 DEF Stored
        <4> QED
          BY <1>1, <4>1, StoreTimesKept DEF SameKeys
      <3> QED
        BY <1>7, <3>1, <3>2 DEF Die
    <2>4. HubIsTold'
      BY <1>1, <2>1, <2>2, <2>3 DEF HubIsTold, Known, HubState
    <2> QED
      BY <2>1, <2>4 DEF LastWord, Silent
  <1>8. CASE Start
    <2>1. /\ db' = db /\ pending' = {} /\ inbox' = <<>> /\ inbox = <<>>
          /\ (Hub \in served' => Known(Hub) /\ Loads(Hub) /\ shown'.hub = db.hubs[Hub])
      BY <1>8, StartShows DEF Start, Types, ServiceTypes
    <2>2. Hub \notin missed /\ hubOn' = hubOn
      BY <1>8 DEF Start, world
    <2>3. HubIsTold
      BY <1>1, <2>1, <2>2 DEF Silent
    <2>4. HubIsTold'
      BY <2>1, <2>2, <2>3, LoadsNeeds DEF HubIsTold, Known, HubState
    <2> QED
      BY <2>1, <2>4 DEF LastWord, Silent
  <1>9. CASE StartFails
    <2>1. UNCHANGED <<db, up, inbox, missed, hubOn>> /\ ~up /\ OnlineNow' = OnlineNow
      BY <1>9 DEF StartFails, buildVars, world, OnlineNow
    <2>2. HubIsTold => HubIsTold'
      BY <2>1 DEF HubIsTold, Known, HubState
    <2> QED
      BY <1>1, <2>1, <2>2
  <1>10. CASE Build
    BY <1>10 DEF Build, Subjects
  <1>11. CASE BuildStops
    BY <1>1, <1>2, <1>11 DEF BuildStops, BuildEnds, serviceVars, world, OnlineNow
  <1> QED
    BY <1>3, <1>4, <1>5, <1>6, <1>7, <1>8, <1>9, <1>10, <1>11 DEF Next

\* Home Assistant shows the hub as it is once all it said has been handled, for any house
\* and any number of crashes, starts and repetitions in between.
THEOREM HubIsShownAsItIs == Spec => []HubTells
  <1>1. Init => HubTold
    BY DEF Init, HubTold, Subjects
  <1>2. Inv /\ HubTold /\ [Next]_houseVars => HubTold'
    BY HubToldStep DEF Inv
  <1>3. Inv /\ HubTold => HubTells
    <2> SUFFICES ASSUME HubTold, AtRest, Hub \notin missed, Hub \in served
                 PROVE  shown.hub.state = IF hubOn THEN 1 ELSE 0
      BY DEF HubTells
    <2>1. Silent(inbox, Online)
      BY DEF AtRest, Silent
    <2> QED
      BY <2>1 DEF HubTold, HubIsTold, HubState, AtRest
  <1> QED
    BY <1>1, <1>2, <1>3, SpecInv, PTL DEF Spec

-----------------------------------------------------------------------------
(* The curfews *)

ReportsNow(d) == {m \in Reports(d) : m.curfew = own[d]}

\* What decoding stores of a door's curfew, unless times are set.
LEMMA CurfewStored ==
    ASSUME IsStore(db), NEW m \in Messages, ~(m.kind = "times" /\ m.door \in served), NEW d
    PROVE  /\ DOMAIN Stored(m).doors = DOMAIN db.doors
           /\ d \in DOMAIN db.doors =>
                Stored(m).doors[d] = IF m \in Reports(d) THEN CurfewRow(m.curfew) ELSE db.doors[d]
  <1>1. CASE m.kind = "report"
    <2> DEFINE rows == [e \in DOMAIN db.doors |->
                           IF e = m.door THEN CurfewRow(m.curfew) ELSE db.doors[e]]
    <2>1. Stored(m) = [db EXCEPT !.doors = rows]
      BY <1>1 DEF Stored, StoreReport, CurfewRow
    <2>2. /\ DOMAIN rows = DOMAIN db.doors
          /\ d \in DOMAIN db.doors => rows[d] = IF d = m.door THEN CurfewRow(m.curfew) ELSE db.doors[d]
      OBVIOUS
    <2> HIDE DEF rows
    <2>3. Stored(m).doors = rows
      BY <2>1 DEF IsStore, IsTables
    <2>4. m \in Reports(d) <=> d = m.door
      BY <1>1 DEF Reports
    <2> QED
      BY <2>2, <2>3, <2>4
  <1>2. CASE m.kind # "report"
    <2>1. m \notin Reports(d)
      BY <1>2 DEF Reports
    <2>2. Stored(m).doors = db.doors
      <3>1. ASSUME NEW f \in {"state", "uptime"}, NEW v \in Nat
            PROVE  StoreHub(f, v).doors = db.doors
        BY StoreHubKept
      <3>2. StorePassage(m).doors = db.doors
        BY StorePassageKept
      <3>3. m.kind = "uptime" => m.mins \in Nat
        BY DEF Messages
      <3>4. StoreHub("state", 1).doors = db.doors /\ StoreHub("state", 0).doors = db.doors
        BY <3>1
      <3>5. m.kind = "uptime" => StoreHub("uptime", m.mins).doors = db.doors
        BY <3>1, <3>3
      <3> QED
        BY <1>2, <3>2, <3>4, <3>5 DEF Stored
    <2> QED
      BY <2>1, <2>2
  <1> QED
    BY <1>1, <1>2

\* What its handler publishes of it.
LEMMA CurfewPublished ==
    ASSUME Types, NEW m \in Messages, ~Raises(m), NEW d \in PetDoors
    PROVE  LET p == Publication(m)
           IN  /\ p.to = "curfew" /\ p.door = d => m \in Reports(d) /\ p.value = m.curfew
               /\ d \in served =>
                     Published(shown, p).curfew[d] =
                         IF m \in Reports(d) THEN CurfewRow(m.curfew) ELSE shown.curfew[d]
  <1> DEFINE p == Publication(m)
  <1>1. p \in Publications /\ IsTopics(shown) /\ d \in DOMAIN shown.curfew
    BY PublicationTyped DEF Types, BuildTypes, ServiceTypes, IsTopics, Doors
  <1>2. Published(shown, p).curfew = IF p.to = "curfew" THEN [shown.curfew EXCEPT ![p.door] = CurfewRow(p.value)]
                                                       ELSE shown.curfew
    BY <1>1, PublishedParts
  <1>3. CASE m.kind = "report" /\ m.door \in served
    <2>1. p = [to |-> "curfew", door |-> m.door, value |-> m.curfew] /\ (m \in Reports(d) <=> m.door = d)
      BY <1>3 DEF Publication, Reports
    <2> HIDE DEF p
    <2>2. p.to = "curfew" /\ p.door = m.door /\ p.value = m.curfew
      BY <2>1
    <2>3. Published(shown, p).curfew[d] = IF m \in Reports(d) THEN CurfewRow(m.curfew) ELSE shown.curfew[d]
      BY <1>1, <1>2, <2>1, <2>2
    <2> QED
      BY <2>1, <2>2, <2>3 DEF p
  <1>4. CASE ~(m.kind = "report" /\ m.door \in served)
    <2>1. p.to # "curfew"
      BY <1>4 DEF Publication
    <2>2. m \in Reports(d) => d \notin served
      BY <1>4 DEF Reports
    <2> HIDE DEF p
    <2>3. d \in served =>
              Published(shown, p).curfew[d] =
                  IF m \in Reports(d) THEN CurfewRow(m.curfew) ELSE shown.curfew[d]
      BY <1>2, <2>1, <2>2
    <2> QED
      BY <2>1, <2>3 DEF p
  <1> QED
    BY <1>3, <1>4

\* Storing a curfew's state once more.
LEMMA CurfewStoredAgain ==
    ASSUME IsStore(db), NEW p, NEW d
    PROVE  /\ DOMAIN StoredAgain(p).doors = DOMAIN db.doors
           /\ d \in DOMAIN db.doors =>
                StoredAgain(p).doors[d] =
                    IF p.to = "curfew" /\ p.door = d THEN [db.doors[d] EXCEPT !.enabled = p.value.enabled]
                                                     ELSE db.doors[d]
  <1>1. CASE p.to = "curfew"
    <2> DEFINE rows == [e \in DOMAIN db.doors |->
                           IF e = p.door THEN [db.doors[e] EXCEPT !.enabled = p.value.enabled] ELSE db.doors[e]]
    <2>1. StoredAgain(p) = [db EXCEPT !.doors = rows]
      BY <1>1 DEF StoredAgain
    <2>2. /\ DOMAIN rows = DOMAIN db.doors
          /\ d \in DOMAIN db.doors => rows[d] = IF d = p.door THEN [db.doors[d] EXCEPT !.enabled = p.value.enabled]
                                                              ELSE db.doors[d]
      OBVIOUS
    <2> HIDE DEF rows
    <2>3. StoredAgain(p).doors = rows
      BY <2>1 DEF IsStore, IsTables
    <2> QED
      BY <1>1, <2>2, <2>3
  <1>2. CASE p.to # "curfew"
    BY <1>2 DEF StoredAgain
  <1> QED
    BY <1>1, <1>2

LEMMA CurfewToldStep ==
    ASSUME Types, CurfewTold, [Next]_houseVars
    PROVE  CurfewTold'
  <1> SUFFICES ASSUME NEW d \in PetDoors, d \notin missed'
               PROVE  /\ LastWord(inbox', Reports(d), ReportsNow(d)')
                      /\ Silent(inbox', Reports(d)) => CurfewIsTold(d)'
    BY DEF CurfewTold, ReportsNow, Reports
  <1>1. /\ inbox \in Seq(Messages) /\ ReportsNow(d) \in SUBSET Reports(d)
        /\ \A m \in Reports(d) : m.kind # "times"
        /\ d \notin missed =>
              LastWord(inbox, Reports(d), ReportsNow(d)) /\ (Silent(inbox, Reports(d)) => CurfewIsTold(d))
        /\ IsStore(db) /\ IsTopics(shown) /\ own \in [PetDoors -> Registers]
    BY DEF Types, BuildTypes, ServiceTypes, HouseTypes, CurfewTold, Reports, ReportsNow
  <1>2. ASSUME UNCHANGED <<db, up, served, pending, shown>>, own'[d] = own[d]
        PROVE  CurfewIsTold(d) => CurfewIsTold(d)'
    BY <1>2 DEF CurfewIsTold
  <1>0. ASSUME own'[d] = own[d] PROVE ReportsNow(d)' = ReportsNow(d)
    BY <1>0 DEF ReportsNow, Reports
  <1>3. CASE UNCHANGED houseVars
    BY <1>0, <1>1, <1>2, <1>3 DEF houseVars, buildVars, serviceVars, world
  <1>4. CASE Environment
    <2>1. UNCHANGED <<db, up, served, pending, shown>>
      BY <1>4, EnvironmentSays DEF buildVars
    <2>2. CASE (inbox' = inbox \/ Repeats) /\ UNCHANGED <<world, missed>>
      <3>1. d \notin missed /\ own'[d] = own[d] /\ ReportsNow(d)' = ReportsNow(d)
        BY <1>0, <2>2 DEF world
      <3>2. LastWord(inbox', Reports(d), ReportsNow(d)) /\ (Silent(inbox', Reports(d)) => Silent(inbox, Reports(d)))
        BY <1>1, <2>2, <3>1, Repeated
      <3> QED
        BY <1>1, <1>2, <2>1, <3>1, <3>2
    <2>3. ASSUME NEW m \in Messages, NEW subjects \in SUBSET Subjects, Says(m, subjects)
          PROVE  /\ LastWord(inbox', Reports(d), ReportsNow(d)')
                 /\ Silent(inbox', Reports(d)) => CurfewIsTold(d)'
      <3>1. CASE m \in Reports(d)
        <4>1. d \in subjects /\ Send(m, subjects) /\ own'[d] = m.curfew
          BY <1>1, <2>3, <3>1 DEF Says, Reports
        <4>2. m \in ReportsNow(d)'
          BY <3>1, <4>1 DEF ReportsNow, Reports
        <4>3. LastWord(inbox', Reports(d), ReportsNow(d)') /\ ~Silent(inbox', Reports(d))
          BY <1>1, <3>1, <4>1, <4>2, SubjectSaid
        <4> QED
          BY <4>3
      <3>2. CASE m \notin Reports(d)
        <4>1. d \notin subjects /\ Send(m, subjects)
          <5>1. m.kind = "passage" => Slots[m.door][m.index] \in Pets
            <6>1. m.kind = "passage" => m.door \in PetDoors /\ m.index \in DOMAIN Slots[m.door]
              BY DEF Messages
            <6> QED
              BY <6>1, HouseholdAssumption, ElementOfSeq
          <5>2. m.kind = "report" => m.door # d
            BY <3>2 DEF Reports
          <5> QED
            BY <2>3, <5>1, <5>2, CloudAssumption, HouseholdAssumption DEF Says, Doors
        <4>2. own'[d] = own[d]
          <5>1. m.kind = "report" => m.door # d
            BY <3>2 DEF Reports
          <5> QED
            BY <1>1, <2>3, <5>1 DEF Says, world
        <4>3. ReportsNow(d)' = ReportsNow(d)
          BY <1>0, <4>2
        <4>4. /\ d \notin missed /\ (Silent(inbox', Reports(d)) <=> Silent(inbox, Reports(d)))
              /\ LastWord(inbox, Reports(d), ReportsNow(d)) => LastWord(inbox', Reports(d), ReportsNow(d))
          BY <1>1, <3>2, <4>1, OtherSaid
        <4> QED
          BY <1>1, <1>2, <2>1, <4>2, <4>3, <4>4
      <3> QED
        BY <3>1, <3>2
    <2> QED
      BY <1>4, <2>2, <2>3, EnvironmentSays
  <1>5. CASE Decode
    <2> DEFINE m == Head(inbox)
    <2>1. /\ m \in Messages /\ ~Raises(m) /\ inbox # <<>> /\ inbox' = Tail(inbox) /\ db' = Stored(m)
          /\ pending = {} /\ pending' = {Publication(m)} /\ UNCHANGED <<up, served, shown, own>>
      BY <1>5 DEF Decode, Types, ServiceTypes, world
    <2>2. d \notin missed /\ ReportsNow(d)' = ReportsNow(d) /\ ~(m.kind = "times" /\ m.door \in served)
      BY <1>0, <1>5, <2>1 DEF Decode, Overwritten
    <2>3. /\ LastWord(inbox', Reports(d), ReportsNow(d))
          /\ Silent(inbox', Reports(d)) /\ m \in Reports(d) => m \in ReportsNow(d)
          /\ Silent(inbox', Reports(d)) /\ m \notin Reports(d) => Silent(inbox, Reports(d))
      BY <1>1, <2>1, <2>2, OldestTaken
    <2> HIDE DEF m
    <2>4. ASSUME Silent(inbox', Reports(d)) PROVE CurfewIsTold(d)'
      <3>1. m \in Reports(d) => m.curfew = own[d]
        BY <2>3, <2>4 DEF ReportsNow
      <3>2. m \notin Reports(d) => CurfewIsTold(d)
        BY <1>1, <2>2, <2>3, <2>4
      <3>3. d \in DOMAIN db'.doors => db'.doors[d] = CurfewRow(own[d])
        <4>1. /\ DOMAIN db'.doors = DOMAIN db.doors
              /\ d \in DOMAIN db.doors =>
                   db'.doors[d] = IF m \in Reports(d) THEN CurfewRow(m.curfew) ELSE db.doors[d]
          BY <1>1, <2>1, <2>2, CurfewStored
        <4> QED
          BY <3>1, <3>2, <4>1 DEF CurfewIsTold
      <3> DEFINE p == Publication(m)
      <3>4. /\ p.to = "curfew" /\ p.door = d => m \in Reports(d) /\ p.value = m.curfew
            /\ d \in served =>
                  Published(shown, p).curfew[d] =
                      IF m \in Reports(d) THEN CurfewRow(m.curfew) ELSE shown.curfew[d]
        BY <2>1, CurfewPublished
      <3> HIDE DEF p
      <3>5. pending' = {p}
        BY <2>1 DEF p
      <3> QED
        BY <2>1, <3>1, <3>2, <3>3, <3>4, <3>5 DEF CurfewIsTold
    <2> QED
      BY <2>2, <2>3, <2>4
  <1>6. CASE Return
    <2>1. PICK p \in pending : shown' = Published(shown, p) /\ db' = StoredAgain(p)
      BY <1>6 DEF Return
    <2>2. /\ UNCHANGED <<up, served, inbox, missed, own>> /\ pending' = {}
          /\ ReportsNow(d)' = ReportsNow(d)
      BY <1>0, <1>6 DEF Return, world
    <2>3. /\ DOMAIN db'.doors = DOMAIN db.doors
          /\ d \in DOMAIN db.doors =>
                db'.doors[d] = IF p.to = "curfew" /\ p.door = d
                               THEN [db.doors[d] EXCEPT !.enabled = p.value.enabled] ELSE db.doors[d]
      BY <1>1, <2>1, CurfewStoredAgain
    <2>4. ASSUME CurfewIsTold(d) PROVE CurfewIsTold(d)'
      <3>1. d \in DOMAIN db.doors => db'.doors[d] = db.doors[d]
        <4>1. CASE p.to = "curfew" /\ p.door = d
          <5>1. p.value = own[d]
            BY <2>4, <4>1 DEF CurfewIsTold
          <5> QED
            BY <2>3, <2>4, <4>1, <5>1 DEF CurfewIsTold, CurfewRow
        <4> QED
          BY <2>3, <4>1
      <3> QED
        BY <2>1, <2>2, <2>3, <2>4, <3>1 DEF CurfewIsTold
    <2> QED
      BY <1>1, <2>2, <2>4
  <1>7. CASE Die \/ Crash
    <2>1. /\ Lost \subseteq missed' /\ d \notin missed /\ own'[d] = own[d]
          /\ inbox' = <<>> /\ up' = FALSE /\ pending' = {}
      BY <1>7 DEF Die, Crash, Down, world
    <2>2. Silent(inbox, Reports(d))
      <3>1. ASSUME NEW i \in 1 .. Len(inbox), inbox[i] \in Reports(d) PROVE FALSE
        <4>1. inbox[i] \in ToSet(inbox) /\ inbox[i].kind = "report" /\ inbox[i].door = d
          BY <1>1, <3>1 DEF ToSet, Reports
        <4>2. d \in Lost
          BY <4>1 DEF Lost
        <4> QED
          BY <2>1, <4>2
      <3> QED
        BY <3>1 DEF Silent
    <2>3. db' = db
      <3>1. CASE Crash
        BY <3>1 DEF Crash
      <3>2. CASE Die
        BY <3>2 DEF Die, Overwritten, Stored
      <3> QED
        BY <1>7, <3>1, <3>2
    <2>4. CurfewIsTold(d)'
      BY <1>1, <2>1, <2>2, <2>3 DEF CurfewIsTold
    <2> QED
      BY <2>1, <2>4 DEF LastWord, Silent
  <1>8. CASE Start
    <2>1. /\ db' = db /\ pending' = {} /\ inbox' = <<>> /\ inbox = <<>>
          /\ (d \in served' => Loads(d) /\ shown'.curfew[d] = db.doors[d])
      BY <1>8, StartShows DEF Start, Types, ServiceTypes, Doors
    <2>2. d \notin missed /\ own'[d] = own[d]
      BY <1>8 DEF Start, world
    <2>3. CurfewIsTold(d)
      BY <1>1, <2>1, <2>2 DEF Silent
    <2>4. CurfewIsTold(d)'
      BY <2>1, <2>2, <2>3, LoadsNeeds DEF CurfewIsTold, Doors
    <2> QED
      BY <2>1, <2>4 DEF LastWord, Silent
  <1>9. CASE StartFails
    <2>1. UNCHANGED <<db, up, pending, inbox, missed, own>> /\ ~up /\ ReportsNow(d)' = ReportsNow(d)
      BY <1>0, <1>9 DEF StartFails, buildVars, world
    <2>2. CurfewIsTold(d) => CurfewIsTold(d)'
      BY <2>1 DEF CurfewIsTold
    <2> QED
      BY <1>1, <2>1, <2>2
  <1>10. CASE Build
    BY <1>10 DEF Build, Subjects
  <1>11. CASE BuildStops
    BY <1>0, <1>1, <1>2, <1>11 DEF BuildStops, BuildEnds, serviceVars, world
  <1> QED
    BY <1>3, <1>4, <1>5, <1>6, <1>7, <1>8, <1>9, <1>10, <1>11 DEF Next

\* A pet door's curfew is in the table and in Home Assistant as the door has it, for any
\* house, after each change of it that the service could hear of.
THEOREM CurfewIsShownAsItIs == Spec => []CurfewTells
  <1>1. Init => CurfewTold
    BY DEF Init, CurfewTold, Subjects
  <1>2. Inv /\ CurfewTold /\ [Next]_houseVars => CurfewTold'
    BY CurfewToldStep DEF Inv
  <1>3. CurfewTold => CurfewTells
    <2> SUFFICES ASSUME CurfewTold, NEW d \in PetDoors, AtRest, d \notin missed, d \in served, d \in DOMAIN db.doors
                 PROVE  db.doors[d] = CurfewRow(own[d]) /\ shown.curfew[d] = CurfewRow(own[d])
      BY DEF CurfewTells, CurfewRow
    <2>1. Silent(inbox, Reports(d))
      BY DEF AtRest, Silent
    <2> QED
      BY <2>1 DEF CurfewTold, CurfewIsTold, AtRest
  <1> QED
    BY <1>1, <1>2, <1>3, SpecInv, PTL DEF Spec

-----------------------------------------------------------------------------
(* The pets *)

\* Where a document has a tag under an index of a pet door, it has the one that the door
\* has learnt there; and a door learns a tag once.
SlotsAgree ==
    \A d \in PetDoors :
        /\ \A i, j \in DOMAIN Slots[d] : Slots[d][i] = Slots[d][j] => i = j
        /\ \A c \in Clouds : \A i \in DOMAIN Slots[d] \cap DOMAIN c.tags[d] : c.tags[d][i] = Slots[d][i]

\* Then so have the tables, and the statements that are left.
IsRightTag(key, row) == \A d \in PetDoors : \A i \in DOMAIN Slots[d] : key = <<d, i>> => row = Slots[d][i]

RightStatements == {s \in Statements : s.table = "tagmap" => IsRightTag(s.key, s.row)}

TagsRight ==
    /\ todo \in Seq(Seq(RightStatements) \ {<<>>})
    /\ \A key \in DOMAIN db.tagmap : IsRightTag(key, db.tagmap[key])

LEMMA ScriptIsRight ==
    ASSUME SlotsAgree, NEW c \in Clouds
    PROVE  /\ Script(c) \in Seq(Seq(RightStatements) \ {<<>>})
           /\ \A m \in Devices : \A b \in DOMAIN c.tags[m] : IsRightTag(<<m, b>>, c.tags[m][b])
  <1>1. \A m \in Devices : \A b \in DOMAIN c.tags[m] : IsRightTag(<<m, b>>, c.tags[m][b])
    BY DEF SlotsAgree, IsRightTag
  <1>2. ASSUME NEW p \in Places(c), At(c, p) \in Statements PROVE At(c, p) \in RightStatements
    <2> DEFINE s == At(c, p)
    <2> SUFFICES ASSUME s.table = "tagmap" PROVE IsRightTag(s.key, s.row)
      BY <1>2 DEF RightStatements
    <2>1. \E m \in ToSet(c.devices) : \E b \in 1 .. Len(c.tags[m]) : s = Into("tagmap", <<m, b>>, c.tags[m][b])
      BY Written DEF Into
    <2>2. PICK m \in ToSet(c.devices) : \E b \in 1 .. Len(c.tags[m]) : s = Into("tagmap", <<m, b>>, c.tags[m][b])
      BY <2>1
    <2>3. PICK b \in 1 .. Len(c.tags[m]) : s = Into("tagmap", <<m, b>>, c.tags[m][b])
      BY <2>2
    <2>4. m \in Devices /\ c.tags[m] \in Seq(Pets)
      <3>1. c.devices \in Seq(Devices)
        BY CloudIsTyped
      <3>2. m \in Devices
        BY <3>1, ElementOfSeq DEF ToSet
      <3> QED
        BY <3>2, CloudIsTyped
    <2>5. b \in DOMAIN c.tags[m]
      BY <2>4
    <2>6. s.key = <<m, b>> /\ s.row = c.tags[m][b]
      BY <2>3 DEF Into
    <2> QED
      BY <1>1, <2>4, <2>5, <2>6
  <1> DEFINE S == Script(c)
  <1>3. /\ Len(S) \in Nat
        /\ \A a \in 1 .. Len(S) :
              /\ S[a] \in Seq(Statements) /\ Len(S[a]) \in Nat /\ 1 <= Len(S[a])
              /\ \A b \in 1 .. Len(S[a]) :
                    <<a, b>> \in Places(c) /\ At(c, <<a, b>>) = S[a][b] /\ S[a][b] \in Statements
    BY PlacesTyped
  <1>4. S \in Seq(Seq(Statements) \ {<<>>})
    BY ScriptTyped DEF Scripts
  <1> HIDE DEF S
  <1>5. ASSUME NEW a \in 1 .. Len(S) PROVE S[a] \in Seq(RightStatements) \ {<<>>}
    <2>1. \A b \in 1 .. Len(S[a]) : S[a][b] \in RightStatements
      BY <1>2, <1>3
    <2>2. S[a] \in Seq(Statements) /\ Len(S[a]) \in Nat /\ 1 <= Len(S[a])
      BY <1>3
    <2> DEFINE g == S[a]
    <2> HIDE DEF g
    <2>3. g \in Seq(RightStatements) /\ g # <<>>
      BY <2>1, <2>2 DEF g
    <2> QED
      BY <2>3 DEF g
  <1>6. S \in Seq(Seq(RightStatements) \ {<<>>})
    <2> DEFINE G == Seq(RightStatements) \ {<<>>}
               H == Seq(Statements) \ {<<>>}
    <2>1. S \in Seq(H) /\ \A a \in 1 .. Len(S) : S[a] \in G
      BY <1>4, <1>5
    <2> HIDE DEF G, H
    <2>2. S \in Seq(G)
      BY <2>1
    <2> QED
      BY <2>2 DEF G
  <1> QED
    BY <1>1, <1>6 DEF S

\* What the service writes to is neither tagmap nor, but for a passage, petstate.
LEMMA OthersKept ==
    ASSUME IsStore(db), NEW m \in Messages, NEW p \in Publications
    PROVE  /\ Stored(m).tagmap = db.tagmap /\ StoredAgain(p).tagmap = db.tagmap
           /\ StoredAgain(p).petstate = db.petstate
           /\ Stored(m).petstate =
                  IF m.kind = "passage"
                  THEN [k \in DOMAIN db.petstate |->
                           IF k[2] = m.door /\ k[1] \in Named(m.door, m.index) THEN Stay(m.dir)
                           ELSE db.petstate[k]]
                  ELSE db.petstate
  <1>1. db = [devices |-> db.devices, hubs |-> db.hubs, doors |-> db.doors, feeders |-> db.feeders,
              counters |-> db.counters, tagmap |-> db.tagmap, pets |-> db.pets, petstate |-> db.petstate]
    BY DEF IsStore, IsTables
  <1>2. ASSUME NEW f, NEW v PROVE StoreHub(f, v).tagmap = db.tagmap /\ StoreHub(f, v).petstate = db.petstate
    <2> DEFINE hubs == [db.hubs EXCEPT ![Hub] = [db.hubs[Hub] EXCEPT ![f] = v]]
    <2>1. StoreHub(f, v) = [db EXCEPT !.hubs = hubs] \/ StoreHub(f, v) = db
      BY DEF StoreHub
    <2> HIDE DEF hubs
    <2> QED
      BY <1>1, <2>1
  <1>3. ASSUME NEW doors
        PROVE  LET u == [db EXCEPT !.doors = doors] IN u.tagmap = db.tagmap /\ u.petstate = db.petstate
    BY <1>1
  <1>4. /\ StoreReport(m).tagmap = db.tagmap /\ StoreReport(m).petstate = db.petstate
        /\ StoreTimes(m).tagmap = db.tagmap /\ StoreTimes(m).petstate = db.petstate
        /\ StoredAgain(p).tagmap = db.tagmap /\ StoredAgain(p).petstate = db.petstate
    BY <1>3 DEF StoreReport, StoreTimes, StoredAgain
  <1>5. /\ StorePassage(m).tagmap = db.tagmap
        /\ StorePassage(m).petstate =
               [k \in DOMAIN db.petstate |->
                   IF k[2] = m.door /\ k[1] \in Named(m.door, m.index) THEN Stay(m.dir) ELSE db.petstate[k]]
    <2> DEFINE rows == [k \in DOMAIN db.petstate |->
                           IF k[2] = m.door /\ k[1] \in Named(m.door, m.index) THEN Stay(m.dir) ELSE db.petstate[k]]
    <2>1. StorePassage(m) = [db EXCEPT !.petstate = rows]
      BY DEF StorePassage
    <2> HIDE DEF rows
    <2>2. StorePassage(m).tagmap = db.tagmap /\ StorePassage(m).petstate = rows
      BY <1>1, <2>1
    <2> QED
      BY <2>2 DEF rows
  <1>6. CASE m.kind = "passage"
    BY <1>4, <1>5, <1>6 DEF Stored
  <1>7. CASE m.kind # "passage"
    <2>1. Stored(m).tagmap = db.tagmap /\ Stored(m).petstate = db.petstate
      BY <1>2, <1>4, <1>7 DEF Stored
    <2> QED
      BY <1>4, <1>7, <2>1
  <1> QED
    BY <1>6, <1>7

LEMMA RestIsRight ==
    ASSUME NEW S, todo \in Seq(Seq(S) \ {<<>>}), todo # <<>>
    PROVE  Statement \in S /\ Rest \in Seq(Seq(S) \ {<<>>})
  <1> DEFINE Some == Seq(S) \ {<<>>}
  <1>1. todo \in Seq(Some) /\ todo # <<>>
    OBVIOUS
  <1> HIDE DEF Some
  <1>2. Head(todo) \in Some /\ Tail(todo) \in Seq(Some)
    BY <1>1
  <1>3. Statement \in S /\ (Len(Head(todo)) > 1 => Tail(Head(todo)) \in Some)
    <2>1. PICK s \in Seq(S) : s = Head(todo) /\ s # <<>>
      BY <1>2 DEF Some
    <2>2. Head(s) \in S /\ Tail(s) \in Seq(S) /\ Len(Tail(s)) = Len(s) - 1
      BY <2>1, HeadTailProperties
    <2>3. Len(s) > 1 => Tail(s) # <<>>
      BY <2>2, EmptySeq
    <2> QED
      BY <2>1, <2>2, <2>3 DEF Statement, Some
  <1>4. Rest \in Seq(Some)
    <2>1. CASE Len(Head(todo)) > 1
      <3> DEFINE first == <<Tail(Head(todo))>>
      <3>1. first \in Seq(Some)
        BY <1>3, <2>1
      <3>2. first \o Tail(todo) \in Seq(Some)
        BY <1>2, <3>1, ConcatProperties
      <3> QED
        BY <2>1, <3>2 DEF Rest
    <2>2. CASE ~(Len(Head(todo)) > 1)
      BY <1>2, <2>2 DEF Rest
    <2> QED
      BY <2>1, <2>2
  <1> QED
    BY <1>3, <1>4 DEF Some

\* Only a build writes to tagmap.
LEMMA TagsKept ==
    ASSUME Types, [Next]_houseVars, ~Build, ~BuildStops
    PROVE  todo' = todo /\ db'.tagmap = db.tagmap
  <1> DEFINE m == Head(inbox)
  <1>0. IsStore(db) /\ todo' = todo
    BY ServiceKeepsKeys DEF Types, BuildTypes
  <1>p. PICK nobody \in Publications : nobody = [to |-> "nobody"]
    BY DEF Publications
  <1>1. CASE Decode
    <2>1. m \in Messages /\ db' = Stored(m)
      BY <1>1 DEF Decode, Types, ServiceTypes
    <2> HIDE DEF m
    <2> QED
      BY <1>0, <1>p, <2>1, OthersKept
  <1>2. CASE Return
    <2>1. PICK q \in pending : db' = StoredAgain(q)
      BY <1>2 DEF Return
    <2>2. q \in Publications
      BY DEF Types, ServiceTypes
    <2>3. PICK w \in Messages : w = [kind |-> "online", on |-> TRUE]
      BY DEF Messages
    <2> QED
      BY <1>0, <2>1, <2>2, <2>3, OthersKept
  <1>3. CASE Die
    <2>1. m \in Messages /\ (db' = Stored(m) \/ db' = db)
      BY <1>3 DEF Die, Types, ServiceTypes
    <2> HIDE DEF m
    <2> QED
      BY <1>0, <1>p, <2>1, OthersKept
  <1>4. CASE Environment \/ Crash \/ Start \/ StartFails \/ UNCHANGED houseVars
    <2>1. Environment => UNCHANGED buildVars
      BY EnvironmentSays
    <2>2. Crash => db' = db
      BY DEF Crash
    <2>3. Start \/ StartFails \/ UNCHANGED houseVars => UNCHANGED buildVars
      BY DEF Start, StartFails, houseVars
    <2> QED
      BY <1>0, <1>4, <2>1, <2>2, <2>3 DEF buildVars
  <1> QED
    BY <1>1, <1>2, <1>3, <1>4 DEF Next

LEMMA TagsRightStep ==
    ASSUME SlotsAgree, Types, TagsRight, [Next]_houseVars
    PROVE  TagsRight'
  <1> DEFINE Scr == Seq(Seq(RightStatements) \ {<<>>})
  <1>1. IsStore(db) /\ todo \in Scr /\ \A key \in DOMAIN db.tagmap : IsRightTag(key, db.tagmap[key])
    BY DEF Types, BuildTypes, TagsRight
  <1>2. <<>> \in Scr
    BY EmptySeq
  <1>3. CASE ~Build /\ ~BuildStops
    <2>1. todo' = todo /\ db'.tagmap = db.tagmap
      BY <1>3, TagsKept
    <2> QED
      BY <1>1, <2>1 DEF TagsRight
  <1>4. CASE BuildStops
    BY <1>1, <1>2, <1>4 DEF BuildStops, BuildEnds, TagsRight
  <1>5. ASSUME NEW c \in Clouds, DropAndCreate(c) PROVE TagsRight'
    <2>1. Script(c) \in Scr
      BY ScriptIsRight
    <2>2. (todo' = Script(c) \/ todo' = <<>>) /\ db' = Empty
      BY <1>5 DEF DropAndCreate
    <2>3. DOMAIN db'.tagmap = {}
      BY <2>2 DEF Empty, NoRows
    <2> QED
      BY <1>2, <2>1, <2>2, <2>3 DEF TagsRight
  <1>6. CASE InsertRow
    <2>1. todo # <<>> /\ Statement.table # "raise" /\ todo' = Rest /\ (db' = Insert(db, Statement) \/ db' = db)
      BY <1>6 DEF InsertRow
    <2> DEFINE s == Statement
    <2>2. s \in RightStatements /\ Rest \in Scr
      BY <1>1, <2>1, RestIsRight
    <2> HIDE DEF s, Scr
    <2>3. s \in Statements /\ (s.table = "tagmap" => IsRightTag(s.key, s.row))
      BY <2>2 DEF RightStatements
    <2>4. db' = Insert(db, s) =>
              db'.tagmap = IF s.table = "tagmap" THEN Put(db.tagmap, s.key, s.row) ELSE db.tagmap
      BY <1>1, <2>1, <2>3, InsertParts DEF s
    <2>5. ASSUME NEW key \in DOMAIN db'.tagmap PROVE IsRightTag(key, db'.tagmap[key])
      <3>1. CASE db' = Insert(db, s) /\ s.table = "tagmap"
        <4>1. key \in DOMAIN db.tagmap \cup {s.key}
              /\ db'.tagmap[key] = IF key = s.key THEN s.row ELSE db.tagmap[key]
          <5>1. db'.tagmap = Put(db.tagmap, s.key, s.row)
            BY <2>4, <3>1
          <5> QED
            BY <5>1 DEF Put
        <4> QED
          BY <1>1, <2>3, <3>1, <4>1
      <3>2. CASE ~(db' = Insert(db, s) /\ s.table = "tagmap")
        <4>1. db'.tagmap = db.tagmap
          BY <2>1, <2>4, <3>2 DEF s
        <4> QED
          BY <1>1, <4>1
      <3> QED
        BY <3>1, <3>2
    <2> QED
      BY <2>1, <2>2, <2>5 DEF TagsRight, Scr
  <1> QED
    BY <1>3, <1>4, <1>5, <1>6 DEF Build

LEMMA TagsRightInit ==
    ASSUME SlotsAgree, Init
    PROVE  TagsRight
  <1>1. todo = <<>> /\ source \in Clouds
    BY DEF Init, BuildInit
  <1>2. PICK rows, s, gone : db = Supplied(source, rows, s, gone)
    BY DEF Init
  <1>3. db.tagmap = [k \in TagKeys(source) |-> source.tags[k[1]][k[2]]]
    <2> DEFINE image == Image(source)
               petstate == [k \in rows |-> s]
    <2>1. db = [image EXCEPT !.petstate = petstate, !.counters = image.counters \ gone]
      BY <1>2 DEF Supplied
    <2> HIDE DEF petstate
    <2>2. db.tagmap = image.tagmap
      BY <2>1 DEF Image
    <2> QED
      BY <2>2 DEF Image, TagKeys
  <1>4. ASSUME NEW key \in TagKeys(source) PROVE IsRightTag(key, source.tags[key[1]][key[2]])
    <2>1. PICK m \in ToSet(source.devices) : key \in {m} \X DOMAIN source.tags[m]
      BY DEF TagKeys
    <2>2. m \in Devices
      <3>1. source.devices \in Seq(Devices)
        BY <1>1, CloudIsTyped
      <3> QED
        BY <3>1, ElementOfSeq DEF ToSet
    <2>3. PICK b \in DOMAIN source.tags[m] : key = <<m, b>>
      BY <2>1
    <2> QED
      BY <1>1, <2>2, <2>3, ScriptIsRight
  <1>5. <<>> \in Seq(Seq(RightStatements) \ {<<>>})
    BY EmptySeq
  <1> QED
    BY <1>1, <1>3, <1>4, <1>5 DEF TagsRight

PetsNow(p) == {m \in Sightings(p) : m.kind = "passage" /\ m.door = via[p] /\ m.dir \in Directions(side[p])}

\* A passage names the pet that went through, or none.
LEMMA NamedIsSeen ==
    ASSUME TagsRight, NEW m \in Messages, m.kind = "passage", NEW p \in Named(m.door, m.index)
    PROVE  m \in Sightings(p)
  <1>1. m.door \in PetDoors /\ m.index \in DOMAIN Slots[m.door]
    BY DEF Messages
  <1>2. <<m.door, m.index>> \in DOMAIN db.tagmap /\ db.tagmap[<<m.door, m.index>>] = p
    BY DEF Named
  <1>3. Slots[m.door][m.index] = p
    BY <1>1, <1>2 DEF TagsRight, IsRightTag
  <1> QED
    BY <1>3 DEF Sightings

\* What decoding stores of a pet.
LEMMA PetStored ==
    ASSUME IsStore(db), TagsRight, NEW m \in Messages, NEW p, NEW d
    PROVE  /\ DOMAIN Stored(m).petstate = DOMAIN db.petstate /\ Stored(m).tagmap = db.tagmap
           /\ Stored(m).devices = db.devices /\ Stored(m).pets = db.pets
           /\ <<p, d>> \in DOMAIN db.petstate =>
                /\ m \notin Sightings(p) => Stored(m).petstate[<<p, d>>] = db.petstate[<<p, d>>]
                /\ m.kind = "passage" /\ m.door = d /\ p \in Named(d, m.index) =>
                       Stored(m).petstate[<<p, d>>] = Stay(m.dir)
  <1>1. Stored(m).devices = db.devices /\ Stored(m).pets = db.pets
    BY StoredKept DEF SameKeys
  <1>2. PICK q \in Publications : q = [to |-> "nobody"]
    BY DEF Publications
  <1>3. /\ Stored(m).tagmap = db.tagmap
        /\ Stored(m).petstate =
               IF m.kind = "passage"
               THEN [k \in DOMAIN db.petstate |->
                        IF k[2] = m.door /\ k[1] \in Named(m.door, m.index) THEN Stay(m.dir)
                        ELSE db.petstate[k]]
               ELSE db.petstate
    BY <1>2, OthersKept
  <1>4. DOMAIN Stored(m).petstate = DOMAIN db.petstate
    BY <1>3
  <1>5. ASSUME <<p, d>> \in DOMAIN db.petstate, m \notin Sightings(p)
        PROVE  Stored(m).petstate[<<p, d>>] = db.petstate[<<p, d>>]
    <2>1. m.kind = "passage" => p \notin Named(m.door, m.index)
      BY <1>5, NamedIsSeen
    <2> QED
      BY <1>3, <1>5, <2>1
  <1>6. ASSUME <<p, d>> \in DOMAIN db.petstate, m.kind = "passage", m.door = d, p \in Named(d, m.index)
        PROVE  Stored(m).petstate[<<p, d>>] = Stay(m.dir)
    BY <1>3, <1>6
  <1> QED
    BY <1>1, <1>3, <1>4, <1>5, <1>6

\* What its handler publishes of it.
LEMMA PetPublished ==
    ASSUME Types, TagsRight, NEW m \in Messages, ~Raises(m), NEW p \in Pets
    PROVE  /\ m \notin Sightings(p) => Published(shown, Publication(m)).pet[p] = shown.pet[p]
           /\ m.kind = "passage" /\ m.door \in served /\ p \in Named(m.door, m.index) =>
                  Published(shown, Publication(m)).pet[p] = m.dir
  <1> DEFINE q == Publication(m)
  <1>1. q \in Publications /\ IsTopics(shown)
    BY PublicationTyped DEF Types, BuildTypes, ServiceTypes
  <1>2. /\ q.to # "pets" => Published(shown, q).pet = shown.pet
        /\ q.to = "pets" => Published(shown, q).pet[p] = IF p \in q.pets THEN q.value ELSE shown.pet[p]
    BY <1>1, PublishedParts
  <1>3. CASE m.kind = "passage" /\ m.door \in served
    <2>1. q.to = "pets" /\ q.pets = Named(m.door, m.index) /\ q.value = m.dir
      BY <1>3 DEF Publication
    <2> HIDE DEF q
    <2>2. m \notin Sightings(p) => p \notin Named(m.door, m.index)
      BY <1>3, NamedIsSeen
    <2>3. Published(shown, q).pet[p] = IF p \in Named(m.door, m.index) THEN m.dir ELSE shown.pet[p]
      BY <1>2, <2>1
    <2> QED
      BY <2>2, <2>3 DEF q
  <1>4. CASE m.kind = "movement" /\ m.door \in served
    <2>1. q.to = "pets" /\ q.pets = {m.pet} \cap db.pets
      BY <1>4 DEF Publication
    <2> HIDE DEF q
    <2>2. m \notin Sightings(p) => p \notin q.pets
      BY <1>4, <2>1 DEF Sightings
    <2>3. m \notin Sightings(p) => Published(shown, q).pet[p] = shown.pet[p]
      BY <1>2, <2>1, <2>2
    <2> QED
      BY <1>4, <2>3 DEF q
  <1>5. CASE ~(m.kind \in {"passage", "movement"} /\ m.door \in served)
    <2>1. q.to # "pets"
      BY <1>5 DEF Publication
    <2> HIDE DEF q
    <2>2. Published(shown, q).pet[p] = shown.pet[p]
      BY <1>2, <2>1
    <2> QED
      BY <1>5, <2>2 DEF q
  <1> QED
    BY <1>3, <1>4, <1>5

\* A message of which another pet is the subject, or none.
LEMMA OtherPetSaid ==
    ASSUME Types, NEW m \in Messages, NEW subjects, Says(m, subjects), NEW p \in Pets, m \notin Sightings(p)
    PROVE  p \notin subjects /\ via'[p] = via[p] /\ side'[p] = side[p]
  <1>0. via \in [Pets -> Doors \cup {NoMac}] /\ side \in [Pets -> {"in", "out"}]
    BY DEF Types, HouseTypes
  <1>1. CASE m.kind = "passage"
    <2>1. Slots[m.door][m.index] # p
      BY <1>1 DEF Sightings
    <2> QED
      BY <1>0, <1>1, <2>1 DEF Says
  <1>2. CASE m.kind = "movement"
    <2>1. m.pet # p
      BY <1>2 DEF Sightings
    <2> QED
      BY <1>0, <1>2, <2>1 DEF Says
  <1>3. CASE m.kind = "report"
    <2>1. m.door \in Doors
      BY <1>3 DEF Messages, Doors
    <2> QED
      BY <1>3, <2>1, HouseholdAssumption DEF Says
  <1>4. CASE m.kind \notin {"passage", "movement", "report"}
    BY <1>4, HouseholdAssumption DEF Says, world
  <1> QED
    BY <1>1, <1>2, <1>3, <1>4

LEMMA PetToldStep ==
    ASSUME SlotsAgree, Types, TagsRight, PetTold, [Next]_houseVars
    PROVE  PetTold'
  <1> SUFFICES ASSUME NEW p \in Pets, p \notin missed', via'[p] \in PetDoors
               PROVE  /\ LastWord(inbox', Sightings(p), PetsNow(p)')
                      /\ Silent(inbox', Sightings(p)) => PetIsTold(p, via[p])'
    BY DEF PetTold, PetsNow, Sightings
  <1>0. /\ inbox \in Seq(Messages) /\ PetsNow(p) \in SUBSET Sightings(p)
        /\ \A m \in Sightings(p) : m.kind # "times"
        /\ p \notin missed /\ via[p] \in PetDoors =>
              LastWord(inbox, Sightings(p), PetsNow(p))
              /\ (Silent(inbox, Sightings(p)) => PetIsTold(p, via[p]))
        /\ IsStore(db) /\ IsTopics(shown) /\ side[p] \in {"in", "out"}
        /\ via \in [Pets -> Doors \cup {NoMac}] /\ side \in [Pets -> {"in", "out"}]
    BY DEF Types, BuildTypes, ServiceTypes, HouseTypes, PetTold, Sightings, PetsNow
  <1>1. ASSUME side'[p] = side[p], via'[p] = via[p] PROVE PetsNow(p)' = PetsNow(p)
    BY <1>1 DEF PetsNow, Sightings
  <1>2. ASSUME UNCHANGED <<db, up, served, pending, shown>>, side'[p] = side[p], via'[p] = via[p],
               PetIsTold(p, via[p])
        PROVE  PetIsTold(p, via[p])'
    BY <1>2 DEF PetIsTold, Named, DoorsOf
  <1>3. CASE UNCHANGED houseVars
    BY <1>0, <1>1, <1>2, <1>3 DEF houseVars, buildVars, serviceVars, world
  <1>4. CASE Environment
    <2>1. UNCHANGED <<db, up, served, pending, shown>>
      BY <1>4, EnvironmentSays DEF buildVars
    <2>2. CASE (inbox' = inbox \/ Repeats) /\ UNCHANGED <<world, missed>>
      <3>1. p \notin missed /\ via'[p] = via[p] /\ side'[p] = side[p] /\ PetsNow(p)' = PetsNow(p)
        BY <1>1, <2>2 DEF world
      <3>2. /\ LastWord(inbox', Sightings(p), PetsNow(p))
            /\ Silent(inbox', Sightings(p)) => Silent(inbox, Sightings(p))
        BY <1>0, <2>2, <3>1, Repeated
      <3> QED
        BY <1>0, <1>2, <2>1, <3>1, <3>2
    <2>3. ASSUME NEW m \in Messages, NEW subjects \in SUBSET Subjects, Says(m, subjects)
          PROVE  /\ LastWord(inbox', Sightings(p), PetsNow(p)')
                 /\ Silent(inbox', Sightings(p)) => PetIsTold(p, via[p])'
      <3>1. CASE m \in Sightings(p)
        <4>1. m.kind = "passage"
          <5>1. ASSUME m.kind = "movement" PROVE FALSE
            <6>1. m.pet = p /\ m.door \in CatFlaps
              BY <3>1, <5>1 DEF Sightings, Messages
            <6>2. via'[p] = m.door
              BY <1>0, <2>3, <5>1, <6>1 DEF Says
            <6> QED
              BY <6>1, <6>2, CloudAssumption
          <5> QED
            BY <3>1, <5>1 DEF Sightings
        <4>2. Slots[m.door][m.index] = p /\ m.dir \in DoorDirections
          BY <3>1, <4>1 DEF Sightings, Messages
        <4>3. /\ p \in subjects /\ Send(m, subjects) /\ via'[p] = m.door
              /\ side'[p] = IF m.dir \in Inwards THEN "in" ELSE "out"
          BY <1>0, <2>3, <4>1, <4>2 DEF Says
        <4>4. m \in PetsNow(p)'
          <5>1. m.dir \in Directions(side'[p])
            BY <4>2, <4>3 DEF Directions
          <5> QED
            BY <3>1, <4>1, <4>3, <5>1 DEF PetsNow, Sightings
        <4>5. LastWord(inbox', Sightings(p), PetsNow(p)') /\ ~Silent(inbox', Sightings(p))
          BY <1>0, <3>1, <4>3, <4>4, SubjectSaid
        <4> QED
          BY <4>5
      <3>2. CASE m \notin Sightings(p)
        <4>1. p \notin subjects /\ via'[p] = via[p] /\ side'[p] = side[p] /\ Send(m, subjects)
          BY <2>3, <3>2, OtherPetSaid DEF Says
        <4>2. PetsNow(p)' = PetsNow(p)
          BY <1>1, <4>1
        <4>3. /\ p \notin missed /\ (Silent(inbox', Sightings(p)) <=> Silent(inbox, Sightings(p)))
              /\ LastWord(inbox, Sightings(p), PetsNow(p)) => LastWord(inbox', Sightings(p), PetsNow(p))
          BY <1>0, <3>2, <4>1, OtherSaid
        <4> QED
          BY <1>0, <1>2, <2>1, <4>1, <4>2, <4>3
      <3> QED
        BY <3>1, <3>2
    <2> QED
      BY <1>4, <2>2, <2>3, EnvironmentSays
  <1>5. CASE Decode
    <2> DEFINE m == Head(inbox)
    <2>1. /\ m \in Messages /\ ~Raises(m) /\ inbox # <<>> /\ inbox' = Tail(inbox) /\ db' = Stored(m)
          /\ pending = {} /\ pending' = {Publication(m)} /\ UNCHANGED <<up, served, shown, side, via>>
      BY <1>5 DEF Decode, Types, ServiceTypes, world
    <2>2. p \notin missed /\ via[p] \in PetDoors /\ PetsNow(p)' = PetsNow(p)
      BY <1>1, <1>5, <2>1 DEF Decode
    <2>d. PICK d \in PetDoors : via[p] = d
      BY <2>2
    <2>3. /\ LastWord(inbox', Sightings(p), PetsNow(p))
          /\ Silent(inbox', Sightings(p)) /\ m \in Sightings(p) => m \in PetsNow(p)
          /\ Silent(inbox', Sightings(p)) /\ m \notin Sightings(p) => Silent(inbox, Sightings(p))
      BY <1>0, <2>1, <2>2, OldestTaken
    <2> HIDE DEF m
    <2>4. /\ DOMAIN db'.petstate = DOMAIN db.petstate /\ db'.tagmap = db.tagmap
          /\ db'.devices = db.devices /\ db'.pets = db.pets
          /\ <<p, d>> \in DOMAIN db.petstate =>
                /\ m \notin Sightings(p) => db'.petstate[<<p, d>>] = db.petstate[<<p, d>>]
                /\ m.kind = "passage" /\ m.door = d /\ p \in Named(d, m.index) =>
                       db'.petstate[<<p, d>>] = Stay(m.dir)
      BY <1>0, <2>1, PetStored
    <2> DEFINE q == Publication(m)
    <2>5. /\ m \notin Sightings(p) => Published(shown, q).pet[p] = shown.pet[p]
          /\ m.kind = "passage" /\ m.door \in served /\ p \in Named(m.door, m.index) =>
                 Published(shown, q).pet[p] = m.dir
      BY <2>1, PetPublished
    <2> HIDE DEF q
    <2>6. /\ \A i : Named(d, i)' = Named(d, i)
          /\ DoorsOf(db, p)' = DoorsOf(db, p) /\ via'[p] = d /\ pending' = {q}
      BY <2>1, <2>4, <2>d DEF Named, DoorsOf, q
    <2>7. ASSUME Silent(inbox', Sightings(p)), NEW i \in DOMAIN Slots[d], Slots[d][i] = p, p \in Named(d, i)
          PROVE  /\ <<p, d>> \in DOMAIN db.petstate =>
                       db'.petstate[<<p, d>>] = IF side[p] = "in" THEN "1" ELSE "0"
                 /\ up /\ d \in served /\ DoorsOf(db, p) = {d} =>
                       Published(shown, q).pet[p] \in Directions(side[p])
      <3>1. CASE m \in Sightings(p)
        <4>1. m.kind = "passage" /\ m.door = d /\ m.dir \in Directions(side[p]) /\ Slots[d][m.index] = p
          BY <2>3, <2>7, <2>d, <3>1 DEF PetsNow, Sightings
        <4>2. m.index \in DOMAIN Slots[d]
          BY <2>1, <4>1 DEF Messages
        <4>3. m.index = i
          BY <2>2, <2>7, <4>1, <4>2 DEF SlotsAgree
        <4>4. Stay(m.dir) = IF side[p] = "in" THEN "1" ELSE "0"
          BY <1>0, <4>1 DEF Directions, Stay
        <4> QED
          BY <2>4, <2>5, <2>7, <4>1, <4>3, <4>4
      <3>2. CASE m \notin Sightings(p)
        <4>1. PetIsTold(p, d)
          BY <1>0, <2>2, <2>3, <2>7, <2>d, <3>2
        <4> QED
          BY <2>1, <2>4, <2>5, <2>7, <3>2, <4>1 DEF PetIsTold
      <3> QED
        BY <3>1, <3>2
    <2>8. ASSUME Silent(inbox', Sightings(p)) PROVE PetIsTold(p, via[p])'
      <3> SUFFICES ASSUME NEW i \in DOMAIN Slots[d], Slots[d][i] = p, p \in Named(d, i)'
                   PROVE  /\ <<p, d>> \in DOMAIN db'.petstate =>
                                db'.petstate[<<p, d>>] = IF side'[p] = "in" THEN "1" ELSE "0"
                          /\ up' /\ d \in served' /\ DoorsOf(db, p)' = {d} =>
                                /\ pending' # {}
                                /\ \A r \in pending' : Published(shown', r).pet[p] \in Directions(side'[p])
        BY <2>6 DEF PetIsTold
      <3>1. p \in Named(d, i)
        BY <2>6
      <3>2. /\ <<p, d>> \in DOMAIN db.petstate =>
                     db'.petstate[<<p, d>>] = IF side[p] = "in" THEN "1" ELSE "0"
            /\ up /\ d \in served /\ DoorsOf(db, p) = {d} =>
                     Published(shown, q).pet[p] \in Directions(side[p])
        BY <2>7, <2>8, <3>1
      <3> QED
        BY <2>1, <2>4, <2>6, <3>2
    <2> QED
      BY <2>2, <2>3, <2>8
  <1>6. CASE Return
    <2>1. PICK q \in pending : shown' = Published(shown, q) /\ db' = StoredAgain(q)
      BY <1>6 DEF Return
    <2>2. q \in Publications
      BY DEF Types, ServiceTypes
    <2>3. /\ UNCHANGED <<up, served, inbox, missed, side, via>> /\ pending' = {}
          /\ PetsNow(p)' = PetsNow(p)
      BY <1>1, <1>6 DEF Return, world
    <2>4. /\ db'.petstate = db.petstate /\ db'.tagmap = db.tagmap
          /\ db'.devices = db.devices /\ db'.pets = db.pets
      <3>1. PICK m \in Messages : m = [kind |-> "online", on |-> TRUE]
        BY DEF Messages
      <3>2. StoredAgain(q).petstate = db.petstate /\ StoredAgain(q).tagmap = db.tagmap
        BY <1>0, <2>2, <3>1, OthersKept
      <3> QED
        BY <1>0, <2>1, <2>2, <3>2, StoredAgainKept DEF SameKeys
    <2>5. ASSUME PetIsTold(p, via[p]) PROVE PetIsTold(p, via[p])'
      BY <2>1, <2>3, <2>4, <2>5 DEF PetIsTold, Named, DoorsOf
    <2> QED
      BY <1>0, <2>3, <2>5
  <1>7. CASE Die \/ Crash
    <2>1. /\ Lost \subseteq missed' /\ p \notin missed /\ side'[p] = side[p] /\ via'[p] = via[p]
          /\ inbox' = <<>> /\ up' = FALSE /\ pending' = {} /\ PetsNow(p)' = PetsNow(p)
      BY <1>1, <1>7 DEF Die, Crash, Down, world
    <2>2. Silent(inbox, Sightings(p))
      <3>1. ASSUME NEW i \in 1 .. Len(inbox), inbox[i] \in PetsNow(p) PROVE FALSE
        <4>1. inbox[i] \in ToSet(inbox) /\ inbox[i].kind = "passage" /\ Slots[inbox[i].door][inbox[i].index] = p
          BY <1>0, <3>1 DEF ToSet, PetsNow, Sightings
        <4>2. p \in Lost
          BY <4>1 DEF Lost
        <4> QED
          BY <2>1, <4>2
      <3> QED
        BY <1>0, <2>1, <3>1 DEF LastWord
    <2>3. /\ db'.petstate = db.petstate /\ db'.tagmap = db.tagmap
          /\ db'.devices = db.devices /\ db'.pets = db.pets
      <3>1. CASE db' = db
        BY <3>1
      <3>2. CASE db' # db
        <4>1. Die /\ Head(inbox).kind = "times" /\ db' = Stored(Head(inbox)) /\ Head(inbox) \in Messages
          BY <1>7, <3>2 DEF Die, Crash, Types, ServiceTypes
        <4>2. PICK q \in Publications : q = [to |-> "nobody"]
          BY DEF Publications
        <4>3. db'.petstate = db.petstate /\ db'.tagmap = db.tagmap
          BY <1>0, <4>1, <4>2, OthersKept
        <4> QED
          BY <1>0, <4>1, <4>3, StoredKept DEF SameKeys
      <3> QED
        BY <3>1, <3>2
    <2>4. PetIsTold(p, via[p])'
      <3>1. PetIsTold(p, via[p])
        BY <1>0, <2>1, <2>2
      <3> QED
        BY <2>1, <2>3, <3>1 DEF PetIsTold, Named, DoorsOf
    <2> QED
      BY <2>1, <2>4 DEF LastWord, Silent
  <1>8. CASE Start
    <2>1. /\ db' = db /\ pending' = {} /\ inbox' = <<>> /\ inbox = <<>>
          /\ \A e \in Doors : p \in db.pets /\ DoorsOf(db, p) = {e} =>
                 shown'.pet[p] = AnimalState(db.petstate[<<p, e>>])
      BY <1>8, StartShows DEF Start, Types, ServiceTypes
    <2>2. p \notin missed /\ side'[p] = side[p] /\ via'[p] = via[p]
      BY <1>8 DEF Start, world
    <2>d. PICK d \in PetDoors : via[p] = d
      BY <2>2
    <2>3. PetIsTold(p, d)
      BY <1>0, <2>1, <2>2, <2>d DEF Silent
    <2>4. ASSUME NEW i \in DOMAIN Slots[d], Slots[d][i] = p, p \in Named(d, i), DoorsOf(db, p) = {d}
          PROVE  shown'.pet[p] \in Directions(side[p])
      <3>1. p \in db.pets /\ d \in Doors /\ <<p, d>> \in DOMAIN db.petstate
        BY <2>2, <2>4 DEF Named, DoorsOf, Doors
      <3>2. db.petstate[<<p, d>>] = IF side[p] = "in" THEN "1" ELSE "0"
        BY <2>3, <2>4, <3>1 DEF PetIsTold
      <3>3. shown'.pet[p] = AnimalState(db.petstate[<<p, d>>])
        BY <2>1, <2>4, <3>1
      <3> QED
        BY <1>0, <3>2, <3>3 DEF AnimalState, Directions, Inwards, DoorDirections
    <2>5. PetIsTold(p, via[p])'
      BY <2>1, <2>2, <2>d, <2>3, <2>4 DEF PetIsTold, Named, DoorsOf
    <2> QED
      BY <2>1, <2>5 DEF LastWord, Silent
  <1>9. CASE StartFails
    <2>1. UNCHANGED <<db, up, pending, inbox, missed, side, via>> /\ ~up /\ PetsNow(p)' = PetsNow(p)
      BY <1>1, <1>9 DEF StartFails, buildVars, world
    <2>2. PetIsTold(p, via[p]) => PetIsTold(p, via[p])'
      BY <2>1 DEF PetIsTold, Named, DoorsOf
    <2> QED
      BY <1>0, <2>1, <2>2
  <1>10. CASE Build
    BY <1>10 DEF Build, Subjects
  <1>11. CASE BuildStops
    BY <1>0, <1>1, <1>2, <1>11 DEF BuildStops, BuildEnds, serviceVars, world
  <1> QED
    BY <1>3, <1>4, <1>5, <1>6, <1>7, <1>8, <1>9, <1>10, <1>11 DEF Next

\* Home Assistant shows a pet on the side it is on, for any house whose documents have the
\* tags as the doors have learnt them, once all that was said of the pet has been handled.
THEOREM PetIsShownWhereItIs == ASSUME SlotsAgree PROVE Spec => []PetTells
  <1>1. Init => TagsRight /\ PetTold
    BY TagsRightInit DEF Init, PetTold, Subjects
  <1>2. Inv /\ TagsRight /\ PetTold /\ [Next]_houseVars => TagsRight' /\ PetTold'
    BY TagsRightStep, PetToldStep DEF Inv
  <1>3. PetTold => PetTells
    <2> SUFFICES ASSUME PetTold, NEW d \in PetDoors, NEW i \in DOMAIN Slots[d], NEW p, p = Slots[d][i],
                        AtRest, p \notin missed, via[p] = d, d \in served, p \in Named(d, i), DoorsOf(db, p) = {d}
                 PROVE  shown.pet[p] \in Directions(side[p])
      BY DEF PetTells, Directions
    <2>1. p \in Pets
      BY HouseholdAssumption, ElementOfSeq
    <2>2. Silent(inbox, Sightings(p))
      BY DEF AtRest, Silent
    <2>3. PetIsTold(p, d)
      BY <2>1, <2>2 DEF PetTold
    <2> QED
      BY <2>3 DEF PetIsTold, AtRest
  <1> QED
    BY <1>1, <1>2, <1>3, SpecInv, PTL DEF Spec
=============================================================================
