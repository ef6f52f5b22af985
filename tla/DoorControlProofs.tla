------------------------- MODULE DoorControlProofs -------------------------
(***************************************************************************)
(* Proofs about DoorControl, for any sets of doors and any bound: its type *)
(* invariant, that the newest report of a door is true, and that Home      *)
(* Assistant matches the database when the cat flap is the last device     *)
(* loaded; and about DoorUser, that a user without the bad habits then     *)
(* gets what was asked for.                                                *)
(***************************************************************************)
EXTENDS DoorUser, SequenceTheorems, WellFoundedInduction, TLAPS

\* What the startup loop's global devid must be for cat flaps to work.
FlapIsLast == CatFlaps \subseteq {DevId}

LEMMA LocksAreDoorLocks == \A d : LocksOf(d) \subseteq DoorLocks
  BY DEF LocksOf, DoorLocks, FlapLocks

\* A cat flap is never sent the curfew mode its lock does not have.
LEMMA LockCommandType ==
  ASSUME NEW d, NEW key \in Switches, NEW val \in OnOff, NEW lm,
         ~(d \in CatFlaps /\ key = "Curfew")
  PROVE  LockCommand(key, val, lm) \in LocksOf(d)
<1>1. CASE key = "Curfew"
  BY <1>1 DEF LockCommand, LocksOf, DoorLocks, FlapLocks
<1>2. CASE key # "Curfew"
  <2>1. LockCommand(key, val, lm) \in FlapLocks
    BY <1>2 DEF LockCommand, FlapLocks
  <2>2. QED
    BY <2>1 DEF LocksOf, DoorLocks
<1>3. QED
  BY <1>1, <1>2

LEMMA ViewType == \A lm \in DoorLocks : ViewOf(lm) \in Views
  BY DEF ViewOf, Views, KeepInOf, KeepOutOf, CurfewOf, Switch, OnOff

-----------------------------------------------------------------------------
(* Typed queues and lock tables keep their type under one step. *)

LEMMA TypedAppend ==
  ASSUME NEW q, TypedQueues(q), NEW d \in Doors, NEW x \in LocksOf(d) \cup {Dump}
  PROVE  TypedQueues([q EXCEPT ![d] = Append(@, x)])
<1> DEFINE p == [q EXCEPT ![d] = Append(@, x)]
<1>1. x \in DoorLocks \cup {Dump}
  BY LocksAreDoorLocks
<1>2. p \in [Doors -> Seq(DoorLocks \cup {Dump})]
  BY <1>1 DEF TypedQueues
<1>3. \A e \in Doors : p[e] \in Seq(LocksOf(e) \cup {Dump})
  BY DEF TypedQueues
<1>4. QED
  BY <1>2, <1>3 DEF TypedQueues

LEMMA TypedTail ==
  ASSUME NEW q, TypedQueues(q), NEW d \in Doors, q[d] # <<>>
  PROVE  TypedQueues([q EXCEPT ![d] = Tail(@)]) /\ Head(q[d]) \in LocksOf(d) \cup {Dump}
<1> DEFINE p == [q EXCEPT ![d] = Tail(@)]
<1>1. p \in [Doors -> Seq(DoorLocks \cup {Dump})]
  BY DEF TypedQueues
<1>2. \A e \in Doors : p[e] \in Seq(LocksOf(e) \cup {Dump})
  BY DEF TypedQueues
<1>3. Head(q[d]) \in LocksOf(d) \cup {Dump}
  <2>1. q[d] \in Seq(LocksOf(d) \cup {Dump})
    BY DEF TypedQueues
  <2>2. QED
    BY <2>1
<1>4. QED
  BY <1>1, <1>2, <1>3 DEF TypedQueues

LEMMA TypedAgain ==
  ASSUME NEW q, TypedQueues(q), NEW d \in Doors
  PROVE  TypedQueues([q EXCEPT ![d] = @ \o @])
<1> DEFINE p == [q EXCEPT ![d] = @ \o @]
<1>1. p \in [Doors -> Seq(DoorLocks \cup {Dump})]
  BY DEF TypedQueues
<1>2. \A e \in Doors : p[e] \in Seq(LocksOf(e) \cup {Dump})
  BY DEF TypedQueues
<1>3. QED
  BY <1>1, <1>2 DEF TypedQueues

LEMMA TypedEmpty == TypedQueues([d \in Doors |-> <<>>])
  BY DEF TypedQueues

\* What a message is, from its first frame to its last.
LEMMA MessageParts ==
  ASSUME NEW d \in Doors, NEW m \in Messages(d)
  PROVE  /\ m \in Seq(LocksOf(d)) /\ m \in Seq(DoorLocks) /\ m # <<>>
         /\ Len(m) \in Nat /\ Len(m) >= 1
         /\ Head(m) = m[1] /\ Head(m) \in LocksOf(d) /\ Last(m) = m[Len(m)] /\ Last(m) \in LocksOf(d)
         /\ Tail(m) \in Seq(LocksOf(d)) /\ Tail(m) \in Seq(DoorLocks)
         /\ IF Tail(m) = <<>> THEN Last(m) = Head(m) ELSE Last(Tail(m)) = Last(m)
         /\ d \notin CatFlaps => Tail(m) = <<>>
<1> DEFINE most == IF d \in CatFlaps THEN MaxFrames ELSE 1
<1>1. most \in Nat
  BY ConstantsAssumption
<1>2. PICK n \in 1 .. most : m \in [1 .. n -> LocksOf(d)]
  BY DEF Messages
<1>3. n \in Nat /\ n >= 1 /\ (d \notin CatFlaps => n = 1)
  BY <1>1, <1>2
<1> HIDE DEF most
<1>4. m \in Seq(LocksOf(d)) /\ Len(m) = n
  BY <1>2, <1>3
<1>5. m # <<>> /\ m \in Seq(DoorLocks)
  BY <1>3, <1>4, LocksAreDoorLocks
<1>6. /\ Head(m) = m[1] /\ Head(m) \in LocksOf(d) /\ Last(m) = m[Len(m)] /\ Last(m) \in LocksOf(d)
  BY <1>2, <1>3, <1>4, <1>5 DEF Last
<1>7. /\ Tail(m) \in Seq(LocksOf(d)) /\ Tail(m) \in Seq(DoorLocks) /\ Len(Tail(m)) = n - 1
      /\ \A i \in 1 .. n - 1 : Tail(m)[i] = m[i + 1]
  BY <1>3, <1>4, <1>5, HeadTailProperties
<1>8. Tail(m) = <<>> <=> n = 1
  BY <1>3, <1>7, EmptySeq
<1>9. IF Tail(m) = <<>> THEN Last(m) = Head(m) ELSE Last(Tail(m)) = Last(m)
  BY <1>3, <1>4, <1>6, <1>7, <1>8 DEF Last
<1>10. QED
  BY <1>3, <1>4, <1>5, <1>6, <1>7, <1>8, <1>9

LEMMA TypedReportsSet ==
  ASSUME NEW q, TypedReports(q), NEW d \in Doors, NEW s \in Seq(Messages(d))
  PROVE  TypedReports([q EXCEPT ![d] = s])
<1>1. \A m \in Messages(d) : m \in Seq(DoorLocks)
  BY MessageParts
<1>2. s \in Seq(Seq(DoorLocks))
  BY <1>1
<1>3. QED
  BY <1>2 DEF TypedReports

LEMMA TypedReportsEmpty == TypedReports([d \in Doors |-> <<>>])
  BY DEF TypedReports

LEMMA TypedSet ==
  ASSUME NEW f, TypedLocks(f), NEW d \in Doors, NEW x \in LocksOf(d)
  PROVE  TypedLocks([f EXCEPT ![d] = x])
  BY LocksAreDoorLocks DEF TypedLocks

-----------------------------------------------------------------------------
LEMMA InitTypeOK == Init => TypeOK
<1> SUFFICES ASSUME Init PROVE TypeOK
  OBVIOUS
<1>1. Blank \in Views
  BY DEF Blank, Views
<1>2. up \in BOOLEAN
  BY DEF Init
<1>7. sets \in Seq(SetMessages) /\ missed \subseteq Doors /\ setBack \subseteq CatFlaps
  BY DEF Init
<1>3. TypedLocks(db) /\ TypedLocks(lock)
  BY DEF Init, TypedLocks
<1>4. ha \in [Topics -> Views]
  BY <1>1 DEF Init
<1>5. TypedQueues(cmd) /\ TypedReports(reports)
  BY TypedEmpty, TypedReportsEmpty DEF Init
<1>6. PendingOK
  BY DEF Init, PendingOK
<1>8. QED
  BY <1>2, <1>3, <1>4, <1>5, <1>6, <1>7 DEF TypeOK

LEMMA NextTypeOK == TypeOK /\ [Next]_vars => TypeOK'
<1> SUFFICES ASSUME TypeOK, [Next]_vars PROVE TypeOK'
  OBVIOUS
<1>1. ASSUME NEW d \in Doors, NEW key \in Switches, NEW val \in OnOff, HASet(d, key, val)
      PROVE  TypeOK'
  <2>1. sets' \in Seq(SetMessages)
    BY <1>1 DEF TypeOK, HASet, SetMessages
  <2>2. QED
    BY <1>1, <2>1 DEF TypeOK, HASet, PendingOK
<1>2. ASSUME NEW d \in Doors, NEW op \in DoorLocks \cup {Dump}, CliCommand(d, op)
      PROVE  TypeOK'
  <2>1. TypedQueues(cmd')
    BY <1>2, TypedAppend DEF TypeOK, CliCommand
  <2>2. QED
    BY <1>2, <2>1 DEF TypeOK, CliCommand, PendingOK
<1>3. ASSUME NEW d \in Doors, NEW m \in Messages(d), DeviceStep(d, m) PROVE TypeOK'
  <2>1. Last(m) \in LocksOf(d) /\ Len(m) \in Nat
    BY MessageParts
  <2>2. TypedQueues(cmd')
    <3>1. \A S : cmd[d] \in Seq(S) => SubSeq(cmd[d], Len(m) + 1, Len(cmd[d])) \in Seq(S)
      BY <2>1
    <3>2. QED
      BY <1>3, <3>1 DEF DeviceStep, TypeOK, TypedQueues
  <2>3. TypedLocks(lock')
    BY <1>3, <2>1, TypedSet DEF DeviceStep, TypeOK
  <2>4. TypedReports(reports')
    <3>1. Append(reports[d], m) \in Seq(Messages(d))
      BY DEF TypeOK, TypedReports
    <3>2. QED
      BY <1>3, <3>1, TypedReportsSet DEF DeviceStep, TypeOK
  <2>5. missed' \subseteq Doors
    BY <1>3 DEF DeviceStep, TypeOK
  <2>6. QED
    BY <1>3, <2>2, <2>3, <2>4, <2>5 DEF DeviceStep, TypeOK, PendingOK
<1>4. ASSUME NEW d \in Doors, CommandLost(d) PROVE TypeOK'
  <2>1. TypedQueues(cmd')
    BY <1>4, TypedTail DEF TypeOK, CommandLost
  <2>2. QED
    BY <1>4, <2>1 DEF TypeOK, CommandLost, PendingOK
<1>5. ASSUME NEW d \in Doors, CommandsAgain(d) PROVE TypeOK'
  <2>1. TypedQueues(cmd')
    BY <1>5, TypedAgain DEF TypeOK, CommandsAgain
  <2>2. QED
    BY <1>5, <2>1 DEF TypeOK, CommandsAgain, PendingOK
<1>6. ASSUME NEW d \in Doors, ReportsAgain(d) PROVE TypeOK'
  <2>1. reports[d] \o reports[d] \in Seq(Messages(d))
    BY DEF TypeOK, TypedReports
  <2>2. TypedReports(reports')
    BY <1>6, <2>1, TypedReportsSet DEF TypeOK, ReportsAgain
  <2>3. QED
    BY <1>6, <2>2 DEF TypeOK, ReportsAgain, PendingOK
<1>7. CASE HandleSet
  <2> DEFINE m == Head(sets)
             ask == LockCommand(m.key, m.val, db[m.door])
  <2>1. m \in SetMessages /\ sets' \in Seq(SetMessages)
    BY <1>7 DEF HandleSet, TypeOK
  <2>2. m.door \in Doors /\ m.key \in Switches /\ m.val \in OnOff
    BY <2>1 DEF SetMessages
  <2>3. cmd' = IF m.door \in CatFlaps /\ m.key = "Curfew" THEN cmd
               ELSE [cmd EXCEPT ![m.door] = Append(@, ask)]
    BY <1>7 DEF HandleSet
  <2>4. ~(m.door \in CatFlaps /\ m.key = "Curfew") => ask \in LocksOf(m.door)
    BY <2>2, LockCommandType
  <2> HIDE DEF m, ask
  <2>5. TypedQueues(cmd')
    BY <2>2, <2>3, <2>4, TypedAppend DEF TypeOK
  <2>6. QED
    BY <1>7, <2>1, <2>5 DEF HandleSet, TypeOK, PendingOK
<1>8. ASSUME NEW d \in Doors, DecodeReport(d) PROVE TypeOK'
  <2> DEFINE m == Head(reports[d])
  <2>1. m \in Messages(d) /\ Tail(reports[d]) \in Seq(Messages(d))
    BY <1>8 DEF DecodeReport, TypeOK, TypedReports
  <2>2. /\ db' = [db EXCEPT ![d] = Head(m)]
        /\ pending' = {[door |-> d, first |-> Head(m), left |-> Tail(m)]}
        /\ reports' = [reports EXCEPT ![d] = Tail(@)]
    BY <1>8 DEF DecodeReport, Store
  <2> HIDE DEF m
  <2>3. TypedLocks(db')
    BY <2>1, <2>2, MessageParts, TypedSet DEF TypeOK
  <2>4. TypedReports(reports')
    BY <2>1, <2>2, TypedReportsSet DEF TypeOK
  <2>5. PendingOK'
    <3>1. /\ Head(m) \in LocksOf(d) /\ Head(m) \in DoorLocks
          /\ Tail(m) \in Seq(LocksOf(d)) /\ Tail(m) \in Seq(DoorLocks)
      BY <2>1, MessageParts, LocksAreDoorLocks
    <3>2. d \in PetDoors => Tail(m) = <<>> /\ Head(m) = db'[d]
      BY <2>1, <2>2, MessageParts, ConstantsAssumption DEF TypeOK, TypedLocks
    <3>3. QED
      BY <2>2, <3>1, <3>2 DEF PendingOK
  <2>6. QED
    BY <1>8, <2>3, <2>4, <2>5 DEF DecodeReport, TypeOK
<1>9. CASE StoreFrame
  <2>1. PICK r \in pending :
          /\ r.left # <<>> /\ db' = [db EXCEPT ![r.door] = Head(r.left)]
          /\ pending' = {[r EXCEPT !.left = Tail(@)]}
    BY <1>9 DEF StoreFrame, Store
  <2>2. /\ r \in [door : Doors, first : DoorLocks, left : Seq(DoorLocks)]
        /\ r.first \in LocksOf(r.door) /\ r.left \in Seq(LocksOf(r.door)) /\ r.door \notin PetDoors
    BY <2>1 DEF TypeOK, PendingOK
  <2>3. Head(r.left) \in LocksOf(r.door) /\ Tail(r.left) \in Seq(LocksOf(r.door)) /\ Tail(r.left) \in Seq(DoorLocks)
    BY <2>1, <2>2
  <2>4. TypedLocks(db')
    BY <2>1, <2>2, <2>3, TypedSet DEF TypeOK
  <2>5. PendingOK'
    BY <2>1, <2>2, <2>3 DEF PendingOK
  <2>6. QED
    BY <1>9, <2>4, <2>5 DEF StoreFrame, TypeOK
<1>10. CASE Publish
  <2>1. PICK r \in pending :
          /\ IF r.door \in CatFlaps THEN PublishCatFlap(r) ELSE PublishPetDoor(r)
          /\ db' = [db EXCEPT ![r.door] = r.first]
          /\ setBack' = IF r.first = db[r.door] THEN setBack ELSE setBack \cup {r.door}
    BY <1>10 DEF Publish
  <2>2. /\ r.door \in Doors /\ r.first \in DoorLocks /\ r.first \in LocksOf(r.door)
        /\ r.door \in PetDoors => r.first = db[r.door]
    BY DEF TypeOK, PendingOK
  <2>3. ha' \in [Topics -> Views]
    <3>1. CASE r.door \in CatFlaps
      <4>1. /\ KeepInOf(r.first) \in OnOff /\ KeepOutOf(r.first) \in OnOff
            /\ r.door \in Topics /\ DevId \in Topics
        BY <2>2 DEF KeepInOf, KeepOutOf, Switch, OnOff, Topics
      <4>2. [ha[DevId] EXCEPT !.KeepIn = KeepInOf(r.first), !.KeepOut = KeepOutOf(r.first)]
              \in Views
        BY <4>1 DEF TypeOK, Views
      <4>3. \A v \in Views : [v EXCEPT !.State = r.first] \in Views
        BY <2>2 DEF Views
      <4>4. PublishCatFlap(r)
        BY <2>1, <3>1
      <4>5. QED
        BY <4>1, <4>2, <4>3, <4>4 DEF TypeOK, PublishCatFlap
    <3>2. CASE r.door \notin CatFlaps
      BY <2>1, <2>2, <3>2, ViewType DEF PublishPetDoor, TypeOK
    <3>3. QED
      BY <3>1, <3>2
  <2>4. TypedLocks(db') /\ setBack' \subseteq CatFlaps
    BY <2>1, <2>2, TypedSet DEF TypeOK, Doors
  <2>5. PendingOK'
    BY <1>10 DEF Publish, PendingOK
  <2>6. QED
    BY <1>10, <2>3, <2>4, <2>5 DEF Publish, TypeOK
<1>11. CASE Crash
  <2>1. up' \in BOOLEAN
    BY <1>11 DEF Crash
  <2>2. sets' \in Seq(SetMessages) /\ missed' \subseteq Doors
    <3>1. \A r \in pending : r.door \in Doors
      BY DEF TypeOK, PendingOK
    <3>2. QED
      BY <1>11, <3>1 DEF Crash, TypeOK
  <2>3. TypedReports(reports')
    BY <1>11, TypedReportsEmpty DEF Crash
  <2>4. PendingOK'
    BY <1>11 DEF Crash, PendingOK
  <2>5. QED
    BY <1>11, <2>1, <2>2, <2>3, <2>4 DEF Crash, TypeOK
<1>12. CASE Start
  <2>1. ha' \in [Topics -> Views]
    BY <1>12, ViewType DEF Start, TypeOK, TypedLocks
  <2>2. TypedQueues(cmd')
    <3>1. \A d \in Doors : Append(cmd[d], Dump) \in Seq(LocksOf(d) \cup {Dump})
                        /\ Append(cmd[d], Dump) \in Seq(DoorLocks \cup {Dump})
      BY DEF TypeOK, TypedQueues
    <3>2. QED
      BY <1>12, <3>1 DEF Start, TypeOK, TypedQueues
  <2>3. missed' \subseteq Doors
    BY <1>12 DEF Start, TypeOK, Doors
  <2>4. QED
    BY <1>12, <2>1, <2>2, <2>3 DEF Start, TypeOK, PendingOK
<1>13. CASE UNCHANGED vars
  BY <1>13 DEF vars, TypeOK, PendingOK
<1>14. QED
  BY <1>1, <1>2, <1>3, <1>4, <1>5, <1>6, <1>7, <1>8, <1>9, <1>10, <1>11, <1>12, <1>13
  DEF Next, Service, Environment

\* The type invariant of pethubmqtt's lock handling: whatever the doors, what is
\* stored, sent and reported is a lock mode that kind of door has.
THEOREM TypeCorrect == Spec => []TypeOK
  BY InitTypeOK, NextTypeOK, PTL DEF Spec

-----------------------------------------------------------------------------
(* The newest report is true. *)

LEMMA LastOfTail ==
  ASSUME NEW S, NEW s \in Seq(S), s # <<>>
  PROVE  IF Tail(s) = <<>> THEN Last(s) = Head(s) ELSE Last(Tail(s)) = Last(s)
<1> DEFINE t == Tail(s)
<1>1. /\ Len(s) \in Nat /\ Len(s) >= 1 /\ Head(s) = s[1] /\ Len(t) = Len(s) - 1
      /\ \A i \in 1 .. Len(s) - 1 : t[i] = s[i + 1]
      /\ t \in Seq(S)
  BY HeadTailProperties, EmptySeq
<1> HIDE DEF t
<1>2. t = <<>> <=> Len(s) = 1
  BY <1>1, EmptySeq
<1>3. IF t = <<>> THEN Last(s) = Head(s) ELSE Last(t) = Last(s)
  BY <1>1, <1>2 DEF Last
<1>4. QED
  BY <1>3 DEF t

LEMMA LastOfAgain ==
  ASSUME NEW S, NEW s \in Seq(S), s # <<>>
  PROVE  s \o s # <<>> /\ Last(s \o s) = Last(s)
<1>1. Len(s) \in Nat /\ Len(s) >= 1
  BY EmptySeq
<1>2. s \o s \in Seq(S) /\ Len(s \o s) = Len(s) + Len(s)
  BY ConcatProperties
<1>3. (s \o s)[Len(s) + Len(s)] = s[Len(s)]
  BY <1>1, ConcatProperties
<1>4. s \o s # <<>>
  BY <1>1, <1>2, EmptySeq
<1>5. QED
  BY <1>2, <1>3, <1>4 DEF Last

LEMMA LastOfAppend ==
  ASSUME NEW S, NEW s \in Seq(S), NEW x \in S
  PROVE  Append(s, x) # <<>> /\ Last(Append(s, x)) = x
  BY DEF Last

LEMMA SameTells ==
  ASSUME NEW e \in Doors, NewestTells(e), UNCHANGED <<db, pending, setBack>>,
         reports'[e] = reports[e], lock'[e] = lock[e]
  PROVE  NewestTells(e)'
  BY DEF NewestTells

LEMMA DeviceTells ==
  ASSUME TypeOK, NewestReportIsTrue, NEW d \in Doors, NEW m \in Messages(d), DeviceStep(d, m),
         NEW e \in Doors, e \notin missed'
  PROVE  NewestTells(e)'
<1>1. /\ lock' = [lock EXCEPT ![d] = Last(m)]
      /\ reports' = IF up THEN [reports EXCEPT ![d] = Append(@, m)] ELSE reports
      /\ missed' = IF up THEN missed \ {d} ELSE missed \cup {d}
      /\ UNCHANGED <<db, pending, setBack>>
  BY DEF DeviceStep
<1>2. reports \in [Doors -> Seq(Seq(DoorLocks))] /\ lock \in [Doors -> DoorLocks] /\ reports[d] \in Seq(Messages(d))
  BY DEF TypeOK, TypedReports, TypedLocks
<1>3. CASE e = d
  <2>1. reports'[e] = Append(reports[e], m) /\ lock'[e] = Last(m)
    BY <1>1, <1>2, <1>3
  <2>2. QED
    BY <1>2, <1>3, <2>1, LastOfAppend DEF NewestTells
<1>4. CASE e # d
  BY <1>1, <1>2, <1>4, SameTells DEF NewestReportIsTrue
<1>5. QED
  BY <1>3, <1>4

\* The first frame of a message that waits, and the next of one in work.
LEMMA DecodeTells ==
  ASSUME TypeOK, NEW d \in Doors, DecodeReport(d), NEW e \in Doors, NewestTells(e)
  PROVE  NewestTells(e)'
<1> DEFINE m == Head(reports[d])
<1>1. /\ db' = [db EXCEPT ![d] = Head(m)] /\ reports' = [reports EXCEPT ![d] = Tail(@)]
      /\ pending' = {[door |-> d, first |-> Head(m), left |-> Tail(m)]} /\ pending = {}
      /\ setBack' = setBack \ {d} /\ lock' = lock /\ reports[d] # <<>>
  BY DEF DecodeReport, Store
<1>2. /\ reports \in [Doors -> Seq(Seq(DoorLocks))] /\ db \in [Doors -> DoorLocks]
      /\ reports[d] \in Seq(Messages(d)) /\ m \in Messages(d)
  BY <1>1 DEF TypeOK, TypedReports, TypedLocks
<1> HIDE DEF m
<1>3. CASE e = d
  <2>1. /\ reports'[e] = Tail(reports[e]) /\ db'[e] = Head(m)
        /\ \A r \in pending' : r.door = e /\ r.left = Tail(m)
    BY <1>1, <1>2, <1>3
  <2>2. IF Tail(reports[e]) = <<>> THEN Last(reports[e]) = m ELSE Last(Tail(reports[e])) = Last(reports[e])
    BY <1>1, <1>2, <1>3, LastOfTail DEF m
  <2>3. IF Tail(m) = <<>> THEN Last(m) = Head(m) ELSE Last(Tail(m)) = Last(m)
    BY <1>2, MessageParts
  <2>4. Last(Last(reports[e])) = lock[e]
    BY <1>1, <1>3 DEF NewestTells
  <2>5. pending' # {}
    BY <1>1
  <2>6. QED
    BY <1>1, <2>1, <2>2, <2>3, <2>4, <2>5 DEF NewestTells
<1>4. CASE e # d
  <2>1. /\ reports'[e] = reports[e] /\ db'[e] = db[e] /\ lock'[e] = lock[e] /\ (e \in setBack' <=> e \in setBack)
        /\ \A r \in pending' : r.door # e
    BY <1>1, <1>2, <1>4
  <2>2. QED
    BY <1>1, <2>1 DEF NewestTells
<1>5. QED
  BY <1>3, <1>4

LEMMA FrameTells ==
  ASSUME TypeOK, StoreFrame, NEW e \in Doors, NewestTells(e)
  PROVE  NewestTells(e)'
<1>1. PICK r \in pending : /\ r.left # <<>> /\ db' = [db EXCEPT ![r.door] = Head(r.left)]
                           /\ pending' = {[r EXCEPT !.left = Tail(@)]}
  BY DEF StoreFrame, Store
<1>2. /\ UNCHANGED <<reports, lock, setBack>> /\ db \in [Doors -> DoorLocks]
      /\ r \in [door : Doors, first : DoorLocks, left : Seq(DoorLocks)] /\ \A s \in pending : s = r
  BY DEF StoreFrame, TypeOK, TypedLocks, PendingOK
<1>3. IF Tail(r.left) = <<>> THEN Last(r.left) = Head(r.left) ELSE Last(Tail(r.left)) = Last(r.left)
  BY <1>1, <1>2, LastOfTail
<1>4. /\ \A s \in pending' : s.door = r.door /\ s.left = Tail(r.left)
      /\ pending' # {}
  BY <1>1, <1>2
<1>5. CASE e = r.door
  <2>1. db'[e] = Head(r.left)
    BY <1>1, <1>2, <1>5
  <2>2. reports[e] = <<>> => Last(r.left) = lock[e]
    BY <1>1, <1>5 DEF NewestTells
  <2>3. QED
    BY <1>2, <1>3, <1>4, <1>5, <2>1, <2>2 DEF NewestTells
<1>6. CASE e # r.door
  <2>1. db'[e] = db[e]
    BY <1>1, <1>2, <1>6
  <2>2. QED
    BY <1>2, <1>4, <1>6, <2>1 DEF NewestTells
<1>7. QED
  BY <1>5, <1>6

\* What the end of the callback stores again is what is there, or sets it back.
LEMMA PublishTells ==
  ASSUME TypeOK, Publish, NEW e \in Doors, NewestTells(e)
  PROVE  NewestTells(e)'
<1>1. PICK r \in pending :
        /\ r.left = <<>> /\ db' = [db EXCEPT ![r.door] = r.first]
        /\ setBack' = IF r.first = db[r.door] THEN setBack ELSE setBack \cup {r.door}
  BY DEF Publish
<1>2. /\ UNCHANGED <<reports, lock>> /\ db \in [Doors -> DoorLocks] /\ pending' = {}
      /\ r.door \in Doors /\ \A s \in pending : s = r
  BY DEF Publish, TypeOK, TypedLocks, PendingOK
<1>3. e \notin setBack' => e \notin setBack /\ db'[e] = db[e]
  BY <1>1, <1>2
<1>4. QED
  BY <1>1, <1>2, <1>3 DEF NewestTells

LEMMA CrashTells ==
  ASSUME TypeOK, NewestReportIsTrue, Crash, NEW e \in Doors, e \notin missed'
  PROVE  NewestTells(e)'
<1>1. /\ reports[e] = <<>> /\ e \notin missed /\ \A r \in pending : r.door = e => r.left = <<>>
      /\ pending' = {} /\ reports'[e] = <<>> /\ UNCHANGED <<db, lock, setBack>>
  BY DEF Crash
<1>2. NewestTells(e)
  BY <1>1 DEF NewestReportIsTrue
<1>3. QED
  BY <1>1, <1>2 DEF NewestTells

LEMMA NextNewestReport ==
  TypeOK /\ NewestReportIsTrue /\ [Next]_vars => NewestReportIsTrue'
<1> SUFFICES ASSUME TypeOK, NewestReportIsTrue, [Next]_vars,
                    NEW e \in Doors, e \notin missed'
             PROVE  NewestTells(e)'
  BY DEF NewestReportIsTrue
<1>1. ASSUME NEW d \in Doors, ReportsAgain(d) PROVE NewestTells(e)'
  <2>1. reports \in [Doors -> Seq(Seq(DoorLocks))] /\ reports[d] # <<>> /\ reports' = [reports EXCEPT ![d] = @ \o @]
    BY <1>1 DEF TypeOK, TypedReports, ReportsAgain
  <2>2. UNCHANGED <<db, pending, setBack, lock, missed>>
    BY <1>1 DEF ReportsAgain
  <2>3. NewestTells(e)
    BY <2>2 DEF NewestReportIsTrue
  <2>4. CASE e = d
    <3>1. reports'[e] # <<>> /\ Last(reports'[e]) = Last(reports[e])
      BY <2>1, <2>4, LastOfAgain
    <3>2. QED
      BY <2>1, <2>2, <2>3, <2>4, <3>1 DEF NewestTells
  <2>5. CASE e # d
    BY <2>1, <2>2, <2>3, <2>5, SameTells
  <2>6. QED
    BY <2>4, <2>5
<1>2. CASE missed' = missed /\ UNCHANGED <<db, pending, setBack, reports, lock>>
  BY <1>2, SameTells DEF NewestReportIsTrue
<1>3. CASE Start
  BY <1>3, SameTells DEF Start, NewestReportIsTrue
<1>4. CASE Service
  <2>1. missed' = missed
    BY <1>4 DEF Service, HandleSet, DecodeReport, StoreFrame, Publish
  <2>2. NewestTells(e)
    BY <2>1 DEF NewestReportIsTrue
  <2>3. QED
    BY <1>2, <1>4, <2>2, DecodeTells, FrameTells, PublishTells DEF Service, HandleSet
<1>5. ASSUME NEW d \in Doors, Environment(d) PROVE NewestTells(e)'
  BY <1>1, <1>2, <1>5, DeviceTells
  DEF Environment, HASet, CliCommand, CommandLost, CommandsAgain
<1>6. CASE UNCHANGED vars
  BY <1>2, <1>6 DEF vars
<1>7. QED
  BY <1>3, <1>4, <1>5, <1>6, CrashTells DEF Next

\* Unless its last report went to a stopped pethub, what pethub knows or is about
\* to learn of a door is the door's real lock: the commits in decodehubmqtt come
\* before anything that can fail, and only the end of a cat flap's callback, which
\* stores the first frame of a message again, undoes them.
THEOREM ReportsTell == Spec => []NewestReportIsTrue
<1>1. Init => NewestReportIsTrue
  BY DEF Init, NewestReportIsTrue, NewestTells
<1>2. QED
  BY <1>1, NextNewestReport, TypeCorrect, PTL DEF Spec

-----------------------------------------------------------------------------
(* Home Assistant matches the database. *)

\* The cat flap handler never publishes the Curfew switch, so it has to stay as
\* the startup loop left it: HAMatchesDb is not inductive without this.
FlapsShowNoCurfew == up => \A d \in CatFlaps : ha[d].Curfew = "OFF"

ViewInv == HAMatchesDb /\ FlapsShowNoCurfew

LEMMA FlapViewHasNoCurfew == \A lm \in FlapLocks : ViewOf(lm).Curfew = "OFF"
  BY DEF FlapLocks, ViewOf, CurfewOf, Switch

\* The three assignments of the cat flap handler, when they are to one device.
LEMMA FlapUpdate ==
  ASSUME NEW v \in Views, NEW a, NEW b, NEW c
  PROVE  [[v EXCEPT !.KeepIn = a, !.KeepOut = b] EXCEPT !.State = c]
           = [KeepIn |-> a, KeepOut |-> b, Curfew |-> v.Curfew, State |-> c]
<1> DEFINE R(k, o, s) == [KeepIn |-> k, KeepOut |-> o, Curfew |-> v.Curfew, State |-> s]
           v1 == [v EXCEPT !.KeepIn = a]
           v2 == [v1 EXCEPT !.KeepOut = b]
<1>1. v1 = R(a, v.KeepOut, v.State)
  BY DEF Views
<1>2. [v EXCEPT !.KeepIn = a, !.KeepOut = b] = v2
  OBVIOUS
<1> HIDE DEF v1
<1>3. v2 = R(a, b, v.State)
  BY <1>1
<1> HIDE DEF v2
<1>4. [v2 EXCEPT !.State = c] = R(a, b, c)
  BY <1>3
<1>5. QED
  BY <1>2, <1>4

LEMMA DecodeKeepsView ==
  ASSUME TypeOK, ViewInv, NEW d \in Doors, DecodeReport(d)
  PROVE  ViewInv'
<1>1. /\ up /\ pending = {} /\ UNCHANGED <<up, ha>>
      /\ db' = [db EXCEPT ![d] = Head(Head(reports[d]))]
      /\ \A r \in pending' : r.door = d
      /\ pending' # {}
  BY DEF DecodeReport, Store
<1>2. \A e \in Doors : e # d => db'[e] = db[e]
  BY <1>1 DEF TypeOK, TypedLocks
<1>3. HAMatchesDb'
  BY <1>1, <1>2 DEF ViewInv, HAMatchesDb
<1>4. QED
  BY <1>1, <1>3 DEF ViewInv, FlapsShowNoCurfew

LEMMA FrameKeepsView ==
  ASSUME TypeOK, ViewInv, StoreFrame
  PROVE  ViewInv'
<1>1. PICK r \in pending : /\ db' = [db EXCEPT ![r.door] = Head(r.left)]
                           /\ pending' = {[r EXCEPT !.left = Tail(@)]}
  BY DEF StoreFrame, Store
<1>2. UNCHANGED <<up, ha>> /\ r.door \in Doors /\ \A s \in pending : s = r
  BY DEF StoreFrame, TypeOK, PendingOK
<1>3. \A s \in pending' : s.door = r.door
  BY <1>1 DEF TypeOK, PendingOK
<1>4. \A e \in Doors : e # r.door => db'[e] = db[e]
  BY <1>1 DEF TypeOK, TypedLocks
<1>5. HAMatchesDb'
  BY <1>1, <1>2, <1>3, <1>4 DEF ViewInv, HAMatchesDb
<1>6. QED
  BY <1>2, <1>5 DEF ViewInv, FlapsShowNoCurfew

LEMMA PublishKeepsView ==
  ASSUME FlapIsLast, TypeOK, ViewInv, Publish
  PROVE  ViewInv'
<1>1. PICK r \in pending :
        /\ IF r.door \in CatFlaps THEN PublishCatFlap(r) ELSE PublishPetDoor(r)
        /\ db' = [db EXCEPT ![r.door] = r.first]
  BY DEF Publish
<1>2. /\ r.door \in Doors /\ r.door \in Topics /\ r.first \in LocksOf(r.door)
      /\ \A s \in pending : s = r
  BY DEF TypeOK, PendingOK, Topics
<1>3. /\ \A e \in Doors : db'[e] = IF e = r.door THEN r.first ELSE db[e]
      /\ \A e \in Doors : db'[e] \in LocksOf(e)
  BY <1>1, <1>2 DEF TypeOK, TypedLocks
<1>4. \A e \in Doors : e # r.door => ha[e] = ViewOf(db[e])
  BY <1>2 DEF Publish, ViewInv, HAMatchesDb
<1>5. ha' = [ha EXCEPT ![r.door] = ViewOf(r.first)]
  <2>1. CASE r.door \in CatFlaps
    <3>1. r.door = DevId
      BY <2>1 DEF FlapIsLast
    <3>2. ha[r.door] \in Views /\ ha[r.door].Curfew = "OFF"
      BY <1>2, <2>1 DEF TypeOK, Publish, ViewInv, FlapsShowNoCurfew
    <3>3. CurfewOf(r.first) = "OFF"
      BY <1>2, <2>1 DEF LocksOf, FlapLocks, CurfewOf, Switch
    <3>4. [[ha[r.door] EXCEPT !.KeepIn = KeepInOf(r.first), !.KeepOut = KeepOutOf(r.first)]
              EXCEPT !.State = r.first] = ViewOf(r.first)
      <4>1. [[ha[r.door] EXCEPT !.KeepIn = KeepInOf(r.first), !.KeepOut = KeepOutOf(r.first)]
                EXCEPT !.State = r.first]
            = [KeepIn |-> KeepInOf(r.first), KeepOut |-> KeepOutOf(r.first),
                 Curfew |-> ha[r.door].Curfew, State |-> r.first]
        BY <3>2, FlapUpdate, Zenon
      <4>2. QED
        BY <3>2, <3>3, <4>1, Zenon DEF ViewOf
    <3>5. PublishCatFlap(r)
      BY <1>1, <2>1
    <3>6. QED
      BY <1>2, <3>1, <3>4, <3>5 DEF PublishCatFlap, TypeOK
  <2>2. CASE r.door \notin CatFlaps
    BY <1>1, <2>2 DEF PublishPetDoor
  <2>3. QED
    BY <2>1, <2>2
<1>6. \A e \in Doors : ha'[e] = ViewOf(db'[e])
  BY <1>2, <1>3, <1>4, <1>5 DEF TypeOK, Topics
<1>7. FlapsShowNoCurfew'
  BY <1>3, <1>6, FlapViewHasNoCurfew DEF FlapsShowNoCurfew, LocksOf, Doors
<1>8. QED
  BY <1>6, <1>7 DEF ViewInv, HAMatchesDb

LEMMA StartKeepsView ==
  ASSUME TypeOK, ViewInv, Start
  PROVE  ViewInv'
<1>1. db' = db /\ \A d \in Doors : ha'[d] = ViewOf(db[d])
  BY DEF Start, Topics
<1>2. FlapsShowNoCurfew'
  BY <1>1, FlapViewHasNoCurfew DEF FlapsShowNoCurfew, TypeOK, TypedLocks, LocksOf, Doors
<1>3. QED
  BY <1>1, <1>2 DEF ViewInv, HAMatchesDb

LEMMA NextViewInv ==
  ASSUME FlapIsLast
  PROVE  TypeOK /\ ViewInv /\ [Next]_vars => ViewInv'
<1> SUFFICES ASSUME TypeOK, ViewInv, [Next]_vars PROVE ViewInv'
  OBVIOUS
<1>1. CASE UNCHANGED <<up, db, ha, pending>>
  BY <1>1 DEF ViewInv, HAMatchesDb, FlapsShowNoCurfew
<1>2. CASE Crash
  BY <1>2 DEF Crash, ViewInv, HAMatchesDb, FlapsShowNoCurfew
<1>3. CASE HandleSet
  BY <1>1, <1>3 DEF HandleSet
<1>4. ASSUME NEW d \in Doors, Environment(d) PROVE ViewInv'
  BY <1>1, <1>4
  DEF Environment, HASet, CliCommand, DeviceStep, CommandLost, CommandsAgain, ReportsAgain
<1>5. QED
  BY <1>1, <1>2, <1>3, <1>4, DecodeKeepsView, FrameKeepsView, PublishKeepsView, StartKeepsView
  DEF Next, Service, vars

\* With the cat flap loaded last, a running pethub shows in Home Assistant what
\* the database holds of every door but the one it is handling.
THEOREM ViewsMatch ==
  ASSUME FlapIsLast
  PROVE  Spec => []HAMatchesDb
<1>1. Init => ViewInv
  BY DEF Init, ViewInv, HAMatchesDb, FlapsShowNoCurfew
<1>2. ViewInv => HAMatchesDb
  BY DEF ViewInv
<1>3. QED
  BY <1>1, <1>2, NextViewInv, TypeCorrect, PTL DEF Spec

\* At rest Home Assistant shows the real lock of every door whose last report
\* reached pethub and whose row was not set back to an older one: the two invariants above together.
THEOREM QuietViewsTell ==
  ASSUME FlapIsLast
  PROVE  Spec => []QuietShowsLock
<1>1. HAMatchesDb /\ NewestReportIsTrue => QuietShowsLock
  BY DEF HAMatchesDb, NewestReportIsTrue, NewestTells, QuietShowsLock, Quiet
<1>2. QED
  BY <1>1, ViewsMatch, ReportsTell, PTL

\* With the cat flap loaded last, a running pethub changes what is shown of a
\* door only while it handles a report of that door.
THEOREM NoStepCrossTalks ==
  ASSUME FlapIsLast
  PROVE  Spec => NoCrossTalk
<1> DEFINE Own == \A d \in Doors : ha'[d] # ha[d] => ~up \/ \E r \in pending : r.door = d
<1>1. TypeOK /\ [Next]_vars => [Own]_vars
  <2> SUFFICES ASSUME TypeOK, Next, NEW d \in Doors, ha'[d] # ha[d], up
               PROVE  \E r \in pending : r.door = d
    OBVIOUS
  <2>1. ASSUME NEW e \in Doors, Environment(e) PROVE FALSE
    BY <2>1
    DEF Environment, HASet, CliCommand, DeviceStep, CommandLost, CommandsAgain, ReportsAgain
  <2>2. Publish
    BY <2>1 DEF Next, Service, HandleSet, DecodeReport, StoreFrame, Crash, Start
  <2>3. PICK r \in pending : IF r.door \in CatFlaps THEN PublishCatFlap(r) ELSE PublishPetDoor(r)
    BY <2>2 DEF Publish
  <2>4. r.door \in CatFlaps => r.door = DevId
    BY DEF FlapIsLast
  <2>5. r.door = d
    BY <2>3, <2>4 DEF PublishCatFlap, PublishPetDoor, TypeOK, Topics
  <2>6. QED
    BY <2>5
<1>2. QED
  BY <1>1, TypeCorrect, PTL DEF Spec, NoCrossTalk

-----------------------------------------------------------------------------
(* What the user asks for, of whom DoorUser says how the switches are used. *)

\* The user has none of the habits under which the promise does not hold.
NoHabits == Habits = {}

\* The one request for a door that waits, if there is one, asks for what is wanted ...
Asked(d) ==
    /\ cmd[d] = <<>> /\ reports[d] = <<>> /\ lock[d] = db[d] /\ \A r \in pending : r.door # d
    /\ \E k \in 1 .. Len(sets) :
          /\ sets[k].door = d /\ sets[k].key \in Controls(d)
          /\ SwitchesOf(ViewOf(LockCommand(sets[k].key, sets[k].val, db[d]))) = wanted[d]
          /\ \A i \in 1 .. Len(sets) : sets[i].door = d => i = k

\* All frames of the message about door d that is in work say lm, and lm is stored: what
\* the end of the callback stores again changes nothing.
Agrees(d, lm) ==
    \A r \in pending : r.door = d => r.first = lm /\ r.left \in Seq({lm}) /\ db[d] = lm

\* ... and if there is none, the door is in that lock mode or on its way to it, and all
\* frames of all messages say so.
Obeys(d) ==
    /\ \A i \in 1 .. Len(sets) : sets[i].door # d
    /\ \E lm \in LocksOf(d) :
          /\ SwitchesOf(ViewOf(lm)) = wanted[d]
          /\ cmd[d] \in Seq({lm, Dump}) /\ reports[d] \in Seq(Seq({lm})) /\ Agrees(d, lm)
          /\ lock[d] = lm \/ (cmd[d] # <<>> /\ cmd[d] \in Seq({lm}))
          /\ db[d] = lm \/ cmd[d] # <<>> \/ reports[d] # <<>>

\* The service is stopped, and started, only when all is quiet.
QuietWhenDown ==
    ~up => sets = <<>> /\ pending = {} /\ \A d \in Doors : cmd[d] = <<>> /\ reports[d] = <<>>

\* The inductive invariant.
Heeded ==
    /\ wanted \in [Doors -> [Switches -> OnOff]]
    /\ QuietWhenDown
    /\ \A d \in Doors : Asked(d) \/ Obeys(d)

\* A user who flips switches is one of DoorControl's environments.
LEMMA UserIsEnvironment ==
  /\ UserInit => Init
  /\ [UserNext]_userVars => [Next]_vars
<1>1. UserInit => Init
  BY DEF UserInit
<1>2. ASSUME NEW d \in Doors, NEW key \in Switches, NEW val \in OnOff, Flip(d, key, val)
      PROVE  Next
  <2>1. Environment(d)
    BY <1>2 DEF Flip, Environment
  <2>2. QED
    BY <2>1 DEF Next
<1>3. ASSUME NEW d \in Doors, Transport(d) PROVE Next
  BY <1>3 DEF Transport, Executes, Next, Environment
<1>4. CalmCrash => Next
  BY DEF CalmCrash, Next
<1>5. UserNext => Next
  BY <1>2, <1>3, <1>4 DEF UserNext, Next
<1>6. UNCHANGED userVars => UNCHANGED vars
  BY DEF userVars
<1>7. QED
  BY <1>1, <1>5, <1>6

\* A switch that is flipped over asks for a lock mode that looks like that, if the
\* curfew mode is left by its own switch.
LEMMA FlipIsGranted ==
  ASSUME NEW lm \in DoorLocks, NEW key \in Switches, NEW val \in OnOff,
         ViewOf(lm)[key] # val, key = "Curfew" \/ ViewOf(lm).Curfew = "OFF"
  PROVE  SwitchesOf(ViewOf(LockCommand(key, val, lm))) = Wish(SwitchesOf(ViewOf(lm)), key, val)
<1> DEFINE x == LockCommand(key, val, lm)
           w == Wish(SwitchesOf(ViewOf(lm)), key, val)
<1>1. \A k \in Switches : w[k] = IF k = key THEN val
                                 ELSE IF "Curfew" \in {k, key} THEN "OFF" ELSE ViewOf(lm)[k]
  BY DEF Wish, SwitchesOf
<1>2. /\ ViewOf(lm)["KeepIn"] = KeepInOf(lm) /\ ViewOf(lm)["KeepOut"] = KeepOutOf(lm)
      /\ ViewOf(lm)["Curfew"] = CurfewOf(lm)
      /\ ViewOf(x)["KeepIn"] = KeepInOf(x) /\ ViewOf(x)["KeepOut"] = KeepOutOf(x)
      /\ ViewOf(x)["Curfew"] = CurfewOf(x)
  BY DEF ViewOf
<1>3. \A k \in Switches : ViewOf(x)[k] = w[k]
  <2>1. CASE key = "Curfew"
    <3>1. x = IF val = "ON" THEN "Curfew" ELSE "Unlocked"
      BY <2>1 DEF LockCommand
    <3> HIDE DEF x, w
    <3>2. QED
      BY <1>1, <1>2, <2>1, <3>1 DEF Switches, OnOff, KeepInOf, KeepOutOf, CurfewOf, Switch
  <2>2. CASE key = "KeepIn"
    <3>1. lm \in FlapLocks
      BY <1>2, <2>2 DEF CurfewOf, Switch, DoorLocks
    <3>2. x = IF val = "ON" THEN IF lm = "KeepOut" THEN "Locked" ELSE "KeepIn"
              ELSE IF lm = "Locked" THEN "KeepOut" ELSE "Unlocked"
      BY <1>2, <2>2, <3>1 DEF LockCommand, FlapLocks, KeepInOf, Switch, OnOff
    <3> HIDE DEF x, w
    <3>3. QED
      BY <1>1, <1>2, <2>2, <3>1, <3>2 DEF Switches, OnOff, KeepInOf, KeepOutOf, CurfewOf, Switch, FlapLocks
  <2>3. CASE key = "KeepOut"
    <3>1. lm \in FlapLocks
      BY <1>2, <2>3 DEF CurfewOf, Switch, DoorLocks
    <3>2. x = IF val = "ON" THEN IF lm = "KeepIn" THEN "Locked" ELSE "KeepOut"
              ELSE IF lm = "Locked" THEN "KeepIn" ELSE "Unlocked"
      BY <1>2, <2>3, <3>1 DEF LockCommand, FlapLocks, KeepOutOf, Switch, OnOff
    <3> HIDE DEF x, w
    <3>3. QED
      BY <1>1, <1>2, <2>3, <3>1, <3>2 DEF Switches, OnOff, KeepInOf, KeepOutOf, CurfewOf, Switch, FlapLocks
  <2>4. QED
    BY <2>1, <2>2, <2>3 DEF Switches
<1>4. w = [k \in Switches |-> w[k]]
  BY DEF Wish
<1> HIDE DEF x, w
<1>5. SwitchesOf(ViewOf(x)) = w
  BY <1>3, <1>4 DEF SwitchesOf
<1>6. QED
  BY <1>5 DEF x, w

\* When the user has not flipped a switch of door d and no step is about it, what is
\* known of it stands.
LEMMA OtherDoor ==
  ASSUME NEW d \in Doors, Asked(d) \/ Obeys(d),
         cmd'[d] = cmd[d], reports'[d] = reports[d], lock'[d] = lock[d], db'[d] = db[d],
         wanted'[d] = wanted[d], sets' = sets, \A r \in pending' : r.door = d => r \in pending
  PROVE  Asked(d)' \/ Obeys(d)'
  BY DEF Asked, Obeys, Agrees

LEMMA FlipHeeded ==
  ASSUME NoHabits, TypeOK, HAMatchesDb, Heeded,
         NEW e \in Doors, NEW key \in Switches, NEW val \in OnOff, Flip(e, key, val)
  PROVE  Heeded'
<1> DEFINE m == [door |-> e, key |-> key, val |-> val]
<1>1. /\ key \in Controls(e) /\ Settled(e) /\ ha[e][key] # val /\ (key = "Curfew" \/ ha[e].Curfew = "OFF")
      /\ up /\ sets' = Append(sets, m) /\ UNCHANGED <<up, db, ha, pending, cmd, reports, lock>>
      /\ wanted' = [wanted EXCEPT ![e] = Wish(@, key, val)]
  BY DEF Flip, NoHabits, HASet
<1>2. /\ sets \in Seq(SetMessages) /\ m \in SetMessages
      /\ wanted \in [Doors -> [Switches -> OnOff]]
  BY DEF TypeOK, Heeded, SetMessages
<1>3. /\ Len(sets) \in Nat /\ Len(sets') = Len(sets) + 1
      /\ \A i \in 1 .. Len(sets) : sets'[i] = sets[i]
      /\ sets'[Len(sets) + 1] = m
  BY <1>1, <1>2, AppendProperties
<1>4. wanted' \in [Doors -> [Switches -> OnOff]]
  <2>1. \A w \in [Switches -> OnOff] : Wish(w, key, val) \in [Switches -> OnOff]
    BY DEF Wish, OnOff
  <2>2. QED
    BY <1>1, <1>2, <2>1
<1>5. QuietWhenDown'
  BY <1>1 DEF QuietWhenDown
<1>6. ASSUME NEW d \in Doors, d # e PROVE Asked(d)' \/ Obeys(d)'
  <2>1. wanted'[d] = wanted[d] /\ m.door # d
    BY <1>1, <1>2, <1>6
  <2>2. \A i \in 1 .. Len(sets') : i \in 1 .. Len(sets) \/ sets'[i].door # d
    BY <1>3, <2>1
  <2>3. ASSUME Obeys(d) PROVE Obeys(d)'
    <3>1. \A i \in 1 .. Len(sets') : sets'[i].door # d
      BY <1>3, <2>2, <2>3 DEF Obeys
    <3>2. QED
      BY <1>1, <2>1, <2>3, <3>1 DEF Obeys, Agrees
  <2>4. ASSUME Asked(d) PROVE Asked(d)'
    <3>1. PICK k \in 1 .. Len(sets) :
             /\ sets[k].door = d /\ sets[k].key \in Controls(d)
             /\ SwitchesOf(ViewOf(LockCommand(sets[k].key, sets[k].val, db[d]))) = wanted[d]
             /\ \A i \in 1 .. Len(sets) : sets[i].door = d => i = k
      BY <2>4 DEF Asked
    <3>2. k \in 1 .. Len(sets') /\ sets'[k] = sets[k]
      BY <1>3
    <3>3. \A i \in 1 .. Len(sets') : sets'[i].door = d => i = k
      BY <1>3, <2>2, <3>1
    <3>4. cmd'[d] = <<>> /\ reports'[d] = <<>> /\ lock'[d] = db'[d] /\ \A r \in pending' : r.door # d
      BY <1>1, <2>1, <2>4 DEF Asked
    <3>5. SwitchesOf(ViewOf(LockCommand(sets'[k].key, sets'[k].val, db'[d]))) = wanted'[d]
      BY <1>1, <2>1, <3>1, <3>2
    <3>6. QED
      BY <3>1, <3>2, <3>3, <3>4, <3>5 DEF Asked
  <2>5. QED
    BY <2>3, <2>4 DEF Heeded
<1>7. Asked(e)'
  <2>1. /\ pending = {} /\ cmd[e] = <<>> /\ reports[e] = <<>>
        /\ \A i \in 1 .. Len(sets) : sets[i].door # e
    BY <1>1 DEF Settled
  <2>2. Obeys(e)
    BY <2>1 DEF Heeded, Asked
  <2>3. PICK lm \in LocksOf(e) : SwitchesOf(ViewOf(lm)) = wanted[e] /\ lock[e] = lm /\ db[e] = lm
    BY <2>1, <2>2 DEF Obeys
  <2>4. ha[e] = ViewOf(lm) /\ lm \in DoorLocks
    BY <1>1, <2>1, <2>3, LocksAreDoorLocks DEF HAMatchesDb
  <2>5. SwitchesOf(ViewOf(LockCommand(key, val, lm))) = Wish(SwitchesOf(ViewOf(lm)), key, val)
    BY <1>1, <2>4, FlipIsGranted
  <2>6. wanted'[e] = Wish(wanted[e], key, val)
    BY <1>1, <1>2
  <2> DEFINE n == Len(sets) + 1
  <2>7. n \in 1 .. Len(sets') /\ sets'[n] = m /\ \A i \in 1 .. Len(sets') : sets'[i].door = e => i = n
    BY <1>3, <2>1
  <2> HIDE DEF n
  <2>8. QED
    BY <1>1, <2>1, <2>3, <2>5, <2>6, <2>7 DEF Asked
<1>8. QED
  BY <1>4, <1>5, <1>6, <1>7 DEF Heeded

LEMMA SetHeeded ==
  ASSUME TypeOK, Heeded, HandleSet, UNCHANGED wanted
  PROVE  Heeded'
<1> DEFINE m == Head(sets)
<1>1. /\ up /\ pending = {} /\ sets # <<>> /\ sets' = Tail(sets)
      /\ UNCHANGED <<up, db, ha, pending, reports, lock, wanted>>
      /\ cmd' = IF m.door \in CatFlaps /\ m.key = "Curfew" THEN cmd
                ELSE [cmd EXCEPT ![m.door] = Append(@, LockCommand(m.key, m.val, db[m.door]))]
      /\ sets \in Seq(SetMessages) /\ cmd \in [Doors -> Seq(DoorLocks \cup {Dump})]
  BY DEF HandleSet, TypeOK, TypedQueues
<1>2. /\ Len(sets) \in Nat /\ Len(sets) >= 1 /\ Len(sets') = Len(sets) - 1 /\ m = sets[1]
      /\ \A i \in 1 .. Len(sets') : sets'[i] = sets[i + 1]
  BY <1>1, HeadTailProperties, EmptySeq
<1>3. m \in SetMessages
  BY <1>1
<1> HIDE DEF m
<1>4. QuietWhenDown'
  BY <1>1 DEF QuietWhenDown
<1>5. ASSUME NEW d \in Doors, d # m.door PROVE Asked(d)' \/ Obeys(d)'
  <2>1. cmd'[d] = cmd[d]
    BY <1>1, <1>5
  <2>2. \A i \in 1 .. Len(sets') : i + 1 \in 1 .. Len(sets) /\ sets'[i] = sets[i + 1]
    BY <1>2
  <2>3. ASSUME Obeys(d) PROVE Obeys(d)'
    <3>1. \A i \in 1 .. Len(sets') : sets'[i].door # d
      BY <2>2, <2>3 DEF Obeys
    <3>2. QED
      BY <1>1, <2>1, <2>3, <3>1 DEF Obeys, Agrees
  <2>4. ASSUME Asked(d) PROVE Asked(d)'
    <3>1. PICK k \in 1 .. Len(sets) :
             /\ sets[k].door = d /\ sets[k].key \in Controls(d)
             /\ SwitchesOf(ViewOf(LockCommand(sets[k].key, sets[k].val, db[d]))) = wanted[d]
             /\ \A i \in 1 .. Len(sets) : sets[i].door = d => i = k
      BY <2>4 DEF Asked
    <3> DEFINE h == k - 1
    <3>2. h \in 1 .. Len(sets') /\ sets'[h] = sets[k] /\ \A i \in 1 .. Len(sets') : i + 1 = k => i = h
      BY <1>2, <1>5, <3>1
    <3> HIDE DEF h
    <3>3. \A i \in 1 .. Len(sets') : sets'[i].door = d => i = h
      BY <2>2, <3>1, <3>2
    <3>4. cmd'[d] = <<>> /\ reports'[d] = <<>> /\ lock'[d] = db'[d] /\ \A r \in pending' : r.door # d
      BY <1>1, <2>1, <2>4 DEF Asked
    <3>5. SwitchesOf(ViewOf(LockCommand(sets'[h].key, sets'[h].val, db'[d]))) = wanted'[d]
      BY <1>1, <2>1, <3>1, <3>2
    <3>6. QED
      BY <3>1, <3>2, <3>3, <3>4, <3>5 DEF Asked
  <2>5. QED
    BY <2>3, <2>4 DEF Heeded
<1>6. ASSUME NEW d \in Doors, d = m.door PROVE Obeys(d)'
  <2> DEFINE lm == LockCommand(m.key, m.val, db[d])
  <2>1. m.key \in Switches /\ m.val \in OnOff /\ 1 \in 1 .. Len(sets)
    BY <1>2, <1>3 DEF SetMessages
  <2>2. Asked(d)
    BY <1>2, <1>6, <2>1 DEF Heeded, Obeys
  <2>3. PICK k \in 1 .. Len(sets) :
           /\ sets[k].door = d /\ sets[k].key \in Controls(d)
           /\ SwitchesOf(ViewOf(LockCommand(sets[k].key, sets[k].val, db[d]))) = wanted[d]
           /\ \A i \in 1 .. Len(sets) : sets[i].door = d => i = k
    BY <2>2 DEF Asked
  <2>4. k = 1
    BY <1>2, <1>6, <2>1, <2>3
  <2>5. m.key \in Controls(d) /\ SwitchesOf(ViewOf(lm)) = wanted[d]
    BY <1>2, <2>3, <2>4
  <2>6. ~(d \in CatFlaps /\ m.key = "Curfew")
    BY <2>5 DEF Controls
  <2>7. lm \in LocksOf(d)
    BY <2>1, <2>6, LockCommandType
  <2>8. \A i \in 1 .. Len(sets') : sets'[i].door # d
    <3>1. \A i \in 1 .. Len(sets') : i + 1 \in 1 .. Len(sets) /\ i + 1 # 1
      BY <1>2
    <3>2. QED
      BY <1>2, <2>3, <2>4, <3>1
  <2>9. cmd'[d] = Append(<<>>, lm) /\ reports'[d] = <<>>
    BY <1>1, <1>6, <2>1, <2>2, <2>6 DEF Asked
  <2>n. PICK now \in LocksOf(d) : now = lm
    BY <2>7
  <2> HIDE DEF lm
  <2>10. /\ cmd'[d] \in Seq({now}) /\ cmd'[d] \in Seq({now, Dump}) /\ cmd'[d] # <<>>
         /\ reports'[d] \in Seq(Seq({now}))
    BY <2>9, <2>n
  <2>11. QED
    BY <1>1, <2>5, <2>8, <2>10, <2>n DEF Obeys, Agrees
<1>7. QED
  BY <1>1, <1>4, <1>5, <1>6 DEF Heeded

\* However many commands the device executes at once, when all ask for the mode lm, or
\* leave the lock in it, every frame of its message says so.
LEMMA AllFramesSay ==
  ASSUME NEW d \in Doors, NEW m \in Messages(d), DeviceStep(d, m), NEW lm, lm # Dump,
         cmd[d] \in Seq({lm, Dump}), lock[d] = lm \/ cmd[d] \in Seq({lm})
  PROVE  m \in Seq({lm})
<1> DEFINE Other == {i \in 1 .. Len(m) : m[i] # lm}
           R == OpToRel(<, Nat)
<1>1. /\ Len(m) \in Nat /\ m \in Seq(DoorLocks) /\ Len(cmd[d]) \in Nat /\ Len(m) <= Len(cmd[d])
      /\ \A i \in 1 .. Len(m) : m[i] = Obey(cmd[d][i], IF i = 1 THEN lock[d] ELSE m[i - 1])
  BY MessageParts DEF DeviceStep
<1>2. SUFFICES ASSUME Other # {} PROVE FALSE
  BY <1>1
<1>3. IsWellFoundedOn(R, Nat) /\ \A i, j \in Nat : i < j => <<i, j>> \in R
  BY NatLessThanWellFounded DEF OpToRel
<1>4. Other \subseteq Nat /\ \A i : i \in Other <=> i \in 1 .. Len(m) /\ m[i] # lm
  BY <1>1
<1> HIDE DEF R, Other
<1>5. PICK n \in Other : \A i \in Other : ~ (<<i, n>> \in R)
  BY <1>2, <1>3, <1>4, WFMin
<1>6. n \in 1 .. Len(m) /\ m[n] # lm /\ \A i \in 1 .. n - 1 : m[i] = lm
  <2>1. n \in 1 .. Len(m) /\ m[n] # lm
    BY <1>4, <1>5
  <2>2. \A i \in 1 .. n - 1 : i \in Nat /\ n \in Nat /\ i < n /\ i \in 1 .. Len(m)
    BY <1>1, <2>1
  <2>3. QED
    BY <1>3, <1>4, <1>5, <2>1, <2>2
<1>7. cmd[d][n] \in {lm, Dump} /\ (cmd[d] \in Seq({lm}) => cmd[d][n] = lm)
  BY <1>1, <1>6
<1>8. m[n] = IF n = 1 THEN lock[d] ELSE m[n - 1]
  BY <1>1, <1>6, <1>7 DEF Obey
<1>9. lock[d] = lm
  BY <1>1, <1>6, <1>7 DEF Obey
<1>10. QED
  BY <1>1, <1>6, <1>8, <1>9

\* The device and the broker's bridge.
LEMMA TransportHeeded ==
  ASSUME TypeOK, Heeded, NEW e \in Doors, Transport(e), UNCHANGED wanted
  PROVE  Heeded'
<1>1. /\ cmd \in [Doors -> Seq(DoorLocks \cup {Dump})] /\ reports \in [Doors -> Seq(Seq(DoorLocks))]
      /\ lock \in [Doors -> DoorLocks]
  BY DEF TypeOK, TypedQueues, TypedReports, TypedLocks
<1>2. cmd[e] # <<>> \/ reports[e] # <<>>
  BY DEF Transport, Executes, CommandsAgain, ReportsAgain
<1>3. up /\ UNCHANGED <<up, db, pending, sets, wanted>>
  BY <1>2 DEF Heeded, QuietWhenDown, Transport, Executes, DeviceStep, CommandsAgain, ReportsAgain
<1>4. ASSUME NEW d \in Doors, d # e PROVE Asked(d)' \/ Obeys(d)'
  <2>1. UNCHANGED <<cmd[d], reports[d], lock[d], db[d], wanted[d], sets, pending>>
    BY <1>1, <1>3, <1>4 DEF Transport, Executes, DeviceStep, CommandsAgain, ReportsAgain
  <2>2. QED
    BY <2>1, OtherDoor DEF Heeded
<1>5. Obeys(e)'
  <2>1. PICK lm \in LocksOf(e) :
           /\ SwitchesOf(ViewOf(lm)) = wanted[e]
           /\ cmd[e] \in Seq({lm, Dump}) /\ reports[e] \in Seq(Seq({lm})) /\ Agrees(e, lm)
           /\ lock[e] = lm \/ (cmd[e] # <<>> /\ cmd[e] \in Seq({lm}))
           /\ db[e] = lm \/ cmd[e] # <<>> \/ reports[e] # <<>>
    BY <1>2 DEF Heeded, Asked, Obeys
  <2>2. lm # Dump /\ \A i \in 1 .. Len(sets) : sets[i].door # e
    BY <1>2, LocksAreDoorLocks DEF Heeded, Asked, Obeys, DoorLocks, FlapLocks, Dump
  <2>3. Agrees(e, lm)'
    BY <1>3, <2>1 DEF Agrees
  <2>4. ASSUME NEW m \in Messages(e), DeviceStep(e, m) PROVE Obeys(e)'
    <3>1. m \in Seq({lm})
      BY <2>1, <2>2, <2>4, AllFramesSay
    <3>2. /\ Len(m) \in Nat /\ Last(m) = m[Len(m)] /\ Len(m) >= 1
      BY MessageParts
    <3>3. Last(m) = lm
      BY <3>1, <3>2
    <3>4. /\ lock'[e] = lm /\ reports'[e] = Append(reports[e], m)
          /\ cmd'[e] = SubSeq(cmd[e], Len(m) + 1, Len(cmd[e]))
      BY <1>1, <1>3, <2>4, <3>3 DEF DeviceStep
    <3>5. cmd'[e] \in Seq({lm, Dump})
      <4>1. \A i \in Len(m) + 1 .. Len(cmd[e]) : cmd[e][i] \in {lm, Dump}
        BY <2>1, <3>2
      <4>2. Len(m) + 1 \in 1 .. Len(cmd[e]) + 1
        BY <2>1, <2>4, <3>2 DEF DeviceStep
      <4>3. QED
        BY <2>1, <3>2, <3>4, <4>2, SubSeqProperties
    <3>6. Append(reports[e], m) \in Seq(Seq({lm})) /\ Append(reports[e], m) # <<>>
      BY <2>1, <3>1, AppendProperties
    <3>7. QED
      BY <1>3, <2>1, <2>2, <2>3, <3>4, <3>5, <3>6 DEF Obeys
  <2>5. CASE CommandsAgain(e)
    <3>1. /\ cmd'[e] = cmd[e] \o cmd[e] /\ reports'[e] = reports[e] /\ lock'[e] = lock[e] /\ cmd[e] # <<>>
      BY <1>1, <2>5 DEF CommandsAgain
    <3>2. /\ cmd[e] \o cmd[e] \in Seq({lm, Dump}) /\ cmd[e] \o cmd[e] # <<>>
          /\ cmd[e] \in Seq({lm}) => cmd[e] \o cmd[e] \in Seq({lm})
      BY <2>1, <3>1
    <3>3. QED
      BY <1>3, <2>1, <2>2, <2>3, <3>1, <3>2 DEF Obeys
  <2>6. CASE ReportsAgain(e)
    <3>1. /\ reports'[e] = reports[e] \o reports[e] /\ cmd'[e] = cmd[e] /\ lock'[e] = lock[e]
          /\ reports[e] # <<>>
      BY <1>1, <2>6 DEF ReportsAgain
    <3>2. reports[e] \o reports[e] \in Seq(Seq({lm})) /\ reports[e] \o reports[e] # <<>>
      BY <2>1, <3>1
    <3>3. QED
      BY <1>3, <2>1, <2>2, <2>3, <3>1, <3>2 DEF Obeys
  <2>7. QED
    BY <2>4, <2>5, <2>6 DEF Transport, Executes
<1>6. QED
  BY <1>3, <1>4, <1>5 DEF Heeded, QuietWhenDown

\* The first frame of a message.
LEMMA ReportHeeded ==
  ASSUME TypeOK, Heeded, NEW e \in Doors, DecodeReport(e), UNCHANGED wanted
  PROVE  Heeded'
<1> DEFINE m == Head(reports[e])
<1>1. /\ up /\ UNCHANGED <<up, sets, cmd, lock, wanted>> /\ reports[e] # <<>>
      /\ db' = [db EXCEPT ![e] = Head(m)] /\ reports' = [reports EXCEPT ![e] = Tail(@)]
      /\ pending' = {[door |-> e, first |-> Head(m), left |-> Tail(m)]}
      /\ reports \in [Doors -> Seq(Seq(DoorLocks))] /\ db \in [Doors -> DoorLocks]
  BY DEF DecodeReport, Store, TypeOK, TypedReports, TypedLocks
<1>2. m \in Messages(e)
  BY <1>1 DEF TypeOK, TypedReports
<1> HIDE DEF m
<1>3. ASSUME NEW d \in Doors, d # e PROVE Asked(d)' \/ Obeys(d)'
  <2>1. UNCHANGED <<cmd[d], reports[d], lock[d], db[d], wanted[d], sets>> /\ \A r \in pending' : r.door # d
    BY <1>1, <1>3
  <2>2. QED
    BY <2>1, OtherDoor DEF Heeded
<1>4. Obeys(e)'
  <2>1. PICK lm \in LocksOf(e) :
           /\ SwitchesOf(ViewOf(lm)) = wanted[e]
           /\ cmd[e] \in Seq({lm, Dump}) /\ reports[e] \in Seq(Seq({lm}))
           /\ lock[e] = lm \/ (cmd[e] # <<>> /\ cmd[e] \in Seq({lm}))
    BY <1>1 DEF Heeded, Asked, Obeys
  <2>2. m \in Seq({lm}) /\ Tail(reports[e]) \in Seq(Seq({lm}))
    BY <1>1, <2>1 DEF m
  <2>3. Head(m) = lm /\ Tail(m) \in Seq({lm})
    BY <1>2, <2>2, MessageParts
  <2>4. db'[e] = lm /\ reports'[e] = Tail(reports[e])
    BY <1>1, <2>3
  <2>5. \A i \in 1 .. Len(sets) : sets[i].door # e
    BY <1>1 DEF Heeded, Asked, Obeys
  <2>6. Agrees(e, lm)'
    <3>1. \A r \in pending' : r.first = Head(m) /\ r.left = Tail(m)
      BY <1>1
    <3>2. QED
      BY <2>3, <2>4, <3>1 DEF Agrees
  <2>7. QED
    BY <1>1, <2>1, <2>2, <2>4, <2>5, <2>6 DEF Obeys
<1>5. QED
  BY <1>1, <1>3, <1>4 DEF Heeded, QuietWhenDown

\* The frames after the first, and the first once more, say what is stored already.
LEMMA WorkHeeded ==
  ASSUME TypeOK, Heeded, StoreFrame \/ Publish, UNCHANGED wanted
  PROVE  Heeded'
<1>1. PICK r \in pending : db' = [db EXCEPT ![r.door] = r.first] \/ (r.left # <<>> /\ db' = [db EXCEPT ![r.door] = Head(r.left)])
  BY DEF StoreFrame, Store, Publish
<1>2. /\ up /\ UNCHANGED <<up, sets, cmd, reports, lock>> /\ r.door \in Doors /\ db \in [Doors -> DoorLocks]
      /\ \A s \in pending : s = r
  BY DEF StoreFrame, Publish, TypeOK, PendingOK, TypedLocks
<1>3. /\ Obeys(r.door)
      /\ \A s \in pending' : s.door = r.door /\ s.first = r.first /\ r.left # <<>> /\ s.left = Tail(r.left)
  <2>1. ASSUME StoreFrame PROVE pending' = {[r EXCEPT !.left = Tail(@)]} /\ r.left # <<>>
    BY <1>2, <2>1 DEF StoreFrame
  <2>2. r \in [door : Doors, first : DoorLocks, left : Seq(DoorLocks)]
    BY DEF TypeOK, PendingOK
  <2>3. QED
    BY <1>2, <2>1, <2>2 DEF Heeded, Asked, Publish
<1>4. PICK lm \in LocksOf(r.door) :
         /\ SwitchesOf(ViewOf(lm)) = wanted[r.door]
         /\ cmd[r.door] \in Seq({lm, Dump}) /\ reports[r.door] \in Seq(Seq({lm})) /\ Agrees(r.door, lm)
         /\ lock[r.door] = lm \/ (cmd[r.door] # <<>> /\ cmd[r.door] \in Seq({lm}))
  BY <1>3 DEF Obeys
<1>5. r.first = lm /\ r.left \in Seq({lm}) /\ db[r.door] = lm
  BY <1>4 DEF Agrees
<1>6. db' = db /\ Agrees(r.door, lm)'
  <2>1. r.left # <<>> => Head(r.left) = lm /\ Tail(r.left) \in Seq({lm})
    BY <1>5
  <2>2. db' = db
    BY <1>1, <1>2, <1>5, <2>1
  <2>3. QED
    BY <1>3, <1>5, <2>1, <2>2 DEF Agrees
<1>7. Obeys(r.door)'
  BY <1>2, <1>3, <1>4, <1>5, <1>6 DEF Obeys
<1>8. ASSUME NEW d \in Doors, d # r.door PROVE Asked(d)' \/ Obeys(d)'
  BY <1>2, <1>3, <1>6, <1>8, OtherDoor DEF Heeded
<1>9. QED
  BY <1>2, <1>7, <1>8 DEF Heeded, QuietWhenDown

\* The service ends, and is started again.
LEMMA RestartHeeded ==
  ASSUME TypeOK, Heeded, CalmCrash \/ Start, UNCHANGED wanted
  PROVE  Heeded'
<1>1. CASE CalmCrash
  <2>1. /\ sets' = <<>> /\ pending' = {} /\ UNCHANGED <<db, cmd, lock>>
        /\ reports' = [d \in Doors |-> <<>>]
    BY <1>1 DEF CalmCrash, Crash
  <2>2. ASSUME NEW d \in Doors
        PROVE  cmd'[d] = <<>> /\ reports'[d] = <<>> /\ Obeys(d)'
    <3>1. cmd[d] = <<>> /\ reports[d] = <<>> /\ \A i \in 1 .. Len(sets) : sets[i].door # d
      BY <1>1 DEF CalmCrash, Settled
    <3>2. Obeys(d)
      BY <3>1 DEF Heeded, Asked
    <3>3. \A i \in 1 .. Len(sets') : sets'[i].door # d
      BY <2>1
    <3>4. QED
      BY <2>1, <3>1, <3>2, <3>3 DEF Obeys, Agrees
  <2>3. QED
    BY <2>1, <2>2 DEF Heeded, QuietWhenDown
<1>2. CASE Start
  <2>1. /\ up' /\ UNCHANGED <<db, sets, reports, lock, pending>> /\ sets = <<>> /\ pending = {}
        /\ \A d \in Doors : cmd[d] = <<>> /\ reports[d] = <<>>
    BY <1>2 DEF Start, Heeded, QuietWhenDown
  <2>2. ASSUME NEW d \in Doors PROVE Obeys(d)'
    <3>1. cmd'[d] = <<>> \/ cmd'[d] = Append(<<>>, Dump)
      BY <1>2, <2>1 DEF Start
    <3>2. Obeys(d)
      BY <2>1 DEF Heeded, Asked
    <3>3. PICK lm \in LocksOf(d) : SwitchesOf(ViewOf(lm)) = wanted[d] /\ lock[d] = lm /\ db[d] = lm
      BY <2>1, <3>2 DEF Obeys
    <3>4. \A S : <<>> \in Seq(S) /\ \A x \in S : Append(<<>>, x) \in Seq(S)
      BY EmptySeq, AppendProperties
    <3>5. cmd'[d] \in Seq({lm, Dump}) /\ reports'[d] \in Seq(Seq({lm}))
      BY <2>1, <3>1, <3>4
    <3>6. lock'[d] = lm /\ db'[d] = lm /\ wanted'[d] = wanted[d] /\ sets' = <<>>
      BY <2>1, <3>3
    <3>7. \A i \in 1 .. Len(sets') : sets'[i].door # d
      BY <3>6
    <3>8. QED
      BY <2>1, <3>3, <3>5, <3>6, <3>7 DEF Obeys, Agrees
  <2>3. QED
    BY <2>1, <2>2 DEF Heeded, QuietWhenDown
<1>3. QED
  BY <1>1, <1>2

LEMMA HeededStep ==
  ASSUME NoHabits, TypeOK, HAMatchesDb, Heeded, [UserNext]_userVars
  PROVE  Heeded'
<1>1. CASE UNCHANGED userVars
  BY <1>1, OtherDoor DEF userVars, vars, Heeded, QuietWhenDown
<1>2. CASE \E d \in Doors, key \in Switches, val \in OnOff : Flip(d, key, val)
  BY <1>2, FlipHeeded
<1>3. CASE HandleSet /\ UNCHANGED wanted
  BY <1>3, SetHeeded
<1>4. CASE (\E d \in Doors : DecodeReport(d)) /\ UNCHANGED wanted
  BY <1>4, ReportHeeded
<1>5. CASE (StoreFrame \/ Publish) /\ UNCHANGED wanted
  BY <1>5, WorkHeeded
<1>6. CASE (CalmCrash \/ Start) /\ UNCHANGED wanted
  BY <1>6, RestartHeeded
<1>7. CASE (\E d \in Doors : Transport(d)) /\ UNCHANGED wanted
  BY <1>7, TransportHeeded
<1>8. QED
  BY <1>1, <1>2, <1>3, <1>4, <1>5, <1>6, <1>7 DEF UserNext, Service

\* A door that has settled is locked, and shown, as the user asked for, whatever was sent
\* twice and however often the service was restarted in between: for any doors with the
\* cat flap last, and a user who flips one switch of a settled door at a time.
THEOREM SwitchesAreHeeded ==
  ASSUME FlapIsLast, NoHabits
  PROVE  UserSpec => []SettledAsWanted
<1>1. UserInit => Heeded
  <2> SUFFICES ASSUME UserInit PROVE Heeded
    OBVIOUS
  <2>1. /\ wanted = [d \in Doors |-> SwitchesOf(ViewOf(db[d]))] /\ lock = db /\ sets = <<>> /\ pending = {}
        /\ \A d \in Doors : db[d] \in LocksOf(d) /\ cmd[d] = <<>> /\ reports[d] = <<>>
    BY DEF UserInit, Init
  <2>2. \A lm : SwitchesOf(ViewOf(lm)) \in [Switches -> OnOff]
    BY DEF SwitchesOf, ViewOf, Switches, OnOff, KeepInOf, KeepOutOf, CurfewOf, Switch
  <2>3. ASSUME NEW d \in Doors PROVE Obeys(d)
    <3>1. wanted[d] = SwitchesOf(ViewOf(db[d])) /\ db[d] \in LocksOf(d) /\ lock[d] = db[d]
      BY <2>1
    <3>2. cmd[d] \in Seq({db[d], Dump}) /\ reports[d] \in Seq(Seq({db[d]}))
      BY <2>1, EmptySeq
    <3>3. \A i \in 1 .. Len(sets) : sets[i].door # d
      BY <2>1
    <3>4. QED
      BY <2>1, <3>1, <3>2, <3>3 DEF Obeys, Agrees
  <2>4. QED
    BY <2>1, <2>2, <2>3 DEF Heeded, QuietWhenDown
<1>2. TypeOK /\ HAMatchesDb /\ Heeded /\ [UserNext]_userVars => Heeded'
  BY HeededStep
<1>3. Heeded /\ HAMatchesDb => SettledAsWanted
  <2> SUFFICES ASSUME Heeded, HAMatchesDb, NEW d \in Doors, Settled(d)
               PROVE  SwitchesOf(ha[d]) = wanted[d] /\ SwitchesOf(ViewOf(lock[d])) = wanted[d]
    BY DEF SettledAsWanted
  <2>1. /\ up /\ pending = {} /\ cmd[d] = <<>> /\ reports[d] = <<>>
        /\ \A i \in 1 .. Len(sets) : sets[i].door # d
    BY DEF Settled
  <2>2. Obeys(d)
    BY <2>1 DEF Heeded, Asked
  <2>3. PICK lm \in LocksOf(d) : SwitchesOf(ViewOf(lm)) = wanted[d] /\ lock[d] = lm /\ db[d] = lm
    BY <2>1, <2>2 DEF Obeys
  <2>4. QED
    BY <2>1, <2>3 DEF HAMatchesDb
<1>4. UserSpec => Spec
  BY UserIsEnvironment, PTL DEF UserSpec, Spec
<1>5. QED
  BY <1>1, <1>2, <1>3, <1>4, TypeCorrect, ViewsMatch, PTL DEF UserSpec
=============================================================================
