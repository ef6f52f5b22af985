----------------------------- MODULE BuilderProofs -----------------------------
(***************************************************************************)
(* For every document of the cloud: a build without a failed statement     *)
(* leaves the tables the document describes, and tables the service starts *)
(* from, whatever earlier builds have left and whatever the service writes *)
(* meanwhile.                                                              *)
(*                                                                         *)
(* As long as no statement has failed a build is at one place of its       *)
(* script: group k, statement j.  The invariant says which tables the      *)
(* statements before that place make.                                      *)
(***************************************************************************)
EXTENDS HouseholdProofs

-----------------------------------------------------------------------------
(* The script of a document *)

LEMMA CloudIsTyped ==
    ASSUME NEW c \in Clouds
    PROVE  /\ c.devices \in Seq(Devices) /\ c.pets \in Seq(Pets)
           /\ c.did \in [Pets -> Seq([what : {"activity", "feeding", "drinking"}, at : Devices \cup {NoMac}])]
           /\ c.tags \in [Devices -> Seq(Pets)]
  BY CloudAssumption DEF IsCloud

LEMMA ScriptGroups ==
    ASSUME NEW c \in Clouds
    PROVE  /\ Len(Script(c)) = Len(c.pets) + Len(c.devices)
           /\ \A g \in 1 .. Len(c.pets) : Script(c)[g] = PetStatements(c, c.pets[g])
           /\ \A g \in 1 .. Len(c.devices) :
                 Script(c)[Len(c.pets) + g] = DeviceStatements(c, c.devices[g])
  <1> DEFINE Some == Seq(Statements) \ {<<>>}
             pets == [i \in DOMAIN c.pets |-> PetStatements(c, c.pets[i])]
             devices == [i \in DOMAIN c.devices |-> DeviceStatements(c, c.devices[i])]
  <1>1. c.pets \in Seq(Pets) /\ c.devices \in Seq(Devices)
    BY CloudIsTyped
  <1>2. /\ \A i \in DOMAIN c.pets : PetStatements(c, c.pets[i]) \in Some
        /\ \A i \in DOMAIN c.devices : DeviceStatements(c, c.devices[i]) \in Some
    BY <1>1, PetStatementsTyped, DeviceStatementsTyped
  <1>3. Script(c) = pets \o devices
    BY DEF Script
  <1> HIDE DEF Some
  <1>4. /\ pets \in Seq(Some) /\ Len(pets) = Len(c.pets)
        /\ devices \in Seq(Some) /\ Len(devices) = Len(c.devices)
    BY <1>1, <1>2
  <1>5. /\ \A g \in 1 .. Len(c.pets) : pets[g] = PetStatements(c, c.pets[g])
        /\ \A g \in 1 .. Len(c.devices) : devices[g] = DeviceStatements(c, c.devices[g])
    BY <1>1
  <1>6. Len(c.pets) \in Nat /\ Len(c.devices) \in Nat
    BY <1>1
  <1> HIDE DEF pets, devices
  <1>7. /\ Len(pets \o devices) = Len(pets) + Len(devices)
        /\ \A i \in 1 .. Len(pets) + Len(devices) :
              (pets \o devices)[i] = IF i <= Len(pets) THEN pets[i] ELSE devices[i - Len(pets)]
    BY <1>4, ConcatProperties
  <1>8. ASSUME NEW g \in 1 .. Len(c.pets) PROVE Script(c)[g] = pets[g]
    BY <1>3, <1>4, <1>6, <1>7
  <1>9. ASSUME NEW g \in 1 .. Len(c.devices) PROVE Script(c)[Len(c.pets) + g] = devices[g]
    <2> DEFINE x == Len(pets) + g
    <2>0. Len(pets) \in Nat /\ Len(devices) \in Nat /\ g \in 1 .. Len(devices)
      BY <1>4, <1>6
    <2>1. x \in 1 .. Len(pets) + Len(devices)
      BY <2>0
    <2>2. ~(x <= Len(pets)) /\ x - Len(pets) = g
      BY <2>0
    <2> HIDE DEF x
    <2>3. Script(c)[x] = devices[g]
      BY <1>3, <1>7, <2>1, <2>2
    <2> QED
      BY <1>4, <2>3 DEF x
  <1> QED
    BY <1>3, <1>4, <1>5, <1>7, <1>8, <1>9

LEMMA PetGroup ==
    ASSUME NEW c \in Clouds, NEW p \in Pets
    PROVE  /\ Len(c.did[p]) \in Nat
           /\ Len(PetStatements(c, p)) = 1 + Len(c.did[p])
           /\ PetStatements(c, p)[1] = Into("pets", p, p)
           /\ \A b \in 2 .. 1 + Len(c.did[p]) : PetStatements(c, p)[b] = PetStateStatement(c, p, b - 1)
  <1> DEFINE head == <<Into("pets", p, p)>>
             tail == [i \in DOMAIN c.did[p] |-> PetStateStatement(c, p, i)]
             n == Len(c.did[p])
             S == {PetStateStatement(c, p, i) : i \in 1 .. n} \cup {Into("pets", p, p)}
  <1>1. n \in Nat /\ DOMAIN c.did[p] = 1 .. n
    BY CloudIsTyped
  <1>2. head \in Seq(S) /\ Len(head) = 1 /\ head[1] = Into("pets", p, p)
    OBVIOUS
  <1>3. tail \in [1 .. n -> S]
    BY <1>1
  <1>4. tail \in Seq(S) /\ Len(tail) = n
    BY <1>1, <1>3
  <1>5. \A i \in 1 .. n : tail[i] = PetStateStatement(c, p, i)
    BY <1>1
  <1>6. PetStatements(c, p) = head \o tail
    BY DEF PetStatements
  <1> HIDE DEF head, tail, S
  <1>7. /\ Len(head \o tail) = Len(head) + Len(tail)
        /\ \A i \in 1 .. Len(head) + Len(tail) :
              (head \o tail)[i] = IF i <= Len(head) THEN head[i] ELSE tail[i - Len(head)]
    BY <1>2, <1>4, ConcatProperties
  <1> HIDE DEF n
  <1>8. ASSUME NEW b \in 2 .. 1 + n PROVE PetStatements(c, p)[b] = PetStateStatement(c, p, b - 1)
    BY <1>1, <1>2, <1>4, <1>5, <1>6, <1>7
  <1>9. PetStatements(c, p)[1] = Into("pets", p, p)
    BY <1>1, <1>2, <1>4, <1>6, <1>7
  <1>10. Len(PetStatements(c, p)) = 1 + n
    BY <1>2, <1>4, <1>6, <1>7
  <1> QED
    BY <1>1, <1>8, <1>9, <1>10 DEF n

\* A device's group: the device, then rows of its kind and its tags.
LEMMA DeviceGroup ==
    ASSUME NEW c \in Clouds, NEW m \in Devices
    PROVE  LET g == DeviceStatements(c, m)
               product == ProductStatements(c, m)
               n == Len(product)
           IN  /\ n \in Nat /\ Len(c.tags[m]) \in Nat
               /\ Len(g) = 1 + n + Len(c.tags[m])
               /\ g[1] = Into("devices", m, m)
               /\ \A b \in 1 .. n : g[1 + b] = product[b]
               /\ \A i \in 1 .. Len(c.tags[m]) : g[1 + n + i] = Into("tagmap", <<m, i>>, c.tags[m][i])
  <1> DEFINE Tag(i) == Into("tagmap", <<m, i>>, c.tags[m][i])
             head == <<Into("devices", m, m)>>
             product == ProductStatements(c, m)
             tail == [i \in DOMAIN c.tags[m] |-> Tag(i)]
             n == Len(product)
             l == Len(c.tags[m])
             S == Statements \cup {Tag(i) : i \in 1 .. l} \cup {Into("devices", m, m)}
  <1>1. l \in Nat /\ DOMAIN c.tags[m] = 1 .. l
    BY CloudIsTyped
  <1>2. head \in Seq(S) /\ Len(head) = 1 /\ head[1] = Into("devices", m, m)
    OBVIOUS
  <1> HIDE DEF Tag
  <1>3. tail \in [1 .. l -> S]
    BY <1>1
  <1>4. tail \in Seq(S) /\ Len(tail) = l
    BY <1>1, <1>3
  <1>5. \A i \in 1 .. l : tail[i] = Tag(i)
    BY <1>1
  <1>6. DeviceStatements(c, m) = (head \o product) \o tail
    BY DEF DeviceStatements, Tag
  <1>7. product \in Seq(S) /\ n \in Nat
    <2>1. product \in Seq(Statements)
      BY ProductStatementsTyped
    <2> HIDE DEF product
    <2>2. \A i \in 1 .. n : product[i] \in Statements
      BY <2>1, ElementOfSeq
    <2> QED
      BY <2>1, <2>2
  <1> HIDE DEF head, tail, S, product, l
  <1> DEFINE first == head \o product
  <1>8. /\ first \in Seq(S) /\ Len(first) = 1 + n
        /\ \A i \in 1 .. Len(head) + Len(product) :
              first[i] = IF i <= Len(head) THEN head[i] ELSE product[i - Len(head)]
    BY <1>2, <1>7, ConcatProperties
  <1> HIDE DEF first, n
  <1>9. /\ Len(first \o tail) = Len(first) + Len(tail)
        /\ \A i \in 1 .. Len(first) + Len(tail) :
              (first \o tail)[i] = IF i <= Len(first) THEN first[i] ELSE tail[i - Len(first)]
    BY <1>4, <1>8, ConcatProperties
  <1> DEFINE g == DeviceStatements(c, m)
  <1>10. g = first \o tail
    BY <1>6 DEF first
  <1> HIDE DEF g
  <1>11. Len(g) = 1 + n + l
    BY <1>4, <1>8, <1>9, <1>10
  <1>12. g[1] = Into("devices", m, m)
    BY <1>1, <1>2, <1>4, <1>7, <1>8, <1>9, <1>10 DEF n
  <1>13. ASSUME NEW b \in 1 .. n PROVE g[1 + b] = product[b]
    <2>1. first[1 + b] = product[b]
      BY <1>2, <1>7, <1>8 DEF n
    <2> QED
      BY <1>1, <1>4, <1>7, <1>8, <1>9, <1>10, <2>1
  <1>14. ASSUME NEW i \in 1 .. l PROVE g[1 + n + i] = Tag(i)
    <2> DEFINE x == 1 + n + i
    <2>1. x \in 1 .. Len(first) + Len(tail) /\ ~(x <= Len(first)) /\ x - Len(first) = i
      BY <1>1, <1>4, <1>7, <1>8 DEF n
    <2> HIDE DEF x
    <2>2. g[x] = tail[i]
      BY <1>9, <1>10, <2>1
    <2> QED
      BY <1>1, <1>5, <2>2 DEF x
  <1> QED
    BY <1>1, <1>7, <1>11, <1>12, <1>13, <1>14 DEF g, n, l, product, Tag

-----------------------------------------------------------------------------
(* What the statements before a place of a script make *)

At(c, p) == Script(c)[p[1]][p[2]]

Places(c) == UNION {{a} \X DOMAIN Script(c)[a] : a \in DOMAIN Script(c)}

Earlier(p, q) == p[1] < q[1] \/ (p[1] = q[1] /\ p[2] < q[2])

\* The places before the j-th statement of group k.
Done(c, k, j) == {p \in Places(c) : Earlier(p, <<k, j>>)}

\* That statement is the next one, and all behind it are left.
Left(c, k, j) ==
    /\ k \in 1 .. Len(Script(c)) + 1
    /\ Len(todo) = Len(Script(c)) + 1 - k
    /\ \A i \in 2 .. Len(todo) : todo[i] = Script(c)[i + k - 1]
    /\ IF k > Len(Script(c)) THEN j = 1
       ELSE /\ j \in 1 .. Len(Script(c)[k])
            /\ Len(todo[1]) = Len(Script(c)[k]) + 1 - j
            /\ \A x \in 1 .. Len(todo[1]) : todo[1][x] = Script(c)[k][x + j - 1]

\* The keys that the statements at the places X write into a table.
KeysIn(c, table, X) == {At(c, p).key : p \in {q \in X : At(c, q).table = table}}

\* A row is the one written last.
IsLatest(c, table, key, row, X) ==
    \E p \in X :
        /\ At(c, p) = Into(table, key, row)
        /\ \A q \in X : Earlier(p, q) => ~(At(c, q).table = table /\ At(c, q).key = key)

Rows(f, c, table, X) ==
    /\ f = [key \in DOMAIN f |-> f[key]]
    /\ DOMAIN f = KeysIn(c, table, X)
    /\ \A key \in DOMAIN f : IsLatest(c, table, key, f[key], X)

\* How many devices are inserted.
Listed(c, k, j) ==
    IF k <= Len(c.pets) THEN 0 ELSE IF j > 1 THEN k - Len(c.pets) ELSE k - Len(c.pets) - 1

\* The keys are those of the statements that are done, whatever the service has written;
KeysMade(t, c, k, j) ==
    LET X == Done(c, k, j)
    IN  /\ \A p \in X : At(c, p).table # "raise"
        /\ Len(t.devices) = Listed(c, k, j)
        /\ \A i \in 1 .. Listed(c, k, j) : t.devices[i] = c.devices[i]
        /\ DOMAIN t.hubs = KeysIn(c, "hubs", X) /\ DOMAIN t.doors = KeysIn(c, "doors", X)
        /\ t.feeders = KeysIn(c, "feeders", X) /\ t.counters = KeysIn(c, "counters", X)
        /\ t.pets = KeysIn(c, "pets", X)

\* and the rows are theirs.
RowsMade(t, c, k, j) ==
    LET X == Done(c, k, j)
    IN  /\ Rows(t.hubs, c, "hubs", X) /\ Rows(t.doors, c, "doors", X)
        /\ Rows(t.tagmap, c, "tagmap", X) /\ Rows(t.petstate, c, "petstate", X)

MadeUpTo(k, j) ==
    /\ Left(source, k, j)
    /\ KeysMade(db, source, k, j)
    /\ ~touched => RowsMade(db, source, k, j)

Made ==
    failed = 0 =>
        \E k \in 1 .. Len(Script(source)) + 1 :
            \E j \in 1 .. (IF k > Len(Script(source)) THEN 1 ELSE Len(Script(source)[k])) : MadeUpTo(k, j)

-----------------------------------------------------------------------------
(* Places of a script *)

LEMMA PlacesTyped ==
    ASSUME NEW c \in Clouds
    PROVE  /\ Len(Script(c)) \in Nat
           /\ \A a \in 1 .. Len(Script(c)) :
                 /\ Script(c)[a] \in Seq(Statements) /\ Len(Script(c)[a]) \in Nat
                 /\ 1 <= Len(Script(c)[a])
                 /\ \A b \in 1 .. Len(Script(c)[a]) :
                       <<a, b>> \in Places(c) /\ At(c, <<a, b>>) = Script(c)[a][b] /\ Script(c)[a][b] \in Statements
           /\ \A p \in Places(c) :
                 p = <<p[1], p[2]>> /\ p[1] \in 1 .. Len(Script(c)) /\ p[2] \in 1 .. Len(Script(c)[p[1]])
  <1>1. Script(c) \in Scripts
    BY ScriptTyped
  <1> DEFINE S == Script(c)
  <1>2. S \in Seq(Seq(Statements) \ {<<>>})
    BY <1>1 DEF Scripts
  <1> HIDE DEF S
  <1>3. Len(S) \in Nat /\ DOMAIN S = 1 .. Len(S)
    BY <1>2
  <1>4. ASSUME NEW a \in 1 .. Len(S)
        PROVE  /\ S[a] \in Seq(Statements) /\ Len(S[a]) \in Nat /\ DOMAIN S[a] = 1 .. Len(S[a])
               /\ 1 <= Len(S[a])
               /\ \A b \in 1 .. Len(S[a]) : S[a][b] \in Statements
    <2>1. S[a] \in Seq(Statements) \ {<<>>}
      BY <1>2, ElementOfSeq
    <2> DEFINE g == S[a]
    <2> HIDE DEF g
    <2>2. g \in Seq(Statements) /\ g # <<>>
      BY <2>1 DEF g
    <2>3. Len(g) \in Nat /\ DOMAIN g = 1 .. Len(g) /\ Len(g) # 0
      BY <2>2, EmptySeq
    <2>4. \A b \in 1 .. Len(g) : g[b] \in Statements
      BY <2>2, ElementOfSeq
    <2>5. 1 <= Len(g)
      BY <2>3
    <2> QED
      BY <2>2, <2>3, <2>4, <2>5 DEF g
  <1>5. \A p \in Places(c) : \E a \in DOMAIN S : p \in {a} \X DOMAIN S[a]
    BY DEF Places, S
  <1>6. \A p \in Places(c) : p = <<p[1], p[2]>> /\ p[1] \in 1 .. Len(S) /\ p[2] \in 1 .. Len(S[p[1]])
    BY <1>3, <1>4, <1>5
  <1>7. \A a \in 1 .. Len(S) : \A b \in 1 .. Len(S[a]) : <<a, b>> \in Places(c) /\ At(c, <<a, b>>) = S[a][b]
    BY <1>3, <1>4 DEF Places, At, S
  <1> QED
    BY <1>3, <1>4, <1>6, <1>7 DEF S

LEMMA NothingDone ==
    ASSUME NEW c \in Clouds
    PROVE  Done(c, 1, 1) = {}
  <1> SUFFICES ASSUME NEW p \in Places(c), Earlier(p, <<1, 1>>) PROVE FALSE
    BY DEF Done
  <1>1. p[1] \in 1 .. Len(Script(c)) /\ p[2] \in 1 .. Len(Script(c)[p[1]])
    BY PlacesTyped
  <1> QED
    BY <1>1, PlacesTyped DEF Earlier

LEMMA AllDone ==
    ASSUME NEW c \in Clouds
    PROVE  Done(c, Len(Script(c)) + 1, 1) = Places(c)
  <1> SUFFICES ASSUME NEW p \in Places(c) PROVE Earlier(p, <<Len(Script(c)) + 1, 1>>)
    BY DEF Done
  <1> DEFINE n == Len(Script(c))
             a == p[1]
  <1>1. a \in 1 .. n /\ n \in Nat
    BY PlacesTyped
  <1> HIDE DEF n, a
  <1>2. a < n + 1
    BY <1>1
  <1> QED
    BY <1>2 DEF Earlier, n, a

\* The statement at a place is done; the next place is in the same group or opens the next.
LEMMA DoneNext ==
    ASSUME NEW c \in Clouds, NEW k \in 1 .. Len(Script(c)), NEW j \in 1 .. Len(Script(c)[k])
    PROVE  /\ \A p \in Done(c, k, j) : Earlier(p, <<k, j>>) /\ ~Earlier(<<k, j>>, p)
           /\ ~Earlier(<<k, j>>, <<k, j>>)
           /\ j < Len(Script(c)[k]) => Done(c, k, j + 1) = Done(c, k, j) \cup {<<k, j>>}
           /\ j = Len(Script(c)[k]) => Done(c, k + 1, 1) = Done(c, k, j) \cup {<<k, j>>}
  <1> DEFINE l == Len(Script(c)[k])
             Pl == Places(c)
  <1>1. /\ k \in Nat /\ j \in Nat /\ l \in Nat
        /\ \A p \in Pl : p = <<p[1], p[2]>> /\ p[1] \in Nat /\ p[2] \in Nat
                           /\ p[2] >= 1 /\ (p[1] = k => p[2] <= l)
        /\ <<k, j>> \in Pl
    <2>1. k \in Nat /\ j \in Nat /\ l \in Nat /\ <<k, j>> \in Pl
      BY PlacesTyped
    <2>2. ASSUME NEW p \in Pl
          PROVE  p = <<p[1], p[2]>> /\ p[1] \in Nat /\ p[2] \in Nat /\ p[2] >= 1 /\ (p[1] = k => p[2] <= l)
      <3> DEFINE a == p[1]
                 b == p[2]
                 m == Len(Script(c)[a])
      <3>1. p = <<a, b>> /\ a \in 1 .. Len(Script(c)) /\ b \in 1 .. m /\ Len(Script(c)) \in Nat /\ m \in Nat
        BY PlacesTyped
      <3>2. a = k => m = l
        OBVIOUS
      <3> HIDE DEF a, b, m, l
      <3>3. a \in Nat /\ b \in Nat /\ b >= 1 /\ (a = k => b <= l)
        BY <3>1, <3>2
      <3> QED
        BY <3>1, <3>3 DEF a, b
    <2> QED
      BY <2>1, <2>2
  <1>2. \A x, y : Done(c, x, y) = {p \in Pl : p[1] < x \/ (p[1] = x /\ p[2] < y)}
    BY DEF Done, Earlier
  <1>3. \A p \in Pl : Earlier(p, <<k, j>>) <=> (p[1] < k \/ (p[1] = k /\ p[2] < j))
    BY DEF Earlier
  <1>4. \A p \in Pl : Earlier(<<k, j>>, p) <=> (k < p[1] \/ (p[1] = k /\ j < p[2]))
    BY DEF Earlier
  <1> HIDE DEF l, Pl
  <1>5. \A p \in Done(c, k, j) : Earlier(p, <<k, j>>)
    BY <1>2, <1>3
  <1>6. \A p \in Done(c, k, j) : ~Earlier(<<k, j>>, p)
    BY <1>1, <1>2, <1>4
  <1>7. ~Earlier(<<k, j>>, <<k, j>>)
    BY <1>1 DEF Earlier
  <1>8. ASSUME NEW x, NEW y, \/ j < l /\ x = k /\ y = j + 1
                             \/ j = l /\ x = k + 1 /\ y = 1
        PROVE  Done(c, x, y) = Done(c, k, j) \cup {<<k, j>>}
    <2>1. ASSUME NEW p \in Pl
          PROVE  (p[1] < x \/ (p[1] = x /\ p[2] < y)) <=> (p[1] < k \/ (p[1] = k /\ p[2] < j)) \/ (p[1] = k /\ p[2] = j)
      <3> DEFINE a == p[1]
                 b == p[2]
      <3>1. a \in Nat /\ b \in Nat /\ b >= 1 /\ (a = k => b <= l)
        BY <1>1
      <3> HIDE DEF a, b
      <3>2. (a < x \/ (a = x /\ b < y)) <=> (a < k \/ (a = k /\ b < j)) \/ (a = k /\ b = j)
        <4>1. CASE j < l /\ x = k /\ y = j + 1
          BY <1>1, <3>1, <4>1
        <4>2. CASE j = l /\ x = k + 1 /\ y = 1
          BY <1>1, <3>1, <4>2
        <4> QED
          BY <1>8, <4>1, <4>2
      <3> QED
        BY <3>2 DEF a, b
    <2>2. \A p \in Pl : p = <<k, j>> <=> (p[1] = k /\ p[2] = j)
      BY <1>1
    <2> QED
      BY <1>1, <1>2, <2>1, <2>2
  <1> QED
    BY <1>5, <1>6, <1>7, <1>8 DEF l

-----------------------------------------------------------------------------
(* Keys and rows *)

LEMMA KeysNext ==
    ASSUME NEW c, NEW table, NEW X, NEW p
    PROVE  KeysIn(c, table, X \cup {p}) =
               IF At(c, p).table = table THEN KeysIn(c, table, X) \cup {At(c, p).key} ELSE KeysIn(c, table, X)
  BY DEF KeysIn

LEMMA RowsNext ==
    ASSUME NEW c, NEW table, NEW X, NEW p, NEW f, Rows(f, c, table, X),
           \A q \in X : Earlier(q, p) /\ ~Earlier(p, q), ~Earlier(p, p),
           At(c, p) = Into(At(c, p).table, At(c, p).key, At(c, p).row)
    PROVE  Rows(IF At(c, p).table = table THEN Put(f, At(c, p).key, At(c, p).row) ELSE f,
                c, table, X \cup {p})
  <1> DEFINE s == At(c, p)
             g == IF s.table = table THEN Put(f, s.key, s.row) ELSE f
  <1>1. DOMAIN g = KeysIn(c, table, X \cup {p})
    BY KeysNext DEF Rows, Put
  <1>2. g = [key \in DOMAIN g |-> g[key]]
    BY DEF Rows, Put
  <1>3. ASSUME NEW key \in DOMAIN g
        PROVE  IsLatest(c, table, key, g[key], X \cup {p})
    <2>1. CASE s.table = table /\ key = s.key
      <3>1. g[key] = s.row
        BY <2>1 DEF Put
      <3> HIDE DEF g
      <3> QED
        BY <2>1, <3>1 DEF IsLatest
    <2>2. CASE ~(s.table = table /\ key = s.key)
      <3>1. key \in DOMAIN f /\ g[key] = f[key]
        BY <2>2 DEF Put
      <3>2. IsLatest(c, table, key, f[key], X)
        BY <3>1 DEF Rows
      <3> HIDE DEF g
      <3> QED
        BY <2>2, <3>1, <3>2 DEF IsLatest
    <2> QED
      BY <2>1, <2>2
  <1> HIDE DEF g
  <1>4. Rows(g, c, table, X \cup {p})
    BY <1>1, <1>2, <1>3 DEF Rows
  <1> QED
    BY <1>4 DEF g

\* What a statement does to each of the tables.
LEMMA InsertParts ==
    ASSUME NEW t, IsStore(t), NEW s \in Statements, s.table # "raise"
    PROVE  /\ Insert(t, s).devices = IF s.table = "devices" THEN Append(t.devices, s.key) ELSE t.devices
           /\ Insert(t, s).hubs = IF s.table = "hubs" THEN Put(t.hubs, s.key, s.row) ELSE t.hubs
           /\ Insert(t, s).doors = IF s.table = "doors" THEN Put(t.doors, s.key, s.row) ELSE t.doors
           /\ Insert(t, s).feeders = IF s.table = "feeders" THEN t.feeders \cup {s.key} ELSE t.feeders
           /\ Insert(t, s).counters = IF s.table = "counters" THEN t.counters \cup {s.key} ELSE t.counters
           /\ Insert(t, s).tagmap = IF s.table = "tagmap" THEN Put(t.tagmap, s.key, s.row) ELSE t.tagmap
           /\ Insert(t, s).pets = IF s.table = "pets" THEN t.pets \cup {s.key} ELSE t.pets
           /\ Insert(t, s).petstate = IF s.table = "petstate" THEN Put(t.petstate, s.key, s.row) ELSE t.petstate
  <1>1. t = [devices |-> t.devices, hubs |-> t.hubs, doors |-> t.doors, feeders |-> t.feeders,
             counters |-> t.counters, tagmap |-> t.tagmap, pets |-> t.pets, petstate |-> t.petstate]
    BY DEF IsStore, IsTables
  <1>2. CASE s.table = "devices"
    BY <1>1, <1>2 DEF Insert
  <1>3. CASE s.table = "hubs"
    BY <1>1, <1>3 DEF Insert
  <1>4. CASE s.table = "doors"
    BY <1>1, <1>4 DEF Insert
  <1>5. CASE s.table = "feeders"
    BY <1>1, <1>5 DEF Insert
  <1>6. CASE s.table = "counters"
    BY <1>1, <1>6 DEF Insert
  <1>7. CASE s.table = "tagmap"
    BY <1>1, <1>7 DEF Insert
  <1>8. CASE s.table = "pets"
    BY <1>1, <1>8 DEF Insert
  <1>9. CASE s.table = "petstate"
    BY <1>1, <1>9 DEF Insert
  <1>10. s.table \in {"devices", "hubs", "doors", "feeders", "counters", "tagmap", "pets", "petstate"}
    BY DEF Statements, Raise, Into
  <1> QED
    BY <1>2, <1>3, <1>4, <1>5, <1>6, <1>7, <1>8, <1>9, <1>10

-----------------------------------------------------------------------------
(* The statement at each place *)

LEMMA PetPlace ==
    ASSUME NEW c \in Clouds, NEW a \in 1 .. Len(c.pets)
    PROVE  LET p == c.pets[a]
           IN  /\ p \in Pets /\ a \in 1 .. Len(Script(c)) /\ Len(c.did[p]) \in Nat
               /\ Len(Script(c)[a]) = 1 + Len(c.did[p])
               /\ At(c, <<a, 1>>) = Into("pets", p, p)
               /\ \A b \in 2 .. 1 + Len(c.did[p]) : At(c, <<a, b>>) = PetStateStatement(c, p, b - 1)
  <1> DEFINE p == c.pets[a]
  <1>1. c.pets \in Seq(Pets) /\ c.devices \in Seq(Devices)
    BY CloudIsTyped
  <1>2. p \in Pets /\ Len(c.pets) \in Nat /\ Len(c.devices) \in Nat
    BY <1>1, ElementOfSeq
  <1>3. Len(Script(c)) = Len(c.pets) + Len(c.devices) /\ Script(c)[a] = PetStatements(c, p)
    BY ScriptGroups
  <1>4. a \in 1 .. Len(Script(c))
    <2> DEFINE M == Len(c.pets)
               D == Len(c.devices)
    <2>1. M \in Nat /\ D \in Nat /\ a \in 1 .. M /\ Len(Script(c)) = M + D
      BY <1>2, <1>3
    <2> HIDE DEF M, D
    <2> QED
      BY <2>1
  <1> HIDE DEF p
  <1>5. \A b : At(c, <<a, b>>) = PetStatements(c, p)[b]
    BY <1>3 DEF At
  <1> QED
    BY <1>2, <1>3, <1>4, <1>5, PetGroup DEF p

LEMMA DevicePlace ==
    ASSUME NEW c \in Clouds, NEW i \in 1 .. Len(c.devices)
    PROVE  LET m == c.devices[i]
               a == Len(c.pets) + i
               product == ProductStatements(c, m)
               n == Len(product)
           IN  /\ m \in Devices /\ a \in 1 .. Len(Script(c)) /\ n \in Nat /\ Len(c.tags[m]) \in Nat
               /\ Len(Script(c)[a]) = 1 + n + Len(c.tags[m])
               /\ At(c, <<a, 1>>) = Into("devices", m, m)
               /\ \A b \in 1 .. n : At(c, <<a, 1 + b>>) = product[b]
               /\ \A b \in 1 .. Len(c.tags[m]) :
                     At(c, <<a, 1 + n + b>>) = Into("tagmap", <<m, b>>, c.tags[m][b])
  <1> DEFINE m == c.devices[i]
             a == Len(c.pets) + i
  <1>1. c.pets \in Seq(Pets) /\ c.devices \in Seq(Devices)
    BY CloudIsTyped
  <1>2. m \in Devices /\ Len(c.pets) \in Nat /\ Len(c.devices) \in Nat
    BY <1>1, ElementOfSeq
  <1>3. Len(Script(c)) = Len(c.pets) + Len(c.devices) /\ Script(c)[a] = DeviceStatements(c, m)
    BY ScriptGroups
  <1>4. a \in 1 .. Len(Script(c))
    <2> DEFINE M == Len(c.pets)
               D == Len(c.devices)
    <2>1. M \in Nat /\ D \in Nat /\ i \in 1 .. D /\ Len(Script(c)) = M + D /\ a = M + i
      BY <1>2, <1>3
    <2> HIDE DEF M, D, a
    <2> QED
      BY <2>1
  <1> HIDE DEF m, a
  <1>5. \A b : At(c, <<a, b>>) = DeviceStatements(c, m)[b]
    BY <1>3 DEF At
  <1> DEFINE product == ProductStatements(c, m)
             n == Len(product)
             g == DeviceStatements(c, m)
  <1>6. /\ n \in Nat /\ Len(c.tags[m]) \in Nat /\ Len(g) = 1 + n + Len(c.tags[m])
        /\ g[1] = Into("devices", m, m)
        /\ \A b \in 1 .. n : g[1 + b] = product[b]
        /\ \A b \in 1 .. Len(c.tags[m]) : g[1 + n + b] = Into("tagmap", <<m, b>>, c.tags[m][b])
    BY <1>2, DeviceGroup
  <1> HIDE DEF n, g
  <1>7. m \in Devices /\ a \in 1 .. Len(Script(c)) /\ Len(Script(c)[a]) = Len(g)
    BY <1>2, <1>3, <1>4 DEF g
  <1>8. \A b : At(c, <<a, b>>) = g[b]
    BY <1>5 DEF g
  <1> HIDE DEF product
  <1> QED
    BY <1>6, <1>7, <1>8 DEF m, a, n, product

\* What a place holds, the other way round.
LEMMA PlaceKinds ==
    ASSUME NEW c \in Clouds, NEW p \in Places(c)
    PROVE  \/ \E a \in 1 .. Len(c.pets) :
                 /\ p[1] = a /\ c.pets[a] \in Pets
                 /\ \/ p[2] = 1 /\ At(c, p) = Into("pets", c.pets[a], c.pets[a])
                    \/ \E b \in 1 .. Len(c.did[c.pets[a]]) :
                          p[2] = b + 1 /\ At(c, p) = PetStateStatement(c, c.pets[a], b)
           \/ \E i \in 1 .. Len(c.devices) :
                 /\ p[1] = Len(c.pets) + i /\ c.devices[i] \in Devices
                 /\ \/ p[2] = 1 /\ At(c, p) = Into("devices", c.devices[i], c.devices[i])
                    \/ /\ p[2] # 1
                       /\ \E b \in 1 .. Len(ProductStatements(c, c.devices[i])) :
                             At(c, p) = ProductStatements(c, c.devices[i])[b]
                    \/ /\ p[2] # 1
                       /\ \E b \in 1 .. Len(c.tags[c.devices[i]]) :
                             At(c, p) = Into("tagmap", <<c.devices[i], b>>, c.tags[c.devices[i]][b])
  <1> DEFINE x == p[1]
             y == p[2]
             M == Len(c.pets)
             D == Len(c.devices)
             l == Len(Script(c)[x])
  <1>1. p = <<x, y>> /\ x \in 1 .. Len(Script(c)) /\ y \in 1 .. l /\ l \in Nat
    BY PlacesTyped
  <1>2. Len(Script(c)) = M + D /\ M \in Nat /\ D \in Nat
    <2>1. c.pets \in Seq(Pets) /\ c.devices \in Seq(Devices)
      BY CloudIsTyped
    <2>2. M \in Nat /\ D \in Nat
      BY <2>1
    <2>3. Len(Script(c)) = M + D
      BY ScriptGroups
    <2> QED
      BY <2>2, <2>3
  <1> HIDE DEF x, y, M, D
  <1>3. CASE x \in 1 .. M
    <2> DEFINE q == c.pets[x]
               n == Len(c.did[q])
    <2>1. /\ q \in Pets /\ n \in Nat /\ l = 1 + n
          /\ At(c, <<x, 1>>) = Into("pets", q, q)
          /\ \A b \in 2 .. 1 + n : At(c, <<x, b>>) = PetStateStatement(c, q, b - 1)
      BY <1>3, PetPlace DEF M
    <2> HIDE DEF q, n, l
    <2>2. CASE y = 1
      BY <1>1, <1>3, <2>1, <2>2 DEF q, M, x, y
    <2>3. CASE y # 1
      <3>1. PICK b \in 1 .. n : y = b + 1
        <4>1. y - 1 \in 1 .. n /\ y = (y - 1) + 1
          BY <1>1, <2>1, <2>3
        <4> QED
          BY <4>1
      <3>2. y \in 2 .. 1 + n /\ y - 1 = b
        BY <2>1, <3>1
      <3>3. At(c, p) = PetStateStatement(c, q, b)
        BY <1>1, <2>1, <3>2
      <3> QED
        BY <1>1, <1>3, <2>1, <3>1, <3>3 DEF q, n, M, x, y
    <2> QED
      BY <2>2, <2>3
  <1>4. CASE x \notin 1 .. M
    <2>0. PICK i \in 1 .. D : x = M + i
      <3>1. x - M \in 1 .. D /\ x = M + (x - M)
        BY <1>1, <1>2, <1>4
      <3> QED
        BY <3>1
    <2> DEFINE m == c.devices[i]
               n == Len(ProductStatements(c, m))
               g == Len(c.tags[m])
    <2>1. /\ m \in Devices /\ n \in Nat /\ g \in Nat /\ l = 1 + n + g
          /\ At(c, <<x, 1>>) = Into("devices", m, m)
          /\ \A b \in 1 .. n : At(c, <<x, 1 + b>>) = ProductStatements(c, m)[b]
          /\ \A b \in 1 .. g : At(c, <<x, 1 + n + b>>) = Into("tagmap", <<m, b>>, c.tags[m][b])
      BY <2>0, DevicePlace DEF M, D
    <2> HIDE DEF m, n, g, l
    <2>2. CASE y = 1
      BY <1>1, <2>0, <2>1, <2>2 DEF m, M, D, x, y
    <2>3. CASE y # 1 /\ y <= 1 + n
      <3>1. PICK b \in 1 .. n : y = 1 + b
        <4>1. y - 1 \in 1 .. n /\ y = 1 + (y - 1)
          BY <1>1, <2>1, <2>3
        <4> QED
          BY <4>1
      <3>2. At(c, p) = ProductStatements(c, m)[b]
        BY <1>1, <2>1, <3>1
      <3> QED
        BY <2>0, <2>1, <2>3, <3>2 DEF m, n, M, D, x, y
    <2>4. CASE ~(y <= 1 + n)
      <3>1. PICK b \in 1 .. g : y = 1 + n + b
        <4>0. y \in Nat /\ n \in Nat /\ g \in Nat /\ y <= 1 + n + g
          BY <1>1, <2>1
        <4>1. y - 1 - n \in 1 .. g /\ y = 1 + n + (y - 1 - n)
          BY <2>4, <4>0
        <4> QED
          BY <4>1
      <3>2. At(c, p) = Into("tagmap", <<m, b>>, c.tags[m][b]) /\ y # 1
        BY <1>1, <2>1, <3>1
      <3> QED
        BY <2>0, <2>1, <3>2 DEF m, g, M, D, x, y
    <2> QED
      BY <2>2, <2>3, <2>4
  <1> QED
    BY <1>3, <1>4

\* The rows of a device's kind.
LEMMA ProductKinds ==
    ASSUME NEW c \in Clouds, NEW m \in Devices
    PROVE  LET product == ProductStatements(c, m)
           IN  /\ m = Hub => product = <<Into("hubs", m, HubRow(c))>>
               /\ m \in PetDoors => product = <<Into("doors", m, DoorRow(c, m))>>
               /\ m \in CatFlaps => product = <<Into("doors", m, DoorRow(c, m)), Into("counters", m, m)>>
               /\ m \in Bowls => product = <<Into("feeders", m, m), Into("counters", m, m)>>
               /\ \A b \in 1 .. Len(product) :
                     \/ m = Hub /\ product[b] = Into("hubs", m, HubRow(c))
                     \/ m \in Doors /\ product[b] = Into("doors", m, DoorRow(c, m))
                     \/ m \in Bowls /\ product[b] = Into("feeders", m, m)
                     \/ m \in Bowls \cup CatFlaps /\ product[b] = Into("counters", m, m)
  <1> DEFINE product == ProductStatements(c, m)
  <1>1. /\ m = Hub => product = <<Into("hubs", m, HubRow(c))>>
        /\ m \in PetDoors => product = <<Into("doors", m, DoorRow(c, m))>>
        /\ m \in CatFlaps => product = <<Into("doors", m, DoorRow(c, m)), Into("counters", m, m)>>
        /\ m \in Bowls => product = <<Into("feeders", m, m), Into("counters", m, m)>>
    BY CloudAssumption DEF ProductStatements, Doors
  <1> HIDE DEF product
  <1>2. m = Hub \/ m \in PetDoors \/ m \in CatFlaps \/ m \in Bowls
    BY DEF Devices, Doors
  <1>3. CASE m = Hub
    <2> DEFINE u == Into("hubs", m, HubRow(c))
    <2>1. product = <<u>>
      BY <1>1, <1>3
    <2> HIDE DEF u
    <2>2. \A b \in 1 .. Len(product) : product[b] = u
      BY <2>1
    <2> QED
      BY <1>1, <1>3, <2>2 DEF u, product
  <1>4. CASE m \in PetDoors
    <2> DEFINE u == Into("doors", m, DoorRow(c, m))
    <2>1. product = <<u>>
      BY <1>1, <1>4
    <2> HIDE DEF u
    <2>2. \A b \in 1 .. Len(product) : product[b] = u
      BY <2>1
    <2> QED
      BY <1>1, <1>4, <2>2 DEF Doors, u, product
  <1>5. CASE m \in CatFlaps
    <2> DEFINE u == Into("doors", m, DoorRow(c, m))
               v == Into("counters", m, m)
    <2>1. product = <<u, v>>
      BY <1>1, <1>5
    <2> HIDE DEF u, v
    <2>2. \A b \in 1 .. Len(product) : product[b] = u \/ product[b] = v
      BY <2>1
    <2> QED
      BY <1>1, <1>5, <2>2 DEF Doors, u, v, product
  <1>6. CASE m \in Bowls
    <2> DEFINE u == Into("feeders", m, m)
               v == Into("counters", m, m)
    <2>1. product = <<u, v>>
      BY <1>1, <1>6
    <2> HIDE DEF u, v
    <2>2. \A b \in 1 .. Len(product) : product[b] = u \/ product[b] = v
      BY <2>1
    <2> QED
      BY <1>1, <1>6, <2>2 DEF u, v, product
  <1> QED
    BY <1>1, <1>2, <1>3, <1>4, <1>5, <1>6 DEF product

-----------------------------------------------------------------------------
(* One step of a build *)

\* The place behind <<k, j>>.
IsNext(c, k, j, x, y) ==
    \/ j < Len(Script(c)[k]) /\ x = k /\ y = j + 1
    \/ j = Len(Script(c)[k]) /\ x = k + 1 /\ y = 1

LEMMA ListedNext ==
    ASSUME NEW c \in Clouds, NEW k \in 1 .. Len(Script(c)), NEW j \in 1 .. Len(Script(c)[k]),
           NEW x, NEW y, IsNext(c, k, j, x, y)
    PROVE  /\ Listed(c, k, j) \in Nat
           /\ Listed(c, x, y) = IF At(c, <<k, j>>).table = "devices" THEN Listed(c, k, j) + 1 ELSE Listed(c, k, j)
           /\ At(c, <<k, j>>).table = "devices" => At(c, <<k, j>>).key = c.devices[Listed(c, x, y)]
  <1> DEFINE M == Len(c.pets)
             p == <<k, j>>
             s == At(c, p)
  <1>1. /\ M \in Nat /\ k \in Nat /\ j \in Nat /\ 1 <= k /\ 1 <= j
        /\ p \in Places(c) /\ p[1] = k /\ p[2] = j
    <2>1. c.pets \in Seq(Pets)
      BY CloudIsTyped
    <2>2. M \in Nat
      BY <2>1
    <2>3. p \in Places(c) /\ Len(Script(c)[k]) \in Nat /\ Len(Script(c)) \in Nat
      BY PlacesTyped
    <2> QED
      BY <2>2, <2>3
  <1>2. (x = k /\ y = j + 1) \/ (x = k + 1 /\ y = 1)
    BY DEF IsNext
  <1>3. \A u, v : Listed(c, u, v) = IF u <= M THEN 0 ELSE IF v > 1 THEN u - M ELSE u - M - 1
    BY DEF Listed
  <1> HIDE DEF p, M
  <1>4. CASE \E a \in 1 .. M : k = a /\ s.table # "devices"
    <2>1. k <= M /\ s.table # "devices"
      BY <1>1, <1>4
    <2>2. Listed(c, k, j) = 0 /\ Listed(c, x, y) = 0
      BY <1>1, <1>2, <1>3, <2>1
    <2> QED
      BY <2>1, <2>2 DEF p
  <1>5. CASE \E i \in 1 .. Len(c.devices) : k = M + i /\ j = 1 /\ s.table = "devices" /\ s.key = c.devices[i]
    <2>1. PICK i \in 1 .. Len(c.devices) : k = M + i /\ j = 1 /\ s.table = "devices" /\ s.key = c.devices[i]
      BY <1>5
    <2>2. i \in Nat /\ i >= 1
      BY CloudIsTyped
    <2>3. Listed(c, k, j) = i - 1 /\ Listed(c, x, y) = i
      BY <1>1, <1>2, <1>3, <2>1, <2>2
    <2> QED
      BY <2>1, <2>2, <2>3 DEF p
  <1>6. CASE \E i \in 1 .. Len(c.devices) : k = M + i /\ j # 1 /\ s.table # "devices"
    <2>1. PICK i \in 1 .. Len(c.devices) : k = M + i /\ j # 1 /\ s.table # "devices"
      BY <1>6
    <2>2. i \in Nat /\ i >= 1
      BY CloudIsTyped
    <2>3. Listed(c, k, j) = i /\ Listed(c, x, y) = i
      BY <1>1, <1>2, <1>3, <2>1, <2>2
    <2> QED
      BY <2>1, <2>2, <2>3 DEF p
  <1>7. \/ \E a \in 1 .. M : k = a /\ s.table # "devices"
        \/ \E i \in 1 .. Len(c.devices) :
              \/ k = M + i /\ j = 1 /\ s.table = "devices" /\ s.key = c.devices[i]
              \/ k = M + i /\ j # 1 /\ s.table # "devices"
    <2>1. CASE \E a \in 1 .. M :
                 /\ k = a /\ c.pets[a] \in Pets
                 /\ \/ s = Into("pets", c.pets[a], c.pets[a])
                    \/ \E b \in 1 .. Len(c.did[c.pets[a]]) : s = PetStateStatement(c, c.pets[a], b)
      BY <2>1 DEF PetStateStatement, Into, Raise
    <2>2. CASE \E i \in 1 .. Len(c.devices) :
                 /\ k = M + i /\ c.devices[i] \in Devices
                 /\ \/ j = 1 /\ s = Into("devices", c.devices[i], c.devices[i])
                    \/ /\ j # 1
                       /\ \E b \in 1 .. Len(ProductStatements(c, c.devices[i])) :
                             s = ProductStatements(c, c.devices[i])[b]
                    \/ /\ j # 1
                       /\ \E b \in 1 .. Len(c.tags[c.devices[i]]) :
                             s = Into("tagmap", <<c.devices[i], b>>, c.tags[c.devices[i]][b])
      <3>1. PICK i \in 1 .. Len(c.devices) :
                 /\ k = M + i /\ c.devices[i] \in Devices
                 /\ \/ j = 1 /\ s = Into("devices", c.devices[i], c.devices[i])
                    \/ /\ j # 1
                       /\ \E b \in 1 .. Len(ProductStatements(c, c.devices[i])) :
                             s = ProductStatements(c, c.devices[i])[b]
                    \/ /\ j # 1
                       /\ \E b \in 1 .. Len(c.tags[c.devices[i]]) :
                             s = Into("tagmap", <<c.devices[i], b>>, c.tags[c.devices[i]][b])
        BY <2>2
      <3> DEFINE m == c.devices[i]
                 product == ProductStatements(c, m)
      <3>2. \A b \in 1 .. Len(product) : product[b].table # "devices"
        <4>1. \A b \in 1 .. Len(product) :
                 \/ product[b] = Into("hubs", m, HubRow(c)) \/ product[b] = Into("doors", m, DoorRow(c, m))
                 \/ product[b] = Into("feeders", m, m) \/ product[b] = Into("counters", m, m)
          BY <3>1, ProductKinds
        <4> HIDE DEF product
        <4> QED
          BY <4>1 DEF Into
      <3> HIDE DEF product, s
      <3>3. CASE j = 1 /\ s = Into("devices", m, m)
        BY <3>1, <3>3 DEF Into
      <3>4. CASE j # 1 /\ s.table # "devices"
        BY <3>1, <3>4
      <3> QED
        BY <3>1, <3>2, <3>3, <3>4 DEF Into, product
    <2>3. \/ \E a \in 1 .. M :
                 /\ k = a /\ c.pets[a] \in Pets
                 /\ \/ s = Into("pets", c.pets[a], c.pets[a])
                    \/ \E b \in 1 .. Len(c.did[c.pets[a]]) : s = PetStateStatement(c, c.pets[a], b)
          \/ \E i \in 1 .. Len(c.devices) :
                 /\ k = M + i /\ c.devices[i] \in Devices
                 /\ \/ j = 1 /\ s = Into("devices", c.devices[i], c.devices[i])
                    \/ /\ j # 1
                       /\ \E b \in 1 .. Len(ProductStatements(c, c.devices[i])) :
                             s = ProductStatements(c, c.devices[i])[b]
                    \/ /\ j # 1
                       /\ \E b \in 1 .. Len(c.tags[c.devices[i]]) :
                             s = Into("tagmap", <<c.devices[i], b>>, c.tags[c.devices[i]][b])
      <3> HIDE DEF s
      <3>1. \A q \in {p} : q = p
        OBVIOUS
      <3> QED
        BY <1>1, PlaceKinds DEF M, s
    <2> QED
      BY <2>1, <2>2, <2>3
  <1> QED
    BY <1>4, <1>5, <1>6, <1>7

\* What is done moves on with the statement that is executed.
LEMMA InsertMakes ==
    ASSUME NEW c \in Clouds, NEW k \in 1 .. Len(Script(c)), NEW j \in 1 .. Len(Script(c)[k]),
           NEW x, NEW y, IsNext(c, k, j, x, y), NEW t, IsStore(t),
           At(c, <<k, j>>).table # "raise", KeysMade(t, c, k, j)
    PROVE  LET u == Insert(t, At(c, <<k, j>>))
           IN  /\ KeysMade(u, c, x, y)
               /\ RowsMade(t, c, k, j) => RowsMade(u, c, x, y)
  <1> DEFINE p == <<k, j>>
             s == At(c, p)
             u == Insert(t, s)
             X == Done(c, k, j)
  <1>1. Done(c, x, y) = X \cup {p} /\ (\A q \in X : Earlier(q, p) /\ ~Earlier(p, q)) /\ ~Earlier(p, p)
    BY DoneNext DEF IsNext
  <1>2. s \in Statements /\ s = Into(s.table, s.key, s.row)
    <2>1. s \in Statements
      BY PlacesTyped
    <2> HIDE DEF s
    <2> QED
      BY <2>1 DEF Statements, Into, Raise
  <1> HIDE DEF p
  <1> DEFINE Parts ==
          /\ u.devices = IF s.table = "devices" THEN Append(t.devices, s.key) ELSE t.devices
          /\ u.hubs = IF s.table = "hubs" THEN Put(t.hubs, s.key, s.row) ELSE t.hubs
          /\ u.doors = IF s.table = "doors" THEN Put(t.doors, s.key, s.row) ELSE t.doors
          /\ u.feeders = IF s.table = "feeders" THEN t.feeders \cup {s.key} ELSE t.feeders
          /\ u.counters = IF s.table = "counters" THEN t.counters \cup {s.key} ELSE t.counters
          /\ u.tagmap = IF s.table = "tagmap" THEN Put(t.tagmap, s.key, s.row) ELSE t.tagmap
          /\ u.pets = IF s.table = "pets" THEN t.pets \cup {s.key} ELSE t.pets
          /\ u.petstate = IF s.table = "petstate" THEN Put(t.petstate, s.key, s.row) ELSE t.petstate
  <1>3. Parts
    BY <1>2, InsertParts DEF p
  <1> HIDE DEF u
  <1>4. \A table : KeysIn(c, table, X \cup {p}) =
            IF s.table = table THEN KeysIn(c, table, X) \cup {s.key} ELSE KeysIn(c, table, X)
    <2> HIDE DEF X
    <2> QED
      BY DEF KeysIn
  <1>5. /\ \A q \in X : At(c, q).table # "raise"
        /\ Len(t.devices) = Listed(c, k, j)
        /\ \A i \in 1 .. Listed(c, k, j) : t.devices[i] = c.devices[i]
        /\ DOMAIN t.hubs = KeysIn(c, "hubs", X) /\ DOMAIN t.doors = KeysIn(c, "doors", X)
        /\ t.feeders = KeysIn(c, "feeders", X) /\ t.counters = KeysIn(c, "counters", X)
        /\ t.pets = KeysIn(c, "pets", X)
    BY DEF KeysMade
  <1>6. /\ DOMAIN Put(t.hubs, s.key, s.row) = DOMAIN t.hubs \cup {s.key}
        /\ DOMAIN Put(t.doors, s.key, s.row) = DOMAIN t.doors \cup {s.key}
    BY DEF Put
  <1>7. Len(u.devices) = Listed(c, x, y) /\ \A i \in 1 .. Listed(c, x, y) : u.devices[i] = c.devices[i]
    <2> DEFINE n == Listed(c, k, j)
               l == Listed(c, x, y)
    <2>1. /\ n \in Nat /\ l = IF s.table = "devices" THEN n + 1 ELSE n
          /\ s.table = "devices" => s.key = c.devices[l]
      BY ListedNext DEF p
    <2> HIDE DEF n, l
    <2>2. CASE s.table = "devices"
      <3>1. s.key \in Devices
        BY <1>2, <2>2 DEF Statements, Raise, Into
      <3>2. t.devices \in Seq(Devices) /\ Len(t.devices) = n
        BY <1>5 DEF IsStore, IsTables, n
      <3>3. u.devices = Append(t.devices, s.key)
        BY <1>3, <2>2
      <3> DEFINE old == t.devices
                 new == u.devices
                 key == s.key
      <3> HIDE DEF old, new, key
      <3>4. /\ Len(new) = n + 1
            /\ \A i \in 1 .. n : new[i] = old[i]
            /\ new[n + 1] = key
        <4>1. old \in Seq(Devices) /\ Len(old) = n /\ key \in Devices /\ new = Append(old, key)
          BY <3>1, <3>2, <3>3 DEF old, new, key
        <4> QED
          BY <4>1, <2>1, AppendProperties
      <3>5. \A i \in 1 .. n : old[i] = c.devices[i]
        BY <1>5 DEF n, old
      <3>6. key = c.devices[l] /\ l = n + 1
        BY <2>1, <2>2 DEF key
      <3>7. ASSUME NEW i \in 1 .. l PROVE new[i] = c.devices[i]
        <4>1. i = n + 1 \/ i \in 1 .. n
          BY <2>1, <3>6
        <4> QED
          BY <3>4, <3>5, <3>6, <4>1
      <3> QED
        BY <3>4, <3>6, <3>7 DEF l, new
    <2>3. CASE s.table # "devices"
      BY <1>3, <1>5, <2>1, <2>3 DEF n, l
    <2> QED
      BY <2>2, <2>3
  <1>8. KeysMade(u, c, x, y)
    <2>1. \A q \in X \cup {p} : At(c, q).table # "raise"
      BY <1>5 DEF p
    <2>2. DOMAIN u.hubs = KeysIn(c, "hubs", X \cup {p}) /\ DOMAIN u.doors = KeysIn(c, "doors", X \cup {p})
      <3> HIDE DEF s, X
      <3>1. /\ u.hubs = IF s.table = "hubs" THEN Put(t.hubs, s.key, s.row) ELSE t.hubs
            /\ u.doors = IF s.table = "doors" THEN Put(t.doors, s.key, s.row) ELSE t.doors
        BY <1>3
      <3>2. DOMAIN u.hubs = IF s.table = "hubs" THEN DOMAIN t.hubs \cup {s.key} ELSE DOMAIN t.hubs
        <4>1. CASE s.table = "hubs"
          BY <1>6, <3>1, <4>1
        <4>2. CASE s.table # "hubs"
          BY <3>1, <4>2
        <4> QED
          BY <4>1, <4>2
      <3>3. DOMAIN u.doors = IF s.table = "doors" THEN DOMAIN t.doors \cup {s.key} ELSE DOMAIN t.doors
        <4>1. CASE s.table = "doors"
          BY <1>6, <3>1, <4>1
        <4>2. CASE s.table # "doors"
          BY <3>1, <4>2
        <4> QED
          BY <4>1, <4>2
      <3> QED
        BY <1>4, <1>5, <3>2, <3>3
    <2>3. /\ u.feeders = KeysIn(c, "feeders", X \cup {p}) /\ u.counters = KeysIn(c, "counters", X \cup {p})
          /\ u.pets = KeysIn(c, "pets", X \cup {p})
      BY <1>3, <1>4, <1>5
    <2> QED
      BY <1>1, <1>7, <2>1, <2>2, <2>3 DEF KeysMade
  <1>9. ASSUME RowsMade(t, c, k, j) PROVE RowsMade(u, c, x, y)
    <2>1. /\ Rows(t.hubs, c, "hubs", X) /\ Rows(t.doors, c, "doors", X)
          /\ Rows(t.tagmap, c, "tagmap", X) /\ Rows(t.petstate, c, "petstate", X)
      BY <1>9 DEF RowsMade
    <2>2. ASSUME NEW f, NEW table, Rows(f, c, table, X)
          PROVE  Rows(IF s.table = table THEN Put(f, s.key, s.row) ELSE f, c, table, X \cup {p})
      BY <1>1, <1>2, <2>2, RowsNext
    <2> HIDE DEF X, s
    <2>3. Rows(u.hubs, c, "hubs", X \cup {p})
      BY <1>3, <2>1, <2>2
    <2>4. Rows(u.doors, c, "doors", X \cup {p})
      BY <1>3, <2>1, <2>2
    <2>5. Rows(u.tagmap, c, "tagmap", X \cup {p})
      BY <1>3, <2>1, <2>2
    <2>6. Rows(u.petstate, c, "petstate", X \cup {p})
      BY <1>3, <2>1, <2>2
    <2> QED
      BY <1>1, <2>3, <2>4, <2>5, <2>6 DEF RowsMade
  <1> QED
    BY <1>8, <1>9 DEF u, p

\* What is left moves on as well.
LEMMA RestIsLeft ==
    ASSUME NEW c \in Clouds, todo \in Scripts, todo # <<>>, NEW k, NEW j, Left(c, k, j), todo' = Rest
    PROVE  /\ k \in 1 .. Len(Script(c)) /\ j \in 1 .. Len(Script(c)[k])
           /\ Statement = At(c, <<k, j>>)
           /\ \E x, y : IsNext(c, k, j, x, y) /\ Left(c, x, y)'
  <1> DEFINE N == Len(Script(c))
             Some == Seq(Statements) \ {<<>>}
  <1>1. /\ N \in Nat /\ k \in 1 .. N + 1
        /\ \A a \in 1 .. N : Len(Script(c)[a]) \in Nat /\ 1 <= Len(Script(c)[a])
    BY PlacesTyped DEF Left
  <1>2. todo \in Seq(Some)
    BY DEF Scripts
  <1>3. Len(todo) = N + 1 - k /\ \A i \in 2 .. Len(todo) : todo[i] = Script(c)[i + k - 1]
    BY DEF Left
  <1> HIDE DEF N, Some
  <1>4. Len(todo) \in Nat /\ Len(todo) >= 1 /\ k \in 1 .. N /\ ~(k > N)
    <2>1. Len(todo) \in Nat /\ Len(todo) # 0
      BY <1>2, EmptySeq
    <2> QED
      BY <1>1, <1>3, <2>1
  <1> DEFINE l == Len(Script(c)[k])
             g == todo[1]
             rest == Tail(todo)
  <1>5. /\ j \in 1 .. l /\ Len(g) = l + 1 - j
        /\ \A i \in 1 .. Len(g) : g[i] = Script(c)[k][i + j - 1]
    BY <1>4 DEF Left, N
  <1>6. l \in Nat /\ 1 <= l
    BY <1>1, <1>4
  <1>7. Head(todo) = g /\ g \in Seq(Statements)
    BY <1>2, <1>4, ElementOfSeq DEF Some
  <1>8. /\ rest \in Seq(Some) /\ Len(rest) = Len(todo) - 1
        /\ \A i \in 1 .. Len(rest) : rest[i] = todo[i + 1]
    BY <1>2, <1>4, HeadTailProperties
  <1> HIDE DEF l, g, rest
  <1>9. Len(g) \in Nat /\ Len(g) >= 1
    BY <1>5, <1>6
  <1>10. Statement = At(c, <<k, j>>)
    <2>1. Head(g) = g[1] /\ g[1] = Script(c)[k][1 + j - 1] /\ 1 + j - 1 = j
      BY <1>5, <1>6, <1>7, <1>9
    <2> QED
      BY <1>7, <2>1 DEF Statement, At
  <1>11. ASSUME j < l PROVE IsNext(c, k, j, k, j + 1) /\ Left(c, k, j + 1)'
    <2> DEFINE h == Tail(g)
    <2>1. Len(g) > 1
      BY <1>5, <1>6, <1>11
    <2>2. /\ h \in Seq(Statements) /\ Len(h) = Len(g) - 1
          /\ \A i \in 1 .. Len(h) : h[i] = g[i + 1]
      BY <1>7, <1>9, HeadTailProperties
    <2> HIDE DEF h
    <2>3. h \in Some
      <3>1. Len(h) # 0
        BY <1>9, <2>1, <2>2
      <3> QED
        BY <2>2, <3>1 DEF Some
    <2>4. todo' = <<h>> \o rest
      BY <1>7, <2>1 DEF Rest, h, rest
    <2> DEFINE new == <<h>> \o rest
    <2>5. /\ Len(new) = Len(todo) /\ new[1] = h
          /\ \A i \in 2 .. Len(todo) : new[i] = todo[i]
      <3>0. <<h>> \in Seq(Some) /\ Len(<<h>>) = 1 /\ <<h>>[1] = h
        BY <2>3
      <3> DEFINE one == <<h>>
      <3> HIDE DEF one
      <3>1. /\ Len(one \o rest) = Len(one) + Len(rest)
            /\ \A i \in 1 .. Len(one) + Len(rest) :
                  (one \o rest)[i] = IF i <= Len(one) THEN one[i] ELSE rest[i - Len(one)]
        BY <1>8, <3>0, ConcatProperties DEF one
      <3>2. Len(one) = 1 /\ one[1] = h
        BY <3>0 DEF one
      <3>3. Len(rest) \in Nat /\ 1 + Len(rest) = Len(todo)
        BY <1>4, <1>8
      <3>4. (one \o rest)[1] = h /\ Len(one \o rest) = Len(todo)
        BY <3>1, <3>2, <3>3
      <3>5. ASSUME NEW i \in 2 .. Len(todo) PROVE (one \o rest)[i] = todo[i]
        <4>1. i \in 1 .. 1 + Len(rest) /\ ~(i <= 1) /\ i - 1 \in 1 .. Len(rest) /\ (i - 1) + 1 = i
          BY <1>4, <3>3
        <4>2. (one \o rest)[i] = rest[i - 1]
          BY <3>1, <3>2, <4>1
        <4>3. rest[i - 1] = todo[(i - 1) + 1]
          BY <1>8, <4>1
        <4> QED
          BY <4>1, <4>2, <4>3
      <3> QED
        BY <3>4, <3>5 DEF one
    <2>6. j + 1 \in 1 .. l /\ Len(h) = l + 1 - (j + 1)
      BY <1>5, <1>6, <1>9, <1>11, <2>2
    <2>7. ASSUME NEW i \in 1 .. Len(h) PROVE h[i] = Script(c)[k][i + (j + 1) - 1]
      <3>1. i + 1 \in 1 .. Len(g) /\ (i + 1) + j - 1 = i + (j + 1) - 1
        BY <1>5, <1>6, <1>9, <2>2
      <3>2. h[i] = g[i + 1]
        BY <2>2
      <3>3. g[i + 1] = Script(c)[k][(i + 1) + j - 1]
        BY <1>5, <3>1
      <3> QED
        BY <3>1, <3>2, <3>3
    <2> HIDE DEF new
    <2>8. todo' = new
      BY <2>4 DEF new
    <2>9. Left(c, k, j + 1)'
      BY <1>1, <1>3, <1>4, <2>5, <2>6, <2>7, <2>8 DEF Left, N, l
    <2> QED
      BY <1>11, <2>9 DEF IsNext, l
  <1>12. ASSUME j = l PROVE IsNext(c, k, j, k + 1, 1) /\ Left(c, k + 1, 1)'
    <2>1. todo' = rest
      <3>1. ~(Len(g) > 1)
        BY <1>5, <1>6, <1>12
      <3> QED
        BY <1>7, <3>1 DEF Rest, rest
    <2>2. Len(rest) \in Nat /\ Len(rest) = N + 1 - (k + 1) /\ k + 1 \in 1 .. N + 1
      BY <1>1, <1>3, <1>4, <1>8
    <2>3. ASSUME NEW i \in 1 .. Len(rest) PROVE rest[i] = Script(c)[i + (k + 1) - 1]
      <3>1. i + 1 \in 2 .. Len(todo) /\ (i + 1) + k - 1 = i + (k + 1) - 1
        BY <1>4, <1>8, <2>2
      <3>2. rest[i] = todo[i + 1]
        BY <1>8
      <3>3. todo[i + 1] = Script(c)[(i + 1) + k - 1]
        BY <1>3, <3>1
      <3> QED
        BY <3>1, <3>2, <3>3
    <2>4. ASSUME ~(k + 1 > N)
          PROVE  /\ 1 \in 1 .. Len(Script(c)[k + 1]) /\ Len(rest[1]) = Len(Script(c)[k + 1]) + 1 - 1
                 /\ \A x \in 1 .. Len(rest[1]) : rest[1][x] = Script(c)[k + 1][x + 1 - 1]
      <3>1. 1 \in 1 .. Len(rest) /\ 1 + (k + 1) - 1 = k + 1 /\ k + 1 \in 1 .. N
        BY <1>1, <1>4, <2>2, <2>4
      <3>2. rest[1] = Script(c)[k + 1]
        BY <2>3, <3>1
      <3> DEFINE s == Script(c)[k + 1]
      <3>3. Len(s) \in Nat /\ 1 <= Len(s)
        BY <1>1, <3>1
      <3> HIDE DEF s
      <3>4. 1 \in 1 .. Len(s) /\ Len(s) = Len(s) + 1 - 1 /\ \A x \in 1 .. Len(s) : s[x] = s[x + 1 - 1]
        BY <3>3
      <3> QED
        BY <3>2, <3>4 DEF s
    <2>5. \A i \in 2 .. Len(rest) : rest[i] = Script(c)[i + (k + 1) - 1]
      BY <2>2, <2>3
    <2>6. Left(c, k + 1, 1)'
      BY <2>1, <2>2, <2>4, <2>5 DEF Left, N
    <2> QED
      BY <1>12, <2>6 DEF IsNext, l
  <1>13. j < l \/ j = l
    BY <1>5, <1>6
  <1> QED
    BY <1>4, <1>5, <1>10, <1>11, <1>12, <1>13 DEF N, l

\* A new build is at its first statement, and has made nothing.
LEMMA CreatedIsMade ==
    ASSUME NEW c \in Clouds, todo' = Script(c)
    PROVE  Left(c, 1, 1)' /\ KeysMade(Empty, c, 1, 1) /\ RowsMade(Empty, c, 1, 1)
  <1> DEFINE N == Len(Script(c))
  <1>1. /\ N \in Nat /\ Len(todo') = N
        /\ \A a \in 1 .. N : Len(Script(c)[a]) \in Nat /\ 1 <= Len(Script(c)[a])
    BY PlacesTyped
  <1>2. Left(c, 1, 1)'
    <2>1. \A i \in 2 .. N : todo'[i] = Script(c)[i + 1 - 1]
      BY <1>1
    <2>2. ASSUME ~(1 > N)
          PROVE  /\ 1 \in 1 .. Len(Script(c)[1]) /\ Len(todo'[1]) = Len(Script(c)[1]) + 1 - 1
                 /\ \A x \in 1 .. Len(todo'[1]) : todo'[1][x] = Script(c)[1][x + 1 - 1]
      <3> DEFINE s == Script(c)[1]
      <3>1. Len(s) \in Nat /\ 1 <= Len(s)
        BY <1>1, <2>2
      <3> HIDE DEF s
      <3>2. 1 \in 1 .. Len(s) /\ Len(s) = Len(s) + 1 - 1 /\ \A x \in 1 .. Len(s) : s[x] = s[x + 1 - 1]
        BY <3>1
      <3> QED
        BY <3>2 DEF s
    <2> HIDE DEF N
    <2>3. 1 \in 1 .. N + 1 /\ N = N + 1 - 1
      BY <1>1
    <2> QED
      BY <1>1, <2>1, <2>2, <2>3 DEF Left, N
  <1>3. Listed(c, 1, 1) = 0
    <2> DEFINE M == Len(c.pets)
    <2>1. M \in Nat
      BY CloudIsTyped
    <2>2. Listed(c, 1, 1) = IF 1 <= M THEN 0 ELSE 1 - M - 1
      BY DEF Listed
    <2> HIDE DEF M
    <2> QED
      BY <2>1, <2>2
  <1>4. \A table : KeysIn(c, table, {}) = {}
    BY DEF KeysIn
  <1>5. KeysMade(Empty, c, 1, 1)
    <2>1. /\ Empty.devices = <<>> /\ DOMAIN Empty.hubs = {} /\ DOMAIN Empty.doors = {}
          /\ Empty.feeders = {} /\ Empty.counters = {} /\ Empty.pets = {}
      BY DEF Empty, NoRows
    <2>2. Len(Empty.devices) = 0 /\ \A i \in 1 .. 0 : Empty.devices[i] = c.devices[i]
      BY <2>1
    <2>3. \A p \in {} : At(c, p).table # "raise"
      OBVIOUS
    <2> QED
      BY <1>3, <1>4, <2>1, <2>2, <2>3, NothingDone DEF KeysMade
  <1>6. RowsMade(Empty, c, 1, 1)
    BY <1>4, NothingDone DEF RowsMade, Rows, Empty, NoRows
  <1> QED
    BY <1>2, <1>5, <1>6

-----------------------------------------------------------------------------
(* Every step *)

\* The service writes to rows there are, and a write is noted.
LEMMA ServiceKeepsKeys ==
    ASSUME Types, [Next]_houseVars, ~Build, ~BuildStops
    PROVE  /\ todo' = todo /\ source' = source /\ failed' = failed
           /\ SameKeys(db, db')
           /\ ~touched' => ~touched /\ db' = db
  <1> DEFINE m == Head(inbox)
  <1>0. IsStore(db) /\ SameKeys(db, db)
    BY DEF Types, BuildTypes, SameKeys
  <1>1. CASE UNCHANGED buildVars
    BY <1>0, <1>1 DEF buildVars
  <1>2. CASE Decode
    <2>1. m \in Messages
      BY <1>2 DEF Decode, Types, ServiceTypes
    <2> HIDE DEF m
    <2>2. SameKeys(db, Stored(m))
      BY <1>0, <2>1, StoredKept
    <2>3. todo' = todo /\ source' = source /\ failed' = failed /\ db' = Stored(m)
      BY <1>2 DEF Decode, m
    <2>4. ~touched' => ~touched /\ db' = db
      BY <1>2, Zenon DEF Decode
    <2> QED
      BY <2>2, <2>3, <2>4
  <1>3. CASE Return
    <2>1. PICK p \in pending : db' = StoredAgain(p) /\ touched' = (touched \/ db' # db)
      BY <1>3 DEF Return
    <2>2. SameKeys(db, StoredAgain(p))
      BY <1>0, StoredAgainKept DEF Types, ServiceTypes
    <2>3. todo' = todo /\ source' = source /\ failed' = failed
      BY <1>3 DEF Return
    <2>4. ~touched' => ~touched /\ db' = db
      BY <2>1, Zenon
    <2> QED
      BY <2>1, <2>2, <2>3, <2>4
  <1>4. CASE Die
    <2>1. m \in Messages
      BY <1>4 DEF Die, Types, ServiceTypes
    <2> HIDE DEF m
    <2>2. SameKeys(db, Stored(m))
      BY <1>0, <2>1, StoredKept
    <2>3. todo' = todo /\ source' = source /\ failed' = failed /\ (db' = Stored(m) \/ db' = db)
      BY <1>4 DEF Die, Down, m
    <2>4. ~touched' => ~touched /\ db' = db
      BY <1>4, Zenon DEF Die
    <2> QED
      BY <1>0, <2>2, <2>3, <2>4
  <1>5. CASE Crash
    BY <1>1, <1>5 DEF Crash, Down, buildVars
  <1>6. CASE Environment \/ Start \/ StartFails \/ UNCHANGED houseVars
    <2>1. Environment => UNCHANGED buildVars
      BY DEF Environment, HubSwitches, HubUptime, SendAgain, Passage, DoorObeys, CommandLost,
                  CliCurfew, Movement, CurfewLock, SetTimes
    <2>2. Start \/ StartFails \/ UNCHANGED houseVars => UNCHANGED buildVars
      BY DEF Start, StartFails, houseVars
    <2> QED
      BY <1>1, <1>6, <2>1, <2>2
  <1> QED
    BY <1>2, <1>3, <1>4, <1>5, <1>6 DEF Next

LEMMA MadeStep == Types /\ Made /\ [Next]_houseVars => Made'
  <1> SUFFICES ASSUME Types, Made, [Next]_houseVars, failed' = 0 PROVE Made'
    BY DEF Made
  <1>0. ASSUME NEW k, NEW j, MadeUpTo(k, j)' PROVE Made'
    <2>1. Left(source, k, j)'
      BY <1>0 DEF MadeUpTo
    <2>2. /\ k \in 1 .. Len(Script(source')) + 1
          /\ j \in 1 .. (IF k > Len(Script(source')) THEN 1 ELSE Len(Script(source')[k]))
      BY <2>1 DEF Left
    <2> QED
      BY <1>0, <2>2 DEF Made
  <1>1. IsStore(db) /\ todo \in Scripts /\ source \in Clouds /\ failed \in Nat
    BY DEF Types, BuildTypes
  <1>2. CASE ~Build /\ ~BuildStops
    <2>1. /\ todo' = todo /\ source' = source /\ failed' = failed
          /\ SameKeys(db, db')
          /\ ~touched' => ~touched /\ db' = db
      BY <1>2, ServiceKeepsKeys
    <2>2. PICK k, j : MadeUpTo(k, j)
      BY <2>1 DEF Made
    <2>3. Left(source, k, j)'
      BY <2>1, <2>2 DEF MadeUpTo, Left
    <2>4. KeysMade(db, source, k, j)'
      <3>1. KeysMade(db, source, k, j)
        BY <2>2 DEF MadeUpTo
      <3>2. KeysMade(db', source, k, j)
        BY <2>1, <3>1 DEF KeysMade, SameKeys
      <3> QED
        BY <2>1, <3>2
    <2>5. ~touched' => RowsMade(db, source, k, j)'
      BY <2>1, <2>2 DEF MadeUpTo
    <2> QED
      BY <1>0, <2>3, <2>4, <2>5 DEF MadeUpTo
  <1>3. CASE BuildStops
    BY <1>1, <1>3 DEF BuildStops, BuildEnds
  <1>4. ASSUME NEW c \in Clouds, DropAndCreate(c) PROVE Made'
    <2>1. todo' = Script(c) /\ db' = Empty /\ source' = c
      BY <1>4 DEF DropAndCreate
    <2>2. Left(c, 1, 1)' /\ KeysMade(Empty, c, 1, 1) /\ RowsMade(Empty, c, 1, 1)
      BY <2>1, CreatedIsMade
    <2>3. MadeUpTo(1, 1)'
      BY <2>1, <2>2 DEF MadeUpTo
    <2> QED
      BY <1>0, <2>3
  <1>5. ASSUME InsertRow PROVE Made'
    <2>1. /\ todo # <<>> /\ Statement.table # "raise" /\ todo' = Rest
          /\ source' = source /\ touched' = touched
          /\ failed = 0 /\ db' = Insert(db, Statement)
      BY <1>1, <1>5 DEF InsertRow
    <2>2. PICK k, j : MadeUpTo(k, j)
      BY <2>1 DEF Made
    <2>3. /\ k \in 1 .. Len(Script(source)) /\ j \in 1 .. Len(Script(source)[k])
          /\ Statement = At(source, <<k, j>>)
          /\ \E x, y : IsNext(source, k, j, x, y) /\ Left(source, x, y)'
      <3> DEFINE c == source
      <3>1. c \in Clouds /\ Left(c, k, j)
        BY <1>1, <2>2 DEF MadeUpTo
      <3>2. ASSUME NEW d \in Clouds, d = source
            PROVE  /\ k \in 1 .. Len(Script(d)) /\ j \in 1 .. Len(Script(d)[k])
                   /\ Statement = At(d, <<k, j>>)
                   /\ \E x, y : IsNext(d, k, j, x, y) /\ Left(d, x, y)'
        BY <1>1, <2>1, <3>1, <3>2, RestIsLeft
      <3> QED
        BY <1>1, <2>1, <3>2
    <2>4. PICK x, y : IsNext(source, k, j, x, y) /\ Left(source, x, y)'
      BY <2>3
    <2>5. /\ KeysMade(db', source, x, y)
          /\ RowsMade(db, source, k, j) => RowsMade(db', source, x, y)
      BY <1>1, <2>1, <2>2, <2>3, <2>4, InsertMakes DEF MadeUpTo
    <2>6. MadeUpTo(x, y)'
      BY <2>1, <2>2, <2>4, <2>5 DEF MadeUpTo
    <2> QED
      BY <1>0, <2>6
  <1> QED
    BY <1>2, <1>3, <1>4, <1>5 DEF Build

-----------------------------------------------------------------------------
(* A script that was executed to its end *)

\* The statements there are ...
LEMMA Written ==
    ASSUME NEW c \in Clouds, NEW p \in Places(c), At(c, p).table # "raise"
    PROVE  LET s == At(c, p)
           IN  \/ \E q \in ToSet(c.pets) : s = Into("pets", q, q)
               \/ \E a \in 1 .. Len(c.pets) : \E b \in 1 .. Len(c.did[c.pets[a]]) :
                     p = <<a, b + 1>> /\ s = Into("petstate", <<c.pets[a], NoMac>>, c.did[c.pets[a]][b].what)
               \/ \E m \in ToSet(c.devices) :
                     \/ s = Into("devices", m, m)
                     \/ m = Hub /\ s = Into("hubs", m, HubRow(c))
                     \/ m \in Doors /\ s = Into("doors", m, DoorRow(c, m))
                     \/ m \in Bowls /\ s = Into("feeders", m, m)
                     \/ m \in Bowls \cup CatFlaps /\ s = Into("counters", m, m)
                     \/ \E b \in 1 .. Len(c.tags[m]) : s = Into("tagmap", <<m, b>>, c.tags[m][b])
  <1> DEFINE s == At(c, p)
             x == p[1]
             y == p[2]
             Row(m) ==
                     \/ s = Into("devices", m, m)
                     \/ m = Hub /\ s = Into("hubs", m, HubRow(c))
                     \/ m \in Doors /\ s = Into("doors", m, DoorRow(c, m))
                     \/ m \in Bowls /\ s = Into("feeders", m, m)
                     \/ m \in Bowls \cup CatFlaps /\ s = Into("counters", m, m)
                     \/ \E b \in 1 .. Len(c.tags[m]) : s = Into("tagmap", <<m, b>>, c.tags[m][b])
  <1>1. /\ c.pets \in Seq(Pets) /\ c.devices \in Seq(Devices)
        /\ ToSet(c.pets) = {c.pets[i] : i \in 1 .. Len(c.pets)}
        /\ ToSet(c.devices) = {c.devices[i] : i \in 1 .. Len(c.devices)}
    <2>1. c.pets \in Seq(Pets) /\ c.devices \in Seq(Devices)
      BY CloudIsTyped
    <2> QED
      BY <2>1 DEF ToSet
  <1>2. p = <<x, y>>
    BY PlacesTyped
  <1>3. \A q, b : PetStateStatement(c, q, b) = Raise
                  \/ PetStateStatement(c, q, b) = Into("petstate", <<q, NoMac>>, c.did[q][b].what)
    BY DEF PetStateStatement
  <1>4. s # Raise
    BY DEF Raise, Into
  <1> HIDE DEF x, y, s
  <1>5. CASE \E a \in 1 .. Len(c.pets) :
                 /\ x = a /\ c.pets[a] \in Pets
                 /\ \/ y = 1 /\ s = Into("pets", c.pets[a], c.pets[a])
                    \/ \E b \in 1 .. Len(c.did[c.pets[a]]) :
                          y = b + 1 /\ s = PetStateStatement(c, c.pets[a], b)
    <2>1. PICK a \in 1 .. Len(c.pets) :
                 /\ x = a /\ c.pets[a] \in Pets
                 /\ \/ y = 1 /\ s = Into("pets", c.pets[a], c.pets[a])
                    \/ \E b \in 1 .. Len(c.did[c.pets[a]]) :
                          y = b + 1 /\ s = PetStateStatement(c, c.pets[a], b)
      BY <1>5
    <2>2. CASE s = Into("pets", c.pets[a], c.pets[a])
      BY <1>1, <2>2 DEF s
    <2>3. CASE \E b \in 1 .. Len(c.did[c.pets[a]]) : y = b + 1 /\ s = PetStateStatement(c, c.pets[a], b)
      <3>1. PICK b \in 1 .. Len(c.did[c.pets[a]]) : y = b + 1 /\ s = PetStateStatement(c, c.pets[a], b)
        BY <2>3
      <3>2. s = Into("petstate", <<c.pets[a], NoMac>>, c.did[c.pets[a]][b].what)
        BY <1>3, <1>4, <3>1
      <3> QED
        BY <1>2, <2>1, <3>1, <3>2 DEF s
    <2> QED
      BY <2>1, <2>2, <2>3
  <1>6. CASE \E i \in 1 .. Len(c.devices) :
                 /\ c.devices[i] \in Devices
                 /\ \/ s = Into("devices", c.devices[i], c.devices[i])
                    \/ \E b \in 1 .. Len(ProductStatements(c, c.devices[i])) :
                             s = ProductStatements(c, c.devices[i])[b]
                    \/ \E b \in 1 .. Len(c.tags[c.devices[i]]) :
                             s = Into("tagmap", <<c.devices[i], b>>, c.tags[c.devices[i]][b])
    <2>1. PICK i \in 1 .. Len(c.devices) :
                 /\ c.devices[i] \in Devices
                 /\ \/ s = Into("devices", c.devices[i], c.devices[i])
                    \/ \E b \in 1 .. Len(ProductStatements(c, c.devices[i])) :
                             s = ProductStatements(c, c.devices[i])[b]
                    \/ \E b \in 1 .. Len(c.tags[c.devices[i]]) :
                             s = Into("tagmap", <<c.devices[i], b>>, c.tags[c.devices[i]][b])
      BY <1>6
    <2> DEFINE m == c.devices[i]
    <2>2. m \in ToSet(c.devices) /\ m \in Devices
      BY <1>1, <2>1
    <2>3. CASE \E b \in 1 .. Len(ProductStatements(c, m)) : s = ProductStatements(c, m)[b]
      <3>1. PICK b \in 1 .. Len(ProductStatements(c, m)) : s = ProductStatements(c, m)[b]
        BY <2>3
      <3> HIDE DEF m
      <3>2. Row(m)
        BY <2>2, <3>1, ProductKinds
      <3> QED
        BY <2>2, <3>2 DEF s
    <2>4. CASE \/ s = Into("devices", m, m)
               \/ \E b \in 1 .. Len(c.tags[m]) : s = Into("tagmap", <<m, b>>, c.tags[m][b])
      <3> HIDE DEF m
      <3>1. Row(m)
        BY <2>4
      <3> QED
        BY <2>2, <3>1 DEF s
    <2> QED
      BY <2>1, <2>3, <2>4
  <1> QED
    BY <1>5, <1>6, PlaceKinds DEF s, x, y

\* ... and those there must be.
LEMMA Present ==
    ASSUME NEW c \in Clouds, \A p \in Places(c) : At(c, p).table # "raise"
    PROVE  /\ \A q \in ToSet(c.pets) : \E p \in Places(c) : At(c, p) = Into("pets", q, q)
           /\ \A q \in ToSet(c.pets) : c.did[q] # <<>> =>
                 \E p \in Places(c) : \E row : At(c, p) = Into("petstate", <<q, NoMac>>, row)
           /\ \A m \in ToSet(c.devices) :
                 /\ m = Hub => \E p \in Places(c) : At(c, p) = Into("hubs", m, HubRow(c))
                 /\ m \in Doors => \E p \in Places(c) : At(c, p) = Into("doors", m, DoorRow(c, m))
                 /\ m \in Bowls => \E p \in Places(c) : At(c, p) = Into("feeders", m, m)
                 /\ m \in Bowls \cup CatFlaps => \E p \in Places(c) : At(c, p) = Into("counters", m, m)
                 /\ \A b \in 1 .. Len(c.tags[m]) :
                       \E p \in Places(c) : At(c, p) = Into("tagmap", <<m, b>>, c.tags[m][b])
  <1>1. /\ c.pets \in Seq(Pets) /\ c.devices \in Seq(Devices)
        /\ ToSet(c.pets) = {c.pets[i] : i \in 1 .. Len(c.pets)}
        /\ ToSet(c.devices) = {c.devices[i] : i \in 1 .. Len(c.devices)}
    <2>1. c.pets \in Seq(Pets) /\ c.devices \in Seq(Devices)
      BY CloudIsTyped
    <2> QED
      BY <2>1 DEF ToSet
  <1>2. ASSUME NEW a \in 1 .. Len(Script(c)), NEW b \in 1 .. Len(Script(c)[a])
        PROVE  <<a, b>> \in Places(c)
    BY PlacesTyped
  <1>3. ASSUME NEW q \in ToSet(c.pets)
        PROVE  /\ \E p \in Places(c) : At(c, p) = Into("pets", q, q)
               /\ c.did[q] # <<>> => \E p \in Places(c) : \E row : At(c, p) = Into("petstate", <<q, NoMac>>, row)
    <2>1. PICK a \in 1 .. Len(c.pets) : q = c.pets[a]
      BY <1>1
    <2>2. /\ a \in 1 .. Len(Script(c)) /\ Len(c.did[q]) \in Nat
          /\ Len(Script(c)[a]) = 1 + Len(c.did[q])
          /\ At(c, <<a, 1>>) = Into("pets", q, q)
          /\ \A b \in 2 .. 1 + Len(c.did[q]) : At(c, <<a, b>>) = PetStateStatement(c, q, b - 1)
      BY <2>1, PetPlace
    <2>3. 1 \in 1 .. Len(Script(c)[a])
      BY <2>2
    <2>4. <<a, 1>> \in Places(c)
      BY <1>2, <2>2, <2>3
    <2>5. ASSUME c.did[q] # <<>>
          PROVE  \E p \in Places(c) : \E row : At(c, p) = Into("petstate", <<q, NoMac>>, row)
      <3>1. Len(c.did[q]) # 0
        <4>1. q \in Pets
          BY <1>1, <2>1, ElementOfSeq
        <4>2. PICK s \in Seq([what : {"activity", "feeding", "drinking"}, at : Devices \cup {NoMac}]) : s = c.did[q]
          BY <4>1, CloudIsTyped
        <4> QED
          BY <2>5, <4>2, EmptySeq
      <3>2. 2 \in 1 .. Len(Script(c)[a]) /\ 2 \in 2 .. 1 + Len(c.did[q])
        BY <2>2, <3>1
      <3>3. <<a, 2>> \in Places(c) /\ At(c, <<a, 2>>) = PetStateStatement(c, q, 2 - 1)
        BY <1>2, <2>2, <3>2
      <3>4. PetStateStatement(c, q, 2 - 1) = Into("petstate", <<q, NoMac>>, c.did[q][2 - 1].what)
        <4>1. PetStateStatement(c, q, 2 - 1) # Raise
          BY <3>3 DEF Raise, Into
        <4> QED
          BY <4>1 DEF PetStateStatement
      <3> QED
        BY <3>3, <3>4
    <2> QED
      BY <2>2, <2>4, <2>5
  <1>4. ASSUME NEW m \in ToSet(c.devices)
        PROVE  /\ m = Hub => \E p \in Places(c) : At(c, p) = Into("hubs", m, HubRow(c))
               /\ m \in Doors => \E p \in Places(c) : At(c, p) = Into("doors", m, DoorRow(c, m))
               /\ m \in Bowls => \E p \in Places(c) : At(c, p) = Into("feeders", m, m)
               /\ m \in Bowls \cup CatFlaps => \E p \in Places(c) : At(c, p) = Into("counters", m, m)
               /\ \A b \in 1 .. Len(c.tags[m]) :
                     \E p \in Places(c) : At(c, p) = Into("tagmap", <<m, b>>, c.tags[m][b])
    <2>1. PICK i \in 1 .. Len(c.devices) : m = c.devices[i]
      BY <1>1
    <2> DEFINE a == Len(c.pets) + i
               product == ProductStatements(c, m)
               n == Len(product)
               g == Len(c.tags[m])
    <2>2. /\ m \in Devices /\ a \in 1 .. Len(Script(c)) /\ n \in Nat /\ g \in Nat
          /\ Len(Script(c)[a]) = 1 + n + g
          /\ \A b \in 1 .. n : At(c, <<a, 1 + b>>) = product[b]
          /\ \A b \in 1 .. g : At(c, <<a, 1 + n + b>>) = Into("tagmap", <<m, b>>, c.tags[m][b])
      BY <2>1, DevicePlace
    <2>3. /\ m = Hub => product = <<Into("hubs", m, HubRow(c))>>
          /\ m \in PetDoors => product = <<Into("doors", m, DoorRow(c, m))>>
          /\ m \in CatFlaps => product = <<Into("doors", m, DoorRow(c, m)), Into("counters", m, m)>>
          /\ m \in Bowls => product = <<Into("feeders", m, m), Into("counters", m, m)>>
      BY <2>2, ProductKinds
    <2> HIDE DEF a, product, n, g
    <2>4. ASSUME NEW b \in 1 .. n PROVE <<a, 1 + b>> \in Places(c) /\ At(c, <<a, 1 + b>>) = product[b]
      <3>1. 1 + b \in 1 .. 1 + n + g
        BY <2>2
      <3> QED
        BY <1>2, <2>2, <3>1
    <2>5. ASSUME NEW b \in 1 .. g
          PROVE  \E p \in Places(c) : At(c, p) = Into("tagmap", <<m, b>>, c.tags[m][b])
      <3>1. 1 + n + b \in 1 .. 1 + n + g
        BY <2>2
      <3>2. <<a, 1 + n + b>> \in Places(c)
        BY <1>2, <2>2, <3>1
      <3> QED
        BY <2>2, <3>2
    <2>6. ASSUME NEW s, product = <<s>> PROVE \E p \in Places(c) : At(c, p) = s
      <3>1. n = 1 /\ product[1] = s
        BY <2>6 DEF n
      <3>2. 1 \in 1 .. n
        BY <3>1
      <3> QED
        BY <2>4, <3>1, <3>2
    <2>7. ASSUME NEW s, NEW u, product = <<s, u>>
          PROVE  (\E p \in Places(c) : At(c, p) = s) /\ (\E p \in Places(c) : At(c, p) = u)
      <3>1. n = 2 /\ product[1] = s /\ product[2] = u
        BY <2>7 DEF n
      <3>2. 1 \in 1 .. n /\ 2 \in 1 .. n
        BY <3>1
      <3> QED
        BY <2>4, <3>1, <3>2
    <2>8. m = Hub => \E p \in Places(c) : At(c, p) = Into("hubs", m, HubRow(c))
      BY <2>3, <2>6
    <2>9. m \in Doors => \E p \in Places(c) : At(c, p) = Into("doors", m, DoorRow(c, m))
      BY <2>3, <2>6, <2>7 DEF Doors
    <2>10. m \in Bowls => \E p \in Places(c) : At(c, p) = Into("feeders", m, m)
      BY <2>3, <2>7
    <2>11. m \in Bowls \cup CatFlaps => \E p \in Places(c) : At(c, p) = Into("counters", m, m)
      BY <2>3, <2>7
    <2> QED
      BY <2>5, <2>8, <2>9, <2>10, <2>11 DEF g
  <1> QED
    BY <1>3, <1>4

TagKeys(c) == UNION {{m} \X DOMAIN c.tags[m] : m \in ToSet(c.devices)}

LEMMA AllKeys ==
    ASSUME NEW c \in Clouds, \A p \in Places(c) : At(c, p).table # "raise"
    PROVE  LET has == ToSet(c.devices)
               Keys(table) == KeysIn(c, table, Places(c))
           IN  /\ Keys("hubs") = has \cap {Hub} /\ Keys("doors") = has \cap Doors
               /\ Keys("feeders") = has \cap Bowls /\ Keys("counters") = has \cap (Bowls \cup CatFlaps)
               /\ Keys("tagmap") = TagKeys(c) /\ Keys("pets") = ToSet(c.pets)
               /\ Keys("petstate") = {<<p, NoMac>> : p \in {q \in ToSet(c.pets) : c.did[q] # <<>>}}
  <1> DEFINE has == ToSet(c.devices)
             Keys(table) == KeysIn(c, table, Places(c))
             Its(m, s) ==
                     \/ s = Into("devices", m, m)
                     \/ m = Hub /\ s = Into("hubs", m, HubRow(c))
                     \/ m \in Doors /\ s = Into("doors", m, DoorRow(c, m))
                     \/ m \in Bowls /\ s = Into("feeders", m, m)
                     \/ m \in Bowls \cup CatFlaps /\ s = Into("counters", m, m)
                     \/ \E b \in 1 .. Len(c.tags[m]) : s = Into("tagmap", <<m, b>>, c.tags[m][b])
  <1>1. \A m \in has : m \in Devices
    <2>1. c.devices \in Seq(Devices)
      BY CloudIsTyped
    <2> QED
      BY <2>1, ElementOfSeq DEF ToSet
  <1>2. \A m \in has : DOMAIN c.tags[m] = 1 .. Len(c.tags[m])
    BY <1>1, CloudIsTyped
  <1>3. ASSUME NEW table, NEW key
        PROVE  key \in Keys(table) <=> \E p \in Places(c) : At(c, p).table = table /\ At(c, p).key = key
    BY DEF KeysIn
  <1>4. ASSUME NEW p \in Places(c)
        PROVE  LET s == At(c, p)
               IN  \/ \E q \in ToSet(c.pets) : s = Into("pets", q, q)
                   \/ \E q \in ToSet(c.pets) : \E row : s = Into("petstate", <<q, NoMac>>, row) /\ c.did[q] # <<>>
                   \/ \E m \in has : Its(m, s)
    <2> DEFINE s == At(c, p)
    <2>1. CASE \E a \in 1 .. Len(c.pets) : \E b \in 1 .. Len(c.did[c.pets[a]]) :
                     p = <<a, b + 1>> /\ s = Into("petstate", <<c.pets[a], NoMac>>, c.did[c.pets[a]][b].what)
      <3>1. PICK a \in 1 .. Len(c.pets) : \E b \in 1 .. Len(c.did[c.pets[a]]) :
                     s = Into("petstate", <<c.pets[a], NoMac>>, c.did[c.pets[a]][b].what)
        BY <2>1
      <3>2. c.pets[a] \in ToSet(c.pets)
        BY CloudIsTyped DEF ToSet
      <3>3. c.did[c.pets[a]] # <<>>
        BY <3>1
      <3> QED
        BY <3>1, <3>2, <3>3
    <2>2. CASE \E q \in ToSet(c.pets) : s = Into("pets", q, q)
      BY <2>2
    <2>3. CASE \E m \in has : Its(m, s)
      BY <2>3
    <2>4. \/ \E a \in 1 .. Len(c.pets) : \E b \in 1 .. Len(c.did[c.pets[a]]) :
                     p = <<a, b + 1>> /\ s = Into("petstate", <<c.pets[a], NoMac>>, c.did[c.pets[a]][b].what)
          \/ \E q \in ToSet(c.pets) : s = Into("pets", q, q)
          \/ \E m \in has : Its(m, s)
      BY Written
    <2> QED
      BY <2>1, <2>2, <2>3, <2>4
  <1> HIDE DEF Its
  <1>5. ASSUME NEW p \in Places(c), NEW m \in has, Its(m, At(c, p))
        PROVE  LET s == At(c, p)
               IN  /\ s.table # "pets" /\ s.table # "petstate"
                   /\ s.table = "hubs" => s.key = m /\ m = Hub
                   /\ s.table = "doors" => s.key = m /\ m \in Doors
                   /\ s.table = "feeders" => s.key = m /\ m \in Bowls
                   /\ s.table = "counters" => s.key = m /\ m \in Bowls \cup CatFlaps
                   /\ s.table = "tagmap" => \E b \in 1 .. Len(c.tags[m]) : s.key = <<m, b>>
    BY <1>5 DEF Its, Into
  <1>6. ASSUME NEW p \in Places(c)
        PROVE  LET s == At(c, p)
               IN  /\ s.table = "pets" => s.key \in ToSet(c.pets)
                   /\ s.table = "petstate" => \E q \in ToSet(c.pets) : c.did[q] # <<>> /\ s.key = <<q, NoMac>>
                   /\ s.table = "hubs" => s.key \in has \cap {Hub}
                   /\ s.table = "doors" => s.key \in has \cap Doors
                   /\ s.table = "feeders" => s.key \in has \cap Bowls
                   /\ s.table = "counters" => s.key \in has \cap (Bowls \cup CatFlaps)
                   /\ s.table = "tagmap" => \E m \in has : \E b \in 1 .. Len(c.tags[m]) : s.key = <<m, b>>
    <2> DEFINE s == At(c, p)
    <2>1. CASE \E q \in ToSet(c.pets) : s = Into("pets", q, q)
      BY <2>1 DEF Into
    <2>2. CASE \E q \in ToSet(c.pets) : \E row : s = Into("petstate", <<q, NoMac>>, row) /\ c.did[q] # <<>>
      BY <2>2 DEF Into
    <2>3. CASE \E m \in has : Its(m, s)
      BY <1>5, <2>3
    <2> QED
      BY <1>4, <2>1, <2>2, <2>3
  <1>7. \A key : key \in TagKeys(c) <=> \E m \in has : \E b \in 1 .. Len(c.tags[m]) : key = <<m, b>>
    BY <1>2 DEF TagKeys
  <1> HIDE DEF has, Keys
  <1>8. Keys("hubs") = has \cap {Hub}
    <2>1. \A h \in has \cap {Hub} : \E p \in Places(c) : At(c, p) = Into("hubs", h, HubRow(c))
      BY Present DEF has
    <2> QED
      BY <1>3, <1>6, <2>1 DEF Into
  <1>9. Keys("doors") = has \cap Doors
    <2>1. \A d \in has \cap Doors : \E p \in Places(c) : At(c, p) = Into("doors", d, DoorRow(c, d))
      BY Present DEF has
    <2> QED
      BY <1>3, <1>6, <2>1 DEF Into
  <1>10. Keys("feeders") = has \cap Bowls
    <2>1. \A d \in has \cap Bowls : \E p \in Places(c) : At(c, p) = Into("feeders", d, d)
      BY Present DEF has
    <2> QED
      BY <1>3, <1>6, <2>1 DEF Into
  <1>11. Keys("counters") = has \cap (Bowls \cup CatFlaps)
    <2>1. \A d \in has \cap (Bowls \cup CatFlaps) : \E p \in Places(c) : At(c, p) = Into("counters", d, d)
      BY Present DEF has
    <2> QED
      BY <1>3, <1>6, <2>1 DEF Into
  <1>12. Keys("tagmap") = TagKeys(c)
    <2>1. ASSUME NEW key \in TagKeys(c) PROVE key \in Keys("tagmap")
      <3>1. PICK m \in has : \E b \in 1 .. Len(c.tags[m]) : key = <<m, b>>
        BY <1>7
      <3>2. PICK b \in 1 .. Len(c.tags[m]) : key = <<m, b>>
        BY <3>1
      <3>3. PICK p \in Places(c) : At(c, p) = Into("tagmap", key, c.tags[m][b])
        BY <3>2, Present DEF has
      <3> QED
        BY <1>3, <3>3 DEF Into
    <2>2. ASSUME NEW key \in Keys("tagmap") PROVE key \in TagKeys(c)
      <3>1. PICK p \in Places(c) : At(c, p).table = "tagmap" /\ At(c, p).key = key
        BY <1>3
      <3>2. \E m \in has : \E b \in 1 .. Len(c.tags[m]) : At(c, p).key = <<m, b>>
        BY <1>6, <3>1
      <3> QED
        BY <1>7, <3>1, <3>2
    <2> QED
      BY <2>1, <2>2
  <1>13. Keys("pets") = ToSet(c.pets)
    <2>1. \A q \in ToSet(c.pets) : \E p \in Places(c) : At(c, p) = Into("pets", q, q)
      BY Present
    <2>2. ASSUME NEW q \in ToSet(c.pets) PROVE q \in Keys("pets")
      <3>1. PICK p \in Places(c) : At(c, p) = Into("pets", q, q)
        BY <2>1
      <3> QED
        BY <1>3, <3>1 DEF Into
    <2>3. ASSUME NEW key \in Keys("pets") PROVE key \in ToSet(c.pets)
      <3>1. PICK p \in Places(c) : At(c, p).table = "pets" /\ At(c, p).key = key
        BY <1>3
      <3> QED
        BY <1>6, <3>1
    <2> QED
      BY <2>2, <2>3
  <1>14. Keys("petstate") = {<<p, NoMac>> : p \in {q \in ToSet(c.pets) : c.did[q] # <<>>}}
    <2>1. \A q \in ToSet(c.pets) : c.did[q] # <<>> =>
              \E p \in Places(c) : \E row : At(c, p) = Into("petstate", <<q, NoMac>>, row)
      BY Present
    <2>2. ASSUME NEW q \in ToSet(c.pets), c.did[q] # <<>> PROVE <<q, NoMac>> \in Keys("petstate")
      <3>1. PICK p \in Places(c) : \E row : At(c, p) = Into("petstate", <<q, NoMac>>, row)
        BY <2>1, <2>2
      <3> QED
        BY <1>3, <3>1 DEF Into
    <2>3. ASSUME NEW key \in Keys("petstate")
          PROVE  \E q \in ToSet(c.pets) : c.did[q] # <<>> /\ key = <<q, NoMac>>
      <3>1. PICK p \in Places(c) : At(c, p).table = "petstate" /\ At(c, p).key = key
        BY <1>3
      <3> QED
        BY <1>6, <3>1
    <2> QED
      BY <2>2, <2>3
  <1> QED
    BY <1>8, <1>9, <1>10, <1>11, <1>12, <1>13, <1>14 DEF has, Keys

LEMMA BuiltIsMade ==
    ASSUME Types, Made, Built
    PROVE  LET X == Places(source)
           IN  /\ source \in Clouds
               /\ \A p \in X : At(source, p).table # "raise"
               /\ db.devices = source.devices
               /\ DOMAIN db.hubs = KeysIn(source, "hubs", X) /\ DOMAIN db.doors = KeysIn(source, "doors", X)
               /\ db.feeders = KeysIn(source, "feeders", X) /\ db.counters = KeysIn(source, "counters", X)
               /\ db.pets = KeysIn(source, "pets", X)
               /\ ~touched =>
                     /\ Rows(db.hubs, source, "hubs", X) /\ Rows(db.doors, source, "doors", X)
                     /\ Rows(db.tagmap, source, "tagmap", X) /\ Rows(db.petstate, source, "petstate", X)
  <1> DEFINE N == Len(Script(source))
             M == Len(source.pets)
             D == Len(source.devices)
  <1>1. source \in Clouds /\ IsStore(db)
    BY DEF Types, BuildTypes
  <1>2. /\ source.devices \in Seq(Devices) /\ source.pets \in Seq(Pets)
        /\ N = M + D
    BY <1>1, CloudIsTyped, ScriptGroups
  <1>3. M \in Nat /\ D \in Nat /\ N \in Nat
    <2>1. M \in Nat /\ D \in Nat
      BY <1>2
    <2> HIDE DEF M, D, N
    <2> QED
      BY <1>2, <2>1
  <1>4. PICK k, j : MadeUpTo(k, j)
    BY DEF Made, Built
  <1> HIDE DEF N, M, D
  <1>5. k = N + 1 /\ j = 1
    <2>1. k \in 1 .. N + 1 /\ Len(todo) = N + 1 - k /\ (k > N => j = 1)
      BY <1>4 DEF MadeUpTo, Left, N
    <2>2. Len(todo) = 0
      BY DEF Built
    <2> QED
      BY <1>3, <2>1, <2>2
  <1>6. Done(source, k, j) = Places(source)
    BY <1>1, <1>5, AllDone DEF N
  <1>7. Listed(source, k, j) = D
    <2>1. Listed(source, k, j) = IF k <= M THEN 0 ELSE IF j > 1 THEN k - M ELSE k - M - 1
      BY DEF Listed, M
    <2> QED
      BY <1>2, <1>3, <1>5, <2>1
  <1>8. KeysMade(db, source, k, j) /\ (~touched => RowsMade(db, source, k, j))
    BY <1>4 DEF MadeUpTo
  <1>9. db.devices = source.devices
    <2>1. Len(db.devices) = D /\ \A i \in 1 .. D : db.devices[i] = source.devices[i]
      BY <1>7, <1>8 DEF KeysMade
    <2>2. db.devices \in Seq(Devices)
      BY <1>1 DEF IsStore, IsTables
    <2> DEFINE u == db.devices
               v == source.devices
    <2>3. u \in Seq(Devices) /\ v \in Seq(Devices) /\ Len(u) = Len(v) /\ \A i \in 1 .. Len(u) : u[i] = v[i]
      BY <1>2, <2>1, <2>2 DEF D
    <2> HIDE DEF u, v
    <2>4. u = v
      BY <2>3, SeqEqual
    <2> QED
      BY <2>4 DEF u, v
  <1> QED
    BY <1>1, <1>6, <1>8, <1>9 DEF KeysMade, RowsMade

\* Rows that are the last ones written.
LEMMA LatestRows ==
    ASSUME NEW c \in Clouds, \A p \in Places(c) : At(c, p).table # "raise", NEW key, NEW row
    PROVE  /\ IsLatest(c, "hubs", key, row, Places(c)) => row = HubRow(c)
           /\ IsLatest(c, "doors", key, row, Places(c)) => row = DoorRow(c, key)
           /\ IsLatest(c, "tagmap", key, row, Places(c)) => row = c.tags[key[1]][key[2]]
           /\ IsLatest(c, "petstate", key, row, Places(c)) => row = Last(c.did[key[1]]).what
  <1> DEFINE Its(m, s) ==
                     \/ s = Into("devices", m, m)
                     \/ m = Hub /\ s = Into("hubs", m, HubRow(c))
                     \/ m \in Doors /\ s = Into("doors", m, DoorRow(c, m))
                     \/ m \in Bowls /\ s = Into("feeders", m, m)
                     \/ m \in Bowls \cup CatFlaps /\ s = Into("counters", m, m)
                     \/ \E b \in 1 .. Len(c.tags[m]) : s = Into("tagmap", <<m, b>>, c.tags[m][b])
  <1>1. ASSUME NEW p \in Places(c)
        PROVE  LET s == At(c, p)
               IN  \/ \E q \in ToSet(c.pets) : s = Into("pets", q, q)
                   \/ \E a \in 1 .. Len(c.pets) : \E b \in 1 .. Len(c.did[c.pets[a]]) :
                         p = <<a, b + 1>> /\ s = Into("petstate", <<c.pets[a], NoMac>>, c.did[c.pets[a]][b].what)
                   \/ \E m \in ToSet(c.devices) : Its(m, s)
    BY Written
  <1>2. ASSUME NEW table \in {"hubs", "doors", "tagmap", "petstate"}, IsLatest(c, table, key, row, Places(c))
        PROVE  \E p \in Places(c) :
                  /\ At(c, p) = Into(table, key, row)
                  /\ \A q \in Places(c) : Earlier(p, q) => ~(At(c, q).table = table /\ At(c, q).key = key)
    BY <1>2 DEF IsLatest
  <1> HIDE DEF Its
  <1>3. ASSUME NEW m, NEW table \in {"hubs", "doors", "tagmap", "petstate"}, Its(m, Into(table, key, row))
        PROVE  /\ table = "hubs" => row = HubRow(c)
               /\ table = "doors" => row = DoorRow(c, key)
               /\ table = "tagmap" => row = c.tags[key[1]][key[2]]
               /\ table # "petstate"
    <2>1. \A t, k, r : Into(table, key, row) = Into(t, k, r) => table = t /\ key = k /\ row = r
      BY DEF Into
    <2>2. \/ table = "devices"
          \/ table = "hubs" /\ row = HubRow(c)
          \/ table = "doors" /\ row = DoorRow(c, key)
          \/ table \in {"feeders", "counters"}
          \/ table = "tagmap" /\ \E b \in 1 .. Len(c.tags[m]) : key = <<m, b>> /\ row = c.tags[m][b]
      BY <1>3, <2>1 DEF Its
    <2>3. (\E b \in 1 .. Len(c.tags[m]) : key = <<m, b>> /\ row = c.tags[m][b]) => row = c.tags[key[1]][key[2]]
      OBVIOUS
    <2> QED
      BY <2>2, <2>3
  <1>4. ASSUME NEW table \in {"hubs", "doors", "tagmap"}, IsLatest(c, table, key, row, Places(c))
        PROVE  /\ table = "hubs" => row = HubRow(c)
               /\ table = "doors" => row = DoorRow(c, key)
               /\ table = "tagmap" => row = c.tags[key[1]][key[2]]
    <2>1. PICK p \in Places(c) : At(c, p) = Into(table, key, row)
      BY <1>2, <1>4
    <2>2. \A t, k, r : Into(table, key, row) = Into(t, k, r) => t = table
      BY DEF Into
    <2>3. PICK m \in ToSet(c.devices) : Its(m, Into(table, key, row))
      BY <1>1, <2>1, <2>2
    <2> QED
      BY <1>3, <2>3
  <1>5. ASSUME IsLatest(c, "petstate", key, row, Places(c))
        PROVE  row = Last(c.did[key[1]]).what
    <2>1. PICK p \in Places(c) :
              /\ At(c, p) = Into("petstate", key, row)
              /\ \A q \in Places(c) : Earlier(p, q) => ~(At(c, q).table = "petstate" /\ At(c, q).key = key)
      BY <1>2, <1>5
    <2>2. \A t, k, r : Into("petstate", key, row) = Into(t, k, r) => t = "petstate" /\ k = key /\ r = row
      BY DEF Into
    <2>3. ~ \E m \in ToSet(c.devices) : Its(m, Into("petstate", key, row))
      BY <1>3
    <2>4. PICK a \in 1 .. Len(c.pets) : \E b \in 1 .. Len(c.did[c.pets[a]]) :
              p = <<a, b + 1>>
              /\ Into("petstate", key, row) = Into("petstate", <<c.pets[a], NoMac>>, c.did[c.pets[a]][b].what)
      BY <1>1, <2>1, <2>2, <2>3
    <2> DEFINE q == c.pets[a]
               l == Len(c.did[q])
    <2>5. PICK b \in 1 .. l : p = <<a, b + 1>> /\ key = <<q, NoMac>> /\ row = c.did[q][b].what
      BY <2>2, <2>4
    <2>6. /\ a \in 1 .. Len(Script(c)) /\ l \in Nat /\ Len(Script(c)[a]) = 1 + l
          /\ \A i \in 2 .. 1 + l : At(c, <<a, i>>) = PetStateStatement(c, q, i - 1)
      BY PetPlace
    <2> HIDE DEF q, l
    <2>7. b = l
      <3> SUFFICES ASSUME b # l PROVE FALSE
        OBVIOUS
      <3> DEFINE i == b + 2
                 next == <<a, i>>
      <3>1. i \in 1 .. 1 + l /\ i \in 2 .. 1 + l /\ b + 1 < i
        BY <2>6
      <3> HIDE DEF i
      <3>2. next \in Places(c) /\ At(c, next) = PetStateStatement(c, q, i - 1)
        BY <2>6, <3>1, PlacesTyped
      <3>3. Earlier(p, next)
        BY <2>5, <3>1 DEF Earlier
      <3>4. At(c, next).table # "raise"
        BY <3>2
      <3>5. At(c, next).table = "petstate" /\ At(c, next).key = key
        <4>1. PetStateStatement(c, q, i - 1) # Raise
          BY <3>2, <3>4 DEF Raise, Into
        <4>2. PetStateStatement(c, q, i - 1) = Into("petstate", <<q, NoMac>>, c.did[q][i - 1].what)
          BY <4>1 DEF PetStateStatement
        <4> HIDE DEF next
        <4> QED
          BY <2>5, <3>2, <4>2 DEF Into
      <3> QED
        BY <2>1, <3>2, <3>3, <3>5
    <2> QED
      BY <2>5, <2>7 DEF l, Last
  <1> QED
    BY <1>4, <1>5

-----------------------------------------------------------------------------
(* Theorems *)

LEMMA SpecMade == Spec => [](Types /\ Made)
  <1>1. Init => Types /\ Made
    <2>1. Init => failed = 1
      BY DEF Init, BuildInit
    <2> QED
      BY <2>1, InitTypes DEF Made
  <1>2. (Types /\ Made) /\ [Next]_houseVars => (Types /\ Made)'
    BY TypesStep, MadeStep
  <1> QED
    BY <1>1, <1>2, PTL DEF Spec

\* The service starts from what a build without a failed statement has left, for every
\* document with a pet and a device and without a Felaqua.
THEOREM BuildLetsTheServiceStart == Spec => []BuiltStarts
  <1>1. Types /\ Made => BuiltStarts
    <2> SUFFICES ASSUME Types, Made, Built, source.pets # <<>>, source.devices # <<>>,
                        ToSet(source.devices) \cap Felaquas = {}
                 PROVE  Starts
      BY DEF BuiltStarts
    <2> DEFINE X == Places(source)
               has == ToSet(source.devices)
    <2>1. /\ source \in Clouds
          /\ \A p \in X : At(source, p).table # "raise"
          /\ db.devices = source.devices
          /\ DOMAIN db.hubs = KeysIn(source, "hubs", X) /\ DOMAIN db.doors = KeysIn(source, "doors", X)
          /\ db.feeders = KeysIn(source, "feeders", X) /\ db.counters = KeysIn(source, "counters", X)
          /\ db.pets = KeysIn(source, "pets", X)
      BY BuiltIsMade
    <2>2. /\ KeysIn(source, "hubs", X) = has \cap {Hub} /\ KeysIn(source, "doors", X) = has \cap Doors
          /\ KeysIn(source, "feeders", X) = has \cap Bowls
          /\ KeysIn(source, "counters", X) = has \cap (Bowls \cup CatFlaps)
          /\ KeysIn(source, "pets", X) = ToSet(source.pets)
      BY <2>1, AllKeys
    <2>3. source.pets \in Seq(Pets) /\ source.devices \in Seq(Devices)
      BY <2>1, CloudIsTyped
    <2>4. db.pets # {}
      <3>1. Len(source.pets) \in Nat /\ Len(source.pets) # 0
        BY <2>3, EmptySeq
      <3>2. 1 \in DOMAIN source.pets
        BY <2>3, <3>1
      <3>3. source.pets[1] \in ToSet(source.pets)
        BY <3>2 DEF ToSet
      <3> QED
        BY <2>1, <2>2, <3>3
    <2> HIDE DEF X
    <2>5. ASSUME NEW m \in has PROVE Loads(m)
      <3>1. m \in Devices /\ m \notin Felaquas
        BY <2>3, ElementOfSeq DEF ToSet
      <3>2. m = Hub \/ m \in PetDoors \/ m \in CatFlaps \/ m \in Feeders
        BY <3>1 DEF Devices, Doors, Bowls
      <3> QED
        BY <2>1, <2>2, <3>1, <3>2, CloudAssumption DEF Loads, Doors, Bowls
    <2>6. Load(Len(db.devices))
      <3>1. \A i \in 1 .. Len(source.devices) : source.devices[i] \in has
        BY <2>3 DEF ToSet
      <3>2. Len(source.devices) \in Nat
        BY <2>3
      <3> QED
        BY <2>1, <2>5, <3>1, <3>2 DEF Load
    <2> QED
      BY <2>1, <2>4, <2>6 DEF Starts
  <1> QED
    BY <1>1, SpecMade, PTL

\* A finished build has left what its document describes, row by row and nothing else.
THEOREM BuildIsTheDocument == Spec => []BuiltIsCloud
  <1>1. Types /\ Made => BuiltIsCloud
    <2> SUFFICES ASSUME Types, Made, Built, ~touched
                 PROVE  db = Image(source)
      BY DEF BuiltIsCloud
    <2> DEFINE X == Places(source)
               has == ToSet(source.devices)
    <2>1. /\ source \in Clouds
          /\ \A p \in X : At(source, p).table # "raise"
          /\ db.devices = source.devices
          /\ db.feeders = KeysIn(source, "feeders", X) /\ db.counters = KeysIn(source, "counters", X)
          /\ db.pets = KeysIn(source, "pets", X)
          /\ Rows(db.hubs, source, "hubs", X) /\ Rows(db.doors, source, "doors", X)
          /\ Rows(db.tagmap, source, "tagmap", X) /\ Rows(db.petstate, source, "petstate", X)
      BY BuiltIsMade
    <2>2. /\ KeysIn(source, "hubs", X) = has \cap {Hub} /\ KeysIn(source, "doors", X) = has \cap Doors
          /\ KeysIn(source, "feeders", X) = has \cap Bowls
          /\ KeysIn(source, "counters", X) = has \cap (Bowls \cup CatFlaps)
          /\ KeysIn(source, "tagmap", X) = TagKeys(source)
          /\ KeysIn(source, "pets", X) = ToSet(source.pets)
          /\ KeysIn(source, "petstate", X) = {<<p, NoMac>> : p \in {q \in ToSet(source.pets) : source.did[q] # <<>>}}
      BY <2>1, AllKeys
    <2>3. ASSUME NEW key, NEW row
          PROVE  /\ IsLatest(source, "hubs", key, row, X) => row = HubRow(source)
                 /\ IsLatest(source, "doors", key, row, X) => row = DoorRow(source, key)
                 /\ IsLatest(source, "tagmap", key, row, X) => row = source.tags[key[1]][key[2]]
                 /\ IsLatest(source, "petstate", key, row, X) => row = Last(source.did[key[1]]).what
      BY <2>1, LatestRows
    <2> HIDE DEF X, has
    <2>4. db.hubs = [h \in has \cap {Hub} |-> HubRow(source)]
      BY <2>1, <2>2, <2>3 DEF Rows
    <2>5. db.doors = [d \in has \cap Doors |-> DoorRow(source, d)]
      BY <2>1, <2>2, <2>3 DEF Rows
    <2>6. db.tagmap = [k \in TagKeys(source) |-> source.tags[k[1]][k[2]]]
      BY <2>1, <2>2, <2>3 DEF Rows
    <2>7. db.petstate = [k \in {<<p, NoMac>> : p \in {q \in ToSet(source.pets) : source.did[q] # <<>>}} |->
                            Last(source.did[k[1]]).what]
      BY <2>1, <2>2, <2>3 DEF Rows
    <2>8. db = [devices |-> db.devices, hubs |-> db.hubs, doors |-> db.doors, feeders |-> db.feeders,
                counters |-> db.counters, tagmap |-> db.tagmap, pets |-> db.pets, petstate |-> db.petstate]
      BY DEF Types, BuildTypes, IsStore, IsTables
    <2> QED
      BY <2>1, <2>2, <2>4, <2>5, <2>6, <2>7, <2>8, Zenon DEF Image, TagKeys, has
  <1> QED
    BY <1>1, SpecMade, PTL
=============================================================================
