--------------------------- MODULE HouseholdProofs ---------------------------
(***************************************************************************)
(* For every house, every document of the cloud and any number of messages *)
(* on their way: the service is not ended by the devices it has loaded,    *)
(* and what Home Assistant is shown is what the tables hold.               *)
(*                                                                         *)
(* Types says what the values are; Loaded that a device whose handler is   *)
(* registered still has the rows the startup loop has found; Agree that    *)
(* topics and tables agree, a publication that is to be sent included.     *)
(***************************************************************************)
EXTENDS Household, SequenceTheorems, TLAPS

-----------------------------------------------------------------------------
(* Types, as sets where there is one *)

HubRows == [state : Nat, uptime : Nat]

\* A row of doors has one of three states.
IsStore(t) ==
    /\ IsTables(t)
    /\ \A d \in DOMAIN t.doors : t.doors[d].enabled \in 0 .. 2

Statements ==
    [table : {"devices"}, key : Devices, row : Devices]
      \cup [table : {"hubs"}, key : {Hub}, row : HubRows]
      \cup [table : {"doors"}, key : Doors, row : {DoorRow(c, d) : c \in Clouds, d \in Doors}]
      \cup [table : {"feeders"}, key : Bowls, row : Bowls]
      \cup [table : {"counters"}, key : Bowls \cup CatFlaps, row : Bowls \cup CatFlaps]
      \cup [table : {"tagmap"}, key : Devices \X Nat, row : Pets]
      \cup [table : {"pets"}, key : Pets, row : Pets]
      \cup [table : {"petstate"}, key : Pets \X {NoMac}, row : {"activity", "feeding", "drinking"}]
      \cup {Raise}

Messages ==
    [kind : {"online"}, on : BOOLEAN]
      \cup [kind : {"uptime"}, mins : Nat]
      \cup {m \in [kind : {"passage"}, door : PetDoors, index : Nat, dir : DoorDirections] :
               m.index \in DOMAIN Slots[m.door]}
      \cup [kind : {"report"}, door : PetDoors, curfew : Registers]
      \cup [kind : {"movement"}, door : CatFlaps, pet : Pets, dir : FlapDirections]
      \cup [kind : {"curfewlock"}, door : CatFlaps]
      \cup [kind : {"times"}, door : Doors, text : Texts]

Publications ==
    [to : {"hub"}, field : {"state", "uptime"}, value : Nat]
      \cup [to : {"pets"}, pets : SUBSET Pets, value : DoorDirections \cup FlapDirections]
      \cup [to : {"curfew"}, door : PetDoors, value : Registers]
      \cup [to : {"door"}, door : PetDoors, value : Registers]
      \cup [to : {"nobody"}]

IsTopics(s) ==
    /\ s = [hub |-> s.hub, curfew |-> s.curfew, pet |-> s.pet]
    /\ s.hub \in HubRows
    /\ DOMAIN s.curfew = Doors /\ \A d \in Doors : IsDoorRow(s.curfew[d])

\* One build's statements, for each pet and device at least one.
Scripts == Seq(Seq(Statements) \ {<<>>})

BuildTypes ==
    /\ IsStore(db) /\ todo \in Scripts
    /\ source \in Clouds /\ failed \in Nat /\ touched \in BOOLEAN

ServiceTypes ==
    /\ up \in BOOLEAN /\ served \subseteq Devices
    /\ inbox \in Seq(Messages)
    /\ pending \subseteq Publications /\ \A p, q \in pending : p = q
    /\ ~up => served = {} /\ inbox = <<>> /\ pending = {}
    /\ IsTopics(shown)

HouseTypes ==
    /\ cmd \in [PetDoors -> Seq(Registers)]
    /\ hubOn \in BOOLEAN /\ side \in [Pets -> {"in", "out"}]
    /\ via \in [Pets -> Doors \cup {NoMac}] /\ own \in [PetDoors -> Registers]
    /\ missed \subseteq Subjects /\ fresh \in BOOLEAN /\ scenario \in Scenarios

Types == BuildTypes /\ ServiceTypes /\ HouseTypes

-----------------------------------------------------------------------------
(* Rows and tables *)

LEMMA HubRowIsTyped ==
    ASSUME NEW r
    PROVE  IsHubRow(r) <=> r \in HubRows
  BY DEF IsHubRow, HubRows

LEMMA DoorRowIsTyped ==
    ASSUME NEW c \in Clouds, NEW d \in Doors
    PROVE  /\ IsDoorRow(DoorRow(c, d))
           /\ DoorRow(c, d).enabled \in 0 .. 2
  BY DEF DoorRow, IsDoorRow

\* The same devices, with rows in the same tables.
SameKeys(t, u) ==
    /\ u.devices = t.devices /\ u.feeders = t.feeders /\ u.counters = t.counters
    /\ u.pets = t.pets
    /\ DOMAIN u.hubs = DOMAIN t.hubs /\ DOMAIN u.doors = DOMAIN t.doors

\* What the service writes: hubs and doors, in rows there are.
LEMMA HubsKept ==
    ASSUME NEW t, IsStore(t), Hub \in DOMAIN t.hubs, NEW f \in {"state", "uptime"}, NEW v \in Nat
    PROVE  LET u == [t EXCEPT !.hubs[Hub] = [@ EXCEPT ![f] = v]]
           IN  /\ IsStore(u) /\ SameKeys(t, u)
               /\ u.hubs[Hub] = [t.hubs[Hub] EXCEPT ![f] = v]
               /\ u.doors = t.doors
  <1> DEFINE row == [t.hubs[Hub] EXCEPT ![f] = v]
             u == [t EXCEPT !.hubs = [t.hubs EXCEPT ![Hub] = row]]
  <1>1. row \in HubRows
    BY HubRowIsTyped DEF IsStore, IsTables, HubRows
  <1> HIDE DEF row
  <1>2. DOMAIN t.hubs = {Hub}
    BY DEF IsStore, IsTables
  <1>3. /\ u.hubs[Hub] = row /\ DOMAIN u.hubs = DOMAIN t.hubs
        /\ u.devices = t.devices /\ u.feeders = t.feeders /\ u.counters = t.counters
        /\ u.pets = t.pets /\ u.doors = t.doors /\ u.tagmap = t.tagmap /\ u.petstate = t.petstate
    BY <1>2 DEF IsStore, IsTables
  <1>4. u = [devices |-> u.devices, hubs |-> u.hubs, doors |-> u.doors, feeders |-> u.feeders,
             counters |-> u.counters, tagmap |-> u.tagmap, pets |-> u.pets, petstate |-> u.petstate]
    BY DEF IsStore, IsTables
  <1>5. IsStore(u) /\ SameKeys(t, u)
    BY <1>1, <1>2, <1>3, <1>4, HubRowIsTyped DEF IsStore, IsTables, SameKeys
  <1> QED
    BY <1>3, <1>5 DEF row

LEMMA DoorsKept ==
    ASSUME NEW t, IsStore(t), NEW rows, DOMAIN rows = DOMAIN t.doors,
           \A d \in DOMAIN rows : IsDoorRow(rows[d]) /\ rows[d].enabled \in 0 .. 2
    PROVE  LET u == [t EXCEPT !.doors = rows]
           IN  IsStore(u) /\ SameKeys(t, u) /\ u.doors = rows /\ u.hubs = t.hubs
  <1> DEFINE u == [t EXCEPT !.doors = rows]
  <1>1. /\ u.doors = rows /\ u.hubs = t.hubs
        /\ u.devices = t.devices /\ u.feeders = t.feeders /\ u.counters = t.counters
        /\ u.pets = t.pets /\ u.tagmap = t.tagmap /\ u.petstate = t.petstate
    BY DEF IsStore, IsTables
  <1>2. u = [devices |-> u.devices, hubs |-> u.hubs, doors |-> u.doors, feeders |-> u.feeders,
             counters |-> u.counters, tagmap |-> u.tagmap, pets |-> u.pets, petstate |-> u.petstate]
    BY DEF IsStore, IsTables
  <1> HIDE DEF u
  <1>3. IsStore(u) /\ SameKeys(t, u)
    BY <1>1, <1>2 DEF IsStore, IsTables, SameKeys
  <1> QED
    BY <1>1, <1>3 DEF u

LEMMA PassagesKept ==
    ASSUME NEW t, IsStore(t), NEW rows
    PROVE  LET u == [t EXCEPT !.petstate = rows]
           IN  IsStore(u) /\ SameKeys(t, u) /\ u.hubs = t.hubs /\ u.doors = t.doors
  <1> DEFINE u == [t EXCEPT !.petstate = rows]
  <1>1. /\ u.petstate = rows /\ u.doors = t.doors /\ u.hubs = t.hubs
        /\ u.devices = t.devices /\ u.feeders = t.feeders /\ u.counters = t.counters
        /\ u.pets = t.pets /\ u.tagmap = t.tagmap
    BY DEF IsStore, IsTables
  <1>2. u = [devices |-> u.devices, hubs |-> u.hubs, doors |-> u.doors, feeders |-> u.feeders,
             counters |-> u.counters, tagmap |-> u.tagmap, pets |-> u.pets, petstate |-> u.petstate]
    BY DEF IsStore, IsTables
  <1> HIDE DEF u
  <1> QED
    BY <1>1, <1>2 DEF IsStore, IsTables, SameKeys, u

-----------------------------------------------------------------------------
(* The builder *)

LEMMA EmptyIsStore == IsStore(Empty)
  BY DEF Empty, NoRows, IsStore, IsTables

\* A row that is put in takes the place of the one with its key, if there is one.
LEMMA HubPut ==
    ASSUME NEW t, IsStore(t), NEW row \in HubRows
    PROVE  IsStore([t EXCEPT !.hubs = Put(t.hubs, Hub, row)])
  <1> DEFINE rows == Put(t.hubs, Hub, row)
  <1>1. DOMAIN t.hubs \subseteq {Hub} /\ \A h \in DOMAIN t.hubs : IsHubRow(t.hubs[h])
    BY DEF IsStore, IsTables
  <1>2. DOMAIN rows = {Hub} /\ IsHubRow(rows[Hub])
    BY <1>1, HubRowIsTyped DEF Put
  <1> HIDE DEF rows
  <1>3. IsStore([t EXCEPT !.hubs = rows])
    BY <1>2 DEF IsStore, IsTables
  <1> QED
    BY <1>3 DEF rows

LEMMA DoorPut ==
    ASSUME NEW t, IsStore(t), NEW c \in Clouds, NEW d \in Doors,
           NEW k \in Doors
    PROVE  IsStore([t EXCEPT !.doors = Put(t.doors, k, DoorRow(c, d))])
  <1> DEFINE IsRow(r) == IsDoorRow(r) /\ r.enabled \in 0 .. 2
             row == DoorRow(c, d)
             rows == Put(t.doors, k, row)
  <1>1. DOMAIN t.doors \subseteq Doors /\ \A e \in DOMAIN t.doors : IsRow(t.doors[e])
    BY DEF IsStore, IsTables
  <1>2. IsRow(row)
    BY DoorRowIsTyped
  <1> HIDE DEF IsRow, row
  <1>3. DOMAIN rows \subseteq Doors /\ \A e \in DOMAIN rows : IsRow(rows[e])
    <2>1. /\ DOMAIN rows = DOMAIN t.doors \cup {k} /\ rows[k] = row
          /\ \A e \in DOMAIN t.doors : e # k => rows[e] = t.doors[e]
      BY DEF Put
    <2> HIDE DEF rows
    <2>2. ASSUME NEW e \in DOMAIN rows PROVE IsRow(rows[e])
      <3>1. CASE e = k
        BY <1>2, <2>1, <3>1
      <3>2. CASE e # k
        BY <1>1, <2>1, <3>2
      <3> QED
        BY <3>1, <3>2
    <2> QED
      BY <1>1, <2>1, <2>2
  <1> HIDE DEF rows
  <1>4. IsStore([t EXCEPT !.doors = rows])
    BY <1>3 DEF IsStore, IsTables, IsRow
  <1> QED
    BY <1>4 DEF rows, row

LEMMA InsertKept ==
    ASSUME NEW t, IsStore(t), NEW s \in Statements, s.table # "raise"
    PROVE  IsStore(Insert(t, s))
  <1>1. CASE s \in [table : {"devices"}, key : Devices, row : Devices]
    <2>1. Insert(t, s) = [t EXCEPT !.devices = Append(t.devices, s.key)]
      BY <1>1 DEF Insert
    <2>0. s.key \in Devices /\ t.devices \in Seq(Devices)
      BY <1>1 DEF IsStore, IsTables
    <2>2. PICK more \in Seq(Devices) : more = Append(t.devices, s.key)
      BY <2>0, AppendProperties
    <2>3. IsStore([t EXCEPT !.devices = more])
      BY DEF IsStore, IsTables
    <2> QED
      BY <2>1, <2>2, <2>3
  <1>2. CASE s \in [table : {"hubs"}, key : {Hub}, row : HubRows]
    <2>1. Insert(t, s) = [t EXCEPT !.hubs = Put(t.hubs, Hub, s.row)]
      BY <1>2 DEF Insert
    <2> QED
      BY <1>2, <2>1, HubPut
  <1>3. CASE s \in [table : {"doors"}, key : Doors, row : {DoorRow(c, d) : c \in Clouds, d \in Doors}]
    <2>1. Insert(t, s) = [t EXCEPT !.doors = Put(t.doors, s.key, s.row)]
      BY <1>3 DEF Insert
    <2>2. PICK c \in Clouds, d \in Doors : s.row = DoorRow(c, d)
      BY <1>3
    <2> QED
      BY <1>3, <2>1, <2>2, DoorPut
  <1>4. CASE s \in [table : {"feeders"}, key : Bowls, row : Bowls]
    BY <1>4 DEF Insert, IsStore, IsTables
  <1>5. CASE s \in [table : {"counters"}, key : Bowls \cup CatFlaps, row : Bowls \cup CatFlaps]
    BY <1>5 DEF Insert, IsStore, IsTables
  <1>6. CASE s \in [table : {"tagmap"}, key : Devices \X Nat, row : Pets]
    BY <1>6 DEF Insert, IsStore, IsTables
  <1>7. CASE s \in [table : {"pets"}, key : Pets, row : Pets]
    BY <1>7 DEF Insert, IsStore, IsTables
  <1>8. CASE s \in [table : {"petstate"}, key : Pets \X {NoMac}, row : {"activity", "feeding", "drinking"}]
    BY <1>8 DEF Insert, IsStore, IsTables
  <1>9. s # Raise
    BY DEF Raise, Into
  <1> QED
    BY <1>1, <1>2, <1>3, <1>4, <1>5, <1>6, <1>7, <1>8, <1>9 DEF Statements

\* The statements a document leads to.
LEMMA PetStatementsTyped ==
    ASSUME NEW c \in Clouds, NEW p \in Pets
    PROVE  PetStatements(c, p) \in Seq(Statements) \ {<<>>}
  <1>1. c.did[p] \in Seq([what : {"activity", "feeding", "drinking"}, at : Devices \cup {NoMac}])
    BY CloudAssumption DEF IsCloud
  <1>2. ASSUME NEW i \in DOMAIN c.did[p]
        PROVE  PetStateStatement(c, p, i) \in Statements
    <2>1. c.did[p][i].what \in {"activity", "feeding", "drinking"}
      <3>1. c.did[p][i] \in [what : {"activity", "feeding", "drinking"}, at : Devices \cup {NoMac}]
        <4>1. PICK s \in Seq([what : {"activity", "feeding", "drinking"}, at : Devices \cup {NoMac}]) : s = c.did[p]
          BY <1>1
        <4>2. i \in 1 .. Len(s)
          BY <4>1
        <4> QED
          BY <4>1, <4>2, ElementOfSeq
      <3> QED
        BY <3>1
    <2>2. Into("petstate", <<p, NoMac>>, c.did[p][i].what) \in Statements
      BY <2>1 DEF Statements, Into
    <2>3. Raise \in Statements
      BY DEF Statements
    <2> QED
      BY <2>2, <2>3 DEF PetStateStatement
  <1>3. [i \in DOMAIN c.did[p] |-> PetStateStatement(c, p, i)] \in Seq(Statements)
    BY <1>1, <1>2
  <1>4. Into("pets", p, p) \in Statements
    BY DEF Statements, Into
  <1> QED
    BY <1>3, <1>4 DEF PetStatements

LEMMA ProductStatementsTyped ==
    ASSUME NEW c \in Clouds, NEW m \in Devices
    PROVE  ProductStatements(c, m) \in Seq(Statements)
  <1>1. CASE m = Hub
    <2>1. Into("hubs", m, HubRow(c)) \in Statements
      BY <1>1 DEF Statements, Into, HubRows, HubRow
    <2> QED
      BY <1>1, <2>1, CloudAssumption DEF ProductStatements, Doors
  <1>2. CASE m \in PetDoors
    <2>1. Into("doors", m, DoorRow(c, m)) \in Statements
      BY <1>2 DEF Statements, Into, Doors
    <2> QED
      BY <1>2, <2>1, CloudAssumption DEF ProductStatements, Doors
  <1>3. CASE m \in CatFlaps
    <2>1. Into("doors", m, DoorRow(c, m)) \in Statements /\ Into("counters", m, m) \in Statements
      BY <1>3 DEF Statements, Into, Doors
    <2> QED
      BY <1>3, <2>1, CloudAssumption DEF ProductStatements, Doors
  <1>4. CASE m \in Bowls
    <2>1. Into("feeders", m, m) \in Statements /\ Into("counters", m, m) \in Statements
      BY <1>4 DEF Statements, Into
    <2> QED
      BY <1>4, <2>1, CloudAssumption DEF ProductStatements, Doors
  <1> QED
    BY <1>1, <1>2, <1>3, <1>4 DEF Devices, Doors

LEMMA DeviceStatementsTyped ==
    ASSUME NEW c \in Clouds, NEW m \in Devices
    PROVE  DeviceStatements(c, m) \in Seq(Statements) \ {<<>>}
  <1>1. c.tags[m] \in Seq(Pets)
    BY CloudAssumption DEF IsCloud
  <1> DEFINE Tag(i) == Into("tagmap", <<m, i>>, c.tags[m][i])
  <1>2. ASSUME NEW i \in DOMAIN c.tags[m] PROVE Tag(i) \in Statements
    BY <1>1 DEF Statements, Into
  <1> HIDE DEF Tag
  <1>3. [i \in DOMAIN c.tags[m] |-> Tag(i)] \in Seq(Statements)
    BY <1>1, <1>2
  <1>4. Into("devices", m, m) \in Statements
    BY DEF Statements, Into
  <1> DEFINE head == <<Into("devices", m, m)>>
             product == ProductStatements(c, m)
             tail == [i \in DOMAIN c.tags[m] |-> Tag(i)]
  <1>5. head \in Seq(Statements) /\ Len(head) = 1 /\ product \in Seq(Statements) /\ tail \in Seq(Statements)
    BY <1>3, <1>4, ProductStatementsTyped
  <1>6. DeviceStatements(c, m) = head \o product \o tail
    BY DEF DeviceStatements, Tag
  <1> HIDE DEF head, product, tail
  <1>7. head \o product \in Seq(Statements) /\ Len(head \o product) >= 1
    BY <1>5, ConcatProperties
  <1>8. head \o product \o tail \in Seq(Statements) /\ Len(head \o product \o tail) >= 1
    BY <1>5, <1>7, ConcatProperties
  <1> QED
    BY <1>6, <1>8, EmptySeq

LEMMA ScriptTyped ==
    ASSUME NEW c \in Clouds
    PROVE  Script(c) \in Scripts
  <1> DEFINE Some == Seq(Statements) \ {<<>>}
             pets == [i \in DOMAIN c.pets |-> PetStatements(c, c.pets[i])]
             devices == [i \in DOMAIN c.devices |-> DeviceStatements(c, c.devices[i])]
  <1>1. c.pets \in Seq(Pets) /\ c.devices \in Seq(Devices)
    BY CloudAssumption DEF IsCloud
  <1>2. /\ \A i \in DOMAIN c.pets : PetStatements(c, c.pets[i]) \in Some
        /\ \A i \in DOMAIN c.devices : DeviceStatements(c, c.devices[i]) \in Some
    BY <1>1, PetStatementsTyped, DeviceStatementsTyped
  <1>3. Script(c) = pets \o devices
    BY DEF Script
  <1> HIDE DEF Some
  <1>4. pets \in Seq(Some) /\ devices \in Seq(Some)
    BY <1>1, <1>2
  <1> HIDE DEF pets, devices
  <1> QED
    BY <1>3, <1>4, ConcatProperties DEF Scripts, Some

\* The tables the service may find on its first start.
LEMMA SuppliedIsStore ==
    ASSUME NEW c \in Clouds, NEW rows, NEW s, NEW gone
    PROVE  IsStore(Supplied(c, rows, s, gone))
  <1> DEFINE t == Image(c)
             states == [k \in rows |-> s]
             counters == t.counters \ gone
  <1>1. c.devices \in Seq(Devices) /\ c.pets \in Seq(Pets)
    BY CloudAssumption DEF IsCloud
  <1>2. IsHubRow(HubRow(c))
    BY DEF IsHubRow, HubRow
  <1>3. \A d \in Doors : IsDoorRow(DoorRow(c, d)) /\ DoorRow(c, d).enabled \in 0 .. 2
    BY DoorRowIsTyped
  <1>4. ToSet(c.pets) \subseteq Pets
    BY <1>1 DEF ToSet
  <1>5. IsStore(t)
    BY <1>1, <1>2, <1>3, <1>4 DEF Image, IsStore, IsTables
  <1>6. Supplied(c, rows, s, gone) = [t EXCEPT !.petstate = states, !.counters = counters]
    BY DEF Supplied
  <1>7. counters \subseteq Bowls \cup CatFlaps
    BY <1>5 DEF IsStore, IsTables
  <1> HIDE DEF t, states, counters
  <1> QED
    BY <1>5, <1>6, <1>7 DEF IsStore, IsTables

-----------------------------------------------------------------------------
(* What the service stores *)

LEMMA StoreHubKept ==
    ASSUME IsStore(db), NEW f \in {"state", "uptime"}, NEW v \in Nat
    PROVE  /\ IsStore(StoreHub(f, v)) /\ SameKeys(db, StoreHub(f, v))
           /\ StoreHub(f, v).doors = db.doors
           /\ Known(Hub) /\ Hub \in DOMAIN db.hubs =>
                  StoreHub(f, v).hubs[Hub] = [db.hubs[Hub] EXCEPT ![f] = v]
  <1>1. CASE Known(Hub) /\ Hub \in DOMAIN db.hubs
    BY <1>1, HubsKept DEF StoreHub
  <1>2. CASE ~(Known(Hub) /\ Hub \in DOMAIN db.hubs)
    BY <1>2 DEF StoreHub, SameKeys
  <1> QED
    BY <1>1, <1>2

LEMMA StorePassageKept ==
    ASSUME IsStore(db), NEW m
    PROVE  /\ IsStore(StorePassage(m)) /\ SameKeys(db, StorePassage(m))
           /\ StorePassage(m).doors = db.doors /\ StorePassage(m).hubs = db.hubs
  BY PassagesKept DEF StorePassage

\* The row of a door that is left by a state that is stored again, by times and by a report.
KeptRow(old, row) ==
    \/ row = old
    \/ \E e \in 0 .. 2 : row = [old EXCEPT !.enabled = e]
    \/ \E text : row = [old EXCEPT !.curfews = text]
    \/ \E e \in 0 .. 2 : \E text : row = [enabled |-> e, curfews |-> text]

LEMMA RowsKept ==
    ASSUME IsStore(db), NEW rows, DOMAIN rows = DOMAIN db.doors,
           \A d \in DOMAIN db.doors : KeptRow(db.doors[d], rows[d])
    PROVE  LET u == [db EXCEPT !.doors = rows]
           IN  IsStore(u) /\ SameKeys(db, u) /\ u.doors = rows /\ u.hubs = db.hubs
  <1>1. ASSUME NEW d \in DOMAIN rows
        PROVE  IsDoorRow(rows[d]) /\ rows[d].enabled \in 0 .. 2
    <2>1. IsDoorRow(db.doors[d]) /\ db.doors[d].enabled \in 0 .. 2
      BY DEF IsStore, IsTables
    <2>2. CASE rows[d] = db.doors[d]
      BY <2>1, <2>2
    <2>3. ASSUME NEW e \in 0 .. 2, rows[d] = [db.doors[d] EXCEPT !.enabled = e]
          PROVE  IsDoorRow(rows[d]) /\ rows[d].enabled \in 0 .. 2
      BY <2>1, <2>3 DEF IsDoorRow
    <2>4. ASSUME NEW text, rows[d] = [db.doors[d] EXCEPT !.curfews = text]
          PROVE  IsDoorRow(rows[d]) /\ rows[d].enabled \in 0 .. 2
      BY <2>1, <2>4 DEF IsDoorRow
    <2>5. ASSUME NEW e \in 0 .. 2, NEW text, rows[d] = [enabled |-> e, curfews |-> text]
          PROVE  IsDoorRow(rows[d]) /\ rows[d].enabled \in 0 .. 2
      BY <2>5 DEF IsDoorRow
    <2> QED
      BY <2>2, <2>3, <2>4, <2>5 DEF KeptRow
  <1> QED
    BY <1>1, DoorsKept

LEMMA StoreReportKept ==
    ASSUME IsStore(db), NEW m, m.curfew \in Registers
    PROVE  /\ IsStore(StoreReport(m)) /\ SameKeys(db, StoreReport(m))
           /\ StoreReport(m).hubs = db.hubs
           /\ \A d \in DOMAIN db.doors :
                 StoreReport(m).doors[d].enabled =
                     IF d = m.door THEN m.curfew.enabled ELSE db.doors[d].enabled
  <1> DEFINE rows == [d \in DOMAIN db.doors |->
                         IF d = m.door
                         THEN [enabled |-> m.curfew.enabled, curfews |-> <<m.curfew.span>>]
                         ELSE db.doors[d]]
  <1>1. StoreReport(m) = [db EXCEPT !.doors = rows]
    BY DEF StoreReport
  <1>2. m.curfew.enabled \in 0 .. 2
    BY DEF Registers
  <1>3. \A d \in DOMAIN db.doors : KeptRow(db.doors[d], rows[d])
    BY <1>2 DEF KeptRow
  <1>4. /\ DOMAIN rows = DOMAIN db.doors
        /\ \A d \in DOMAIN db.doors :
              rows[d].enabled = IF d = m.door THEN m.curfew.enabled ELSE db.doors[d].enabled
    OBVIOUS
  <1> HIDE DEF rows
  <1> QED
    BY <1>1, <1>3, <1>4, RowsKept

LEMMA StoreTimesKept ==
    ASSUME IsStore(db), NEW m
    PROVE  /\ IsStore(StoreTimes(m)) /\ SameKeys(db, StoreTimes(m))
           /\ StoreTimes(m).hubs = db.hubs
           /\ \A d \in DOMAIN db.doors :
                 /\ StoreTimes(m).doors[d].enabled = db.doors[d].enabled
                 /\ StoreTimes(m).doors[d].curfews = m.text
  <1> DEFINE rows == [d \in DOMAIN db.doors |-> [db.doors[d] EXCEPT !.curfews = m.text]]
  <1>1. StoreTimes(m) = [db EXCEPT !.doors = rows]
    BY DEF StoreTimes
  <1>2. \A d \in DOMAIN db.doors : KeptRow(db.doors[d], rows[d])
    BY DEF KeptRow
  <1>3. /\ DOMAIN rows = DOMAIN db.doors
        /\ \A d \in DOMAIN db.doors : rows[d].enabled = db.doors[d].enabled /\ rows[d].curfews = m.text
    BY DEF IsStore, IsTables, IsDoorRow
  <1> HIDE DEF rows
  <1> QED
    BY <1>1, <1>2, <1>3, RowsKept

LEMMA StoredAgainKept ==
    ASSUME IsStore(db), NEW p \in Publications
    PROVE  /\ IsStore(StoredAgain(p)) /\ SameKeys(db, StoredAgain(p))
           /\ StoredAgain(p).hubs = db.hubs
           /\ \A d \in DOMAIN db.doors :
                 StoredAgain(p).doors[d].enabled =
                     IF p.to = "curfew" /\ d = p.door THEN p.value.enabled ELSE db.doors[d].enabled
  <1>1. CASE p.to = "curfew"
    <2> DEFINE rows == [d \in DOMAIN db.doors |->
                           IF d = p.door THEN [db.doors[d] EXCEPT !.enabled = p.value.enabled]
                                         ELSE db.doors[d]]
    <2>1. StoredAgain(p) = [db EXCEPT !.doors = rows]
      BY <1>1 DEF StoredAgain
    <2>2. p.value.enabled \in 0 .. 2
      BY <1>1 DEF Publications, Registers
    <2>3. \A d \in DOMAIN db.doors : KeptRow(db.doors[d], rows[d])
      BY <2>2 DEF KeptRow
    <2>4. /\ DOMAIN rows = DOMAIN db.doors
          /\ \A d \in DOMAIN db.doors :
                rows[d].enabled = IF d = p.door THEN p.value.enabled ELSE db.doors[d].enabled
      BY DEF IsStore, IsTables, IsDoorRow
    <2> HIDE DEF rows
    <2> QED
      BY <1>1, <2>1, <2>3, <2>4, RowsKept
  <1>2. CASE p.to # "curfew"
    BY <1>2 DEF StoredAgain, SameKeys
  <1> QED
    BY <1>1, <1>2

\* What decoding a message stores.
LEMMA StoredKept ==
    ASSUME IsStore(db), NEW m \in Messages
    PROVE  IsStore(Stored(m)) /\ SameKeys(db, Stored(m))
  <1>1. CASE m.kind = "online"
    <2>1. \E v \in Nat : Stored(m) = StoreHub("state", v)
      BY <1>1 DEF Stored
    <2> QED
      BY <2>1, StoreHubKept
  <1>2. CASE m.kind = "uptime"
    <2>1. m.mins \in Nat /\ Stored(m) = StoreHub("uptime", m.mins)
      BY <1>2 DEF Stored, Messages
    <2> QED
      BY <2>1, StoreHubKept
  <1>3. CASE m.kind = "passage"
    <2>1. Stored(m) = StorePassage(m)
      BY <1>3 DEF Stored
    <2> QED
      BY <2>1, StorePassageKept
  <1>4. CASE m.kind = "report"
    <2>1. m.curfew \in Registers /\ Stored(m) = StoreReport(m)
      BY <1>4 DEF Stored, Messages
    <2> QED
      BY <2>1, StoreReportKept
  <1>5. CASE m.kind = "times" /\ m.door \in served
    <2>1. Stored(m) = StoreTimes(m)
      BY <1>5 DEF Stored
    <2> QED
      BY <2>1, StoreTimesKept
  <1>6. CASE m.kind \notin {"online", "uptime", "passage", "report"} /\ ~(m.kind = "times" /\ m.door \in served)
    <2>1. Stored(m) = db
      BY <1>6 DEF Stored
    <2> QED
      BY <2>1 DEF SameKeys
  <1> QED
    BY <1>1, <1>2, <1>3, <1>4, <1>5, <1>6

-----------------------------------------------------------------------------
(* What the service publishes *)

LEMMA CommandTyped ==
    ASSUME NEW row, row.enabled \in 0 .. 2, OneSpan(row.curfews), NEW state \in {"ON", "OFF", "UPD"}
    PROVE  CurfewCommand(row, state) \in Registers
  BY DEF CurfewCommand, OneSpan, Registers

LEMMA PublicationTyped ==
    ASSUME IsStore(db), NEW m \in Messages, ~Raises(m)
    PROVE  Publication(m) \in Publications
  <1>1. db.pets \subseteq Pets
    BY DEF IsStore, IsTables
  <1>2. CASE m.kind = "online" /\ Hub \in served
    BY <1>2 DEF Publication, Publications
  <1>3. CASE m.kind = "uptime" /\ Hub \in served
    <2>1. m.mins \in Nat
      BY <1>3 DEF Messages
    <2> QED
      BY <1>3, <2>1 DEF Publication, Publications
  <1>4. CASE m.kind = "passage" /\ m.door \in served
    <2>1. m.dir \in DoorDirections /\ Named(m.door, m.index) \subseteq Pets
      BY <1>1, <1>4 DEF Messages, Named
    <2>2. Publication(m) = [to |-> "pets", pets |-> Named(m.door, m.index), value |-> m.dir]
      BY <1>4 DEF Publication
    <2> QED
      BY <2>1, <2>2 DEF Publications
  <1>5. CASE m.kind = "movement" /\ m.door \in served
    <2>1. m.dir \in FlapDirections /\ {m.pet} \cap db.pets \subseteq Pets
      BY <1>1, <1>5 DEF Messages
    <2>2. Publication(m) = [to |-> "pets", pets |-> {m.pet} \cap db.pets, value |-> m.dir]
      BY <1>5 DEF Publication
    <2> QED
      BY <2>1, <2>2 DEF Publications
  <1>6. CASE m.kind = "report" /\ m.door \in served
    <2>1. m.door \in PetDoors /\ m.curfew \in Registers
      BY <1>6 DEF Messages
    <2> QED
      BY <1>6, <2>1 DEF Publication, Publications
  <1>7. CASE m.kind = "times" /\ m.door \in served
    <2>1. m.door \in PetDoors /\ m.door \in DOMAIN db.doors /\ OneSpan(m.text)
      BY <1>7 DEF Raises
    <2> DEFINE row == StoreTimes(m).doors[m.door]
    <2>2. row.enabled \in 0 .. 2 /\ row.curfews = m.text
      BY <2>1, StoreTimesKept DEF IsStore
    <2>3. Publication(m) = [to |-> "door", door |-> m.door, value |-> CurfewCommand(row, "UPD")]
      BY <1>7 DEF Publication
    <2> HIDE DEF row
    <2>4. CurfewCommand(row, "UPD") \in Registers
      BY <2>1, <2>2, CommandTyped
    <2> QED
      BY <2>1, <2>3, <2>4 DEF Publications
  <1>8. CASE ~(m.kind \in {"online", "uptime"} /\ Hub \in served)
             /\ ~(m.kind \in {"passage", "movement", "report", "times"} /\ m.door \in served)
    <2>1. Publication(m) = [to |-> "nobody"]
      BY <1>8 DEF Publication
    <2> QED
      BY <2>1 DEF Publications
  <1> QED
    BY <1>2, <1>3, <1>4, <1>5, <1>6, <1>7, <1>8

LEMMA PublishedTyped ==
    ASSUME NEW s, IsTopics(s), NEW p \in Publications
    PROVE  IsTopics(Published(s, p))
  <1>1. CASE p \in [to : {"hub"}, field : {"state", "uptime"}, value : Nat]
    <2> DEFINE hub == [s.hub EXCEPT ![p.field] = p.value]
    <2>1. Published(s, p) = [s EXCEPT !.hub = hub]
      BY <1>1 DEF Published
    <2>2. hub \in HubRows
      BY <1>1 DEF IsTopics, HubRows
    <2> HIDE DEF hub
    <2> QED
      BY <2>1, <2>2 DEF IsTopics
  <1>2. CASE p \in [to : {"pets"}, pets : SUBSET Pets, value : DoorDirections \cup FlapDirections]
    <2>1. PICK pet : Published(s, p) = [s EXCEPT !.pet = pet]
      BY <1>2 DEF Published
    <2> QED
      BY <2>1 DEF IsTopics
  <1>3. CASE p \in [to : {"curfew"}, door : PetDoors, value : Registers]
    <2> DEFINE row == [enabled |-> p.value.enabled, curfews |-> <<p.value.span>>]
               curfew == [s.curfew EXCEPT ![p.door] = row]
    <2>1. Published(s, p) = [s EXCEPT !.curfew = curfew]
      BY <1>3 DEF Published
    <2>2. IsDoorRow(row)
      BY <1>3 DEF IsDoorRow, Registers
    <2> HIDE DEF row
    <2>3. DOMAIN curfew = Doors /\ \A d \in Doors : IsDoorRow(curfew[d])
      BY <2>2 DEF IsTopics
    <2> HIDE DEF curfew
    <2> QED
      BY <2>1, <2>3 DEF IsTopics
  <1>4. CASE p.to \in {"door", "nobody"}
    <2>1. Published(s, p) = s
      BY <1>4 DEF Published
    <2> QED
      BY <2>1
  <1> QED
    BY <1>1, <1>2, <1>3, <1>4 DEF Publications

\* A device that loads has its rows.
LEMMA LoadsNeeds ==
    ASSUME NEW m, Loads(m)
    PROVE  /\ m = Hub => m \in DOMAIN db.hubs
           /\ m \in Doors => m \in DOMAIN db.doors
           /\ m \in CatFlaps => m \in db.counters
  <1>1. CASE m = Hub
    BY <1>1, CloudAssumption DEF Loads, Doors, Bowls
  <1>2. CASE m \in PetDoors
    BY <1>2, CloudAssumption DEF Loads, Doors, Bowls
  <1>3. CASE m \in CatFlaps
    BY <1>3, CloudAssumption DEF Loads, Doors, Bowls
  <1> QED
    BY <1>1, <1>2, <1>3 DEF Doors

\* The topics after the startup loops have read the tables.
LEMMA DeviceTopicsTyped ==
    ASSUME IsStore(db), IsTopics(shown), NEW n \in Nat, Load(n)
    PROVE  IsTopics(DeviceTopics(n))
  <1> DEFINE hub == IF Hub \in FirstDevices(n) THEN db.hubs[Hub] ELSE shown.hub
             curfew == [d \in Doors |-> IF d \in FirstDevices(n) THEN db.doors[d] ELSE shown.curfew[d]]
  <1>1. DeviceTopics(n) = [shown EXCEPT !.hub = hub, !.curfew = curfew]
    BY DEF DeviceTopics
  <1>2. \A m \in FirstDevices(n) : Loads(m)
    BY DEF Load, FirstDevices
  <1>3. hub \in HubRows
    <2>1. CASE Hub \in FirstDevices(n)
      BY <1>2, <2>1, HubRowIsTyped, LoadsNeeds DEF IsStore, IsTables
    <2>2. CASE Hub \notin FirstDevices(n)
      BY <2>2 DEF IsTopics
    <2> QED
      BY <2>1, <2>2
  <1>4. ASSUME NEW d \in Doors
        PROVE  IsDoorRow(curfew[d])
    <2>1. CASE d \in FirstDevices(n)
      <3>1. d \in DOMAIN db.doors
        BY <1>2, <2>1, LoadsNeeds
      <3> QED
        BY <2>1, <3>1 DEF IsStore, IsTables
    <2>2. CASE d \notin FirstDevices(n)
      BY <2>2 DEF IsTopics
    <2> QED
      BY <2>1, <2>2
  <1>5. DOMAIN curfew = Doors
    OBVIOUS
  <1> HIDE DEF hub, curfew
  <1> QED
    BY <1>1, <1>3, <1>4, <1>5 DEF IsTopics

-----------------------------------------------------------------------------
(* The types are kept *)

LEMMA InitTypes == Init => Types
  <1> SUFFICES ASSUME Init PROVE Types
    OBVIOUS
  <1>1. BuildTypes
    <2>1. PICK rows, s, gone : db = Supplied(source, rows, s, gone)
      BY DEF Init
    <2>2. source \in Clouds /\ todo = <<>> /\ failed = 1 /\ touched = FALSE
      BY DEF Init, BuildInit
    <2>3. todo \in Scripts
      BY <2>2 DEF Scripts
    <2> QED
      BY <2>1, <2>2, <2>3, SuppliedIsStore DEF BuildTypes
  <1>2. ServiceTypes
    <2>1. IsTopics(shown)
      BY DEF Init, IsTopics, HubRows, IsDoorRow, Unset
    <2>2. up = FALSE /\ served = {} /\ inbox = <<>> /\ pending = {}
      BY DEF Init
    <2> QED
      BY <2>1, <2>2, EmptySeq DEF ServiceTypes
  <1>3. HouseTypes
    <2>1. /\ cmd = [d \in PetDoors |-> <<>>] /\ hubOn \in BOOLEAN /\ side \in [Pets -> {"in", "out"}]
          /\ via = [p \in Pets |-> NoMac] /\ own \in [PetDoors -> {r \in Registers : r.enabled \in {1, 2}}]
          /\ missed = Subjects /\ fresh = FALSE /\ scenario \in Scenarios
      BY DEF Init
    <2>2. cmd \in [PetDoors -> Seq(Registers)]
      BY <2>1, EmptySeq
    <2>3. own \in [PetDoors -> Registers]
      BY <2>1
    <2> QED
      BY <2>1, <2>2, <2>3 DEF HouseTypes
  <1> QED
    BY <1>1, <1>2, <1>3 DEF Types

\* Messages arrive at the end, and only if the service runs.
LEMMA SendTypes ==
    ASSUME ServiceTypes, missed \subseteq Subjects, NEW m \in Messages, NEW subjects \in SUBSET Subjects,
           Send(m, subjects), UNCHANGED <<up, served, pending, shown>>
    PROVE  ServiceTypes' /\ missed' \subseteq Subjects
  <1>1. inbox' \in Seq(Messages) /\ (~up => inbox' = inbox)
    BY AppendProperties DEF Send, ServiceTypes
  <1>2. missed' \subseteq Subjects
    BY DEF Send
  <1> QED
    BY <1>1, <1>2 DEF ServiceTypes

LEMMA EnvironmentTypes ==
    ASSUME Types, Environment
    PROVE  Types'
  <1> USE DEF Types
  <1>1. ASSUME HubSwitches PROVE Types'
    <2>1. [kind |-> "online", on |-> hubOn'] \in Messages /\ {Hub} \in SUBSET Subjects /\ hubOn' \in BOOLEAN
      BY <1>1 DEF HubSwitches, Messages, Subjects, HouseTypes
    <2>2. ServiceTypes' /\ missed' \subseteq Subjects
      BY <1>1, <2>1, SendTypes DEF HubSwitches, HouseTypes
    <2> QED
      BY <1>1, <2>1, <2>2 DEF HubSwitches, BuildTypes, HouseTypes, buildVars
  <1>2. ASSUME HubUptime PROVE Types'
    <2>1. PICK t \in 1 .. MaxUptime : Send([kind |-> "uptime", mins |-> t], {})
      BY <1>2 DEF HubUptime
    <2>2. [kind |-> "uptime", mins |-> t] \in Messages
      BY HouseholdAssumption DEF Messages
    <2>3. ServiceTypes' /\ missed' \subseteq Subjects
      BY <1>2, <2>1, <2>2, SendTypes DEF HubUptime, HouseTypes
    <2> QED
      BY <1>2, <2>3 DEF HubUptime, BuildTypes, HouseTypes, buildVars, world
  <1>3. ASSUME SendAgain PROVE Types'
    <2>1. PICK first \in DOMAIN inbox, last \in DOMAIN inbox : inbox' = inbox \o SubSeq(inbox, first, last)
      BY <1>3 DEF SendAgain
    <2>2. /\ inbox \in Seq(Messages) /\ first \in 1 .. Len(inbox) /\ last \in 1 .. Len(inbox)
          /\ Len(inbox) \in Nat /\ inbox # <<>>
      BY <2>1 DEF ServiceTypes
    <2>3. \A i \in first .. last : inbox[i] \in Messages
      BY <2>2, ElementOfSeq
    <2>4. SubSeq(inbox, first, last) \in Seq(Messages)
      BY <2>2, <2>3, SubSeqProperties
    <2>5. inbox' \in Seq(Messages)
      BY <2>1, <2>2, <2>4, ConcatProperties
    <2> QED
      BY <1>3, <2>2, <2>5 DEF SendAgain, BuildTypes, ServiceTypes, HouseTypes, buildVars, world
  <1>4. ASSUME NEW d \in PetDoors, NEW i \in DOMAIN Slots[d], NEW dir \in DoorDirections, Passage(d, i, dir)
        PROVE  Types'
    <2>1. Slots[d][i] \in Pets /\ i \in Nat
      BY HouseholdAssumption, ElementOfSeq
    <2>2. /\ [kind |-> "passage", door |-> d, index |-> i, dir |-> dir] \in Messages
          /\ {Slots[d][i]} \in SUBSET Subjects
      BY <2>1 DEF Messages, Subjects
    <2>3. ServiceTypes' /\ missed' \subseteq Subjects
      BY <1>4, <2>2, SendTypes DEF Passage, HouseTypes
    <2>4. side' \in [Pets -> {"in", "out"}] /\ via' \in [Pets -> Doors \cup {NoMac}]
      BY <1>4, <2>1 DEF Passage, HouseTypes, Doors
    <2> QED
      BY <1>4, <2>3, <2>4 DEF Passage, BuildTypes, HouseTypes, buildVars
  <1>5. ASSUME NEW d \in CatFlaps, NEW p \in Pets, NEW dir \in FlapDirections, Movement(d, p, dir)
        PROVE  Types'
    <2>1. [kind |-> "movement", door |-> d, pet |-> p, dir |-> dir] \in Messages
      BY DEF Messages
    <2>2. ServiceTypes' /\ missed' \subseteq Subjects
      BY <1>5, <2>1, SendTypes DEF Movement, HouseTypes
    <2>3. side' \in [Pets -> {"in", "out"}] /\ via' \in [Pets -> Doors \cup {NoMac}]
      BY <1>5 DEF Movement, HouseTypes, Doors
    <2> QED
      BY <1>5, <2>2, <2>3 DEF Movement, BuildTypes, HouseTypes, buildVars
  <1>6. ASSUME NEW d \in CatFlaps, CurfewLock(d) PROVE Types'
    <2>1. [kind |-> "curfewlock", door |-> d] \in Messages
      BY DEF Messages
    <2>2. ServiceTypes' /\ missed' \subseteq Subjects
      BY <1>6, <2>1, SendTypes DEF CurfewLock, HouseTypes
    <2> QED
      BY <1>6, <2>2 DEF CurfewLock, BuildTypes, HouseTypes, buildVars, world
  <1>7. ASSUME NEW d \in Doors, NEW text \in Texts, SetTimes(d, text) PROVE Types'
    <2>1. [kind |-> "times", door |-> d, text |-> text] \in Messages
      BY DEF Messages
    <2>2. ServiceTypes' /\ missed' \subseteq Subjects
      BY <1>7, <2>1, SendTypes DEF SetTimes, HouseTypes
    <2> QED
      BY <1>7, <2>2 DEF SetTimes, BuildTypes, HouseTypes, buildVars, world
  <1>8. ASSUME NEW d \in PetDoors, DoorObeys(d) PROVE Types'
    <2>1. cmd[d] \in Seq(Registers) /\ cmd[d] # <<>>
      BY <1>8 DEF DoorObeys, HouseTypes
    <2>2. Head(cmd[d]) \in Registers /\ Tail(cmd[d]) \in Seq(Registers)
      BY <2>1
    <2>3. own' \in [PetDoors -> Registers] /\ own'[d] \in Registers /\ cmd' \in [PetDoors -> Seq(Registers)]
      BY <1>8, <2>2 DEF DoorObeys, HouseTypes
    <2>4. [kind |-> "report", door |-> d, curfew |-> own'[d]] \in Messages /\ {d} \in SUBSET Subjects
      BY <2>3 DEF Messages, Subjects
    <2>5. ServiceTypes' /\ missed' \subseteq Subjects
      BY <1>8, <2>4, SendTypes DEF DoorObeys, HouseTypes
    <2> QED
      BY <1>8, <2>3, <2>5 DEF DoorObeys, BuildTypes, HouseTypes, buildVars
  <1>9. ASSUME NEW d \in PetDoors, CommandLost(d) PROVE Types'
    <2>1. cmd[d] \in Seq(Registers) /\ cmd[d] # <<>>
      BY <1>9 DEF CommandLost, HouseTypes
    <2>2. Tail(cmd[d]) \in Seq(Registers)
      BY <2>1
    <2> QED
      BY <1>9, <2>2 DEF CommandLost, BuildTypes, ServiceTypes, HouseTypes, buildVars, serviceVars, world
  <1>10. ASSUME NEW d \in PetDoors, NEW state \in {"ON", "OFF"}, CliCurfew(d, state) PROVE Types'
    <2>1. CurfewCommand(db.doors[d], state) \in Registers
      BY <1>10, CommandTyped DEF CliCurfew, BuildTypes, IsStore
    <2>2. Append(cmd[d], CurfewCommand(db.doors[d], state)) \in Seq(Registers)
      BY <2>1, AppendProperties DEF HouseTypes
    <2> QED
      BY <1>10, <2>2 DEF CliCurfew, BuildTypes, ServiceTypes, HouseTypes, buildVars, serviceVars, world
  <1> QED
    BY <1>1, <1>2, <1>3, <1>4, <1>5, <1>6, <1>7, <1>8, <1>9, <1>10 DEF Environment

\* The subjects of lost messages are subjects.
LEMMA LostSubjects ==
    ASSUME ServiceTypes
    PROVE  Lost \subseteq Subjects
  <1>1. ASSUME NEW m \in ToSet(inbox)
        PROVE  /\ m.kind = "passage" => Slots[m.door][m.index] \in Subjects
               /\ m.kind = "report" => m.door \in Subjects
    <2>1. m \in Messages
      BY <1>1, ElementOfSeq DEF ServiceTypes, ToSet
    <2>2. CASE m.kind = "passage"
      <3>1. m.door \in PetDoors /\ m.index \in DOMAIN Slots[m.door]
        BY <2>1, <2>2 DEF Messages
      <3> QED
        BY <2>2, <3>1, HouseholdAssumption, ElementOfSeq DEF Subjects
    <2>3. CASE m.kind = "report"
      BY <2>1, <2>3 DEF Messages, Subjects
    <2> QED
      BY <2>2, <2>3
  <1> DEFINE Subject(m) == CASE m.kind = "online" -> {Hub}
                             [] m.kind = "passage" -> {Slots[m.door][m.index]}
                             [] m.kind = "report" -> {m.door}
                             [] OTHER -> {}
  <1>2. \A m \in ToSet(inbox) : Subject(m) \subseteq Subjects
    BY <1>1 DEF Subjects
  <1>3. Lost = UNION {Subject(m) : m \in ToSet(inbox)}
    BY DEF Lost
  <1> HIDE DEF Subject
  <1> QED
    BY <1>2, <1>3

LEMMA ServiceStepTypes ==
    ASSUME Types, Decode \/ Return \/ Die \/ Crash \/ Start \/ StartFails
    PROVE  Types'
  <1> USE DEF Types
  <1> DEFINE m == Head(inbox)
  <1>1. inbox # <<>> => m \in Messages /\ Tail(inbox) \in Seq(Messages)
    BY DEF ServiceTypes
  <1>2. Overwritten(m) \subseteq Subjects
    BY DEF Overwritten, Subjects
  <1>3. ASSUME Decode PROVE Types'
    <2>1. m \in Messages /\ ~Raises(m) /\ Tail(inbox) \in Seq(Messages) /\ up
      BY <1>1, <1>3 DEF Decode
    <2>2. IsStore(db') /\ touched' \in BOOLEAN
      <3>1. db' = Stored(m) /\ IsStore(db)
        BY <1>3 DEF Decode, BuildTypes
      <3>2. IsStore(Stored(m))
        BY <2>1, <3>1, StoredKept
      <3>3. touched' \in BOOLEAN
        BY <1>3, Zenon DEF Decode, BuildTypes
      <3> QED
        BY <3>1, <3>2, <3>3
    <2>3. Publication(m) \in Publications
      BY <2>1, PublicationTyped DEF BuildTypes
    <2>4. /\ pending' = {Publication(m)} /\ inbox' = Tail(inbox) /\ missed' = missed \cup Overwritten(m)
          /\ UNCHANGED <<todo, source, failed, up, served, shown, cmd, hubOn, side, via, own, fresh, scenario>>
      BY <1>3 DEF Decode, world
    <2> HIDE DEF m
    <2> QED
      BY <1>2, <2>1, <2>2, <2>3, <2>4 DEF BuildTypes, ServiceTypes, HouseTypes
  <1>4. ASSUME Return PROVE Types'
    <2>1. PICK p \in pending :
              /\ shown' = Published(shown, p) /\ db' = StoredAgain(p) /\ touched' = (touched \/ db' # db)
              /\ IF p.to = "door" THEN cmd' = [cmd EXCEPT ![p.door] = Append(@, p.value)] ELSE cmd' = cmd
      BY <1>4 DEF Return
    <2>2. p \in Publications
      BY DEF ServiceTypes
    <2>3. IsStore(db')
      BY <2>1, <2>2, StoredAgainKept DEF BuildTypes
    <2>4. touched' \in BOOLEAN
      BY <2>1, Zenon DEF BuildTypes
    <2>5. IsTopics(shown')
      BY <2>1, <2>2, PublishedTyped DEF ServiceTypes
    <2>6. cmd' \in [PetDoors -> Seq(Registers)]
      <3>1. CASE p.to = "door"
        <4>1. p.door \in PetDoors /\ p.value \in Registers
          BY <2>2, <3>1 DEF Publications
        <4>2. Append(cmd[p.door], p.value) \in Seq(Registers)
          BY <4>1, AppendProperties DEF HouseTypes
        <4> QED
          BY <2>1, <3>1, <4>1, <4>2 DEF HouseTypes
      <3>2. CASE p.to # "door"
        BY <2>1, <3>2 DEF HouseTypes
      <3> QED
        BY <3>1, <3>2
    <2>7. pending' = {} /\ UNCHANGED <<todo, source, failed, up, served, inbox, hubOn, side, via, own,
                                       missed, fresh, scenario>>
      BY <1>4 DEF Return, world
    <2> QED
      BY <2>3, <2>4, <2>5, <2>6, <2>7 DEF BuildTypes, ServiceTypes, HouseTypes
  <1>5. ASSUME Down, IsStore(db'), touched' \in BOOLEAN, missed' \subseteq Subjects PROVE Types'
    BY <1>5, EmptySeq DEF Down, BuildTypes, ServiceTypes, HouseTypes, world
  <1>6. ASSUME Die PROVE Types'
    <2>1. m \in Messages
      BY <1>1, <1>6 DEF Die
    <2>2. db' = Stored(m) \/ db' = db
      BY <1>6 DEF Die
    <2>3. IsStore(db')
      BY <2>1, <2>2, StoredKept DEF BuildTypes
    <2>4. touched' \in BOOLEAN
      BY <1>6, Zenon DEF Die, BuildTypes
    <2>5. missed' \subseteq Subjects
      BY <1>2, <1>6, LostSubjects DEF Die, HouseTypes
    <2> QED
      BY <1>5, <1>6, <2>3, <2>4, <2>5 DEF Die
  <1>7. ASSUME Crash PROVE Types'
    <2>1. IsStore(db') /\ touched' \in BOOLEAN
      BY <1>7 DEF Crash, BuildTypes
    <2>2. missed' \subseteq Subjects
      BY <1>7, LostSubjects DEF Crash, HouseTypes
    <2> QED
      BY <1>5, <1>7, <2>1, <2>2 DEF Crash
  <1>8. ASSUME Start PROVE Types'
    <2>1. db.devices \in Seq(Devices) /\ Len(db.devices) \in Nat /\ Load(Len(db.devices))
      BY <1>8 DEF Start, Starts, BuildTypes, IsStore, IsTables
    <2>2. ToSet(db.devices) \subseteq Devices
      BY <2>1, ElementOfSeq DEF ToSet
    <2>3. IsTopics(DeviceTopics(Len(db.devices)))
      BY <2>1, DeviceTopicsTyped DEF BuildTypes, ServiceTypes
    <2>4. PICK last : shown' = PetTopics(DeviceTopics(Len(db.devices)), last)
      BY <1>8 DEF Start
    <2>5. IsTopics(shown')
      BY <2>3, <2>4 DEF PetTopics, IsTopics
    <2>6. fresh' \in BOOLEAN
      BY <1>8 DEF Start
    <2>7. up' = TRUE /\ served' = ToSet(db.devices)
          /\ UNCHANGED <<db, todo, source, failed, touched, inbox, pending, cmd, hubOn, side, via, own,
                         missed, scenario>>
      BY <1>8 DEF Start, world, buildVars
    <2> QED
      BY <2>2, <2>5, <2>6, <2>7 DEF BuildTypes, ServiceTypes, HouseTypes
  <1>9. ASSUME StartFails PROVE Types'
    <2>1. PICK n \in 1 .. Len(db.devices) : Load(n) /\ shown' = DeviceTopics(n)
      BY <1>9 DEF StartFails
    <2>2. n \in Nat
      BY DEF BuildTypes, IsStore, IsTables
    <2>3. IsTopics(shown')
      BY <2>1, <2>2, DeviceTopicsTyped DEF BuildTypes, ServiceTypes
    <2> QED
      BY <1>9, <2>3 DEF StartFails, BuildTypes, ServiceTypes, HouseTypes, world, buildVars
  <1> QED
    BY <1>3, <1>4, <1>6, <1>7, <1>8, <1>9

LEMMA BuilderTypes ==
    ASSUME Types, Build \/ BuildStops
    PROVE  Types'
  <1> USE DEF Types
  <1>1. ASSUME NEW c \in Clouds, DropAndCreate(c)
        PROVE  BuildTypes'
    <2>1. Script(c) \in Scripts /\ <<>> \in Scripts
      BY ScriptTyped, EmptySeq DEF Scripts
    <2> QED
      BY <1>1, <2>1, EmptyIsStore DEF DropAndCreate, BuildTypes
  <1>2. ASSUME InsertRow PROVE BuildTypes'
    <2> DEFINE Some == Seq(Statements) \ {<<>>}
    <2>1. todo \in Seq(Some) /\ todo # <<>>
      BY <1>2 DEF InsertRow, BuildTypes, Scripts
    <2> HIDE DEF Some
    <2>2. Head(todo) \in Some /\ Tail(todo) \in Seq(Some)
      BY <2>1
    <2>3. Statement \in Statements /\ (Len(Head(todo)) > 1 => Tail(Head(todo)) \in Some)
      <3>1. PICK s \in Seq(Statements) : s = Head(todo) /\ s # <<>>
        BY <2>2 DEF Some
      <3>2. Head(s) \in Statements /\ Tail(s) \in Seq(Statements) /\ Len(Tail(s)) = Len(s) - 1
        BY <3>1, HeadTailProperties
      <3>3. Len(s) > 1 => Tail(s) # <<>>
        BY <3>2, EmptySeq
      <3> QED
        BY <3>1, <3>2, <3>3 DEF Statement, Some
    <2>4. Rest \in Scripts
      <3>1. CASE Len(Head(todo)) > 1
        <4> DEFINE first == <<Tail(Head(todo))>>
        <4>1. first \in Seq(Some)
          BY <2>3, <3>1
        <4>2. first \o Tail(todo) \in Seq(Some)
          BY <2>2, <4>1, ConcatProperties
        <4> QED
          BY <3>1, <4>2 DEF Rest, Scripts, Some
      <3>2. CASE ~(Len(Head(todo)) > 1)
        BY <2>2, <3>2 DEF Rest, Scripts, Some
      <3> QED
        BY <3>1, <3>2
    <2>5. IsStore(db')
      BY <1>2, <2>3, InsertKept DEF InsertRow, BuildTypes
    <2>6. failed' \in Nat
      BY <1>2 DEF InsertRow, BuildTypes
    <2> QED
      BY <1>2, <2>4, <2>5, <2>6 DEF InsertRow, BuildTypes
  <1>3. ASSUME Build PROVE Types'
    <2>1. BuildTypes'
      BY <1>1, <1>2, <1>3 DEF Build
    <2> QED
      BY <1>3, <2>1 DEF Build, ServiceTypes, HouseTypes, serviceVars, world
  <1>4. ASSUME BuildStops PROVE Types'
    <2>1. <<>> \in Scripts
      BY EmptySeq DEF Scripts
    <2>2. BuildTypes'
      BY <1>4, <2>1 DEF BuildStops, BuildEnds, BuildTypes
    <2> QED
      BY <1>4, <2>2 DEF BuildStops, ServiceTypes, HouseTypes, serviceVars, world
  <1> QED
    BY <1>3, <1>4

LEMMA TypesStep == Types /\ [Next]_houseVars => Types'
  <1> SUFFICES ASSUME Types, [Next]_houseVars PROVE Types'
    OBVIOUS
  <1>1. CASE UNCHANGED houseVars
    BY <1>1 DEF houseVars, buildVars, serviceVars, world, Types, BuildTypes, ServiceTypes, HouseTypes
  <1>2. CASE Next
    BY <1>2, EnvironmentTypes, ServiceStepTypes, BuilderTypes DEF Next
  <1> QED
    BY <1>1, <1>2

-----------------------------------------------------------------------------
(* The devices that are served have their rows *)

\* What the startup loop has found for each of them still holds.
Loaded == up /\ fresh => \A m \in served : Known(m) /\ Loads(m)

LEMMA KeysKept ==
    ASSUME SameKeys(db, db'), NEW m, Known(m), Loads(m)
    PROVE  Known(m)' /\ Loads(m)'
  <1>1. /\ db'.devices = db.devices /\ db'.feeders = db.feeders /\ db'.counters = db.counters
        /\ DOMAIN db'.hubs = DOMAIN db.hubs /\ DOMAIN db'.doors = DOMAIN db.doors
    BY DEF SameKeys
  <1>2. Known(m)'
    BY <1>1 DEF Known
  <1>3. Loads(m)' = Loads(m)
    BY <1>1 DEF Loads
  <1> QED
    BY <1>2, <1>3

LEMMA LoadedStep ==
    ASSUME Types, Loaded, [Next]_houseVars
    PROVE  Loaded'
  <1>1. ASSUME SameKeys(db, db'), up' => up, fresh' = fresh, served' = served
        PROVE  Loaded'
    BY <1>1, KeysKept DEF Loaded
  <1>2. SameKeys(db, db)
    BY DEF SameKeys
  <1>3. CASE UNCHANGED houseVars
    BY <1>1, <1>2, <1>3 DEF houseVars, buildVars, serviceVars
  <1>4. CASE Environment
    <2>1. db' = db /\ up' = up /\ fresh' = fresh /\ served' = served
      BY <1>4 DEF Environment, HubSwitches, HubUptime, SendAgain, Passage, DoorObeys, CommandLost,
                  CliCurfew, Movement, CurfewLock, SetTimes, buildVars, serviceVars
    <2> QED
      BY <1>1, <1>2, <2>1
  <1>5. CASE Decode
    <2>1. Head(inbox) \in Messages /\ db' = Stored(Head(inbox))
      BY <1>5 DEF Decode, Types, ServiceTypes
    <2>2. SameKeys(db, db')
      BY <2>1, StoredKept DEF Types, BuildTypes
    <2> QED
      BY <1>1, <1>5, <2>2 DEF Decode
  <1>6. CASE Return
    <2>1. PICK p \in pending : db' = StoredAgain(p)
      BY <1>6 DEF Return
    <2>2. SameKeys(db, db')
      BY <2>1, StoredAgainKept DEF Types, BuildTypes, ServiceTypes
    <2> QED
      BY <1>1, <1>6, <2>2 DEF Return
  <1>7. CASE Die \/ Crash
    BY <1>7 DEF Die, Crash, Down, Loaded
  <1>8. CASE Start
    <2>1. /\ served' = ToSet(db.devices) /\ db' = db
          /\ \A i \in 1 .. Len(db.devices) : Loads(db.devices[i])
      BY <1>8 DEF Start, Starts, Load, buildVars
    <2>2. db.devices \in Seq(Devices)
      BY DEF Types, BuildTypes, IsStore, IsTables
    <2>3. \A m \in ToSet(db.devices) : Known(m) /\ Loads(m)
      BY <2>1, <2>2 DEF ToSet, Known
    <2> QED
      BY <1>2, <2>1, <2>3, KeysKept DEF Loaded
  <1>9. CASE StartFails
    BY <1>1, <1>2, <1>9 DEF StartFails, buildVars
  <1>10. CASE Build
    BY <1>10 DEF Build, Loaded
  <1>11. CASE BuildStops
    BY <1>1, <1>2, <1>11 DEF BuildStops, BuildEnds, serviceVars
  <1> QED
    BY <1>3, <1>4, <1>5, <1>6, <1>7, <1>8, <1>9, <1>10, <1>11 DEF Next

\* A message of a device that has its rows does not raise.
LEMMA LoadedSuffices ==
    ASSUME Types, Loaded
    PROVE  LoadedIsSafe
  <1> SUFFICES ASSUME up, fresh, NEW i \in DOMAIN inbox,
                      inbox[i].kind \in {"passage", "report", "movement"}, inbox[i].door \in served
               PROVE  ~Raises(inbox[i])
    BY DEF LoadedIsSafe
  <1> DEFINE m == inbox[i]
  <1>1. m \in Messages
    BY ElementOfSeq DEF Types, ServiceTypes
  <1>2. Known(m.door) /\ Loads(m.door)
    BY DEF Loaded
  <1>3. m.kind = "movement" => m.door \in db.counters
    BY <1>1, <1>2, LoadsNeeds DEF Messages
  <1> HIDE DEF m
  <1>4. m.kind \in {"passage", "report", "movement"}
    BY DEF m
  <1>5. ~Raises(m)
    BY <1>2, <1>3, <1>4 DEF Raises
  <1> QED
    BY <1>5 DEF m

-----------------------------------------------------------------------------
(* Topics and tables agree *)

Agree(topics, tables) ==
    /\ Hub \in served => topics.hub = tables.hubs[Hub]
    /\ \A d \in Doors \cap served : topics.curfew[d].enabled = tables.doors[d].enabled

\* The running handler's publication is counted as sent.
Agreed ==
    up /\ fresh =>
        /\ pending = {} => Agree(shown, db)
        /\ \A p \in pending : Agree(Published(shown, p), db)

\* What is published is what decoding has stored.
LEMMA DecodeAgrees ==
    ASSUME Types, up, fresh, Loaded, Agree(shown, db), NEW m \in Messages, ~Raises(m)
    PROVE  Agree(Published(shown, Publication(m)), Stored(m))
  <1> DEFINE p == Publication(m)
  <1>1. IsStore(db) /\ IsTopics(shown)
    BY DEF Types, BuildTypes, ServiceTypes
  <1>2. /\ Hub \in served => Known(Hub) /\ Hub \in DOMAIN db.hubs
        /\ \A d \in Doors \cap served : d \in DOMAIN db.doors
    BY LoadsNeeds DEF Loaded
  <1>3. ASSUME NEW f \in {"state", "uptime"}, NEW v \in Nat, Hub \in served,
               p = [to |-> "hub", field |-> f, value |-> v], Stored(m) = StoreHub(f, v)
        PROVE  Agree(Published(shown, p), Stored(m))
    <2>1. Published(shown, p) = [shown EXCEPT !.hub = [shown.hub EXCEPT ![f] = v]]
      BY <1>3 DEF Published
    <2>2. /\ Published(shown, p).hub = [shown.hub EXCEPT ![f] = v]
          /\ Published(shown, p).curfew = shown.curfew
      BY <1>1, <2>1 DEF IsTopics
    <2>3. Stored(m).doors = db.doors /\ Stored(m).hubs[Hub] = [db.hubs[Hub] EXCEPT ![f] = v]
      BY <1>1, <1>2, <1>3, StoreHubKept
    <2> QED
      BY <1>3, <2>2, <2>3 DEF Agree
  <1>4. CASE m.kind = "online" /\ Hub \in served
    <2>1. PICK v \in Nat : v = IF m.on THEN 1 ELSE 0
      OBVIOUS
    <2>2. p = [to |-> "hub", field |-> "state", value |-> v] /\ Stored(m) = StoreHub("state", v)
      BY <1>4, <2>1 DEF Publication, Stored
    <2> QED
      BY <1>3, <1>4, <2>2
  <1>5. CASE m.kind = "uptime" /\ Hub \in served
    <2>1. /\ m.mins \in Nat
          /\ p = [to |-> "hub", field |-> "uptime", value |-> m.mins]
          /\ Stored(m) = StoreHub("uptime", m.mins)
      BY <1>5 DEF Publication, Stored, Messages
    <2> QED
      BY <1>3, <1>5, <2>1
  <1>6. CASE m.kind \in {"online", "uptime"} /\ Hub \notin served
    <2>1. p = [to |-> "nobody"]
      BY <1>6 DEF Publication
    <2>2. PICK f \in {"state", "uptime"}, v \in Nat : Stored(m) = StoreHub(f, v)
      BY <1>6 DEF Stored, Messages
    <2>3. Stored(m).doors = db.doors
      <3>1. StoreHub(f, v).doors = db.doors
        BY <1>1, StoreHubKept
      <3> QED
        BY <2>2, <3>1
    <2>4. Published(shown, p) = shown
      BY <2>1 DEF Published
    <2> QED
      BY <1>6, <2>3, <2>4 DEF Agree
  <1>7. CASE m.kind = "passage"
    <2>1. Stored(m).doors = db.doors /\ Stored(m).hubs = db.hubs
      BY <1>1, <1>7, StorePassageKept DEF Stored
    <2>2. p.to \in {"pets", "nobody"}
      BY <1>7 DEF Publication
    <2>3. Published(shown, p).hub = shown.hub /\ Published(shown, p).curfew = shown.curfew
      BY <1>1, <2>2 DEF Published, IsTopics
    <2> QED
      BY <2>1, <2>3 DEF Agree
  <1>8. CASE m.kind \in {"movement", "curfewlock"}
    <2>1. Stored(m) = db
      BY <1>8 DEF Stored
    <2>2. p.to \in {"pets", "nobody"}
      BY <1>8 DEF Publication
    <2>3. Published(shown, p).hub = shown.hub /\ Published(shown, p).curfew = shown.curfew
      BY <1>1, <2>2 DEF Published, IsTopics
    <2> QED
      BY <2>1, <2>3 DEF Agree
  <1>9. CASE m.kind = "report"
    <2>1. m.door \in PetDoors /\ m.door \in Doors /\ m.curfew \in Registers
      BY <1>9 DEF Messages, Doors
    <2>2. /\ Stored(m).hubs = db.hubs
          /\ \A d \in DOMAIN db.doors :
                Stored(m).doors[d].enabled = IF d = m.door THEN m.curfew.enabled ELSE db.doors[d].enabled
      BY <1>1, <1>9, <2>1, StoreReportKept DEF Stored
    <2>3. /\ Published(shown, p).hub = shown.hub
          /\ \A d \in Doors \cap served :
                Published(shown, p).curfew[d].enabled =
                    IF d = m.door THEN m.curfew.enabled ELSE shown.curfew[d].enabled
      <3>1. CASE m.door \in served
        <4> DEFINE row == [enabled |-> m.curfew.enabled, curfews |-> <<m.curfew.span>>]
                   curfew == [shown.curfew EXCEPT ![m.door] = row]
        <4>1. p = [to |-> "curfew", door |-> m.door, value |-> m.curfew]
          BY <1>9, <3>1 DEF Publication
        <4>2. Published(shown, p) = [shown EXCEPT !.curfew = curfew]
          BY <4>1 DEF Published
        <4>3. \A d \in Doors : curfew[d].enabled = IF d = m.door THEN m.curfew.enabled ELSE shown.curfew[d].enabled
          BY <1>1, <2>1 DEF IsTopics
        <4> HIDE DEF curfew
        <4>4. Published(shown, p).hub = shown.hub /\ Published(shown, p).curfew = curfew
          BY <1>1, <4>2 DEF IsTopics
        <4> QED
          BY <4>3, <4>4
      <3>2. CASE m.door \notin served
        <4>1. p = [to |-> "nobody"]
          BY <1>9, <3>2 DEF Publication
        <4>2. Published(shown, p) = shown
          BY <4>1 DEF Published
        <4> QED
          BY <3>2, <4>2
      <3> QED
        BY <3>1, <3>2
    <2> QED
      BY <1>2, <2>2, <2>3 DEF Agree
  <1>10. CASE m.kind = "times"
    <2>1. Published(shown, p) = shown
      <3>1. p.to \in {"door", "nobody"}
        BY <1>10 DEF Publication
      <3> QED
        BY <3>1 DEF Published
    <2>2. /\ Stored(m).hubs = db.hubs
          /\ \A d \in DOMAIN db.doors : Stored(m).doors[d].enabled = db.doors[d].enabled
      <3>1. CASE m.door \in served
        BY <1>1, <1>10, <3>1, StoreTimesKept DEF Stored
      <3>2. CASE m.door \notin served
        BY <1>10, <3>2 DEF Stored
      <3> QED
        BY <3>1, <3>2
    <2> QED
      BY <1>2, <2>1, <2>2 DEF Agree
  <1>11. m.kind \in {"online", "uptime", "passage", "movement", "curfewlock", "report", "times"}
    BY DEF Messages
  <1> QED
    BY <1>4, <1>5, <1>6, <1>7, <1>8, <1>9, <1>10, <1>11

\* What is published has been stored, and storing a curfew's state again changes nothing.
LEMMA ReturnAgrees ==
    ASSUME Types, up, fresh, Loaded, NEW p \in Publications, NEW topics, Agree(topics, db),
           p.to = "curfew" => p.door \in Doors /\ topics.curfew[p.door].enabled = p.value.enabled
    PROVE  Agree(topics, StoredAgain(p))
  <1>1. IsStore(db)
    BY DEF Types, BuildTypes
  <1>2. \A d \in Doors \cap served : d \in DOMAIN db.doors
    BY LoadsNeeds DEF Loaded
  <1>3. /\ StoredAgain(p).hubs = db.hubs
        /\ \A d \in DOMAIN db.doors :
              StoredAgain(p).doors[d].enabled =
                  IF p.to = "curfew" /\ d = p.door THEN p.value.enabled ELSE db.doors[d].enabled
    BY <1>1, StoredAgainKept
  <1> QED
    BY <1>2, <1>3 DEF Agree

LEMMA AgreedStep ==
    ASSUME Types, Loaded, Agreed, [Next]_houseVars
    PROVE  Agreed'
  <1>1. ASSUME UNCHANGED <<db, up, served, pending, shown, fresh>>
        PROVE  Agreed'
    BY <1>1 DEF Agreed, Agree
  <1>2. CASE UNCHANGED houseVars
    BY <1>1, <1>2 DEF houseVars, buildVars, serviceVars
  <1>3. CASE Environment
    <2>1. db' = db /\ up' = up /\ served' = served /\ fresh' = fresh
      BY <1>3 DEF Environment, HubSwitches, HubUptime, SendAgain, Passage, DoorObeys, CommandLost,
                  CliCurfew, Movement, CurfewLock, SetTimes, buildVars, serviceVars
    <2>2. pending' = pending /\ shown' = shown
      BY <1>3 DEF Environment, HubSwitches, HubUptime, SendAgain, Passage, DoorObeys, CommandLost,
                  CliCurfew, Movement, CurfewLock, SetTimes, buildVars, serviceVars
    <2> QED
      BY <1>1, <2>1, <2>2
  <1>4. CASE Decode
    <2> DEFINE m == Head(inbox)
    <2>1. SUFFICES ASSUME up, fresh
                   PROVE  Agree(Published(shown, Publication(m)), Stored(m))
      BY <1>4 DEF Decode, Agreed, Agree
    <2>2. m \in Messages /\ ~Raises(m)
      BY <1>4 DEF Decode, Types, ServiceTypes
    <2>3. Agree(shown, db)
      BY <1>4, <2>1 DEF Decode, Agreed
    <2> QED
      BY <2>1, <2>2, <2>3, DecodeAgrees
  <1>5. CASE Return
    <2>1. PICK p \in pending : shown' = Published(shown, p) /\ db' = StoredAgain(p)
      BY <1>5 DEF Return
    <2>2. SUFFICES ASSUME up, fresh
                   PROVE  Agree(Published(shown, p), StoredAgain(p))
      BY <1>5, <2>1 DEF Return, Agreed, Agree
    <2>3. p \in Publications /\ Agree(Published(shown, p), db) /\ IsTopics(shown)
      BY <2>2 DEF Types, ServiceTypes, Agreed
    <2>4. ASSUME p.to = "curfew"
          PROVE  p.door \in Doors /\ Published(shown, p).curfew[p.door].enabled = p.value.enabled
      <3> DEFINE row == [enabled |-> p.value.enabled, curfews |-> <<p.value.span>>]
                 curfew == [shown.curfew EXCEPT ![p.door] = row]
      <3>1. p.door \in Doors
        BY <2>3, <2>4 DEF Publications, Doors
      <3>2. Published(shown, p) = [shown EXCEPT !.curfew = curfew]
        BY <2>4 DEF Published
      <3>3. curfew[p.door].enabled = p.value.enabled
        BY <2>3, <3>1 DEF IsTopics
      <3> HIDE DEF curfew
      <3>4. Published(shown, p).curfew = curfew
        BY <2>3, <3>2 DEF IsTopics
      <3> QED
        BY <3>1, <3>3, <3>4
    <2> QED
      BY <2>2, <2>3, <2>4, ReturnAgrees
  <1>6. CASE Die \/ Crash
    BY <1>6 DEF Die, Crash, Down, Agreed
  <1>7. CASE Start
    <2> DEFINE loaded == DeviceTopics(Len(db.devices))
    <2>1. PICK last : shown' = PetTopics(loaded, last)
      BY <1>7 DEF Start
    <2>2. served' = ToSet(db.devices) /\ db' = db /\ pending' = {}
      BY <1>7 DEF Start, buildVars, Types, ServiceTypes
    <2>3. ToSet(db.devices) = FirstDevices(Len(db.devices))
      BY DEF ToSet, FirstDevices, Types, BuildTypes, IsStore, IsTables
    <2>4. /\ Hub \in FirstDevices(Len(db.devices)) => loaded.hub = db.hubs[Hub]
          /\ \A d \in Doors : d \in FirstDevices(Len(db.devices)) => loaded.curfew[d] = db.doors[d]
          /\ loaded = [hub |-> loaded.hub, curfew |-> loaded.curfew, pet |-> loaded.pet]
      <3> DEFINE n == Len(db.devices)
                 hub == IF Hub \in FirstDevices(n) THEN db.hubs[Hub] ELSE shown.hub
                 curfew == [d \in Doors |-> IF d \in FirstDevices(n) THEN db.doors[d] ELSE shown.curfew[d]]
      <3>1. loaded = [shown EXCEPT !.hub = hub, !.curfew = curfew]
        BY DEF DeviceTopics
      <3>2. /\ Hub \in FirstDevices(n) => hub = db.hubs[Hub]
            /\ \A d \in Doors : d \in FirstDevices(n) => curfew[d] = db.doors[d]
        OBVIOUS
      <3> HIDE DEF n, hub, curfew, loaded
      <3>3. shown = [hub |-> shown.hub, curfew |-> shown.curfew, pet |-> shown.pet]
        BY DEF Types, ServiceTypes, IsTopics
      <3>4. loaded.hub = hub /\ loaded.curfew = curfew
            /\ loaded = [hub |-> loaded.hub, curfew |-> loaded.curfew, pet |-> loaded.pet]
        BY <3>1, <3>3
      <3> QED
        BY <3>2, <3>4 DEF n
    <2> HIDE DEF loaded
    <2>5. shown'.hub = loaded.hub /\ shown'.curfew = loaded.curfew
      BY <2>1, <2>4 DEF PetTopics
    <2> QED
      BY <2>2, <2>3, <2>4, <2>5 DEF Agreed, Agree
  <1>8. CASE StartFails
    BY <1>8 DEF StartFails, Agreed
  <1>9. CASE Build
    BY <1>9 DEF Build, Agreed
  <1>10. CASE BuildStops
    BY <1>1, <1>10 DEF BuildStops, BuildEnds, serviceVars
  <1> QED
    BY <1>2, <1>3, <1>4, <1>5, <1>6, <1>7, <1>8, <1>9, <1>10 DEF Next

-----------------------------------------------------------------------------
(* Theorems *)

Inv == Types /\ Loaded /\ Agreed

LEMMA SpecInv == Spec => []Inv
  <1>1. Init => Inv
    <2> SUFFICES ASSUME Init PROVE Inv
      OBVIOUS
    <2>1. up = FALSE
      BY DEF Init
    <2> QED
      BY <2>1, InitTypes DEF Inv, Loaded, Agreed
  <1>2. Inv /\ [Next]_houseVars => Inv'
    BY TypesStep, LoadedStep, AgreedStep DEF Inv
  <1> QED
    BY <1>1, <1>2, PTL DEF Spec

\* The tables keep their columns and keys, and messages, publications, topics and
\* commands are what the program can send and show.
THEOREM TypeCorrect == Spec => []TypeOK
  <1>1. Inv => TypeOK
    <2> SUFFICES ASSUME Types PROVE TypeOK
      BY DEF Inv
    <2>1. IsTables(db)
      BY DEF Types, BuildTypes, IsStore
    <2>2. \A i \in DOMAIN todo : todo[i] # <<>> /\ \A j \in DOMAIN todo[i] : IsStatement(todo[i][j])
      <3>1. \A s \in Statements : IsStatement(s)
        <4> SUFFICES ASSUME NEW s \in Statements PROVE IsStatement(s)
          OBVIOUS
        <4>1. CASE s \in [table : {"hubs"}, key : {Hub}, row : HubRows]
          BY <4>1, HubRowIsTyped DEF IsStatement, Into
        <4>2. CASE s \in [table : {"doors"}, key : Doors, row : {DoorRow(c, d) : c \in Clouds, d \in Doors}]
          BY <4>2, DoorRowIsTyped DEF IsStatement, Into
        <4>3. CASE s = Raise
          BY <4>3 DEF IsStatement, Into, Raise
        <4> QED
          BY <4>1, <4>2, <4>3 DEF Statements, IsStatement, Into
      <3>2. ASSUME NEW i \in DOMAIN todo
            PROVE  todo[i] \in Seq(Statements) \ {<<>>}
        BY ElementOfSeq DEF Types, BuildTypes, Scripts
      <3>3. ASSUME NEW i \in DOMAIN todo, NEW j \in DOMAIN todo[i]
            PROVE  IsStatement(todo[i][j])
        BY <3>1, <3>2, ElementOfSeq
      <3> QED
        BY <3>2, <3>3
    <2>3. \A i \in DOMAIN inbox : IsMessage(inbox[i])
      <3>1. \A m \in Messages : IsMessage(m)
        BY DEF Messages, IsMessage
      <3> QED
        BY <3>1, ElementOfSeq DEF Types, ServiceTypes
    <2>4. \A p \in Publications : IsPublication(p)
      BY DEF Publications, IsPublication
    <2>5. IsHubRow(shown.hub) /\ \A d \in Doors : IsDoorRow(shown.curfew[d])
      BY HubRowIsTyped DEF Types, ServiceTypes, IsTopics
    <2>6. \A d \in PetDoors : \A i \in DOMAIN cmd[d] : cmd[d][i] \in Registers
      BY ElementOfSeq DEF Types, HouseTypes
    <2> QED
      BY <2>1, <2>2, <2>3, <2>4, <2>5, <2>6 DEF TypeOK, Types, BuildTypes, ServiceTypes, HouseTypes
  <1> QED
    BY <1>1, SpecInv, PTL

\* Whatever the devices, Home Assistant and the builder do, and however often the
\* service crashes and starts, a device it has loaded does not end it.
THEOREM LoadedDevicesAreSafe == Spec => []LoadedIsSafe
  <1>1. Inv => LoadedIsSafe
    BY LoadedSuffices DEF Inv
  <1> QED
    BY <1>1, SpecInv, PTL

\* Between two handlers Home Assistant shows what the next start would show it.
THEOREM ShownIsStored == Spec => []HouseShownIsStored
  <1>1. Inv => HouseShownIsStored
    BY DEF Inv, Agreed, Agree, HouseShownIsStored
  <1> QED
    BY <1>1, SpecInv, PTL
=============================================================================
