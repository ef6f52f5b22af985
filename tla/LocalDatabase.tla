---------------------------- MODULE LocalDatabase ----------------------------
(***************************************************************************)
(* The tables of pethublocal.db and mkpetlocaldb.py, which fills them from *)
(* the document the cloud gives the app on its start: it drops and creates *)
(* all tables in one transaction and then inserts row after row, each with *)
(* a commit of its own.  A row that cannot be inserted is reported and     *)
(* passed over; anything else that goes wrong ends the program.            *)
(*                                                                         *)
(* Of a row only what the service reads again is kept.  Times of day are   *)
(* values, and the text of a door's curfews is a sequence of spans of time *)
(* and commas.  The rows of petstate that name no device are read by       *)
(* nobody, so those of one pet are one row.                                *)
(***************************************************************************)
EXTENDS Naturals, Sequences, SequencesExt

CONSTANTS
    Hub,                                  \* the MAC address with product_id 1
    PetDoors, CatFlaps, Feeders, Felaquas,\* those with product_id 3, 6, 4, 8
    Pets,                                 \* the tags of the pets
    Spans,                                \* spans of time, "hh:mm-hh:mm"
    Clouds,                               \* documents the cloud may give
    MaxFailures                           \* bound: statements of a build that fail

Doors   == PetDoors \cup CatFlaps
Bowls   == Feeders \cup Felaquas
Devices == {Hub} \cup Doors \cup Bowls
NoMac   == "no mac"                       \* an empty mac_address
Comma   == "comma"

\* What the document tells: whether it has tags, devices and pets at all; the
\* devices and pets in their order; what each pet did last, and where if that
\* is known; whether the hub is online; the curfews of each door, at most one for a
\* pet door; the tags each device knows.
IsCloud(c) ==
    /\ c.sound \in BOOLEAN /\ c.online \in BOOLEAN
    /\ c.devices \in Seq(Devices) /\ c.pets \in Seq(Pets)
    /\ c.did \in [Pets -> Seq([what : {"activity", "feeding", "drinking"}, at : Devices \cup {NoMac}])]
    /\ c.curfew \in [Doors -> Seq([on : BOOLEAN, span : Spans])]
    /\ \A d \in PetDoors : Len(c.curfew[d]) <= 1
    /\ c.tags \in [Devices -> Seq(Pets)]

ASSUME CloudAssumption ==
    /\ \A c \in Clouds : IsCloud(c)
    /\ Hub \notin Doors \cup Bowls /\ Doors \cap Bowls = {}
    /\ PetDoors \cap CatFlaps = {} /\ Feeders \cap Felaquas = {}
    /\ NoMac \notin Devices
    /\ MaxFailures \in Nat

VARIABLES
    db,       \* the tables
    todo,     \* what a running build has left to do: for each pet and each device
              \* a sequence of statements
    source,   \* the document of the last build
    failed,   \* history: how many statements of that build failed, and the build itself
    touched   \* history: the service has written to the tables since

buildVars == <<db, todo, source, failed, touched>>

-----------------------------------------------------------------------------
(* Tables: a function of the key, unless the order or the key alone matters. *)

Put(table, key, row) == [k \in DOMAIN table \cup {key} |-> IF k = key THEN row ELSE table[k]]

NoRows == [k \in {} |-> k]

\* pethublocal.sql
Empty ==
    [devices |-> <<>>, hubs |-> NoRows, doors |-> NoRows, feeders |-> {}, counters |-> {},
     tagmap |-> NoRows, pets |-> {}, petstate |-> NoRows]

\* INSERT: a table, a key and a row.
Into(table, key, row) == [table |-> table, key |-> key, row |-> row]

Insert(tables, s) ==
    CASE s.table = "devices" -> [tables EXCEPT !.devices = Append(@, s.key)]
      [] s.table = "hubs" -> [tables EXCEPT !.hubs = Put(@, s.key, s.row)]
      [] s.table = "doors" -> [tables EXCEPT !.doors = Put(@, s.key, s.row)]
      [] s.table = "feeders" -> [tables EXCEPT !.feeders = @ \cup {s.key}]
      [] s.table = "counters" -> [tables EXCEPT !.counters = @ \cup {s.key}]
      [] s.table = "tagmap" -> [tables EXCEPT !.tagmap = Put(@, s.key, s.row)]
      [] s.table = "pets" -> [tables EXCEPT !.pets = @ \cup {s.key}]
      [] s.table = "petstate" -> [tables EXCEPT !.petstate = Put(@, s.key, s.row)]

-----------------------------------------------------------------------------
(* The statements a document leads to *)

Raise == Into("raise", NoMac, NoMac)

\* A device that is found among those of the document is looked up by subscripting
\* a generator; drinking takes the weights from feeding.
PetStateStatement(c, p, i) ==
    LET did == c.did[p][i]
    IN  IF \/ did.at \in ToSet(c.devices)
           \/ did.what = "drinking" /\ \A j \in DOMAIN c.did[p] : c.did[p][j].what # "feeding"
        THEN Raise
        ELSE Into("petstate", <<p, NoMac>>, did.what)

PetStatements(c, p) ==
    <<Into("pets", p, p)>> \o [i \in DOMAIN c.did[p] |-> PetStateStatement(c, p, i)]

\* Every enabled curfew, with a comma behind it unless it equals the last entry.
CurfewText(entries) ==
    FlattenSeq([i \in DOMAIN entries |->
        CASE ~entries[i].on -> <<>>
          [] entries[i] = Last(entries) -> <<entries[i].span>>
          [] OTHER -> <<entries[i].span, Comma>>])

\* curfewenabled is a Python bool, which SQLite stores as 0 or 1.
DoorRow(c, d) ==
    LET entries == c.curfew[d]
    IN  IF d \in CatFlaps
        THEN [enabled |-> IF entries # <<>> THEN 1 ELSE 0, curfews |-> CurfewText(entries)]
        ELSE [enabled |-> IF \E i \in DOMAIN entries : entries[i].on THEN 1 ELSE 0,
              curfews |-> [i \in DOMAIN entries |-> entries[i].span]]

HubRow(c) == [state |-> IF c.online THEN 1 ELSE 0, uptime |-> 0]

\* Mutant: a cat flap is given no counter.
ProductStatementsX(c, m) ==
    CASE m = Hub -> <<Into("hubs", m, HubRow(c))>>
      [] m \in Doors -> <<Into("doors", m, DoorRow(c, m))>>
      [] m \in Bowls -> <<Into("feeders", m, m), Into("counters", m, m)>>

\* The rows of a device in the tables of its kind.
ProductStatements(c, m) ==
    CASE m = Hub -> <<Into("hubs", m, HubRow(c))>>
      [] m \in PetDoors -> <<Into("doors", m, DoorRow(c, m))>>
      [] m \in CatFlaps -> <<Into("doors", m, DoorRow(c, m)), Into("counters", m, m)>>
      [] m \in Bowls -> <<Into("feeders", m, m), Into("counters", m, m)>>

DeviceStatements(c, m) ==
    <<Into("devices", m, m)>> \o ProductStatements(c, m)
        \o [i \in DOMAIN c.tags[m] |-> Into("tagmap", <<m, i>>, c.tags[m][i])]

Script(c) ==
    [i \in DOMAIN c.pets |-> PetStatements(c, c.pets[i])]
        \o [i \in DOMAIN c.devices |-> DeviceStatements(c, c.devices[i])]

-----------------------------------------------------------------------------
(* mkpetlocaldb.py *)

BuildInit ==
    /\ todo = <<>> /\ source \in Clouds /\ failed = 1 /\ touched = FALSE

\* Mutant: the tables are created only if they do not exist.
DropAndCreateX(c) ==
    /\ todo = <<>>
    /\ db' = db
    /\ todo' = IF c.sound THEN Script(c) ELSE <<>>
    /\ source' = c /\ failed' = (IF c.sound THEN 0 ELSE 1) /\ touched' = FALSE

\* The tables are dropped and created before the document is looked at.
DropAndCreate(c) ==
    /\ todo = <<>>
    /\ db' = Empty
    /\ todo' = IF c.sound THEN Script(c) ELSE <<>>
    /\ source' = c /\ failed' = (IF c.sound THEN 0 ELSE 1) /\ touched' = FALSE

Statement == Head(Head(todo))
Rest == IF Len(Head(todo)) > 1 THEN <<Tail(Head(todo))>> \o Tail(todo) ELSE Tail(todo)

\* The next row is inserted and committed, or it cannot be and is passed over.
InsertRow ==
    /\ todo # <<>> /\ Statement.table # "raise"
    /\ todo' = Rest
    /\ \/ db' = Insert(db, Statement) /\ failed' = failed
       \/ db' = db /\ failed < MaxFailures /\ failed' = failed + 1
    /\ UNCHANGED <<source, touched>>

\* The program ends, by itself or not.
BuildEnds ==
    /\ todo # <<>>
    /\ todo' = <<>> /\ failed' = failed + 1
    /\ UNCHANGED <<db, source, touched>>

\* The build has ended, with every row inserted.
Built == todo = <<>> /\ failed = 0

-----------------------------------------------------------------------------
(* What the tables should be, said without statements. *)

Image(c) ==
    LET has == ToSet(c.devices)
    IN  [devices |-> c.devices,
         hubs |-> [h \in has \cap {Hub} |-> HubRow(c)],
         doors |-> [d \in has \cap Doors |-> DoorRow(c, d)],
         feeders |-> has \cap Bowls,
         counters |-> has \cap (Bowls \cup CatFlaps),
         tagmap |-> [k \in UNION {{m} \X DOMAIN c.tags[m] : m \in has} |-> c.tags[k[1]][k[2]]],
         pets |-> ToSet(c.pets),
         petstate |-> [k \in {<<p, NoMac>> : p \in {q \in ToSet(c.pets) : c.did[q] # <<>>}} |->
                          Last(c.did[k[1]]).what]]

\* A finished build leaves the tables the document describes and nothing else,
\* whatever earlier and interrupted builds have left behind.
BuiltIsCloud == Built /\ ~touched => db = Image(source)
=============================================================================
