----------------------------- MODULE MetaIngest -----------------------------
(***************************************************************************)
(* The physical metadata of source databases: the ingest command of        *)
(* meta_ingest_proto (pipeline, sinks/t2s, sinks/age_psycopg), the refresh *)
(* statements of physical_meta.physical_cypher and the same refresh behind *)
(* AgeGraphRepository.apply_physical_meta_catalog.                         *)
(*                                                                         *)
(* A catalog goes to the relational tables in ONE transaction, then to the *)
(* graph in a list of statements that commit one by one: deletes of what   *)
(* earlier ingests left, and for every table and column a CREATE and a     *)
(* MATCH ... CREATE that links it.  Ingests are processes or coroutines of *)
(* their own, and stop anywhere; nobody cleans up but the next ingest.     *)
(***************************************************************************)
EXTENDS Naturals, FiniteSets

CONSTANTS
  Request,      \* runs of the command and calls of the API
  Label,        \* meta_db_label: the logical source databases
  Table,        \* qualified names of tables
  Column,       \* qualified names of columns
  LabelOf,      \* the label a table belongs to
  TableOf,      \* the table a column belongs to
  Fk,           \* foreign keys: <<from column, to column>>
  Attr,         \* values of the other properties (type, comment, ...)
  Posted,       \* catalogs that may be ingested
  Foreign,      \* tables and columns the graph holds from elsewhere
  None,
  MaxInFlight   \* bound: ingests running at the same time

Named == Table \cup Column
Element == Label \cup Named

(* The catalog of one label.                                               *)
Catalog == [label: Label, tables: SUBSET Table, columns: SUBSET Column, attr: Attr]

(* A Database, Table or Column vertex.  ingested is its _meta_ingest mark; *)
(* only marked vertices carry the _physical_vertex_id that identifies eid. *)
Vertex == [by: Request \cup {None}, eid: Element, attr: Attr \cup {None},
           ingested: BOOLEAN]

ForeignVertices ==
  {[by |-> None, eid |-> e, attr |-> None, ingested |-> FALSE] : e \in Foreign}

ASSUME MetaAssumption ==
  /\ LabelOf \in [Table -> Label] /\ TableOf \in [Column -> Table]
  /\ Label \cap Table = {} /\ Label \cap Column = {} /\ Table \cap Column = {}
  /\ Fk \subseteq Column \X Column
  /\ Posted \subseteq Catalog
  /\ \A c \in Posted : /\ \A t \in c.tables : LabelOf[t] = c.label
                       /\ \A k \in c.columns : TableOf[k] \in c.tables
  /\ Foreign \subseteq Named
  /\ None \notin Request \cup Catalog \cup Attr \cup Element
  /\ MaxInFlight \in Nat

(* "load": the command; "t2s": the command with the graph skipped;         *)
(* "apply": the API, the graph only.                                       *)
Mode == {"load", "t2s", "apply"}

PC == {"idle", "t2s", "dropColumns", "dropTables", "dropDatabase",
       "createDatabase", "create", "link", "fks", "done", "failed"}

VARIABLES
  t2s,       \* t2s_tables and t2s_columns: what is stored of a table or column
  t2sFk,     \* t2s_fk_constraints
  vertices,
  has,       \* HAS_TABLE and HAS_COLUMN: <<by, from, to>>
  fkTo,      \* FK_TO
  pc,        \* next statement of an ingest
  mode,
  catalog,   \* what it ingests
  todo,      \* tables and columns not yet created
  cur,       \* the table or column created last
  keys,      \* foreign keys not yet created
  clean      \* history: no other ingest ran since it began

tables == <<t2s, t2sFk>>
graph == <<vertices, has, fkTo>>
given == <<mode, catalog>>
loop == <<todo, cur, keys>>
vars == <<tables, graph, pc, given, loop, clean>>

TypeOK ==
  /\ t2s \in [Named -> Attr \cup {None}]
  /\ t2sFk \subseteq Fk
  /\ vertices \subseteq Vertex
  /\ has \subseteq Request \X Vertex \X Vertex
  /\ fkTo \subseteq Request \X Vertex \X Vertex
  /\ pc \in [Request -> PC]
  /\ mode \in [Request -> Mode \cup {None}]
  /\ catalog \in [Request -> Catalog \cup {None}]
  /\ todo \in [Request -> SUBSET Named]
  /\ cur \in [Request -> Named \cup {None}]
  /\ keys \in [Request -> SUBSET Fk]
  /\ clean \in [Request -> BOOLEAN]

Init ==
  /\ t2s = [e \in Named |-> None]
  /\ t2sFk = {}
  /\ vertices = ForeignVertices
  /\ has = {} /\ fkTo = {}
  /\ pc = [r \in Request |-> "idle"]
  /\ mode = [r \in Request |-> None]
  /\ catalog = [r \in Request |-> None]
  /\ todo = [r \in Request |-> {}]
  /\ cur = [r \in Request |-> None]
  /\ keys = [r \in Request |-> {}]
  /\ clean = [r \in Request |-> FALSE]

---------------------------------------------------------------------------
(* What a catalog says.                                                    *)

NamedIn(c) == c.tables \cup c.columns

(* Only foreign keys between tables of the catalog.                        *)
FksOf(c) == {f \in Fk : TableOf[f[1]] \in c.tables /\ TableOf[f[2]] \in c.tables}

(* The vertex a table or column hangs under.                               *)
Parent(e) == IF e \in Table THEN LabelOf[e] ELSE TableOf[e]

(* validate_catalog_for_ingest.                                            *)
Valid(c) == c.tables # {}

(* Mutant: what earlier catalogs stored is cleared first.                  *)
Replaced(c) ==
  [e \in Named |-> IF e \in NamedIn(c) THEN c.attr ELSE None]

(* Mutant: the rows are only those of this catalog.                        *)
JustThese(c) == [e \in NamedIn(c) |-> c.attr]

Upserted(c) ==
  [e \in Named |-> IF e \in NamedIn(c) THEN c.attr ELSE t2s[e]]

---------------------------------------------------------------------------
(* What the statements do.                                                 *)

InFlight == {r \in Request : pc[r] \notin {"idle", "done", "failed"}}

Goto(r, l) == pc' = [pc EXCEPT ![r] = l]

(* Mutant: DELETE keeps the edges.                                         *)
DeleteOnly(V) == vertices' = vertices \ V /\ UNCHANGED <<has, fkTo>>

DetachDelete(V) ==
  /\ vertices' = vertices \ V
  /\ has' = {e \in has : e[2] \notin V /\ e[3] \notin V}
  /\ fkTo' = {e \in fkTo : e[2] \notin V /\ e[3] \notin V}

Ingested(E) == {v \in vertices : v.ingested /\ v.eid \in E}

(* Mutant: every vertex with the label.                                    *)
AllOf(E) == {v \in vertices : v.eid \in E}

(* What a refresh deletes: WHERE _meta_ingest = true.                      *)
Obsolete(E) == Ingested(E)

(* MATCH (a), (b): every pair of vertices with these ids gets an edge.     *)
Joined(r, d, e) == {<<r, v, w>> : v \in Ingested({d}), w \in Ingested({e})}

New(r, e) == [by |-> r, eid |-> e, attr |-> catalog[r].attr, ingested |-> TRUE]

(* Mutant: a column may come before its table.                             *)
AnyOrder(r) == todo[r]

(* A table, its columns, the next table.                                   *)
NextNamed(r) ==
  LET opened == {k \in todo[r] \cap Column : TableOf[k] \notin todo[r]}
  IN  IF opened # {} THEN opened ELSE todo[r] \cap Table

(* Where an ingest with these tables, columns and keys to do goes on.      *)
Remaining(T, K) ==
  IF T # {} THEN "create" ELSE IF K # {} THEN "fks" ELSE "done"

---------------------------------------------------------------------------
(* The actions.                                                            *)

(* An ingest starts.  The command rejects an invalid catalog, the API does *)
(* not look.                                                               *)
Begin(r, m, c) ==
  /\ pc[r] = "idle"
  /\ Cardinality(InFlight) < MaxInFlight
  /\ mode' = [mode EXCEPT ![r] = m]
  /\ catalog' = [catalog EXCEPT ![r] = c]
  /\ clean' = [p \in Request |-> p = r /\ InFlight = {}]
  /\ UNCHANGED <<tables, graph, loop>>

Load(r, m, c) ==
  /\ m # "apply"
  /\ Begin(r, m, c)
  /\ Goto(r, IF Valid(c) THEN "t2s" ELSE "failed")

Apply(r, c) == Begin(r, "apply", c) /\ Goto(r, "dropColumns")

(* apply_catalog_to_t2s: upserts in one transaction; nothing is deleted.   *)
ApplyToT2s(r) ==
  /\ pc[r] = "t2s"
  /\ LET c == catalog[r]
     IN  /\ t2s' = Upserted(c)
         /\ t2sFk' = t2sFk \cup {f \in FksOf(c) : {f[1], f[2]} \subseteq c.columns}
  /\ Goto(r, IF mode[r] = "t2s" THEN "done" ELSE "dropColumns")
  /\ UNCHANGED <<graph, given, loop, clean>>

(* The deletes: columns and tables of every label, the database of this.   *)
DropColumns(r) ==
  /\ pc[r] = "dropColumns"
  /\ DetachDelete(Obsolete(Column))
  /\ Goto(r, "dropTables")
  /\ UNCHANGED <<tables, given, loop, clean>>

DropTables(r) ==
  /\ pc[r] = "dropTables"
  /\ DetachDelete(Obsolete(Table))
  /\ Goto(r, "dropDatabase")
  /\ UNCHANGED <<tables, given, loop, clean>>

DropDatabase(r) ==
  /\ pc[r] = "dropDatabase"
  /\ DetachDelete(Obsolete({catalog[r].label}))
  /\ Goto(r, "createDatabase")
  /\ UNCHANGED <<tables, given, loop, clean>>

CreateDatabase(r) ==
  /\ pc[r] = "createDatabase"
  /\ vertices' = vertices \cup {New(r, catalog[r].label)}
  /\ todo' = [todo EXCEPT ![r] = NamedIn(catalog[r])]
  /\ keys' = [keys EXCEPT ![r] = FksOf(catalog[r])]
  /\ Goto(r, Remaining(todo'[r], keys'[r]))
  /\ UNCHANGED <<tables, has, fkTo, given, cur, clean>>

CreateNamed(r, e) ==
  /\ pc[r] = "create" /\ e \in NextNamed(r)
  /\ vertices' = vertices \cup {New(r, e)}
  /\ todo' = [todo EXCEPT ![r] = @ \ {e}]
  /\ cur' = [cur EXCEPT ![r] = e]
  /\ Goto(r, "link")
  /\ UNCHANGED <<tables, has, fkTo, given, keys, clean>>

LinkNamed(r) ==
  /\ pc[r] = "link"
  /\ has' = has \cup Joined(r, Parent(cur[r]), cur[r])
  /\ Goto(r, Remaining(todo[r], keys[r]))
  /\ UNCHANGED <<tables, vertices, fkTo, given, loop, clean>>

CreateFk(r, f) ==
  /\ pc[r] = "fks" /\ f \in keys[r]
  /\ fkTo' = fkTo \cup Joined(r, f[1], f[2])
  /\ keys' = [keys EXCEPT ![r] = @ \ {f}]
  /\ Goto(r, Remaining({}, keys'[r]))
  /\ UNCHANGED <<tables, vertices, has, given, todo, cur, clean>>

(* A statement raises, the transaction rolls back, or the process dies:    *)
(* the ingest is over, what it committed stays.                            *)
Stops(r) ==
  /\ r \in InFlight
  /\ Goto(r, "failed")
  /\ UNCHANGED <<tables, graph, given, loop, clean>>

Step(r) ==
  \/ ApplyToT2s(r) \/ DropColumns(r) \/ DropTables(r) \/ DropDatabase(r)
  \/ CreateDatabase(r) \/ LinkNamed(r)
  \/ \E e \in Named : CreateNamed(r, e)
  \/ \E f \in Fk : CreateFk(r, f)

Call(r) == \E c \in Posted : Apply(r, c) \/ \E m \in Mode : Load(r, m, c)

Next == \E r \in Request : Call(r) \/ Step(r) \/ Stops(r)

Spec == Init /\ [][Next]_vars

---------------------------------------------------------------------------
(* Properties.                                                             *)

(* An edge joins vertices that are there, and the marked layer is a forest *)
(* of labels: what an ingest links hangs under its own parent, although    *)
(* MATCH pairs every two vertices with the ids, those of concurrent        *)
(* ingests included (physical_cypher.py:107-190).                          *)
GraphIntegrity ==
  /\ \A e \in has \cup fkTo : e[2] \in vertices /\ e[3] \in vertices
  /\ \A e \in has : e[3].eid \in Named /\ e[2].eid = Parent(e[3].eid)

(* Tables and columns that were brought into the graph by other means stay *)
(* ("distinguished from the migrated nodes, which have no mark",           *)
(* meta_ingest_proto README.md:125; physical_cypher.py:107-116).           *)
ForeignStays == ForeignVertices \subseteq vertices

(* Every table and column the command put into the graph is also in the    *)
(* relational tables, at every moment and wherever ingests stop: the graph *)
(* never runs ahead of them (pipeline.py:80-87, 104-109).                  *)
GraphBehindT2s ==
  \A v \in Ingested(Named) : mode[v.by] # "apply" => t2s[v.eid] # None

(* The marked layer is the catalog of ingest r: one vertex for its label   *)
(* and for each of its tables and columns, no other table or column, one   *)
(* edge for each parent and for each foreign key.                          *)
IsSnapshot(r) ==
  LET c == catalog[r]
  IN  /\ Ingested(Named \cup {c.label}) = {New(r, e) : e \in NamedIn(c) \cup {c.label}}
      /\ has = {<<r, New(r, Parent(e)), New(r, e)>> : e \in NamedIn(c)}
      /\ fkTo = {<<r, New(r, f[1]), New(r, f[2])>> :
                   f \in {k \in FksOf(c) : {k[1], k[2]} \subseteq c.columns}}

(* An ingest that no other ran beside replaces the whole layer by its      *)
(* catalog, whatever ingests that stopped half way or ran into each other  *)
(* left: a retry always repairs (physical_cypher.py:105-205).              *)
CleanRefresh ==
  \A r \in Request : pc[r] = "done" /\ clean[r] /\ mode[r] # "t2s" => IsSnapshot(r)

(* The refresh is one of "the same meta_db_label snapshot"                 *)
(* (physical_cypher.py:86): it removes nothing of other labels.            *)
LabelAt(e) == CASE e \in Label -> e
                [] e \in Table -> LabelOf[e]
                [] OTHER -> LabelOf[TableOf[e]]

RefreshStaysInLabel ==
  [][\A v \in vertices \ vertices' :
       \E r \in Request : pc'[r] # pc[r] /\ catalog[r].label = LabelAt(v.eid)]_vars
=============================================================================
