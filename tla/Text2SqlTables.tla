--------------------------- MODULE Text2SqlTables ---------------------------
(***************************************************************************)
(* The relational tables text2sql reads, and the calls that read and write *)
(* them.  CatalogSearch and QuerySearch share this module's variables.     *)
(*                                                                         *)
(* A call runs its statements one by one, each an autocommit statement on  *)
(* a connection of its own; between two of them ingests add to the catalog *)
(* and saves change the query history.  The code joins what the statements *)
(* returned, so a call is modelled by what each of them returned.          *)
(***************************************************************************)
EXTENDS Naturals, FiniteSets

CONSTANTS
  Request,   \* calls of the clients, each one coroutine
  Table, Column,
  TableOf,   \* the table of a column
  Address,   \* database, schema and name; a table is known by its own
  Shown,     \* the address of a table with its original name, if it has one
  Name,      \* schema and name of an address; databases may share them
  ColName,   \* name of a column
  Fk,        \* foreign keys: <<from column, to column>>
  Query,     \* ids of normalised questions
  Word,      \* natural values that have a mapping
  Code,      \* the codes they are mapped to
  None,
  MaxReads   \* bound: calls that only read

Element == Table \cup Column

(* A row of t2s_queries.  asked and meant are its similarities to the      *)
(* question and the intent searched for, in tenths (None: no vector); fit  *)
(* says that it is completed, has SQL text, and is verified if only        *)
(* verified rows are wanted.                                               *)
QueryRow == [asked: 0..10, meant: 0..10 \cup {None}, fit: BOOLEAN, at: Nat]

(* A row of t2s_value_mappings; linked: column_id is set.                  *)
Mapping == [code: Code, linked: BOOLEAN, count: Nat, verified: BOOLEAN]

(* Its unique key: the natural value and the column's qualified name.      *)
Key == Word \X Column

ASSUME ReadsAssumption ==
  /\ TableOf \in [Column -> Table] /\ Table \cap Column = {}
  /\ Table \subseteq Address /\ Shown \in [Table -> Address]
  /\ DOMAIN Name = Address /\ DOMAIN ColName = Column
  /\ Fk \subseteq Column \X Column
  /\ None \notin QueryRow \cup Mapping \cup Column \cup Nat
  /\ IsFiniteSet(Request) /\ IsFiniteSet(Column) /\ IsFiniteSet(Table) /\ IsFiniteSet(Query)
  /\ MaxReads \in Nat

VARIABLES
  stored,    \* t2s_tables and t2s_columns
  fks,       \* t2s_fk_constraints
  queries,   \* t2s_queries
  mappings,  \* t2s_value_mappings
  pc,        \* next statement of a call
  call,      \* its method and arguments
  reads,     \* what each of its statements returned so far
  before,    \* history: the catalog and the queries when it began
  clean      \* history: no query was saved or deleted since

catalog == <<stored, fks>>
tables == <<catalog, queries, mappings>>
history == <<before, clean>>
vars == <<tables, pc, call, reads, history>>

PC == {"idle", "tables", "columns", "listed", "paths", "keys",
       "forward", "reverse", "any", "question", "intent", "words", "parts",
       "lookup", "upsert", "done", "failed"}

(* Columns of stored tables, and keys between stored columns.              *)
Closed(E, F) ==
  /\ E \subseteq Element /\ \A c \in E \cap Column : TableOf[c] \in E
  /\ F \subseteq Fk /\ \A f \in F : {f[1], f[2]} \subseteq E

TypeOK ==
  /\ Closed(stored, fks)
  /\ queries \in [Query -> QueryRow \cup {None}]
  /\ mappings \in [Key -> Mapping \cup {None}]
  /\ pc \in [Request -> PC]
  /\ \A r \in Request :
       /\ DOMAIN reads[r] \subseteq PC \cup {"similar", "relations"}
       /\ before[r].stored \subseteq stored /\ before[r].fks \subseteq fks
  /\ clean \in [Request -> BOOLEAN]

---------------------------------------------------------------------------
(* How a call goes on.                                                     *)

InFlight == {r \in Request : pc[r] \notin {"idle", "done", "failed"}}

Goto(r, l) == pc' = [pc EXCEPT ![r] = l]

Present == [stored |-> stored, fks |-> fks, queries |-> queries]

Begin(r, c, l) ==
  /\ pc[r] = "idle"
  /\ call' = [call EXCEPT ![r] = c]
  /\ before' = [before EXCEPT ![r] = Present]
  /\ clean' = [clean EXCEPT ![r] = TRUE]
  /\ Goto(r, l)
  /\ UNCHANGED <<tables, reads>>

(* x, and that the statement l returned e.                                 *)
With(x, l, e) == [y \in {l} \cup DOMAIN x |-> IF y = l THEN e ELSE x[y]]

(* The call goes on at label m, having read x.                             *)
GoesOn(r, x, m) ==
  /\ reads' = [reads EXCEPT ![r] = x]
  /\ Goto(r, m)
  /\ UNCHANGED <<call, history>>

Learn(r, l, e, m) == GoesOn(r, With(reads[r], l, e), m)

(* A call that changes nothing; others do not notice it.                   *)
Reading == {"subschema", "details", "similar"}

BeginRead(r, c, l) ==
  /\ Cardinality({o \in Request : call[o].op \in Reading}) < MaxReads
  /\ Begin(r, c, l)

(* A statement raises; nothing that reads catches it.                      *)
Fails(r) ==
  /\ r \in InFlight
  /\ Goto(r, "failed")
  /\ UNCHANGED <<tables, call, reads, history>>

(* LIMIT k by vector distance, of rows that may lack a vector: an index of *)
(* the HNSW kind may miss rows.  LIMIT k by names: some k rows.            *)
Found(S, k) == {T \in SUBSET S : Cardinality(T) <= k}
FirstOf(S, k) ==
  {T \in SUBSET S : Cardinality(T) = IF Cardinality(S) <= k THEN Cardinality(S) ELSE k}

---------------------------------------------------------------------------
(* The writers, each one statement or one transaction.                     *)

(* The tables, columns and keys of a catalog that is ingested.  Every      *)
(* column comes with its table; a table may have had others before.        *)
Catalog ==
  {D \in [elements: SUBSET Element, keys: SUBSET Fk] :
     \A c \in D.elements \cap Column : TableOf[c] \in D.elements}

(* Keys are given by column names and found among the columns of the same  *)
(* catalog.                                                                *)
KeysWithin(D) == {f \in D.keys : {f[1], f[2]} \subseteq D.elements}

(* apply_catalog_to_t2s: tables, columns and keys in one transaction; what *)
(* is stored and not in the catalog stays.                                 *)
Ingest(r, D) ==
  /\ pc[r] = "idle"
  /\ stored' = stored \cup D.elements
  /\ fks' = fks \cup KeysWithin(D)
  /\ Goto(r, "done")
  /\ UNCHANGED <<queries, mappings, call, reads, history>>

(* The INSERT or UPDATE of save_query, and delete_query (x = None).        *)
WriteQuery(r, q, x) ==
  /\ pc[r] = "idle"
  /\ queries' = [queries EXCEPT ![q] = x]
  /\ clean' = [o \in Request |-> FALSE]
  /\ Goto(r, "done")
  /\ UNCHANGED <<catalog, mappings, call, reads, before>>
=============================================================================
