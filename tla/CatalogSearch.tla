--------------------------- MODULE CatalogSearch ---------------------------
(***************************************************************************)
(* Reads of the catalog that take several statements:                      *)
(* PgGraphSearcher.build_subschema (text2sql/pg_graph_search) and          *)
(* get_table_relationship_details (text2sql/pg_neo4j_utils).  The filters  *)
(* by schema and datasource only narrow what a search finds.               *)
(***************************************************************************)
EXTENDS Text2SqlTables

CONSTANTS
  TopK,      \* top_k_tables and top_k_columns
  Limits     \* relation_limit of the details

ASSUME LimitsAssumption == Limits \subseteq Nat

StoredTables == stored \cap Table
StoredColumns == stored \cap Column

---------------------------------------------------------------------------
(* build_subschema.                                                        *)

BuildSubschema(r) == BeginRead(r, [op |-> "subschema"], "tables")

SearchTables(r) ==
  /\ pc[r] = "tables"
  /\ \E T \in Found(StoredTables, TopK) : Learn(r, "tables", T, "columns")
  /\ UNCHANGED tables

(* Mutant: the tables of the columns found are forgotten.                  *)
KeysOfTables(x) == {Shown[t] : t \in x.tables}

(* table_keys: what the tables found are shown as, and the tables of the   *)
(* columns found by their own names.                                       *)
TableKeys(x) == {Shown[t] : t \in x.tables} \cup {TableOf[c] : c \in x.columns}

SearchColumns(r) ==
  /\ pc[r] = "columns"
  /\ \E C \in Found(StoredColumns, TopK) : Learn(r, "columns", C, "listed")
  /\ UNCHANGED tables

(* get_table_columns of the tables with these addresses for their own:     *)
(* keyed by schema and name, without the database.                         *)
ColumnsByName(K) ==
  [n \in {Name[a] : a \in K} |-> {c \in StoredColumns : TableOf[c] \in K /\ Name[TableOf[c]] = n}]

GetTableColumns(r) ==
  /\ pc[r] = "listed"
  /\ Learn(r, "listed", ColumnsByName(TableKeys(reads[r])), "paths")
  /\ UNCHANGED tables

(* find_fk_paths: what it returns is not used.                             *)
FindFkPaths(r) ==
  /\ pc[r] = "paths"
  /\ Goto(r, "keys")
  /\ UNCHANGED <<tables, call, reads, history>>

FksAmong(K) == {f \in fks : {TableOf[f[1]], TableOf[f[2]]} \subseteq K}

GetFkDetails(r) ==
  /\ pc[r] = "keys"
  /\ Learn(r, "keys", FksAmong(TableKeys(reads[r])), "done")
  /\ UNCHANGED tables

---------------------------------------------------------------------------
(* get_table_relationship_details of the tables with one name, their own   *)
(* or their original one.                                                  *)
Answering(n) == {t \in Table : n \in {Name[t], Name[Shown[t]]}}

(* A row of the answer: SELECT DISTINCT of names.                          *)
Row(type, c, d) ==
  [type |-> type, table |-> Name[Shown[TableOf[d]]], from |-> ColName[c], to |-> ColName[d]]

Forward(n, F) ==
  {Row("foreign_key", f[1], f[2]) : f \in {g \in F : TableOf[g[1]] \in Answering(n)}}
Reverse(n, F) ==
  {Row("referenced_by", f[2], f[1]) : f \in {g \in F : TableOf[g[2]] \in Answering(n)}}

(* get_table_any_relationships: the tables one key away, itself excluded.  *)
Neighbours(n) ==
  {Name[Shown[p[2]]] : p \in {e \in StoredTables \X StoredTables :
     /\ e[1] \in Answering(n) /\ e[1] # e[2]
     /\ \E f \in fks : {TableOf[f[1]], TableOf[f[2]]} = {e[1], e[2]}}}

RelationshipDetails(r, n, k) ==
  BeginRead(r, [op |-> "details", name |-> n, limit |-> k], IF k = 0 THEN "done" ELSE "forward")

(* Mutant: the second list has the whole limit again.                      *)
FullLimit(r, S) == call[r].limit

Room(r, S) == call[r].limit - Cardinality(S)

FetchForward(r) ==
  /\ pc[r] = "forward"
  /\ \E S \in FirstOf(Forward(call[r].name, fks), call[r].limit) :
       Learn(r, "relations", S, IF Cardinality(S) < call[r].limit THEN "reverse" ELSE "done")
  /\ UNCHANGED tables

FetchReverse(r) ==
  /\ pc[r] = "reverse"
  /\ LET found == reads[r].relations
     IN  \E S \in FirstOf(Reverse(call[r].name, fks), Room(r, found)) :
           Learn(r, "relations", found \cup S,
                 IF Cardinality(found \cup S) < call[r].limit THEN "any" ELSE "done")
  /\ UNCHANGED tables

(* additional_relationships: neighbours not listed yet.                    *)
FetchAny(r) ==
  /\ pc[r] = "any"
  /\ LET found == reads[r].relations
     IN  \E S \in FirstOf(Neighbours(call[r].name) \ {x.table : x \in found}, Room(r, found)) :
           Learn(r, "any", S, "done")
  /\ UNCHANGED tables

CatalogCall(r) ==
  \/ BuildSubschema(r)
  \/ \E a \in Address, k \in Limits : RelationshipDetails(r, Name[a], k)

CatalogStep(r) ==
  \/ SearchTables(r) \/ SearchColumns(r) \/ GetTableColumns(r)
  \/ FindFkPaths(r) \/ GetFkDetails(r)
  \/ FetchForward(r) \/ FetchReverse(r) \/ FetchAny(r)
=============================================================================
