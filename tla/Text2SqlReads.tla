--------------------------- MODULE Text2SqlReads ---------------------------
(***************************************************************************)
(* Reads of text2sql beside the ingests and saves that change what they    *)
(* read.                                                                   *)
(***************************************************************************)
EXTENDS CatalogSearch, QuerySearch

CONSTANTS
  Given,         \* the catalog ingested at the start
  Posted,        \* the catalogs clients ingest
  GivenQueries,  \* the query history at the start
  Saved          \* <<query, row>>: what saves leave (None: deleted)

ASSUME GivenAssumption ==
  /\ Given \in Catalog /\ Posted \subseteq Catalog
  /\ GivenQueries \in [Query -> QueryRow \cup {None}]
  /\ Saved \subseteq Query \X (QueryRow \cup {None})

Init ==
  /\ stored = Given.elements /\ fks = KeysWithin(Given)
  /\ queries = GivenQueries
  /\ mappings = [k \in Key |-> None]
  /\ pc = [r \in Request |-> "idle"]
  /\ call = [r \in Request |-> [op |-> "none"]]
  /\ reads = [r \in Request |-> <<>>]
  /\ before = [r \in Request |-> [stored |-> {}, fks |-> {}, queries |-> <<>>]]
  /\ clean = [r \in Request |-> FALSE]

Call(r) ==
  \/ CatalogCall(r) \/ QueryCall(r)
  \/ \E D \in Posted : Ingest(r, D)
  \/ \E s \in Saved : WriteQuery(r, s[1], s[2])

Step(r) == CatalogStep(r) \/ QueryStep(r)

Next == \E r \in Request : Call(r) \/ Step(r) \/ Fails(r)

Spec == Init /\ [][Next]_vars

---------------------------------------------------------------------------
(* Properties.                                                             *)

Done(op) == {r \in Request : pc[r] = "done" /\ call[r].op = op}

(* A subschema put together from five statements while ingests add tables, *)
(* columns of stored tables and keys: under a table found under its own    *)
(* name stand all the columns it had when the call began; a table shown by *)
(* another, original name is looked up by that one, so its own columns may *)
(* be missing.  No table has columns but those of looked-up tables of the  *)
(* schema and name it is shown with (a twin in another database is not     *)
(* told apart).  The keys between the tables looked up are all there, and  *)
(* both ends of each are such tables (pg_graph_search.py:86, 245-278).     *)
SubschemaExact ==
  \A r \in Done("subschema") :
    LET x      == reads[r]
        tabs   == {t \in Table : \/ \E u \in x.tables : Shown[u] = t
                                \/ \E c \in x.columns : TableOf[c] = t}
        OfTab(t, E) == {c \in E \cap Column : TableOf[c] = t}
        Among(F) == {f \in F : TableOf[f[1]] \in tabs /\ TableOf[f[2]] \in tabs}
    IN  /\ \A t \in x.tables :
             /\ Shown[t] = t => OfTab(t, before[r].stored) \subseteq x.listed[Name[t]]
             /\ \A c \in x.listed[Name[Shown[t]]] :
                  c \in stored /\ TableOf[c] \in tabs /\ Name[TableOf[c]] = Name[Shown[t]]
        /\ Among(before[r].fks) \subseteq x.keys /\ x.keys \subseteq Among(fks)

(* The details of a table never list more than the limit, over two fetches *)
(* and a third list; while the limit is not reached, every key it had when *)
(* the call began is listed, in both directions; and the additional list   *)
(* names only tables that became neighbours while the call ran: one hop    *)
(* finds what the keys have found (pg_neo4j_utils.py:109-112, 224-266).    *)
NeighboursKept ==
  \A r \in Done("details") :
    LET n     == call[r].name
        had   == Forward(n, before[r].fks) \cup Reverse(n, before[r].fks)
        rows  == IF "relations" \in DOMAIN reads[r] THEN reads[r].relations ELSE {}
        more  == IF "any" \in DOMAIN reads[r] THEN reads[r].any ELSE {}
    IN  /\ Cardinality(rows) + Cardinality(more) <= call[r].limit
        /\ Cardinality(rows) < call[r].limit => had \subseteq rows
        /\ \A m \in more : \A x \in had \cup rows : x.table # m

(* If nobody saved meanwhile and neither search left out an eligible row   *)
(* (because of its limit or its index), the answer is the best LimitK of   *)
(* all rows by the weighted score, in which a similarity below the minimum *)
(* counts for nothing, and by recency (pg_context.py:468-538).             *)
SimilarTop ==
  \A r \in {o \in Done("similar") : clean[o]} :
    LET Q      == before[r].queries
        Sim(q, f) == IF q \in Eligible(Q, f) THEN Q[q][f] ELSE 0
        Score(q) == IF call[r].intent THEN 6 * Sim(q, "meant") + 4 * Sim(q, "asked")
                    ELSE Sim(q, "asked")
        all    == Eligible(Q, "asked")
                    \cup (IF call[r].intent THEN Eligible(Q, "meant") ELSE {})
        whole  == /\ DOMAIN reads[r].question = Eligible(Q, "asked")
                  /\ call[r].intent => DOMAIN reads[r].intent = Eligible(Q, "meant")
        answer == reads[r].similar
    IN  whole =>
          /\ answer \subseteq all
          /\ answer = all \/ Cardinality(answer) = LimitK
          /\ Cardinality(answer) <= LimitK
          /\ \A q \in answer, p \in all \ answer :
               Score(p) < Score(q) \/ (Score(p) = Score(q) /\ Q[p].at <= Q[q].at)

(* A mapping counts every save of it, and its code is one of theirs; it is *)
(* verified only if a save of it said so.  It is linked to its column when *)
(* a save by qualified name saw the column, also if a save that looked     *)
(* before the column was ingested writes later; and only to columns that   *)
(* are there (pg_query_repository.py:346-370, 379-399).                    *)
MappingsExact ==
  \A k \in Key :
    LET saves == {r \in Request : "upsert" \in DOMAIN reads[r] /\ reads[r].upsert = k}
        named == {r \in saves : call[r].op = "byFqn"}
        row   == mappings[k]
    IN  IF row = None THEN saves = {}
        ELSE /\ row.count = Cardinality(saves)
             /\ \E r \in saves : call[r].code = row.code
             /\ row.verified => \E r \in named : call[r].verified
             /\ (\E r \in named : reads[r].lookup # None) => row.linked
             /\ row.linked => k[2] \in stored
=============================================================================
