-------------------------- MODULE Text2SqlReadsInv --------------------------
(* The strengthening that makes the invariants of Text2SqlReads inductive: *)
(* what a call has read by each of its statements, and of which state.     *)
EXTENDS Text2SqlReads

(* One value for each request, whatever the values are.                    *)
PerRequest(f) == f = [r \in Request |-> f[r]]

CallsOK == PerRequest(call) /\ PerRequest(reads) /\ PerRequest(before)

IdleOK(r) ==
  /\ call[r].op \in {"none", "subschema", "details", "similar", "byFqn", "byName"}
  /\ pc[r] = "idle" => call[r].op = "none"
  /\ call[r].op = "none" => pc[r] \in {"idle", "done"} /\ DOMAIN reads[r] = {}

(* The catalog only grows; the queries stay while nobody saves one.        *)
HistoryOK(r) ==
  /\ before[r].stored \subseteq stored /\ before[r].fks \subseteq fks
  /\ clean[r] => queries = before[r].queries

---------------------------------------------------------------------------
(* build_subschema.                                                        *)

Among(F, K) == {f \in F : TableOf[f[1]] \in K /\ TableOf[f[2]] \in K}

(* The columns listed for the tables found.                                *)
ListedOK(r) ==
  LET x == reads[r]
  IN  \A t \in x.tables :
        /\ Shown[t] = t => \A c \in Column :
             TableOf[c] = t /\ c \in before[r].stored => c \in x.listed[Name[t]]
        /\ \A c \in x.listed[Name[Shown[t]]] :
             /\ c \in stored \cap Column
             /\ TableOf[c] \in TableKeys(x) /\ Name[TableOf[c]] = Name[Shown[t]]

(* The keys between the tables found.                                      *)
KeysOK(r) ==
  LET K == TableKeys(reads[r])
  IN  Among(before[r].fks, K) \subseteq reads[r].keys /\ reads[r].keys \subseteq Among(fks, K)

SubschemaOK(r) ==
  LET x == reads[r]
  IN  call[r].op = "subschema" =>
        /\ pc[r] \in {"tables", "columns", "listed", "paths", "keys", "done", "failed"}
        /\ DOMAIN x \subseteq {"tables", "columns", "listed", "keys"}
        /\ pc[r] \in {"columns", "listed", "paths", "keys", "done"} =>
             "tables" \in DOMAIN x /\ x.tables \subseteq Table
        /\ pc[r] \in {"listed", "paths", "keys", "done"} =>
             "columns" \in DOMAIN x /\ x.columns \subseteq Column
        /\ pc[r] \in {"paths", "keys", "done"} => "listed" \in DOMAIN x /\ ListedOK(r)
        /\ pc[r] = "done" => "keys" \in DOMAIN x /\ KeysOK(r)

---------------------------------------------------------------------------
(* get_table_relationship_details.                                         *)

(* The rows a table had when the call began.                               *)
Had(r) == Forward(call[r].name, before[r].fks) \cup Reverse(call[r].name, before[r].fks)

Listed(r) == IF "relations" \in DOMAIN reads[r] THEN reads[r].relations ELSE {}
Added(r) == IF "any" \in DOMAIN reads[r] THEN reads[r].any ELSE {}

KeptOK(r) ==
  /\ Cardinality(Listed(r)) + Cardinality(Added(r)) <= call[r].limit
  /\ Cardinality(Listed(r)) < call[r].limit => Had(r) \subseteq Listed(r)
  /\ \A m \in Added(r) : \A x \in Had(r) \cup Listed(r) : x.table # m

DetailsOK(r) ==
  LET x == reads[r]
  IN  call[r].op = "details" =>
        /\ pc[r] \in {"forward", "reverse", "any", "done", "failed"}
        /\ call[r].limit \in Nat
        /\ DOMAIN x \subseteq {"relations", "any"}
        /\ pc[r] = "forward" => DOMAIN x = {} /\ call[r].limit > 0
        /\ pc[r] \in {"reverse", "any"} =>
             /\ DOMAIN x = {"relations"}
             /\ IsFiniteSet(x.relations) /\ Cardinality(x.relations) < call[r].limit
             /\ Forward(call[r].name, before[r].fks) \subseteq x.relations
        /\ pc[r] = "reverse" => \A y \in x.relations : y.type = "foreign_key"
        /\ pc[r] = "any" => Had(r) \subseteq x.relations
        /\ pc[r] = "done" => KeptOK(r)

---------------------------------------------------------------------------
(* pg_find_similar_queries_and_mappings.                                   *)

HitsOf(Q, S, field) == [q \in S |-> [sim |-> Q[q][field], at |-> Q[q].at]]

(* What a search returned, if nobody saved a query since the call began.   *)
SearchedOK(r, hits, field) ==
  clean[r] =>
    \E S \in SUBSET Eligible(before[r].queries, field) :
      hits = HitsOf(before[r].queries, S, field)

SimilarOK(r) ==
  LET x == reads[r]
  IN  call[r].op = "similar" =>
        /\ pc[r] \in {"question", "intent", "words", "parts", "done", "failed"}
        /\ call[r].intent \in BOOLEAN
        /\ DOMAIN x \subseteq {"question", "intent", "similar", "words", "parts"}
        /\ pc[r] = "intent" => call[r].intent
        /\ pc[r] \in {"intent", "words", "parts", "done"} =>
             "question" \in DOMAIN x /\ SearchedOK(r, x.question, "asked")
        /\ pc[r] \in {"words", "parts", "done"} =>
             /\ "similar" \in DOMAIN x
             /\ call[r].intent => /\ "intent" \in DOMAIN x /\ SearchedOK(r, x.intent, "meant")
                                  /\ x.similar \in Top(TRUE, x.question, x.intent)
             /\ ~call[r].intent => x.similar \in Top(FALSE, x.question, <<>>)

---------------------------------------------------------------------------
(* Saves of mappings.                                                      *)

(* The column the lookup saw, still there at the upsert.                   *)
LookupOK(r) ==
  LET c == reads[r].lookup
  IN  /\ call[r].op = "byFqn" => c = None \/ (c = call[r].column /\ c \in stored)
      /\ call[r].op = "byName" => c \in stored \cap Column

SaveOK(r) ==
  LET x == reads[r]
  IN  call[r].op \in {"byFqn", "byName"} =>
        /\ call[r] \in Mapped
        /\ pc[r] \in {"lookup", "upsert", "done", "failed"}
        /\ DOMAIN x \subseteq {"lookup", "upsert"}
        /\ "upsert" \in DOMAIN x => pc[r] = "done"
        /\ pc[r] = "upsert" => "lookup" \in DOMAIN x /\ LookupOK(r)

RequestOK(r) ==
  /\ IdleOK(r) /\ HistoryOK(r)
  /\ SubschemaOK(r) /\ DetailsOK(r) /\ SimilarOK(r) /\ SaveOK(r)

IInv ==
  /\ TypeOK
  /\ CallsOK
  /\ \A r \in Request : RequestOK(r)
  /\ MappingsExact
=============================================================================
