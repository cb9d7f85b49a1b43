---------------------------- MODULE QuerySearch ----------------------------
(***************************************************************************)
(* pg_find_similar_queries_and_mappings (text2sql/pg_context) and the      *)
(* saves of value mappings (text2sql/pg_query_repository).                 *)
(***************************************************************************)
EXTENDS Text2SqlTables

CONSTANTS
  FetchK,         \* fetch_k: rows each of the two searches returns
  LimitK,         \* limit_k: rows of the answer
  MinSimilarity,  \* min_similarity, in tenths
  Mapped          \* the mappings clients save

ByFqn == [op: {"byFqn"}, word: Word, column: Column, code: Code, verified: BOOLEAN]
ByName == [op: {"byName"}, word: Word, column: {ColName[c] : c \in Column}, code: Code]

ASSUME MappedAssumption == Mapped \subseteq ByFqn \cup ByName

ASSUME SearchAssumption == LimitK \in Nat /\ MinSimilarity \in Nat

---------------------------------------------------------------------------
(* Similar queries.                                                        *)

FindSimilar(r, intent, W, parts) ==
  BeginRead(r, [op |-> "similar", intent |-> intent, words |-> W, parts |-> parts], "question")

(* The rows one search may return, by the similarity it looks at.          *)
Eligible(Q, field) ==
  {q \in Query : /\ Q[q] # None /\ Q[q].fit
                 /\ Q[q][field] # None /\ Q[q][field] >= MinSimilarity}

Hits(S, field) == [q \in S |-> [sim |-> queries[q][field], at |-> queries[q].at]]

SimOf(hits, q) == IF q \in DOMAIN hits THEN hits[q].sim ELSE 0

(* Mutant: a row only the intent search found is dropped.                  *)
QuestionOnly(asked, meant) == DOMAIN asked

(* by_id: the ids either search returned.                                  *)
Merged(asked, meant) == DOMAIN asked \cup DOMAIN meant

(* 0.6 intent + 0.4 question, or the question alone; ties: the later run.  *)
Rank(intent, asked, meant, q) ==
  <<IF intent THEN 6 * SimOf(meant, q) + 4 * SimOf(asked, q) ELSE SimOf(asked, q),
    IF q \in DOMAIN asked THEN asked[q].at ELSE meant[q].at>>

Above(a, b) == a[1] > b[1] \/ (a[1] = b[1] /\ a[2] > b[2])

(* The first limit_k of the sorted rows; rows of equal rank in any order.  *)
Top(intent, asked, meant) ==
  {S \in FirstOf(Merged(asked, meant), LimitK) :
     \A q \in S, p \in Merged(asked, meant) \ S :
       ~Above(Rank(intent, asked, meant, p), Rank(intent, asked, meant, q))}

AfterQueries(r) == IF call[r].words # {} THEN "words" ELSE "done"

SearchQuestion(r) ==
  /\ pc[r] = "question"
  /\ \E S \in Found(Eligible(queries, "asked"), FetchK) :
       LET asked == Hits(S, "asked")
       IN  IF call[r].intent
           THEN Learn(r, "question", asked, "intent")
           ELSE \E A \in Top(FALSE, asked, <<>>) :
                  GoesOn(r, With(With(reads[r], "question", asked), "similar", A),
                         AfterQueries(r))
  /\ UNCHANGED tables

SearchIntent(r) ==
  /\ pc[r] = "intent"
  /\ \E S \in Found(Eligible(queries, "meant"), FetchK) :
       LET meant == Hits(S, "meant")
       IN  \E A \in Top(TRUE, reads[r].question, meant) :
             GoesOn(r, With(With(reads[r], "intent", meant), "similar", A), AfterQueries(r))
  /\ UNCHANGED tables

(* Verified mappings of the words; if there are none and it is allowed,    *)
(* those of words they are a part of.                                      *)
MappingsOf(W) == {k \in Key : k[1] \in W /\ mappings[k] # None /\ mappings[k].verified}

FindMappings(r) ==
  /\ pc[r] = "words"
  /\ LET found == MappingsOf(call[r].words)
     IN  Learn(r, "words", found, IF found = {} /\ call[r].parts THEN "parts" ELSE "done")
  /\ UNCHANGED tables

FindByParts(r) ==
  /\ pc[r] = "parts"
  /\ \E W \in SUBSET Word :
       call[r].words \subseteq W /\ Learn(r, "parts", MappingsOf(W), "done")
  /\ UNCHANGED tables

---------------------------------------------------------------------------
(* Saves of value mappings: a lookup of the column, then an upsert.        *)

(* save_value_mapping_by_fqn and save_value_mapping.                       *)
SaveByFqn(r, m) == m.op = "byFqn" /\ Begin(r, m, "lookup")

SaveByName(r, m) == m.op = "byName" /\ Begin(r, m, "lookup")

(* The column with the fqn, or None.                                       *)
LookupFqn(r) ==
  /\ pc[r] = "lookup" /\ call[r].op = "byFqn"
  /\ LET c == call[r].column
     IN  Learn(r, "lookup", IF c \in stored THEN c ELSE None, "upsert")
  /\ UNCHANGED tables

(* Some column with the name; without one the save is given up.            *)
LookupName(r) ==
  /\ pc[r] = "lookup" /\ call[r].op = "byName"
  /\ LET C == {c \in stored \cap Column : ColName[c] = call[r].column}
     IN  IF C = {} THEN Learn(r, "lookup", None, "done")
         ELSE \E c \in C : Learn(r, "lookup", c, "upsert")
  /\ UNCHANGED tables

KeyOf(r) == <<call[r].word, IF call[r].op = "byFqn" THEN call[r].column ELSE reads[r].lookup>>

(* Mutant: column_id = EXCLUDED.column_id.                                 *)
LinkedNow(r, row) == reads[r].lookup # None

(* COALESCE(EXCLUDED.column_id, column_id); save_value_mapping does not    *)
(* set it.                                                                 *)
Linked(r, row) == row.linked \/ (call[r].op = "byFqn" /\ reads[r].lookup # None)

(* ON CONFLICT (natural_value, column_fqn): save_value_mapping keeps the   *)
(* verified mark of the code it replaces.                                  *)
Upserted(r, row) ==
  IF row = None
  THEN [code |-> call[r].code, linked |-> reads[r].lookup # None, count |-> 1,
        verified |-> call[r].op = "byFqn" /\ call[r].verified]
  ELSE [code |-> call[r].code, linked |-> Linked(r, row), count |-> row.count + 1,
        verified |-> IF call[r].op = "byFqn" THEN call[r].verified ELSE row.verified]

UpsertMapping(r) ==
  /\ pc[r] = "upsert"
  /\ Learn(r, "upsert", KeyOf(r), "done")
  /\ mappings' = [mappings EXCEPT ![KeyOf(r)] = Upserted(r, @)]
  /\ UNCHANGED <<catalog, queries>>

QueryCall(r) ==
  \/ \E i, p \in BOOLEAN, W \in SUBSET Word : FindSimilar(r, i, W, p)
  \/ \E m \in Mapped : SaveByName(r, m) \/ SaveByFqn(r, m)

QueryStep(r) ==
  \/ SearchQuestion(r) \/ SearchIntent(r) \/ FindMappings(r) \/ FindByParts(r)
  \/ LookupFqn(r) \/ LookupName(r) \/ UpsertMapping(r)
=============================================================================
