------------------------ MODULE Text2SqlReads_proofs ------------------------
(***************************************************************************)
(* Proofs about Text2SqlReads, for every catalog, every query history and  *)
(* every set of calls.                                                     *)
(***************************************************************************)
EXTENDS Text2SqlReadsInv, FiniteSetTheorems, TLAPS

---------------------------------------------------------------------------
(* Maps.                                                                   *)

LEMMA WithOK ==
  ASSUME NEW x, NEW l, NEW e
  PROVE  /\ DOMAIN With(x, l, e) = {l} \cup DOMAIN x /\ With(x, l, e)[l] = e
         /\ \A y \in DOMAIN x : y # l => With(x, l, e)[y] = x[y]
  BY DEF With

(* A statement of r.                                                       *)
LEMMA WentOn ==
  ASSUME CallsOK, pc \in [Request -> PC], NEW r \in Request, NEW x, NEW m, GoesOn(r, x, m)
  PROVE  /\ CallsOK' /\ UNCHANGED <<call, before, clean>>
         /\ pc' = [pc EXCEPT ![r] = m] /\ pc'[r] = m /\ reads'[r] = x
         /\ \A q \in Request \ {r} : reads'[q] = reads[q] /\ pc'[q] = pc[q]
<1>1. /\ reads' = [reads EXCEPT ![r] = x] /\ pc' = [pc EXCEPT ![r] = m]
      /\ UNCHANGED <<call, before, clean>>
  BY DEF GoesOn, Goto, history
<1>2. PerRequest(reads) /\ PerRequest(call) /\ PerRequest(before)
  BY DEF CallsOK
<1>3. /\ PerRequest(reads') /\ reads'[r] = x
      /\ \A q \in Request \ {r} : reads'[q] = reads[q]
  BY <1>1, <1>2 DEF PerRequest
<1>4. CallsOK'
  BY <1>1, <1>2, <1>3 DEF CallsOK, PerRequest
<1> QED
  BY <1>1, <1>3, <1>4

LEMMA Learned ==
  ASSUME CallsOK, pc \in [Request -> PC], NEW r \in Request, NEW l, NEW e, NEW m,
         Learn(r, l, e, m)
  PROVE  /\ CallsOK' /\ UNCHANGED <<call, before, clean>>
         /\ pc' = [pc EXCEPT ![r] = m] /\ pc'[r] = m
         /\ \A q \in Request \ {r} : reads'[q] = reads[q] /\ pc'[q] = pc[q]
         /\ DOMAIN reads'[r] = {l} \cup DOMAIN reads[r]
         /\ reads'[r][l] = e
         /\ \A x \in DOMAIN reads[r] : x # l => reads'[r][x] = reads[r][x]
<1>1. PICK x : x = With(reads[r], l, e)
  OBVIOUS
<1>2. GoesOn(r, x, m)
  BY <1>1 DEF Learn
<1>3. /\ CallsOK' /\ UNCHANGED <<call, before, clean>>
      /\ pc' = [pc EXCEPT ![r] = m] /\ pc'[r] = m /\ reads'[r] = x
      /\ \A q \in Request \ {r} : reads'[q] = reads[q] /\ pc'[q] = pc[q]
  BY <1>2, WentOn
<1>4. /\ DOMAIN x = {l} \cup DOMAIN reads[r] /\ x[l] = e
      /\ \A y \in DOMAIN reads[r] : y # l => x[y] = reads[r][y]
  BY <1>1 DEF With
<1> QED
  BY <1>3, <1>4
---------------------------------------------------------------------------
(* What a step of one call leaves of the others.                           *)

LEMMA IdleStays ==
  ASSUME NEW q \in Request, IdleOK(q), UNCHANGED <<reads[q], call[q], pc[q]>>
  PROVE  IdleOK(q)'
  BY DEF IdleOK

LEMMA HistoryStays ==
  ASSUME NEW q \in Request, HistoryOK(q), UNCHANGED before[q],
         stored \subseteq stored', fks \subseteq fks',
         clean'[q] => clean[q] /\ queries' = queries
  PROVE  HistoryOK(q)'
  BY DEF HistoryOK

LEMMA SubschemaStays ==
  ASSUME NEW q \in Request, SubschemaOK(q), UNCHANGED <<reads[q], call[q], before[q], pc[q]>>,
         stored \subseteq stored', fks \subseteq fks'
  PROVE  SubschemaOK(q)'
<1>1. ListedOK(q) => ListedOK(q)'
  BY DEF ListedOK, TableKeys
<1>2. KeysOK(q) => KeysOK(q)'
  BY DEF KeysOK, Among, TableKeys
<1> QED
  BY <1>1, <1>2 DEF SubschemaOK

LEMMA DetailsStays ==
  ASSUME NEW q \in Request, DetailsOK(q), UNCHANGED <<reads[q], call[q], before[q], pc[q]>>
  PROVE  DetailsOK(q)'
<1>1. Had(q)' = Had(q) /\ Listed(q)' = Listed(q) /\ Added(q)' = Added(q)
  BY DEF Had, Listed, Added
<1>2. KeptOK(q) => KeptOK(q)'
  BY <1>1 DEF KeptOK
<1> QED
  BY <1>1, <1>2 DEF DetailsOK

LEMMA SimilarStays ==
  ASSUME NEW q \in Request, SimilarOK(q), UNCHANGED <<reads[q], call[q], before[q], pc[q]>>,
         clean'[q] => clean[q]
  PROVE  SimilarOK(q)'
<1>1. \A h, f : SearchedOK(q, h, f) => SearchedOK(q, h, f)'
  BY DEF SearchedOK
<1> QED
  BY <1>1 DEF SimilarOK

LEMMA SaveStays ==
  ASSUME NEW q \in Request, SaveOK(q), UNCHANGED <<reads[q], call[q], pc[q]>>,
         stored \subseteq stored'
  PROVE  SaveOK(q)'
<1>1. LookupOK(q) => LookupOK(q)'
  BY DEF LookupOK
<1> QED
  BY <1>1 DEF SaveOK

LEMMA OthersStay ==
  ASSUME NEW q \in Request, RequestOK(q), UNCHANGED <<reads[q], call[q], before[q], pc[q]>>,
         stored \subseteq stored', fks \subseteq fks',
         clean'[q] => clean[q] /\ queries' = queries
  PROVE  RequestOK(q)'
  BY IdleStays, HistoryStays, SubschemaStays, DetailsStays, SimilarStays, SaveStays
     DEF RequestOK

---------------------------------------------------------------------------
(* The mappings.                                                           *)

SavesOf(k) == {r \in Request : "upsert" \in DOMAIN reads[r] /\ reads[r].upsert = k}
NamedOf(k) == {r \in SavesOf(k) : call[r].op = "byFqn"}

KeyOK(k) ==
  /\ mappings[k] = None => SavesOf(k) = {}
  /\ mappings[k] # None =>
       /\ mappings[k].count = Cardinality(SavesOf(k))
       /\ \E r \in SavesOf(k) : call[r].code = mappings[k].code
       /\ mappings[k].verified => \E r \in NamedOf(k) : call[r].verified
       /\ (\E r \in NamedOf(k) : reads[r].lookup # None) => mappings[k].linked
       /\ mappings[k].linked => k[2] \in stored

LEMMA KeyParts == MappingsExact <=> \A k \in Key : KeyOK(k)
  BY DEF MappingsExact, KeyOK, SavesOf, NamedOf

(* Steps that save nothing.                                                *)
LEMMA KeyStays ==
  ASSUME NEW k \in Key, KeyOK(k), mappings'[k] = mappings[k], stored \subseteq stored',
         \A q \in Request :
           /\ q \in SavesOf(k)' <=> q \in SavesOf(k)
           /\ q \in SavesOf(k) => UNCHANGED <<reads[q], call[q]>>
  PROVE  KeyOK(k)'
<1>1. SavesOf(k)' = SavesOf(k)
  BY DEF SavesOf
<1>2. NamedOf(k)' = NamedOf(k)
  BY <1>1 DEF NamedOf, SavesOf
<1>3. \A q \in SavesOf(k) : UNCHANGED <<reads[q], call[q]>>
  BY DEF SavesOf
<1>4. \A q \in NamedOf(k) : q \in SavesOf(k)
  BY DEF NamedOf
<1> QED
  BY <1>1, <1>2, <1>3, <1>4 DEF KeyOK

LEMMA MappingsStay ==
  ASSUME MappingsExact, UNCHANGED mappings, stored \subseteq stored',
         \A q \in Request :
           /\ "upsert" \in DOMAIN reads'[q] <=> "upsert" \in DOMAIN reads[q]
           /\ "upsert" \in DOMAIN reads[q] => UNCHANGED <<reads[q], call[q]>>
  PROVE  MappingsExact'
<1>1. ASSUME NEW k \in Key
      PROVE  KeyOK(k)'
  <2>1. KeyOK(k)
    BY KeyParts
  <2>2. \A q \in Request : /\ q \in SavesOf(k)' <=> q \in SavesOf(k)
                           /\ q \in SavesOf(k) => UNCHANGED <<reads[q], call[q]>>
    BY DEF SavesOf
  <2> QED
    BY <2>1, <2>2, KeyStays
<1> QED
  BY <1>1, KeyParts DEF MappingsExact, KeyOK, SavesOf, NamedOf

(* A save is over when it has written.                                     *)
LEMMA NotSaved ==
  ASSUME NEW r \in Request, RequestOK(r), pc[r] # "done"
  PROVE  "upsert" \notin DOMAIN reads[r]
  BY DEF RequestOK, IdleOK, SubschemaOK, DetailsOK, SimilarOK, SaveOK
---------------------------------------------------------------------------
(* Statements that only read.                                              *)

(* The method of a call, by the statement it is at.                        *)
LEMMA AtStatement ==
  ASSUME IInv, NEW r \in Request
  PROVE  /\ RequestOK(r) /\ CallsOK /\ pc \in [Request -> PC]
         /\ pc[r] \in {"tables", "columns", "listed", "paths", "keys"} => call[r].op = "subschema"
         /\ pc[r] \in {"forward", "reverse", "any"} => call[r].op = "details"
         /\ pc[r] \in {"question", "intent", "words", "parts"} => call[r].op = "similar"
         /\ pc[r] \in {"lookup", "upsert"} => call[r].op \in {"byFqn", "byName"}
<1>1. RequestOK(r) /\ CallsOK /\ pc \in [Request -> PC]
  BY DEF IInv, TypeOK
<1>2. /\ IdleOK(r) /\ SubschemaOK(r) /\ DetailsOK(r) /\ SimilarOK(r) /\ SaveOK(r)
  BY <1>1 DEF RequestOK
<1> QED
  BY <1>1, <1>2 DEF IdleOK, SubschemaOK, DetailsOK, SimilarOK, SaveOK

LEMMA StepInv ==
  ASSUME IInv, NEW r \in Request, pc[r] \notin {"idle", "done", "failed"},
         NEW m \in PC, pc' = [pc EXCEPT ![r] = m], CallsOK',
         UNCHANGED <<stored, fks, queries, mappings, call, before, clean>>,
         \A q \in Request \ {r} : reads'[q] = reads[q],
         DOMAIN reads'[r] \subseteq PC \cup {"similar", "relations"},
         "upsert" \notin DOMAIN reads'[r],
         RequestOK(r)'
  PROVE  IInv'
<1>1. pc \in [Request -> PC] /\ \A q \in Request : RequestOK(q)
  BY DEF IInv, TypeOK
<1>2. pc' \in [Request -> PC] /\ \A q \in Request \ {r} : pc'[q] = pc[q]
  BY <1>1
<1>3. TypeOK'
  BY <1>2 DEF IInv, TypeOK, Closed
<1>4. \A q \in Request : RequestOK(q)'
  <2>1. ASSUME NEW q \in Request, q # r
        PROVE  RequestOK(q)'
    BY <1>1, <1>2, <2>1, OthersStay
  <2> QED
    BY <2>1
<1>5. "upsert" \notin DOMAIN reads[r]
  BY <1>1, NotSaved
<1>6. MappingsExact'
  BY <1>5, MappingsStay DEF IInv
<1> QED
  BY <1>3, <1>4, <1>6 DEF IInv

(* Of a call, only what its own method says.                               *)
LEMMA SubschemaOnly ==
  ASSUME NEW r \in Request, IdleOK(r), HistoryOK(r), call[r].op = "subschema",
         UNCHANGED <<call[r], before[r], stored, fks, queries, clean>>,
         pc'[r] # "idle", SubschemaOK(r)'
  PROVE  RequestOK(r)'
<1>1. call'[r].op = "subschema"
  OBVIOUS
<1>2. IdleOK(r)'
  BY <1>1 DEF IdleOK
<1>3. HistoryOK(r)'
  BY DEF HistoryOK
<1>4. DetailsOK(r)' /\ SimilarOK(r)' /\ SaveOK(r)'
  BY <1>1 DEF DetailsOK, SimilarOK, SaveOK
<1> QED
  BY <1>2, <1>3, <1>4 DEF RequestOK

LEMMA SearchTablesInv ==
  ASSUME IInv, NEW r \in Request, SearchTables(r)
  PROVE  IInv'
<1>1. /\ RequestOK(r) /\ CallsOK /\ pc \in [Request -> PC]
      /\ call[r].op = "subschema" /\ pc[r] = "tables"
  BY AtStatement DEF SearchTables
<1>2. PICK T \in Found(StoredTables, TopK) : Learn(r, "tables", T, "columns")
  BY DEF SearchTables
<1>3. /\ CallsOK' /\ UNCHANGED <<call, before, clean>>
      /\ pc' = [pc EXCEPT ![r] = "columns"] /\ pc'[r] = "columns"
      /\ \A q \in Request \ {r} : reads'[q] = reads[q] /\ pc'[q] = pc[q]
      /\ DOMAIN reads'[r] = {"tables"} \cup DOMAIN reads[r]
      /\ reads'[r]["tables"] = T
      /\ \A x \in DOMAIN reads[r] : x # "tables" => reads'[r][x] = reads[r][x]
  BY <1>1, <1>2, Learned
<1>4. UNCHANGED <<stored, fks, queries, mappings>>
  BY DEF SearchTables, tables, catalog
<1>5. IdleOK(r) /\ HistoryOK(r) /\ SubschemaOK(r)
  BY <1>1 DEF RequestOK
<1>6. T \subseteq Table
  BY DEF Found, StoredTables
<1>7. SubschemaOK(r)'
  BY <1>1, <1>3, <1>5, <1>6 DEF SubschemaOK
<1>8. RequestOK(r)'
  BY <1>1, <1>3, <1>4, <1>5, <1>7, SubschemaOnly
<1>9. /\ "columns" \in PC /\ "upsert" \notin DOMAIN reads'[r]
      /\ DOMAIN reads'[r] \subseteq PC \cup {"similar", "relations"}
  BY <1>1, <1>3, <1>5 DEF SubschemaOK, PC
<1> QED
  BY <1>1, <1>3, <1>4, <1>8, <1>9, StepInv

LEMMA SearchColumnsInv ==
  ASSUME IInv, NEW r \in Request, SearchColumns(r)
  PROVE  IInv'
<1>1. /\ RequestOK(r) /\ CallsOK /\ pc \in [Request -> PC]
      /\ call[r].op = "subschema" /\ pc[r] = "columns"
  BY AtStatement DEF SearchColumns
<1>2. PICK C \in Found(StoredColumns, TopK) : Learn(r, "columns", C, "listed")
  BY DEF SearchColumns
<1>3. /\ CallsOK' /\ UNCHANGED <<call, before, clean>>
      /\ pc' = [pc EXCEPT ![r] = "listed"] /\ pc'[r] = "listed"
      /\ \A q \in Request \ {r} : reads'[q] = reads[q] /\ pc'[q] = pc[q]
      /\ DOMAIN reads'[r] = {"columns"} \cup DOMAIN reads[r]
      /\ reads'[r]["columns"] = C
      /\ \A x \in DOMAIN reads[r] : x # "columns" => reads'[r][x] = reads[r][x]
  BY <1>1, <1>2, Learned
<1>4. UNCHANGED <<stored, fks, queries, mappings>>
  BY DEF SearchColumns, tables, catalog
<1>5. IdleOK(r) /\ HistoryOK(r) /\ SubschemaOK(r)
  BY <1>1 DEF RequestOK
<1>6. C \subseteq Column
  BY DEF Found, StoredColumns
<1>7. "tables" \in DOMAIN reads[r] /\ reads[r].tables \subseteq Table
  BY <1>1, <1>5 DEF SubschemaOK
<1>8. reads'[r].tables = reads[r].tables
  BY <1>3, <1>7
<1>9. SubschemaOK(r)'
  BY <1>1, <1>3, <1>5, <1>6, <1>7, <1>8 DEF SubschemaOK
<1>10. RequestOK(r)'
  BY <1>1, <1>3, <1>4, <1>5, <1>9, SubschemaOnly
<1>11. /\ "listed" \in PC /\ "upsert" \notin DOMAIN reads'[r]
       /\ DOMAIN reads'[r] \subseteq PC \cup {"similar", "relations"}
  BY <1>1, <1>3, <1>5 DEF SubschemaOK, PC
<1> QED
  BY <1>1, <1>3, <1>4, <1>10, <1>11, StepInv

(* Every column the tables found had, and others of tables found only.     *)
LEMMA GetTableColumnsInv ==
  ASSUME IInv, NEW r \in Request, GetTableColumns(r)
  PROVE  IInv'
<1> DEFINE K == TableKeys(reads[r])
           L == ColumnsByName(K)
<1>1. /\ RequestOK(r) /\ CallsOK /\ pc \in [Request -> PC]
      /\ call[r].op = "subschema" /\ pc[r] = "listed"
  BY AtStatement DEF GetTableColumns
<1>2. Learn(r, "listed", L, "paths")
  BY DEF GetTableColumns
<1>3. /\ CallsOK' /\ UNCHANGED <<call, before, clean>>
      /\ pc' = [pc EXCEPT ![r] = "paths"] /\ pc'[r] = "paths"
      /\ \A q \in Request \ {r} : reads'[q] = reads[q] /\ pc'[q] = pc[q]
      /\ DOMAIN reads'[r] = {"listed"} \cup DOMAIN reads[r]
      /\ reads'[r]["listed"] = L
      /\ \A x \in DOMAIN reads[r] : x # "listed" => reads'[r][x] = reads[r][x]
  <2> HIDE DEF L
  <2> QED
    BY <1>1, <1>2, Learned
<1>4. UNCHANGED <<stored, fks, queries, mappings>>
  BY DEF GetTableColumns, tables, catalog
<1>5. IdleOK(r) /\ HistoryOK(r) /\ SubschemaOK(r)
  BY <1>1 DEF RequestOK
<1>6. /\ "tables" \in DOMAIN reads[r] /\ reads[r].tables \subseteq Table
      /\ "columns" \in DOMAIN reads[r] /\ reads[r].columns \subseteq Column
  BY <1>1, <1>5 DEF SubschemaOK
<1>7. reads'[r].tables = reads[r].tables /\ reads'[r].columns = reads[r].columns
  BY <1>3, <1>6
<1>8. TableKeys(reads[r])' = K
  BY <1>7 DEF TableKeys
<1>9. ListedOK(r)'
  <2> SUFFICES ASSUME NEW t \in reads[r].tables
               PROVE  /\ Shown[t] = t => \A c \in Column :
                           TableOf[c] = t /\ c \in before[r].stored => c \in L[Name[t]]
                      /\ \A c \in L[Name[Shown[t]]] :
                           /\ c \in stored \cap Column
                           /\ TableOf[c] \in K /\ Name[TableOf[c]] = Name[Shown[t]]
    <3> HIDE DEF L, K
    <3>1. TableKeys(reads'[r]) = K
      BY <1>8
    <3>2. reads'[r].listed = L
      BY <1>3
    <3> QED
      BY <1>3, <1>4, <1>7, <3>1, <3>2 DEF ListedOK
  <2>1. PICK a : a = Shown[t]
    OBVIOUS
  <2>2. a \in K
    BY <2>1 DEF TableKeys
  <2>3. L[Name[a]] = {c \in StoredColumns : TableOf[c] \in K /\ Name[TableOf[c]] = Name[a]}
    <3> HIDE DEF K
    <3> QED
      BY <2>2 DEF ColumnsByName
  <2>4. before[r].stored \subseteq stored
    BY <1>5 DEF HistoryOK
  <2> HIDE DEF K, L
  <2>5. \A c \in L[Name[a]] :
          c \in stored \cap Column /\ TableOf[c] \in K /\ Name[TableOf[c]] = Name[a]
    BY <2>3 DEF StoredColumns
  <2>6. ASSUME a = t, NEW c \in Column, TableOf[c] = t, c \in before[r].stored
        PROVE  c \in L[Name[t]]
    BY <2>2, <2>3, <2>4, <2>6 DEF StoredColumns
  <2> QED
    BY <2>1, <2>5, <2>6
<1> HIDE DEF L, K
<1>10. SubschemaOK(r)'
  BY <1>1, <1>3, <1>5, <1>6, <1>7, <1>9 DEF SubschemaOK
<1>11. RequestOK(r)'
  BY <1>1, <1>3, <1>4, <1>5, <1>10, SubschemaOnly
<1>12. /\ "paths" \in PC /\ "upsert" \notin DOMAIN reads'[r]
       /\ DOMAIN reads'[r] \subseteq PC \cup {"similar", "relations"}
  BY <1>1, <1>3, <1>5 DEF SubschemaOK, PC
<1> QED
  BY <1>1, <1>3, <1>4, <1>11, <1>12, StepInv
LEMMA FindFkPathsInv ==
  ASSUME IInv, NEW r \in Request, FindFkPaths(r)
  PROVE  IInv'
<1>1. /\ RequestOK(r) /\ CallsOK /\ pc \in [Request -> PC]
      /\ call[r].op = "subschema" /\ pc[r] = "paths"
  BY AtStatement DEF FindFkPaths
<1>2. /\ pc' = [pc EXCEPT ![r] = "keys"] /\ pc'[r] = "keys"
      /\ UNCHANGED <<stored, fks, queries, mappings, call, reads, before, clean>>
  BY <1>1 DEF FindFkPaths, Goto, tables, catalog, history
<1>3. CallsOK'
  BY <1>1, <1>2 DEF CallsOK, PerRequest
<1>4. IdleOK(r) /\ HistoryOK(r) /\ SubschemaOK(r)
  BY <1>1 DEF RequestOK
<1>5. ListedOK(r)' <=> ListedOK(r)
  BY <1>2 DEF ListedOK, TableKeys
<1>6. SubschemaOK(r)'
  BY <1>1, <1>2, <1>4, <1>5 DEF SubschemaOK
<1>7. RequestOK(r)'
  BY <1>1, <1>2, <1>4, <1>6, SubschemaOnly
<1>8. /\ "keys" \in PC /\ "upsert" \notin DOMAIN reads'[r]
      /\ DOMAIN reads'[r] \subseteq PC \cup {"similar", "relations"}
  BY <1>1, <1>2, <1>4 DEF SubschemaOK, PC
<1> QED
  BY <1>1, <1>2, <1>3, <1>7, <1>8, StepInv

(* The keys are read last: of the tables found, those there were.          *)
LEMMA GetFkDetailsInv ==
  ASSUME IInv, NEW r \in Request, GetFkDetails(r)
  PROVE  IInv'
<1> DEFINE K == TableKeys(reads[r])
           F == FksAmong(K)
<1>1. /\ RequestOK(r) /\ CallsOK /\ pc \in [Request -> PC]
      /\ call[r].op = "subschema" /\ pc[r] = "keys"
  BY AtStatement DEF GetFkDetails
<1>2. Learn(r, "keys", F, "done")
  BY DEF GetFkDetails
<1>3. /\ CallsOK' /\ UNCHANGED <<call, before, clean>>
      /\ pc' = [pc EXCEPT ![r] = "done"] /\ pc'[r] = "done"
      /\ \A q \in Request \ {r} : reads'[q] = reads[q] /\ pc'[q] = pc[q]
      /\ DOMAIN reads'[r] = {"keys"} \cup DOMAIN reads[r]
      /\ reads'[r]["keys"] = F
      /\ \A x \in DOMAIN reads[r] : x # "keys" => reads'[r][x] = reads[r][x]
  <2> HIDE DEF F
  <2> QED
    BY <1>1, <1>2, Learned
<1>4. UNCHANGED <<stored, fks, queries, mappings>>
  BY DEF GetFkDetails, tables, catalog
<1>5. IdleOK(r) /\ HistoryOK(r) /\ SubschemaOK(r)
  BY <1>1 DEF RequestOK
<1>6. /\ "tables" \in DOMAIN reads[r] /\ reads[r].tables \subseteq Table
      /\ "columns" \in DOMAIN reads[r] /\ reads[r].columns \subseteq Column
      /\ "listed" \in DOMAIN reads[r] /\ ListedOK(r)
  BY <1>1, <1>5 DEF SubschemaOK
<1>7. /\ reads'[r].tables = reads[r].tables /\ reads'[r].columns = reads[r].columns
      /\ reads'[r].listed = reads[r].listed
  BY <1>3, <1>6
<1>8. TableKeys(reads[r])' = K
  BY <1>7 DEF TableKeys
<1>9. ListedOK(r)'
  <2> HIDE DEF K, F
  <2> DEFINE K0 == TableKeys(reads[r])
  <2>1. K0 = K
    BY DEF K
  <2>2. TableKeys(reads'[r]) = K0
    BY <1>8, <2>1
  <2> HIDE DEF K0
  <2>3. \A t \in reads[r].tables :
          /\ Shown[t] = t => \A c \in Column :
               TableOf[c] = t /\ c \in before[r].stored => c \in reads[r].listed[Name[t]]
          /\ \A c \in reads[r].listed[Name[Shown[t]]] :
               /\ c \in stored \cap Column
               /\ TableOf[c] \in K0 /\ Name[TableOf[c]] = Name[Shown[t]]
    BY <1>6 DEF ListedOK, K0
  <2> QED
    BY <1>3, <1>4, <1>7, <2>2, <2>3 DEF ListedOK
<1>10. KeysOK(r)'
  <2>1. before[r].fks \subseteq fks
    BY <1>5 DEF HistoryOK
  <2>2. Among(before[r].fks, K) \subseteq F /\ F \subseteq Among(fks, K)
    <3> HIDE DEF K
    <3> QED
      BY <2>1 DEF Among, FksAmong
  <2>3. TableKeys(reads'[r]) = K /\ reads'[r].keys = F
    BY <1>3, <1>8
  <2> HIDE DEF K, F
  <2> QED
    BY <1>3, <1>4, <2>2, <2>3 DEF KeysOK, Among
<1> HIDE DEF F, K
<1>11. SubschemaOK(r)'
  BY <1>1, <1>3, <1>5, <1>6, <1>7, <1>9, <1>10 DEF SubschemaOK
<1>12. RequestOK(r)'
  BY <1>1, <1>3, <1>4, <1>5, <1>11, SubschemaOnly
<1>13. /\ "done" \in PC /\ "upsert" \notin DOMAIN reads'[r]
       /\ DOMAIN reads'[r] \subseteq PC \cup {"similar", "relations"}
  BY <1>1, <1>3, <1>5 DEF SubschemaOK, PC
<1> QED
  BY <1>1, <1>3, <1>4, <1>12, <1>13, StepInv
---------------------------------------------------------------------------
(* LIMIT, and the rows it is applied to.                                   *)

LEMMA FirstOfOK ==
  ASSUME NEW S, IsFiniteSet(S), NEW k \in Nat, NEW T \in FirstOf(S, k)
  PROVE  /\ T \subseteq S /\ IsFiniteSet(T) /\ Cardinality(T) \in Nat
         /\ Cardinality(T) <= k /\ (T = S \/ Cardinality(T) = k)
<1>1. T \in SUBSET S
  BY DEF FirstOf
<1>2. IsFiniteSet(T) /\ (Cardinality(S) = Cardinality(T) => S = T)
  BY <1>1, FS_Subset
<1>3. Cardinality(S) \in Nat /\ Cardinality(T) \in Nat
  BY <1>2, FS_CardinalityType
<1>4. Cardinality(T) = IF Cardinality(S) <= k THEN Cardinality(S) ELSE k
  BY DEF FirstOf
<1>5. CASE Cardinality(S) <= k
  BY <1>1, <1>2, <1>3, <1>4, <1>5
<1>6. CASE ~(Cardinality(S) <= k)
  BY <1>1, <1>2, <1>3, <1>4, <1>6
<1> QED
  BY <1>5, <1>6

LEMMA ImageFinite ==
  ASSUME NEW S, IsFiniteSet(S), NEW f, f = [x \in S |-> f[x]], NEW T, T = {f[x] : x \in S}
  PROVE  IsFiniteSet(T)
<1>1. f \in Surjection(S, T)
  BY DEF Surjection
<1> QED
  BY <1>1, FS_Surjection

LEMMA FksFinite ==
  ASSUME IInv
  PROVE  IsFiniteSet(fks) /\ fks \subseteq Fk
<1>1. IsFiniteSet(Column)
  BY ReadsAssumption
<1>2. IsFiniteSet(Column \X Column)
  BY <1>1, FS_Product
<1>3. fks \subseteq Fk
  BY DEF IInv, TypeOK, Closed
<1>4. Fk \subseteq Column \X Column
  BY ReadsAssumption
<1>5. fks \in SUBSET (Column \X Column)
  BY <1>3, <1>4
<1> QED
  BY <1>2, <1>3, <1>5, FS_Subset

LEMMA ForwardFinite ==
  ASSUME NEW F, IsFiniteSet(F), NEW n
  PROVE  IsFiniteSet(Forward(n, F))
<1> DEFINE S == {g \in F : TableOf[g[1]] \in Answering(n)}
           f == [g \in S |-> Row("foreign_key", g[1], g[2])]
<1>1. IsFiniteSet(S)
  <2>1. S \in SUBSET F
    OBVIOUS
  <2> HIDE DEF S
  <2> QED
    BY <2>1, FS_Subset
<1>2. Forward(n, F) = {f[g] : g \in S}
  <2>1. \A g \in S : f[g] = Row("foreign_key", g[1], g[2])
    OBVIOUS
  <2>2. Forward(n, F) = {Row("foreign_key", g[1], g[2]) : g \in S}
    BY DEF Forward
  <2> HIDE DEF f, S
  <2> QED
    BY <2>1, <2>2
<1>3. f = [g \in S |-> f[g]]
  OBVIOUS
<1> HIDE DEF f, S
<1> QED
  BY <1>1, <1>2, <1>3, ImageFinite

LEMMA ReverseFinite ==
  ASSUME NEW F, IsFiniteSet(F), NEW n
  PROVE  IsFiniteSet(Reverse(n, F))
<1> DEFINE S == {g \in F : TableOf[g[2]] \in Answering(n)}
           f == [g \in S |-> Row("referenced_by", g[2], g[1])]
<1>1. IsFiniteSet(S)
  <2>1. S \in SUBSET F
    OBVIOUS
  <2> HIDE DEF S
  <2> QED
    BY <2>1, FS_Subset
<1>2. Reverse(n, F) = {f[g] : g \in S}
  <2>1. \A g \in S : f[g] = Row("referenced_by", g[2], g[1])
    OBVIOUS
  <2>2. Reverse(n, F) = {Row("referenced_by", g[2], g[1]) : g \in S}
    BY DEF Reverse
  <2> HIDE DEF f, S
  <2> QED
    BY <2>1, <2>2
<1>3. f = [g \in S |-> f[g]]
  OBVIOUS
<1> HIDE DEF f, S
<1> QED
  BY <1>1, <1>2, <1>3, ImageFinite

LEMMA NeighboursFinite ==
  ASSUME NEW n
  PROVE  IsFiniteSet(Neighbours(n))
<1> DEFINE S == {e \in StoredTables \X StoredTables :
                   /\ e[1] \in Answering(n) /\ e[1] # e[2]
                   /\ \E f \in fks : {TableOf[f[1]], TableOf[f[2]]} = {e[1], e[2]}}
           f == [e \in S |-> Name[Shown[e[2]]]]
<1>1. IsFiniteSet(S)
  <2>1. S \in SUBSET (Table \X Table)
    BY DEF StoredTables
  <2>2. IsFiniteSet(Table)
    BY ReadsAssumption
  <2> HIDE DEF S
  <2> QED
    BY <2>1, <2>2, FS_Product, FS_Subset
<1>2. Neighbours(n) = {f[e] : e \in S}
  <2>1. \A e \in S : f[e] = Name[Shown[e[2]]]
    OBVIOUS
  <2>2. Neighbours(n) = {Name[Shown[e[2]]] : e \in S}
    BY DEF Neighbours
  <2> HIDE DEF f, S
  <2> QED
    BY <2>1, <2>2
<1>3. f = [e \in S |-> f[e]]
  OBVIOUS
<1> HIDE DEF f, S
<1> QED
  BY <1>1, <1>2, <1>3, ImageFinite

(* The two directions have no row in common.                               *)
LEMMA RowTypes ==
  ASSUME NEW F, NEW n
  PROVE  /\ \A y \in Forward(n, F) : y.type = "foreign_key"
         /\ \A y \in Reverse(n, F) : y.type = "referenced_by"
  BY DEF Forward, Reverse, Row

LEMMA RowsGrow ==
  ASSUME NEW G, NEW F, F \subseteq G, NEW n
  PROVE  Forward(n, F) \subseteq Forward(n, G) /\ Reverse(n, F) \subseteq Reverse(n, G)
  BY DEF Forward, Reverse

LEMMA DetailsOnly ==
  ASSUME NEW r \in Request, IdleOK(r), HistoryOK(r), call[r].op = "details",
         UNCHANGED <<call[r], before[r], stored, fks, queries, clean>>,
         pc'[r] # "idle", DetailsOK(r)'
  PROVE  RequestOK(r)'
<1>1. call'[r].op = "details"
  OBVIOUS
<1>2. IdleOK(r)'
  BY <1>1 DEF IdleOK
<1>3. HistoryOK(r)'
  BY DEF HistoryOK
<1>4. SubschemaOK(r)' /\ SimilarOK(r)' /\ SaveOK(r)'
  BY <1>1 DEF SubschemaOK, SimilarOK, SaveOK
<1> QED
  BY <1>2, <1>3, <1>4 DEF RequestOK
(* All keys of the table, or the limit is reached.                         *)
LEMMA FetchForwardInv ==
  ASSUME IInv, NEW r \in Request, FetchForward(r)
  PROVE  IInv'
<1> DEFINE n == call[r].name
           k == call[r].limit
<1>1. /\ RequestOK(r) /\ CallsOK /\ pc \in [Request -> PC]
      /\ call[r].op = "details" /\ pc[r] = "forward"
  BY AtStatement DEF FetchForward
<1>2. PICK S \in FirstOf(Forward(n, fks), k) :
        Learn(r, "relations", S, IF Cardinality(S) < k THEN "reverse" ELSE "done")
  BY DEF FetchForward
<1>3. PICK m : m = IF Cardinality(S) < k THEN "reverse" ELSE "done"
  OBVIOUS
<1>4. /\ CallsOK' /\ UNCHANGED <<call, before, clean>>
      /\ pc' = [pc EXCEPT ![r] = m] /\ pc'[r] = m
      /\ \A q \in Request \ {r} : reads'[q] = reads[q] /\ pc'[q] = pc[q]
      /\ DOMAIN reads'[r] = {"relations"} \cup DOMAIN reads[r]
      /\ reads'[r]["relations"] = S
      /\ \A x \in DOMAIN reads[r] : x # "relations" => reads'[r][x] = reads[r][x]
  <2>1. Learn(r, "relations", S, m)
    BY <1>2, <1>3
  <2> QED
    BY <1>1, <2>1, Learned
<1>5. UNCHANGED <<stored, fks, queries, mappings>>
  BY DEF FetchForward, tables, catalog
<1>6. IdleOK(r) /\ HistoryOK(r) /\ DetailsOK(r)
  BY <1>1 DEF RequestOK
<1>7. k \in Nat /\ DOMAIN reads[r] = {}
  BY <1>1, <1>6 DEF DetailsOK
<1>8. /\ S \subseteq Forward(n, fks) /\ IsFiniteSet(S) /\ Cardinality(S) \in Nat
      /\ Cardinality(S) <= k /\ (S = Forward(n, fks) \/ Cardinality(S) = k)
  <2>1. IsFiniteSet(Forward(n, fks))
    BY FksFinite, ForwardFinite
  <2> HIDE DEF n, k
  <2> QED
    BY <1>2, <1>7, <2>1, FirstOfOK
<1>9. \A y \in S : y.type = "foreign_key"
  BY <1>8, RowTypes
<1>10. Cardinality(S) < k => Forward(n, before[r].fks) \subseteq S
  <2>1. Forward(n, before[r].fks) \subseteq Forward(n, fks)
    BY <1>6, RowsGrow DEF HistoryOK
  <2> QED
    BY <1>7, <1>8, <2>1
<1>11. /\ DOMAIN reads'[r] = {"relations"} /\ reads'[r].relations = S
       /\ call'[r] = call[r] /\ before'[r] = before[r]
  BY <1>4, <1>7
<1> HIDE DEF n, k
<1>12. ASSUME Cardinality(S) < k
       PROVE  DetailsOK(r)'
  <2>1. pc'[r] = "reverse"
    BY <1>3, <1>4, <1>12
  <2> QED
    BY <1>1, <1>5, <1>6, <1>7, <1>8, <1>9, <1>10, <1>11, <1>12, <2>1 DEF DetailsOK, n, k
<1>13. ASSUME ~(Cardinality(S) < k)
       PROVE  DetailsOK(r)'
  <2>1. pc'[r] = "done"
    BY <1>3, <1>4, <1>13
  <2>2. Listed(r)' = S /\ Added(r)' = {}
    BY <1>11 DEF Listed, Added
  <2>3. KeptOK(r)'
    <3>1. Cardinality({}) = 0
      BY FS_EmptySet
    <3>2. call'[r].limit = k
      BY <1>11 DEF k
    <3>3. Cardinality(S) + Cardinality({}) <= k
      BY <1>7, <1>8, <3>1
    <3> QED
      BY <1>13, <2>2, <3>2, <3>3 DEF KeptOK
  <2> QED
    BY <1>1, <1>7, <1>11, <2>1, <2>3 DEF DetailsOK, k
<1>14. DetailsOK(r)'
  BY <1>12, <1>13
<1>15. /\ m \in PC /\ m # "idle" /\ "upsert" \notin DOMAIN reads'[r]
       /\ DOMAIN reads'[r] \subseteq PC \cup {"similar", "relations"}
  BY <1>3, <1>11 DEF PC
<1>16. RequestOK(r)'
  BY <1>1, <1>4, <1>5, <1>6, <1>14, <1>15, DetailsOnly
<1> QED
  BY <1>1, <1>4, <1>5, <1>15, <1>16, StepInv

(* The rows of the other direction are new ones.                           *)
LEMMA FetchReverseInv ==
  ASSUME IInv, NEW r \in Request, FetchReverse(r)
  PROVE  IInv'
<1> DEFINE n == call[r].name
           k == call[r].limit
           found == reads[r].relations
<1>1. /\ RequestOK(r) /\ CallsOK /\ pc \in [Request -> PC]
      /\ call[r].op = "details" /\ pc[r] = "reverse"
  BY AtStatement DEF FetchReverse
<1>2. PICK S \in FirstOf(Reverse(n, fks), Room(r, found)) :
        Learn(r, "relations", found \cup S,
              IF Cardinality(found \cup S) < k THEN "any" ELSE "done")
  BY DEF FetchReverse
<1>3. PICK T : T = found \cup S
  OBVIOUS
<1>4. PICK m : m = IF Cardinality(T) < k THEN "any" ELSE "done"
  OBVIOUS
<1>5. /\ CallsOK' /\ UNCHANGED <<call, before, clean>>
      /\ pc' = [pc EXCEPT ![r] = m] /\ pc'[r] = m
      /\ \A q \in Request \ {r} : reads'[q] = reads[q] /\ pc'[q] = pc[q]
      /\ DOMAIN reads'[r] = {"relations"} \cup DOMAIN reads[r]
      /\ reads'[r]["relations"] = T
      /\ \A x \in DOMAIN reads[r] : x # "relations" => reads'[r][x] = reads[r][x]
  <2>1. Learn(r, "relations", T, m)
    BY <1>2, <1>3, <1>4
  <2> QED
    BY <1>1, <2>1, Learned
<1>6. UNCHANGED <<stored, fks, queries, mappings>>
  BY DEF FetchReverse, tables, catalog
<1>7. IdleOK(r) /\ HistoryOK(r) /\ DetailsOK(r)
  BY <1>1 DEF RequestOK
<1>8. /\ k \in Nat /\ DOMAIN reads[r] = {"relations"}
      /\ IsFiniteSet(found) /\ Cardinality(found) < k
      /\ Forward(n, before[r].fks) \subseteq found
      /\ \A y \in found : y.type = "foreign_key"
  BY <1>1, <1>7 DEF DetailsOK
<1>9. Cardinality(found) \in Nat /\ Room(r, found) \in Nat
      /\ Room(r, found) = k - Cardinality(found)
  <2>1. Cardinality(found) \in Nat
    BY <1>8, FS_CardinalityType
  <2>2. Room(r, found) = k - Cardinality(found)
    BY DEF Room
  <2> QED
    BY <1>8, <2>1, <2>2
<1>10. /\ S \subseteq Reverse(n, fks) /\ IsFiniteSet(S) /\ Cardinality(S) \in Nat
       /\ Cardinality(S) <= Room(r, found)
       /\ (S = Reverse(n, fks) \/ Cardinality(S) = Room(r, found))
  <2>1. IsFiniteSet(Reverse(n, fks))
    BY FksFinite, ReverseFinite
  <2>2. PICK j \in Nat : j = Room(r, found)
    BY <1>9
  <2> HIDE DEF n, k, found
  <2> QED
    BY <1>2, <2>1, <2>2, FirstOfOK
<1>11. found \cap S = {}
  BY <1>8, <1>10, RowTypes
<1>12. IsFiniteSet(T) /\ Cardinality(T) = Cardinality(found) + Cardinality(S)
  <2>1. /\ IsFiniteSet(found \cup S)
        /\ Cardinality(found \cup S) =
             Cardinality(found) + Cardinality(S) - Cardinality(found \cap S)
    <3> HIDE DEF found
    <3> QED
      BY <1>8, <1>10, FS_Union
  <2>2. Cardinality(found \cap S) = 0
    BY <1>11, FS_EmptySet
  <2> QED
    BY <1>3, <1>9, <1>10, <2>1, <2>2
<1>13. Cardinality(T) \in Nat /\ Cardinality(T) <= k
       /\ (Cardinality(T) < k => Cardinality(S) # Room(r, found))
  <2> HIDE DEF k, found
  <2> QED
    BY <1>8, <1>9, <1>10, <1>12
<1>14. Cardinality(T) < k => Had(r) \subseteq T
  <2>1. Reverse(n, before[r].fks) \subseteq Reverse(n, fks)
    BY <1>7, RowsGrow DEF HistoryOK
  <2>2. Had(r) = Forward(n, before[r].fks) \cup Reverse(n, before[r].fks)
    BY DEF Had
  <2> HIDE DEF n, k, found
  <2> QED
    BY <1>3, <1>8, <1>10, <1>13, <2>1, <2>2
<1>15. /\ DOMAIN reads'[r] = {"relations"} /\ reads'[r].relations = T
       /\ call'[r] = call[r] /\ before'[r] = before[r]
  BY <1>5, <1>8
<1>16. Had(r)' = Had(r)
  BY <1>15 DEF Had
<1>17. Forward(n, before[r].fks) \subseteq T
  BY <1>3, <1>8
<1> HIDE DEF n, k, found
<1>18. ASSUME Cardinality(T) < k
       PROVE  DetailsOK(r)'
  <2>1. pc'[r] = "any"
    BY <1>4, <1>5, <1>18
  <2> QED
    BY <1>1, <1>8, <1>12, <1>14, <1>15, <1>16, <1>17, <1>18, <2>1 DEF DetailsOK, n, k
<1>19. ASSUME ~(Cardinality(T) < k)
       PROVE  DetailsOK(r)'
  <2>1. pc'[r] = "done"
    BY <1>4, <1>5, <1>19
  <2>2. Listed(r)' = T /\ Added(r)' = {}
    BY <1>15 DEF Listed, Added
  <2>3. KeptOK(r)'
    <3>1. Cardinality({}) = 0
      BY FS_EmptySet
    <3>2. call'[r].limit = k
      BY <1>15 DEF k
    <3>3. Cardinality(T) + Cardinality({}) <= k
      BY <1>8, <1>13, <3>1
    <3> QED
      BY <1>19, <2>2, <3>2, <3>3 DEF KeptOK
  <2> QED
    BY <1>1, <1>8, <1>15, <2>1, <2>3 DEF DetailsOK, k
<1>20. DetailsOK(r)'
  BY <1>18, <1>19
<1>21. /\ m \in PC /\ m # "idle" /\ "upsert" \notin DOMAIN reads'[r]
       /\ DOMAIN reads'[r] \subseteq PC \cup {"similar", "relations"}
  BY <1>4, <1>15 DEF PC
<1>22. RequestOK(r)'
  BY <1>1, <1>5, <1>6, <1>7, <1>20, <1>21, DetailsOnly
<1> QED
  BY <1>1, <1>5, <1>6, <1>21, <1>22, StepInv

(* The additional tables are none of those listed.                         *)
LEMMA FetchAnyInv ==
  ASSUME IInv, NEW r \in Request, FetchAny(r)
  PROVE  IInv'
<1> DEFINE k == call[r].limit
           found == reads[r].relations
           N == Neighbours(call[r].name) \ {x.table : x \in found}
<1>1. /\ RequestOK(r) /\ CallsOK /\ pc \in [Request -> PC]
      /\ call[r].op = "details" /\ pc[r] = "any"
  BY AtStatement DEF FetchAny
<1>2. PICK S \in FirstOf(N, Room(r, found)) : Learn(r, "any", S, "done")
  BY DEF FetchAny
<1>3. /\ CallsOK' /\ UNCHANGED <<call, before, clean>>
      /\ pc' = [pc EXCEPT ![r] = "done"] /\ pc'[r] = "done"
      /\ \A q \in Request \ {r} : reads'[q] = reads[q] /\ pc'[q] = pc[q]
      /\ DOMAIN reads'[r] = {"any"} \cup DOMAIN reads[r]
      /\ reads'[r]["any"] = S
      /\ \A x \in DOMAIN reads[r] : x # "any" => reads'[r][x] = reads[r][x]
  BY <1>1, <1>2, Learned
<1>4. UNCHANGED <<stored, fks, queries, mappings>>
  BY DEF FetchAny, tables, catalog
<1>5. IdleOK(r) /\ HistoryOK(r) /\ DetailsOK(r)
  BY <1>1 DEF RequestOK
<1>6. /\ k \in Nat /\ DOMAIN reads[r] = {"relations"}
      /\ IsFiniteSet(found) /\ Cardinality(found) < k
      /\ Had(r) \subseteq found
  BY <1>1, <1>5 DEF DetailsOK
<1>7. Cardinality(found) \in Nat /\ Room(r, found) \in Nat
      /\ Room(r, found) = k - Cardinality(found)
  <2>1. Cardinality(found) \in Nat
    BY <1>6, FS_CardinalityType
  <2>2. Room(r, found) = k - Cardinality(found)
    BY DEF Room
  <2> QED
    BY <1>6, <2>1, <2>2
<1>8. /\ S \subseteq N /\ Cardinality(S) \in Nat /\ Cardinality(S) <= Room(r, found)
  <2>1. IsFiniteSet(N)
    BY NeighboursFinite, FS_Difference
  <2>2. PICK j \in Nat : j = Room(r, found)
    BY <1>7
  <2> HIDE DEF N, found
  <2> QED
    BY <1>2, <2>1, <2>2, FirstOfOK
<1>9. \A m \in S : \A x \in found : x.table # m
  BY <1>8
<1>10. /\ DOMAIN reads'[r] = {"relations", "any"}
       /\ reads'[r].relations = found /\ reads'[r].any = S
       /\ call'[r] = call[r] /\ before'[r] = before[r]
  BY <1>3, <1>6
<1>11. Had(r)' = Had(r)
  BY <1>10 DEF Had
<1>12. Listed(r)' = found /\ Added(r)' = S
  BY <1>10 DEF Listed, Added
<1>13. KeptOK(r)'
  <2>1. call'[r].limit = k
    BY <1>10
  <2> HIDE DEF found, k, N
  <2>2. Cardinality(found) + Cardinality(S) <= k
    BY <1>6, <1>7, <1>8
  <2> QED
    BY <1>6, <1>9, <1>11, <1>12, <2>1, <2>2 DEF KeptOK
<1>14. DetailsOK(r)'
  <2> HIDE DEF found, N
  <2> QED
    BY <1>1, <1>3, <1>6, <1>10, <1>13 DEF DetailsOK
<1>15. /\ "done" \in PC /\ "upsert" \notin DOMAIN reads'[r]
       /\ DOMAIN reads'[r] \subseteq PC \cup {"similar", "relations"}
  BY <1>10 DEF PC
<1>16. RequestOK(r)'
  BY <1>1, <1>3, <1>4, <1>5, <1>14, DetailsOnly
<1> QED
  BY <1>1, <1>3, <1>4, <1>15, <1>16, StepInv
---------------------------------------------------------------------------
(* The searches for similar queries.                                       *)

LEMMA SearchedNow ==
  ASSUME NEW r \in Request, HistoryOK(r), NEW field, NEW S \in SUBSET Eligible(queries, field)
  PROVE  SearchedOK(r, Hits(S, field), field)
<1>1. Hits(S, field) = HitsOf(queries, S, field)
  BY DEF Hits, HitsOf
<1>2. clean[r] => queries = before[r].queries
  BY DEF HistoryOK
<1> QED
  BY <1>1, <1>2 DEF SearchedOK

LEMMA SearchedStays ==
  ASSUME NEW r \in Request, NEW h, NEW f, SearchedOK(r, h, f), UNCHANGED <<before, clean>>
  PROVE  SearchedOK(r, h, f)'
  BY DEF SearchedOK

LEMMA SimilarOnly ==
  ASSUME NEW r \in Request, IdleOK(r), HistoryOK(r), call[r].op = "similar",
         UNCHANGED <<call[r], before[r], stored, fks, queries, clean>>,
         pc'[r] # "idle", SimilarOK(r)'
  PROVE  RequestOK(r)'
<1>1. call'[r].op = "similar"
  OBVIOUS
<1>2. IdleOK(r)'
  BY <1>1 DEF IdleOK
<1>3. HistoryOK(r)'
  BY DEF HistoryOK
<1>4. SubschemaOK(r)' /\ DetailsOK(r)' /\ SaveOK(r)'
  BY <1>1 DEF SubschemaOK, DetailsOK, SaveOK
<1> QED
  BY <1>2, <1>3, <1>4 DEF RequestOK

LEMMA SearchQuestionInv ==
  ASSUME IInv, NEW r \in Request, SearchQuestion(r)
  PROVE  IInv'
<1>1. /\ RequestOK(r) /\ CallsOK /\ pc \in [Request -> PC]
      /\ call[r].op = "similar" /\ pc[r] = "question"
  BY AtStatement DEF SearchQuestion
<1>2. UNCHANGED <<stored, fks, queries, mappings>>
  BY DEF SearchQuestion, tables, catalog
<1>3. IdleOK(r) /\ HistoryOK(r) /\ SimilarOK(r)
  BY <1>1 DEF RequestOK
<1>4. /\ call[r].intent \in BOOLEAN
      /\ DOMAIN reads[r] \subseteq {"question", "intent", "similar", "words", "parts"}
  BY <1>1, <1>3 DEF SimilarOK
<1>5. PICK S \in Found(Eligible(queries, "asked"), FetchK) :
        IF call[r].intent
        THEN Learn(r, "question", Hits(S, "asked"), "intent")
        ELSE \E A \in Top(FALSE, Hits(S, "asked"), <<>>) :
               GoesOn(r, With(With(reads[r], "question", Hits(S, "asked")), "similar", A),
                      AfterQueries(r))
  BY DEF SearchQuestion
<1>6. PICK asked : asked = Hits(S, "asked")
  OBVIOUS
<1>7. SearchedOK(r, asked, "asked")
  <2>1. S \in SUBSET Eligible(queries, "asked")
    BY DEF Found
  <2> QED
    BY <1>3, <1>6, <2>1, SearchedNow
<1>8. CASE call[r].intent
  <2>1. Learn(r, "question", asked, "intent")
    BY <1>5, <1>6, <1>8
  <2>2. /\ CallsOK' /\ UNCHANGED <<call, before, clean>>
        /\ pc' = [pc EXCEPT ![r] = "intent"] /\ pc'[r] = "intent"
        /\ \A q \in Request \ {r} : reads'[q] = reads[q] /\ pc'[q] = pc[q]
        /\ DOMAIN reads'[r] = {"question"} \cup DOMAIN reads[r]
        /\ reads'[r]["question"] = asked
        /\ \A x \in DOMAIN reads[r] : x # "question" => reads'[r][x] = reads[r][x]
    BY <1>1, <2>1, Learned
  <2>3. SearchedOK(r, asked, "asked")'
    BY <1>7, <2>2, SearchedStays
  <2>4. SimilarOK(r)'
    BY <1>1, <1>4, <1>8, <2>2, <2>3 DEF SimilarOK
  <2>5. RequestOK(r)'
    BY <1>1, <1>2, <1>3, <2>2, <2>4, SimilarOnly
  <2>6. /\ "intent" \in PC /\ "upsert" \notin DOMAIN reads'[r]
        /\ DOMAIN reads'[r] \subseteq PC \cup {"similar", "relations"}
    BY <1>4, <2>2 DEF PC
  <2> QED
    BY <1>1, <1>2, <2>2, <2>5, <2>6, StepInv
<1>9. CASE ~call[r].intent
  <2>1. PICK A \in Top(FALSE, asked, <<>>) :
          GoesOn(r, With(With(reads[r], "question", asked), "similar", A), AfterQueries(r))
    BY <1>5, <1>6, <1>9
  <2>2. PICK m : m = AfterQueries(r)
    OBVIOUS
  <2>3. m \in {"words", "done"}
    BY <2>2 DEF AfterQueries
  <2>4. /\ CallsOK' /\ UNCHANGED <<call, before, clean>>
        /\ pc' = [pc EXCEPT ![r] = m] /\ pc'[r] = m
        /\ \A q \in Request \ {r} : reads'[q] = reads[q] /\ pc'[q] = pc[q]
        /\ DOMAIN reads'[r] = {"question", "similar"} \cup DOMAIN reads[r]
        /\ reads'[r]["question"] = asked /\ reads'[r]["similar"] = A
    <3>1. PICK y : y = With(reads[r], "question", asked)
      OBVIOUS
    <3>2. PICK x : x = With(y, "similar", A)
      OBVIOUS
    <3>3. GoesOn(r, x, m)
      BY <2>1, <2>2, <3>1, <3>2
    <3>4. /\ CallsOK' /\ UNCHANGED <<call, before, clean>>
         /\ pc' = [pc EXCEPT ![r] = m] /\ pc'[r] = m /\ reads'[r] = x
         /\ \A q \in Request \ {r} : reads'[q] = reads[q] /\ pc'[q] = pc[q]
      BY <1>1, <3>3, WentOn
    <3>5. /\ DOMAIN y = {"question"} \cup DOMAIN reads[r] /\ y["question"] = asked
         /\ \A z \in DOMAIN reads[r] : z # "question" => y[z] = reads[r][z]
      BY <3>1 DEF With
    <3>6. /\ DOMAIN x = {"similar"} \cup DOMAIN y /\ x["similar"] = A
         /\ \A z \in DOMAIN y : z # "similar" => x[z] = y[z]
      BY <3>2 DEF With
    <3> QED
      BY <3>4, <3>5, <3>6
  <2>5. SearchedOK(r, asked, "asked")'
    BY <1>7, <2>4, SearchedStays
  <2>6. SimilarOK(r)'
    BY <1>1, <1>4, <1>9, <2>1, <2>3, <2>4, <2>5 DEF SimilarOK
  <2>7. /\ m \in PC /\ m # "idle" /\ "upsert" \notin DOMAIN reads'[r]
        /\ DOMAIN reads'[r] \subseteq PC \cup {"similar", "relations"}
    BY <1>4, <2>3, <2>4 DEF PC
  <2>8. RequestOK(r)'
    BY <1>1, <1>2, <1>3, <2>4, <2>6, <2>7, SimilarOnly
  <2> QED
    BY <1>1, <1>2, <2>4, <2>7, <2>8, StepInv
<1> QED
  BY <1>4, <1>8, <1>9

LEMMA SearchIntentInv ==
  ASSUME IInv, NEW r \in Request, SearchIntent(r)
  PROVE  IInv'
<1>1. /\ RequestOK(r) /\ CallsOK /\ pc \in [Request -> PC]
      /\ call[r].op = "similar" /\ pc[r] = "intent"
  BY AtStatement DEF SearchIntent
<1>2. UNCHANGED <<stored, fks, queries, mappings>>
  BY DEF SearchIntent, tables, catalog
<1>3. IdleOK(r) /\ HistoryOK(r) /\ SimilarOK(r)
  BY <1>1 DEF RequestOK
<1>4. /\ call[r].intent \in BOOLEAN /\ call[r].intent
      /\ DOMAIN reads[r] \subseteq {"question", "intent", "similar", "words", "parts"}
      /\ "question" \in DOMAIN reads[r] /\ SearchedOK(r, reads[r].question, "asked")
  BY <1>1, <1>3 DEF SimilarOK
<1>5. PICK S \in Found(Eligible(queries, "meant"), FetchK) :
        \E A \in Top(TRUE, reads[r].question, Hits(S, "meant")) :
          GoesOn(r, With(With(reads[r], "intent", Hits(S, "meant")), "similar", A),
                 AfterQueries(r))
  BY DEF SearchIntent
<1>6. PICK meant : meant = Hits(S, "meant")
  OBVIOUS
<1>7. SearchedOK(r, meant, "meant")
  <2>1. S \in SUBSET Eligible(queries, "meant")
    BY DEF Found
  <2> QED
    BY <1>3, <1>6, <2>1, SearchedNow
<1>8. PICK A \in Top(TRUE, reads[r].question, meant) :
        GoesOn(r, With(With(reads[r], "intent", meant), "similar", A), AfterQueries(r))
  BY <1>5, <1>6
<1>9. PICK m : m = AfterQueries(r)
  OBVIOUS
<1>10. m \in {"words", "done"}
  BY <1>9 DEF AfterQueries
<1>11. /\ CallsOK' /\ UNCHANGED <<call, before, clean>>
       /\ pc' = [pc EXCEPT ![r] = m] /\ pc'[r] = m
       /\ \A q \in Request \ {r} : reads'[q] = reads[q] /\ pc'[q] = pc[q]
       /\ DOMAIN reads'[r] = {"intent", "similar"} \cup DOMAIN reads[r]
       /\ reads'[r]["intent"] = meant /\ reads'[r]["similar"] = A
       /\ \A x \in DOMAIN reads[r] : x # "intent" /\ x # "similar" => reads'[r][x] = reads[r][x]
  <2>1. PICK y : y = With(reads[r], "intent", meant)
    OBVIOUS
  <2>2. PICK x : x = With(y, "similar", A)
    OBVIOUS
  <2>3. GoesOn(r, x, m)
    BY <1>8, <1>9, <2>1, <2>2
  <2>4. /\ CallsOK' /\ UNCHANGED <<call, before, clean>>
       /\ pc' = [pc EXCEPT ![r] = m] /\ pc'[r] = m /\ reads'[r] = x
       /\ \A q \in Request \ {r} : reads'[q] = reads[q] /\ pc'[q] = pc[q]
    BY <1>1, <2>3, WentOn
  <2>5. /\ DOMAIN y = {"intent"} \cup DOMAIN reads[r] /\ y["intent"] = meant
       /\ \A z \in DOMAIN reads[r] : z # "intent" => y[z] = reads[r][z]
    BY <2>1 DEF With
  <2>6. /\ DOMAIN x = {"similar"} \cup DOMAIN y /\ x["similar"] = A
       /\ \A z \in DOMAIN y : z # "similar" => x[z] = y[z]
    BY <2>2 DEF With
  <2> QED
    BY <2>4, <2>5, <2>6
<1>12. reads'[r].question = reads[r].question
  BY <1>4, <1>11
<1>13. SearchedOK(r, meant, "meant")'
  BY <1>7, <1>11, SearchedStays
<1>14. PICK asked : asked = reads[r].question
  OBVIOUS
<1>15. SearchedOK(r, asked, "asked")'
  BY <1>4, <1>11, <1>14, SearchedStays
<1>16. SimilarOK(r)'
  BY <1>1, <1>4, <1>8, <1>10, <1>11, <1>12, <1>13, <1>14, <1>15 DEF SimilarOK
<1>17. /\ m \in PC /\ m # "idle" /\ "upsert" \notin DOMAIN reads'[r]
       /\ DOMAIN reads'[r] \subseteq PC \cup {"similar", "relations"}
  BY <1>4, <1>10, <1>11 DEF PC
<1>18. RequestOK(r)'
  BY <1>1, <1>2, <1>3, <1>11, <1>16, <1>17, SimilarOnly
<1> QED
  BY <1>1, <1>2, <1>11, <1>17, <1>18, StepInv

(* The mappings are read after the answer is put together.                 *)
LEMMA MappingsRead ==
  ASSUME IInv, NEW r \in Request, call[r].op = "similar", pc[r] \in {"words", "parts"},
         NEW l \in {"words", "parts"}, NEW m \in {"parts", "done"},
         NEW e, Learn(r, l, e, m), UNCHANGED tables
  PROVE  IInv'
<1>1. RequestOK(r) /\ CallsOK /\ pc \in [Request -> PC]
  BY AtStatement
<1>2. UNCHANGED <<stored, fks, queries, mappings>>
  BY DEF tables, catalog
<1>3. IdleOK(r) /\ HistoryOK(r) /\ SimilarOK(r)
  BY <1>1 DEF RequestOK
<1>4. /\ call[r].intent \in BOOLEAN
      /\ DOMAIN reads[r] \subseteq {"question", "intent", "similar", "words", "parts"}
      /\ "question" \in DOMAIN reads[r] /\ SearchedOK(r, reads[r].question, "asked")
      /\ "similar" \in DOMAIN reads[r]
      /\ call[r].intent => /\ "intent" \in DOMAIN reads[r]
                           /\ SearchedOK(r, reads[r].intent, "meant")
                           /\ reads[r].similar \in Top(TRUE, reads[r].question, reads[r].intent)
      /\ ~call[r].intent => reads[r].similar \in Top(FALSE, reads[r].question, <<>>)
  BY <1>3 DEF SimilarOK
<1>5. /\ CallsOK' /\ UNCHANGED <<call, before, clean>>
      /\ pc' = [pc EXCEPT ![r] = m] /\ pc'[r] = m
      /\ \A q \in Request \ {r} : reads'[q] = reads[q] /\ pc'[q] = pc[q]
      /\ DOMAIN reads'[r] = {l} \cup DOMAIN reads[r]
      /\ reads'[r][l] = e
      /\ \A x \in DOMAIN reads[r] : x # l => reads'[r][x] = reads[r][x]
  BY <1>1, Learned
<1>6. /\ reads'[r].question = reads[r].question /\ reads'[r].similar = reads[r].similar
      /\ call[r].intent => reads'[r].intent = reads[r].intent
  BY <1>4, <1>5
<1>7. PICK asked, meant : asked = reads[r].question /\ meant = reads[r].intent
  OBVIOUS
<1>8. /\ SearchedOK(r, asked, "asked")'
      /\ call[r].intent => SearchedOK(r, meant, "meant")'
  BY <1>4, <1>5, <1>7, SearchedStays
<1>9. SimilarOK(r)'
  BY <1>4, <1>5, <1>6, <1>7, <1>8 DEF SimilarOK
<1>10. /\ m \in PC /\ m # "idle" /\ "upsert" \notin DOMAIN reads'[r]
       /\ DOMAIN reads'[r] \subseteq PC \cup {"similar", "relations"}
  BY <1>4, <1>5 DEF PC
<1>11. RequestOK(r)'
  BY <1>2, <1>3, <1>5, <1>9, <1>10, SimilarOnly
<1> QED
  BY <1>2, <1>5, <1>10, <1>11, StepInv

LEMMA FindMappingsInv ==
  ASSUME IInv, NEW r \in Request, FindMappings(r)
  PROVE  IInv'
<1>1. call[r].op = "similar" /\ pc[r] = "words"
  BY AtStatement DEF FindMappings
<1>2. PICK e : e = MappingsOf(call[r].words)
  OBVIOUS
<1>3. PICK m : m = IF e = {} /\ call[r].parts THEN "parts" ELSE "done"
  OBVIOUS
<1>4. Learn(r, "words", e, m) /\ UNCHANGED tables
  BY <1>2, <1>3 DEF FindMappings
<1>5. m \in {"parts", "done"}
  BY <1>3
<1> QED
  BY <1>1, <1>4, <1>5, MappingsRead

LEMMA FindByPartsInv ==
  ASSUME IInv, NEW r \in Request, FindByParts(r)
  PROVE  IInv'
<1>1. call[r].op = "similar" /\ pc[r] = "parts"
  BY AtStatement DEF FindByParts
<1>2. PICK W \in SUBSET Word : Learn(r, "parts", MappingsOf(W), "done")
  BY DEF FindByParts
<1>3. PICK e : e = MappingsOf(W)
  OBVIOUS
<1>4. Learn(r, "parts", e, "done") /\ UNCHANGED tables
  BY <1>2, <1>3 DEF FindByParts
<1> QED
  BY <1>1, <1>4, MappingsRead
---------------------------------------------------------------------------
(* Saves of mappings.                                                      *)

LEMMA SaveOnly ==
  ASSUME NEW r \in Request, IdleOK(r), HistoryOK(r), call[r].op \in {"byFqn", "byName"},
         UNCHANGED <<call[r], before[r], stored, fks, queries, clean>>,
         pc'[r] # "idle", SaveOK(r)'
  PROVE  RequestOK(r)'
<1>1. call'[r].op \in {"byFqn", "byName"}
  OBVIOUS
<1>2. IdleOK(r)'
  BY <1>1 DEF IdleOK
<1>3. HistoryOK(r)'
  BY DEF HistoryOK
<1>4. SubschemaOK(r)' /\ DetailsOK(r)' /\ SimilarOK(r)'
  BY <1>1 DEF SubschemaOK, DetailsOK, SimilarOK
<1> QED
  BY <1>2, <1>3, <1>4 DEF RequestOK

LEMMA LookupFqnInv ==
  ASSUME IInv, NEW r \in Request, LookupFqn(r)
  PROVE  IInv'
<1>1. /\ RequestOK(r) /\ CallsOK /\ pc \in [Request -> PC]
      /\ call[r].op = "byFqn" /\ pc[r] = "lookup"
  BY AtStatement DEF LookupFqn
<1>2. UNCHANGED <<stored, fks, queries, mappings>>
  BY DEF LookupFqn, tables, catalog
<1>3. IdleOK(r) /\ HistoryOK(r) /\ SaveOK(r)
  BY <1>1 DEF RequestOK
<1>4. call[r] \in Mapped /\ DOMAIN reads[r] \subseteq {"lookup", "upsert"}
      /\ "upsert" \notin DOMAIN reads[r]
  BY <1>1, <1>3 DEF SaveOK
<1>5. PICK c : c = IF call[r].column \in stored THEN call[r].column ELSE None
  OBVIOUS
<1>6. Learn(r, "lookup", c, "upsert")
  BY <1>5 DEF LookupFqn
<1>7. /\ CallsOK' /\ UNCHANGED <<call, before, clean>>
      /\ pc' = [pc EXCEPT ![r] = "upsert"] /\ pc'[r] = "upsert"
      /\ \A q \in Request \ {r} : reads'[q] = reads[q] /\ pc'[q] = pc[q]
      /\ DOMAIN reads'[r] = {"lookup"} \cup DOMAIN reads[r]
      /\ reads'[r]["lookup"] = c
      /\ \A x \in DOMAIN reads[r] : x # "lookup" => reads'[r][x] = reads[r][x]
  BY <1>1, <1>6, Learned
<1>8. LookupOK(r)'
  BY <1>1, <1>2, <1>5, <1>7 DEF LookupOK
<1>9. SaveOK(r)'
  BY <1>1, <1>4, <1>7, <1>8 DEF SaveOK
<1>10. RequestOK(r)'
  BY <1>1, <1>2, <1>3, <1>7, <1>9, SaveOnly
<1>11. /\ "upsert" \in PC /\ "upsert" \notin DOMAIN reads'[r]
       /\ DOMAIN reads'[r] \subseteq PC \cup {"similar", "relations"}
  BY <1>4, <1>7 DEF PC
<1> QED
  BY <1>1, <1>2, <1>7, <1>10, <1>11, StepInv

LEMMA LookupNameInv ==
  ASSUME IInv, NEW r \in Request, LookupName(r)
  PROVE  IInv'
<1>1. /\ RequestOK(r) /\ CallsOK /\ pc \in [Request -> PC]
      /\ call[r].op = "byName" /\ pc[r] = "lookup"
  BY AtStatement DEF LookupName
<1>2. UNCHANGED <<stored, fks, queries, mappings>>
  BY DEF LookupName, tables, catalog
<1>3. IdleOK(r) /\ HistoryOK(r) /\ SaveOK(r)
  BY <1>1 DEF RequestOK
<1>4. call[r] \in Mapped /\ DOMAIN reads[r] \subseteq {"lookup", "upsert"}
      /\ "upsert" \notin DOMAIN reads[r]
  BY <1>1, <1>3 DEF SaveOK
<1>5. PICK c, m : /\ Learn(r, "lookup", c, m)
                  /\ m = "done" \/ (m = "upsert" /\ c \in stored \cap Column)
  BY DEF LookupName
<1>6. /\ CallsOK' /\ UNCHANGED <<call, before, clean>>
      /\ pc' = [pc EXCEPT ![r] = m] /\ pc'[r] = m
      /\ \A q \in Request \ {r} : reads'[q] = reads[q] /\ pc'[q] = pc[q]
      /\ DOMAIN reads'[r] = {"lookup"} \cup DOMAIN reads[r]
      /\ reads'[r]["lookup"] = c
      /\ \A x \in DOMAIN reads[r] : x # "lookup" => reads'[r][x] = reads[r][x]
  BY <1>1, <1>5, Learned
<1>7. m = "upsert" => LookupOK(r)'
  BY <1>1, <1>2, <1>5, <1>6 DEF LookupOK
<1>8. SaveOK(r)'
  BY <1>1, <1>4, <1>5, <1>6, <1>7 DEF SaveOK
<1>9. /\ m \in PC /\ m # "idle" /\ "upsert" \notin DOMAIN reads'[r]
      /\ DOMAIN reads'[r] \subseteq PC \cup {"similar", "relations"}
  BY <1>4, <1>5, <1>6 DEF PC
<1>10. RequestOK(r)'
  BY <1>1, <1>2, <1>3, <1>6, <1>8, <1>9, SaveOnly
<1> QED
  BY <1>1, <1>2, <1>6, <1>9, <1>10, StepInv

(* What a call saves.                                                      *)
LEMMA UpsertedOK ==
  ASSUME IInv, NEW r \in Request, pc[r] = "upsert"
  PROVE  /\ KeyOf(r) \in Key /\ call[r].code \in Code
         /\ call[r].op \in {"byFqn", "byName"}
         /\ call[r].op = "byFqn" => call[r].verified \in BOOLEAN
         /\ reads[r].lookup # None => KeyOf(r)[2] \in stored
         /\ \A row \in Mapping \cup {None} : Upserted(r, row) \in Mapping
<1>1. /\ RequestOK(r) /\ call[r].op \in {"byFqn", "byName"}
  BY AtStatement
<1>2. call[r] \in Mapped /\ LookupOK(r)
  BY <1>1 DEF RequestOK, SaveOK
<1>3. call[r] \in ByFqn \/ call[r] \in ByName
  BY <1>2, MappedAssumption
<1>4. ASSUME call[r].op = "byFqn"
      PROVE  /\ KeyOf(r) = <<call[r].word, call[r].column>> /\ KeyOf(r) \in Key
             /\ call[r].code \in Code /\ call[r].verified \in BOOLEAN
  BY <1>3, <1>4 DEF KeyOf, Key, ByFqn, ByName
<1>5. ASSUME call[r].op = "byName"
      PROVE  /\ KeyOf(r) = <<call[r].word, reads[r].lookup>> /\ KeyOf(r) \in Key
             /\ call[r].code \in Code
  BY <1>2, <1>3, <1>5 DEF KeyOf, Key, ByFqn, ByName, LookupOK
<1>6. reads[r].lookup # None => KeyOf(r)[2] \in stored
  BY <1>1, <1>2, <1>4, <1>5 DEF LookupOK
<1>7. ASSUME NEW row \in Mapping \cup {None}
      PROVE  Upserted(r, row) \in Mapping
  <2>1. CASE row = None
    BY <1>1, <1>4, <1>5, <2>1 DEF Upserted, Mapping
  <2>2. CASE row # None
    <3>1. /\ row \in Mapping /\ row.linked \in BOOLEAN /\ row.count + 1 \in Nat
          /\ row.verified \in BOOLEAN
      BY <2>2 DEF Mapping
    <3>2. Linked(r, row) \in BOOLEAN
      BY <3>1 DEF Linked
    <3> QED
      BY <1>1, <1>4, <1>5, <2>2, <3>1, <3>2 DEF Upserted, Mapping
  <2> QED
    BY <2>1, <2>2
<1> QED
  BY <1>1, <1>4, <1>5, <1>6, <1>7

(* An upsert is one more save of its key.                                  *)
LEMMA KeySaved ==
  ASSUME IInv, NEW r \in Request, UpsertMapping(r), NEW k \in Key, k = KeyOf(r)
  PROVE  KeyOK(k)'
<1>1. /\ RequestOK(r) /\ CallsOK /\ pc \in [Request -> PC] /\ pc[r] = "upsert"
  BY AtStatement DEF UpsertMapping
<1>2. /\ UNCHANGED <<call, before, clean>>
      /\ \A q \in Request \ {r} : reads'[q] = reads[q] /\ pc'[q] = pc[q]
      /\ DOMAIN reads'[r] = {"upsert"} \cup DOMAIN reads[r]
      /\ reads'[r]["upsert"] = k
      /\ \A x \in DOMAIN reads[r] : x # "upsert" => reads'[r][x] = reads[r][x]
  <2>1. Learn(r, "upsert", k, "done")
    BY DEF UpsertMapping
  <2> QED
    BY <1>1, <2>1, Learned
<1>3. UNCHANGED <<stored, fks, queries>>
  BY DEF UpsertMapping, catalog
<1>4. "upsert" \notin DOMAIN reads[r] /\ "lookup" \in DOMAIN reads[r]
  <2>1. "upsert" \notin DOMAIN reads[r]
    BY <1>1, NotSaved
  <2>2. call[r].op \in {"byFqn", "byName"}
    BY <1>1, UpsertedOK
  <2> QED
    BY <1>1, <2>1, <2>2 DEF RequestOK, SaveOK
<1>5. reads'[r].lookup = reads[r].lookup
  BY <1>2, <1>4
<1>6. PICK row \in Mapping \cup {None} : row = mappings[k]
  BY DEF IInv, TypeOK
<1>7. mappings'[k] = Upserted(r, row) /\ mappings'[k] # None
  <2>1. mappings' = [mappings EXCEPT ![k] = Upserted(r, mappings[k])]
    BY DEF UpsertMapping
  <2>2. mappings'[k] = Upserted(r, row)
    BY <1>6, <2>1 DEF IInv, TypeOK
  <2>3. Upserted(r, row) \in Mapping
    BY <1>1, UpsertedOK
  <2> QED
    BY <2>2, <2>3, ReadsAssumption
<1>8. KeyOK(k)
  BY KeyParts DEF IInv
<1>9. SavesOf(k)' = SavesOf(k) \cup {r} /\ r \notin SavesOf(k)
  BY <1>2, <1>4 DEF SavesOf
<1>10. Cardinality(SavesOf(k)') = Cardinality(SavesOf(k)) + 1 /\ Cardinality(SavesOf(k)) \in Nat
  <2>1. SavesOf(k) \in SUBSET Request /\ IsFiniteSet(Request)
    BY ReadsAssumption DEF SavesOf
  <2>2. IsFiniteSet(SavesOf(k))
    BY <2>1, FS_Subset
  <2> QED
    BY <1>9, <2>2, FS_AddElement, FS_CardinalityType
<1>11. \A q \in NamedOf(k) : q \in NamedOf(k)' /\ q # r /\ q \in Request
  BY <1>2, <1>9 DEF NamedOf, SavesOf
<1>12. call[r].op = "byFqn" => r \in NamedOf(k)'
  BY <1>2, <1>9 DEF NamedOf
<1>13. \A q \in NamedOf(k)' : (q = r /\ call[r].op = "byFqn") \/ q \in NamedOf(k)
  BY <1>2, <1>9 DEF NamedOf, SavesOf
<1>14. /\ call[r].op \in {"byFqn", "byName"}
       /\ call[r].op = "byFqn" => call[r].verified \in BOOLEAN
  BY <1>1, UpsertedOK
<1>15. reads[r].lookup # None => k[2] \in stored
  BY <1>1, UpsertedOK
<1>16. \A q \in NamedOf(k) : reads'[q].lookup = reads[q].lookup /\ call'[q] = call[q]
  BY <1>2, <1>11
<1>17. r \in SavesOf(k)' /\ call'[r].code = call[r].code
  BY <1>2, <1>9
<1>18. CASE row = None
  <2>1. SavesOf(k) = {} /\ NamedOf(k) = {}
    BY <1>6, <1>8, <1>18 DEF KeyOK, NamedOf
  <2>2. Cardinality(SavesOf(k)') = 1
    BY <1>10, <2>1, FS_EmptySet
  <2>3. /\ mappings'[k].code = call[r].code /\ mappings'[k].count = 1
        /\ mappings'[k].linked <=> reads[r].lookup # None
        /\ mappings'[k].verified <=> call[r].op = "byFqn" /\ call[r].verified
    <3>1. mappings'[k] = [code |-> call[r].code, linked |-> reads[r].lookup # None, count |-> 1,
                          verified |-> call[r].op = "byFqn" /\ call[r].verified]
      BY <1>7, <1>18 DEF Upserted
    <3>2. (call[r].op = "byFqn" /\ call[r].verified) \in BOOLEAN
      BY <1>14
    <3>3. mappings'[k].code = call[r].code /\ mappings'[k].count = 1
      BY <3>1
    <3>4. mappings'[k].linked = (reads[r].lookup # None)
      BY <3>1
    <3>5. mappings'[k].verified = (call[r].op = "byFqn" /\ call[r].verified)
      BY <3>1
    <3> QED
      BY <3>2, <3>3, <3>4, <3>5
  <2>4. mappings'[k].verified => \E q \in NamedOf(k)' : call'[q].verified
    BY <1>2, <1>12, <2>3
  <2>5. (\E q \in NamedOf(k)' : reads'[q].lookup # None) => mappings'[k].linked
    BY <1>5, <1>13, <2>1, <2>3
  <2> QED
    BY <1>3, <1>7, <1>15, <1>17, <2>2, <2>3, <2>4, <2>5 DEF KeyOK
<1>19. CASE row # None
  <2>1. /\ row.count = Cardinality(SavesOf(k))
        /\ row.verified => \E q \in NamedOf(k) : call[q].verified
        /\ (\E q \in NamedOf(k) : reads[q].lookup # None) => row.linked
        /\ row.linked => k[2] \in stored
    BY <1>6, <1>8, <1>19 DEF KeyOK
  <2>2. /\ mappings'[k].code = call[r].code /\ mappings'[k].count = row.count + 1
        /\ mappings'[k].linked <=> Linked(r, row)
        /\ mappings'[k].verified <=> IF call[r].op = "byFqn" THEN call[r].verified ELSE row.verified
    BY <1>7, <1>19 DEF Upserted
  <2>3. mappings'[k].count = Cardinality(SavesOf(k)')
    BY <1>10, <2>1, <2>2
  <2>4. mappings'[k].verified => \E q \in NamedOf(k)' : call'[q].verified
    <3>1. CASE call[r].op = "byFqn"
      BY <1>2, <1>12, <2>2, <3>1
    <3>2. CASE call[r].op # "byFqn"
      BY <1>11, <1>16, <2>1, <2>2, <3>2
    <3> QED
      BY <3>1, <3>2
  <2>5. (\E q \in NamedOf(k)' : reads'[q].lookup # None) => mappings'[k].linked
    BY <1>5, <1>13, <1>16, <2>1, <2>2 DEF Linked
  <2>6. mappings'[k].linked => k[2] \in stored'
    BY <1>3, <1>15, <2>1, <2>2 DEF Linked
  <2> QED
    BY <1>7, <1>17, <2>2, <2>3, <2>4, <2>5, <2>6 DEF KeyOK
<1> QED
  BY <1>18, <1>19
LEMMA KeyPartsNext ==
  ASSUME \A k \in Key : KeyOK(k)'
  PROVE  MappingsExact'
  BY DEF MappingsExact, KeyOK, SavesOf, NamedOf

LEMMA UpsertMappingInv ==
  ASSUME IInv, NEW r \in Request, UpsertMapping(r)
  PROVE  IInv'
<1>1. /\ RequestOK(r) /\ CallsOK /\ pc \in [Request -> PC] /\ pc[r] = "upsert"
  BY AtStatement DEF UpsertMapping
<1>2. PICK k \in Key : k = KeyOf(r)
  BY <1>1, UpsertedOK
<1>3. /\ CallsOK' /\ UNCHANGED <<call, before, clean>>
      /\ pc' = [pc EXCEPT ![r] = "done"] /\ pc'[r] = "done"
      /\ \A q \in Request \ {r} : reads'[q] = reads[q] /\ pc'[q] = pc[q]
      /\ DOMAIN reads'[r] = {"upsert"} \cup DOMAIN reads[r]
      /\ reads'[r]["upsert"] = k
      /\ \A x \in DOMAIN reads[r] : x # "upsert" => reads'[r][x] = reads[r][x]
  <2>1. Learn(r, "upsert", k, "done")
    BY <1>2 DEF UpsertMapping
  <2> QED
    BY <1>1, <2>1, Learned
<1>4. UNCHANGED <<stored, fks, queries>>
  BY DEF UpsertMapping, catalog
<1>5. /\ IdleOK(r) /\ HistoryOK(r) /\ SaveOK(r) /\ call[r].op \in {"byFqn", "byName"}
  BY <1>1, UpsertedOK DEF RequestOK
<1>6. call[r] \in Mapped /\ DOMAIN reads[r] \subseteq {"lookup", "upsert"}
      /\ "upsert" \notin DOMAIN reads[r]
  BY <1>1, <1>5 DEF SaveOK
<1>7. PICK row \in Mapping \cup {None} : row = mappings[k]
  BY DEF IInv, TypeOK
<1>8. mappings' = [mappings EXCEPT ![k] = Upserted(r, row)] /\ Upserted(r, row) \in Mapping
  <2>1. mappings' = [mappings EXCEPT ![k] = Upserted(r, mappings[k])]
    BY <1>2 DEF UpsertMapping
  <2>2. Upserted(r, row) \in Mapping
    BY <1>1, UpsertedOK
  <2> QED
    BY <1>7, <2>1, <2>2
<1>9. TypeOK'
  <2>1. mappings' \in [Key -> Mapping \cup {None}]
    <3>1. mappings \in [Key -> Mapping \cup {None}]
      BY DEF IInv, TypeOK
    <3> QED
      BY <1>8, <3>1
  <2>2. \A q \in Request : DOMAIN reads'[q] \subseteq PC \cup {"similar", "relations"}
    <3>1. \A q \in Request : DOMAIN reads[q] \subseteq PC \cup {"similar", "relations"}
      BY DEF IInv, TypeOK
    <3> QED
      BY <1>3, <3>1 DEF PC
  <2>3. pc' \in [Request -> PC]
    BY <1>1, <1>3 DEF PC
  <2> QED
    BY <1>3, <1>4, <2>1, <2>2, <2>3 DEF IInv, TypeOK, Closed
<1>10. SaveOK(r)'
  BY <1>3, <1>5, <1>6 DEF SaveOK
<1>11. RequestOK(r)'
  BY <1>3, <1>4, <1>5, <1>10, SaveOnly
<1>12. \A q \in Request : RequestOK(q)'
  <2>1. ASSUME NEW q \in Request, q # r
        PROVE  RequestOK(q)'
    <3>1. RequestOK(q)
      BY DEF IInv
    <3> QED
      BY <1>3, <1>4, <2>1, <3>1, OthersStay
  <2> QED
    BY <1>11, <2>1
<1>13. ASSUME NEW j \in Key
       PROVE  KeyOK(j)'
  <2>1. CASE j = k
    BY <1>2, <2>1, KeySaved
  <2>2. CASE j # k
    <3>1. KeyOK(j)
      BY KeyParts DEF IInv
    <3>2. mappings'[j] = mappings[j]
      BY <1>8, <2>2 DEF IInv, TypeOK
    <3>3. \A q \in Request : /\ q \in SavesOf(j)' <=> q \in SavesOf(j)
                             /\ q \in SavesOf(j) => UNCHANGED <<reads[q], call[q]>>
      BY <1>3, <1>6, <2>2 DEF SavesOf
    <3> QED
      BY <1>4, <3>1, <3>2, <3>3, KeyStays
  <2> QED
    BY <2>1, <2>2
<1> QED
  BY <1>3, <1>9, <1>12, <1>13, KeyPartsNext DEF IInv

---------------------------------------------------------------------------
(* A call begins, of the state it finds.                                   *)

LEMMA Began ==
  ASSUME IInv, NEW r \in Request, NEW c, NEW l, Begin(r, c, l)
  PROVE  /\ RequestOK(r) /\ pc[r] = "idle" /\ DOMAIN reads[r] = {} /\ CallsOK'
         /\ UNCHANGED <<stored, fks, queries, mappings, reads>>
         /\ pc' = [pc EXCEPT ![r] = l] /\ pc'[r] = l /\ call'[r] = c /\ before'[r] = Present
         /\ clean' \in [Request -> BOOLEAN]
         /\ \A q \in Request \ {r} :
              /\ call'[q] = call[q] /\ before'[q] = before[q]
              /\ clean'[q] = clean[q] /\ pc'[q] = pc[q]
<1>1. RequestOK(r) /\ CallsOK /\ pc \in [Request -> PC] /\ clean \in [Request -> BOOLEAN]
  BY DEF IInv, TypeOK
<1>2. pc[r] = "idle" /\ UNCHANGED <<stored, fks, queries, mappings, reads>>
  BY DEF Begin, tables, catalog
<1>3. /\ call' = [call EXCEPT ![r] = c] /\ before' = [before EXCEPT ![r] = Present]
      /\ clean' = [clean EXCEPT ![r] = TRUE] /\ pc' = [pc EXCEPT ![r] = l]
  BY DEF Begin, Goto
<1>4. PICK p : p = Present
  OBVIOUS
<1>5. PerRequest(call) /\ PerRequest(reads) /\ PerRequest(before)
  BY <1>1 DEF CallsOK
<1>6. /\ PerRequest(call') /\ PerRequest(before') /\ call'[r] = c /\ before'[r] = p
      /\ \A q \in Request \ {r} : call'[q] = call[q] /\ before'[q] = before[q]
  BY <1>3, <1>4, <1>5 DEF PerRequest
<1>7. CallsOK'
  BY <1>2, <1>5, <1>6 DEF CallsOK, PerRequest
<1>8. DOMAIN reads[r] = {}
  BY <1>1, <1>2 DEF RequestOK, IdleOK
<1> QED
  BY <1>1, <1>2, <1>3, <1>4, <1>6, <1>7, <1>8

LEMMA BeginInv ==
  ASSUME IInv, NEW r \in Request, NEW c, NEW l, Begin(r, c, l), l \in PC \ {"idle"},
         c.op \in {"subschema", "details", "similar", "byFqn", "byName"},
         SubschemaOK(r)', DetailsOK(r)', SimilarOK(r)', SaveOK(r)'
  PROVE  IInv'
<1>1. /\ RequestOK(r) /\ pc[r] = "idle" /\ DOMAIN reads[r] = {} /\ CallsOK'
      /\ UNCHANGED <<stored, fks, queries, mappings, reads>>
      /\ pc' = [pc EXCEPT ![r] = l] /\ pc'[r] = l /\ call'[r] = c /\ before'[r] = Present
      /\ clean' \in [Request -> BOOLEAN]
      /\ \A q \in Request \ {r} :
           /\ call'[q] = call[q] /\ before'[q] = before[q]
           /\ clean'[q] = clean[q] /\ pc'[q] = pc[q]
  BY Began
<1>2. before'[r].stored = stored /\ before'[r].fks = fks /\ before'[r].queries = queries
  BY <1>1 DEF Present
<1>3. TypeOK'
  <2>1. pc' \in [Request -> PC]
    BY <1>1 DEF IInv, TypeOK
  <2>2. \A q \in Request : before'[q].stored \subseteq stored' /\ before'[q].fks \subseteq fks'
    <3>1. \A q \in Request : before[q].stored \subseteq stored /\ before[q].fks \subseteq fks
      BY DEF IInv, TypeOK
    <3> QED
      BY <1>1, <1>2, <3>1
  <2>3. \A q \in Request : DOMAIN reads'[q] \subseteq PC \cup {"similar", "relations"}
    BY <1>1 DEF IInv, TypeOK
  <2>4. /\ Closed(stored, fks)' /\ queries' \in [Query -> QueryRow \cup {None}]
        /\ mappings' \in [Key -> Mapping \cup {None}]
    BY <1>1 DEF IInv, TypeOK, Closed
  <2> QED
    BY <1>1, <2>1, <2>2, <2>3, <2>4 DEF TypeOK
<1>4. RequestOK(r)'
  <2>1. IdleOK(r)'
    BY <1>1 DEF IdleOK
  <2>2. HistoryOK(r)'
    BY <1>1, <1>2 DEF HistoryOK
  <2> QED
    BY <2>1, <2>2 DEF RequestOK
<1>5. \A q \in Request : RequestOK(q)'
  <2>1. ASSUME NEW q \in Request, q # r
        PROVE  RequestOK(q)'
    <3>1. RequestOK(q)
      BY DEF IInv
    <3> QED
      BY <1>1, <2>1, <3>1, OthersStay
  <2> QED
    BY <1>4, <2>1
<1>6. MappingsExact'
  <2>1. \A q \in Request :
          /\ "upsert" \in DOMAIN reads'[q] <=> "upsert" \in DOMAIN reads[q]
          /\ "upsert" \in DOMAIN reads[q] => UNCHANGED <<reads[q], call[q]>>
    BY <1>1
  <2> QED
    BY <1>1, <2>1, MappingsStay DEF IInv
<1> QED
  BY <1>1, <1>3, <1>5, <1>6 DEF IInv

LEMMA BuildSubschemaInv ==
  ASSUME IInv, NEW r \in Request, BuildSubschema(r)
  PROVE  IInv'
<1>1. PICK c : c = [op |-> "subschema"]
  OBVIOUS
<1>2. Begin(r, c, "tables") /\ c.op = "subschema"
  BY <1>1 DEF BuildSubschema, BeginRead
<1>3. DOMAIN reads'[r] = {} /\ pc'[r] = "tables" /\ call'[r] = c
  BY <1>2, Began
<1>4. SubschemaOK(r)'
  BY <1>3 DEF SubschemaOK
<1>5. DetailsOK(r)' /\ SimilarOK(r)' /\ SaveOK(r)'
  BY <1>2, <1>3 DEF DetailsOK, SimilarOK, SaveOK
<1>6. "tables" \in PC \ {"idle"}
  BY DEF PC
<1> QED
  BY <1>2, <1>4, <1>5, <1>6, BeginInv

LEMMA RelationshipDetailsInv ==
  ASSUME IInv, NEW r \in Request, NEW n, NEW k \in Limits, RelationshipDetails(r, n, k)
  PROVE  IInv'
<1>1. PICK c : c = [op |-> "details", name |-> n, limit |-> k]
  OBVIOUS
<1>2. PICK l : l = IF k = 0 THEN "done" ELSE "forward"
  OBVIOUS
<1>3. Begin(r, c, l) /\ c.op = "details" /\ c.limit = k
  BY <1>1, <1>2 DEF RelationshipDetails, BeginRead
<1>4. DOMAIN reads'[r] = {} /\ pc'[r] = l /\ call'[r] = c
  BY <1>3, Began
<1>5. k \in Nat
  BY LimitsAssumption
<1>6. k = 0 => KeptOK(r)'
  <2>1. Listed(r)' = {} /\ Added(r)' = {}
    BY <1>4 DEF Listed, Added
  <2>2. Cardinality({}) = 0
    BY FS_EmptySet
  <2>3. k = 0 => Cardinality({}) + Cardinality({}) <= k /\ ~(Cardinality({}) < k)
    BY <2>2
  <2>4. call'[r].limit = k
    BY <1>3, <1>4
  <2> QED
    BY <2>1, <2>3, <2>4 DEF KeptOK
<1>7. k # 0 => k > 0
  BY <1>5
<1>8. DetailsOK(r)'
  BY <1>2, <1>3, <1>4, <1>5, <1>6, <1>7 DEF DetailsOK
<1>9. SubschemaOK(r)' /\ SimilarOK(r)' /\ SaveOK(r)'
  BY <1>3, <1>4 DEF SubschemaOK, SimilarOK, SaveOK
<1>10. l \in PC \ {"idle"}
  BY <1>2 DEF PC
<1> QED
  BY <1>3, <1>8, <1>9, <1>10, BeginInv

LEMMA FindSimilarInv ==
  ASSUME IInv, NEW r \in Request, NEW W, NEW i \in BOOLEAN, NEW p \in BOOLEAN,
         FindSimilar(r, i, W, p)
  PROVE  IInv'
<1>1. PICK c : c = [op |-> "similar", intent |-> i, words |-> W, parts |-> p]
  OBVIOUS
<1>2. Begin(r, c, "question") /\ c.op = "similar" /\ c.intent \in BOOLEAN
  BY <1>1 DEF FindSimilar, BeginRead
<1>3. DOMAIN reads'[r] = {} /\ pc'[r] = "question" /\ call'[r] = c
  BY <1>2, Began
<1>4. SimilarOK(r)'
  BY <1>2, <1>3 DEF SimilarOK
<1>5. SubschemaOK(r)' /\ DetailsOK(r)' /\ SaveOK(r)'
  BY <1>2, <1>3 DEF SubschemaOK, DetailsOK, SaveOK
<1>6. "question" \in PC \ {"idle"}
  BY DEF PC
<1> QED
  BY <1>2, <1>4, <1>5, <1>6, BeginInv

LEMMA SaveInv ==
  ASSUME IInv, NEW r \in Request, NEW m \in Mapped, SaveByName(r, m) \/ SaveByFqn(r, m)
  PROVE  IInv'
<1>1. Begin(r, m, "lookup") /\ m.op \in {"byFqn", "byName"}
  BY DEF SaveByName, SaveByFqn
<1>2. DOMAIN reads'[r] = {} /\ pc'[r] = "lookup" /\ call'[r] = m
  BY <1>1, Began
<1>3. SaveOK(r)'
  BY <1>2 DEF SaveOK
<1>4. SubschemaOK(r)' /\ DetailsOK(r)' /\ SimilarOK(r)'
  BY <1>1, <1>2 DEF SubschemaOK, DetailsOK, SimilarOK
<1>5. "lookup" \in PC \ {"idle"}
  BY DEF PC
<1> QED
  BY <1>1, <1>3, <1>4, <1>5, BeginInv
---------------------------------------------------------------------------
(* The writers, and calls that fail.                                       *)

LEMMA WriterDone ==
  ASSUME NEW r \in Request, RequestOK(r), pc[r] = "idle", pc'[r] = "done",
         UNCHANGED <<call, reads, before>>, stored \subseteq stored', fks \subseteq fks',
         clean'[r] => clean[r] /\ queries' = queries
  PROVE  RequestOK(r)'
<1>1. IdleOK(r) /\ HistoryOK(r) /\ call[r].op = "none" /\ call'[r].op = "none"
  BY DEF RequestOK, IdleOK
<1>2. IdleOK(r)'
  BY <1>1 DEF IdleOK
<1>3. HistoryOK(r)'
  BY <1>1, HistoryStays
<1>4. SubschemaOK(r)' /\ DetailsOK(r)' /\ SimilarOK(r)' /\ SaveOK(r)'
  BY <1>1 DEF SubschemaOK, DetailsOK, SimilarOK, SaveOK
<1> QED
  BY <1>2, <1>3, <1>4 DEF RequestOK

LEMMA CatalogClosed ==
  ASSUME NEW D \in Catalog, NEW E, NEW F, E = D.elements, F = KeysWithin(D)
  PROVE  Closed(E, F)
<1>1. E \subseteq Element /\ \A c \in E \cap Column : TableOf[c] \in E
  BY DEF Catalog
<1>2. F \subseteq Fk /\ \A f \in F : {f[1], f[2]} \subseteq E
  BY DEF Catalog, KeysWithin
<1> QED
  BY <1>1, <1>2 DEF Closed

LEMMA IngestInv ==
  ASSUME IInv, NEW r \in Request, NEW D \in Posted, Ingest(r, D)
  PROVE  IInv'
<1>1. RequestOK(r) /\ CallsOK /\ pc \in [Request -> PC]
  BY DEF IInv, TypeOK
<1>2. /\ pc[r] = "idle" /\ pc' = [pc EXCEPT ![r] = "done"]
      /\ UNCHANGED <<queries, mappings, call, reads, before, clean>>
  BY DEF Ingest, Goto, history
<1>3. PICK E : E = D.elements
  OBVIOUS
<1>4. PICK F : F = KeysWithin(D)
  OBVIOUS
<1>5. stored' = stored \cup E /\ fks' = fks \cup F
  BY <1>3, <1>4 DEF Ingest
<1>6. Closed(stored, fks)'
  <2>1. Closed(E, F)
    <3>1. D \in Catalog
      BY GivenAssumption
    <3> QED
      BY <1>3, <1>4, <3>1, CatalogClosed
  <2>2. Closed(stored, fks)
    BY DEF IInv, TypeOK
  <2> QED
    BY <1>5, <2>1, <2>2 DEF Closed
<1>7. pc' \in [Request -> PC] /\ pc'[r] = "done" /\ \A q \in Request \ {r} : pc'[q] = pc[q]
  BY <1>1, <1>2 DEF PC
<1>8. TypeOK'
  BY <1>2, <1>5, <1>6, <1>7 DEF IInv, TypeOK
<1>9. CallsOK'
  BY <1>1, <1>2 DEF CallsOK, PerRequest
<1>10. \A q \in Request : RequestOK(q)'
  <2>1. RequestOK(r)'
    BY <1>1, <1>2, <1>5, <1>7, WriterDone
  <2>2. ASSUME NEW q \in Request, q # r
        PROVE  RequestOK(q)'
    <3>1. RequestOK(q)
      BY DEF IInv
    <3> QED
      BY <1>2, <1>5, <1>7, <2>2, <3>1, OthersStay
  <2> QED
    BY <2>1, <2>2
<1>11. MappingsExact'
  <2>1. \A q \in Request :
          /\ "upsert" \in DOMAIN reads'[q] <=> "upsert" \in DOMAIN reads[q]
          /\ "upsert" \in DOMAIN reads[q] => UNCHANGED <<reads[q], call[q]>>
    BY <1>2
  <2> QED
    BY <1>2, <1>5, <2>1, MappingsStay DEF IInv
<1> QED
  BY <1>8, <1>9, <1>10, <1>11 DEF IInv

LEMMA WriteQueryInv ==
  ASSUME IInv, NEW r \in Request, NEW s \in Saved, WriteQuery(r, s[1], s[2])
  PROVE  IInv'
<1>1. RequestOK(r) /\ CallsOK /\ pc \in [Request -> PC]
  BY DEF IInv, TypeOK
<1>2. PICK q0 \in Query, x0 \in QueryRow \cup {None} : q0 = s[1] /\ x0 = s[2]
  BY GivenAssumption
<1>3. /\ pc[r] = "idle" /\ pc' = [pc EXCEPT ![r] = "done"]
      /\ UNCHANGED <<stored, fks, mappings, call, reads, before>>
      /\ clean' = [o \in Request |-> FALSE]
      /\ queries' = [queries EXCEPT ![q0] = x0]
  BY <1>2 DEF WriteQuery, Goto, catalog
<1>4. queries' \in [Query -> QueryRow \cup {None}]
  <2>1. queries \in [Query -> QueryRow \cup {None}]
    BY DEF IInv, TypeOK
  <2> QED
    BY <1>3, <2>1
<1>5. pc' \in [Request -> PC] /\ pc'[r] = "done" /\ \A q \in Request \ {r} : pc'[q] = pc[q]
  BY <1>1, <1>3 DEF PC
<1>6. clean' \in [Request -> BOOLEAN] /\ \A q \in Request : ~clean'[q]
  BY <1>3
<1>7. TypeOK'
  <2>1. Closed(stored, fks)'
    BY <1>3 DEF IInv, TypeOK, Closed
  <2> QED
    BY <1>3, <1>4, <1>5, <1>6, <2>1 DEF IInv, TypeOK
<1>8. CallsOK'
  BY <1>1, <1>3 DEF CallsOK, PerRequest
<1>9. \A q \in Request : RequestOK(q)'
  <2>1. RequestOK(r)'
    BY <1>1, <1>3, <1>5, <1>6, WriterDone
  <2>2. ASSUME NEW q \in Request, q # r
        PROVE  RequestOK(q)'
    <3>1. RequestOK(q)
      BY DEF IInv
    <3> QED
      BY <1>3, <1>5, <1>6, <2>2, <3>1, OthersStay
  <2> QED
    BY <2>1, <2>2
<1>10. MappingsExact'
  <2>1. \A q \in Request :
          /\ "upsert" \in DOMAIN reads'[q] <=> "upsert" \in DOMAIN reads[q]
          /\ "upsert" \in DOMAIN reads[q] => UNCHANGED <<reads[q], call[q]>>
    BY <1>3
  <2> QED
    BY <1>3, <2>1, MappingsStay DEF IInv
<1> QED
  BY <1>7, <1>8, <1>9, <1>10 DEF IInv

LEMMA FailsInv ==
  ASSUME IInv, NEW r \in Request, Fails(r)
  PROVE  IInv'
<1>1. RequestOK(r) /\ CallsOK /\ pc \in [Request -> PC]
  BY DEF IInv, TypeOK
<1>2. /\ pc[r] \notin {"idle", "done", "failed"} /\ pc' = [pc EXCEPT ![r] = "failed"]
      /\ pc'[r] = "failed"
      /\ UNCHANGED <<stored, fks, queries, mappings, call, reads, before, clean>>
  BY <1>1 DEF Fails, InFlight, Goto, tables, catalog, history
<1>3. CallsOK'
  BY <1>1, <1>2 DEF CallsOK, PerRequest
<1>4. /\ IdleOK(r) /\ HistoryOK(r) /\ SubschemaOK(r) /\ DetailsOK(r) /\ SimilarOK(r) /\ SaveOK(r)
  BY <1>1 DEF RequestOK
<1>5. "upsert" \notin DOMAIN reads[r]
  BY <1>1, <1>2, NotSaved
<1>6. RequestOK(r)'
  <2>1. IdleOK(r)'
    BY <1>2, <1>4 DEF IdleOK
  <2>2. HistoryOK(r)'
    BY <1>2, <1>4 DEF HistoryOK
  <2>3. SubschemaOK(r)'
    BY <1>2, <1>4 DEF SubschemaOK
  <2>4. DetailsOK(r)'
    BY <1>2, <1>4 DEF DetailsOK
  <2>5. SimilarOK(r)'
    BY <1>2, <1>4 DEF SimilarOK
  <2>6. SaveOK(r)'
    BY <1>2, <1>4, <1>5 DEF SaveOK
  <2> QED
    BY <2>1, <2>2, <2>3, <2>4, <2>5, <2>6 DEF RequestOK
<1>7. "failed" \in PC /\ "upsert" \notin DOMAIN reads'[r]
      /\ DOMAIN reads'[r] \subseteq PC \cup {"similar", "relations"}
  BY <1>2, <1>5 DEF IInv, TypeOK, PC
<1> QED
  BY <1>1, <1>2, <1>3, <1>6, <1>7, StepInv

---------------------------------------------------------------------------
(* The invariant.                                                          *)

LEMMA InitInv ==
  ASSUME Init
  PROVE  IInv
<1>1. Closed(stored, fks)
  <2>1. stored = Given.elements /\ fks = KeysWithin(Given)
    BY DEF Init
  <2>2. Given \in Catalog
    BY GivenAssumption
  <2> QED
    BY <2>1, <2>2, CatalogClosed
<1>2. TypeOK
  <2>1. \A r \in Request : /\ DOMAIN reads[r] = {}
                           /\ before[r].stored = {} /\ before[r].fks = {}
    <3>1. DOMAIN <<>> = {}
      OBVIOUS
    <3> QED
      BY <3>1 DEF Init
  <2>2. /\ queries \in [Query -> QueryRow \cup {None}]
        /\ mappings \in [Key -> Mapping \cup {None}]
    BY GivenAssumption DEF Init
  <2>3. pc \in [Request -> PC] /\ clean \in [Request -> BOOLEAN]
    BY DEF Init, PC
  <2> QED
    BY <1>1, <2>1, <2>2, <2>3 DEF TypeOK
<1>3. CallsOK
  BY DEF Init, CallsOK, PerRequest
<1>4. ASSUME NEW r \in Request
      PROVE  RequestOK(r)
  <2>1. call[r].op = "none" /\ pc[r] = "idle" /\ ~clean[r]
    BY DEF Init
  <2>2. DOMAIN reads[r] = {} /\ before[r].stored = {} /\ before[r].fks = {}
    <3>1. DOMAIN <<>> = {}
      OBVIOUS
    <3> QED
      BY <3>1 DEF Init
  <2>3. IdleOK(r)
    BY <2>1, <2>2 DEF IdleOK
  <2>4. HistoryOK(r)
    BY <2>1, <2>2 DEF HistoryOK
  <2>5. SubschemaOK(r) /\ DetailsOK(r) /\ SimilarOK(r) /\ SaveOK(r)
    BY <2>1 DEF SubschemaOK, DetailsOK, SimilarOK, SaveOK
  <2> QED
    BY <2>3, <2>4, <2>5 DEF RequestOK
<1>5. MappingsExact
  <2>1. \A k \in Key : mappings[k] = None
    BY DEF Init
  <2>2. \A r \in Request : "upsert" \notin DOMAIN reads[r]
    <3>1. DOMAIN <<>> = {}
      OBVIOUS
    <3> QED
      BY <3>1 DEF Init
  <2>3. \A k \in Key : KeyOK(k)
    BY <2>1, <2>2 DEF KeyOK, SavesOf
  <2> QED
    BY <2>3, KeyParts
<1> QED
  BY <1>2, <1>3, <1>4, <1>5 DEF IInv

LEMMA StutterInv ==
  ASSUME IInv, UNCHANGED vars
  PROVE  IInv'
<1>1. UNCHANGED <<stored, fks, queries, mappings, pc, call, reads, before, clean>>
  BY DEF vars, tables, catalog, history
<1>2. TypeOK'
  BY <1>1 DEF IInv, TypeOK, Closed
<1>3. CallsOK'
  BY <1>1 DEF IInv, CallsOK, PerRequest
<1>4. \A q \in Request : RequestOK(q)'
  BY <1>1, OthersStay DEF IInv
<1>5. MappingsExact'
  BY <1>1, MappingsStay DEF IInv
<1> QED
  BY <1>2, <1>3, <1>4, <1>5 DEF IInv

LEMMA NextInv ==
  ASSUME IInv, [Next]_vars
  PROVE  IInv'
<1>1. ASSUME NEW r \in Request, CatalogCall(r)
      PROVE  IInv'
  <2>1. ASSUME NEW a \in Address, NEW k \in Limits, RelationshipDetails(r, Name[a], k)
        PROVE  IInv'
    <3>1. PICK n : n = Name[a]
      OBVIOUS
    <3>2. RelationshipDetails(r, n, k)
      BY <2>1, <3>1
    <3> QED
      BY <3>2, RelationshipDetailsInv
  <2> QED
    BY <1>1, <2>1, BuildSubschemaInv DEF CatalogCall
<1>2. ASSUME NEW r \in Request, QueryCall(r)
      PROVE  IInv'
  BY <1>2, FindSimilarInv, SaveInv DEF QueryCall
<1>3. ASSUME NEW r \in Request, CatalogStep(r)
      PROVE  IInv'
  BY <1>3, SearchTablesInv, SearchColumnsInv, GetTableColumnsInv, FindFkPathsInv,
     GetFkDetailsInv, FetchForwardInv, FetchReverseInv, FetchAnyInv DEF CatalogStep
<1>4. ASSUME NEW r \in Request, QueryStep(r)
      PROVE  IInv'
  BY <1>4, SearchQuestionInv, SearchIntentInv, FindMappingsInv, FindByPartsInv,
     LookupFqnInv, LookupNameInv, UpsertMappingInv DEF QueryStep
<1>5. ASSUME NEW r \in Request, NEW D \in Posted, Ingest(r, D)
      PROVE  IInv'
  BY <1>5, IngestInv
<1>6. ASSUME NEW r \in Request, NEW s \in Saved, WriteQuery(r, s[1], s[2])
      PROVE  IInv'
  BY <1>6, WriteQueryInv
<1>7. ASSUME NEW r \in Request, Fails(r)
      PROVE  IInv'
  BY <1>7, FailsInv
<1> QED
  BY <1>1, <1>2, <1>3, <1>4, <1>5, <1>6, <1>7, StutterInv DEF Next, Call, Step

(* In every reachable state each call has read what its statements, run    *)
(* one after the other beside ingests and saves, could return of the       *)
(* tables as they were or had become (text2sql/pg_graph_search,            *)
(* pg_neo4j_utils, pg_context, pg_query_repository).                       *)
THEOREM InductiveInvariant == Spec => []IInv
<1>1. Init => IInv
  BY InitInv
<1>2. IInv /\ [Next]_vars => IInv'
  BY NextInv
<1> QED
  BY <1>1, <1>2, PTL DEF Spec

(* The tables hold no column without its table and no key without its      *)
(* ends, and a call has results of its own statements only                 *)
(* (pg_bootstrap, text2sql).                                               *)
THEOREM TypeCorrect == Spec => []TypeOK
<1>1. IInv => TypeOK
  BY DEF IInv
<1> QED
  BY <1>1, InductiveInvariant, PTL
---------------------------------------------------------------------------
(* What the invariant says of the calls that are done.                     *)

(* Under a table that is shown by its own name a subschema has all the     *)
(* columns it had when the call began, it has no column of another name,   *)
(* and it has the keys between the tables looked up, whatever ingests      *)
(* added to the stored tables between its statements                       *)
(* (text2sql/pg_graph_search).                                             *)
THEOREM SubschemaExactHolds == Spec => []SubschemaExact
<1>1. ASSUME IInv
      PROVE  SubschemaExact
  <2> SUFFICES ASSUME NEW r \in Done("subschema")
               PROVE  LET x == reads[r]
                          tabs == {t \in Table : \/ \E u \in x.tables : Shown[u] = t
                                                 \/ \E c \in x.columns : TableOf[c] = t}
                          OfTab(t, E) == {c \in E \cap Column : TableOf[c] = t}
                          Both(F) == {f \in F : TableOf[f[1]] \in tabs /\ TableOf[f[2]] \in tabs}
                      IN  /\ \A t \in x.tables :
                               /\ Shown[t] = t => OfTab(t, before[r].stored) \subseteq x.listed[Name[t]]
                               /\ \A c \in x.listed[Name[Shown[t]]] :
                                    /\ c \in stored /\ TableOf[c] \in tabs
                                    /\ Name[TableOf[c]] = Name[Shown[t]]
                          /\ Both(before[r].fks) \subseteq x.keys /\ x.keys \subseteq Both(fks)
    BY DEF SubschemaExact
  <2> DEFINE x == reads[r]
             tabs == {t \in Table : \/ \E u \in x.tables : Shown[u] = t
                                    \/ \E c \in x.columns : TableOf[c] = t}
  <2>1. r \in Request /\ pc[r] = "done" /\ call[r].op = "subschema"
    BY DEF Done
  <2>2. SubschemaOK(r)
    BY <1>1, <2>1 DEF IInv, RequestOK
  <2>3. x.tables \subseteq Table /\ x.columns \subseteq Column /\ ListedOK(r) /\ KeysOK(r)
    BY <2>1, <2>2 DEF SubschemaOK
  <2>4. PICK K : K = TableKeys(x)
    OBVIOUS
  <2>5. \A t \in Table : t \in tabs <=> t \in K
    BY <2>3, <2>4 DEF TableKeys
  <2>0. /\ \A c \in Column : TableOf[c] \in Table
        /\ \A f \in before[r].fks \cup fks : TableOf[f[1]] \in Table /\ TableOf[f[2]] \in Table
    <3>1. before[r].fks \cup fks \subseteq Column \X Column
      BY <1>1, <2>1, ReadsAssumption DEF IInv, TypeOK, Closed
    <3>2. \A c \in Column : TableOf[c] \in Table
      BY ReadsAssumption
    <3> QED
      BY <3>1, <3>2
  <2>6. \A t \in x.tables :
          /\ Shown[t] = t => \A c \in Column :
               TableOf[c] = t /\ c \in before[r].stored => c \in x.listed[Name[t]]
          /\ \A c \in x.listed[Name[Shown[t]]] :
               /\ c \in stored \cap Column
               /\ TableOf[c] \in K /\ Name[TableOf[c]] = Name[Shown[t]]
    BY <2>3, <2>4 DEF ListedOK
  <2>7. Among(before[r].fks, K) \subseteq x.keys /\ x.keys \subseteq Among(fks, K)
    BY <2>3, <2>4 DEF KeysOK
  <2> HIDE DEF tabs
  <2>8. \A t \in x.tables :
          /\ Shown[t] = t =>
               {c \in before[r].stored \cap Column : TableOf[c] = t} \subseteq x.listed[Name[t]]
          /\ \A c \in x.listed[Name[Shown[t]]] :
               c \in stored /\ TableOf[c] \in tabs /\ Name[TableOf[c]] = Name[Shown[t]]
    BY <2>5, <2>6, <2>0
  <2>9. /\ {f \in before[r].fks : TableOf[f[1]] \in tabs /\ TableOf[f[2]] \in tabs} \subseteq x.keys
        /\ x.keys \subseteq {f \in fks : TableOf[f[1]] \in tabs /\ TableOf[f[2]] \in tabs}
    BY <2>5, <2>7, <2>0 DEF Among
  <2> QED
    BY <2>8, <2>9 DEF tabs
<1> QED
  BY <1>1, InductiveInvariant, PTL

(* The details of a table keep within the limit, keep what the table had   *)
(* while there is room, and add no neighbour twice, whatever was ingested  *)
(* between the three statements (text2sql/pg_neo4j_utils).                 *)
THEOREM NeighboursKeptHolds == Spec => []NeighboursKept
<1>1. ASSUME IInv
      PROVE  NeighboursKept
  <2>1. \A r \in Done("details") : KeptOK(r)
    <3>1. \A r \in Done("details") : r \in Request /\ pc[r] = "done" /\ call[r].op = "details"
      BY DEF Done
    <3>2. \A r \in Request : DetailsOK(r)
      BY <1>1 DEF IInv, RequestOK
    <3> QED
      BY <3>1, <3>2 DEF DetailsOK
  <2> QED
    BY <2>1 DEF NeighboursKept, KeptOK, Had, Listed, Added
<1> QED
  BY <1>1, InductiveInvariant, PTL

(* Every mapping counts its saves, is verified by one and linked by one,   *)
(* however lookups, upserts and ingests interleave                         *)
(* (text2sql/pg_query_repository).                                         *)
THEOREM MappingsExactHolds == Spec => []MappingsExact
<1>1. IInv => MappingsExact
  BY DEF IInv
<1> QED
  BY <1>1, InductiveInvariant, PTL

---------------------------------------------------------------------------
(* The ranking.                                                            *)

Similarity(Q, q, f) == IF q \in Eligible(Q, f) THEN Q[q][f] ELSE 0

(* What a search that left out no row says of a row.                       *)
LEMMA SimilarityOK ==
  ASSUME NEW Q \in [Query -> QueryRow \cup {None}], NEW f \in {"asked", "meant"},
         NEW S \in SUBSET Query, NEW hits, hits = HitsOf(Q, S, f), DOMAIN hits = Eligible(Q, f),
         NEW q \in Query
  PROVE  /\ SimOf(hits, q) = Similarity(Q, q, f) /\ Similarity(Q, q, f) \in Nat
         /\ q \in DOMAIN hits => hits[q].at = Q[q].at /\ Q[q].at \in Nat
<1>1. DOMAIN hits = S
  BY DEF HitsOf
<1>2. S = Eligible(Q, f)
  BY <1>1
<1>3. CASE q \in S
  <2>1. hits[q] = [sim |-> Q[q][f], at |-> Q[q].at]
    BY <1>3 DEF HitsOf
  <2>2. Q[q] \in QueryRow /\ Q[q][f] # None
    BY <1>2, <1>3 DEF Eligible
  <2>3. Q[q][f] \in Nat /\ Q[q].at \in Nat
    BY <2>2 DEF QueryRow
  <2> QED
    BY <1>1, <1>2, <1>3, <2>1, <2>3 DEF SimOf, Similarity
<1>4. CASE q \notin S
  BY <1>1, <1>2, <1>4 DEF SimOf, Similarity
<1> QED
  BY <1>3, <1>4

LEMMA NotAbove ==
  ASSUME NEW a \in Nat, NEW b \in Nat, NEW c \in Nat, NEW d \in Nat, ~Above(<<a, b>>, <<c, d>>)
  PROVE  a < c \/ (a = c /\ b <= d)
  BY DEF Above

LEMMA EligibleFinite ==
  ASSUME NEW Q, NEW f, NEW g
  PROVE  IsFiniteSet(Eligible(Q, f) \cup Eligible(Q, g)) /\ IsFiniteSet(Eligible(Q, f))
<1>1. Eligible(Q, f) \in SUBSET Query /\ Eligible(Q, f) \cup Eligible(Q, g) \in SUBSET Query
  BY DEF Eligible
<1> QED
  BY <1>1, FS_Subset, ReadsAssumption
(* The weighted score of the two searches, and of the one.                 *)
Weighted(Q, q) == 6 * Similarity(Q, q, "meant") + 4 * Similarity(Q, q, "asked")

Complete(Q, S, hits, f) == hits = HitsOf(Q, S, f) /\ DOMAIN hits = Eligible(Q, f)

RankedBoth(Q, asked, meant, q) ==
  /\ Rank(TRUE, asked, meant, q) = <<Weighted(Q, q), Q[q].at>>
  /\ Weighted(Q, q) \in Nat /\ Q[q].at \in Nat

LEMMA RankOfBoth ==
  ASSUME NEW Q \in [Query -> QueryRow \cup {None}], NEW S \in SUBSET Query, NEW T \in SUBSET Query,
         NEW asked, NEW meant, Complete(Q, S, asked, "asked"), Complete(Q, T, meant, "meant"),
         NEW q, q \in Merged(asked, meant)
  PROVE  RankedBoth(Q, asked, meant, q)
<1>1. q \in Query /\ (q \in DOMAIN asked \/ q \in DOMAIN meant)
  BY DEF Merged, Eligible, Complete
<1>2. /\ SimOf(asked, q) = Similarity(Q, q, "asked") /\ Similarity(Q, q, "asked") \in Nat
      /\ q \in DOMAIN asked => asked[q].at = Q[q].at /\ Q[q].at \in Nat
  BY <1>1, SimilarityOK DEF Complete
<1>3. /\ SimOf(meant, q) = Similarity(Q, q, "meant") /\ Similarity(Q, q, "meant") \in Nat
      /\ q \in DOMAIN meant => meant[q].at = Q[q].at /\ Q[q].at \in Nat
  BY <1>1, SimilarityOK DEF Complete
<1>4. PICK a \in Nat, b \in Nat :
        a = Similarity(Q, q, "asked") /\ b = Similarity(Q, q, "meant")
  BY <1>2, <1>3
<1>5. 6 * b + 4 * a \in Nat
  OBVIOUS
<1>6. Q[q].at \in Nat /\ (IF q \in DOMAIN asked THEN asked[q].at ELSE meant[q].at) = Q[q].at
  BY <1>1, <1>2, <1>3
<1>7. Rank(TRUE, asked, meant, q) = <<6 * b + 4 * a, Q[q].at>>
  BY <1>2, <1>3, <1>4, <1>6 DEF Rank
<1> QED
  BY <1>4, <1>5, <1>6, <1>7 DEF RankedBoth, Weighted

RankedOne(Q, asked, none, q) ==
  /\ Rank(FALSE, asked, none, q) = <<Similarity(Q, q, "asked"), Q[q].at>>
  /\ Similarity(Q, q, "asked") \in Nat /\ Q[q].at \in Nat

LEMMA RankOfQuestion ==
  ASSUME NEW Q \in [Query -> QueryRow \cup {None}], NEW S \in SUBSET Query,
         NEW asked, NEW none, Complete(Q, S, asked, "asked"), NEW q, q \in DOMAIN asked
  PROVE  RankedOne(Q, asked, none, q)
<1>1. q \in Query
  BY DEF Eligible, Complete
<1>2. /\ SimOf(asked, q) = Similarity(Q, q, "asked") /\ Similarity(Q, q, "asked") \in Nat
      /\ asked[q].at = Q[q].at /\ Q[q].at \in Nat
  BY <1>1, SimilarityOK DEF Complete
<1> QED
  BY <1>2 DEF Rank, RankedOne

(* If no search left out a row and nobody saved meanwhile, the answer is   *)
(* the best LimitK of all rows by the weighted score and recency           *)
(* (text2sql/pg_context).                                                  *)
THEOREM SimilarTopHolds == Spec => []SimilarTop
<1>1. ASSUME IInv
      PROVE  SimilarTop
  <2> SUFFICES ASSUME NEW r \in {o \in Done("similar") : clean[o]}
               PROVE  LET Q == before[r].queries
                          Score(q) == IF call[r].intent
                                      THEN 6 * Similarity(Q, q, "meant") + 4 * Similarity(Q, q, "asked")
                                      ELSE Similarity(Q, q, "asked")
                          all == Eligible(Q, "asked")
                                   \cup (IF call[r].intent THEN Eligible(Q, "meant") ELSE {})
                          whole == /\ DOMAIN reads[r].question = Eligible(Q, "asked")
                                   /\ call[r].intent => DOMAIN reads[r].intent = Eligible(Q, "meant")
                          answer == reads[r].similar
                      IN  whole =>
                            /\ answer \subseteq all
                            /\ answer = all \/ Cardinality(answer) = LimitK
                            /\ Cardinality(answer) <= LimitK
                            /\ \A q \in answer, p \in all \ answer :
                                 Score(p) < Score(q) \/ (Score(p) = Score(q) /\ Q[p].at <= Q[q].at)
    BY DEF SimilarTop, Similarity
  <2>1. r \in Request /\ pc[r] = "done" /\ call[r].op = "similar" /\ clean[r]
    BY DEF Done
  <2>2. SimilarOK(r) /\ HistoryOK(r)
    BY <1>1, <2>1 DEF IInv, RequestOK
  <2>3. PICK Q \in [Query -> QueryRow \cup {None}] : Q = before[r].queries
    BY <1>1, <2>1, <2>2 DEF IInv, TypeOK, HistoryOK
  <2>4. PICK asked, meant : asked = reads[r].question /\ meant = reads[r].intent
    OBVIOUS
  <2>5. PICK answer : answer = reads[r].similar
    OBVIOUS
  <2>6. call[r].intent \in BOOLEAN /\ SearchedOK(r, asked, "asked")
    BY <2>1, <2>2, <2>4 DEF SimilarOK
  <2>7. PICK S \in SUBSET Query : asked = HitsOf(Q, S, "asked")
    BY <2>1, <2>3, <2>6 DEF SearchedOK, Eligible
  <2>8. ASSUME call[r].intent, DOMAIN asked = Eligible(Q, "asked"),
               DOMAIN meant = Eligible(Q, "meant")
        PROVE  LET Score(q) == 6 * Similarity(Q, q, "meant") + 4 * Similarity(Q, q, "asked")
                   all == Eligible(Q, "asked") \cup Eligible(Q, "meant")
               IN  /\ answer \subseteq all
                   /\ answer = all \/ Cardinality(answer) = LimitK
                   /\ Cardinality(answer) <= LimitK
                   /\ \A q \in answer, p \in all \ answer :
                        Score(p) < Score(q) \/ (Score(p) = Score(q) /\ Q[p].at <= Q[q].at)
    <3>1. SearchedOK(r, meant, "meant") /\ answer \in Top(TRUE, asked, meant)
      BY <2>1, <2>2, <2>4, <2>5, <2>8 DEF SimilarOK
    <3>2. PICK T \in SUBSET Query : meant = HitsOf(Q, T, "meant")
      BY <2>1, <2>3, <3>1 DEF SearchedOK, Eligible
    <3>3. PICK M : M = Merged(asked, meant)
      OBVIOUS
    <3>4. M = Eligible(Q, "asked") \cup Eligible(Q, "meant") /\ IsFiniteSet(M)
      BY <2>8, <3>3, EligibleFinite DEF Merged
    <3>5. /\ answer \subseteq M /\ (answer = M \/ Cardinality(answer) = LimitK)
          /\ Cardinality(answer) <= LimitK
          /\ \A q \in answer : \A p \in M \ answer :
               ~Above(Rank(TRUE, asked, meant, p), Rank(TRUE, asked, meant, q))
      <4>1. /\ answer \in FirstOf(M, LimitK)
            /\ \A q \in answer, p \in M \ answer :
                 ~Above(Rank(TRUE, asked, meant, p), Rank(TRUE, asked, meant, q))
        BY <3>1, <3>3 DEF Top
      <4>2. /\ answer \subseteq M /\ (answer = M \/ Cardinality(answer) = LimitK)
            /\ Cardinality(answer) <= LimitK
        BY <3>4, <4>1, FirstOfOK, SearchAssumption
      <4> QED
        BY <4>1, <4>2
    <3>6. Complete(Q, S, asked, "asked") /\ Complete(Q, T, meant, "meant")
      BY <2>7, <2>8, <3>2 DEF Complete
    <3>7. ASSUME NEW q \in answer, NEW p \in M \ answer
          PROVE  LET Score(x) == 6 * Similarity(Q, x, "meant") + 4 * Similarity(Q, x, "asked")
                 IN  Score(p) < Score(q) \/ (Score(p) = Score(q) /\ Q[p].at <= Q[q].at)
      <4>1. p \in Merged(asked, meant) /\ q \in Merged(asked, meant)
        BY <3>3, <3>5
      <4>2. PICK a \in Nat, b \in Nat :
              /\ Rank(TRUE, asked, meant, p) = <<a, b>> /\ b = Q[p].at
              /\ a = 6 * Similarity(Q, p, "meant") + 4 * Similarity(Q, p, "asked")
        <5>1. RankedBoth(Q, asked, meant, p)
          BY <3>6, <4>1, RankOfBoth
        <5> QED
          BY <5>1 DEF RankedBoth, Weighted
      <4>3. PICK c \in Nat, d \in Nat :
              /\ Rank(TRUE, asked, meant, q) = <<c, d>> /\ d = Q[q].at
              /\ c = 6 * Similarity(Q, q, "meant") + 4 * Similarity(Q, q, "asked")
        <5>1. RankedBoth(Q, asked, meant, q)
          BY <3>6, <4>1, RankOfBoth
        <5> QED
          BY <5>1 DEF RankedBoth, Weighted
      <4>4. ~Above(<<a, b>>, <<c, d>>)
        BY <3>5, <4>2, <4>3
      <4>5. a < c \/ (a = c /\ b <= d)
        BY <4>4, NotAbove
      <4> QED
        BY <4>2, <4>3, <4>5
    <3> QED
      BY <3>4, <3>5, <3>7
  <2>9. ASSUME ~call[r].intent, DOMAIN asked = Eligible(Q, "asked")
        PROVE  LET Score(q) == Similarity(Q, q, "asked")
                   all == Eligible(Q, "asked")
               IN  /\ answer \subseteq all
                   /\ answer = all \/ Cardinality(answer) = LimitK
                   /\ Cardinality(answer) <= LimitK
                   /\ \A q \in answer, p \in all \ answer :
                        Score(p) < Score(q) \/ (Score(p) = Score(q) /\ Q[p].at <= Q[q].at)
    <3>1. answer \in Top(FALSE, asked, <<>>)
      BY <2>1, <2>2, <2>4, <2>5, <2>9 DEF SimilarOK
    <3>2. PICK M : M = Merged(asked, <<>>)
      OBVIOUS
    <3>3. M = Eligible(Q, "asked") /\ IsFiniteSet(M)
      <4>1. DOMAIN <<>> = {}
        OBVIOUS
      <4> QED
        BY <2>9, <3>2, <4>1, EligibleFinite DEF Merged
    <3>4. PICK none : none = <<>>
      OBVIOUS
    <3>5. /\ answer \subseteq M /\ (answer = M \/ Cardinality(answer) = LimitK)
          /\ Cardinality(answer) <= LimitK
          /\ \A q \in answer : \A p \in M \ answer :
               ~Above(Rank(FALSE, asked, none, p), Rank(FALSE, asked, none, q))
      <4>1. /\ answer \in FirstOf(M, LimitK)
            /\ \A q \in answer, p \in M \ answer :
                 ~Above(Rank(FALSE, asked, none, p), Rank(FALSE, asked, none, q))
        BY <3>1, <3>2, <3>4 DEF Top
      <4>2. /\ answer \subseteq M /\ (answer = M \/ Cardinality(answer) = LimitK)
            /\ Cardinality(answer) <= LimitK
        BY <3>3, <4>1, FirstOfOK, SearchAssumption
      <4> QED
        BY <4>1, <4>2
    <3>6. Complete(Q, S, asked, "asked")
      BY <2>7, <2>9 DEF Complete
    <3>7. ASSUME NEW q \in answer, NEW p \in M \ answer
          PROVE  \/ Similarity(Q, p, "asked") < Similarity(Q, q, "asked")
                 \/ /\ Similarity(Q, p, "asked") = Similarity(Q, q, "asked")
                    /\ Q[p].at <= Q[q].at
      <4>1. p \in DOMAIN asked /\ q \in DOMAIN asked
        BY <2>9, <3>3, <3>5
      <4>2. PICK a \in Nat, b \in Nat :
              /\ Rank(FALSE, asked, none, p) = <<a, b>> /\ b = Q[p].at
              /\ a = Similarity(Q, p, "asked")
        <5>1. RankedOne(Q, asked, none, p)
          BY <3>4, <3>6, <4>1, RankOfQuestion
        <5> QED
          BY <5>1 DEF RankedOne
      <4>3. PICK c \in Nat, d \in Nat :
              /\ Rank(FALSE, asked, none, q) = <<c, d>> /\ d = Q[q].at
              /\ c = Similarity(Q, q, "asked")
        <5>1. RankedOne(Q, asked, none, q)
          BY <3>4, <3>6, <4>1, RankOfQuestion
        <5> QED
          BY <5>1 DEF RankedOne
      <4>4. ~Above(<<a, b>>, <<c, d>>)
        BY <3>5, <4>2, <4>3
      <4>5. a < c \/ (a = c /\ b <= d)
        BY <4>4, NotAbove
      <4> QED
        BY <4>2, <4>3, <4>5
    <3> QED
      BY <3>3, <3>5, <3>7
  <2>10. CASE call[r].intent
    BY <2>3, <2>4, <2>5, <2>8, <2>10
  <2>11. CASE ~call[r].intent
    BY <2>3, <2>4, <2>5, <2>9, <2>11
  <2> QED
    BY <2>6, <2>10, <2>11
<1> QED
  BY <1>1, InductiveInvariant, PTL
=============================================================================
