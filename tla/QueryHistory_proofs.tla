------------------------ MODULE QueryHistory_proofs ------------------------
(***************************************************************************)
(* Proofs about QueryHistory, for every finite set of requests, every set  *)
(* of questions, tables, columns and runs, and for every bound.            *)
(***************************************************************************)
EXTENDS QueryHistoryInv, FiniteSetTheorems, TLAPS

USE DEF tables, given, local

(* Before the first call nothing is stored.                                *)
LEMMA InitInv == Init => IInv
<1> SUFFICES ASSUME Init
             PROVE  IInv
  OBVIOUS
<1>1. TypeOK
  BY HistoryAssumption DEF Init, TypeOK, PC
<1>2. LocalsOK /\ CleanOK
  BY DEF Init, LocalsOK, CleanOK, Writing, Using
<1>3. SeenIsExact /\ UsageHasRow
  BY DEF Init, SeenIsExact, UsageHasRow, UsageOf
<1> QED
  BY <1>1, <1>2, <1>3 DEF IInv

(* What a statement leaves alone when request r executes it: the calls,    *)
(* the clock, everyone else's locals, and the rows of other questions.     *)
OnlyOf(r) ==
  /\ UNCHANGED <<query, run, at>>
  /\ \A p \in Request \ {r} :
       /\ pc'[p] = pc[p] /\ over'[p] = over[p] /\ todo'[p] = todo[p]
       /\ clean'[p] = clean[p] /\ stored'[p] = stored[p]
  /\ \A q \in Query \ {query[r]} : rows'[q] = rows[q]
  /\ \A q \in Query \ {query[r]} : \A u \in Used : <<q, u>> \in usage' <=> <<q, u>> \in usage

(* A statement of r does not reach the clean requests: they are on other   *)
(* questions.                                                              *)
LEMMA OthersUndisturbed ==
  ASSUME TypeOK, LocalsOK, CleanOK, NEW r \in InFlight, OnlyOf(r),
         pc'[r] # "idle"
  PROVE  \A p \in Request \ {r} :
           clean'[p] /\ pc'[p] # "idle" => Alone(p)' /\ Progress(p)'
<1> SUFFICES ASSUME NEW p \in Request \ {r}, clean'[p], pc'[p] # "idle"
             PROVE  Alone(p)' /\ Progress(p)'
  OBVIOUS
<1>1. r \in Request /\ clean[p] /\ pc[p] # "idle" /\ pc'[p] = pc[p]
  BY DEF OnlyOf, InFlight
<1>2. Alone(p) /\ Progress(p)
  BY <1>1 DEF CleanOK
<1>3. query[r] # query[p] /\ query[p] \in Query
  BY <1>1, <1>2 DEF Alone, LocalsOK
<1>4. Alone(p)'
  BY <1>1, <1>2, <1>3 DEF Alone, OnlyOf, InFlight
<1>5. rows'[query[p]] = rows[query[p]] /\ UsageOf(query[p])' = UsageOf(query[p])
  BY <1>3 DEF OnlyOf, UsageOf
<1>6. Progress(p)'
  BY <1>1, <1>2, <1>5 DEF Progress, RowIsOf, HoldsRun, OnlyOf, Using
<1> QED
  BY <1>4, <1>6

(* SELECT.                                                                 *)
LEMMA ReadInv ==
  ASSUME IInv, NEW r \in Request, ReadExisting(r)
  PROVE  IInv'
<1> USE DEF IInv
<1>1. TypeOK'
  BY DEF TypeOK, ReadExisting, Goto, PC, ShouldOverwrite, ShouldOverwriteContext, Before
<1>2. LocalsOK'
  BY DEF TypeOK, LocalsOK, ReadExisting, Goto, Writing, Using
<1>3. SeenIsExact' /\ UsageHasRow'
  BY DEF ReadExisting, SeenIsExact, UsageHasRow, Counted, UsageOf
<1>4. r \in InFlight /\ OnlyOf(r) /\ pc'[r] \in Writing
  BY DEF ReadExisting, InFlight, OnlyOf, Goto, TypeOK, Writing
<1>5. clean'[r] => Alone(r)' /\ Progress(r)'
  BY DEF TypeOK, CleanOK, Alone, Progress, ReadExisting, InFlight, Goto, Using
<1>6. CleanOK'
  BY <1>4, <1>5, OthersUndisturbed DEF CleanOK, Writing
<1> QED
  BY <1>1, <1>2, <1>3, <1>6

(* Counting one more request.                                              *)
LEMMA CountOneMore ==
  ASSUME TypeOK, NEW r \in Request, ~stored[r],
         stored' = [stored EXCEPT ![r] = TRUE], query' = query
  PROVE  /\ Cardinality(Counted(query[r])') = Cardinality(Counted(query[r])) + 1
         /\ \A q \in Query \ {query[r]} : Counted(q)' = Counted(q)
<1>1. IsFiniteSet(Counted(query[r]))
  BY HistoryAssumption, FS_Subset DEF Counted
<1>2. r \notin Counted(query[r])
  BY DEF Counted
<1>3. Counted(query[r])' = Counted(query[r]) \cup {r}
  BY DEF TypeOK, Counted
<1>4. Cardinality(Counted(query[r])') = Cardinality(Counted(query[r])) + 1
  BY <1>1, <1>2, <1>3, FS_AddElement
<1>5. \A q \in Query \ {query[r]} : Counted(q)' = Counted(q)
  BY DEF TypeOK, Counted
<1> QED
  BY <1>4, <1>5

(* INSERT of a new row.                                                    *)
LEMMA InsertRowInv ==
  ASSUME IInv, NEW r \in Request, InsertRow(r)
  PROVE  IInv'
<1> USE DEF IInv
<1> DEFINE new == [run |-> run[r], at |-> at[r], score |-> run[r].score,
                   scoreAt |-> at[r], seen |-> 1, used |-> {}]
<1>1. /\ query[r] \in Query /\ run[r] \in Run /\ at[r] \in Nat
      /\ ~stored[r] /\ r \in InFlight
  BY HistoryAssumption DEF TypeOK, LocalsOK, InsertRow, Writing, InFlight
<1>2. new \in Row
  BY <1>1 DEF Row, Run
<1>3. rows' = [rows EXCEPT ![query[r]] = new]
  BY DEF InsertRow
<1>4. new # None
  BY <1>2, HistoryAssumption
<1>5. TypeOK'
  <2>1. rows' \in [Query -> Row \cup {None}]
    BY <1>2, <1>3 DEF TypeOK
  <2>2. pc' \in [Request -> PC] /\ stored' \in [Request -> BOOLEAN]
    BY DEF TypeOK, InsertRow, Goto, PC, AfterWrite
  <2> QED
    BY <2>1, <2>2 DEF TypeOK, InsertRow
<1>6. LocalsOK'
  <2>1. ASSUME NEW p \in Request, stored'[p]
        PROVE  query[p] \in Query /\ rows'[query[p]] # None
    BY <2>1, <1>1, <1>3, <1>4 DEF TypeOK, LocalsOK, InsertRow
  <2>2. /\ pc' = [pc EXCEPT ![r] = AfterWrite(r)]
        /\ UNCHANGED <<query, run, over, todo>>
        /\ \A p \in Request \ {r} : stored'[p] = stored[p]
    BY DEF InsertRow, Goto, TypeOK
  <2> QED
    BY <1>1, <2>1, <2>2 DEF TypeOK, LocalsOK, InsertRow, AfterWrite, Writing, Using
<1>7. Counted(query[r]) = {}
  BY DEF LocalsOK, InsertRow, Counted
<1>8. Cardinality(Counted(query[r])') = 1
  <2>1. Cardinality(Counted(query[r])') = Cardinality(Counted(query[r])) + 1
    BY <1>1, CountOneMore DEF InsertRow
  <2>2. Cardinality(Counted(query[r])) = 0
    BY <1>7, FS_EmptySet
  <2> QED
    BY <2>1, <2>2
<1>9. SeenIsExact'
  <2> SUFFICES ASSUME NEW q \in Query, rows'[q] # None
               PROVE  rows'[q].seen = Cardinality(Counted(q)')
    BY DEF SeenIsExact
  <2>1. CASE q = query[r]
    <3>1. rows'[q].seen = 1
      BY <2>1, <1>1, <1>3 DEF TypeOK
    <3>2. Counted(q)' = Counted(query[r])'
      BY <2>1 DEF Counted, InsertRow
    <3> QED
      BY <3>1, <3>2, <1>8
  <2>2. CASE q # query[r]
    BY <2>2, <1>1, <1>3, CountOneMore DEF SeenIsExact, InsertRow, TypeOK
  <2> QED
    BY <2>1, <2>2
<1>10. UsageHasRow'
  BY <1>1, <1>3, <1>4 DEF TypeOK, UsageHasRow, UsageOf, InsertRow
<1>11. OnlyOf(r) /\ pc'[r] # "idle"
  BY <1>1, <1>3 DEF InsertRow, OnlyOf, Goto, TypeOK, AfterWrite
<1>12. clean'[r] => Alone(r)' /\ Progress(r)'
  <2> SUFFICES ASSUME clean'[r]
               PROVE  Alone(r)' /\ Progress(r)'
    OBVIOUS
  <2>1. Alone(r)'
    BY DEF InsertRow, CleanOK, Alone, InFlight, Goto, TypeOK
  <2>2. RowIsOf(r)' /\ UsageOf(query[r])' = {} /\ rows'[query[r]].used = {}
    BY <1>1, <1>3, <1>4 DEF RowIsOf, InsertRow, TypeOK, UsageHasRow, UsageOf
  <2>3. Progress(r)'
    BY <1>1, <2>2 DEF Progress, InsertRow, Goto, AfterWrite, TypeOK, Using,
       RowIsOf, HoldsRun
  <2> QED
    BY <2>1, <2>3
<1>13. CleanOK'
  BY <1>1, <1>11, <1>12, OthersUndisturbed DEF CleanOK
<1> QED
  BY <1>5, <1>6, <1>9, <1>10, <1>13

(* UPDATE of the row read earlier, which may be gone or another one.       *)
LEMMA UpdateRowInv ==
  ASSUME IInv, NEW r \in Request, UpdateRow(r)
  PROVE  IInv'
<1> USE DEF IInv
<1> DEFINE row == rows[query[r]]
<1>1. /\ query[r] \in Query /\ run[r] \in Run /\ at[r] \in Nat
      /\ ~stored[r] /\ r \in InFlight
  BY HistoryAssumption DEF TypeOK, LocalsOK, UpdateRow, Writing, InFlight
<1>2. row # None => Updated(r, row) \in Row /\ Updated(r, row) # None
  <2>1. row # None => row \in Row
    BY <1>1 DEF TypeOK
  <2>2. row # None => Updated(r, row) \in Row
    BY <1>1, <2>1 DEF Row, Run, Updated
  <2> QED
    BY <2>2, HistoryAssumption
<1>3. /\ row = None => rows' = rows /\ stored' = stored
      /\ row # None => /\ rows' = [rows EXCEPT ![query[r]] = Updated(r, row)]
                       /\ stored' = [stored EXCEPT ![r] = TRUE]
  BY DEF UpdateRow
<1>4. TypeOK'
  <2>1. rows \in [Query -> Row \cup {None}] /\ stored \in [Request -> BOOLEAN]
    BY DEF TypeOK
  <2>2. ASSUME row = None
        PROVE  rows' = rows /\ stored' = stored
    BY <1>3, <2>2
  <2>3. ASSUME row # None
        PROVE  /\ rows' = [rows EXCEPT ![query[r]] = Updated(r, row)]
               /\ stored' = [stored EXCEPT ![r] = TRUE]
               /\ Updated(r, row) \in Row
    BY <1>2, <1>3, <2>3
  <2>4. pc' \in [Request -> PC]
    BY DEF TypeOK, UpdateRow, Goto, PC, AfterWrite
  <2> HIDE DEF row, IInv
  <2>5. rows' \in [Query -> Row \cup {None}] /\ stored' \in [Request -> BOOLEAN]
    BY <1>1, <2>1, <2>2, <2>3
  <2> QED
    BY <2>4, <2>5 DEF IInv, TypeOK, UpdateRow
<1>5. LocalsOK'
  <2>1. ASSUME NEW p \in Request, stored'[p]
        PROVE  query[p] \in Query /\ rows'[query[p]] # None
    BY <2>1, <1>1, <1>2, <1>3 DEF TypeOK, LocalsOK
  <2>2. /\ pc' = [pc EXCEPT ![r] = AfterWrite(r)]
        /\ UNCHANGED <<query, run, over, todo>>
        /\ \A p \in Request \ {r} : stored'[p] = stored[p]
    BY <1>3 DEF UpdateRow, Goto, TypeOK
  <2> QED
    BY <1>1, <2>1, <2>2 DEF TypeOK, LocalsOK, UpdateRow, AfterWrite, Writing, Using
<1>6. SeenIsExact'
  <2> SUFFICES ASSUME NEW q \in Query, rows'[q] # None
               PROVE  rows'[q].seen = Cardinality(Counted(q)')
    BY DEF SeenIsExact
  <2>1. CASE row = None
    BY <2>1, <1>3 DEF SeenIsExact, UpdateRow, Counted
  <2>2. CASE row # None /\ q = query[r]
    BY <2>2, <1>1, <1>3, CountOneMore DEF SeenIsExact, UpdateRow, TypeOK, Updated
  <2>3. CASE row # None /\ q # query[r]
    BY <2>3, <1>1, <1>3, CountOneMore DEF SeenIsExact, UpdateRow, TypeOK
  <2> QED
    BY <2>1, <2>2, <2>3
<1>7. UsageHasRow'
  BY <1>1, <1>2, <1>3 DEF TypeOK, UsageHasRow, UsageOf, UpdateRow
<1>8. OnlyOf(r) /\ pc'[r] # "idle"
  BY <1>1, <1>3 DEF UpdateRow, OnlyOf, Goto, TypeOK, AfterWrite
<1>9. clean'[r] => Alone(r)' /\ Progress(r)'
  <2> SUFFICES ASSUME clean'[r]
               PROVE  Alone(r)' /\ Progress(r)'
    OBVIOUS
  <2>1. Alone(r)'
    BY DEF UpdateRow, CleanOK, Alone, InFlight, Goto, TypeOK
  <2>2. row # None
    BY DEF UpdateRow, CleanOK, Progress
  <2>3. over[r] => RowIsOf(r)'
    BY <1>1, <1>2, <1>3, <2>2 DEF RowIsOf, UpdateRow, TypeOK, Updated
  <2>4. Progress(r)'
    BY <1>1, <2>3 DEF Progress, UpdateRow, Goto, AfterWrite, TypeOK, Using,
       RowIsOf, HoldsRun
  <2> QED
    BY <2>1, <2>4
<1>10. CleanOK'
  BY <1>1, <1>8, <1>9, OthersUndisturbed DEF CleanOK
<1> QED
  BY <1>4, <1>5, <1>6, <1>7, <1>10

(* InsertConflicts and an exception: the call is over, nothing is written. *)
LEMMA StopInv ==
  ASSUME IInv, NEW r \in InFlight, InsertConflicts(r) \/ Raises(r)
  PROVE  IInv'
<1> USE DEF IInv
<1>1. /\ r \in Request /\ UNCHANGED <<tables, now, local, stored, apart>>
      /\ pc' = [pc EXCEPT ![r] = "failed"]
      /\ clean' = clean \/ clean' = [clean EXCEPT ![r] = FALSE]
      /\ faults' \in 0..MaxFaults
  BY HistoryAssumption DEF InsertConflicts, Raises, Goto, InFlight, TypeOK
<1>2. TypeOK'
  BY <1>1 DEF TypeOK, PC
<1>3. LocalsOK'
  BY <1>1 DEF TypeOK, LocalsOK, Writing, Using, InFlight
<1>4. SeenIsExact' /\ UsageHasRow'
  BY <1>1 DEF SeenIsExact, UsageHasRow, Counted, UsageOf
<1>5. OnlyOf(r) /\ pc'[r] = "failed"
  BY <1>1 DEF OnlyOf, TypeOK
<1>6. clean'[r] => Alone(r)' /\ Progress(r)'
  BY <1>1 DEF TypeOK, CleanOK, Alone, Progress, InFlight, Using
<1>7. CleanOK'
  BY <1>5, <1>6, OthersUndisturbed DEF CleanOK
<1> QED
  BY <1>2, <1>3, <1>4, <1>7

(* The DELETEs of the usage of the earlier run.                            *)
LEMMA DropInv ==
  ASSUME IInv, NEW r \in Request, DropTables(r) \/ DropColumns(r)
  PROVE  IInv'
<1> USE DEF IInv
<1>1. /\ query[r] \in Query /\ run[r] \in Run /\ run[r].used \subseteq Used
      /\ r \in InFlight
  BY DEF LocalsOK, DropTables, DropColumns, Using, InFlight, Run
<1>2. TypeOK'
  BY <1>1 DEF TypeOK, DropTables, DropColumns, Goto, PC, WithoutUsage
<1>3. LocalsOK'
  BY DEF TypeOK, LocalsOK, DropTables, DropColumns, Goto, Writing, Using
<1>4. SeenIsExact'
  BY DEF SeenIsExact, Counted, DropTables, DropColumns
<1>5. UsageHasRow'
  BY DEF UsageHasRow, UsageOf, DropTables, DropColumns, WithoutUsage
<1>6. OnlyOf(r) /\ pc'[r] # "idle"
  BY <1>1 DEF OnlyOf, DropTables, DropColumns, Goto, WithoutUsage, TypeOK
<1>7. clean'[r] => Alone(r)' /\ Progress(r)'
  <2> SUFFICES ASSUME clean'[r]
               PROVE  Alone(r)' /\ Progress(r)'
    OBVIOUS
  <2>1. clean[r] /\ pc[r] # "idle" /\ Alone(r) /\ Progress(r)
    BY DEF DropTables, DropColumns, CleanOK
  <2>2. Alone(r)'
    BY <2>1 DEF DropTables, DropColumns, Alone, InFlight, Goto, TypeOK
  <2>3. ASSUME DropTables(r)
        PROVE  Progress(r)'
    <3>1. UsageOf(query[r])' \cap Table = {}
      BY <2>3 DEF DropTables, UsageOf, WithoutUsage
    <3> QED
      BY <2>1, <2>3, <3>1 DEF DropTables, Progress, RowIsOf, Goto, TypeOK, Using
  <2>4. ASSUME DropColumns(r)
        PROVE  Progress(r)'
    <3>1. UsageOf(query[r])' = {}
      BY <2>1, <2>4 DEF DropColumns, UsageOf, WithoutUsage, Progress, Used
    <3>2. todo'[r] = run[r].used
      BY <2>4 DEF DropColumns, TypeOK
    <3> QED
      BY <2>1, <2>4, <3>1, <3>2 DEF DropColumns, Progress, RowIsOf, Goto, TypeOK, Using
  <2> QED
    BY <2>2, <2>3, <2>4
<1>8. CleanOK'
  BY <1>1, <1>6, <1>7, OthersUndisturbed DEF CleanOK
<1> QED
  BY <1>2, <1>3, <1>4, <1>5, <1>8

(* INSERT of one usage row, or the foreign key refuses it.                 *)
LEMMA InsertUsageInv ==
  ASSUME IInv, NEW r \in Request, NEW u \in Used, InsertUsage(r, u)
  PROVE  IInv'
<1> USE DEF IInv
<1>1. /\ query[r] \in Query /\ run[r] \in Run /\ u \in todo[r] /\ pc[r] = "use"
      /\ todo[r] \subseteq run[r].used /\ r \in InFlight
  BY DEF LocalsOK, InsertUsage, NextUsed, Using, InFlight
<1> DEFINE refused == u \in Known /\ rows[query[r]] = None
<1>2. /\ refused => /\ pc' = [pc EXCEPT ![r] = "failed"]
                    /\ UNCHANGED <<usage, todo>>
      /\ ~refused => /\ todo' = [todo EXCEPT ![r] = @ \ {u}]
                     /\ usage' = Recorded(query[r], u) /\ pc' = pc
      /\ UNCHANGED <<rows, now, given, over, context, stored, clean, apart, faults>>
  BY DEF InsertUsage, Goto
<1>3. TypeOK'
  BY <1>1, <1>2 DEF TypeOK, PC, Recorded
<1>4. LocalsOK'
  BY <1>1, <1>2 DEF TypeOK, LocalsOK, Writing, Using
<1>5. SeenIsExact'
  BY <1>2 DEF SeenIsExact, Counted
<1>6. UsageHasRow'
  BY <1>2 DEF UsageHasRow, UsageOf, Recorded
<1>7. OnlyOf(r) /\ pc'[r] # "idle"
  BY <1>1, <1>2 DEF OnlyOf, Recorded, TypeOK
<1>8. clean'[r] => Alone(r)' /\ Progress(r)'
  <2> SUFFICES ASSUME clean'[r]
               PROVE  Alone(r)' /\ Progress(r)'
    OBVIOUS
  <2>1. clean[r] /\ pc[r] # "idle" /\ Alone(r) /\ Progress(r)
    BY <1>1, <1>2 DEF CleanOK
  <2>2. Alone(r)'
    BY <1>1, <1>2, <2>1 DEF Alone, InFlight, TypeOK
  <2>3. ~refused
    BY <1>1, <2>1 DEF Progress, RowIsOf, Using
  <2>4. todo'[r] = todo[r] \ {u}
    BY <1>2, <2>3 DEF TypeOK
  <2>5. UsageOf(query[r])' = (run[r].used \ todo'[r]) \cap Known
    <3>1. \A w \in Used : w \in UsageOf(query[r])'
            <=> w \in UsageOf(query[r]) \/ (w = u /\ u \in Known)
      BY <1>2, <2>3 DEF UsageOf, Recorded
    <3>2. UsageOf(query[r]) = (run[r].used \ todo[r]) \cap Known
      BY <1>1, <2>1 DEF Progress
    <3>3. run[r].used \subseteq Used
      BY <1>1 DEF Run
    <3> QED
      BY <1>1, <2>4, <3>1, <3>2, <3>3 DEF UsageOf
  <2>6. Progress(r)'
    BY <1>1, <1>2, <2>1, <2>3, <2>5 DEF Progress, RowIsOf, Using
  <2> QED
    BY <2>2, <2>6
<1>9. CleanOK'
  BY <1>1, <1>7, <1>8, OthersUndisturbed DEF CleanOK
<1> QED
  BY <1>3, <1>4, <1>5, <1>6, <1>9

(* UPDATE of tables_used and columns_used.                                 *)
LEMMA StoreListsInv ==
  ASSUME IInv, NEW r \in Request, StoreLists(r)
  PROVE  IInv'
<1> USE DEF IInv
<1> DEFINE row == rows[query[r]]
           new == [row EXCEPT !.used = run[r].used]
<1>1. /\ query[r] \in Query /\ run[r] \in Run /\ pc[r] = "use" /\ r \in InFlight
      /\ run[r].used \subseteq Used
  BY DEF LocalsOK, StoreLists, Using, InFlight, Run
<1>2. row # None =>
        /\ row \in Row /\ new \in Row /\ new # None
        /\ new.run = row.run /\ new.at = row.at /\ new.seen = row.seen
        /\ new.used = run[r].used
  BY <1>1, HistoryAssumption DEF TypeOK, Row
<1>3. rows' = IF row = None THEN rows ELSE [rows EXCEPT ![query[r]] = new]
  BY <1>1 DEF StoreLists, TypeOK
<1>4. /\ rows' \in [Query -> Row \cup {None}]
      /\ \A q \in Query : /\ rows'[q] = None <=> rows[q] = None
                          /\ rows'[q] # None => rows'[q].seen = rows[q].seen
      /\ \A q \in Query \ {query[r]} : rows'[q] = rows[q]
  BY <1>1, <1>2, <1>3 DEF TypeOK
<1>5. TypeOK'
  BY <1>4 DEF TypeOK, StoreLists, Goto, PC
<1>6. LocalsOK'
  BY <1>4 DEF TypeOK, LocalsOK, StoreLists, Goto, Writing, Using
<1>7. SeenIsExact'
  BY <1>4 DEF SeenIsExact, Counted, StoreLists
<1>8. UsageHasRow'
  BY <1>4 DEF UsageHasRow, UsageOf, StoreLists
<1>9. OnlyOf(r) /\ pc'[r] # "idle"
  BY <1>1, <1>4 DEF OnlyOf, StoreLists, Goto, TypeOK
<1>10. clean'[r] => Alone(r)' /\ Progress(r)'
  <2> SUFFICES ASSUME clean'[r]
               PROVE  Alone(r)' /\ Progress(r)'
    OBVIOUS
  <2>1. clean[r] /\ pc[r] # "idle" /\ Alone(r) /\ Progress(r)
    BY <1>1 DEF StoreLists, CleanOK
  <2>2. Alone(r)'
    BY <2>1 DEF StoreLists, Alone, InFlight, Goto, TypeOK
  <2>3. RowIsOf(r) /\ UsageOf(query[r]) = run[r].used \cap Known
    BY <1>1, <2>1 DEF Progress, Using, StoreLists
  <2>4. rows'[query[r]] = new /\ row # None
    BY <1>1, <1>3, <2>3 DEF RowIsOf, TypeOK
  <2>5. HoldsRun(r)'
    BY <1>1, <1>2, <2>3, <2>4 DEF HoldsRun, RowIsOf, StoreLists, UsageOf
  <2>6. Progress(r)'
    BY <1>1, <2>5 DEF Progress, StoreLists, Goto, TypeOK, Using
  <2> QED
    BY <2>2, <2>6
<1>11. CleanOK'
  BY <1>1, <1>9, <1>10, OthersUndisturbed DEF CleanOK
<1> QED
  BY <1>5, <1>6, <1>7, <1>8, <1>11

(* A call that begins takes the clean flag from whoever was on its         *)
(* question; the others stay undisturbed if their question is left alone.  *)
LEMMA BeginUndisturbed ==
  ASSUME TypeOK, LocalsOK, CleanOK, NEW r \in Request, NEW q \in Query, Begin(r, q),
         UNCHANGED <<over, todo>>,
         \A p \in Request \ {r} : pc'[p] = pc[p] /\ run'[p] = run[p] /\ at'[p] = at[p],
         \A o \in Query \ {q} : rows'[o] = rows[o]
                                /\ \A u \in Used : <<o, u>> \in usage' <=> <<o, u>> \in usage
  PROVE  \A p \in Request \ {r} :
           clean'[p] /\ pc'[p] # "idle" => Alone(p)' /\ Progress(p)'
<1> SUFFICES ASSUME NEW p \in Request \ {r}, clean'[p], pc'[p] # "idle"
             PROVE  Alone(p)' /\ Progress(p)'
  OBVIOUS
<1>1. clean[p] /\ pc[p] # "idle" /\ query[p] # q /\ query'[p] = query[p]
      /\ query'[r] = q /\ query[p] \in Query
  BY DEF Begin, TypeOK, LocalsOK
<1>2. Alone(p) /\ Progress(p)
  BY <1>1 DEF CleanOK
<1>3. Alone(p)'
  BY <1>1, <1>2 DEF Alone, InFlight, Begin, TypeOK
<1>4. rows'[query[p]] = rows[query[p]] /\ UsageOf(query[p])' = UsageOf(query[p])
  BY <1>1 DEF UsageOf
<1>5. Progress(p)'
  BY <1>1, <1>2, <1>4 DEF Progress, RowIsOf, HoldsRun, Using
<1> QED
  BY <1>3, <1>5

(* The clean flag of the request that begins says it is alone.             *)
LEMMA BeginAlone ==
  ASSUME TypeOK, NEW r \in Request, NEW q \in Query, Begin(r, q), clean'[r],
         \A p \in Request \ {r} : pc'[p] = pc[p]
  PROVE  Alone(r)'
<1>1. query' = [query EXCEPT ![r] = q] /\ \A o \in InFlight : query[o] # q
  BY DEF Begin, TypeOK
<1>2. ASSUME NEW o \in InFlight' \ {r}
      PROVE  query'[o] # query'[r]
  BY <1>1, <1>2 DEF InFlight, TypeOK
<1> QED
  BY <1>2 DEF Alone

(* save_query is called.                                                   *)
LEMMA SaveQueryInv ==
  ASSUME IInv, NEW r \in Request, NEW q \in Query, NEW x \in Posted, SaveQuery(r, q, x)
  PROVE  IInv'
<1> USE DEF IInv
<1>1. x \in Run /\ pc[r] = "idle" /\ ~stored[r]
  BY HistoryAssumption DEF SaveQuery, Begin, LocalsOK
<1>2. TypeOK'
  BY <1>1 DEF TypeOK, SaveQuery, Begin, Goto, PC
<1>3. LocalsOK'
  BY <1>1 DEF TypeOK, LocalsOK, SaveQuery, Begin, Goto, Writing, Using
<1>4. \A o \in Query : Counted(o)' = Counted(o)
  BY <1>1 DEF TypeOK, Counted, SaveQuery, Begin
<1>5. SeenIsExact' /\ UsageHasRow'
  BY <1>4 DEF SeenIsExact, UsageHasRow, UsageOf, SaveQuery
<1>6. \A p \in Request \ {r} : pc'[p] = pc[p] /\ run'[p] = run[p] /\ at'[p] = at[p]
  BY DEF SaveQuery, Goto, TypeOK
<1>7. pc'[r] = "read"
  BY DEF SaveQuery, Goto, TypeOK
<1>8. clean'[r] => Alone(r)' /\ Progress(r)'
  BY <1>6, <1>7, BeginAlone DEF SaveQuery, Progress, Using
<1>9. CleanOK'
  BY <1>6, <1>8, BeginUndisturbed DEF CleanOK, SaveQuery
<1> QED
  BY <1>2, <1>3, <1>5, <1>9

(* delete_query is called and executes: the usage goes with the row.       *)
LEMMA DeleteQueryInv ==
  ASSUME IInv, NEW r \in Request, NEW q \in Query, DeleteQuery(r, q)
  PROVE  IInv'
<1> USE DEF IInv
<1>1. pc[r] = "idle" /\ ~stored[r] /\ ~over[r]
  BY DEF DeleteQuery, Begin, LocalsOK
<1>2. TypeOK'
  BY <1>1 DEF TypeOK, DeleteQuery, Begin, Goto, PC, Cascade
<1>3. LocalsOK'
  <2>1. \A p \in Request : stored'[p] =>
          stored[p] /\ p # r /\ query'[p] = query[p] /\ query[p] \in Query
          /\ query[p] # q /\ rows'[query[p]] # None
    BY <1>1 DEF TypeOK, LocalsOK, DeleteQuery, Begin
  <2>2. /\ pc' = [pc EXCEPT ![r] = "done"] /\ query' = [query EXCEPT ![r] = q]
        /\ UNCHANGED <<run, at, over, todo>>
    BY DEF DeleteQuery, Begin, Goto
  <2> QED
    BY <1>1, <2>1, <2>2 DEF TypeOK, LocalsOK, Writing, Using
<1>4. \A o \in Query \ {q} : rows'[o] = rows[o] /\ Counted(o)' = Counted(o)
        /\ \A u \in Used : <<o, u>> \in usage' <=> <<o, u>> \in usage
  BY <1>1 DEF TypeOK, DeleteQuery, Begin, Counted, Cascade
<1>5. rows'[q] = None /\ UsageOf(q)' = {}
  BY DEF TypeOK, DeleteQuery, Cascade, UsageOf
<1>6. SeenIsExact'
  BY <1>4, <1>5 DEF SeenIsExact
<1>7. UsageHasRow'
  BY <1>4, <1>5 DEF UsageHasRow, UsageOf
<1>8. \A p \in Request \ {r} : pc'[p] = pc[p] /\ run'[p] = run[p] /\ at'[p] = at[p]
  BY DEF DeleteQuery, Goto, TypeOK
<1>9. pc'[r] = "done" /\ ~over'[r]
  BY <1>1 DEF DeleteQuery, Goto, TypeOK
<1>10. clean'[r] => Alone(r)' /\ Progress(r)'
  BY <1>8, <1>9, BeginAlone DEF DeleteQuery, Progress, Using
<1>11. CleanOK'
  BY <1>4, <1>8, <1>10, BeginUndisturbed DEF CleanOK, DeleteQuery
<1> QED
  BY <1>2, <1>3, <1>6, <1>7, <1>11

(* Time passes.                                                            *)
LEMMA StutterInv == IInv /\ (Tick \/ UNCHANGED vars) => IInv'
<1> SUFFICES ASSUME IInv, Tick \/ UNCHANGED vars
             PROVE  IInv'
  OBVIOUS
<1>1. UNCHANGED <<tables, pc, local, stored, clean, apart, faults>> /\ now' \in 0..MaxTime
  BY HistoryAssumption DEF Tick, vars, IInv, TypeOK
<1>2. TypeOK' /\ LocalsOK'
  BY <1>1 DEF IInv, TypeOK, LocalsOK
<1>3. SeenIsExact' /\ UsageHasRow'
  BY <1>1 DEF IInv, SeenIsExact, UsageHasRow, Counted, UsageOf
<1>4. CleanOK'
  <2>1. \A r \in Request : Alone(r)' <=> Alone(r)
    BY <1>1 DEF Alone, InFlight
  <2>2. ASSUME NEW r \in Request, Progress(r)
        PROVE  Progress(r)'
    <3>1. UNCHANGED <<pc, query, run, at, rows, todo, over, usage>>
      BY <1>1
    <3>2. UsageOf(query[r])' = UsageOf(query[r])
      BY <3>1 DEF UsageOf
    <3> QED
      BY <2>2, <3>1, <3>2 DEF Progress, RowIsOf, HoldsRun, Using
  <2> QED
    BY <1>1, <2>1, <2>2 DEF IInv, CleanOK
<1> QED
  BY <1>2, <1>3, <1>4 DEF IInv

(* IInv is inductive: the statements, calls and exceptions of save_query   *)
(* and delete_query all keep it.                                           *)
THEOREM InductiveInvariant == Spec => []IInv
<1>1. IInv /\ [Next]_vars => IInv'
  <2> SUFFICES ASSUME IInv, [Next]_vars
               PROVE  IInv'
    OBVIOUS
  <2>1. ASSUME NEW r \in Request, Call(r)
        PROVE  IInv'
    BY <2>1, SaveQueryInv, DeleteQueryInv DEF Call
  <2>2. ASSUME NEW r \in Request, Step(r)
        PROVE  IInv'
    <3>1. InsertConflicts(r) => r \in InFlight
      BY DEF InsertConflicts, InFlight
    <3> QED
      BY <2>2, <3>1, ReadInv, InsertRowInv, StopInv, UpdateRowInv, DropInv,
         InsertUsageInv, StoreListsInv DEF Step
  <2>3. ASSUME NEW r \in Request, r \in InFlight /\ Raises(r)
        PROVE  IInv'
    BY <2>3, StopInv
  <2>4. CASE Tick \/ UNCHANGED vars
    BY <2>4, StutterInv
  <2> QED
    BY <2>1, <2>2, <2>3, <2>4 DEF Next
<1> QED
  BY <1>1, InitInv, PTL DEF Spec

(* The rows, the usage and what every coroutine holds are of their types.  *)
THEOREM TypeCorrect == Spec => []TypeOK
<1>1. IInv => TypeOK
  BY DEF IInv
<1> QED
  BY <1>1, InductiveInvariant, PTL

(* No increment of seen_count is ever lost.                                *)
THEOREM SeenIsExactHolds == Spec => []SeenIsExact
<1>1. IInv => SeenIsExact
  BY DEF IInv
<1> QED
  BY <1>1, InductiveInvariant, PTL

(* No usage outlives its question.                                         *)
THEOREM UsageHasRowHolds == Spec => []UsageHasRow
<1>1. IInv => UsageHasRow
  BY DEF IInv
<1> QED
  BY <1>1, InductiveInvariant, PTL

(* An undisturbed overwriting save leaves its own run and usage, whatever  *)
(* failed and concurrent saves left before it.                             *)
THEOREM CleanSaveRecordedHolds == Spec => []CleanSaveRecorded
<1>1. IInv => CleanSaveRecorded
  BY DEF IInv, CleanOK, Progress, CleanSaveRecorded
<1> QED
  BY <1>1, InductiveInvariant, PTL

---------------------------------------------------------------------------
(* Requests that do not overlap.                                           *)

Rank == Int \X Int \X Int \X Int

(* The order of tuples, component by component.                            *)
LEMMA BeforeParts ==
  ASSUME NEW a \in Rank, NEW b \in Rank
  PROVE  Before(a, b) <=>
           \/ a[1] < b[1]
           \/ a[1] = b[1] /\ a[2] < b[2]
           \/ a[1] = b[1] /\ a[2] = b[2] /\ a[3] < b[3]
           \/ a[1] = b[1] /\ a[2] = b[2] /\ a[3] = b[3] /\ a[4] < b[4]
<1>1. \A i : i \in 1..4 <=> i = 1 \/ i = 2 \/ i = 3 \/ i = 4
  OBVIOUS
<1>2. /\ \A j : j \notin 1..(1 - 1)
      /\ \A j : j \in 1..(2 - 1) <=> j = 1
      /\ \A j : j \in 1..(3 - 1) <=> j = 1 \/ j = 2
      /\ \A j : j \in 1..(4 - 1) <=> j = 1 \/ j = 2 \/ j = 3
  OBVIOUS
<1> DEFINE First(i) == a[i] < b[i] /\ \A j \in 1..(i - 1) : a[j] = b[j]
<1>3. /\ First(1) <=> a[1] < b[1]
      /\ First(2) <=> a[1] = b[1] /\ a[2] < b[2]
      /\ First(3) <=> a[1] = b[1] /\ a[2] = b[2] /\ a[3] < b[3]
      /\ First(4) <=> a[1] = b[1] /\ a[2] = b[2] /\ a[3] = b[3] /\ a[4] < b[4]
  BY <1>2
<1>4. Before(a, b) <=> \E i \in 1..4 : First(i)
  BY DEF Before
<1> HIDE DEF First
<1> QED
  BY <1>1, <1>3, <1>4

LEMMA BeforeOrder ==
  ASSUME NEW a \in Rank, NEW b \in Rank, NEW c \in Rank
  PROVE  /\ ~Before(a, a)
         /\ Before(a, b) /\ Before(b, c) => Before(a, c)
<1>1. /\ a[1] \in Int /\ a[2] \in Int /\ a[3] \in Int /\ a[4] \in Int
      /\ b[1] \in Int /\ b[2] \in Int /\ b[3] \in Int /\ b[4] \in Int
      /\ c[1] \in Int /\ c[2] \in Int /\ c[3] \in Int /\ c[4] \in Int
  BY DEF Rank
<1>2. ~Before(a, a)
  BY <1>1, BeforeParts
<1>3. ASSUME Before(a, b), Before(b, c)
      PROVE  Before(a, c)
  BY <1>1, <1>3, BeforeParts
<1> QED
  BY <1>2, <1>3

LEMMA RankType ==
  ASSUME NEW x \in Run, NEW t \in Nat
  PROVE  CandidateRank(x, t) \in Rank
<1>1. x.status \in Int /\ OrWorst(x.steps) \in Int /\ OrWorst(x.ms) \in Int /\ -t \in Int
  BY DEF Run, OrWorst, Worst
<1> QED
  BY <1>1 DEF CandidateRank, Rank

(* Statements that leave the rows alone, or delete one, or store its names *)
(* only, and do not count a request.                                       *)
LEMMA RowsKept ==
  ASSUME SerialInv, apart' => apart,
         \A r \in Request : stored'[r] =>
           stored[r] /\ run'[r] = run[r] /\ at'[r] = at[r] /\ query'[r] = query[r],
         \A q \in Query : rows'[q] # None =>
           /\ rows[q] # None
           /\ rows'[q].run = rows[q].run /\ rows'[q].at = rows[q].at
           /\ rows'[q].score = rows[q].score /\ rows'[q].scoreAt = rows[q].scoreAt
           /\ \A r \in Counted(q) : stored'[r]
  PROVE  Makers' /\ BestRunKept' /\ BestContextKept'
<1>1. ASSUME NEW q \in Query, rows'[q] # None
      PROVE  Counted(q)' = Counted(q)
  BY <1>1 DEF Counted
<1>2. \A q \in Query, r \in Request : r \in Counted(q)' =>
        run'[r] = run[r] /\ at'[r] = at[r]
  BY DEF Counted
<1>3. Makers'
  <2>1. \A r \in Request : stored'[r] => run'[r] \in Run
    BY DEF SerialInv, Makers
  <2>2. ASSUME NEW q \in Query, rows'[q] # None
        PROVE  \E r \in Counted(q)' : run'[r] = rows'[q].run /\ at'[r] = rows'[q].at
    <3>1. PICK r \in Counted(q) : run[r] = rows[q].run /\ at[r] = rows[q].at
      BY <2>2 DEF SerialInv, Makers
    <3>2. r \in Request /\ r \in Counted(q)'
      BY <1>1, <2>2 DEF Counted
    <3>3. run'[r] = run[r] /\ at'[r] = at[r]
      BY <1>2, <3>2
    <3>4. run'[r] = rows'[q].run /\ at'[r] = rows'[q].at
      BY <2>2, <3>1, <3>3
    <3> QED
      BY <3>2, <3>4
  <2> QED
    BY <2>1, <2>2 DEF Makers
<1>4. BestRunKept'
  <2> SUFFICES ASSUME apart', NEW q \in Query, rows'[q] # None,
                      \A r \in Counted(q)' : Plain(run'[r]), NEW r \in Counted(q)'
               PROVE  ~Before(CandidateRank(run'[r], at'[r]),
                              CandidateRank(rows'[q].run, rows'[q].at))
    BY DEF BestRunKept
  <2>1. r \in Counted(q) /\ Counted(q)' \subseteq Request
    BY <1>1 DEF Counted
  <2>2. \A o \in Counted(q) : Plain(run[o])
    BY <1>1, <1>2, <2>1
  <2>3. ~Before(CandidateRank(run[r], at[r]), CandidateRank(rows[q].run, rows[q].at))
    BY <2>1, <2>2 DEF SerialInv, BestRunKept
  <2> QED
    BY <1>2, <2>1, <2>3
<1>5. BestContextKept'
  <2> SUFFICES ASSUME apart', NEW q \in Query, rows'[q] # None, NEW r \in Counted(q)'
               PROVE  /\ run'[r].score <= rows'[q].score
                      /\ run'[r].score = rows'[q].score => at'[r] <= rows'[q].scoreAt
    BY DEF BestContextKept
  <2>1. r \in Counted(q) /\ run'[r] = run[r] /\ at'[r] = at[r]
    BY <1>1, <1>2 DEF Counted
  <2> QED
    BY <2>1 DEF SerialInv, BestContextKept
<1> QED
  BY <1>3, <1>4, <1>5

(* The statement of a lone request leaves nobody else in flight.           *)
LEMMA LoneStep ==
  ASSUME TypeOK, NEW r \in InFlight, Lone, NEW l \in PC, l # "idle", Goto(r, l)
  PROVE  /\ Lone' /\ InFlight' \subseteq {r}
         /\ \A p \in Request \ {r} : pc'[p] \notin Writing
<1>1. InFlight \subseteq {r} /\ r \in Request
  BY DEF Lone, InFlight
<1>2. pc' = [pc EXCEPT ![r] = l]
  BY DEF Goto
<1>3. \A p \in Request \ {r} : pc'[p] = pc[p] /\ p \notin InFlight
  BY <1>1, <1>2 DEF TypeOK
<1>4. InFlight' \subseteq {r}
  BY <1>3 DEF InFlight
<1> QED
  BY <1>3, <1>4 DEF Lone, InFlight, Writing

(* ... nor touches another question.                                       *)
UsageOK(q) ==
  rows[q] # None /\ rows[q].run.meta /\ Settled(q) =>
    /\ UsageOf(q) = rows[q].run.used \cap Known
    /\ rows[q].used = rows[q].run.used

LEMMA UsageElsewhere ==
  ASSUME LocalsOK, UsageKept, NEW r \in InFlight, Lone, OnlyOf(r), UsageOK(query[r])'
  PROVE  UsageKept'
<1>1. query' = query
  BY DEF OnlyOf
<1>2. ASSUME NEW q \in Query, q # query[r]
      PROVE  UsageOK(q)'
  <2>1. rows'[q] = rows[q] /\ UsageOf(q)' = UsageOf(q)
    BY <1>2 DEF OnlyOf, UsageOf
  <2>2. Settled(q)
    BY <1>2 DEF Settled, Lone
  <2> QED
    BY <2>1, <2>2 DEF UsageKept, UsageOK
<1>3. ASSUME NEW q \in Query, q = query[r]
      PROVE  UsageOK(q)'
  BY <1>1, <1>3 DEF UsageOK, UsageOf, Settled
<1> QED
  BY <1>2, <1>3 DEF UsageKept, UsageOK

(* Statements that write no row or only its names.                         *)
LEMMA QuietSerial ==
  ASSUME IInv, IInv', SerialInv, NEW r \in InFlight, OnlyOf(r), NEW l \in PC \ Writing,
         l # "idle", Goto(r, l), UNCHANGED <<stored, apart>>,
         \A q \in Query :
           rows'[q] = rows[q] \/ (rows[q] # None /\ \E S : rows'[q] = [rows[q] EXCEPT !.used = S]),
         \A q \in Query : rows'[q] # None => rows[q] # None,
         apart /\ faults' = 0 => faults = 0 /\ clean' = clean /\ UsageOK(query[r])'
  PROVE  SerialInv'
<1>1. TypeOK /\ LocalsOK /\ UNCHANGED <<query, run, at>>
  BY DEF IInv, OnlyOf
<1>2. ASSUME NEW q \in Query, rows'[q] # None
      PROVE  /\ rows[q] # None
             /\ rows'[q].run = rows[q].run /\ rows'[q].at = rows[q].at
             /\ rows'[q].score = rows[q].score /\ rows'[q].scoreAt = rows[q].scoreAt
  <2>1. rows[q] # None /\ rows[q] \in Row
    BY <1>1, <1>2 DEF TypeOK
  <2>2. CASE rows'[q] = rows[q]
    BY <2>1, <2>2
  <2>3. ASSUME NEW S, rows'[q] = [rows[q] EXCEPT !.used = S]
        PROVE  /\ rows'[q].run = rows[q].run /\ rows'[q].at = rows[q].at
               /\ rows'[q].score = rows[q].score /\ rows'[q].scoreAt = rows[q].scoreAt
    BY <2>1, <2>3 DEF Row
  <2> QED
    BY <2>1, <2>2, <2>3
<1>3. Makers' /\ BestRunKept' /\ BestContextKept'
  BY <1>1, <1>2, RowsKept DEF Counted
<1>4. ASSUME apart'
      PROVE  Lone' /\ Fresh'
  <2>1. Lone /\ pc'[r] = l
    BY <1>1, <1>4 DEF SerialInv, Goto, TypeOK, InFlight
  <2>2. Lone' /\ \A p \in Request \ {r} : pc'[p] \notin Writing
    BY <1>1, <2>1, LoneStep
  <2> QED
    BY <2>1, <2>2 DEF Fresh
<1>5. ASSUME apart', faults' = 0
      PROVE  (\A p \in InFlight' : clean'[p]) /\ UsageKept'
  <2>1. apart /\ faults = 0 /\ Lone /\ UsageKept /\ \A p \in InFlight : clean[p]
    BY <1>5 DEF SerialInv
  <2>2. InFlight' \subseteq {r} /\ clean'[r]
    BY <1>1, <1>5, <2>1, LoneStep
  <2> QED
    BY <1>1, <1>5, <2>1, <2>2, UsageElsewhere
<1> QED
  BY <1>3, <1>4, <1>5 DEF SerialInv

LEMMA StopSerial ==
  ASSUME IInv, IInv', SerialInv, NEW r \in InFlight, InsertConflicts(r) \/ Raises(r)
  PROVE  SerialInv'
<1>1. /\ r \in Request /\ UNCHANGED <<tables, now, local, stored, apart>>
      /\ Goto(r, "failed") /\ pc' = [pc EXCEPT ![r] = "failed"]
      /\ clean' = clean \/ clean' = [clean EXCEPT ![r] = FALSE]
  BY DEF InsertConflicts, Raises, Goto, InFlight
<1>2. OnlyOf(r)
  BY <1>1 DEF OnlyOf, IInv, TypeOK
<1>3. "failed" \in PC \ Writing
  BY DEF PC, Writing
<1>4. ~(apart /\ faults' = 0)
  <2>1. CASE Raises(r)
    <3>1. faults \in Nat
      BY DEF IInv, TypeOK
    <3> QED
      BY <2>1, <3>1 DEF Raises
  <2>2. CASE InsertConflicts(r)
    <3>1. clean[r] => rows[query[r]] = None
      BY <1>1, <2>2 DEF IInv, CleanOK, Progress, InsertConflicts
    <3> QED
      BY <2>2, <3>1 DEF InsertConflicts, SerialInv
  <2> QED
    BY <2>1, <2>2
<1> QED
  BY <1>1, <1>2, <1>3, <1>4, QuietSerial

LEMMA DropSerial ==
  ASSUME IInv, IInv', SerialInv, NEW r \in Request, DropTables(r) \/ DropColumns(r)
  PROVE  SerialInv'
<1>1. /\ r \in InFlight /\ query[r] \in Query
      /\ UNCHANGED <<rows, given, stored, clean, apart, faults>>
  BY DEF DropTables, DropColumns, InFlight, IInv, LocalsOK
<1>2. PICK l \in {"dropColumns", "use"} : Goto(r, l)
  BY DEF DropTables, DropColumns
<1>3. OnlyOf(r)
  BY <1>1 DEF OnlyOf, DropTables, DropColumns, Goto, WithoutUsage, IInv, TypeOK
<1>4. l \in PC \ Writing /\ l # "idle"
  BY DEF PC, Writing
<1>5. ~Settled(query[r])'
  BY <1>1, <1>2 DEF Settled, InFlight, Goto, Using, IInv, TypeOK
<1> QED
  BY <1>1, <1>2, <1>3, <1>4, <1>5, QuietSerial DEF UsageOK

LEMMA InsertUsageSerial ==
  ASSUME IInv, IInv', SerialInv, NEW r \in Request, NEW u \in Used, InsertUsage(r, u)
  PROVE  SerialInv'
<1>1. /\ r \in InFlight /\ query[r] \in Query /\ pc[r] = "use"
      /\ UNCHANGED <<rows, given, stored, clean, apart, faults>>
  BY DEF InsertUsage, InFlight, IInv, LocalsOK
<1> DEFINE refused == u \in Known /\ rows[query[r]] = None
<1>2. /\ refused => Goto(r, "failed")
      /\ ~refused => pc' = pc
  BY DEF InsertUsage
<1>3. pc' = pc => Goto(r, "use")
  BY <1>1 DEF Goto, IInv, TypeOK
<1>4. OnlyOf(r)
  BY <1>1 DEF OnlyOf, InsertUsage, Goto, Recorded, IInv, TypeOK
<1>5. {"use", "failed"} \subseteq PC \ Writing
  BY DEF PC, Writing
<1>6. apart /\ faults = 0 => ~refused
  <2>1. clean[r] => rows[query[r]] # None
    BY <1>1 DEF IInv, CleanOK, Progress, RowIsOf, Using
  <2> QED
    BY <1>1, <2>1 DEF SerialInv
<1>7. ~refused => ~Settled(query[r])'
  BY <1>1, <1>2 DEF Settled, InFlight, Using
<1>8. apart /\ faults' = 0 => UsageOK(query[r])'
  BY <1>1, <1>6, <1>7 DEF UsageOK
<1>9. CASE refused
  BY <1>1, <1>2, <1>4, <1>5, <1>8, <1>9, QuietSerial
<1>10. CASE ~refused
  BY <1>1, <1>2, <1>3, <1>4, <1>5, <1>8, <1>10, QuietSerial
<1> QED
  BY <1>9, <1>10

LEMMA StoreListsSerial ==
  ASSUME IInv, IInv', SerialInv, NEW r \in Request, StoreLists(r)
  PROVE  SerialInv'
<1>1. /\ r \in InFlight /\ query[r] \in Query /\ Goto(r, "done") /\ over[r] /\ run[r].meta
      /\ UNCHANGED <<usage, given, over, stored, clean, apart, faults>>
  BY DEF StoreLists, InFlight, IInv, LocalsOK, Using
<1>2. \A q \in Query :
        rows'[q] = rows[q] \/ (rows[q] # None /\ \E S : rows'[q] = [rows[q] EXCEPT !.used = S])
  <2>1. CASE rows[query[r]] = None
    BY <2>1 DEF StoreLists
  <2>2. CASE rows[query[r]] # None
    <3>1. rows' = [rows EXCEPT ![query[r]].used = run[r].used]
      BY <2>2 DEF StoreLists
    <3>2. rows'[query[r]] = [rows[query[r]] EXCEPT !.used = run[r].used]
      BY <1>1, <3>1 DEF IInv, TypeOK
    <3> QED
      BY <2>2, <3>1, <3>2 DEF IInv, TypeOK
  <2> QED
    BY <2>1, <2>2
<1>3. \A q \in Query : rows'[q] # None => rows[q] # None
  BY <1>2
<1>4. OnlyOf(r)
  BY <1>1 DEF OnlyOf, StoreLists, Goto, IInv, TypeOK
<1>5. "done" \in PC \ Writing
  BY DEF PC, Writing
<1>6. ASSUME clean[r]
      PROVE  UsageOK(query[r])'
  <2>1. pc'[r] = "done" /\ clean'[r] /\ over'[r]
    BY <1>1, <1>6 DEF Goto, IInv, TypeOK, InFlight
  <2>2. HoldsRun(r)'
    BY <1>1, <2>1 DEF IInv, CleanOK, Progress, InFlight
  <2>3. run'[r].meta
    BY <1>1
  <2> QED
    BY <2>2, <2>3 DEF HoldsRun, UsageOK
<1>7. apart /\ faults' = 0 => clean[r]
  BY <1>1 DEF SerialInv
<1> QED
  BY <1>1, <1>2, <1>3, <1>4, <1>5, <1>6, <1>7, QuietSerial

(* SELECT: nothing changes between the decision and the write.             *)
LEMMA ReadSerial ==
  ASSUME IInv, IInv', SerialInv, NEW r \in Request, ReadExisting(r)
  PROVE  SerialInv'
<1>1. /\ r \in InFlight /\ query[r] \in Query
      /\ UNCHANGED <<tables, now, given, todo, stored, clean, apart, faults>>
  BY DEF ReadExisting, InFlight, IInv, LocalsOK
<1> DEFINE row == rows[query[r]]
<1>2. /\ Goto(r, IF row = None THEN "insert" ELSE "update")
      /\ over' = [over EXCEPT ![r] = ShouldOverwrite(run[r], at[r], row)]
      /\ context' = [context EXCEPT ![r] = ShouldOverwriteContext(run[r], at[r], row)]
  BY DEF ReadExisting
<1>3. PICK l \in Writing : Goto(r, l) /\ (l = "insert" <=> row = None)
  BY <1>2 DEF Writing
<1>4. l \in PC /\ l # "idle" /\ pc' = [pc EXCEPT ![r] = l] /\ pc'[r] = l
  BY <1>3 DEF PC, Writing, Goto, IInv, TypeOK
<1>5. Makers' /\ BestRunKept' /\ BestContextKept'
  BY <1>1, RowsKept DEF Counted
<1>6. ASSUME apart'
      PROVE  Lone' /\ Fresh'
  <2>1. Lone
    BY <1>1, <1>6 DEF SerialInv
  <2>2. Lone' /\ \A p \in Request \ {r} : pc'[p] \notin Writing
    BY <1>1, <1>3, <1>4, <2>1, LoneStep DEF IInv
  <2>3. over'[r] = ShouldOverwrite(run[r], at[r], row)
        /\ context'[r] = ShouldOverwriteContext(run[r], at[r], row)
    BY <1>2 DEF IInv, TypeOK
  <2> HIDE DEF row
  <2>4. row' = row
    BY <1>1 DEF row
  <2> QED
    BY <1>1, <1>3, <1>4, <2>2, <2>3, <2>4 DEF Fresh, row
<1>7. ASSUME apart', faults' = 0
      PROVE  (\A p \in InFlight' : clean'[p]) /\ UsageKept'
  <2>1. InFlight' = InFlight /\ \A p \in Request : pc'[p] \in Using <=> pc[p] \in Using
    BY <1>1, <1>4 DEF InFlight, Using, Writing, ReadExisting
  <2>2. \A q \in Query : UsageOf(q)' = UsageOf(q) /\ (Settled(q)' => Settled(q))
    BY <1>1, <2>1 DEF UsageOf, Settled, InFlight
  <2> QED
    BY <1>1, <1>7, <2>1, <2>2 DEF SerialInv, UsageKept
<1> QED
  BY <1>5, <1>6, <1>7 DEF SerialInv

(* A request is counted with the row n that its write leaves.              *)
LEMMA WriteSerial ==
  ASSUME IInv, IInv', SerialInv, NEW r \in InFlight, pc[r] \in Writing, NEW n \in Row,
         rows' = [rows EXCEPT ![query[r]] = n], stored' = [stored EXCEPT ![r] = TRUE],
         Goto(r, AfterWrite(r)), UNCHANGED <<usage, local, clean, apart, faults>>,
         \E o \in Counted(query[r]) \cup {r} : run[o] = n.run /\ at[o] = n.at,
         apart =>
           \A o \in Counted(query[r]) \cup {r} :
             /\ (\A p \in Counted(query[r]) \cup {r} : Plain(run[p])) =>
                  ~Before(CandidateRank(run[o], at[o]), CandidateRank(n.run, n.at))
             /\ run[o].score <= n.score
             /\ run[o].score = n.score => at[o] <= n.scoreAt,
         apart /\ faults = 0 => UsageOK(query[r])'
  PROVE  SerialInv'
<1>1. /\ query[r] \in Query /\ run[r] \in Run /\ r \in Request
      /\ UNCHANGED <<query, run, at, over>>
  BY DEF IInv, LocalsOK, InFlight
<1> DEFINE C == Counted(query[r])
<1>2. /\ Counted(query[r])' = C \cup {r}
      /\ \A q \in Query \ {query[r]} : Counted(q)' = Counted(q)
  BY <1>1 DEF Counted, IInv, TypeOK
<1>3. rows'[query[r]] = n /\ \A q \in Query \ {query[r]} : rows'[q] = rows[q]
  BY <1>1 DEF IInv, TypeOK
<1>4. Makers'
  <2>1. \A p \in Request : stored'[p] => run'[p] \in Run
    BY <1>1 DEF SerialInv, Makers, IInv, TypeOK
  <2>2. ASSUME NEW q \in Query, rows'[q] # None
        PROVE  \E o \in Counted(q)' : run'[o] = rows'[q].run /\ at'[o] = rows'[q].at
    <3>1. CASE q = query[r]
      <4>1. Counted(q)' = C \cup {r}
        BY <1>1, <1>2, <3>1 DEF Counted
      <4> QED
        BY <1>1, <1>3, <3>1, <4>1
    <3>2. CASE q # query[r]
      BY <1>1, <1>2, <1>3, <2>2, <3>2 DEF SerialInv, Makers
    <3> QED
      BY <3>1, <3>2
  <2> QED
    BY <2>1, <2>2 DEF Makers
<1>5. BestRunKept'
  <2> SUFFICES ASSUME apart', NEW q \in Query, rows'[q] # None,
                      \A o \in Counted(q)' : Plain(run'[o]), NEW o \in Counted(q)'
               PROVE  ~Before(CandidateRank(run'[o], at'[o]),
                              CandidateRank(rows'[q].run, rows'[q].at))
    BY DEF BestRunKept
  <2>1. CASE q = query[r]
    <3>1. Counted(q)' = C \cup {r}
      BY <1>1, <1>2, <2>1 DEF Counted
    <3> QED
      BY <1>1, <1>3, <2>1, <3>1
  <2>2. CASE q # query[r]
    BY <1>1, <1>2, <1>3, <2>2 DEF SerialInv, BestRunKept
  <2> QED
    BY <2>1, <2>2
<1>6. BestContextKept'
  <2> SUFFICES ASSUME apart', NEW q \in Query, rows'[q] # None, NEW o \in Counted(q)'
               PROVE  /\ run'[o].score <= rows'[q].score
                      /\ run'[o].score = rows'[q].score => at'[o] <= rows'[q].scoreAt
    BY DEF BestContextKept
  <2>1. CASE q = query[r]
    <3>1. Counted(q)' = C \cup {r}
      BY <1>1, <1>2, <2>1 DEF Counted
    <3> QED
      BY <1>1, <1>3, <2>1, <3>1
  <2>2. CASE q # query[r]
    BY <1>1, <1>2, <1>3, <2>2 DEF SerialInv, BestContextKept
  <2> QED
    BY <2>1, <2>2
<1>7. AfterWrite(r) \in PC \ Writing /\ AfterWrite(r) # "idle"
  BY DEF AfterWrite, PC, Writing
<1>8. ASSUME apart'
      PROVE  Lone' /\ Fresh' /\ Lone /\ InFlight' \subseteq {r}
  <2>1. Lone /\ pc'[r] = AfterWrite(r)
    BY <1>1, <1>8 DEF SerialInv, Goto, IInv, TypeOK
  <2>2. Lone' /\ InFlight' \subseteq {r} /\ \A p \in Request \ {r} : pc'[p] \notin Writing
    BY <1>7, <2>1, LoneStep DEF IInv
  <2> QED
    BY <1>7, <2>1, <2>2 DEF Fresh
<1>9. OnlyOf(r)
  BY <1>1, <1>3 DEF OnlyOf, Goto, IInv, TypeOK
<1>10. ASSUME apart', faults' = 0
       PROVE  (\A p \in InFlight' : clean'[p]) /\ UsageKept'
  <2>1. apart /\ faults = 0 /\ UsageKept /\ clean[r]
    BY <1>10 DEF SerialInv
  <2> QED
    BY <1>8, <1>9, <1>10, <2>1, UsageElsewhere DEF IInv
<1> QED
  BY <1>4, <1>5, <1>6, <1>8, <1>10 DEF SerialInv

LEMMA InsertRowSerial ==
  ASSUME IInv, IInv', SerialInv, NEW r \in Request, InsertRow(r)
  PROVE  SerialInv'
<1> DEFINE n == [run |-> run[r], at |-> at[r], score |-> run[r].score,
                 scoreAt |-> at[r], seen |-> 1, used |-> {}]
<1>1. /\ r \in InFlight /\ pc[r] = "insert" /\ query[r] \in Query /\ run[r] \in Run
      /\ at[r] \in Nat /\ rows[query[r]] = None
  BY HistoryAssumption DEF InsertRow, InFlight, Writing, IInv, LocalsOK, TypeOK
<1>2. n \in Row
  BY <1>1 DEF Row, Run
<1>3. Counted(query[r]) \cup {r} = {r}
  BY <1>1 DEF Counted, IInv, LocalsOK
<1>4. ~Before(CandidateRank(run[r], at[r]), CandidateRank(run[r], at[r]))
  BY <1>1, RankType, BeforeOrder
<1>5. run[r].score \in Nat
  BY <1>1 DEF Run
<1>6. apart => over[r]
  BY <1>1 DEF SerialInv, Fresh, Writing, ShouldOverwrite
<1>7. rows' = [rows EXCEPT ![query[r]] = n] /\ stored' = [stored EXCEPT ![r] = TRUE]
      /\ Goto(r, AfterWrite(r)) /\ UNCHANGED <<usage, local, clean, apart, faults>>
  BY DEF InsertRow
<1>8. ASSUME apart
      PROVE  UsageOK(query[r])'
  <2>1. rows'[query[r]].run = run[r] /\ query'[r] = query[r] /\ pc'[r] = AfterWrite(r)
    BY <1>1, <1>7 DEF Goto, IInv, TypeOK
  <2>2. CASE run[r].meta
    <3>1. pc'[r] = "dropTables"
      BY <1>6, <1>8, <2>1, <2>2 DEF AfterWrite
    <3>2. ~Settled(query[r])'
      BY <1>7, <3>1 DEF Settled, InFlight, Using
    <3> QED
      BY <3>2 DEF UsageOK
  <2>3. CASE ~run[r].meta
    BY <1>7, <2>1, <2>3 DEF UsageOK
  <2> QED
    BY <2>2, <2>3
<1>9. n.run = run[r] /\ n.at = at[r] /\ n.score = run[r].score /\ n.scoreAt = at[r]
  OBVIOUS
<1>10. pc[r] \in Writing /\ at[r] <= at[r] /\ run[r].score <= run[r].score
  BY <1>1, <1>5 DEF Writing
<1> HIDE DEF n
<1> QED
  BY <1>1, <1>2, <1>3, <1>4, <1>7, <1>8, <1>9, <1>10, WriteSerial

LEMMA UpdateRowSerial ==
  ASSUME IInv, IInv', SerialInv, NEW r \in Request, UpdateRow(r)
  PROVE  SerialInv'
<1> DEFINE row == rows[query[r]]
           n   == Updated(r, row)
           C   == Counted(query[r])
<1>1. /\ r \in InFlight /\ pc[r] = "update" /\ query[r] \in Query /\ run[r] \in Run
      /\ at[r] \in Nat /\ over[r] \in BOOLEAN /\ context[r] \in BOOLEAN /\ row \in Row \cup {None}
      /\ Goto(r, AfterWrite(r)) /\ UNCHANGED <<usage, local, clean, apart, faults>>
  BY HistoryAssumption DEF UpdateRow, InFlight, Writing, IInv, LocalsOK, TypeOK
<1>2. AfterWrite(r) \in PC \ Writing /\ AfterWrite(r) # "idle" /\ pc[r] \in Writing
  BY <1>1 DEF AfterWrite, PC, Writing
<1>3. CASE row = None
  <2>1. UNCHANGED <<rows, stored>>
    BY <1>3 DEF UpdateRow
  <2>2. OnlyOf(r)
    BY <1>1, <2>1 DEF OnlyOf, Goto, IInv, TypeOK
  <2>3. UsageOK(query[r])'
    BY <1>1, <1>3, <2>1 DEF UsageOK
  <2> QED
    BY <1>1, <1>2, <2>1, <2>2, <2>3, QuietSerial
<1>4. CASE row # None
  <2>1. rows' = [rows EXCEPT ![query[r]] = n] /\ stored' = [stored EXCEPT ![r] = TRUE]
    BY <1>4 DEF UpdateRow
  <2>2. row \in Row /\ row.run \in Run /\ row.at \in Nat /\ row.score \in Nat /\ row.scoreAt \in Nat
    BY <1>1, <1>4 DEF Row
  <2>3. n \in Row
    BY <1>1, <2>2 DEF Updated, Row, Run
  <2>4. /\ n.run = IF over[r] THEN run[r] ELSE row.run
        /\ n.at = IF over[r] THEN at[r] ELSE row.at
        /\ n.score = IF context[r] THEN run[r].score ELSE row.score
        /\ n.scoreAt = IF context[r] THEN at[r] ELSE row.scoreAt
        /\ n.used = row.used
    BY DEF Updated
  <2>5. \E o \in C \cup {r} : run[o] = n.run /\ at[o] = n.at
    <3>1. CASE over[r]
      BY <2>4, <3>1
    <3>2. CASE ~over[r]
      <4>1. \E o \in C : run[o] = row.run /\ at[o] = row.at
        BY <1>1, <1>4 DEF SerialInv, Makers
      <4> QED
        BY <2>4, <3>2, <4>1
    <3> QED
      BY <3>1, <3>2
  <2>6. ASSUME NEW o \in C \cup {r}
        PROVE  run[o] \in Run /\ at[o] \in Nat /\ run[o].score \in Nat
    <3>1. run[o] \in Run /\ at[o] \in Nat
      BY <1>1 DEF Counted, SerialInv, Makers, IInv, TypeOK
    <3> QED
      BY <3>1 DEF Run
  <2>7. ASSUME apart
        PROVE  /\ over[r] = ShouldOverwrite(run[r], at[r], row)
               /\ context[r] = ShouldOverwriteContext(run[r], at[r], row)
    BY <1>1, <1>2, <2>7 DEF SerialInv, Fresh
  <2> HIDE DEF n, row, C
  <2>8. ASSUME apart, \A p \in C \cup {r} : Plain(run[p]), NEW o \in C \cup {r}
        PROVE  ~Before(CandidateRank(run[o], at[o]), CandidateRank(n.run, n.at))
    <3> DEFINE ro == CandidateRank(run[o], at[o])
               rr == CandidateRank(run[r], at[r])
               rk == CandidateRank(row.run, row.at)
    <3>1. ro \in Rank /\ rr \in Rank /\ rk \in Rank
      BY <1>1, <2>2, <2>6, RankType
    <3>2. over[r] <=> Before(rr, rk)
      BY <1>1, <1>4, <2>7, <2>8 DEF ShouldOverwrite, Plain
    <3>3. o \in C => ~Before(ro, rk)
      BY <1>1, <1>4, <2>8 DEF SerialInv, BestRunKept, C, row
    <3>4. n.run = IF over[r] THEN run[r] ELSE row.run
      BY <2>4
    <3>5. CandidateRank(n.run, n.at) = IF over[r] THEN rr ELSE rk
      BY <2>4
    <3>6. o = r => ro = rr
      OBVIOUS
    <3> HIDE DEF ro, rr, rk
    <3>7. CASE over[r]
      <4>1. ~Before(ro, rr)
        BY <3>1, <3>2, <3>3, <3>6, <3>7, BeforeOrder
      <4> QED
        BY <3>5, <3>7, <4>1 DEF ro
    <3>8. CASE ~over[r]
      <4>1. ~Before(ro, rk)
        BY <3>2, <3>3, <3>6, <3>8
      <4> QED
        BY <3>5, <3>8, <4>1 DEF ro
    <3> QED
      BY <1>1, <3>7, <3>8
  <2>9. ASSUME apart, NEW o \in C \cup {r}
        PROVE  run[o].score <= n.score /\ (run[o].score = n.score => at[o] <= n.scoreAt)
    <3>1. run[o].score \in Nat /\ at[o] \in Nat /\ run[r].score \in Nat
      BY <2>6
    <3>2. context[r] <=> \/ run[r].score > row.score
                         \/ run[r].score >= row.score /\ at[r] > row.scoreAt
      BY <1>1, <1>4, <2>7, <2>9 DEF ShouldOverwriteContext
    <3>3. o \in C => /\ run[o].score <= row.score
                     /\ run[o].score = row.score => at[o] <= row.scoreAt
      BY <1>1, <1>4, <2>9 DEF SerialInv, BestContextKept, C, row
    <3>4. CASE context[r]
      BY <1>1, <2>2, <2>4, <3>1, <3>2, <3>3, <3>4
    <3>5. CASE ~context[r]
      BY <1>1, <2>2, <2>4, <3>1, <3>2, <3>3, <3>5
    <3> QED
      BY <1>1, <3>4, <3>5
  <2>10. ASSUME apart, faults = 0
         PROVE  UsageOK(query[r])'
    <3>1. query'[r] = query[r] /\ pc'[r] = AfterWrite(r) /\ rows'[query[r]] = n
          /\ UsageOf(query[r])' = UsageOf(query[r])
      BY <1>1, <2>1 DEF Goto, IInv, TypeOK, UsageOf
    <3>2. CASE over[r] /\ run[r].meta
      <4>1. pc'[r] = "dropTables"
        BY <3>1, <3>2 DEF AfterWrite
      <4>2. ~Settled(query[r])'
        BY <1>1, <4>1 DEF Settled, InFlight, Using
      <4> QED
        BY <4>2 DEF UsageOK
    <3>3. CASE over[r] /\ ~run[r].meta
      BY <1>1, <2>4, <3>1, <3>3 DEF UsageOK
    <3>4. CASE ~over[r]
      <4>1. Lone
        BY <2>10 DEF SerialInv
      <4>2. Settled(query[r])
        BY <1>1, <4>1 DEF Settled, Lone, Using
      <4>3. row.run.meta => /\ UsageOf(query[r]) = row.run.used \cap Known
                            /\ row.used = row.run.used
        BY <1>1, <1>4, <2>10, <4>2 DEF SerialInv, UsageKept, row
      <4>4. n.run = row.run /\ n.used = row.used
        BY <2>4, <3>4
      <4> QED
        BY <1>1, <3>1, <4>3, <4>4 DEF UsageOK, UsageOf
    <3> QED
      BY <1>1, <3>2, <3>3, <3>4
  <2> QED
    BY <1>1, <1>2, <2>1, <2>3, <2>5, <2>8, <2>9, <2>10, WriteSerial DEF C
<1> QED
  BY <1>3, <1>4

(* A call begins; without overlaps, when nobody is at work.                *)
LEMMA BeginLone ==
  ASSUME TypeOK, SerialInv, NEW r \in Request, NEW q \in Query, Begin(r, q),
         NEW l \in {"read", "done"}, Goto(r, l), apart'
  PROVE  /\ apart /\ InFlight = {} /\ Lone' /\ Fresh' /\ \A p \in InFlight' : clean'[p]
<1>1. apart /\ InFlight = {}
  BY DEF Begin
<1>2. pc' = [pc EXCEPT ![r] = l] /\ pc'[r] = l /\ clean'[r]
  BY <1>1 DEF Begin, Goto, TypeOK
<1>3. InFlight' \subseteq {r} /\ \A p \in Request : pc'[p] \notin Writing
  BY <1>1, <1>2 DEF InFlight, Writing, TypeOK
<1> QED
  BY <1>1, <1>2, <1>3 DEF Lone, Fresh

LEMMA SaveQuerySerial ==
  ASSUME IInv, IInv', SerialInv, NEW r \in Request, NEW q \in Query, NEW x \in Posted,
         SaveQuery(r, q, x)
  PROVE  SerialInv'
<1>1. /\ Begin(r, q) /\ Goto(r, "read") /\ UNCHANGED <<tables, stored, faults>>
      /\ pc[r] = "idle" /\ ~stored[r] /\ (apart' => apart)
      /\ \A p \in Request \ {r} : run'[p] = run[p] /\ at'[p] = at[p] /\ query'[p] = query[p]
  BY DEF SaveQuery, Begin, IInv, LocalsOK, TypeOK
<1>2. Makers' /\ BestRunKept' /\ BestContextKept'
  <2>1. ASSUME NEW p \in Request, stored'[p]
        PROVE  stored[p] /\ run'[p] = run[p] /\ at'[p] = at[p] /\ query'[p] = query[p]
    <3>1. stored[p] /\ p # r
      BY <1>1, <2>1
    <3> QED
      BY <1>1, <3>1
  <2>2. ASSUME NEW o \in Query, rows'[o] # None
        PROVE  /\ rows[o] # None
               /\ rows'[o].run = rows[o].run /\ rows'[o].at = rows[o].at
               /\ rows'[o].score = rows[o].score /\ rows'[o].scoreAt = rows[o].scoreAt
               /\ \A p \in Counted(o) : stored'[p]
    BY <1>1, <2>2 DEF Counted
  <2>3. apart' => apart
    BY <1>1
  <2> QED
    BY <2>1, <2>2, <2>3, RowsKept
<1>3. ASSUME apart'
      PROVE  apart /\ InFlight = {} /\ Lone' /\ Fresh' /\ \A p \in InFlight' : clean'[p]
  BY <1>1, <1>3, BeginLone DEF IInv
<1>4. ASSUME apart', faults' = 0
      PROVE  UsageKept'
  <2>1. \A o \in Query : Settled(o) /\ UsageOf(o)' = UsageOf(o)
    BY <1>1, <1>3, <1>4 DEF Settled, UsageOf
  <2> QED
    BY <1>1, <1>3, <1>4, <2>1 DEF SerialInv, UsageKept
<1> QED
  BY <1>2, <1>3, <1>4 DEF SerialInv

LEMMA DeleteQuerySerial ==
  ASSUME IInv, IInv', SerialInv, NEW r \in Request, NEW q \in Query, DeleteQuery(r, q)
  PROVE  SerialInv'
<1>1. /\ Begin(r, q) /\ Goto(r, "done") /\ UNCHANGED <<run, at, faults>>
      /\ pc[r] = "idle" /\ ~stored[r] /\ (apart' => apart)
      /\ \A p \in Request \ {r} : query'[p] = query[p]
      /\ \A p \in Request : stored'[p] <=> stored[p] /\ query[p] # q
      /\ rows'[q] = None /\ \A o \in Query \ {q} : rows'[o] = rows[o] /\ UsageOf(o)' = UsageOf(o)
  BY DEF DeleteQuery, Begin, IInv, LocalsOK, TypeOK, Cascade, UsageOf
<1>2. Makers' /\ BestRunKept' /\ BestContextKept'
  <2>1. ASSUME NEW p \in Request, stored'[p]
        PROVE  stored[p] /\ run'[p] = run[p] /\ at'[p] = at[p] /\ query'[p] = query[p]
    <3>1. stored[p] /\ p # r
      BY <1>1, <2>1
    <3> QED
      BY <1>1, <3>1
  <2>2. ASSUME NEW o \in Query, rows'[o] # None
        PROVE  /\ rows[o] # None
               /\ rows'[o].run = rows[o].run /\ rows'[o].at = rows[o].at
               /\ rows'[o].score = rows[o].score /\ rows'[o].scoreAt = rows[o].scoreAt
               /\ \A p \in Counted(o) : stored'[p]
    BY <1>1, <2>2 DEF Counted
  <2>3. apart' => apart
    BY <1>1
  <2> QED
    BY <2>1, <2>2, <2>3, RowsKept
<1>3. ASSUME apart'
      PROVE  apart /\ InFlight = {} /\ Lone' /\ Fresh' /\ \A p \in InFlight' : clean'[p]
  BY <1>1, <1>3, BeginLone DEF IInv
<1>4. ASSUME apart', faults' = 0
      PROVE  UsageKept'
  <2>1. \A o \in Query : Settled(o)
    BY <1>3, <1>4 DEF Settled
  <2> QED
    BY <1>1, <1>3, <1>4, <2>1 DEF SerialInv, UsageKept
<1> QED
  BY <1>2, <1>3, <1>4 DEF SerialInv

LEMMA StutterSerial == IInv /\ SerialInv /\ (Tick \/ UNCHANGED vars) => SerialInv'
<1> SUFFICES ASSUME IInv, SerialInv, Tick \/ UNCHANGED vars
             PROVE  SerialInv'
  OBVIOUS
<1>1. UNCHANGED <<tables, pc, local, stored, clean, apart, faults>>
  BY DEF Tick, vars
<1>2. Makers' /\ BestRunKept' /\ BestContextKept'
  BY <1>1, RowsKept DEF Counted
<1>3. InFlight' = InFlight /\ (Lone => Lone')
  BY <1>1 DEF InFlight, Lone
<1>4. Fresh => Fresh'
  BY <1>1 DEF Fresh
<1>5. UsageKept => UsageKept'
  BY <1>1, <1>3 DEF UsageKept, Settled, UsageOf
<1> QED
  BY <1>1, <1>2, <1>3, <1>4, <1>5 DEF SerialInv

(* SerialInv is inductive, relative to IInv.                               *)
THEOREM SerialInvariant == Spec => []SerialInv
<1>1. Init => SerialInv
  <2> SUFFICES ASSUME Init PROVE SerialInv
    OBVIOUS
  <2>1. InFlight = {} /\ \A q \in Query : rows[q] = None
    BY DEF Init, InFlight
  <2>2. \A r \in Request : ~stored[r] /\ pc[r] = "idle"
    BY DEF Init
  <2> QED
    BY <2>1, <2>2 DEF SerialInv, Makers, Lone, Fresh, Writing, BestRunKept,
       BestContextKept, UsageKept
<1>2. IInv /\ IInv' /\ SerialInv /\ [Next]_vars => SerialInv'
  <2> SUFFICES ASSUME IInv, IInv', SerialInv, [Next]_vars
               PROVE  SerialInv'
    OBVIOUS
  <2>1. ASSUME NEW r \in Request, Call(r)
        PROVE  SerialInv'
    BY <2>1, SaveQuerySerial, DeleteQuerySerial DEF Call
  <2>2. ASSUME NEW r \in Request, Step(r)
        PROVE  SerialInv'
    <3>1. InsertConflicts(r) => r \in InFlight
      BY DEF InsertConflicts, InFlight
    <3> QED
      BY <2>2, <3>1, ReadSerial, InsertRowSerial, StopSerial, UpdateRowSerial, DropSerial,
         InsertUsageSerial, StoreListsSerial DEF Step
  <2>3. ASSUME NEW r \in Request, r \in InFlight /\ Raises(r)
        PROVE  SerialInv'
    BY <2>3, StopSerial
  <2>4. CASE Tick \/ UNCHANGED vars
    BY <2>4, StutterSerial
  <2> QED
    BY <2>1, <2>2, <2>3, <2>4 DEF Next
<1> QED
  BY <1>1, <1>2, InductiveInvariant, PTL DEF Spec

(* For one client at a time no later run beats out a better one.           *)
THEOREM BestRunKeptHolds == Spec => []BestRunKept
<1>1. SerialInv => BestRunKept
  BY DEF SerialInv
<1> QED
  BY <1>1, SerialInvariant, PTL

(* ... the context kept is the latest of the best ones ...                 *)
THEOREM BestContextKeptHolds == Spec => []BestContextKept
<1>1. SerialInv => BestContextKept
  BY DEF SerialInv
<1> QED
  BY <1>1, SerialInvariant, PTL

(* ... and, as long as nothing raises, the usage rows are those of the run *)
(* the row holds.                                                          *)
THEOREM UsageMatchesRunHolds == Spec => []UsageMatchesRun
<1>1. SerialInv => UsageMatchesRun
  BY DEF SerialInv, UsageMatchesRun, UsageKept, Settled
<1> QED
  BY <1>1, SerialInvariant, PTL
=============================================================================
