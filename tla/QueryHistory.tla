---------------------------- MODULE QueryHistory ----------------------------
(***************************************************************************)
(* The query history of text2sql: PgQueryRepository.save_query and         *)
(* delete_query (text2sql/pg_query_repository) over t2s_queries,           *)
(* t2s_query_table_usage and t2s_query_column_usage.                       *)
(*                                                                         *)
(* Every request is a coroutine; every await of it is ONE autocommit       *)
(* statement, so saves of one question interleave between the SELECT that  *)
(* reads the stored run and the UPDATE that replaces it.  A step is a      *)
(* statement with the Python code up to the next await.  An exception of a *)
(* statement propagates out of the call.                                   *)
(***************************************************************************)
EXTENDS Integers, FiniteSets

CONSTANTS
  Request,      \* calls of the clients
  Query,        \* ids of normalised questions
  Table,        \* tables a run may name
  Column,       \* columns with a usage type a run may name
  Known,        \* those the catalog tables hold
  Posted,       \* runs clients report
  None,
  MaxTime,      \* bound: milliseconds the clock advances
  MaxInFlight,  \* bound: requests running at the same time
  MaxFaults     \* bound: statements that raise

Used == Table \cup Column

(* 10**9 and 1e18: what a missing step count or duration counts for.       *)
Worst == 1000000000

(* A reported run.  status is its _status_rank; gate says whether it has a *)
(* quality gate report; summary, whether the caller gives a summary of the *)
(* steps, one is made from the steps, or there is none; meta, whether it   *)
(* has metadata; used, the tables and columns the metadata names.          *)
Run == [status: 0..2, steps: Nat \cup {None}, ms: Nat \cup {None},
        score: Nat, verified: BOOLEAN, gate: BOOLEAN,
        summary: {"given", "made", "none"}, meta: BOOLEAN, used: SUBSET Used]

(* A row of t2s_queries: the run it stores, when it was reported, the best *)
(* context and its time, and how often the question was saved.             *)
Row == [run: Run, at: Nat, score: Nat, scoreAt: Nat, seen: Nat, used: SUBSET Used]

ASSUME HistoryAssumption ==
  /\ IsFiniteSet(Request)
  /\ Known \subseteq Used /\ Table \cap Column = {}
  /\ Posted \subseteq Run
  /\ None \notin Row /\ None \notin Run /\ None \notin Query
  /\ None \notin Nat
  /\ MaxTime \in Nat /\ MaxInFlight \in Nat /\ MaxFaults \in Nat

PC == {"idle", "read", "insert", "update", "dropTables", "dropColumns", "use",
       "done", "failed"}

VARIABLES
  rows,     \* t2s_queries
  usage,    \* both usage tables: <<query, table or column>>
  now,      \* time.time() in milliseconds
  pc,       \* next statement of a request
  query,    \* query_id of a request
  run,      \* what it reports
  at,       \* its now_ms
  over,     \* should_overwrite
  context,  \* should_overwrite_context
  todo,     \* identified tables and columns not yet stored
  stored,   \* history: its INSERT or UPDATE counts in the present row
  clean,    \* history: alone on its query since it began, nothing raised
  apart,    \* history: no two requests have been running together
  faults

tables == <<rows, usage>>
given == <<query, run, at>>
local == <<given, over, context, todo>>
vars == <<tables, now, pc, local, stored, clean, apart, faults>>

TypeOK ==
  /\ rows \in [Query -> Row \cup {None}]
  /\ usage \subseteq Query \X Known
  /\ now \in 0..MaxTime
  /\ pc \in [Request -> PC]
  /\ query \in [Request -> Query \cup {None}]
  /\ run \in [Request -> Run \cup {None}]
  /\ at \in [Request -> 0..MaxTime]
  /\ over \in [Request -> BOOLEAN]
  /\ context \in [Request -> BOOLEAN]
  /\ todo \in [Request -> SUBSET Used]
  /\ stored \in [Request -> BOOLEAN]
  /\ clean \in [Request -> BOOLEAN]
  /\ apart \in BOOLEAN
  /\ faults \in 0..MaxFaults

Init ==
  /\ rows = [q \in Query |-> None]
  /\ usage = {}
  /\ now = 0
  /\ pc = [r \in Request |-> "idle"]
  /\ query = [r \in Request |-> None]
  /\ run = [r \in Request |-> None]
  /\ at = [r \in Request |-> 0]
  /\ over = [r \in Request |-> FALSE]
  /\ context = [r \in Request |-> FALSE]
  /\ todo = [r \in Request |-> {}]
  /\ stored = [r \in Request |-> FALSE]
  /\ clean = [r \in Request |-> FALSE]
  /\ apart = TRUE
  /\ faults = 0

---------------------------------------------------------------------------
(* What is worth overwriting.                                              *)

OrWorst(x) == IF x = None THEN Worst ELSE x

(* _candidate_rank: smaller is better; of equal runs the later is better.  *)
CandidateRank(x, t) == <<x.status, OrWorst(x.steps), OrWorst(x.ms), -t>>

(* Comparison of Python tuples.                                            *)
Before(a, b) ==
  \E i \in 1..4 : a[i] < b[i] /\ \A j \in 1..(i - 1) : a[j] = b[j]

(* Mutant: the ranks are compared the other way round.                     *)
KeepsFirst(x, t, row) ==
  row = None \/ Before(CandidateRank(row.run, row.at), CandidateRank(x, t))

(* A better run, a verified one for an unverified one, or one that brings  *)
(* the quality gate report or the summary the stored run lacks.            *)
ShouldOverwrite(x, t, row) ==
  \/ row = None
  \/ Before(CandidateRank(x, t), CandidateRank(row.run, row.at))
  \/ x.verified /\ ~row.run.verified
  \/ x.gate /\ ~row.run.gate
  \/ x.summary = "given" /\ row.run.summary = "none"

(* Mutant: only the time is compared.                                      *)
LatestContext(x, t, row) == row = None \/ t > row.scoreAt

(* The scores are multiples of more than eps = 1e-6.                       *)
ShouldOverwriteContext(x, t, row) ==
  \/ row = None
  \/ x.score > row.score
  \/ x.score >= row.score /\ t > row.scoreAt

---------------------------------------------------------------------------
InFlight == {r \in Request : pc[r] \notin {"idle", "done", "failed"}}

Goto(r, l) == pc' = [pc EXCEPT ![r] = l]

(* A statement either executes or raises; when it raises the call fails.   *)
Raises(r) ==
  /\ faults < MaxFaults
  /\ faults' = faults + 1
  /\ clean' = [clean EXCEPT ![r] = FALSE]
  /\ Goto(r, "failed")
  /\ UNCHANGED <<tables, now, local, stored, apart>>

(* A request about query q starts; whoever worked on q is no longer alone. *)
Begin(r, q) ==
  /\ pc[r] = "idle"
  /\ Cardinality(InFlight) < MaxInFlight
  /\ query' = [query EXCEPT ![r] = q]
  /\ clean' = [p \in Request |->
                 IF p = r THEN \A o \in InFlight : query[o] # q
                          ELSE clean[p] /\ query[p] # q]
  /\ apart' = (apart /\ InFlight = {})

(* save_query: the clock is read before the first await.                   *)
SaveQuery(r, q, x) ==
  /\ Begin(r, q)
  /\ run' = [run EXCEPT ![r] = x]
  /\ at' = [at EXCEPT ![r] = now]
  /\ Goto(r, "read")
  /\ UNCHANGED <<tables, now, over, context, todo, stored, faults>>

(* SELECT: the row found decides everything the later statements do.       *)
ReadExisting(r) ==
  /\ pc[r] = "read"
  /\ LET row == rows[query[r]]
     IN  /\ over' = [over EXCEPT ![r] = ShouldOverwrite(run[r], at[r], row)]
         /\ context' = [context EXCEPT ![r] = ShouldOverwriteContext(run[r], at[r], row)]
         /\ Goto(r, IF row = None THEN "insert" ELSE "update")
  /\ UNCHANGED <<tables, now, given, todo, stored, clean, apart, faults>>

(* Mutant: the run's usage is stored whether or not the run was.           *)
RewritesAlways(r) == IF run[r].meta THEN "dropTables" ELSE "done"

(* The usage rows are rewritten when the run was, if it has metadata.      *)
AfterWrite(r) == IF over[r] /\ run[r].meta THEN "dropTables" ELSE "done"

(* INSERT without ON CONFLICT: a row that appeared since the SELECT makes  *)
(* it raise.                                                               *)
InsertRow(r) ==
  /\ pc[r] = "insert" /\ rows[query[r]] = None
  /\ rows' = [rows EXCEPT ![query[r]] =
                [run |-> run[r], at |-> at[r], score |-> run[r].score,
                 scoreAt |-> at[r], seen |-> 1, used |-> {}]]
  /\ stored' = [stored EXCEPT ![r] = TRUE]
  /\ Goto(r, AfterWrite(r))
  /\ UNCHANGED <<usage, now, local, clean, apart, faults>>

InsertConflicts(r) ==
  /\ pc[r] = "insert" /\ rows[query[r]] # None
  /\ Goto(r, "failed")
  /\ UNCHANGED <<tables, now, local, stored, clean, apart, faults>>

(* Mutant: the counter is one of the overwritten fields.                   *)
CountedIfOverwritten(r, row) ==
  [run     |-> IF over[r] THEN run[r] ELSE row.run,
   at      |-> IF over[r] THEN at[r] ELSE row.at,
   score   |-> IF context[r] THEN run[r].score ELSE row.score,
   scoreAt |-> IF context[r] THEN at[r] ELSE row.scoreAt,
   seen    |-> IF over[r] THEN row.seen + 1 ELSE row.seen,
   used    |-> row.used]

Updated(r, row) ==
  [run     |-> IF over[r] THEN run[r] ELSE row.run,
   at      |-> IF over[r] THEN at[r] ELSE row.at,
   score   |-> IF context[r] THEN run[r].score ELSE row.score,
   scoreAt |-> IF context[r] THEN at[r] ELSE row.scoreAt,
   seen    |-> row.seen + 1,
   used    |-> row.used]

(* UPDATE ... WHERE id: a row deleted since the SELECT is not missed.      *)
UpdateRow(r) ==
  /\ pc[r] = "update"
  /\ LET row == rows[query[r]]
     IN  IF row = None
         THEN UNCHANGED <<rows, stored>>
         ELSE /\ rows' = [rows EXCEPT ![query[r]] = Updated(r, row)]
              /\ stored' = [stored EXCEPT ![r] = TRUE]
  /\ Goto(r, AfterWrite(r))
  /\ UNCHANGED <<usage, now, local, clean, apart, faults>>

(* Mutant: the usage rows of the earlier run stay.                         *)
NothingOf(q, S) == usage

WithoutUsage(q, S) == {u \in usage : u[1] # q \/ u[2] \notin S}

DropTables(r) ==
  /\ pc[r] = "dropTables"
  /\ usage' = WithoutUsage(query[r], Table)
  /\ Goto(r, "dropColumns")
  /\ UNCHANGED <<rows, now, local, stored, clean, apart, faults>>

DropColumns(r) ==
  /\ pc[r] = "dropColumns"
  /\ usage' = WithoutUsage(query[r], Column)
  /\ todo' = [todo EXCEPT ![r] = run[r].used]
  /\ Goto(r, "use")
  /\ UNCHANGED <<rows, now, given, over, context, stored, clean, apart, faults>>

(* The loops over identified_tables, then identified_columns.  A name the  *)
(* catalog does not hold is skipped; the foreign key needs the row.        *)
NextUsed(r) == IF todo[r] \cap Table # {} THEN todo[r] \cap Table ELSE todo[r]

(* Mutant: the result of the catalog lookup is not checked.                *)
RecordedUnchecked(q, u) == usage \cup {<<q, u>>}

Recorded(q, u) == IF u \in Known THEN usage \cup {<<q, u>>} ELSE usage

InsertUsage(r, u) ==
  /\ pc[r] = "use" /\ u \in NextUsed(r)
  /\ IF u \in Known /\ rows[query[r]] = None
     THEN /\ Goto(r, "failed")
          /\ UNCHANGED <<usage, todo>>
     ELSE /\ usage' = Recorded(query[r], u)
          /\ todo' = [todo EXCEPT ![r] = @ \ {u}]
          /\ UNCHANGED pc
  /\ UNCHANGED <<rows, now, given, over, context, stored, clean, apart, faults>>

(* UPDATE of tables_used and columns_used: every name, known or not.       *)
StoreLists(r) ==
  /\ pc[r] = "use" /\ todo[r] = {}
  /\ LET row == rows[query[r]]
     IN  rows' = IF row = None THEN rows
                 ELSE [rows EXCEPT ![query[r]].used = run[r].used]
  /\ Goto(r, "done")
  /\ UNCHANGED <<usage, now, local, stored, clean, apart, faults>>

(* Mutant: without ON DELETE CASCADE.                                      *)
KeepsUsage(q) == UNCHANGED usage

Cascade(q) == usage' = {u \in usage : u[1] # q}

(* delete_query: one statement, the usage rows go with the row.            *)
DeleteQuery(r, q) ==
  /\ Begin(r, q)
  /\ rows' = [rows EXCEPT ![q] = None]
  /\ Cascade(q)
  /\ stored' = [p \in Request |-> stored[p] /\ query[p] # q]
  /\ Goto(r, "done")
  /\ UNCHANGED <<now, run, at, over, context, todo, faults>>

Tick ==
  /\ now < MaxTime
  /\ now' = now + 1
  /\ UNCHANGED <<tables, pc, local, stored, clean, apart, faults>>

---------------------------------------------------------------------------
Call(r) ==
  \E q \in Query : DeleteQuery(r, q) \/ \E x \in Posted : SaveQuery(r, q, x)

Step(r) ==
  \/ ReadExisting(r) \/ InsertRow(r) \/ InsertConflicts(r) \/ UpdateRow(r)
  \/ DropTables(r) \/ DropColumns(r) \/ StoreLists(r)
  \/ \E u \in Used : InsertUsage(r, u)

Next ==
  \/ \E r \in Request : Call(r) \/ Step(r) \/ (r \in InFlight /\ Raises(r))
  \/ Tick

Spec == Init /\ [][Next]_vars

---------------------------------------------------------------------------
(* Properties.                                                             *)

(* The requests whose run the present row has counted.                     *)
Counted(q) == {r \in Request : stored[r] /\ query[r] = q}

UsageOf(q) == {u \in Used : <<q, u>> \in usage}

(* seen_count is how often the question was saved since its row was made:  *)
(* no increment is lost between concurrent saves, although each decides    *)
(* everything else from the row it read earlier, and none survives a       *)
(* delete (pg_query_repository.py:218, 577-581).                           *)
SeenIsExact ==
  \A q \in Query : rows[q] # None => rows[q].seen = Cardinality(Counted(q))

(* No usage outlives its question, although a save goes on storing usage   *)
(* while another request deletes the row (the foreign keys of              *)
(* 04-text2sql-tables.sql:156-171; pg_query_repository.py:262-325).        *)
UsageHasRow == \A q \in Query : UsageOf(q) # {} => rows[q] # None

(* The row of its question holds what request r reported.                  *)
HoldsRun(r) ==
  LET row == rows[query[r]]
  IN  /\ row # None
      /\ row.run = run[r] /\ row.at = at[r]
      /\ run[r].meta => /\ UsageOf(query[r]) = run[r].used \cap Known
                       /\ row.used = run[r].used

(* A save that overwrote, that nobody disturbed and in which nothing       *)
(* raised leaves its own run, its own usage and its own names, whatever a  *)
(* failed or concurrent save left before it (pg_query_repository.py:214-   *)
(* 330).                                                                   *)
CleanSaveRecorded ==
  \A r \in Request : pc[r] = "done" /\ clean[r] /\ over[r] => HoldsRun(r)

(* Nothing but the rank speaks for a run.                                  *)
Plain(x) == ~x.verified /\ ~x.gate /\ x.summary # "given"

(* As long as no two requests overlap, the row of a question whose runs    *)
(* differ in nothing but rank holds the best of them: no later run beats   *)
(* out a better one, through deletes and exceptions                        *)
(* (pg_query_repository.py:144-150).  Two concurrent saves can both find   *)
(* the row worse than theirs, and the worse of them write last.            *)
BestRunKept ==
  apart =>
    \A q \in Query :
      rows[q] # None /\ (\A r \in Counted(q) : Plain(run[r])) =>
        \A r \in Counted(q) :
          ~Before(CandidateRank(run[r], at[r]), CandidateRank(rows[q].run, rows[q].at))

(* As long as no two requests overlap, the context kept has the best score *)
(* of all runs, even of runs that were not good enough to overwrite, and   *)
(* is the latest with that score (pg_query_repository.py:161-170).         *)
BestContextKept ==
  apart =>
    \A q \in Query :
      rows[q] # None =>
        \A r \in Counted(q) :
          /\ run[r].score <= rows[q].score
          /\ run[r].score = rows[q].score => at[r] <= rows[q].scoreAt

(* As long as no two requests overlap and nothing raises, the usage rows   *)
(* between calls are those of the run the row holds, never a mixture of    *)
(* runs and never those of a run that was turned down.  A stored run       *)
(* without metadata leaves the usage of the run before it.                 *)
UsageMatchesRun ==
  apart /\ InFlight = {} /\ faults = 0 =>
    \A q \in Query :
      rows[q] # None /\ rows[q].run.meta =>
        /\ UsageOf(q) = rows[q].run.used \cap Known
        /\ rows[q].used = rows[q].run.used
=============================================================================
