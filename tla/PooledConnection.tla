-------------------------- MODULE PooledConnection --------------------------
(***************************************************************************)
(* A connection manager shared by coroutines: AgeConnection                *)
(* (connection.py), PgConnection (text2sql/pg_connection.py), and the      *)
(* streams of PgAnalyzerClient, which keep a pooled connection while their *)
(* consumer runs.  Coroutines interleave at every await; the pool itself   *)
(* is asyncpg's.                                                           *)
(***************************************************************************)
EXTENDS Naturals, FiniteSets

CONSTANTS
  Task,       \* calls, each one coroutine
  Pool,       \* pools that can be created; bound: how many
  None,
  MaxSize,    \* connections of a pool
  Batches,    \* batches a stream yields
  MaxFaults   \* bound: calls of connect() and close() and statements that raise

ASSUME PoolAssumption ==
  /\ None \notin Pool /\ MaxSize \in Nat \ {0} /\ Batches \in Nat \ {0}
  /\ MaxFaults \in Nat

VARIABLES
  slot,      \* self._pool
  state,     \* of every pool
  lent,      \* connections handed out: <<call, "outer" or "inner">>
  pc, op,
  mine,      \* the pool a call works with
  inner,     \* the pool of the query a consumer makes between two batches
  batch,     \* batches yielded
  clean,     \* history: no close() has run since the call began, and none of
             \* the pool it found has raised
  promised,  \* history: a clean connect() has returned, no close() begun since
  raced,     \* history: connect() and close() calls have overlapped
  faults

pools == <<slot, state, lent>>
history == <<clean, promised, raced>>
vars == <<pools, pc, op, mine, inner, batch, history, faults>>

Managing == {t \in Task : pc[t] \in {"opening", "closing"}}
Busy == {"opening", "closing", "wait", "use", "yielded", "waitInner", "useInner", "ready", "left"}

Goes(t, to) == pc' = [pc EXCEPT ![t] = to]
Becomes(p, s) == state' = [state EXCEPT ![p] = s]

(* Mutant: the pool is not looked for.                                     *)
NeverConnected(t) == FALSE

Connected(t) == slot # None

(* Mutant: the reference to the closed pool stays.                         *)
KeptAfterClose(t) == mine[t]

AfterClose(t) == None

(* Mutant: the connection of a call that raises is not given back.         *)
StillLent(p, t, how) == IF how = "failed" THEN lent[p] ELSE lent[p] \ {<<t, "outer">>}

LentAfter(p, t, how) == lent[p] \ {<<t, "outer">>}

GivesBack(t, how) ==
  /\ lent' = [lent EXCEPT ![mine[t]] = LentAfter(mine[t], t, how)]
  /\ Goes(t, how)

---------------------------------------------------------------------------
(* Opening and closing.                                                    *)

(* Calls, like pools, differ by name only: the next to begin is any idle   *)
(* one.                                                                    *)
Begins(t, o) ==
  /\ pc[t] = "idle" /\ t = CHOOSE q \in Task : pc[q] = "idle"
  /\ op' = [op EXCEPT ![t] = o]

Unused == CHOOSE p \in Pool : state[p] = "unused"

Returned(t) == promised' = (promised \/ clean'[t])

Closers == {q \in Task : pc[q] = "closing"}

(* A close() has raised and left its pool behind, closed.                  *)
Jammed == slot # None /\ \E q \in Task : op[q] = "close" /\ pc[q] = "failed" /\ mine[q] = slot

(* connect: a second call returns at once, unless the first still awaits   *)
(* its pool.                                                               *)
Connect(t) ==
  /\ Begins(t, "connect")
  /\ clean' = [clean EXCEPT ![t] = Closers = {} /\ ~Jammed]
  /\ \/ Connected(t) /\ Goes(t, "done") /\ Returned(t) /\ UNCHANGED <<state, mine, raced>>
     \/ /\ ~Connected(t)
        /\ \E p \in Pool : state[p] = "unused"
        /\ Becomes(Unused, "opening")
        /\ mine' = [mine EXCEPT ![t] = Unused]
        /\ Goes(t, "opening")
        /\ raced' = (raced \/ Managing # {})
        /\ UNCHANGED promised
  /\ UNCHANGED <<slot, lent, inner, batch, faults>>

Opened(t) ==
  /\ pc[t] = "opening"
  /\ slot' = mine[t] /\ Becomes(mine[t], "open")
  /\ Goes(t, "done") /\ clean' = clean /\ Returned(t)
  /\ UNCHANGED <<lent, op, mine, inner, batch, raced, faults>>

CannotOpen(t) ==
  /\ pc[t] = "opening" /\ faults < MaxFaults /\ faults' = faults + 1
  /\ Becomes(mine[t], "closed") /\ Goes(t, "failed")
  /\ UNCHANGED <<slot, lent, op, mine, inner, batch, history>>

(* close: no new connection is handed out, and the call waits for those    *)
(* that are; then whatever self._pool holds is forgotten.  A pool closed   *)
(* before is forgotten at once.                                            *)
Close(t) ==
  /\ Begins(t, "close")
  /\ clean' = [q \in Task |-> FALSE]
  /\ promised' = FALSE
  /\ \/ /\ slot # None => state[slot] = "closed"
        /\ slot' = None /\ Goes(t, "done") /\ UNCHANGED <<state, mine, raced>>
     \/ /\ slot # None /\ state[slot] # "closed"
        /\ state' = [state EXCEPT ![slot] = IF @ = "open" THEN "closing" ELSE @]
        /\ mine' = [mine EXCEPT ![t] = slot]
        /\ Goes(t, "closing")
        /\ raced' = (raced \/ Managing # {})
        /\ UNCHANGED slot
  /\ UNCHANGED <<lent, inner, batch, faults>>

Closed(t) ==
  /\ pc[t] = "closing" /\ (lent[mine[t]] = {} \/ state[mine[t]] = "closed")
  /\ Becomes(mine[t], "closed") /\ slot' = AfterClose(t)
  /\ Goes(t, "done")
  /\ UNCHANGED <<lent, op, mine, inner, batch, history, faults>>

(* What awaiting the pool raises skips the next line: the pool is          *)
(* terminated and self._pool keeps it.                                     *)
CannotClose(t) ==
  /\ pc[t] = "closing" /\ faults < MaxFaults /\ faults' = faults + 1
  /\ Becomes(mine[t], "closed") /\ Goes(t, "failed")
  /\ UNCHANGED <<slot, lent, op, mine, inner, batch, history>>

---------------------------------------------------------------------------
(* Calls that need a connection.                                           *)

Serves(p) == p # None /\ state[p] = "open"

(* execute_cypher, execute_sql and the like, or the first batch of a       *)
(* stream: without a pool, or with one that is closing, the call raises.   *)
Calls(t, o) ==
  /\ Begins(t, o)
  /\ IF Serves(slot) THEN Goes(t, "wait") ELSE Goes(t, "failed")
  /\ mine' = [mine EXCEPT ![t] = slot]
  /\ UNCHANGED <<pools, inner, batch, history, faults>>

Query(t) == Calls(t, "query")
Stream(t) == Calls(t, "stream")

Granted(t) ==
  \E turn \in {<<"wait", "use", "outer", mine[t]>>, <<"waitInner", "useInner", "inner", inner[t]>>} :
    /\ pc[t] = turn[1]
    /\ Cardinality(lent[turn[4]]) < MaxSize
    /\ lent' = [lent EXCEPT ![turn[4]] = @ \cup {<<t, turn[3]>>}]
    /\ Goes(t, turn[2])
    /\ UNCHANGED <<slot, state, op, mine, inner, batch, history, faults>>

(* A call that waits while the pool closes may get a closed connection, and*)
(* a pool that is terminated breaks those in use.  A consumer that raises  *)
(* leaves its stream suspended.                                            *)
Broken(t) ==
  /\ \/ pc[t] = "wait" /\ state[mine[t]] # "open" /\ Goes(t, "failed") /\ UNCHANGED lent
     \/ pc[t] = "waitInner" /\ state[inner[t]] # "open" /\ Goes(t, "left") /\ UNCHANGED lent
     \/ /\ pc[t] = "use" /\ state[mine[t]] = "closed" /\ (op[t] = "query" \/ batch[t] = 0)
        /\ GivesBack(t, "failed")
     \/ /\ pc[t] = "useInner" /\ state[inner[t]] = "closed" /\ Goes(t, "left")
        /\ lent' = [lent EXCEPT ![inner[t]] = @ \ {<<t, "inner">>}]
  /\ UNCHANGED <<slot, state, op, mine, inner, batch, history, faults>>

(* The statements of a query, or of one batch of a stream.                 *)
Statement(t) ==
  /\ pc[t] = "use"
  /\ IF op[t] = "query"
     THEN GivesBack(t, "done") /\ UNCHANGED batch
     ELSE Goes(t, "yielded") /\ batch' = [batch EXCEPT ![t] = @ + 1] /\ UNCHANGED lent
  /\ UNCHANGED <<slot, state, op, mine, inner, history, faults>>

(* A query raises; a stream logs what a batch raises and goes on, but not  *)
(* what setting up its connection raises.                                  *)
Raises(t) ==
  /\ pc[t] = "use" /\ (op[t] = "query" \/ batch[t] = 0)
  /\ faults < MaxFaults /\ faults' = faults + 1
  /\ GivesBack(t, "failed")
  /\ UNCHANGED <<slot, state, op, mine, inner, batch, history>>

Resume(t) ==
  /\ pc[t] \in {"yielded", "ready"}
  /\ IF batch[t] < Batches THEN Goes(t, "use") /\ UNCHANGED lent ELSE GivesBack(t, "done")
  /\ UNCHANGED <<slot, state, op, mine, inner, batch, history, faults>>

(* A query of the consumer between two batches.                            *)
Nested(t) ==
  /\ pc[t] = "yielded"
  /\ IF Serves(slot) THEN Goes(t, "waitInner") ELSE Goes(t, "left")
  /\ inner' = [inner EXCEPT ![t] = slot]
  /\ UNCHANGED <<pools, op, mine, batch, history, faults>>

InnerStatement(t) ==
  /\ pc[t] = "useInner"
  /\ lent' = [lent EXCEPT ![inner[t]] = @ \ {<<t, "inner">>}]
  /\ Goes(t, "ready")
  /\ UNCHANGED <<slot, state, op, mine, inner, batch, history, faults>>

(* The consumer stops early: the connection goes back when the event loop  *)
(* closes the generator.                                                   *)
Leave(t) ==
  /\ pc[t] = "yielded" /\ Goes(t, "left")
  /\ UNCHANGED <<pools, op, mine, inner, batch, history, faults>>

Collected(t) ==
  /\ pc[t] = "left" /\ GivesBack(t, "done")
  /\ UNCHANGED <<slot, state, op, mine, inner, batch, history, faults>>

---------------------------------------------------------------------------
Init ==
  /\ slot = None
  /\ state = [p \in Pool |-> "unused"]
  /\ lent = [p \in Pool |-> {}]
  /\ pc = [t \in Task |-> "idle"]
  /\ op = [t \in Task |-> None]
  /\ mine = [t \in Task |-> None]
  /\ inner = [t \in Task |-> None]
  /\ batch = [t \in Task |-> 0]
  /\ clean = [t \in Task |-> FALSE]
  /\ promised = FALSE
  /\ raced = FALSE
  /\ faults = 0

Step(t) ==
  \/ Opened(t) \/ Closed(t) \/ Granted(t) \/ Broken(t) \/ Statement(t)
  \/ Resume(t) \/ InnerStatement(t) \/ Collected(t)

Next ==
  \E t \in Task :
    \/ Connect(t) \/ Close(t) \/ Query(t) \/ Stream(t)
    \/ CannotOpen(t) \/ CannotClose(t) \/ Raises(t) \/ Nested(t) \/ Leave(t) \/ Step(t)

Spec == Init /\ [][Next]_vars

(* The event loop resumes every coroutine it can, and consumers come back  *)
(* to their streams.                                                       *)
FairSpec == Spec /\ \A t \in Task : WF_vars(Step(t))

---------------------------------------------------------------------------
(* Properties.                                                             *)

TypeOK ==
  /\ slot \in Pool \cup {None}
  /\ state \in [Pool -> {"unused", "opening", "open", "closing", "closed"}]
  /\ lent \in [Pool -> SUBSET (Task \X {"outer", "inner"})]
  /\ pc \in [Task -> Busy \cup {"idle", "done", "failed"}]
  /\ op \in [Task -> {"connect", "close", "query", "stream", None}]
  /\ mine \in [Task -> Pool \cup {None}] /\ inner \in [Task -> Pool \cup {None}]
  /\ batch \in [Task -> 0..Batches]
  /\ clean \in [Task -> BOOLEAN] /\ promised \in BOOLEAN /\ raced \in BOOLEAN
  /\ faults \in 0..MaxFaults

(* A pool is always within reach of a close(), or being opened or closed,  *)
(* unless calls of connect() and close() overlap: two that open each set   *)
(* self._pool, and a close() forgets the pool another call opened while it *)
(* waited (connection.py:53-56, 73-76).                                    *)
NoPoolLost ==
  raced \/ \A p \in Pool : state[p] \in {"opening", "open", "closing"} =>
             slot = p \/ \E t \in Managing : mine[t] = p

(* Once a connect() that no close() overlapped has returned, and until the *)
(* next close(), calls find an open pool, whatever other coroutines do,    *)
(* also after calls of close() that raised, as long as none has raised on  *)
(* the very pool connect() finds: that one it takes for open               *)
(* (connection.py:53-65, 73-76, 85-89).                                    *)
PromiseKept == promised => Serves(slot)

(* Every call is answered and every close() returns, as long as the        *)
(* consumers that need a second connection while their stream holds one    *)
(* are fewer than the connections: as many of them wait for each other     *)
(* forever (pg_analyzer_client.py:87-118, connection.py:73-76).            *)
EveryCallEnds ==
  [](Cardinality({t \in Task : pc[t] = "waitInner"}) < MaxSize)
    => \A t \in Task : pc[t] \in Busy ~> pc[t] \in {"done", "failed"}
=============================================================================
