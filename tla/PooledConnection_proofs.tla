---------------------- MODULE PooledConnection_proofs ----------------------
(***************************************************************************)
(* Proofs about PooledConnection, for every set of calls, every set of     *)
(* pools, and for every bound.                                             *)
(***************************************************************************)
EXTENDS PooledConnection, TLAPS

USE PoolAssumption DEF PoolAssumption, pools, history

(* What a call knows at each await.                                        *)
LocalOK(t) ==
  /\ pc[t] \in Busy => mine[t] \in Pool
  /\ pc[t] = "closing" => op[t] = "close"
  /\ pc[t] \in {"waitInner", "useInner"} => inner[t] \in Pool
  /\ pc[t] \in {"idle", "wait"} => batch[t] = 0
  /\ pc[t] = "use" => batch[t] < Batches

(* Every opening call has a pool of its own, and no close() is running     *)
(* when it is still clean.                                                 *)
OpenersOK ==
  \A t \in Task : pc[t] = "opening" =>
    /\ state[mine[t]] = "opening"
    /\ clean[t] => Closers = {}
    /\ \A u \in Task : pc[u] = "opening" /\ mine[u] = mine[t] => u = t

(* A pool that a close() works on is never used again.                     *)
ClosersOK == \A t \in Task : pc[t] = "closing" => state[mine[t]] \in {"closing", "closed"}

(* self._pool is closed only if a close() raised on it.                    *)
SlotOK ==
  /\ slot # None => state[slot] \in {"open", "closing", "closed"}
  /\ slot # None /\ state[slot] = "closing" => \E t \in Closers : mine[t] = slot
  /\ slot # None /\ state[slot] = "closed" => Jammed
  /\ promised => Closers = {}

(* Calls that did not overlap: the only one that manages works on          *)
(* self._pool.                                                             *)
OneManager ==
  ~raced => \A t \in Managing :
    /\ \A u \in Managing : u = t
    /\ pc[t] = "opening" => slot = None
    /\ pc[t] = "closing" => mine[t] = slot /\ state[mine[t]] = "closing"

IInv ==
  /\ TypeOK
  /\ \A t \in Task : LocalOK(t)
  /\ OpenersOK /\ ClosersOK /\ SlotOK /\ OneManager /\ PromiseKept /\ NoPoolLost

(* Before the first call there is no pool.                                 *)
LEMMA InitInv == Init => IInv
<1> SUFFICES ASSUME Init
             PROVE  IInv
  OBVIOUS
<1>a. lent \in [Pool -> SUBSET (Task \X {"outer", "inner"})]
  BY DEF Init
<1>b. pc \in [Task -> Busy \cup {"idle", "done", "failed"}]
  BY DEF Init
<1>c. batch \in [Task -> 0..Batches] /\ faults \in 0..MaxFaults
  BY DEF Init
<1>d. clean \in [Task -> BOOLEAN] /\ promised \in BOOLEAN /\ raced \in BOOLEAN
  BY DEF Init
<1>e. /\ slot \in Pool \cup {None}
      /\ state \in [Pool -> {"unused", "opening", "open", "closing", "closed"}]
      /\ op \in [Task -> {"connect", "close", "query", "stream", None}]
      /\ mine \in [Task -> Pool \cup {None}] /\ inner \in [Task -> Pool \cup {None}]
  BY DEF Init
<1>1. TypeOK
  BY <1>a, <1>b, <1>c, <1>d, <1>e DEF TypeOK
<1>2. \A t \in Task : LocalOK(t)
  BY DEF Init, LocalOK, Busy
<1>3. Closers = {} /\ Managing = {}
  BY DEF Init, Closers, Managing
<1>4. OpenersOK /\ ClosersOK /\ SlotOK /\ OneManager /\ PromiseKept /\ NoPoolLost
  BY <1>3 DEF Init, OpenersOK, ClosersOK, SlotOK, OneManager, PromiseKept, NoPoolLost
<1> QED
  BY <1>1, <1>2, <1>4 DEF IInv

(* That a close() raised is not undone by the calls of others.             *)
LEMMA JammedStays ==
  ASSUME NEW t \in Task, pc[t] # "failed", slot' = slot, Jammed,
         \A u \in Task \ {t} : pc'[u] = pc[u] /\ mine'[u] = mine[u] /\ op'[u] = op[u]
  PROVE  Jammed'
BY DEF Jammed

(* A call that neither opens nor closes leaves the pools as they are.      *)
OnlyOf(t) ==
  \A u \in Task \ {t} :
    /\ pc'[u] = pc[u] /\ mine'[u] = mine[u] /\ inner'[u] = inner[u] /\ batch'[u] = batch[u]
    /\ op'[u] = op[u]

LEMMA QuietInv ==
  ASSUME IInv, NEW t \in Task, OnlyOf(t), UNCHANGED <<slot, state, history>>,
         pc[t] \notin {"opening", "closing", "failed"}, pc'[t] \notin {"opening", "closing"},
         TypeOK', LocalOK(t)'
  PROVE  IInv'
<1>1. \A u \in Task : LocalOK(u)'
  BY DEF IInv, LocalOK, OnlyOf
<1>2. /\ \A u \in Task : pc'[u] = "opening" <=> pc[u] = "opening"
      /\ \A u \in Task : pc'[u] = "closing" <=> pc[u] = "closing"
      /\ \A u \in Task : pc[u] \in {"opening", "closing"} => mine'[u] = mine[u]
  BY DEF OnlyOf
<1>3. Closers' = Closers /\ Managing' = Managing
  BY <1>2 DEF Closers, Managing
<1>4. OpenersOK' /\ ClosersOK'
  BY <1>2, <1>3 DEF IInv, OpenersOK, ClosersOK
<1>j. Jammed => Jammed'
  BY JammedStays DEF OnlyOf
<1>k. (\E u \in Closers : mine[u] = slot) => \E u \in Closers' : mine'[u] = slot
  BY <1>2, <1>3 DEF Closers
<1>5. SlotOK' /\ PromiseKept'
  BY <1>3, <1>j, <1>k DEF IInv, SlotOK, PromiseKept, Serves
<1>6. OneManager' /\ NoPoolLost'
  BY <1>2, <1>3 DEF IInv, OneManager, NoPoolLost, Managing
<1> QED
  BY <1>1, <1>4, <1>5, <1>6 DEF IInv

(* Calls that use connections.                                             *)
LEMMA UseInv ==
  ASSUME IInv, NEW t \in Task,
         \/ Query(t) \/ Stream(t) \/ Granted(t) \/ Broken(t) \/ Statement(t) \/ Raises(t)
         \/ Resume(t) \/ Nested(t) \/ InnerStatement(t) \/ Leave(t) \/ Collected(t)
  PROVE  IInv'
<1> USE DEF IInv, TypeOK, Busy
<1>1. ASSUME NEW o \in {"query", "stream"}, Calls(t, o)
      PROVE  IInv'
  <2>1. TypeOK'
    BY <1>1 DEF Calls, Begins, Goes
  <2>2. LocalOK(t) /\ slot \in Pool \cup {None} /\ (Serves(slot) => slot \in Pool)
    BY DEF Serves
  <2>3. LocalOK(t)'
    BY <1>1, <2>2 DEF Calls, Begins, Goes, LocalOK
  <2>4. /\ OnlyOf(t) /\ UNCHANGED <<slot, state, history>>
        /\ pc[t] \notin {"opening", "closing", "failed"} /\ pc'[t] \notin {"opening", "closing"}
    BY <1>1 DEF Calls, Begins, Goes, OnlyOf
  <2> QED
    BY <2>1, <2>3, <2>4, QuietInv
<1>2. CASE Query(t) \/ Stream(t)
  BY <1>1, <1>2 DEF Query, Stream
<1>3. CASE Granted(t)
  <2>1. LocalOK(t)
    OBVIOUS
  <2>2. CASE pc[t] = "wait" /\ pc' = [pc EXCEPT ![t] = "use"]
             /\ lent' = [lent EXCEPT ![mine[t]] = @ \cup {<<t, "outer">>}]
    <3>1. UNCHANGED <<slot, state, op, mine, inner, batch, history, faults>>
      BY <1>3 DEF Granted
    <3>. mine[t] \in Pool /\ <<t, "outer">> \in Task \X {"outer", "inner"}
      BY <2>1, <2>2 DEF LocalOK
    <3>a. lent' \in [Pool -> SUBSET (Task \X {"outer", "inner"})]
      BY <2>2
    <3>2. TypeOK'
      BY <2>2, <3>1, <3>a
    <3>3. LocalOK(t)'
      BY <2>1, <2>2, <3>1 DEF LocalOK
    <3>4. OnlyOf(t) /\ pc'[t] = "use"
      BY <2>2, <3>1 DEF OnlyOf
    <3> QED
      BY <2>2, <3>1, <3>2, <3>3, <3>4, QuietInv
  <2>3. CASE pc[t] = "waitInner" /\ pc' = [pc EXCEPT ![t] = "useInner"]
             /\ lent' = [lent EXCEPT ![inner[t]] = @ \cup {<<t, "inner">>}]
    <3>1. UNCHANGED <<slot, state, op, mine, inner, batch, history, faults>>
      BY <1>3 DEF Granted
    <3>. inner[t] \in Pool /\ <<t, "inner">> \in Task \X {"outer", "inner"}
      BY <2>1, <2>3 DEF LocalOK
    <3>a. lent' \in [Pool -> SUBSET (Task \X {"outer", "inner"})]
      BY <2>3
    <3>2. TypeOK'
      BY <2>3, <3>1, <3>a
    <3>3. LocalOK(t)'
      BY <2>1, <2>3, <3>1 DEF LocalOK
    <3>4. OnlyOf(t) /\ pc'[t] = "useInner"
      BY <2>3, <3>1 DEF OnlyOf
    <3> QED
      BY <2>3, <3>1, <3>2, <3>3, <3>4, QuietInv
  <2>4. PICK turn \in {<<"wait", "use", "outer", mine[t]>>,
                       <<"waitInner", "useInner", "inner", inner[t]>>} :
          /\ pc[t] = turn[1] /\ pc' = [pc EXCEPT ![t] = turn[2]]
          /\ lent' = [lent EXCEPT ![turn[4]] = @ \cup {<<t, turn[3]>>}]
    BY <1>3 DEF Granted, Goes
  <2>5. CASE turn = <<"wait", "use", "outer", mine[t]>>
    BY <2>2, <2>4, <2>5
  <2>6. CASE turn = <<"waitInner", "useInner", "inner", inner[t]>>
    BY <2>3, <2>4, <2>6
  <2> QED
    BY <2>5, <2>6
<1>7. ASSUME NEW how \in {"done", "failed"}, GivesBack(t, how),
             pc[t] \in {"use", "yielded", "ready", "left"}, faults' \in 0..MaxFaults,
             UNCHANGED <<slot, state, op, mine, inner, batch, history>>
      PROVE  IInv'
  <2>1. lent' \in [Pool -> SUBSET (Task \X {"outer", "inner"})]
    BY <1>7 DEF GivesBack, LentAfter, LocalOK
  <2>2. TypeOK' /\ OnlyOf(t) /\ pc'[t] = how
    BY <1>7, <2>1 DEF GivesBack, Goes, OnlyOf
  <2>3. LocalOK(t)'
    BY <1>7, <2>2 DEF LocalOK
  <2> QED
    BY <1>7, <2>2, <2>3, QuietInv
<1>4. CASE Broken(t)
  <2>0. UNCHANGED <<slot, state, op, mine, inner, batch, history, faults>>
    BY <1>4 DEF Broken
  <2>1. CASE pc[t] \in {"wait", "waitInner"}
    <3>1. TypeOK' /\ OnlyOf(t)
      BY <1>4, <2>0, <2>1 DEF Broken, Goes, OnlyOf
    <3>2. LocalOK(t)' /\ pc'[t] \in {"failed", "left"}
      BY <1>4, <2>0, <2>1 DEF Broken, Goes, LocalOK
    <3> QED
      BY <2>0, <2>1, <3>1, <3>2, QuietInv
  <2>2. CASE pc[t] = "use"
    BY <1>4, <1>7, <2>0, <2>2 DEF Broken
  <2>3. CASE pc[t] = "useInner"
    <3>1. Goes(t, "left") /\ lent' = [lent EXCEPT ![inner[t]] = @ \ {<<t, "inner">>}]
      BY <1>4, <2>3 DEF Broken
    <3>2. TypeOK' /\ OnlyOf(t)
      BY <2>0, <3>1 DEF Goes, OnlyOf
    <3>3. LocalOK(t)' /\ pc'[t] = "left"
      BY <2>0, <2>3, <3>1 DEF Goes, LocalOK
    <3> QED
      BY <2>0, <2>3, <3>2, <3>3, QuietInv
  <2> QED
    BY <1>4, <2>1, <2>2, <2>3 DEF Broken
<1>5. CASE Nested(t) \/ Leave(t)
  <2>1. TypeOK' /\ OnlyOf(t) /\ UNCHANGED <<slot, state, history>>
    BY <1>5 DEF Nested, Leave, Goes, OnlyOf
  <2>2. pc[t] = "yielded" /\ pc'[t] \in {"waitInner", "left"}
    BY <1>5 DEF Nested, Leave, Goes
  <2>3. pc'[t] = "waitInner" => inner'[t] \in Pool
    BY <1>5 DEF Nested, Leave, Goes, Serves
  <2>4. mine' = mine /\ LocalOK(t)
    BY <1>5 DEF Nested, Leave
  <2>5. LocalOK(t)'
    BY <2>2, <2>3, <2>4 DEF LocalOK
  <2> QED
    BY <2>1, <2>2, <2>5, QuietInv
<1>6. CASE InnerStatement(t)
  <2>1. TypeOK' /\ OnlyOf(t) /\ UNCHANGED <<slot, state, history>>
    BY <1>6 DEF InnerStatement, Goes, OnlyOf, LocalOK
  <2>2. LocalOK(t)' /\ pc[t] = "useInner" /\ pc'[t] = "ready"
    BY <1>6 DEF InnerStatement, Goes, LocalOK
  <2> QED
    BY <2>1, <2>2, QuietInv
<1>8. CASE Statement(t)
  <2>1. CASE op[t] = "query"
    BY <1>7, <1>8, <2>1 DEF Statement
  <2>2. CASE op[t] # "query"
    <3>1. LocalOK(t)
      OBVIOUS
    <3>2. batch[t] + 1 \in 0..Batches
      BY <1>8, <3>1 DEF Statement, LocalOK
    <3>3. TypeOK' /\ OnlyOf(t) /\ UNCHANGED <<slot, state, history>>
      BY <1>8, <2>2, <3>2 DEF Statement, Goes, OnlyOf
    <3>4. LocalOK(t)' /\ pc[t] = "use" /\ pc'[t] = "yielded"
      BY <1>8, <2>2, <3>1 DEF Statement, Goes, LocalOK
    <3> QED
      BY <3>3, <3>4, QuietInv
  <2> QED
    BY <2>1, <2>2
<1>9. CASE Raises(t)
  <2>1. faults' \in 0..MaxFaults
    BY <1>9 DEF Raises
  <2> QED
    BY <1>7, <1>9, <2>1 DEF Raises
<1>10. CASE Resume(t)
  <2>1. CASE batch[t] < Batches
    <3>1. TypeOK' /\ OnlyOf(t) /\ UNCHANGED <<slot, state, history>>
      BY <1>10, <2>1 DEF Resume, Goes, OnlyOf
    <3>2. LocalOK(t)' /\ pc[t] \in {"yielded", "ready"} /\ pc'[t] = "use"
      BY <1>10, <2>1 DEF Resume, Goes, LocalOK
    <3> QED
      BY <3>1, <3>2, QuietInv
  <2>2. CASE ~(batch[t] < Batches)
    BY <1>7, <1>10, <2>2 DEF Resume
  <2> QED
    BY <2>1, <2>2
<1>11. CASE Collected(t)
  BY <1>7, <1>11 DEF Collected
<1> QED
  BY <1>2, <1>3, <1>4, <1>5, <1>6, <1>8, <1>9, <1>10, <1>11

---------------------------------------------------------------------------
(* Calls that open and close.                                              *)

LEMMA ConnectInv ==
  ASSUME IInv, NEW t \in Task, Connect(t)
  PROVE  IInv'
<1> USE DEF IInv, Connect, Begins, Goes
<1>1. pc[t] = "idle" /\ UNCHANGED <<slot, lent, inner, batch, faults>>
  OBVIOUS
<1>2. /\ clean' \in [Task -> BOOLEAN] /\ op' \in [Task -> {"connect", "close", "query", "stream", None}]
      /\ clean'[t] <=> Closers = {} /\ ~Jammed
      /\ \A u \in Task \ {t} : clean'[u] = clean[u]
  BY DEF TypeOK
<1>3. CASE Connected(t) /\ Goes(t, "done") /\ Returned(t) /\ UNCHANGED <<state, mine, raced>>
  <2>1. TypeOK'
    BY <1>1, <1>2, <1>3 DEF TypeOK, Returned, Busy
  <2>2. \A u \in Task : LocalOK(u)'
    BY <1>1, <1>3 DEF TypeOK, LocalOK, Busy
  <2>3. /\ \A u \in Task : pc'[u] = "opening" <=> pc[u] = "opening"
        /\ \A u \in Task : pc'[u] = "closing" <=> pc[u] = "closing"
    BY <1>1, <1>3 DEF TypeOK
  <2>4. Closers' = Closers /\ Managing' = Managing
    BY <2>3 DEF Closers, Managing
  <2>5. OpenersOK' /\ ClosersOK'
    BY <1>1, <1>2, <1>3, <2>3, <2>4 DEF OpenersOK, ClosersOK
  <2>j. \A u \in Task \ {t} : pc'[u] = pc[u] /\ mine'[u] = mine[u] /\ op'[u] = op[u]
    BY <1>3
  <2>k. Jammed => Jammed'
    BY <1>1, <2>j, JammedStays
  <2>6. SlotOK'
    BY <1>1, <1>2, <1>3, <2>4, <2>k DEF SlotOK, Returned, Connected
  <2>7. PromiseKept'
    BY <1>1, <1>2, <1>3, <2>4, <2>6 DEF SlotOK, PromiseKept, Serves, Connected, Returned
  <2>8. OneManager' /\ NoPoolLost'
    BY <1>1, <1>3, <2>3, <2>4 DEF OneManager, NoPoolLost, Managing
  <2> QED
    BY <2>1, <2>2, <2>5, <2>6, <2>7, <2>8
<1>4. CASE /\ ~Connected(t)
           /\ \E p \in Pool : state[p] = "unused"
           /\ Becomes(Unused, "opening")
           /\ mine' = [mine EXCEPT ![t] = Unused]
           /\ Goes(t, "opening")
           /\ raced' = (raced \/ Managing # {})
           /\ UNCHANGED promised
  <2>1. PICK n \in Pool : n = Unused /\ state[n] = "unused"
    BY <1>4 DEF Unused
  <2>2. /\ state' = [state EXCEPT ![n] = "opening"] /\ mine' = [mine EXCEPT ![t] = n]
        /\ pc' = [pc EXCEPT ![t] = "opening"]
        /\ slot = None /\ slot' = None
    BY <1>4, <2>1 DEF Becomes, Connected
  <2>3. TypeOK'
    BY <1>1, <1>2, <1>4, <2>2 DEF TypeOK, Busy
  <2>4. \A u \in Task : LocalOK(u)'
    BY <1>1, <2>2 DEF TypeOK, LocalOK, Busy
  <2>5. /\ \A u \in Task : pc'[u] = "opening" <=> pc[u] = "opening" \/ u = t
        /\ \A u \in Task : pc'[u] = "closing" <=> pc[u] = "closing"
        /\ \A u \in Task \ {t} : mine'[u] = mine[u]
        /\ mine'[t] = n /\ state'[n] = "opening"
        /\ \A p \in Pool \ {n} : state'[p] = state[p]
    BY <1>1, <2>2 DEF TypeOK
  <2> HIDE DEF Connect, Begins, Goes
  <2>6. Closers' = Closers /\ Managing' = Managing \cup {t}
    BY <2>5 DEF Closers, Managing
  <2>7. \A u \in Task :
          pc[u] = "opening" => u # t /\ mine[u] \in Pool \ {n} /\ state[mine[u]] = "opening"
    BY <1>1, <2>1 DEF OpenersOK, LocalOK, Busy
  <2>a. \A u \in Task : pc'[u] = "opening" => state'[mine'[u]] = "opening"
    BY <2>5, <2>7
  <2>. \A u, v \in Task : pc[u] = "opening" /\ pc[v] = "opening" /\ mine[v] = mine[u] => v = u
    BY DEF OpenersOK
  <2>b. \A u, v \in Task :
          pc'[u] = "opening" /\ pc'[v] = "opening" /\ mine'[v] = mine'[u] => v = u
    BY <2>5, <2>7
  <2>f. ClosersOK'
    BY <1>1, <2>1, <2>5 DEF ClosersOK, LocalOK, Busy
  <2>c. \A u \in Task : pc'[u] = "opening" /\ clean'[u] => Closers' = {}
    BY <1>2, <2>5, <2>6 DEF OpenersOK
  <2>8. OpenersOK'
    BY <2>a, <2>b, <2>c DEF OpenersOK
  <2>9. SlotOK' /\ PromiseKept'
    BY <1>4, <2>2, <2>6 DEF SlotOK, PromiseKept, Serves
  <2>10. OneManager'
    BY <1>4, <2>2, <2>5, <2>6 DEF OneManager
  <2>d. raced' \/ (~raced /\ Managing = {})
    BY <1>4
  <2>e. ASSUME ~raced /\ Managing = {}
        PROVE  NoPoolLost'
    <3>1. \A p \in Pool : state[p] \notin {"opening", "open", "closing"}
      BY <2>2, <2>e DEF NoPoolLost
    <3>2. t \in Managing' /\ mine'[t] = n
      BY <2>5, <2>6
    <3>3. \A p \in Pool : state'[p] \in {"opening", "open", "closing"} => p = n
      BY <2>5, <3>1
    <3>4. \A p \in Pool : state'[p] \in {"opening", "open", "closing"} =>
                          \E u \in Managing' : mine'[u] = p
      BY <3>2, <3>3
    <3> QED
      BY <3>4 DEF NoPoolLost
  <2>11. NoPoolLost'
    BY <2>d, <2>e DEF NoPoolLost
  <2> QED
    BY <2>3, <2>4, <2>8, <2>9, <2>f, <2>10, <2>11
<1> QED
  BY <1>3, <1>4

LEMMA OpenedInv ==
  ASSUME IInv, NEW t \in Task, Opened(t)
  PROVE  IInv'
<1> USE DEF IInv, Opened, Goes, Becomes
<1>1. /\ pc[t] = "opening" /\ mine[t] \in Pool /\ state[mine[t]] = "opening"
      /\ slot' = mine[t] /\ slot' \in Pool /\ slot' # None /\ state'[slot'] = "open"
      /\ \A p \in Pool \ {slot'} : state'[p] = state[p]
      /\ clean' = clean
  BY DEF OpenersOK, LocalOK, Busy, TypeOK
<1>2. TypeOK'
  BY <1>1 DEF TypeOK, Returned, Busy
<1>3. \A u \in Task : LocalOK(u)'
  BY DEF TypeOK, LocalOK, Busy
<1>4. /\ \A u \in Task : pc'[u] = "opening" <=> pc[u] = "opening" /\ u # t
      /\ \A u \in Task : pc'[u] = "closing" <=> pc[u] = "closing"
      /\ mine' = mine
  BY DEF TypeOK
<1>5. Closers' = Closers /\ Managing' = Managing \ {t}
  BY <1>1, <1>4 DEF Closers, Managing
<1>6. \A u \in Task : pc'[u] = "opening" => mine[u] \in Pool \ {slot'}
  BY <1>1, <1>4 DEF OpenersOK, LocalOK, Busy
<1>7. OpenersOK' /\ ClosersOK'
  BY <1>1, <1>4, <1>5, <1>6 DEF OpenersOK, ClosersOK, LocalOK, Busy
<1>8. promised' => Closers = {}
  BY <1>1 DEF Returned, OpenersOK, SlotOK
<1>9. SlotOK' /\ PromiseKept'
  BY <1>1, <1>5, <1>8 DEF SlotOK, PromiseKept, Serves
<1>10. OneManager'
  BY <1>1, <1>4, <1>5 DEF OneManager, Managing
<1>11. raced' = raced
  OBVIOUS
<1>12. NoPoolLost'
  <2> SUFFICES ASSUME ~raced, NEW p \in Pool, p # slot', state'[p] \in {"opening", "open", "closing"}
               PROVE  FALSE
    BY <1>11 DEF NoPoolLost
  <2>1. slot = None /\ Managing = {t}
    BY <1>1 DEF OneManager, Managing
  <2> QED
    BY <1>1, <2>1 DEF NoPoolLost
<1> QED
  BY <1>2, <1>3, <1>7, <1>9, <1>10, <1>12

LEMMA CannotOpenInv ==
  ASSUME IInv, NEW t \in Task, CannotOpen(t)
  PROVE  IInv'
<1> USE DEF IInv, CannotOpen, Goes, Becomes
<1>1. /\ pc[t] = "opening" /\ mine[t] \in Pool /\ state[mine[t]] = "opening"
      /\ state'[mine[t]] = "closed" /\ \A p \in Pool \ {mine[t]} : state'[p] = state[p]
      /\ UNCHANGED <<slot, mine, history>>
  BY DEF OpenersOK, LocalOK, Busy, TypeOK
<1>2. faults' \in 0..MaxFaults
  BY DEF TypeOK
<1>3. TypeOK'
  BY <1>1, <1>2 DEF TypeOK, Busy
<1>4. \A u \in Task : LocalOK(u)'
  BY DEF TypeOK, LocalOK, Busy
<1>5. /\ \A u \in Task : pc'[u] = "opening" <=> pc[u] = "opening" /\ u # t
      /\ \A u \in Task : pc'[u] = "closing" <=> pc[u] = "closing"
  BY DEF TypeOK
<1>6. Closers' = Closers /\ Managing' = Managing \ {t}
  BY <1>1, <1>5 DEF Closers, Managing
<1>7. \A u \in Task : pc'[u] = "opening" => mine[u] \in Pool \ {mine[t]}
  BY <1>1, <1>5 DEF OpenersOK, LocalOK, Busy
<1>8. OpenersOK' /\ ClosersOK'
  BY <1>1, <1>5, <1>6, <1>7 DEF OpenersOK, ClosersOK, LocalOK, Busy
<1>9. slot # None => slot \in Pool \ {mine[t]}
  BY <1>1 DEF SlotOK, TypeOK
<1>j. Jammed => Jammed'
  BY <1>1, JammedStays
<1>10. SlotOK' /\ PromiseKept'
  BY <1>1, <1>6, <1>9, <1>j DEF SlotOK, PromiseKept, Serves
<1>11. OneManager' /\ NoPoolLost'
  BY <1>1, <1>5, <1>6 DEF OneManager, NoPoolLost, Managing
<1> QED
  BY <1>3, <1>4, <1>8, <1>10, <1>11

LEMMA CloseInv ==
  ASSUME IInv, NEW t \in Task, Close(t)
  PROVE  IInv'
<1> USE DEF IInv, Close, Begins, Goes
<1>1. pc[t] = "idle" /\ UNCHANGED <<lent, inner, batch, faults>>
  OBVIOUS
<1>2. /\ clean' \in [Task -> BOOLEAN] /\ \A u \in Task : ~clean'[u]
      /\ op' \in [Task -> {"connect", "close", "query", "stream", None}]
      /\ promised' = FALSE
  BY DEF TypeOK
<1>3. CASE /\ slot # None => state[slot] = "closed"
           /\ slot' = None /\ Goes(t, "done") /\ UNCHANGED <<state, mine, raced>>
  <2>1. TypeOK'
    BY <1>1, <1>2, <1>3 DEF TypeOK, Busy
  <2>2. \A u \in Task : LocalOK(u)'
    BY <1>1, <1>3 DEF TypeOK, LocalOK, Busy
  <2>3. /\ \A u \in Task : pc'[u] = "opening" <=> pc[u] = "opening"
        /\ \A u \in Task : pc'[u] = "closing" <=> pc[u] = "closing"
    BY <1>1, <1>3 DEF TypeOK
  <2>4. Closers' = Closers /\ Managing' = Managing
    BY <2>3 DEF Closers, Managing
  <2>5. OpenersOK' /\ ClosersOK'
    BY <1>1, <1>2, <1>3, <2>3, <2>4 DEF OpenersOK, ClosersOK
  <2>6. SlotOK' /\ PromiseKept'
    BY <1>1, <1>2, <1>3, <2>4 DEF SlotOK, PromiseKept
  <2>7. OneManager' /\ NoPoolLost'
    BY <1>1, <1>3, <2>3, <2>4 DEF OneManager, NoPoolLost, Managing
  <2> QED
    BY <2>1, <2>2, <2>5, <2>6, <2>7
<1>4. CASE /\ slot # None /\ state[slot] # "closed"
           /\ UNCHANGED slot
           /\ state' = [state EXCEPT ![slot] = IF @ = "open" THEN "closing" ELSE @]
           /\ mine' = [mine EXCEPT ![t] = slot]
           /\ Goes(t, "closing")
           /\ raced' = (raced \/ Managing # {})
  <2>1. /\ slot \in Pool /\ slot' = slot /\ state'[slot] = "closing"
        /\ \A p \in Pool \ {slot} : state'[p] = state[p]
        /\ state' \in [Pool -> {"unused", "opening", "open", "closing", "closed"}]
    BY <1>1, <1>4 DEF TypeOK, SlotOK
  <2>2. /\ mine'[t] = slot /\ \A u \in Task \ {t} : mine'[u] = mine[u]
        /\ pc' = [pc EXCEPT ![t] = "closing"]
    BY <1>4 DEF TypeOK
  <2>3. raced' \in BOOLEAN /\ (raced' \/ (~raced /\ Managing = {}))
    BY <1>4
  <2> HIDE DEF Close, Begins, Goes
  <2>b. mine' \in [Task -> Pool \cup {None}] /\ pc' \in [Task -> Busy \cup {"idle", "done", "failed"}]
    BY <1>4, <2>1, <2>2 DEF TypeOK, Busy
  <2>4. TypeOK'
    BY <1>1, <1>2, <2>1, <2>b, <2>3 DEF TypeOK
  <2>o. op'[t] = "close" /\ \A u \in Task \ {t} : op'[u] = op[u]
    BY DEF Close, Begins, TypeOK
  <2>5. \A u \in Task : LocalOK(u)'
    BY <1>1, <2>1, <2>2, <2>o DEF TypeOK, LocalOK, Busy
  <2>6. /\ \A u \in Task : pc'[u] = "opening" <=> pc[u] = "opening"
        /\ \A u \in Task : pc'[u] = "closing" <=> pc[u] = "closing" \/ u = t
    BY <1>1, <2>2 DEF TypeOK
  <2>7. Closers' = Closers \cup {t} /\ Managing' = Managing \cup {t}
    BY <2>6 DEF Closers, Managing
  <2>8. \A u \in Task : pc[u] = "opening" => mine[u] \in Pool \ {slot} /\ u # t
    BY <1>1, <1>4 DEF OpenersOK, SlotOK, LocalOK, Busy
  <2>9. OpenersOK'
    BY <1>2, <2>1, <2>2, <2>6, <2>8 DEF OpenersOK
  <2>a. ClosersOK'
    BY <1>1, <2>1, <2>2, <2>6 DEF ClosersOK, LocalOK, Busy
  <2>10. SlotOK' /\ PromiseKept'
    BY <1>2, <1>4, <2>1, <2>2, <2>7 DEF SlotOK, PromiseKept
  <2>11. OneManager' /\ NoPoolLost'
    <3>1. CASE raced'
      BY <3>1 DEF OneManager, NoPoolLost
    <3>2. CASE ~raced /\ Managing = {}
      <4>1. \A p \in Pool \ {slot} : state'[p] \notin {"opening", "open", "closing"}
        BY <2>1, <3>2 DEF NoPoolLost
      <4>2. pc'[t] = "closing" /\ Managing' = {t}
        BY <2>6, <2>7, <3>2
      <4> QED
        BY <2>1, <2>2, <4>1, <4>2 DEF OneManager, NoPoolLost
    <3> QED
      BY <2>3, <3>1, <3>2
  <2> QED
    BY <2>4, <2>5, <2>9, <2>a, <2>10, <2>11
<1> QED
  BY <1>3, <1>4

LEMMA ClosedInv ==
  ASSUME IInv, NEW t \in Task, Closed(t)
  PROVE  IInv'
<1> USE DEF IInv, Closed, Goes, Becomes, AfterClose
<1>1. /\ pc[t] = "closing" /\ mine[t] \in Pool /\ slot' = None /\ slot' \notin Pool
      /\ state'[mine[t]] = "closed" /\ \A p \in Pool \ {mine[t]} : state'[p] = state[p]
      /\ UNCHANGED <<mine, history, inner, batch>>
  BY DEF LocalOK, Busy, TypeOK
<1>2. ~promised
  BY <1>1 DEF SlotOK, Closers
<1>3. TypeOK'
  BY <1>1 DEF TypeOK, Busy
<1>4. \A u \in Task : LocalOK(u)'
  BY <1>1 DEF TypeOK, LocalOK, Busy
<1>5. /\ \A u \in Task : pc'[u] = "opening" <=> pc[u] = "opening"
      /\ \A u \in Task : pc'[u] = "closing" <=> pc[u] = "closing" /\ u # t
  BY <1>1 DEF TypeOK
<1>6. Closers' \subseteq Closers /\ Managing' = Managing \ {t}
  BY <1>1, <1>5 DEF Closers, Managing
<1>7. SlotOK' /\ PromiseKept'
  BY <1>1, <1>2 DEF SlotOK, PromiseKept
<1>8. \A u \in Task : pc[u] = "opening" => mine[u] \in Pool \ {mine[t]}
  BY <1>1 DEF OpenersOK, ClosersOK, LocalOK, Busy
<1>9. OpenersOK' /\ ClosersOK'
  BY <1>1, <1>5, <1>6, <1>8 DEF OpenersOK, ClosersOK, LocalOK, Busy
<1>10. OneManager' /\ NoPoolLost'
  BY <1>1, <1>5, <1>6 DEF OneManager, NoPoolLost, Managing
<1> QED
  BY <1>3, <1>4, <1>7, <1>9, <1>10

LEMMA CannotCloseInv ==
  ASSUME IInv, NEW t \in Task, CannotClose(t)
  PROVE  IInv'
<1> USE DEF IInv, CannotClose, Goes, Becomes
<1>1. /\ pc[t] = "closing" /\ pc'[t] = "failed" /\ mine[t] \in Pool
      /\ state[mine[t]] \in {"closing", "closed"}
      /\ state'[mine[t]] = "closed" /\ \A p \in Pool \ {mine[t]} : state'[p] = state[p]
      /\ UNCHANGED <<slot, op, mine, history, inner, batch>>
  BY DEF ClosersOK, LocalOK, Busy, TypeOK
<1>2. ~promised /\ faults' \in 0..MaxFaults
  BY <1>1 DEF SlotOK, Closers, TypeOK
<1>3. TypeOK'
  BY <1>1, <1>2 DEF TypeOK, Busy
<1>4. \A u \in Task : LocalOK(u)'
  BY <1>1 DEF TypeOK, LocalOK, Busy
<1>5. /\ \A u \in Task : pc'[u] = "opening" <=> pc[u] = "opening"
      /\ \A u \in Task : pc'[u] = "closing" <=> pc[u] = "closing" /\ u # t
  BY <1>1 DEF TypeOK
<1>6. Closers' = Closers \ {t} /\ Managing' = Managing \ {t}
  BY <1>1, <1>5 DEF Closers, Managing
<1>j. \A u \in Task \ {t} : pc'[u] = pc[u] /\ mine'[u] = mine[u] /\ op'[u] = op[u]
  BY <1>1 DEF TypeOK
<1>k. Jammed => Jammed'
  BY <1>1, <1>j, JammedStays
<1>l. slot = mine[t] => Jammed'
  BY <1>1 DEF Jammed, LocalOK
<1>m. slot # None /\ slot # mine[t] => slot \in Pool /\ state'[slot] = state[slot]
  BY <1>1 DEF TypeOK
<1>n. slot # None /\ slot # mine[t] /\ state[slot] = "closing" => \E u \in Closers' : mine'[u] = slot
  BY <1>1, <1>6 DEF SlotOK
<1>7. SlotOK' /\ PromiseKept'
  BY <1>1, <1>2, <1>k, <1>l, <1>m, <1>n DEF SlotOK, PromiseKept
<1>8. \A u \in Task : pc[u] = "opening" => mine[u] \in Pool \ {mine[t]}
  BY <1>1 DEF OpenersOK, ClosersOK, LocalOK, Busy
<1>9. OpenersOK' /\ ClosersOK'
  BY <1>1, <1>5, <1>6, <1>8 DEF OpenersOK, ClosersOK, LocalOK, Busy
<1>10. OneManager' /\ NoPoolLost'
  BY <1>1, <1>5, <1>6 DEF OneManager, NoPoolLost, Managing
<1> QED
  BY <1>3, <1>4, <1>7, <1>9, <1>10

---------------------------------------------------------------------------
(* The specification.                                                      *)

LEMMA StutterInv == IInv /\ UNCHANGED vars => IInv'
<1> SUFFICES ASSUME IInv, UNCHANGED vars
             PROVE  IInv'
  OBVIOUS
<1> USE DEF IInv, vars
<1>1. TypeOK' /\ \A u \in Task : LocalOK(u)'
  BY DEF TypeOK, LocalOK
<1>2. Closers' = Closers /\ Managing' = Managing
  BY DEF Closers, Managing
<1>3. Jammed' <=> Jammed
  BY DEF Jammed
<1>5. OpenersOK' /\ ClosersOK' /\ SlotOK' /\ OneManager'
  BY <1>2, <1>3 DEF OpenersOK, ClosersOK, SlotOK, OneManager
<1>4. PromiseKept' /\ NoPoolLost'
  BY <1>2 DEF PromiseKept, NoPoolLost, Serves
<1> QED
  BY <1>1, <1>4, <1>5

LEMMA NextInv == IInv /\ [Next]_vars => IInv'
<1> SUFFICES ASSUME IInv, Next
             PROVE  IInv'
  BY StutterInv
<1>1. PICK t \in Task :
        \/ Connect(t) \/ Close(t) \/ Query(t) \/ Stream(t)
        \/ CannotOpen(t) \/ CannotClose(t) \/ Raises(t) \/ Nested(t) \/ Leave(t) \/ Step(t)
  BY DEF Next
<1>2. CASE Connect(t)
  BY <1>2, ConnectInv
<1>3. CASE Opened(t) \/ CannotOpen(t)
  BY <1>3, OpenedInv, CannotOpenInv
<1>4. CASE Close(t) \/ Closed(t) \/ CannotClose(t)
  BY <1>4, CloseInv, ClosedInv, CannotCloseInv
<1>5. CASE \/ Query(t) \/ Stream(t) \/ Granted(t) \/ Broken(t) \/ Statement(t) \/ Raises(t)
           \/ Resume(t) \/ Nested(t) \/ InnerStatement(t) \/ Leave(t) \/ Collected(t)
  BY <1>5, UseInv
<1> QED
  BY <1>1, <1>2, <1>3, <1>4, <1>5 DEF Step

(* The inductive invariant holds in every reachable state.                 *)
THEOREM Invariant == Spec => []IInv
  BY InitInv, NextInv, PTL DEF Spec

(* Every variable keeps its type: self._pool is a pool or None, and a      *)
(* stream never yields more than its batches (connection.py:36-60,         *)
(* pg_analyzer_client.py:87-118).                                          *)
THEOREM TypeCorrect == Spec => []TypeOK
<1>1. IInv => TypeOK
  BY DEF IInv
<1> QED
  BY Invariant, <1>1, PTL

(* However calls interleave, a connect() that no close() overlapped leaves *)
(* an open pool that serves until the next close() (connection.py:53-65).  *)
THEOREM ConnectPromises == Spec => []PromiseKept
<1>1. IInv => PromiseKept
  BY DEF IInv
<1> QED
  BY Invariant, <1>1, PTL

(* Overlapping calls of connect() and close() are the only way to lose a   *)
(* pool (connection.py:53-76).                                             *)
THEOREM PoolsInReach == Spec => []NoPoolLost
<1>1. IInv => NoPoolLost
  BY DEF IInv
<1> QED
  BY Invariant, <1>1, PTL

=============================================================================
