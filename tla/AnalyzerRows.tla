---------------------------- MODULE AnalyzerRows ----------------------------
(***************************************************************************)
(* The rows of the analyzer_* tables (init/05-analyzer-tables.sql) and the *)
(* calls that write them.  A call is a list of SQL statements on one       *)
(* pooled connection, in a transaction or in autocommit, at READ           *)
(* COMMITTED: a statement finds its rows in what is committed when it      *)
(* starts, takes their locks one by one, waits for those of others, leaves *)
(* out what no longer matches by then, and keeps its locks to the end of   *)
(* the transaction.  PostgreSQL breaks a circle of waits by failing one    *)
(* statement of it.                                                        *)
(***************************************************************************)
EXTENDS Naturals, FiniteSets, SequencesExt

CONSTANTS
  Request,      \* calls of the clients, each one coroutine
  Source, SchemaRow, Table, Column,           \* rows, by their unique key
  Node,                                       \* lineage nodes
  Glossary, Term, Calendar, Day,
  Kind,         \* types of relationships between tables
  OwnerOf,      \* the glossary of a term, the calendar of a day
  NameOf,       \* <<schema, name>> of a table, <<schema, table, name>> of a column
  Text,         \* descriptions, names, reasons
  Empty,        \* no description: NULL, '' or 'N/A'
  None,
  MaxInFlight,  \* bound: calls running at the same time
  MaxFaults     \* bound: statements that raise for reasons of their own

Link == (Table \X Table \X Kind) \cup (Column \X Column)
Flow == Node \X Node
Part == Term \cup Day
Row == Source \cup SchemaRow \cup Table \cup Column \cup Node \cup Glossary
       \cup Term \cup Calendar \cup Day \cup Link \cup Flow

ASSUME AnalyzerAssumption ==
  /\ OwnerOf \in [Part -> Glossary \cup Calendar]
  /\ DOMAIN NameOf = Table \cup Column
  /\ \A c, d \in Column : NameOf[c] = NameOf[d] => c = d
  /\ None \notin Row \cup Text \cup Request /\ Empty \notin Text
  /\ MaxInFlight \in Nat /\ MaxFaults \in Nat

(* A row is of one table.                                                  *)
ASSUME KindAssumption ==
  /\ (Source \cup SchemaRow \cup Node \cup Table \cup Column \cup Glossary \cup Calendar)
       \cap (Part \cup Link \cup Flow) = {}
  /\ Part \cap (Link \cup Flow) = {}
  /\ Table \cap (Glossary \cup Calendar \cup Column) = {}
  /\ Node \cap (Table \cup Column \cup Glossary \cup Calendar) = {}

Writer == {"ddl", "user", "generated", "SOURCE", "TARGET", None}
Owner == Table \cup Glossary \cup Calendar \cup {None}

(* A row: its text, the source or role column, who inserted it, which      *)
(* stands for its serial id, and the table, glossary or calendar it        *)
(* belongs to.  The table of a column may be NULL, and may change.         *)
Value == [text: Text \cup {Empty}, by: Writer, maker: Request \cup {None}, owner: Owner]

ASSUME ValueAssumption == None \notin Value

(* What a row refers to; REFERENCES, all of them ON DELETE CASCADE.        *)
Owners(x, v) ==
  IF v = None THEN {}
  ELSE ({v.owner} \ {None}) \cup (IF x \in Link \cup Flow THEN {x[1], x[2]} ELSE {})

VARIABLES
  rows,     \* every row, with the changes that are not committed yet
  undo,     \* what the rows a transaction changed were before
  held,     \* row locks: <<row, mode>>
  pc, op,
  gate,     \* the data source an import names first
  atomic,   \* whether the call runs in a transaction
  todo,     \* its statements
  aim,      \* rows its UPDATE or DELETE found: <<row, maker, owner>>
  done,     \* statements executed, of a call that is to be one transaction
  seen,     \* ids it has been given: <<row, maker>>
  serial,   \* history: the writes of each transaction, made at its commit
  kept,     \* history: the text a user wrote last, unless written over
  faults

call == <<op, gate, atomic>>
vars == <<rows, undo, held, pc, call, todo, aim, done, seen, serial, kept, faults>>

---------------------------------------------------------------------------
(* Statements.                                                             *)

(* put     INSERT ... ON CONFLICT DO UPDATE SET description = EXCLUDED ... *)
(* keep    INSERT ... ON CONFLICT DO UPDATE, leaving the text              *)
(* bare    the same, of a row whose id the call does not have              *)
(* add     INSERT ... ON CONFLICT DO NOTHING                               *)
(* insert  INSERT, which raises on a second row of a unique name           *)
(* claim   INSERT ... ON CONFLICT DO UPDATE SET source, unless it is 'ddl' *)
(* find    SELECT id, which ends the call if there is none                 *)
(* look    SELECT id, which may find none                                  *)
(* set     UPDATE;  fill: UPDATE ... WHERE description is empty            *)
(* drop    DELETE                                                          *)
(* skip    nothing: the ids it would use are not there                     *)
Inserts == {"put", "keep", "add", "insert", "claim"}
Selects == {"find", "look"}
Sweeps == {"set", "fill", "drop"}
Does == Inserts \cup Selects \cup Sweeps \cup {"bare", "skip"}

(* A statement on the row of a key.                                        *)
Stmt(does, x, t, by) ==
  [does |-> does, row |-> x, of |-> {}, under |-> {}, text |-> t, by |-> by, owner |-> None]
Do(does, x) == Stmt(does, x, Empty, None)
In(s, p) == [s EXCEPT !.owner = p]

(* One on those of the rows R that belong to one of the owners.            *)
Sweep(does, R, owners, t, by) == [Stmt(does, None, t, by) EXCEPT !.of = R, !.under = owners]
Drop(R) == Sweep("drop", R, Owner, Empty, None)

Statement == [does: Does, row: Row \cup {None}, of: SUBSET Row, under: SUBSET Owner,
              text: Text \cup {Empty}, by: Writer, owner: Owner]

(* Mutant: the description is not looked at.                               *)
AlwaysFills(v) == TRUE

MayFill(v) == v.text = Empty

Rewrites(s, v) == s.does \in {"put", "set"} \/ (s.does = "fill" /\ MayFill(v))

(* What a statement of r makes of a row.                                   *)
Result(r, s, v) ==
  IF s.does = "drop" THEN None
  ELSE IF v = None
  THEN IF s.does \in Inserts
       THEN [text |-> s.text, by |-> s.by, maker |-> r, owner |-> s.owner] ELSE None
  ELSE [text |-> IF Rewrites(s, v) THEN s.text ELSE v.text,
        by |-> IF Rewrites(s, v) \/ (s.does = "claim" /\ v.by # "ddl") THEN s.by ELSE v.by,
        maker |-> v.maker,
        owner |-> IF s.does \in {"put", "keep"} /\ s.owner # None THEN s.owner ELSE v.owner]

Effect(r, s, T) == [x \in Row |-> IF x \in s.of THEN Result(r, s, T[x]) ELSE T[x]]

Committed(x) ==
  IF \E q \in Request : x \in DOMAIN undo[q]
  THEN undo[CHOOSE q \in Request : x \in DOMAIN undo[q]][x]
  ELSE rows[x]

(* The row as r reads it.                                                  *)
Visible(r, x) == IF x \in DOMAIN undo[r] THEN rows[x] ELSE Committed(x)

Knows(r, x) == \E id \in seen[r] : id[1] = x

(* A statement with the ids the call has by then.                          *)
Meant(r, s) ==
  IF s.does = "bare" THEN [s EXCEPT !.does = IF Knows(r, s.row) THEN "skip" ELSE "keep"]
  ELSE IF s.does = "claim" /\ ~(Knows(r, s.row[1]) /\ Knows(r, s.row[2]))
  THEN [s EXCEPT !.does = "skip"]
  ELSE IF s.owner \in Table /\ ~Knows(r, s.owner) THEN In(s, None) ELSE s

Running(r) == pc[r] = "run" /\ todo[r] # <<>>
Current(r) == Meant(r, Head(todo[r]))

(* The rows an UPDATE or DELETE finds, and those of them it still finds    *)
(* when it has their locks: the same rows, of the same table.              *)
Matches(s, v) == v # None /\ v.owner \in s.under /\ (s.does = "fill" => MayFill(v))

Hits(r, s) == {x \in s.of : Matches(s, Visible(r, x))}

Live(r, s) ==
  {x \in Hits(r, s) : \E a \in aim[r] :
     /\ a[1] = x /\ a[2] = Visible(r, x).maker
     /\ a[3] = Visible(r, x).owner \/ s.does = "drop"}

(* The rows a DELETE takes.  A table owns columns and relationships, a     *)
(* column relationships: two steps down.                                   *)
Cascade(r, s) ==
  UNION {{x \in Row : \/ x \in R
                      \/ \E p \in Owners(x, Visible(r, x)) :
                           p \in R \/ Owners(p, Visible(r, p)) \cap R # {}} :
          R \in {Live(r, s)}}

(* What the row a statement writes comes to refer to.                      *)
Refers(r, s) ==
  Owners(s.row, Result(r, s, Visible(r, s.row))) \ Owners(s.row, Visible(r, s.row))

(* The locks a statement of r needs: on the rows it writes, on the owners  *)
(* it gives to one, on all a DELETE reaches.                               *)
Footprint(r, s) ==
  IF s.does \in Selects \cup {"bare", "skip"} THEN {}
  ELSE IF s.does \in Sweeps
  THEN IF aim[r] = None THEN {}
       ELSE IF s.does = "drop" THEN {<<x, "delete">> : x \in Cascade(r, s)}
       ELSE {<<x, "write">> : x \in Live(r, s)}
  ELSE IF s.does \in {"add", "insert"} /\ Visible(r, s.row) # None THEN {}
  ELSE {<<s.row, "write">>} \cup {<<p, "share">> : p \in Refers(r, s)}

Mode == {"share", "write", "delete"}

(* A FOREIGN KEY check shares the row with writers that keep its key.      *)
Clash(m, n) == {m, n} \notin {{"share"}, {"share", "write"}}

Covered(r, l) ==
  \E n \in Mode : <<l[1], n>> \in held[r] /\ (n = l[2] \/ n = "delete" \/ l[2] = "share")

Missing(r) == {l \in Footprint(r, Current(r)) : ~Covered(r, l)}

Blockers(r, l) ==
  {q \in Request \ {r} : \E n \in Mode : <<l[1], n>> \in held[q] /\ Clash(l[2], n)}

(* r waits for q: no lock it lacks is free.                                *)
Waits(r, q) ==
  /\ Running(r)
  /\ \E lacks \in {Missing(r)} :
       /\ \A l \in lacks : Blockers(r, l) # {}
       /\ \E l \in lacks : q \in Blockers(r, l)

(* A circle of waits r is part of.                                         *)
Deadlocked(r) ==
  \E on \in {[q \in Request |-> {p \in Request : Waits(q, p)}]} :
    \E S \in SUBSET Request :
      /\ r \in S
      /\ \A q \in S : on[q] \cap S # {} /\ \E p \in S : q \in on[p]

(* A UNIQUE or FOREIGN KEY constraint refuses the statement: the owner is  *)
(* gone, or is not the row whose id the call has.  A SELECT that finds     *)
(* nothing ends the call the same way: nothing has been written.           *)
Refused(r, s) ==
  \/ s.does = "find" /\ Visible(r, s.row) = None
  \/ s.does = "insert" /\ Visible(r, s.row) # None
  \/ /\ s.does \in Inserts
     /\ \E p \in Refers(r, s) :
          Visible(r, p) # None => \E id \in seen[r] : id[1] = p /\ id[2] # Visible(r, p).maker

---------------------------------------------------------------------------
(* Coroutines.                                                             *)

InFlight == {r \in Request : pc[r] = "run"}

Begins(r, o, g, tx, script) ==
  /\ pc[r] = "idle"
  /\ Cardinality(InFlight) < MaxInFlight
  /\ pc' = [pc EXCEPT ![r] = "run"]
  /\ op' = [op EXCEPT ![r] = o]
  /\ gate' = [gate EXCEPT ![r] = g]
  /\ atomic' = [atomic EXCEPT ![r] = tx]
  /\ todo' = [todo EXCEPT ![r] = script]
  /\ UNCHANGED <<rows, undo, held, aim, done, seen, serial, kept, faults>>

(* An UPDATE or DELETE finds its rows.                                     *)
Scan(r) ==
  /\ Running(r) /\ Current(r).does \in Sweeps /\ aim[r] = None
  /\ aim' = [aim EXCEPT ![r] =
       {<<x, Visible(r, x).maker, Visible(r, x).owner>> : x \in Hits(r, Current(r))}]
  /\ UNCHANGED <<rows, undo, held, pc, call, todo, done, seen, serial, kept, faults>>

(* All locks of a statement but the last; the last is taken with it.       *)
Acquire(r) ==
  /\ Running(r)
  /\ \E l, k \in Missing(r) :
       /\ l # k /\ Blockers(r, l) = {}
       /\ held' = [held EXCEPT ![r] = @ \cup {l}]
  /\ UNCHANGED <<rows, undo, pc, call, todo, aim, done, seen, serial, kept, faults>>

Ready(r) ==
  /\ Running(r)
  /\ Current(r).does \in Sweeps => aim[r] # None
  /\ \A l, k \in Missing(r) : l = k /\ Blockers(r, l) = {}

(* The statement with the rows it changes: those it locks against others.  *)
Changes(r, s) == {l[1] : l \in {k \in Footprint(r, s) : k[2] # "share"}}
Made(r) == [Current(r) EXCEPT !.of = Changes(r, Current(r))]

(* The ids of a call after a statement, which returns that of its row.     *)
SeenAfter(r, s) ==
  IF s.does \notin Selects \cup {"put", "keep"} THEN seen[r]
  ELSE {id \in seen[r] : id[1] # s.row}
       \cup {<<s.row, v.maker>> : v \in {Result(r, s, Visible(r, s.row))} \ {None}}

(* The calls whose statements stand or fall together; the others write     *)
(* statement by statement.                                                 *)
Whole == {"import", "saveFk", "lineage", "cleanup"}

(* The rows in which a statement writes over the text of a user.           *)
Overwritten(s) == IF s.does \in {"put", "drop"} THEN s.of ELSE {}

Execute(r) ==
  /\ Ready(r)
  /\ ~Refused(r, Current(r))
  /\ \E s \in {Made(r)} :
       /\ rows' = Effect(r, s, rows)
       /\ IF atomic[r]
          THEN /\ undo' = [undo EXCEPT ![r] =
                    [x \in DOMAIN @ \cup s.of |-> IF x \in DOMAIN @ THEN @[x] ELSE rows[x]]]
               /\ held' = [held EXCEPT ![r] = @ \cup Missing(r)]
          ELSE held' = [held EXCEPT ![r] = {}] /\ UNCHANGED undo
       /\ IF op[r] \in Whole
          THEN done' = [done EXCEPT ![r] = Append(@, s)] /\ UNCHANGED <<serial, kept>>
          ELSE /\ serial' = Effect(r, s, serial)
               /\ kept' = [x \in Row |-> IF s.does = "set" /\ x \in s.of THEN s.text
                                         ELSE IF x \in Overwritten(s) THEN None ELSE kept[x]]
               /\ UNCHANGED done
  /\ seen' = [seen EXCEPT ![r] = SeenAfter(r, Current(r))]
  /\ todo' = [todo EXCEPT ![r] = Tail(@)]
  /\ aim' = [aim EXCEPT ![r] = None]
  /\ UNCHANGED <<pc, call, faults>>

(* The end of a transaction, and of the call.                              *)
Leave(r, how) ==
  /\ pc' = [pc EXCEPT ![r] = how]
  /\ todo' = [todo EXCEPT ![r] = <<>>]
  /\ aim' = [aim EXCEPT ![r] = None]
  /\ done' = [done EXCEPT ![r] = <<>>]
  /\ seen' = [seen EXCEPT ![r] = {}]
  /\ undo' = [undo EXCEPT ![r] = <<>>]
  /\ UNCHANGED call

(* Mutant: the connection goes back to the pool inside its transaction.    *)
Holding(r) == held[r]

LocksAfter(r) == {}

Commit(r) ==
  /\ pc[r] = "run" /\ todo[r] = <<>>
  /\ serial' = FoldLeft(LAMBDA T, s : Effect(r, s, T), serial, done[r])
  /\ \E lost \in {UNION {Overwritten(done[r][i]) : i \in DOMAIN done[r]}} :
       kept' = [x \in Row |-> IF x \in lost THEN None ELSE kept[x]]
  /\ held' = [held EXCEPT ![r] = LocksAfter(r)]
  /\ Leave(r, "done")
  /\ UNCHANGED <<rows, faults>>

Rollback(r) ==
  /\ rows' = [x \in Row |-> IF x \in DOMAIN undo[r] THEN undo[r][x] ELSE rows[x]]
  /\ held' = [held EXCEPT ![r] = LocksAfter(r)]
  /\ Leave(r, "failed")
  /\ UNCHANGED <<serial, kept>>

Refuse(r) ==
  /\ Ready(r) /\ Refused(r, Current(r))
  /\ Rollback(r) /\ UNCHANGED faults

Victim(r) == Deadlocked(r) /\ Rollback(r) /\ UNCHANGED faults

Fails(r) ==
  /\ Running(r) /\ faults < MaxFaults /\ faults' = faults + 1
  /\ Rollback(r)

(* What the event loop and the database bring about.                       *)
Step(r) == Scan(r) \/ Acquire(r) \/ Execute(r) \/ Commit(r) \/ Refuse(r) \/ Victim(r)
=============================================================================
