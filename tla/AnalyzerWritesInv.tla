------------------------- MODULE AnalyzerWritesInv -------------------------
(* The strengthening that makes the invariants of AnalyzerWrites inductive.*)
EXTENDS AnalyzerWrites

(* The statements of a call.  Users set what is not a relationship, and    *)
(* only relationships are claimed.                                         *)
Legal(o) ==
  {s \in Statement :
    /\ s.does \notin Sweeps => s.row \in Row
    /\ s.does = "claim" => s.row \in Link
    /\ s.does = "set" => s.of \cap Link = {} /\ s.text \in Text /\ s.by = "user"
    /\ o \in Whole => s.does \notin {"set", "fill"}
    /\ o \in {"generate", "describe"} => s.does \in {"set", "fill"}}

(* What a call remembers.                                                  *)
CallsOK ==
  /\ undo \in [Request -> {undo[r] : r \in Request}]
  /\ \A r \in Request : undo[r] \in [DOMAIN undo[r] -> Value \cup {None}]
  /\ op \in [Request -> {op[r] : r \in Request}]
  /\ todo \in [Request -> Seq(Statement)] /\ done \in [Request -> Seq(Statement)]
  /\ aim \in [Request -> {aim[r] : r \in Request}]
  /\ seen \in [Request -> {seen[r] : r \in Request}]
  /\ \A r \in Request :
       /\ todo[r] \in Seq(Legal(op[r]))
       /\ pc[r] = "run" => (atomic[r] <=> op[r] \in Whole)
       /\ pc[r] # "run" \/ op[r] \notin Whole => done[r] = <<>> /\ undo[r] = <<>>
       /\ pc[r] # "run" => todo[r] = <<>> /\ held[r] = {} /\ aim[r] = None
       /\ aim[r] # None => todo[r] # <<>> /\ Head(todo[r]).does \in Sweeps

(* No two calls hold locks that exclude each other; what a transaction may *)
(* undo it has locked.                                                     *)
LocksOK ==
  /\ \A q, r \in Request : \A l \in held[q], k \in held[r] :
       q # r /\ l[1] = k[1] => ~Clash(l[2], k[2])
  /\ \A r \in Request : \A x \in DOMAIN undo[r] :
       <<x, "write">> \in held[r] \/ <<x, "delete">> \in held[r]

(* A call that writes descriptions holds nothing between two statements,   *)
(* and nothing else while it waits for the one row it found; an import has *)
(* the row of its source from its first statement on.                      *)
GateOK ==
  \A r \in Request :
    pc[r] = "run" =>
      /\ op[r] \in {"generate", "describe"} /\ held[r] # {} =>
           aim[r] # None /\ \E a, b \in aim[r] : a[1] # b[1]
      /\ op[r] = "import" /\ gate[r] # None =>
           \/ held[r] = {} /\ todo[r] # <<>> /\ Head(todo[r]) = Do("keep", gate[r])
           \/ <<gate[r], "write">> \in held[r]

(* A text a user wrote is there, and no transaction has something else in  *)
(* its place unless it has written over it.                                *)
Lost(r) == UNION {Overwritten(done[r][i]) : i \in DOMAIN done[r]}

Bears(v, t) == v # None /\ v.text = t /\ v.by = "user"

KeptOK ==
  \A x \in Row : kept[x] # None =>
    /\ kept[x] \in Text /\ x \notin Link
    /\ Bears(Committed(x), kept[x])
    /\ \A r \in Request : x \in DOMAIN undo[r] \ Lost(r) => Bears(rows[x], kept[x])

(* A transaction that ran now would leave what it has written so far.      *)
Replayed(r, T, script) == FoldLeft(LAMBDA U, s : Effect(r, s, U), T, script)

Present == [x \in Row |-> Committed(x)]

OrderOK ==
  /\ \A x \in Row : serial[x] = Committed(x)
  /\ \A r \in Request :
       /\ \A i \in DOMAIN done[r] : done[r][i].of \subseteq DOMAIN undo[r]
       /\ Replayed(r, Present, done[r]) = [x \in Row |-> Visible(r, x)]

IInv == TypeOK /\ CallsOK /\ LocksOK /\ GateOK /\ KeptOK /\ OrderOK
=============================================================================
