-------------------------- MODULE MCText2SqlReads --------------------------
(* A finite instance of Text2SqlReads for TLC.                             *)
EXTENDS Text2SqlReadsInv, TLC

CONSTANTS a1, a2, b, old, x1, x2, y, z, q1, q2, q3, w1, k1, k2

(* a1 and a2 are twins in two databases; b has another, original name; b   *)
(* and a1 refer to each other, and b to itself.                            *)
Tables == (x1 :> a1) @@ (z :> a1) @@ (x2 :> a2) @@ (y :> b)
Originals == (a1 :> a1) @@ (a2 :> a2) @@ (b :> old)
Names == (a1 :> "a") @@ (a2 :> "a") @@ (b :> "b") @@ (old :> "old")
ColNames == (x1 :> "x") @@ (x2 :> "x") @@ (y :> "y") @@ (z :> "z")
Keys == {<<y, x1>>, <<x1, y>>, <<y, y>>, <<z, y>>}

(* A first catalog, one that adds a column to a stored table and keys      *)
(* between stored columns, and one that has lost the tables it refers to.  *)
Start == [elements |-> {a2, x2}, keys |-> {}]
Catalogs == {[elements |-> {a1, x1, b, y}, keys |-> {<<y, x1>>}],
             [elements |-> {a1, x1, z, b, y}, keys |-> Keys],
             [elements |-> {b, y}, keys |-> {<<y, y>>, <<y, x1>>}]}

Asks(a, m, t) == [asked |-> a, meant |-> m, fit |-> TRUE, at |-> t]

(* More rows than the answer has, two of one score, one without intent;    *)
(* saves leave a row only the intent search finds, or none.                *)
History == (q1 :> Asks(8, None, 1)) @@ (q2 :> Asks(6, 6, 2)) @@ (q3 :> Asks(6, 6, 3))
Saves == {<<q1, Asks(2, 10, 4)>>, <<q2, None>>, <<q3, [Asks(6, 6, 4) EXCEPT !.fit = FALSE]>>}

(* One key saved with both codes, its twin, and whichever a name finds.    *)
Saying(c, k, v) == [op |-> "byFqn", word |-> w1, column |-> c, code |-> k, verified |-> v]
Values == {Saying(x1, k1, TRUE), Saying(x1, k2, FALSE), Saying(x2, k1, TRUE),
           [op |-> "byName", word |-> w1, column |-> "x", code |-> k2]}

RequestSymmetry == Permutations(Request)
=============================================================================
