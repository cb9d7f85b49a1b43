---------------------------- MODULE MCMetaIngest ----------------------------
(* Finite instances of MetaIngest for TLC.                                 *)
EXTENDS MetaIngestInv, TLC

CONSTANTS l1, l2, t1, t2, u1, c1, c2, d1, a1, a2

(* Two tables of one label, one column each, with a key between them; one  *)
(* table of another.                                                       *)
LabelOfTable == (t1 :> l1) @@ (t2 :> l1) @@ (u1 :> l2)
TableOfColumn == (c1 :> t1) @@ (c2 :> t2) @@ (d1 :> u1)
Keys == {<<c1, c2>>}

(* The whole label, the label after a table was dropped, the other label,  *)
(* and a catalog without tables.                                           *)
Whole == [label |-> l1, tables |-> {t1, t2}, columns |-> {c1, c2}, attr |-> a1]
Shrunk == [label |-> l1, tables |-> {t1}, columns |-> {c1}, attr |-> a2]
Other == [label |-> l2, tables |-> {u1}, columns |-> {d1}, attr |-> a1]
Empty == [label |-> l1, tables |-> {}, columns |-> {}, attr |-> a1]

RacePosted == {Whole, Shrunk, Other, Empty}
RetryPosted == {Shrunk, Other}

RequestSymmetry == Permutations(Request)
=============================================================================
