-------------------------- MODULE MCAnalyzerWrites --------------------------
(* A finite instance of AnalyzerWrites for TLC.                            *)
EXTENDS AnalyzerWritesInv

CONSTANTS d1, s1, s2, t1, t2, t3, c1, c2, p1, p2, n1, n2, g1, w1, k1, y1, a1

Owns == (w1 :> g1) @@ (y1 :> k1)

(* One table in two databases and its namesake in another schema, and a    *)
(* column in either schema: three tables and two columns of one name.      *)
Names ==
  (t1 :> <<s1, "t">>) @@ (t2 :> <<s1, "t">>) @@ (t3 :> <<s2, "t">>)
  @@ (c1 :> <<s1, "t", "c">>) @@ (c2 :> <<s2, "t", "c">>)

(* Two tables, a column of one, without descriptions, and relationships of *)
(* two types between them; a glossary and a calendar.                      *)
GivenRows ==
  [x \in {s1, t1, t2, c1, <<t1, t2, "FK_TO_TABLE">>, <<t1, t2, "ONE_TO_ONE">>, g1, k1} |->
    [text |-> Empty, by |-> None, maker |-> None, owner |-> IF x = c1 THEN t1 ELSE None]]

(* Two files of one data source in opposite orders, the second with the    *)
(* column in the other database, and one of no source and no schema whose  *)
(* column is of a table it does not define, as are one end of each key.    *)
File(ts, cs, ks) ==
  [source |-> None, schemas |-> <<>>, tables |-> ts, columns |-> cs, keys |-> ks, text |-> a1]
OfSource(f) == [f EXCEPT !.source = d1, !.schemas = <<s1>>]

Files ==
  {OfSource(File(<<t1, t2>>, <<<<c1, t1>>>>, <<>>)),
   OfSource(File(<<t2, t1>>, <<<<c1, t2>>>>, <<>>)),
   File(<<t1>>, <<<<c2, t3>>>>, <<<<t3, t1>>, <<t1, t3>>>>)}

Lists == {<<"c">>, <<"c", "d">>}
Keys == {<<c1, c2>>, <<c2, c1>>}
Drawings == {<<t1, t2, "FK_TO_TABLE">>, <<t2, t3, "ONE_TO_ONE">>}

(* Two processes that pass the same data forth and back.                   *)
Processes == {<<p1, <<n1>>, <<n2>>>>, <<p2, <<n2>>, <<n1>>>>}
=============================================================================
