--------------------------- MODULE MCDomainGraph ---------------------------
(* Finite instances of DomainGraph for TLC.                                *)
EXTENDS DomainGraphInv, TLC

CONSTANTS s1, n1, kpi, b1, c1

(* A schema that the schema store made, with one type; a second schema id  *)
(* has no vertex yet.                                                      *)
GivenVertices ==
  {[by |-> None, label |-> "schema", id |-> s1], [by |-> None, label |-> "type", id |-> n1]}

GivenHasNode ==
  {<<"HAS_NODE", [by |-> None, label |-> "schema", id |-> s1],
                 [by |-> None, label |-> "type", id |-> n1]>>}

(* A field the behavior reads and one it predicts.                         *)
FieldLinks == {<<n1, "READS_FIELD", b1>>, <<b1, "PREDICTS_FIELD", n1>>}

(* A document with a plain node, which refers to itself, and one with a    *)
(* node of a layer.                                                        *)
Documents == {{n1}, {kpi}}
Relations == {<<n1, n1>>}

RequestSymmetry == Permutations(Request)
=============================================================================
