--------------------------- MODULE MCSchemaStore ---------------------------
(* Finite instances of SchemaStore for TLC.                                *)
EXTENDS SchemaStoreRefinement, TLC

CONSTANTS n1, n2, kpi, a1, a2

(* Two plain nodes; a plain node and one with a layer label, of which a    *)
(* later document drops either one.                                        *)
PlainPosted == {n1 :> a1 @@ n2 :> a1, n2 :> a2}
LayeredPosted == {n1 :> a1 @@ kpi :> a1, kpi :> a2}
LayerDropped == {n1 :> a1 @@ kpi :> a1, n1 :> a2}

PlainEdges == {<<n1, n2>>}
LayeredEdges == {<<n1, kpi>>}

RequestSymmetry == Permutations(Request)
=============================================================================
