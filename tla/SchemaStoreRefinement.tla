------------------------ MODULE SchemaStoreRefinement ------------------------
(* One client at a time, SchemaStore implements SchemaRegistry.            *)
EXTENDS SchemaStoreInv

(* The document of a schema is the one its vertex carries.                 *)
JsonOf(V) == (CHOOSE v \in V : TRUE).json

storedBar ==
  [s \in Schema |-> IF VerticesOf(s) = {} THEN None ELSE JsonOf(VerticesOf(s))]

(* Between the deletion of the vertex and Forget the cached schema is on   *)
(* its way out.                                                            *)
currentBar ==
  IF active # None /\ VerticesOf(dict[active].id) # {}
  THEN dict[active].id ELSE None

Registry == INSTANCE SchemaRegistry WITH stored <- storedBar, current <- currentBar

(* Seen by one client (MaxInFlight = 1), a save takes effect in the one    *)
(* statement that writes the vertex, a delete in the one that drops it,    *)
(* and the cache selects only what is stored, through exceptions and       *)
(* restarts (save_schema, delete_schema, set_active_schema, update_node).  *)
ImplementsRegistry == Registry!Spec
=============================================================================
