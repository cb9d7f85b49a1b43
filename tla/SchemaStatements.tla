-------------------------- MODULE SchemaStatements --------------------------
(***************************************************************************)
(* What AgeSchemaStore (services/age_schema_store) and AgeService          *)
(* (services/age_service) do to the graph, statement by statement; the     *)
(* cache, the schemaJson property and the copy in the database are in      *)
(* module SchemaStore.                                                     *)
(***************************************************************************)
EXTENDS GraphRepository

(* The statements of a clean-up, each of which is swallowed if it raises.  *)
Clears(r, at, V, next) ==
  /\ pc[r] = at
  /\ \/ DetachDelete(V) /\ Executes(r)
     \/ Raises(r)
  /\ Goto(r, next)
  /\ UNCHANGED local

(* save_schema: the vertices of the former save that are not layered are   *)
(* deleted, the schema and its nodes written as by AgeGraphRepository.     *)
SaveSchema(r, s, D, a) ==
  /\ Begin(r, "saveSchema", s, None, a)
  /\ todo' = [todo EXCEPT ![r] = D]
  /\ Goto(r, "clearTypes")

DeleteSchemaNodes(r) ==
  \/ Clears(r, "clearTypes", Under(schema[r], "HAS_NODE", "type"), "clearNodes")
  \/ Clears(r, "clearNodes", Under(schema[r], "HAS_NODE", "node"), "matchMeta")

(* delete_schema: what hangs on the schema by any edge, then its vertex.   *)
DeleteSchema(r, s) ==
  /\ Begin(r, "deleteSchema", s, None, None)
  /\ Goto(r, "dropTypes")
  /\ UNCHANGED todo

DropChildren(r) ==
  \/ Clears(r, "dropTypes", Children(schema[r], "type"), "dropNodes")
  \/ Clears(r, "dropNodes", Children(schema[r], "node"), "dropBehaviors")
  \/ Clears(r, "dropBehaviors", Children(schema[r], "behavior"), "dropSchema")

DropSchema(r) ==
  /\ pc[r] = "dropSchema"
  /\ DetachDelete(Match("schema", schema[r]))
  /\ Goto(r, "done")
  /\ Executes(r)
  /\ UNCHANGED local

SchemaStep(r) == DeleteSchemaNodes(r) \/ DropChildren(r) \/ DropSchema(r)
=============================================================================
