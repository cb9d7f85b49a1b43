-------------------------- MODULE GraphRepository --------------------------
(***************************************************************************)
(* AgeGraphRepository (repository): synchronising a whole ontology, and    *)
(* statements that reach any vertex by its id property.                    *)
(***************************************************************************)
EXTENDS AgeGraph

CONSTANTS
  Document,   \* the sets of nodes clients synchronise
  Rel         \* the relationships a document lists: <<source, target>>

ASSUME DocumentAssumption ==
  Document \subseteq SUBSET NodeId /\ Rel \subseteq NodeId \X NodeId

(* node.get("label", Labels.NODE); AgeService, whose statements are the    *)
(* same from _upsert_schema_meta on, makes types of the nodes without a    *)
(* layer, and draws EFFECTS.                                               *)
NodeLabel(o, n) ==
  IF n \in Layered THEN "layer" ELSE IF o = "sync" THEN "node" ELSE "type"

RelType(o) == IF o = "sync" THEN "RELATED" ELSE "EFFECTS"

NewNode(r, n) == [by |-> r, label |-> NodeLabel(op[r], n), id |-> n]
NewSchema(r) == [by |-> r, label |-> "schema", id |-> schema[r]]

(* The vertices node_age_ids gives for the ends of a relationship.         *)
Ends(M, e) == {p \in M \X M : p[1].id = e[1] /\ p[2].id = e[2]}

(* The loop over the nodes goes on with T; after it, the loop over the     *)
(* relationships, which skips those without both ends in M.                *)
NextNode(r, T, M) ==
  LET R == {e \in Rel : Ends(M, e) # {}}
  IN  IF T # {}
      THEN todo' = [todo EXCEPT ![r] = T] /\ Goto(r, "nodes")
      ELSE todo' = [todo EXCEPT ![r] = R] /\ Goto(r, IF R = {} THEN "done" ELSE "rels")

SyncOntologySchema(r, s, D, a) ==
  /\ Begin(r, "sync", s, None, a)
  /\ todo' = [todo EXCEPT ![r] = D]
  /\ Goto(r, "clear")

(* Mutant: only the nodes under the same schema are deleted, not those     *)
(* that get_ontology_nodes shows besides.                                  *)
NodesOfSchema(r) == Under(schema[r], "HAS_NODE", "node")

(* _delete_existing_ontology_nodes: every vertex with the label NODE,      *)
(* whichever schema it belongs to; none with a label of its own.           *)
ExistingNodes(r) == {v \in vertices : v.label = "node"}

DeleteExistingNodes(r) ==
  /\ pc[r] = "clear" /\ op[r] = "sync"
  /\ \/ DetachDelete(ExistingNodes(r)) /\ Executes(r)
     \/ Raises(r)                       \* swallowed
  /\ Goto(r, "matchMeta")
  /\ UNCHANGED local

MatchMeta(r) ==
  /\ pc[r] = "matchMeta"
  /\ Goto(r, IF Match("schema", schema[r]) # {} THEN "setMeta" ELSE "createMeta")
  /\ Executes(r)
  /\ UNCHANGED <<graph, local>>

WriteMeta(r) ==
  /\ \/ pc[r] = "setMeta" /\ SetAll(Match("schema", schema[r]), attr[r])
     \/ pc[r] = "createMeta" /\ Create(NewSchema(r), attr[r])
  /\ NextNode(r, todo[r], {})
  /\ Executes(r)
  /\ UNCHANGED <<edges, age, made>>

(* _create_node: CREATE, then the HAS_NODE edge; an exception in either    *)
(* leaves the node out of node_age_ids.                                    *)
CreateNode(r, n) ==
  /\ pc[r] = "nodes" /\ n \in todo[r]
  /\ \/ /\ Create(NewNode(r, n), attr[r])
        /\ age' = [age EXCEPT ![r] = NewNode(r, n)]
        /\ todo' = [todo EXCEPT ![r] = @ \ {n}]
        /\ Goto(r, "linkNode")
        /\ Executes(r)
        /\ UNCHANGED edges
     \/ Raises(r) /\ NextNode(r, todo[r] \ {n}, made[r]) /\ UNCHANGED age
  /\ UNCHANGED made

LinkNode(r) ==
  /\ pc[r] = "linkNode"
  /\ \/ /\ edges' = edges \cup Pairs("HAS_NODE", Match("schema", schema[r]), Here(age[r]))
        /\ made' = [made EXCEPT ![r] = @ \cup {age[r]}]
        /\ Executes(r)
        /\ UNCHANGED props
     \/ Raises(r) /\ UNCHANGED made
  /\ NextNode(r, todo[r], made'[r])
  /\ UNCHANGED age

(* _create_relationship: either end may be gone by then.                   *)
CreateRelationship(r, e) ==
  /\ pc[r] = "rels" /\ e \in todo[r]
  /\ todo' = [todo EXCEPT ![r] = @ \ {e}]
  /\ Goto(r, IF todo'[r] = {} THEN "done" ELSE "rels")
  /\ \/ /\ edges' = edges \cup {<<RelType(op[r]), p[1], p[2]>> :
                                  p \in Ends(made[r], e) \cap (vertices \X vertices)}
        /\ Executes(r)
        /\ UNCHANGED props
     \/ Raises(r)
  /\ UNCHANGED <<age, made>>

(* delete_node_by_id and update_node_properties: any label.                *)
DeleteNodeById(r, i) ==
  /\ Begin(r, "deleteNode", None, i, None)
  /\ Goto(r, "clear")
  /\ UNCHANGED todo

DropNode(r) ==
  /\ pc[r] = "clear" /\ op[r] = "deleteNode"
  /\ DetachDelete(MatchId(target[r]))
  /\ Goto(r, "done")
  /\ Executes(r)
  /\ UNCHANGED local

UpdateNodeProperties(r, i, a) ==
  /\ Begin(r, "updateNode", None, i, a)
  /\ Goto(r, "set")
  /\ UNCHANGED todo

SetNode(r) ==
  /\ pc[r] = "set" /\ op[r] = "updateNode"
  /\ SetAll(MatchId(target[r]), attr[r])
  /\ Goto(r, "done")
  /\ Executes(r)
  /\ UNCHANGED <<edges, local>>

RepositoryStep(r) ==
  \/ DeleteExistingNodes(r) \/ MatchMeta(r) \/ WriteMeta(r)
  \/ (\E n \in NodeId : CreateNode(r, n)) \/ LinkNode(r)
  \/ (\E e \in Rel : CreateRelationship(r, e))
  \/ DropNode(r) \/ SetNode(r)

---------------------------------------------------------------------------
(* get_ontology_nodes and get_ontology_relationships: nothing of vertices  *)
(* with a label of their own.                                              *)
OntologyNodes == {v \in vertices : v.label = "node"}

OntologyRelationships ==
  {e \in edges : e[1] # "HAS_NODE" /\ {e[2], e[3]} \subseteq OntologyNodes}
=============================================================================
