------------------------------ MODULE AgeGraph ------------------------------
(***************************************************************************)
(* The property graph in Apache AGE that the domain layer works on, and    *)
(* the coroutines that work on it.  BehaviorStore, ScenarioStore and       *)
(* GraphRepository share this graph and this module's variables.           *)
(*                                                                         *)
(* AGE has no MERGE and the code uses no transaction: every await runs ONE *)
(* autocommit Cypher statement, and what a MATCH found may be gone when    *)
(* the next statement uses it.  A vertex is named by the request that      *)
(* created it, its label and its id property: AGE does not reuse graph     *)
(* ids, and no request creates two vertices with the same label and id.    *)
(***************************************************************************)
EXTENDS Naturals, FiniteSets

CONSTANTS
  Request,      \* calls of the clients, each one coroutine
  Schema, NodeId, Behavior, Scenario,   \* values of the id property
  Layered,      \* nodes that carry a label of their own (KPI, ...)
  Attr,         \* values of the other properties a call writes
  None,
  MaxInFlight,  \* bound: requests running at the same time
  MaxFaults     \* bound: statements that raise

Label == {"schema", "type", "node", "layer", "behavior", "scenario"}
Id == Schema \cup NodeId \cup Behavior \cup Scenario
EdgeType == {"HAS_NODE", "HAS_BEHAVIOR", "HAS_SCENARIO",
             "READS_FIELD", "PREDICTS_FIELD", "RELATED", "EFFECTS"}

Vertex == [by: Request \cup {None}, label: Label, id: Id]
Edge == EdgeType \X Vertex \X Vertex

Op == {"saveBehavior", "saveLinks", "deleteBehavior", "setStatus",
       "saveScenario", "deleteScenario", "sync", "deleteNode", "updateNode",
       "saveSchema", "deleteSchema"}

PC == {"idle", "match", "unlinkReads", "unlinkPredicts", "set", "create",
       "link", "links", "clear", "matchMeta", "setMeta", "createMeta",
       "nodes", "linkNode", "rels", "clearTypes", "clearNodes",
       "dropTypes", "dropNodes", "dropBehaviors", "dropSchema", "done", "failed"}

ASSUME GraphAssumption ==
  /\ Schema \cap NodeId = {} /\ Behavior \cap Scenario = {}
  /\ (Schema \cup NodeId) \cap (Behavior \cup Scenario) = {}
  /\ Layered \subseteq NodeId
  /\ None \notin Request \cup Id \cup Attr \cup Vertex \cup Op
  /\ MaxInFlight \in Nat /\ MaxFaults \in Nat

VARIABLES
  props,    \* the properties of every vertex that is there
  edges,    \* <<type, from, to>>
  pc,       \* next statement of a request
  op,       \* which method it runs
  schema,   \* its schema id, if it has one
  target,   \* the id property it is about, if it has one
  attr,     \* the properties it writes
  age,      \* the vertex whose graph id it holds in age_id
  todo,     \* links, or nodes, the loop has not reached
  made,     \* node_age_ids
  clean,    \* history: no other request ran since it began, nothing raised
  overlap,  \* history: two requests ran at the same time
  faults

graph == <<props, edges>>
given == <<op, schema, target, attr>>
local == <<age, todo, made>>
history == <<clean, overlap>>
vars == <<graph, pc, given, local, history, faults>>

vertices == DOMAIN props

---------------------------------------------------------------------------
(* What the Cypher patterns select and what the clauses do.                *)

(* (n:label {id: i})                                                       *)
Match(l, i) == {v \in vertices : v.label = l /\ v.id = i}

(* (n {id: i}), any label                                                  *)
MatchId(i) == {v \in vertices : v.id = i}

(* (s:schema {id: s})-[:type]->(n:label)                                   *)
Under(s, type, l) ==
  {v \in vertices : v.label = l /\ \E u \in Match("schema", s) : <<type, u, v>> \in edges}

(* (s:schema {id: s})-[]->(n:label)                                        *)
Children(s, l) == UNION {Under(s, type, l) : type \in EdgeType}

Create(v, a) ==
  props' = [u \in vertices \cup {v} |-> IF u = v THEN a ELSE props[u]]

(* SET on every vertex of V.                                               *)
SetAll(V, a) ==
  props' = [u \in vertices |-> IF u \in V THEN a ELSE props[u]]

DetachDelete(V) ==
  /\ props' = [u \in vertices \ V |-> props[u]]
  /\ edges' = {e \in edges : e[2] \notin V /\ e[3] \notin V}

(* MATCH (a), (b) CREATE (a)-[:type]->(b): every pair that matches.        *)
Pairs(type, V, W) == {<<type, v, w>> : v \in V, w \in W}

(* Mutant: the graph id held is taken for a vertex, there or not.          *)
HeldHere(v) == {v}

(* MATCH (a), (b) WHERE id(b) = age_id ...: b may be gone by then.         *)
Here(v) == {v} \cap vertices

---------------------------------------------------------------------------
(* Coroutines.                                                             *)

Ended == {"done", "failed"}
InFlight == {r \in Request : pc[r] \notin Ended \cup {"idle"}}

Goto(r, l) == pc' = [pc EXCEPT ![r] = l]

(* A call starts; whoever is at work is no longer alone.                   *)
Starts(r, o, s, i, a) ==
  /\ pc[r] = "idle"
  /\ Cardinality(InFlight) < MaxInFlight
  /\ op' = [op EXCEPT ![r] = o]
  /\ schema' = [schema EXCEPT ![r] = s]
  /\ target' = [target EXCEPT ![r] = i]
  /\ attr' = [attr EXCEPT ![r] = a]
  /\ clean' = [q \in Request |-> q = r /\ InFlight = {}]
  /\ overlap' = (overlap \/ InFlight # {})
  /\ UNCHANGED <<age, made, faults>>

(* ... and executes no statement before its first await.                   *)
Begin(r, o, s, i, a) == Starts(r, o, s, i, a) /\ UNCHANGED graph

(* A statement of r executes, or raises with no effect.                    *)
Executes(r) == UNCHANGED <<given, history, faults>>

Raises(r) ==
  /\ faults < MaxFaults
  /\ faults' = faults + 1
  /\ clean' = [clean EXCEPT ![r] = FALSE]
  /\ UNCHANGED <<graph, given, overlap>>

(* The call fails at its present statement.                                *)
Fails(r, labels) ==
  /\ pc[r] \in labels
  /\ Raises(r)
  /\ Goto(r, "failed")
  /\ UNCHANGED local
=============================================================================
