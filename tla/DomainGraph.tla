---------------------------- MODULE DomainGraph ----------------------------
(***************************************************************************)
(* The stores of the domain layer at work on one graph: behaviors,         *)
(* scenarios, the graph repository and the schema store.                   *)
(***************************************************************************)
EXTENDS BehaviorStore, ScenarioStore, SchemaStatements

CONSTANTS
  Given,      \* the vertices at the start, all created by None
  GivenEdges,
  Links,      \* the field links a client saves
  Touched     \* the ids clients delete or update vertices by

(* What an edge may join.                                                  *)
EndsOf(type) ==
  CASE type = "HAS_NODE"       -> {"schema"} \X {"type", "node", "layer"}
    [] type = "HAS_BEHAVIOR"   -> {"schema"} \X {"behavior"}
    [] type = "HAS_SCENARIO"   -> {"schema"} \X {"scenario"}
    [] type = "READS_FIELD"    -> {"type"} \X {"behavior"}
    [] type = "PREDICTS_FIELD" -> {"behavior"} \X {"type"}
    [] type = "RELATED"        -> {"node", "layer"} \X {"node", "layer"}
    [] type = "EFFECTS"        -> {"type", "layer"} \X {"type", "layer"}

ASSUME GivenAssumption ==
  /\ Given \subseteq Vertex /\ \A v \in Given : v.by = None
  /\ GivenEdges \subseteq Edge
  /\ \A e \in GivenEdges :
       {e[2], e[3]} \subseteq Given /\ <<e[2].label, e[3].label>> \in EndsOf(e[1])
  /\ Links \subseteq FieldLink
  /\ Touched \subseteq Id

Item == NodeId \cup FieldLink \cup Rel

TypeOK ==
  /\ vertices \subseteq Vertex
  /\ \A v \in vertices : props[v] \in Attr \cup {None}
  /\ edges \subseteq Edge
  /\ pc \in [Request -> PC]
  /\ op \in [Request -> Op \cup {None}]
  /\ schema \in [Request -> Schema \cup {None}]
  /\ target \in [Request -> Id \cup {None}]
  /\ attr \in [Request -> Attr \cup {None}]
  /\ age \in [Request -> Vertex \cup {None}]
  /\ todo \in [Request -> SUBSET Item]
  /\ made \in [Request -> SUBSET Vertex]
  /\ clean \in [Request -> BOOLEAN]
  /\ overlap \in BOOLEAN
  /\ faults \in 0..MaxFaults

Init ==
  /\ props = [v \in Given |-> None]
  /\ edges = GivenEdges
  /\ pc = [r \in Request |-> "idle"]
  /\ op = [r \in Request |-> None]
  /\ schema = [r \in Request |-> None]
  /\ target = [r \in Request |-> None]
  /\ attr = [r \in Request |-> None]
  /\ age = [r \in Request |-> None]
  /\ todo = [r \in Request |-> {}]
  /\ made = [r \in Request |-> {}]
  /\ clean = [r \in Request |-> FALSE]
  /\ overlap = FALSE
  /\ faults = 0

(* Statements that raise and end the call.  Where the code swallows the    *)
(* exception the step itself says so; a synchronisation may raise before   *)
(* its first statement, and AgeService in any turn of its loops, when it   *)
(* ensures the labels.                                                     *)
Fatal(o) ==
  {"match", "set", "create", "link", "clear", "matchMeta", "setMeta", "createMeta", "dropSchema"}
  \cup (IF o = "saveSchema" THEN {"nodes", "rels"} ELSE {})

Call(r) ==
  \/ \E s \in Schema, b \in Behavior, a \in Attr : SaveBehavior(r, s, b, a)
  \/ SaveModelFieldLinks(r, Links)
  \/ \E b \in Behavior, a \in Attr : UpdateModelStatus(r, b, a)
  \/ \E s \in Schema \cup {None}, b \in Behavior : DeleteBehavior(r, s, b)
  \/ \E s \in Schema, c \in Scenario, a \in Attr : SaveScenario(r, s, c, a)
  \/ \E c \in Scenario : DeleteScenario(r, c)
  \/ \E s \in Schema, D \in Document, a \in Attr : SyncOntologySchema(r, s, D, a)
  \/ \E i \in Touched : DeleteNodeById(r, i)
  \/ \E i \in Touched, a \in Attr : UpdateNodeProperties(r, i, a)
  \/ \E s \in Schema, D \in Document, a \in Attr : SaveSchema(r, s, D, a)
  \/ \E s \in Schema : DeleteSchema(r, s)

Step(r) ==
  \/ BehaviorStep(r) \/ ScenarioStep(r) \/ RepositoryStep(r) \/ SchemaStep(r)
  \/ Fails(r, Fatal(op[r]))

Next == \E r \in Request : Call(r) \/ Step(r)

Spec == Init /\ [][Next]_vars

---------------------------------------------------------------------------
(* Properties.                                                             *)

(* Edges join vertices that are there and are of the kinds their type is   *)
(* for, although a link is made in a statement of its own, from a graph id *)
(* read earlier, while other calls delete vertices of any label by their   *)
(* id (age_behavior_store.py:103-107, repository.py:204-245, 377-386).     *)
GraphIntegrity ==
  \A e \in edges :
    /\ e[2] \in vertices /\ e[3] \in vertices
    /\ <<e[2].label, e[3].label>> \in EndsOf(e[1])

(* As long as no two calls ran at the same time, MATCH-or-CREATE is as     *)
(* good as MERGE: one vertex for a schema id and for a scenario id, and a  *)
(* schema lists a behavior once, whatever calls that failed half way left  *)
(* (age_behavior_store.py:52-107, age_scenario_store.py:82-108,            *)
(* repository.py:116-144).                                                 *)
SerialUnique ==
  ~overlap =>
    /\ \A s \in Schema : \A v, w \in Match("schema", s) : v = w
    /\ \A c \in Scenario : \A v, w \in Match("scenario", c) : v = w
    /\ \A s \in Schema, b \in Behavior : \A v, w \in BehaviorsOf(s, b) : v = w

Clean(r, o) == pc[r] = "done" /\ clean[r] /\ op[r] = o

(* The schema vertex r linked to, or found missing, is no longer the one   *)
(* of that id: it has been created by a call since.                        *)
Unlisted(r) == \A u \in Match("schema", schema[r]) : u.by # None

BehaviorListed(r) ==
  Match("schema", schema[r]) # {} =>
    \E v \in BehaviorsOf(schema[r], target[r]) : props[v] = attr[r]

ScenarioListed(r) ==
  Match("schema", schema[r]) # {} =>
    \/ \E v \in ListScenarios(schema[r]) : v.id = target[r] /\ props[v] = attr[r]
    \/ \E v \in GetScenario(target[r]) :
         /\ v.by # r /\ props[v] = attr[r]
         /\ \/ v.by = None
            \/ pc[v.by] = "failed"
            \/ schema[v.by] # schema[r]
            \/ Unlisted(v.by)

(* A save that nobody disturbed shows in the list of its schema, with what *)
(* it wrote: a behavior always, if the schema has a vertex; a scenario     *)
(* unless an earlier save had left one that its schema does not list,      *)
(* because linking it failed, it was saved for another schema, or the      *)
(* schema was deleted meanwhile (one that was there at the start may be    *)
(* any of these): the save then answers true, writes the properties and    *)
(* never links (age_scenario_store.py:82-94).                              *)
CleanSaveListed ==
  \A r \in Request :
    /\ Clean(r, "saveBehavior") => BehaviorListed(r)
    /\ Clean(r, "saveScenario") => ScenarioListed(r)

(* The two readers of field links agree, although one looks behaviors up   *)
(* by id and the other follows the edges from the schema: as long as no    *)
(* second vertex has the id of a behavior, be it of another schema or left *)
(* by a save that failed (age_behavior_store.py:211-240, 292-320).         *)
ReadersAgree ==
  \A s \in Schema :
    (\A v \in Under(s, "HAS_BEHAVIOR", "behavior") : Match("behavior", v.id) = {v}) =>
      BehaviorLinks(s) = ModelLinks(s)

(* A synchronisation that nobody disturbed makes get_ontology_nodes answer *)
(* its document, nodes of other labels apart, and nothing of any other     *)
(* schema; the relationships shown are those of its document               *)
(* (repository.py:58-78, 100-107, 254-307).                                *)
CleanSyncShown ==
  \A r \in Request :
    Clean(r, "sync") =>
      LET plain == {v.id : v \in made[r]} \ Layered
      IN  /\ OntologyNodes = {[by |-> r, label |-> "node", id |-> n] : n \in plain}
          /\ OntologyRelationships =
               {<<"RELATED", [by |-> r, label |-> "node", id |-> e[1]],
                             [by |-> r, label |-> "node", id |-> e[2]]>> :
                  e \in Rel \cap (plain \X plain)}
=============================================================================
