--------------------------- MODULE DomainGraphInv ---------------------------
(* The strengthening that makes the invariants of DomainGraph inductive.   *)
EXTENDS DomainGraph

(* The two methods that write a whole schema, and the labels of its nodes. *)
Writers == {"sync", "saveSchema"}
NodeLabels(o) == IF o = "sync" THEN {"node", "layer"} ELSE {"type", "layer"}

(* What a call was given, by its method.                                   *)
GivenOK(r) ==
  /\ op[r] = "saveBehavior" => schema[r] \in Schema /\ target[r] \in Behavior
  /\ op[r] = "saveScenario" => schema[r] \in Schema /\ target[r] \in Scenario
  /\ op[r] \in Writers => schema[r] \in Schema

(* What it holds at its next statement.                                    *)
HeldOK(r) ==
  /\ pc[r] = "link" /\ op[r] = "saveBehavior" => age[r] = NewBehavior(r)
  /\ pc[r] = "link" /\ op[r] = "saveScenario" => age[r] = NewScenario(r)
  /\ pc[r] \in {"clearTypes", "clearNodes", "matchMeta", "setMeta", "createMeta", "nodes",
                "linkNode", "rels"} =>
       op[r] \in Writers
  /\ pc[r] = "linkNode" => age[r] \in Vertex /\ age[r].label \in NodeLabels(op[r])
  /\ \A v \in made[r] : v.label \in NodeLabels(op[r])
  /\ pc[r] = "idle" => made[r] = {}

(* What the MATCH of a call that runs alone found is still so at the       *)
(* statement that relies on it.                                            *)
StillSo(r) ==
  /\ pc[r] \in {"create", "link"} /\ op[r] = "saveBehavior" =>
       BehaviorsOf(schema[r], target[r]) = {}
  /\ pc[r] = "create" /\ op[r] = "saveScenario" => Match("scenario", target[r]) = {}
  /\ pc[r] = "createMeta" => Match("schema", schema[r]) = {}

SerialOK ==
  ~overlap =>
    /\ \A q, r \in InFlight : q = r
    /\ \A r \in Request : StillSo(r)

(* Every call at every point, for one and for many of them.                *)
IInv ==
  /\ TypeOK
  /\ \A r \in Request : GivenOK(r) /\ HeldOK(r)
  /\ GraphIntegrity
  /\ SerialOK
  /\ SerialUnique

---------------------------------------------------------------------------
(* The strengthening for a call that nobody disturbed.                     *)

(* It is the only one at work.                                             *)
AloneOK == \A r \in Request : clean[r] => \A q \in InFlight : q = r

(* A scenario is linked, by the end of the call that created it, to every  *)
(* vertex of its schema that was there before all calls.                   *)
ScenariosOK ==
  \A v \in vertices :
    v.label = "scenario" /\ v.by # None =>
      /\ op[v.by] = "saveScenario" /\ pc[v.by] \in {"link", "done", "failed"}
      /\ v.id = target[v.by]
      /\ pc[v.by] = "done" =>
           \A u \in Match("schema", schema[v.by]) :
             u.by = None => <<"HAS_SCENARIO", u, v>> \in edges

(* What it found or created is still there, as it found or wrote it.       *)
Written(r, v) == v \in vertices /\ props[v] = attr[r]

BehaviorWork(r) ==
  op[r] = "saveBehavior" =>
    /\ pc[r] \in {"unlinkReads", "unlinkPredicts", "set"} => age[r] \in ExistingBehavior(r)
    /\ pc[r] = "link" => Written(r, NewBehavior(r))
    /\ pc[r] = "done" => BehaviorListed(r)

ScenarioWork(r) ==
  op[r] = "saveScenario" =>
    /\ pc[r] = "set" => age[r] \in GetScenario(target[r])
    /\ pc[r] = "link" => Written(r, NewScenario(r))
    /\ pc[r] = "done" => ScenarioListed(r)

(* The nodes of a synchronisation that get_ontology_nodes is to answer, of *)
(* those in M, and the relationships drawn of those in R.                  *)
SyncNode(r, n) == [by |-> r, label |-> NodeLabel("sync", n), id |-> n]

Plain(M) == {v \in M : v.label = "node"}

Drawn(r, R) ==
  {<<"RELATED", SyncNode(r, e[1]), SyncNode(r, e[2])>> :
     e \in {x \in R : SyncNode(r, x[1]) \in Plain(made[r]) /\ SyncNode(r, x[2]) \in Plain(made[r])}}

SyncWork(r) ==
  op[r] = "sync" =>
    /\ pc[r] \in {"clear", "matchMeta", "setMeta", "createMeta"} => made[r] = {}
    /\ pc[r] \in {"matchMeta", "setMeta", "createMeta"} => OntologyNodes = {}
    /\ pc[r] \in {"nodes", "linkNode", "rels", "done"} =>
         made[r] \subseteq {SyncNode(r, n) : n \in NodeId} \cap vertices
    /\ pc[r] \in {"nodes", "rels", "done"} => OntologyNodes = Plain(made[r])
    /\ pc[r] = "linkNode" =>
         /\ age[r] \in {SyncNode(r, n) : n \in NodeId} \cap vertices
         /\ OntologyNodes = Plain(made[r] \cup {age[r]})
    /\ pc[r] \in {"nodes", "linkNode"} => OntologyRelationships = {}
    /\ pc[r] \in {"rels", "done"} => OntologyRelationships = Drawn(r, Rel \ todo[r])
    /\ pc[r] = "done" => todo[r] = {}

(* These statements are of one method only.                                *)
MethodOK(r) ==
  /\ pc[r] \in {"unlinkReads", "unlinkPredicts"} => op[r] = "saveBehavior"
  /\ pc[r] = "links" => op[r] = "saveLinks"
  /\ pc[r] \in {"clearTypes", "clearNodes"} => op[r] = "saveSchema"
  /\ pc[r] \in {"dropTypes", "dropNodes", "dropBehaviors", "dropSchema"} => op[r] = "deleteSchema"

WorkOK(r) ==
  /\ MethodOK(r)
  /\ clean[r] => BehaviorWork(r) /\ ScenarioWork(r) /\ SyncWork(r)

CleanInv ==
  /\ IInv
  /\ AloneOK
  /\ ScenariosOK
  /\ \A r \in Request : WorkOK(r)
=============================================================================
