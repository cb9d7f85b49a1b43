--------------------------- MODULE ScenarioStore ---------------------------
(***************************************************************************)
(* AgeScenarioStore (services/age_scenario_store): what-if scenarios,      *)
(* found by their id anywhere in the graph, listed through HAS_SCENARIO.   *)
(***************************************************************************)
EXTENDS AgeGraph

NewScenario(r) == [by |-> r, label |-> "scenario", id |-> target[r]]

SaveScenario(r, s, c, a) ==
  /\ Begin(r, "saveScenario", s, c, a)
  /\ Goto(r, "match")
  /\ UNCHANGED todo

MatchScenario(r) ==
  /\ pc[r] = "match" /\ op[r] = "saveScenario"
  /\ LET V == Match("scenario", target[r])
     IN  \/ V = {} /\ Goto(r, "create") /\ UNCHANGED age
         \/ \E v \in V : age' = [age EXCEPT ![r] = v] /\ Goto(r, "set")
  /\ Executes(r)
  /\ UNCHANGED <<graph, todo, made>>

(* An existing scenario is never linked, whatever schema the call names.   *)
SetScenario(r) ==
  /\ pc[r] = "set" /\ op[r] = "saveScenario"
  /\ SetAll(Here(age[r]), attr[r])
  /\ Goto(r, "done")
  /\ Executes(r)
  /\ UNCHANGED <<edges, local>>

CreateScenario(r) ==
  /\ pc[r] = "create" /\ op[r] = "saveScenario"
  /\ Create(NewScenario(r), attr[r])
  /\ age' = [age EXCEPT ![r] = NewScenario(r)]
  /\ Goto(r, "link")
  /\ Executes(r)
  /\ UNCHANGED <<edges, todo, made>>

LinkScenario(r) ==
  /\ pc[r] = "link" /\ op[r] = "saveScenario"
  /\ edges' = edges \cup Pairs("HAS_SCENARIO", Match("schema", schema[r]), Here(age[r]))
  /\ Goto(r, "done")
  /\ Executes(r)
  /\ UNCHANGED <<props, local>>

DeleteScenario(r, c) ==
  /\ Begin(r, "deleteScenario", None, c, None)
  /\ Goto(r, "clear")
  /\ UNCHANGED todo

DropScenario(r) ==
  /\ pc[r] = "clear" /\ op[r] = "deleteScenario"
  /\ DetachDelete(Match("scenario", target[r]))
  /\ Goto(r, "done")
  /\ Executes(r)
  /\ UNCHANGED local

ScenarioStep(r) ==
  \/ MatchScenario(r) \/ SetScenario(r) \/ CreateScenario(r) \/ LinkScenario(r)
  \/ DropScenario(r)

---------------------------------------------------------------------------
(* list_scenarios follows the edges; get_scenario goes by label and id.    *)
ListScenarios(s) == Under(s, "HAS_SCENARIO", "scenario")
GetScenario(c) == Match("scenario", c)
=============================================================================
