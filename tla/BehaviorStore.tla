--------------------------- MODULE BehaviorStore ---------------------------
(***************************************************************************)
(* AgeBehaviorStore (services/age_behavior_store): behavior vertices under *)
(* a schema and the field links between them and the schema's types.       *)
(***************************************************************************)
EXTENDS AgeGraph

(* A ModelFieldLink: <<type id, "READS_FIELD", behavior id>> or            *)
(* <<behavior id, "PREDICTS_FIELD", type id>>.                             *)
FieldLink == (NodeId \X {"READS_FIELD"} \X Behavior)
             \cup (Behavior \X {"PREDICTS_FIELD"} \X NodeId)

BehaviorsOf(s, b) == {v \in Under(s, "HAS_BEHAVIOR", "behavior") : v.id = b}

NewBehavior(r) == [by |-> r, label |-> "behavior", id |-> target[r]]

SaveBehavior(r, s, b, a) ==
  /\ Begin(r, "saveBehavior", s, b, a)
  /\ Goto(r, "match")
  /\ UNCHANGED todo

(* Mutant: the pattern follows another relationship.                       *)
BehaviorAsScenario(r) ==
  {v \in Under(schema[r], "HAS_SCENARIO", "behavior") : v.id = target[r]}

(* Mutant: any behavior with the id is taken for the schema's own.         *)
AnyBehavior(r) == Match("behavior", target[r])

ExistingBehavior(r) == BehaviorsOf(schema[r], target[r])

(* existing[0] is any of the rows; none: CREATE.                           *)
MatchBehavior(r) ==
  /\ pc[r] = "match" /\ op[r] = "saveBehavior"
  /\ LET V == ExistingBehavior(r)
     IN  \/ V = {} /\ Goto(r, "create") /\ UNCHANGED age
         \/ \E v \in V : /\ age' = [age EXCEPT ![r] = v]
                         /\ Goto(r, "unlinkReads")
  /\ Executes(r)
  /\ UNCHANGED <<graph, todo, made>>

(* The clean-up of field links: what leaves the behavior, if AGE accepts   *)
(* the pattern comprehension in the statement; otherwise the exception is  *)
(* swallowed.                                                              *)
Outgoing(r, type) == {e \in edges : e[1] = type /\ e[2] = age[r]}

Unlink(r, at, type, next) ==
  /\ pc[r] = at
  /\ edges' \in {edges, edges \ Outgoing(r, type)}
  /\ Goto(r, next)
  /\ Executes(r)
  /\ UNCHANGED <<props, local>>

UnlinkFields(r) ==
  \/ Unlink(r, "unlinkReads", "READS_FIELD", "unlinkPredicts")
  \/ Unlink(r, "unlinkPredicts", "PREDICTS_FIELD", "set")

(* MATCH (m) WHERE id(m) = age_id SET ...: True even if it matched none.   *)
SetBehavior(r) ==
  /\ pc[r] = "set" /\ op[r] = "saveBehavior"
  /\ SetAll(Here(age[r]), attr[r])
  /\ Goto(r, "done")
  /\ Executes(r)
  /\ UNCHANGED <<edges, local>>

CreateBehavior(r) ==
  /\ pc[r] = "create" /\ op[r] = "saveBehavior"
  /\ Create(NewBehavior(r), attr[r])
  /\ age' = [age EXCEPT ![r] = NewBehavior(r)]
  /\ Goto(r, "link")
  /\ Executes(r)
  /\ UNCHANGED <<edges, todo, made>>

(* Every schema vertex with the id, none included.                         *)
LinkBehavior(r) ==
  /\ pc[r] = "link" /\ op[r] = "saveBehavior"
  /\ edges' = edges \cup Pairs("HAS_BEHAVIOR", Match("schema", schema[r]), Here(age[r]))
  /\ Goto(r, "done")
  /\ Executes(r)
  /\ UNCHANGED <<props, local>>

(* save_model_field_links: one statement per link; an exception skips it.  *)
SaveModelFieldLinks(r, L) ==
  /\ Begin(r, "saveLinks", None, None, None)
  /\ todo' = [todo EXCEPT ![r] = L]
  /\ Goto(r, IF L = {} THEN "done" ELSE "links")

LabelOfEnd(i) == IF i \in Behavior THEN "behavior" ELSE "type"

Linked(l) ==
  Pairs(l[2], Match(LabelOfEnd(l[1]), l[1]), Match(LabelOfEnd(l[3]), l[3]))

CreateFieldLink(r, l) ==
  /\ pc[r] = "links" /\ l \in todo[r]
  /\ todo' = [todo EXCEPT ![r] = @ \ {l}]
  /\ Goto(r, IF todo'[r] = {} THEN "done" ELSE "links")
  /\ \/ edges' = edges \cup Linked(l) /\ UNCHANGED props /\ Executes(r)
     \/ Raises(r)
  /\ UNCHANGED <<age, made>>

(* update_model_status: every behavior with the id.                        *)
UpdateModelStatus(r, b, a) ==
  /\ Begin(r, "setStatus", None, b, a)
  /\ Goto(r, "set")
  /\ UNCHANGED todo

SetStatus(r) ==
  /\ pc[r] = "set" /\ op[r] = "setStatus"
  /\ SetAll(Match("behavior", target[r]), attr[r])
  /\ Goto(r, "done")
  /\ Executes(r)
  /\ UNCHANGED <<edges, local>>

(* delete_behavior: those of the schema, or all with the id.               *)
DeleteBehavior(r, s, b) ==
  /\ Begin(r, "deleteBehavior", s, b, None)
  /\ Goto(r, "clear")
  /\ UNCHANGED todo

DropBehavior(r) ==
  /\ pc[r] = "clear" /\ op[r] = "deleteBehavior"
  /\ DetachDelete(IF schema[r] = None THEN Match("behavior", target[r])
                  ELSE BehaviorsOf(schema[r], target[r]))
  /\ Goto(r, "done")
  /\ Executes(r)
  /\ UNCHANGED local

BehaviorStep(r) ==
  \/ MatchBehavior(r) \/ UnlinkFields(r) \/ SetBehavior(r) \/ CreateBehavior(r)
  \/ LinkBehavior(r) \/ (\E l \in FieldLink : CreateFieldLink(r, l))
  \/ SetStatus(r) \/ DropBehavior(r)

---------------------------------------------------------------------------
(* Reads.                                                                  *)

(* Mutant: the direction of OutputsOf.                                     *)
InputsOutgoing(b) ==
  {e[3].id : e \in {x \in edges : /\ x[1] = "READS_FIELD" /\ x[3].label = "type"
                                 /\ x[2].label = "behavior" /\ x[2].id = b}}

(* get_behaviors_for_schema: the models under the schema; then, by the id  *)
(* property alone, the types each of them reads and predicts.              *)
InputsOf(b) ==
  {e[2].id : e \in {x \in edges : /\ x[1] = "READS_FIELD" /\ x[2].label = "type"
                                 /\ x[3].label = "behavior" /\ x[3].id = b}}

OutputsOf(b) ==
  {e[3].id : e \in {x \in edges : /\ x[1] = "PREDICTS_FIELD" /\ x[3].label = "type"
                                 /\ x[2].label = "behavior" /\ x[2].id = b}}

BehaviorLinks(s) ==
  UNION {  {<<i, "READS_FIELD", m.id>> : i \in InputsOf(m.id)}
         \cup {<<m.id, "PREDICTS_FIELD", i>> : i \in OutputsOf(m.id)} :
         m \in Under(s, "HAS_BEHAVIOR", "behavior")}

(* get_model_graph: the links of the vertices under the schema.            *)
ModelLinks(s) ==
  LET M == Under(s, "HAS_BEHAVIOR", "behavior")
  IN  {<<e[2].id, e[1], e[3].id>> :
         e \in {x \in edges :
                 \/ x[1] = "READS_FIELD" /\ x[2].label = "type" /\ x[3] \in M
                 \/ x[1] = "PREDICTS_FIELD" /\ x[2] \in M /\ x[3].label = "type"}}
=============================================================================
