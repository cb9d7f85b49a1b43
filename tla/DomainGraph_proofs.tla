------------------------- MODULE DomainGraph_proofs -------------------------
(***************************************************************************)
(* Proofs about DomainGraph, for every set of calls, ids and properties,   *)
(* and for every bound.                                                    *)
(***************************************************************************)
EXTENDS DomainGraphInv, TLAPS

USE GraphAssumption, DocumentAssumption, GivenAssumption DEF graph, given, local, history

(* The graph by itself.                                                    *)
GraphOK ==
  /\ vertices \subseteq Vertex
  /\ \A v \in vertices : props[v] \in Attr \cup {None}
  /\ edges \subseteq Edge
  /\ GraphIntegrity

(* The coroutines by themselves.                                           *)
ControlOK ==
  /\ pc \in [Request -> PC]
  /\ op \in [Request -> Op \cup {None}]
  /\ schema \in [Request -> Schema \cup {None}]
  /\ target \in [Request -> Id \cup {None}]
  /\ attr \in [Request -> Attr \cup {None}]
  /\ age \in [Request -> Vertex \cup {None}]
  /\ todo \in [Request -> SUBSET Item]
  /\ made \in [Request -> SUBSET Vertex]
  /\ clean \in [Request -> BOOLEAN]
  /\ overlap \in BOOLEAN
  /\ faults \in 0..MaxFaults

LEMMA TypeParts == TypeOK /\ GraphIntegrity <=> GraphOK /\ ControlOK
  BY DEF TypeOK, GraphOK, ControlOK

---------------------------------------------------------------------------
(* What the clauses of a statement do to a graph that is well formed.      *)

LEMMA SetAllOK ==
  ASSUME GraphOK, NEW V, NEW a \in Attr \cup {None}, SetAll(V, a), UNCHANGED edges
  PROVE  GraphOK' /\ vertices' = vertices
<1>1. vertices' = vertices
  BY DEF SetAll, vertices
<1>2. \A v \in vertices' : props'[v] \in Attr \cup {None}
  BY <1>1 DEF SetAll, GraphOK
<1> QED
  BY <1>1, <1>2 DEF GraphOK, GraphIntegrity

LEMMA CreateOK ==
  ASSUME GraphOK, NEW n \in Vertex, NEW a \in Attr \cup {None}, Create(n, a), UNCHANGED edges
  PROVE  GraphOK' /\ vertices' = vertices \cup {n}
<1>1. vertices' = vertices \cup {n}
  BY DEF Create, vertices
<1>2. \A v \in vertices' : props'[v] \in Attr \cup {None}
  BY <1>1 DEF Create, GraphOK
<1> QED
  BY <1>1, <1>2 DEF GraphOK, GraphIntegrity

LEMMA DetachOK ==
  ASSUME GraphOK, NEW V, DetachDelete(V)
  PROVE  GraphOK' /\ vertices' = vertices \ V /\ edges' \subseteq edges
<1>1. vertices' = vertices \ V /\ edges' \subseteq edges
  BY DEF DetachDelete, vertices
<1>2. \A v \in vertices' : props'[v] \in Attr \cup {None}
  BY <1>1 DEF DetachDelete, GraphOK
<1>3. \A e \in edges' : e[2] \notin V /\ e[3] \notin V
  BY DEF DetachDelete
<1> QED
  BY <1>1, <1>2, <1>3 DEF GraphOK, GraphIntegrity

LEMMA EdgesOK ==
  ASSUME GraphOK, UNCHANGED props, NEW E, edges' \subseteq edges \cup E,
         \A e \in E : e \in Edge /\ e[2] \in vertices /\ e[3] \in vertices
                      /\ <<e[2].label, e[3].label>> \in EndsOf(e[1])
  PROVE  GraphOK' /\ vertices' = vertices
<1>1. vertices' = vertices
  BY DEF vertices
<1> QED
  BY <1>1 DEF GraphOK, GraphIntegrity

(* What MATCH finds has the label and the id it was given.                 *)
LEMMA PairsOK ==
  ASSUME GraphOK, NEW t \in EdgeType, NEW V \in SUBSET vertices, NEW W \in SUBSET vertices,
         \A v \in V, w \in W : <<v.label, w.label>> \in EndsOf(t),
         UNCHANGED props, edges' = edges \cup Pairs(t, V, W)
  PROVE  GraphOK' /\ vertices' = vertices
<1>1. \A e \in Pairs(t, V, W) :
        e \in Edge /\ e[1] = t /\ e[2] \in V /\ e[3] \in W
  BY DEF Pairs, Edge, GraphOK
<1> QED
  BY <1>1, EdgesOK

---------------------------------------------------------------------------
(* One vertex per id, for one client at a time.                            *)

(* Statements that create no schema, no scenario and no HAS_BEHAVIOR.      *)
LEMMA NothingNew ==
  ASSUME GraphOK,
         \A v \in vertices' : v \in vertices \/ v.label \notin {"schema", "scenario"},
         \A e \in edges' : e[1] = "HAS_BEHAVIOR" => e \in edges
  PROVE  /\ \A i : Match("schema", i)' \subseteq Match("schema", i)
         /\ \A i : Match("scenario", i)' \subseteq Match("scenario", i)
         /\ \A s, b : BehaviorsOf(s, b)' \subseteq BehaviorsOf(s, b)
<1>1. \A i : Match("schema", i)' \subseteq Match("schema", i)
  BY DEF Match
<1>2. \A i : Match("scenario", i)' \subseteq Match("scenario", i)
  BY DEF Match
<1>3. ASSUME NEW s, NEW b, NEW v, v \in BehaviorsOf(s, b)'
      PROVE  v \in BehaviorsOf(s, b)
  <2>1. /\ v \in vertices' /\ v.label = "behavior" /\ v.id = b
        /\ \E u \in Match("schema", s)' : <<"HAS_BEHAVIOR", u, v>> \in edges'
    BY <1>3 DEF BehaviorsOf, Under
  <2>2. PICK u \in Match("schema", s)' : <<"HAS_BEHAVIOR", u, v>> \in edges'
    BY <2>1
  <2>3. <<"HAS_BEHAVIOR", u, v>> \in edges
    BY <2>2
  <2>4. v \in vertices
    BY <2>3 DEF GraphOK, GraphIntegrity
  <2> QED
    BY <1>1, <2>1, <2>2, <2>3, <2>4 DEF BehaviorsOf, Under
<1> QED
  BY <1>1, <1>2, <1>3

(* The parts of SerialUnique.                                              *)
Unique ==
  /\ \A s \in Schema : \A v, w \in Match("schema", s) : v = w
  /\ \A c \in Scenario : \A v, w \in Match("scenario", c) : v = w
  /\ \A s \in Schema, b \in Behavior : \A v, w \in BehaviorsOf(s, b) : v = w

LEMMA QuietUnique ==
  ASSUME GraphOK, Unique,
         \A v \in vertices' : v \in vertices \/ v.label \notin {"schema", "scenario"},
         \A e \in edges' : e[1] = "HAS_BEHAVIOR" => e \in edges
  PROVE  Unique'
<1>1. /\ \A i : Match("schema", i)' \subseteq Match("schema", i)
      /\ \A i : Match("scenario", i)' \subseteq Match("scenario", i)
      /\ \A s, b : BehaviorsOf(s, b)' \subseteq BehaviorsOf(s, b)
  BY NothingNew
<1> QED
  BY <1>1 DEF Unique

---------------------------------------------------------------------------
(* A step of one coroutine.                                                *)

LEMMA Bookkeeping ==
  ASSUME ControlOK, NEW r \in Request, Executes(r) \/ Raises(r)
  PROVE  /\ UNCHANGED <<op, schema, target, attr, overlap>>
         /\ clean' \in [Request -> BOOLEAN] /\ faults' \in 0..MaxFaults
<1>1. CASE Executes(r)
  BY <1>1 DEF Executes, ControlOK
<1>2. CASE Raises(r)
  <2>1. faults' \in 0..MaxFaults
    BY <1>2 DEF Raises, ControlOK, GraphAssumption
  <2>2. clean' \in [Request -> BOOLEAN]
    BY <1>2 DEF Raises, ControlOK
  <2> QED
    BY <1>2, <2>1, <2>2 DEF Raises
<1> QED
  BY <1>1, <1>2

(* Only r moves.                                                           *)
OnlyOf(r) ==
  \A q \in Request \ {r} :
    pc'[q] = pc[q] /\ age'[q] = age[q] /\ todo'[q] = todo[q] /\ made'[q] = made[q]

LEMMA StepInv ==
  ASSUME IInv, NEW r \in Request, NEW l \in PC \ {"idle"},
         pc[r] \notin Ended \cup {"idle"}, pc' = [pc EXCEPT ![r] = l],
         Executes(r) \/ Raises(r),
         age' \in [Request -> Vertex \cup {None}],
         todo' \in [Request -> SUBSET Item],
         made' \in [Request -> SUBSET Vertex],
         OnlyOf(r), GraphOK', HeldOK(r)',
         ~overlap => StillSo(r)' /\ Unique'
  PROVE  IInv'
<1>1. GraphOK /\ ControlOK
  BY TypeParts DEF IInv
<1>2. /\ UNCHANGED <<op, schema, target, attr, overlap>>
      /\ clean' \in [Request -> BOOLEAN] /\ faults' \in 0..MaxFaults
  BY <1>1, Bookkeeping
<1>3. ControlOK'
  BY <1>1, <1>2 DEF ControlOK
<1>4. TypeOK' /\ GraphIntegrity'
  BY <1>3, TypeParts DEF TypeOK, GraphOK, ControlOK
<1>5. \A q \in Request : GivenOK(q)'
  BY <1>2 DEF IInv, GivenOK
<1>6. ASSUME NEW q \in Request
      PROVE  HeldOK(q)'
  <2>1. CASE q # r
    <3>1. HeldOK(q)
      BY DEF IInv
    <3>2. /\ pc'[q] = pc[q] /\ age'[q] = age[q] /\ made'[q] = made[q]
          /\ op'[q] = op[q] /\ target'[q] = target[q]
      BY <1>2, <2>1 DEF OnlyOf
    <3> QED
      BY <3>1, <3>2 DEF HeldOK, NewBehavior, NewScenario
  <2> QED
    BY <2>1
<1>7. ASSUME ~overlap
      PROVE  (\A q, p \in InFlight' : q = p) /\ \A q \in Request : StillSo(q)'
  <2>1. InFlight' \subseteq InFlight
    BY <1>1 DEF InFlight, ControlOK
  <2>2. \A q, p \in InFlight : q = p
    BY <1>7 DEF IInv, SerialOK
  <2>3. r \in InFlight
    BY DEF InFlight
  <2>4. ASSUME NEW q \in Request, q # r
        PROVE  StillSo(q)'
    BY <2>2, <2>3, <2>4 DEF InFlight, Ended, OnlyOf, StillSo
  <2> QED
    BY <1>7, <2>1, <2>2, <2>4
<1>8. SerialOK' /\ SerialUnique'
  BY <1>2, <1>7 DEF SerialOK, SerialUnique, Unique
<1> QED
  BY <1>4, <1>5, <1>6, <1>8 DEF IInv

(* The first step of a call.                                               *)
LEMMA StartInv ==
  ASSUME IInv, NEW r \in Request,
         NEW l \in {"match", "links", "set", "clear", "clearTypes", "dropTypes", "done"},
         NEW o \in Op, NEW s \in Schema \cup {None}, NEW i \in Id \cup {None},
         NEW a \in Attr \cup {None},
         Starts(r, o, s, i, a), pc' = [pc EXCEPT ![r] = l],
         o = "saveBehavior" => s \in Schema /\ i \in Behavior,
         o = "saveScenario" => s \in Schema /\ i \in Scenario,
         o \in Writers => s \in Schema, l = "clearTypes" => o \in Writers,
         todo' \in [Request -> SUBSET Item],
         \A q \in Request \ {r} : todo'[q] = todo[q],
         GraphOK', ~overlap => Unique'
  PROVE  IInv'
<1>1. GraphOK /\ ControlOK
  BY TypeParts DEF IInv
<1>2. /\ clean' \in [Request -> BOOLEAN] /\ overlap' \in BOOLEAN
      /\ UNCHANGED <<age, made, faults>> /\ pc[r] = "idle"
      /\ overlap' \/ (~overlap /\ InFlight = {})
  BY <1>1 DEF Starts, ControlOK
<1>3. /\ op' = [op EXCEPT ![r] = o] /\ schema' = [schema EXCEPT ![r] = s]
      /\ target' = [target EXCEPT ![r] = i] /\ attr' = [attr EXCEPT ![r] = a]
  BY DEF Starts
<1>4. l \in PC
  BY DEF PC
<1>5. ControlOK'
  BY <1>1, <1>2, <1>3, <1>4 DEF ControlOK
<1>6. TypeOK' /\ GraphIntegrity'
  BY <1>5, TypeParts DEF TypeOK, GraphOK, ControlOK
<1>7. \A q \in Request : GivenOK(q)'
  BY <1>1, <1>3 DEF IInv, GivenOK, ControlOK, Writers
<1>8. ASSUME NEW q \in Request
      PROVE  HeldOK(q)'
  <2>1. CASE q # r
    BY <1>1, <1>2, <1>3, <2>1 DEF IInv, HeldOK, ControlOK, NewBehavior, NewScenario
  <2>2. CASE q = r
    <3>1. pc'[r] = l /\ op'[r] = o /\ made'[r] = made[r] /\ made[r] = {}
      BY <1>1, <1>2, <1>3 DEF IInv, HeldOK, ControlOK
    <3> QED
      BY <2>2, <3>1 DEF HeldOK
  <2> QED
    BY <2>1, <2>2
<1>9. ASSUME ~overlap, InFlight = {}
      PROVE  (\A q, p \in InFlight' : q = p) /\ \A q \in Request : StillSo(q)'
  <2>1. InFlight' \subseteq {r}
    BY <1>1, <1>9 DEF InFlight, ControlOK
  <2>2. ASSUME NEW q \in Request
        PROVE  pc'[q] \notin {"create", "link", "createMeta"}
    BY <1>1, <1>9 DEF InFlight, Ended, ControlOK
  <2> QED
    BY <2>1, <2>2 DEF StillSo
<1>10. SerialOK' /\ SerialUnique'
  <2>1. CASE overlap'
    BY <2>1 DEF SerialOK, SerialUnique
  <2>2. CASE ~overlap /\ InFlight = {}
    BY <1>9, <2>2 DEF SerialOK, SerialUnique, Unique
  <2> QED
    BY <1>2, <2>1, <2>2
<1> QED
  BY <1>6, <1>7, <1>8, <1>10 DEF IInv

(* A call that executes no statement before its first await.               *)
LEMMA SameGraph ==
  ASSUME UNCHANGED <<props, edges>>
  PROVE  (GraphOK => GraphOK') /\ (Unique => Unique')
<1>1. vertices' = vertices
  BY DEF vertices
<1>2. /\ \A l, i : Match(l, i)' = Match(l, i)
      /\ \A s, t, l : Under(s, t, l)' = Under(s, t, l)
  BY <1>1 DEF Match, Under
<1> QED
  BY <1>1, <1>2 DEF GraphOK, GraphIntegrity, Unique, BehaviorsOf

LEMMA BeginInv ==
  ASSUME IInv, NEW r \in Request,
         NEW l \in {"match", "links", "set", "clear", "clearTypes", "dropTypes", "done"},
         NEW o \in Op, NEW s \in Schema \cup {None}, NEW i \in Id \cup {None},
         NEW a \in Attr \cup {None},
         Begin(r, o, s, i, a), Goto(r, l),
         o = "saveBehavior" => s \in Schema /\ i \in Behavior,
         o = "saveScenario" => s \in Schema /\ i \in Scenario,
         o \in Writers => s \in Schema, l = "clearTypes" => o \in Writers,
         \E T \in SUBSET Item : todo' = [todo EXCEPT ![r] = T] \/ todo' = todo
  PROVE  IInv'
<1>1. GraphOK /\ ControlOK /\ (~overlap => Unique)
  BY TypeParts DEF IInv, SerialUnique, Unique
<1>2. Starts(r, o, s, i, a) /\ UNCHANGED <<props, edges>>
  BY DEF Begin
<1>3. GraphOK' /\ (~overlap => Unique')
  BY <1>1, <1>2, SameGraph
<1>4. todo' \in [Request -> SUBSET Item] /\ \A q \in Request \ {r} : todo'[q] = todo[q]
  BY <1>1 DEF ControlOK
<1>5. pc' = [pc EXCEPT ![r] = l]
  BY DEF Goto
<1> QED
  BY <1>2, <1>3, <1>4, <1>5, StartInv

LEMMA CallInv ==
  ASSUME IInv, NEW r \in Request,
         \/ \E s \in Schema, b \in Behavior, a \in Attr : SaveBehavior(r, s, b, a)
         \/ SaveModelFieldLinks(r, Links)
         \/ \E b \in Behavior, a \in Attr : UpdateModelStatus(r, b, a)
         \/ \E s \in Schema \cup {None}, b \in Behavior : DeleteBehavior(r, s, b)
         \/ \E s \in Schema, c \in Scenario, a \in Attr : SaveScenario(r, s, c, a)
         \/ \E c \in Scenario : DeleteScenario(r, c)
         \/ \E s \in Schema, D \in Document, a \in Attr : SyncOntologySchema(r, s, D, a)
         \/ \E i \in Touched : DeleteNodeById(r, i)
         \/ \E i \in Touched, a \in Attr : UpdateNodeProperties(r, i, a)
         \/ \E s \in Schema, D \in Document, a \in Attr : SaveSchema(r, s, D, a)
         \/ \E s \in Schema : DeleteSchema(r, s)
  PROVE  IInv'
<1> USE DEF Op, Id, Writers
<1>1. ASSUME NEW s \in Schema, NEW b \in Behavior, NEW a \in Attr, SaveBehavior(r, s, b, a)
      PROVE  IInv'
  BY <1>1, BeginInv DEF SaveBehavior
<1>2. CASE SaveModelFieldLinks(r, Links)
  <2>1. Links \in SUBSET Item
    BY DEF Item
  <2>2. CASE Links = {}
    <3>1. Goto(r, "done") /\ Begin(r, "saveLinks", None, None, None)
          /\ todo' = [todo EXCEPT ![r] = Links]
      BY <1>2, <2>2 DEF SaveModelFieldLinks
    <3> QED
      BY <2>1, <3>1, BeginInv
  <2>3. CASE Links # {}
    <3>1. Goto(r, "links") /\ Begin(r, "saveLinks", None, None, None)
          /\ todo' = [todo EXCEPT ![r] = Links]
      BY <1>2, <2>3 DEF SaveModelFieldLinks
    <3> QED
      BY <2>1, <3>1, BeginInv
  <2> QED
    BY <2>2, <2>3
<1>3. ASSUME NEW b \in Behavior, NEW a \in Attr, UpdateModelStatus(r, b, a)
      PROVE  IInv'
  BY <1>3, BeginInv DEF UpdateModelStatus
<1>4. ASSUME NEW s \in Schema \cup {None}, NEW b \in Behavior, DeleteBehavior(r, s, b)
      PROVE  IInv'
  BY <1>4, BeginInv DEF DeleteBehavior
<1>5. ASSUME NEW s \in Schema, NEW c \in Scenario, NEW a \in Attr, SaveScenario(r, s, c, a)
      PROVE  IInv'
  BY <1>5, BeginInv DEF SaveScenario
<1>6. ASSUME NEW c \in Scenario, DeleteScenario(r, c)
      PROVE  IInv'
  BY <1>6, BeginInv DEF DeleteScenario
<1>7. ASSUME NEW s \in Schema, NEW D \in Document, NEW a \in Attr, SyncOntologySchema(r, s, D, a)
      PROVE  IInv'
  <2>1. D \in SUBSET Item
    BY DEF Item
  <2> QED
    BY <1>7, <2>1, BeginInv DEF SyncOntologySchema
<1>8. ASSUME NEW i \in Touched, DeleteNodeById(r, i)
      PROVE  IInv'
  BY <1>8, BeginInv DEF DeleteNodeById
<1>9. ASSUME NEW i \in Touched, NEW a \in Attr, UpdateNodeProperties(r, i, a)
      PROVE  IInv'
  BY <1>9, BeginInv DEF UpdateNodeProperties
<1>10. ASSUME NEW s \in Schema, NEW D \in Document, NEW a \in Attr, SaveSchema(r, s, D, a)
       PROVE  IInv'
  <2>1. D \in SUBSET Item
    BY DEF Item
  <2> QED
    BY <1>10, <2>1, BeginInv DEF SaveSchema
<1>11. ASSUME NEW s \in Schema, DeleteSchema(r, s)
       PROVE  IInv'
  BY <1>11, BeginInv DEF DeleteSchema
<1> QED
  BY <1>1, <1>2, <1>3, <1>4, <1>5, <1>6, <1>7, <1>8, <1>9, <1>10, <1>11

---------------------------------------------------------------------------
(* The steps of a call.                                                    *)

(* A step that neither finds nothing nor creates what must be unique.      *)
LEMMA QuietStep ==
  ASSUME IInv, NEW r \in Request,
         NEW l \in PC \ {"idle", "create", "link", "createMeta", "linkNode"},
         pc[r] \notin Ended \cup {"idle"}, Goto(r, l),
         l \in {"clearTypes", "clearNodes", "matchMeta", "setMeta", "nodes", "rels"} =>
           op[r] \in Writers,
         Executes(r) \/ Raises(r), UNCHANGED age,
         todo' \in [Request -> SUBSET Item], made' \in [Request -> SUBSET Vertex],
         \A q \in Request \ {r} : todo'[q] = todo[q] /\ made'[q] = made[q],
         \A v \in made'[r] : v.label \in NodeLabels(op[r]),
         GraphOK',
         \A v \in vertices' : v \in vertices \/ v.label \notin {"schema", "scenario"},
         \A e \in edges' : e[1] = "HAS_BEHAVIOR" => e \in edges
  PROVE  IInv'
<1>1. GraphOK /\ ControlOK /\ (~overlap => Unique)
  BY TypeParts DEF IInv, SerialUnique, Unique
<1>2. UNCHANGED <<op, schema, target, attr, overlap>>
  BY <1>1, Bookkeeping
<1>3. /\ pc' = [pc EXCEPT ![r] = l] /\ pc'[r] = l
      /\ age' \in [Request -> Vertex \cup {None}]
  BY <1>1 DEF Goto, ControlOK
<1>4. OnlyOf(r)
  BY <1>1, <1>3 DEF OnlyOf, ControlOK
<1>5. HeldOK(r)'
  BY <1>2, <1>3 DEF HeldOK
<1>6. StillSo(r)'
  BY <1>3 DEF StillSo
<1>7. ~overlap => Unique'
  BY <1>1, QuietUnique
<1> QED
  BY <1>3, <1>4, <1>5, <1>6, <1>7, StepInv

(* ... and leaves its own list alone.                                      *)
LEMMA PlainStep ==
  ASSUME IInv, NEW r \in Request,
         NEW l \in {"unlinkReads", "unlinkPredicts", "set", "done", "failed", "matchMeta",
                  "setMeta", "clearNodes", "dropNodes", "dropBehaviors", "dropSchema"},
         pc[r] \notin Ended \cup {"idle"}, Goto(r, l),
         l \in {"clearNodes", "matchMeta", "setMeta"} => op[r] \in Writers,
         Executes(r) \/ Raises(r), UNCHANGED local, GraphOK',
         vertices' \subseteq vertices,
         \A e \in edges' : e[1] = "HAS_BEHAVIOR" => e \in edges
  PROVE  IInv'
<1>1. ControlOK /\ \A v \in made[r] : v.label \in NodeLabels(op[r])
  BY TypeParts DEF IInv, HeldOK
<1>2. l \in PC \ {"idle", "create", "link", "createMeta", "linkNode"}
  BY DEF PC
<1> QED
  BY <1>1, <1>2, QuietStep DEF ControlOK

LEMMA AttrOK == ASSUME IInv, NEW r \in Request PROVE attr[r] \in Attr \cup {None}
  BY DEF IInv, TypeOK

LEMMA FailsInv ==
  ASSUME IInv, NEW r \in Request, Fails(r, Fatal(op[r]))
  PROVE  IInv'
<1>1. pc[r] \notin Ended \cup {"idle"} /\ Goto(r, "failed") /\ Raises(r) /\ UNCHANGED local
  BY DEF Fails, Fatal, Ended
<1>2. UNCHANGED <<props, edges>>
  BY <1>1 DEF Raises
<1>3. GraphOK' /\ vertices' = vertices
  BY <1>2, SameGraph, TypeParts DEF IInv, vertices
<1> QED
  BY <1>1, <1>2, <1>3, PlainStep

(* SET statements.                                                         *)
LEMMA SetInv ==
  ASSUME IInv, NEW r \in Request, SetBehavior(r) \/ SetStatus(r) \/ SetScenario(r) \/ SetNode(r)
  PROVE  IInv'
<1>1. /\ pc[r] = "set" /\ Goto(r, "done") /\ Executes(r) /\ UNCHANGED <<edges, local>>
      /\ \E V : SetAll(V, attr[r])
  BY DEF SetBehavior, SetStatus, SetScenario, SetNode
<1>2. GraphOK /\ attr[r] \in Attr \cup {None}
  BY AttrOK, TypeParts DEF IInv
<1>3. GraphOK' /\ vertices' = vertices
  BY <1>1, <1>2, SetAllOK
<1> QED
  BY <1>1, <1>3, PlainStep DEF Ended

(* DETACH DELETE statements.                                               *)
LEMMA DropInv ==
  ASSUME IInv, NEW r \in Request, DropBehavior(r) \/ DropScenario(r) \/ DropNode(r) \/ DropSchema(r)
  PROVE  IInv'
<1>1. /\ pc[r] \in {"clear", "dropSchema"} /\ Goto(r, "done") /\ Executes(r) /\ UNCHANGED local
      /\ \E V : DetachDelete(V)
  BY DEF DropBehavior, DropScenario, DropNode, DropSchema
<1>2. GraphOK
  BY TypeParts DEF IInv
<1>3. GraphOK' /\ vertices' \subseteq vertices /\ edges' \subseteq edges
  BY <1>1, <1>2, DetachOK
<1> QED
  BY <1>1, <1>3, PlainStep DEF Ended

(* A clean-up deletes what it is about, or raises.                         *)
LEMMA ClearsInv ==
  ASSUME IInv, NEW r \in Request, NEW V, (DetachDelete(V) /\ Executes(r)) \/ Raises(r),
         NEW l \in {"clearNodes", "dropNodes", "dropBehaviors", "dropSchema", "matchMeta"},
         pc[r] \notin Ended \cup {"idle"}, Goto(r, l), UNCHANGED local,
         l \in {"clearNodes", "matchMeta"} => op[r] \in Writers
  PROVE  IInv'
<1>1. GraphOK
  BY TypeParts DEF IInv
<1>2. GraphOK' /\ vertices' \subseteq vertices /\ edges' \subseteq edges
  <2>1. CASE DetachDelete(V)
    BY <1>1, <2>1, DetachOK
  <2>2. CASE Raises(r)
    BY <1>1, <2>2, SameGraph DEF Raises, vertices
  <2> QED
    BY <2>1, <2>2
<1> QED
  BY <1>2, PlainStep

LEMMA DeleteExistingNodesInv ==
  ASSUME IInv, NEW r \in Request, DeleteExistingNodes(r)
  PROVE  IInv'
<1>1. /\ pc[r] \notin Ended \cup {"idle"} /\ Goto(r, "matchMeta") /\ UNCHANGED local
      /\ op[r] \in Writers
      /\ (DetachDelete(ExistingNodes(r)) /\ Executes(r)) \/ Raises(r)
  BY DEF DeleteExistingNodes, Ended, Writers
<1> QED
  BY <1>1, ClearsInv

LEMMA SchemaClearsInv ==
  ASSUME IInv, NEW r \in Request, DeleteSchemaNodes(r) \/ DropChildren(r)
  PROVE  IInv'
<1>1. HeldOK(r)
  BY DEF IInv
<1>2. /\ pc[r] \notin Ended \cup {"idle"} /\ UNCHANGED local
      /\ \E V : (DetachDelete(V) /\ Executes(r)) \/ Raises(r)
      /\ \E l \in {"clearNodes", "dropNodes", "dropBehaviors", "dropSchema", "matchMeta"} :
           Goto(r, l) /\ (l \in {"clearNodes", "matchMeta"} => op[r] \in Writers)
  BY <1>1 DEF DeleteSchemaNodes, DropChildren, Clears, Ended, HeldOK
<1> QED
  BY <1>2, ClearsInv

LEMMA UnlinkFieldsInv ==
  ASSUME IInv, NEW r \in Request, UnlinkFields(r)
  PROVE  IInv'
<1>1. /\ pc[r] \in {"unlinkReads", "unlinkPredicts"} /\ Executes(r) /\ UNCHANGED <<props, local>>
      /\ edges' \subseteq edges
      /\ Goto(r, "unlinkPredicts") \/ Goto(r, "set")
  BY DEF UnlinkFields, Unlink
<1>2. GraphOK
  BY TypeParts DEF IInv
<1>3. GraphOK' /\ vertices' = vertices
  BY <1>1, <1>2, EdgesOK
<1> QED
  BY <1>1, <1>3, PlainStep DEF Ended

LEMMA SameVertices ==
  ASSUME UNCHANGED <<props, edges>>
  PROVE  vertices' = vertices
  BY DEF vertices

LEMMA MatchBehaviorInv ==
  ASSUME IInv, NEW r \in Request, MatchBehavior(r)
  PROVE  IInv'
<1>1. /\ pc[r] = "match" /\ op[r] = "saveBehavior" /\ Executes(r)
      /\ UNCHANGED <<props, edges, todo, made>>
  BY DEF MatchBehavior
<1>2. GraphOK /\ ControlOK /\ (~overlap => Unique) /\ HeldOK(r)
  BY TypeParts DEF IInv, SerialUnique, Unique
<1>3. GraphOK' /\ (~overlap => Unique') /\ vertices' = vertices
  BY <1>1, <1>2, SameGraph, SameVertices
<1>4. UNCHANGED <<op, schema, target, overlap>>
  BY <1>1, <1>2, Bookkeeping
<1>5. CASE ExistingBehavior(r) = {} /\ Goto(r, "create") /\ UNCHANGED age
  <2>1. pc' = [pc EXCEPT ![r] = "create"] /\ pc'[r] = "create"
    BY <1>2, <1>5 DEF Goto, ControlOK
  <2>2. OnlyOf(r) /\ HeldOK(r)'
    BY <1>1, <1>2, <1>4, <1>5, <2>1 DEF OnlyOf, HeldOK, ControlOK
  <2>3. BehaviorsOf(schema[r], target[r])' = {}
    BY <1>1, <1>3, <1>4, <1>5 DEF ExistingBehavior, BehaviorsOf, Under, Match
  <2>4. StillSo(r)'
    BY <1>1, <1>4, <2>1, <2>3 DEF StillSo
  <2>5. /\ age' \in [Request -> Vertex \cup {None}] /\ todo' \in [Request -> SUBSET Item]
        /\ made' \in [Request -> SUBSET Vertex] /\ "create" \in PC \ {"idle"}
    BY <1>1, <1>2, <1>5 DEF ControlOK, PC
  <2> QED
    BY <1>1, <1>3, <2>1, <2>2, <2>4, <2>5, StepInv DEF Ended
<1>6. ASSUME NEW v \in ExistingBehavior(r), age' = [age EXCEPT ![r] = v], Goto(r, "unlinkReads")
      PROVE  IInv'
  <2>1. pc' = [pc EXCEPT ![r] = "unlinkReads"] /\ pc'[r] = "unlinkReads"
    BY <1>2, <1>6 DEF Goto, ControlOK
  <2>2. v \in Vertex
    BY <1>2, <1>6 DEF ExistingBehavior, BehaviorsOf, Under, GraphOK
  <2>3. OnlyOf(r) /\ HeldOK(r)' /\ StillSo(r)'
    BY <1>1, <1>2, <1>4, <1>6, <2>1 DEF OnlyOf, HeldOK, StillSo, ControlOK
  <2>4. /\ age' \in [Request -> Vertex \cup {None}] /\ todo' \in [Request -> SUBSET Item]
        /\ made' \in [Request -> SUBSET Vertex] /\ "unlinkReads" \in PC \ {"idle"}
    BY <1>1, <1>2, <1>6, <2>2 DEF ControlOK, PC
  <2> QED
    BY <1>1, <1>3, <2>1, <2>3, <2>4, StepInv DEF Ended
<1> QED
  BY <1>5, <1>6 DEF MatchBehavior

LEMMA MatchScenarioInv ==
  ASSUME IInv, NEW r \in Request, MatchScenario(r)
  PROVE  IInv'
<1>1. /\ pc[r] = "match" /\ op[r] = "saveScenario" /\ Executes(r)
      /\ UNCHANGED <<props, edges, todo, made>>
  BY DEF MatchScenario
<1>2. GraphOK /\ ControlOK /\ (~overlap => Unique) /\ HeldOK(r)
  BY TypeParts DEF IInv, SerialUnique, Unique
<1>3. GraphOK' /\ (~overlap => Unique') /\ vertices' = vertices
  BY <1>1, <1>2, SameGraph, SameVertices
<1>4. UNCHANGED <<op, schema, target, overlap>>
  BY <1>1, <1>2, Bookkeeping
<1>5. CASE Match("scenario", target[r]) = {} /\ Goto(r, "create") /\ UNCHANGED age
  <2>1. pc' = [pc EXCEPT ![r] = "create"] /\ pc'[r] = "create"
    BY <1>2, <1>5 DEF Goto, ControlOK
  <2>2. OnlyOf(r) /\ HeldOK(r)'
    BY <1>1, <1>2, <1>4, <1>5, <2>1 DEF OnlyOf, HeldOK, ControlOK
  <2>3. Match("scenario", target[r])' = {}
    BY <1>1, <1>3, <1>4, <1>5 DEF Match
  <2>4. StillSo(r)'
    BY <1>1, <1>4, <2>1, <2>3 DEF StillSo
  <2>5. /\ age' \in [Request -> Vertex \cup {None}] /\ todo' \in [Request -> SUBSET Item]
        /\ made' \in [Request -> SUBSET Vertex] /\ "create" \in PC \ {"idle"}
    BY <1>1, <1>2, <1>5 DEF ControlOK, PC
  <2> QED
    BY <1>1, <1>3, <2>1, <2>2, <2>4, <2>5, StepInv DEF Ended
<1>6. ASSUME NEW v \in Match("scenario", target[r]), age' = [age EXCEPT ![r] = v], Goto(r, "set")
      PROVE  IInv'
  <2>1. pc' = [pc EXCEPT ![r] = "set"] /\ pc'[r] = "set"
    BY <1>2, <1>6 DEF Goto, ControlOK
  <2>2. v \in Vertex
    BY <1>2, <1>6 DEF Match, GraphOK
  <2>3. OnlyOf(r) /\ HeldOK(r)' /\ StillSo(r)'
    BY <1>1, <1>2, <1>4, <1>6, <2>1 DEF OnlyOf, HeldOK, StillSo, ControlOK
  <2>4. /\ age' \in [Request -> Vertex \cup {None}] /\ todo' \in [Request -> SUBSET Item]
        /\ made' \in [Request -> SUBSET Vertex] /\ "set" \in PC \ {"idle"}
    BY <1>1, <1>2, <1>6, <2>2 DEF ControlOK, PC
  <2> QED
    BY <1>1, <1>3, <2>1, <2>3, <2>4, StepInv DEF Ended
<1> QED
  BY <1>5, <1>6 DEF MatchScenario

LEMMA MatchMetaInv ==
  ASSUME IInv, NEW r \in Request, MatchMeta(r)
  PROVE  IInv'
<1>1. /\ pc[r] = "matchMeta" /\ op[r] \in Writers /\ Executes(r)
      /\ UNCHANGED <<props, edges, age, todo, made>>
  BY DEF MatchMeta, IInv, HeldOK
<1>2. GraphOK /\ ControlOK /\ (~overlap => Unique) /\ HeldOK(r)
  BY TypeParts DEF IInv, SerialUnique, Unique
<1>3. GraphOK' /\ (~overlap => Unique') /\ vertices' = vertices
  BY <1>1, <1>2, SameGraph, SameVertices
<1>4. UNCHANGED <<op, schema, target, overlap>>
  BY <1>1, <1>2, Bookkeeping
<1>5. CASE Match("schema", schema[r]) = {} /\ Goto(r, "createMeta")
  <2>1. pc' = [pc EXCEPT ![r] = "createMeta"] /\ pc'[r] = "createMeta"
    BY <1>2, <1>5 DEF Goto, ControlOK
  <2>2. OnlyOf(r) /\ HeldOK(r)'
    BY <1>1, <1>2, <1>4, <2>1 DEF OnlyOf, HeldOK, ControlOK
  <2>3. Match("schema", schema[r])' = {}
    BY <1>1, <1>3, <1>4, <1>5 DEF Match
  <2>4. StillSo(r)'
    BY <1>1, <1>4, <2>1, <2>3 DEF StillSo
  <2>5. /\ age' \in [Request -> Vertex \cup {None}] /\ todo' \in [Request -> SUBSET Item]
        /\ made' \in [Request -> SUBSET Vertex] /\ "createMeta" \in PC \ {"idle"}
    BY <1>1, <1>2 DEF ControlOK, PC
  <2> QED
    BY <1>1, <1>3, <2>1, <2>2, <2>4, <2>5, StepInv DEF Ended
<1>6. CASE Goto(r, "setMeta")
  BY <1>1, <1>3, <1>6, PlainStep DEF Ended
<1> QED
  BY <1>5, <1>6 DEF MatchMeta

(* A new vertex has no edges yet.                                          *)
LEMMA NewVertex ==
  ASSUME GraphOK, NEW n, vertices' = vertices \cup {n}, UNCHANGED edges
  PROVE  /\ \A l, i : Match(l, i)' \subseteq Match(l, i) \cup {n}
         /\ \A l, i : l # n.label \/ i # n.id => Match(l, i)' \subseteq Match(l, i)
         /\ \A s, b : BehaviorsOf(s, b)' \subseteq BehaviorsOf(s, b)
<1>1. /\ \A l, i : Match(l, i)' \subseteq Match(l, i) \cup {n}
      /\ \A l, i : l # n.label \/ i # n.id => Match(l, i)' \subseteq Match(l, i)
  BY DEF Match
<1>2. ASSUME NEW s, NEW b, NEW v, v \in BehaviorsOf(s, b)'
      PROVE  v \in BehaviorsOf(s, b)
  <2>1. /\ v.label = "behavior" /\ v.id = b
        /\ \E u \in Match("schema", s)' : <<"HAS_BEHAVIOR", u, v>> \in edges
    BY <1>2 DEF BehaviorsOf, Under
  <2>2. PICK u \in Match("schema", s)' : <<"HAS_BEHAVIOR", u, v>> \in edges
    BY <2>1
  <2>3. u \in vertices /\ v \in vertices
    BY <2>2 DEF GraphOK, GraphIntegrity
  <2>4. u \in Match("schema", s)
    BY <2>3 DEF Match
  <2> QED
    BY <2>1, <2>2, <2>3, <2>4 DEF BehaviorsOf, Under
<1> QED
  BY <1>1, <1>2

(* MATCH found no behavior of the schema; the one created is not linked.   *)
LEMMA CreateBehaviorInv ==
  ASSUME IInv, NEW r \in Request, CreateBehavior(r)
  PROVE  IInv'
<1> DEFINE n == NewBehavior(r)
<1>1. /\ pc[r] = "create" /\ op[r] = "saveBehavior" /\ Goto(r, "link") /\ Executes(r)
      /\ Create(n, attr[r]) /\ age' = [age EXCEPT ![r] = n]
      /\ UNCHANGED <<edges, todo, made>>
  BY DEF CreateBehavior
<1>2. GraphOK /\ ControlOK /\ (~overlap => Unique /\ StillSo(r)) /\ HeldOK(r) /\ GivenOK(r)
  BY TypeParts DEF IInv, SerialUnique, Unique, SerialOK
<1>3. UNCHANGED <<op, schema, target, overlap>>
  BY <1>1, <1>2, Bookkeeping
<1>4. n \in Vertex
  BY <1>1, <1>2 DEF NewBehavior, Vertex, Label, Id, GivenOK
<1>5. GraphOK' /\ vertices' = vertices \cup {n}
  BY <1>1, <1>2, <1>4, AttrOK, CreateOK
<1>6. pc' = [pc EXCEPT ![r] = "link"] /\ pc'[r] = "link" /\ age'[r] = n
  BY <1>1, <1>2 DEF Goto, ControlOK
<1>7. OnlyOf(r)
  BY <1>1, <1>2, <1>6 DEF OnlyOf, ControlOK
<1>8. HeldOK(r)'
  BY <1>1, <1>2, <1>3, <1>6 DEF HeldOK, NewBehavior
<1>9. ASSUME ~overlap
      PROVE  StillSo(r)' /\ Unique'
  <2>1. BehaviorsOf(schema[r], target[r]) = {}
    BY <1>1, <1>2, <1>9 DEF StillSo
  <2>2. BehaviorsOf(schema[r], target[r])' = {}
    <3>1. \A s, b : BehaviorsOf(s, b)' \subseteq BehaviorsOf(s, b)
      BY <1>1, <1>2, <1>5, NewVertex
    <3>2. PICK s, b : s = schema[r] /\ b = target[r]
      OBVIOUS
    <3>3. BehaviorsOf(s, b)' = {}
      BY <2>1, <3>1, <3>2
    <3>4. s = schema'[r] /\ b = target'[r]
      BY <1>3, <3>2
    <3> QED
      BY <3>3, <3>4 DEF BehaviorsOf, Under, Match
  <2>3. StillSo(r)'
    BY <1>1, <1>3, <1>6, <2>2 DEF StillSo
  <2>4. n.label = "behavior"
    BY DEF NewBehavior
  <2>5. Unique'
    BY <1>1, <1>2, <1>5, <1>9, <2>4, QuietUnique
  <2> QED
    BY <2>3, <2>5
<1>10. /\ age' \in [Request -> Vertex \cup {None}] /\ todo' \in [Request -> SUBSET Item]
       /\ made' \in [Request -> SUBSET Vertex] /\ "link" \in PC \ {"idle"}
  BY <1>1, <1>2, <1>4 DEF ControlOK, PC
<1> QED
  BY <1>1, <1>5, <1>6, <1>7, <1>8, <1>9, <1>10, StepInv DEF Ended

LEMMA CreateScenarioInv ==
  ASSUME IInv, NEW r \in Request, CreateScenario(r)
  PROVE  IInv'
<1> DEFINE n == NewScenario(r)
<1>1. /\ pc[r] = "create" /\ op[r] = "saveScenario" /\ Goto(r, "link") /\ Executes(r)
      /\ Create(n, attr[r]) /\ age' = [age EXCEPT ![r] = n]
      /\ UNCHANGED <<edges, todo, made>>
  BY DEF CreateScenario
<1>2. GraphOK /\ ControlOK /\ (~overlap => Unique /\ StillSo(r)) /\ HeldOK(r) /\ GivenOK(r)
  BY TypeParts DEF IInv, SerialUnique, Unique, SerialOK
<1>3. UNCHANGED <<op, schema, target, overlap>>
  BY <1>1, <1>2, Bookkeeping
<1>4. n \in Vertex /\ n.label = "scenario" /\ n.id = target[r]
  BY <1>1, <1>2 DEF NewScenario, Vertex, Label, Id, GivenOK
<1>5. GraphOK' /\ vertices' = vertices \cup {n}
  BY <1>1, <1>2, <1>4, AttrOK, CreateOK
<1>6. pc' = [pc EXCEPT ![r] = "link"] /\ pc'[r] = "link" /\ age'[r] = n
  BY <1>1, <1>2 DEF Goto, ControlOK
<1>7. OnlyOf(r)
  BY <1>1, <1>2, <1>6 DEF OnlyOf, ControlOK
<1>8. HeldOK(r)'
  BY <1>1, <1>2, <1>3, <1>6 DEF HeldOK, NewScenario
<1>9. ASSUME ~overlap
      PROVE  StillSo(r)' /\ Unique'
  <2>1. Match("scenario", target[r]) = {}
    BY <1>1, <1>2, <1>9 DEF StillSo
  <2>2. /\ \A l, i : Match(l, i)' \subseteq Match(l, i) \cup {n}
        /\ \A l, i : l # n.label \/ i # n.id => Match(l, i)' \subseteq Match(l, i)
        /\ \A s, b : BehaviorsOf(s, b)' \subseteq BehaviorsOf(s, b)
    BY <1>1, <1>2, <1>5, NewVertex
  <2>3. \A i : Match("schema", i)' \subseteq Match("schema", i)
    BY <1>4, <2>2
  <2>4. \A i : \/ Match("scenario", i)' \subseteq Match("scenario", i)
               \/ Match("scenario", i)' \subseteq {n}
    BY <1>4, <2>1, <2>2
  <2>5. Unique'
    BY <1>2, <1>9, <2>2, <2>3, <2>4 DEF Unique
  <2>6. StillSo(r)'
    BY <1>1, <1>3, <1>6 DEF StillSo
  <2> QED
    BY <2>5, <2>6
<1>10. /\ age' \in [Request -> Vertex \cup {None}] /\ todo' \in [Request -> SUBSET Item]
       /\ made' \in [Request -> SUBSET Vertex] /\ "link" \in PC \ {"idle"}
  BY <1>1, <1>2, <1>4 DEF ControlOK, PC
<1> QED
  BY <1>1, <1>5, <1>6, <1>7, <1>8, <1>9, <1>10, StepInv DEF Ended

(* The schema had no such behavior, and gets this one.                     *)
LEMMA LinkBehaviorInv ==
  ASSUME IInv, NEW r \in Request, LinkBehavior(r)
  PROVE  IInv'
<1> DEFINE S == Match("schema", schema[r])
           W == Here(age[r])
<1>1. /\ pc[r] = "link" /\ op[r] = "saveBehavior" /\ Goto(r, "done") /\ Executes(r)
      /\ edges' = edges \cup Pairs("HAS_BEHAVIOR", S, W) /\ UNCHANGED <<props, local>>
  BY DEF LinkBehavior
<1>2. GraphOK /\ ControlOK /\ (~overlap => Unique /\ StillSo(r)) /\ HeldOK(r)
  BY TypeParts DEF IInv, SerialUnique, Unique, SerialOK
<1>3. UNCHANGED <<op, schema, target, overlap>>
  BY <1>1, <1>2, Bookkeeping
<1>4. \A w \in W : w = age[r] /\ w.label = "behavior" /\ w.id = target[r]
  BY <1>1, <1>2 DEF HeldOK, Here, NewBehavior
<1>5. \A u \in S : u.label = "schema" /\ u.id = schema[r]
  BY DEF Match
<1>6. GraphOK' /\ vertices' = vertices
  <2>1. S \in SUBSET vertices /\ W \in SUBSET vertices /\ "HAS_BEHAVIOR" \in EdgeType
    BY DEF Match, Here, EdgeType
  <2>2. \A v \in S, w \in W : <<v.label, w.label>> \in EndsOf("HAS_BEHAVIOR")
    BY <1>4, <1>5 DEF EndsOf
  <2> QED
    BY <1>1, <1>2, <2>1, <2>2, PairsOK
<1>7. pc' = [pc EXCEPT ![r] = "done"] /\ pc'[r] = "done"
  BY <1>1, <1>2 DEF Goto, ControlOK
<1>8. OnlyOf(r) /\ HeldOK(r)' /\ StillSo(r)'
  BY <1>1, <1>2, <1>3, <1>7 DEF OnlyOf, HeldOK, StillSo, ControlOK
<1>9. ASSUME ~overlap
      PROVE  Unique'
  <2>1. BehaviorsOf(schema[r], target[r]) = {}
    BY <1>1, <1>2, <1>9 DEF StillSo
  <2>2. \A l, i : Match(l, i)' = Match(l, i)
    BY <1>6 DEF Match
  <2>3. ASSUME NEW s, NEW b, NEW v, v \in BehaviorsOf(s, b)'
        PROVE  v \in BehaviorsOf(s, b) \/ (s = schema[r] /\ b = target[r] /\ v = age[r])
    <3>1. /\ v \in vertices /\ v.label = "behavior" /\ v.id = b
          /\ \E u \in Match("schema", s) : <<"HAS_BEHAVIOR", u, v>> \in edges'
      BY <1>6, <2>2, <2>3 DEF BehaviorsOf, Under
    <3>2. PICK u \in Match("schema", s) : <<"HAS_BEHAVIOR", u, v>> \in edges'
      BY <3>1
    <3>3. CASE <<"HAS_BEHAVIOR", u, v>> \in edges
      BY <3>1, <3>3 DEF BehaviorsOf, Under
    <3>4. CASE <<"HAS_BEHAVIOR", u, v>> \in Pairs("HAS_BEHAVIOR", S, W)
      <4>1. u \in S /\ v \in W
        BY <3>4 DEF Pairs
      <4>2. u.id = s
        BY DEF Match
      <4> QED
        BY <1>4, <1>5, <3>1, <4>1, <4>2
    <3> QED
      BY <1>1, <3>2, <3>3, <3>4
  <2>4. \A s, b : \/ BehaviorsOf(s, b)' \subseteq BehaviorsOf(s, b)
                  \/ BehaviorsOf(s, b)' \subseteq {age[r]}
    BY <2>1, <2>3
  <2> QED
    BY <1>2, <1>9, <2>2, <2>4 DEF Unique
<1>10. /\ age' \in [Request -> Vertex \cup {None}] /\ todo' \in [Request -> SUBSET Item]
       /\ made' \in [Request -> SUBSET Vertex] /\ "done" \in PC \ {"idle"}
  BY <1>1, <1>2 DEF ControlOK, PC
<1> QED
  BY <1>1, <1>6, <1>7, <1>8, <1>9, <1>10, StepInv DEF Ended

LEMMA LinkScenarioInv ==
  ASSUME IInv, NEW r \in Request, LinkScenario(r)
  PROVE  IInv'
<1> DEFINE S == Match("schema", schema[r])
           W == Here(age[r])
<1>1. /\ pc[r] = "link" /\ op[r] = "saveScenario" /\ Goto(r, "done") /\ Executes(r)
      /\ edges' = edges \cup Pairs("HAS_SCENARIO", S, W) /\ UNCHANGED <<props, local>>
  BY DEF LinkScenario
<1>2. GraphOK /\ HeldOK(r)
  BY TypeParts DEF IInv
<1>3. GraphOK' /\ vertices' = vertices
  <2>1. S \in SUBSET vertices /\ W \in SUBSET vertices /\ "HAS_SCENARIO" \in EdgeType
    BY DEF Match, Here, EdgeType
  <2>2. \A v \in S, w \in W : v.label = "schema" /\ w.label = "scenario"
    BY <1>1, <1>2 DEF HeldOK, Match, Here, NewScenario
  <2>3. \A v \in S, w \in W : <<v.label, w.label>> \in EndsOf("HAS_SCENARIO")
    BY <2>2 DEF EndsOf
  <2> QED
    BY <1>1, <1>2, <2>1, <2>3, PairsOK
<1>4. \A e \in edges' : e[1] = "HAS_BEHAVIOR" => e \in edges
  BY <1>1 DEF Pairs
<1> QED
  BY <1>1, <1>3, <1>4, PlainStep DEF Ended

(* One link of the batch, made or skipped.                                 *)
LEMMA CreateFieldLinkInv ==
  ASSUME IInv, NEW r \in Request, NEW l \in FieldLink, CreateFieldLink(r, l)
  PROVE  IInv'
<1>1. /\ pc[r] = "links" /\ todo' = [todo EXCEPT ![r] = @ \ {l}] /\ UNCHANGED <<age, made>>
      /\ Goto(r, "done") \/ Goto(r, "links")
      /\ \/ edges' = edges \cup Linked(l) /\ UNCHANGED props /\ Executes(r)
         \/ Raises(r)
  BY DEF CreateFieldLink
<1>2. GraphOK /\ ControlOK /\ \A v \in made[r] : v.label \in NodeLabels(op[r])
  BY TypeParts DEF IInv, HeldOK
<1>3. /\ todo' \in [Request -> SUBSET Item] /\ made' \in [Request -> SUBSET Vertex]
      /\ \A q \in Request \ {r} : todo'[q] = todo[q] /\ made'[q] = made[q]
  BY <1>1, <1>2 DEF ControlOK
<1>4. GraphOK' /\ vertices' = vertices /\ \A e \in edges' : e[1] = "HAS_BEHAVIOR" => e \in edges
  <2>1. CASE edges' = edges \cup Linked(l) /\ UNCHANGED props
    <3> DEFINE V == Match(LabelOfEnd(l[1]), l[1])
               W == Match(LabelOfEnd(l[3]), l[3])
    <3>1. V \in SUBSET vertices /\ W \in SUBSET vertices
      BY DEF Match
    <3>2. \/ l[2] = "READS_FIELD" /\ l[1] \in NodeId /\ l[3] \in Behavior
          \/ l[2] = "PREDICTS_FIELD" /\ l[1] \in Behavior /\ l[3] \in NodeId
      BY DEF FieldLink
    <3>3. \A i \in NodeId : LabelOfEnd(i) = "type"
      BY DEF LabelOfEnd
    <3>4. \A i \in Behavior : LabelOfEnd(i) = "behavior"
      BY DEF LabelOfEnd
    <3>5. \A v \in V, w \in W : v.label = LabelOfEnd(l[1]) /\ w.label = LabelOfEnd(l[3])
      BY DEF Match
    <3>6. l[2] \in EdgeType /\ l[2] # "HAS_BEHAVIOR"
      BY <3>2 DEF EdgeType
    <3>7. \A v \in V, w \in W : <<v.label, w.label>> \in EndsOf(l[2])
      <4>1. CASE l[2] = "READS_FIELD" /\ l[1] \in NodeId /\ l[3] \in Behavior
        BY <3>3, <3>4, <3>5, <4>1 DEF EndsOf
      <4>2. CASE l[2] = "PREDICTS_FIELD" /\ l[1] \in Behavior /\ l[3] \in NodeId
        BY <3>3, <3>4, <3>5, <4>2 DEF EndsOf
      <4> QED
        BY <3>2, <4>1, <4>2
    <3>8. edges' = edges \cup Pairs(l[2], V, W)
      BY <2>1 DEF Linked
    <3>9. \A e \in Pairs(l[2], V, W) : e[1] = l[2]
      BY DEF Pairs
    <3>10. GraphOK' /\ vertices' = vertices
      <4> HIDE DEF V, W
      <4> QED
        BY <1>2, <2>1, <3>1, <3>6, <3>7, <3>8, PairsOK
    <3> QED
      BY <3>6, <3>8, <3>9, <3>10
  <2>2. CASE Raises(r)
    BY <1>2, <2>2, SameGraph, SameVertices DEF Raises
  <2> QED
    BY <1>1, <2>1, <2>2
<1>5. "done" \in PC \ {"idle", "create", "link", "createMeta", "linkNode"}
      /\ "links" \in PC \ {"idle", "create", "link", "createMeta", "linkNode"}
  BY DEF PC
<1> QED
  BY <1>1, <1>2, <1>3, <1>4, <1>5, QuietStep DEF Ended

---------------------------------------------------------------------------
(* A synchronisation.                                                      *)

LEMMA NextNodeOK ==
  ASSUME ControlOK, NEW r, NEW T, NEW M, NextNode(r, T, M), r \in Request, T \in SUBSET Item
  PROVE  /\ \E l \in {"nodes", "rels", "done"} : Goto(r, l)
         /\ todo' \in [Request -> SUBSET Item]
         /\ \A q \in Request \ {r} : todo'[q] = todo[q]
<1> DEFINE R == {e \in Rel : Ends(M, e) # {}}
<1>1. R \in SUBSET Item
  BY DEF Item
<1> HIDE DEF R
<1>2. CASE T # {}
  <2>1. todo' = [todo EXCEPT ![r] = T] /\ Goto(r, "nodes")
    BY <1>2 DEF NextNode
  <2> QED
    BY <2>1 DEF ControlOK
<1>3. CASE T = {}
  <2>1. todo' = [todo EXCEPT ![r] = R] /\ (Goto(r, "done") \/ Goto(r, "rels"))
    BY <1>3 DEF NextNode, R
  <2> QED
    BY <1>1, <2>1 DEF ControlOK
<1> QED
  BY <1>2, <1>3

LEMMA SyncLabels ==
  /\ {"nodes", "rels", "done"} \subseteq PC \ {"idle", "create", "link", "createMeta", "linkNode"}
  /\ "linkNode" \in PC \ {"idle"}
  BY DEF PC

(* MATCH found no vertex of the schema, or SET those there are.            *)
LEMMA WriteMetaInv ==
  ASSUME IInv, NEW r \in Request, WriteMeta(r)
  PROVE  IInv'
<1>1. /\ NextNode(r, todo[r], {}) /\ Executes(r) /\ UNCHANGED <<edges, age, made>>
      /\ \/ pc[r] = "setMeta" /\ SetAll(Match("schema", schema[r]), attr[r])
         \/ pc[r] = "createMeta" /\ Create(NewSchema(r), attr[r])
  BY DEF WriteMeta
<1>2. GraphOK /\ ControlOK /\ (~overlap => Unique /\ StillSo(r)) /\ HeldOK(r) /\ GivenOK(r)
  BY TypeParts DEF IInv, SerialUnique, Unique, SerialOK
<1>3. op[r] \in Writers /\ attr[r] \in Attr \cup {None} /\ \A v \in made[r] : v.label \in NodeLabels(op[r])
  BY <1>1, <1>2, AttrOK DEF HeldOK
<1>4. todo[r] \in SUBSET Item
  BY <1>2 DEF ControlOK
<1>5. /\ todo' \in [Request -> SUBSET Item] /\ \A q \in Request \ {r} : todo'[q] = todo[q]
      /\ \E l \in {"nodes", "rels", "done"} : Goto(r, l)
  BY <1>1, <1>2, <1>4, NextNodeOK
<1>6. PICK l \in {"nodes", "rels", "done"} : Goto(r, l)
  BY <1>5
<1>7. CASE pc[r] = "setMeta" /\ SetAll(Match("schema", schema[r]), attr[r])
  <2>1. GraphOK' /\ vertices' = vertices
    BY <1>1, <1>2, <1>3, <1>7, SetAllOK
  <2>2. made' \in [Request -> SUBSET Vertex]
    BY <1>1, <1>2 DEF ControlOK
  <2>3. l \in PC \ {"idle", "create", "link", "createMeta", "linkNode"}
    BY SyncLabels
  <2>4. pc[r] \notin Ended \cup {"idle"}
    BY <1>7 DEF Ended
  <2> QED
    BY <1>1, <1>3, <1>5, <1>6, <2>1, <2>2, <2>3, <2>4, QuietStep
<1>8. CASE pc[r] = "createMeta" /\ Create(NewSchema(r), attr[r])
  <2> DEFINE n == NewSchema(r)
  <2>1. n \in Vertex /\ n.label = "schema" /\ n.id = schema[r]
    BY <1>2, <1>3 DEF NewSchema, Vertex, Label, Id, GivenOK
  <2>2. GraphOK' /\ vertices' = vertices \cup {n}
    BY <1>1, <1>2, <1>3, <1>8, <2>1, CreateOK
  <2>3. UNCHANGED <<op, schema, target, overlap>>
    BY <1>1, <1>2, Bookkeeping
  <2>4. pc' = [pc EXCEPT ![r] = l] /\ pc'[r] = l /\ l \in PC \ {"idle"}
    BY <1>2, <1>6, SyncLabels DEF Goto, ControlOK
  <2>5. OnlyOf(r) /\ HeldOK(r)' /\ StillSo(r)'
    BY <1>1, <1>2, <1>3, <1>5, <2>3, <2>4 DEF OnlyOf, HeldOK, StillSo, ControlOK
  <2>6. ASSUME ~overlap
        PROVE  Unique'
    <3>1. Match("schema", schema[r]) = {}
      BY <1>2, <1>8, <2>6 DEF StillSo
    <3>2. /\ \A k, i : Match(k, i)' \subseteq Match(k, i) \cup {n}
          /\ \A k, i : k # n.label \/ i # n.id => Match(k, i)' \subseteq Match(k, i)
          /\ \A s, b : BehaviorsOf(s, b)' \subseteq BehaviorsOf(s, b)
      BY <1>1, <1>2, <2>2, NewVertex
    <3>3. \A i : Match("scenario", i)' \subseteq Match("scenario", i)
      BY <2>1, <3>2
    <3>4. \A i : \/ Match("schema", i)' \subseteq Match("schema", i)
                 \/ Match("schema", i)' \subseteq {n}
      BY <2>1, <3>1, <3>2
    <3> QED
      BY <1>2, <2>6, <3>2, <3>3, <3>4 DEF Unique
  <2>7. /\ age' \in [Request -> Vertex \cup {None}] /\ made' \in [Request -> SUBSET Vertex]
        /\ pc[r] \notin Ended \cup {"idle"}
    BY <1>1, <1>2, <1>8 DEF ControlOK, Ended
  <2> QED
    BY <1>1, <1>5, <2>2, <2>4, <2>5, <2>6, <2>7, StepInv
<1> QED
  BY <1>1, <1>7, <1>8

(* A node is created and linked, or left out of node_age_ids.              *)
LEMMA CreateNodeInv ==
  ASSUME IInv, NEW r \in Request, NEW n \in NodeId, CreateNode(r, n)
  PROVE  IInv'
<1> DEFINE v == NewNode(r, n)
<1>1. pc[r] = "nodes" /\ UNCHANGED made
  BY DEF CreateNode
<1>2. GraphOK /\ ControlOK /\ (~overlap => Unique) /\ HeldOK(r)
  BY TypeParts DEF IInv, SerialUnique, Unique
<1>3. op[r] \in Writers /\ attr[r] \in Attr \cup {None} /\ \A u \in made[r] : u.label \in NodeLabels(op[r])
  BY <1>1, <1>2, AttrOK DEF HeldOK
<1>4. pc[r] \notin Ended \cup {"idle"} /\ made' \in [Request -> SUBSET Vertex]
  BY <1>1, <1>2 DEF Ended, ControlOK
<1>5. CASE /\ Create(v, attr[r]) /\ age' = [age EXCEPT ![r] = v]
           /\ todo' = [todo EXCEPT ![r] = @ \ {n}] /\ Goto(r, "linkNode")
           /\ Executes(r) /\ UNCHANGED edges
  <2>1. v \in Vertex /\ v.label \in NodeLabels(op[r])
    BY <1>3 DEF NewNode, NodeLabel, NodeLabels, Writers, Vertex, Label, Id
  <2>2. GraphOK' /\ vertices' = vertices \cup {v}
    BY <1>2, <1>3, <1>5, <2>1, CreateOK
  <2>3. UNCHANGED <<op, schema, target, overlap>>
    BY <1>2, <1>5, Bookkeeping
  <2>4. pc' = [pc EXCEPT ![r] = "linkNode"] /\ pc'[r] = "linkNode" /\ age'[r] = v
    BY <1>2, <1>5 DEF Goto, ControlOK
  <2>5. OnlyOf(r) /\ HeldOK(r)' /\ StillSo(r)'
    BY <1>1, <1>2, <1>3, <1>5, <2>1, <2>3, <2>4 DEF OnlyOf, HeldOK, StillSo, ControlOK
  <2>6. v.label \notin {"schema", "scenario"}
    BY <2>1 DEF NodeLabels
  <2>7. ~overlap => Unique'
    BY <1>2, <1>5, <2>2, <2>6, QuietUnique
  <2>8. age' \in [Request -> Vertex \cup {None}] /\ todo' \in [Request -> SUBSET Item]
    BY <1>2, <1>5, <2>1 DEF ControlOK
  <2> QED
    BY <1>4, <1>5, <2>2, <2>4, <2>5, <2>7, <2>8, SyncLabels, StepInv
<1>6. CASE Raises(r) /\ NextNode(r, todo[r] \ {n}, made[r]) /\ UNCHANGED age
  <2>1. todo[r] \ {n} \in SUBSET Item
    BY <1>2 DEF ControlOK
  <2>2. /\ todo' \in [Request -> SUBSET Item] /\ \A q \in Request \ {r} : todo'[q] = todo[q]
        /\ \E l \in {"nodes", "rels", "done"} : Goto(r, l)
    BY <1>2, <1>6, <2>1, NextNodeOK
  <2>3. PICK l \in {"nodes", "rels", "done"} : Goto(r, l)
    BY <2>2
  <2>4. GraphOK' /\ vertices' = vertices /\ edges' = edges
    BY <1>2, <1>6, SameGraph, SameVertices DEF Raises
  <2>5. l \in PC \ {"idle", "create", "link", "createMeta", "linkNode"}
    BY SyncLabels
  <2> QED
    BY <1>1, <1>3, <1>4, <1>6, <2>2, <2>3, <2>4, <2>5, QuietStep
<1> QED
  BY <1>5, <1>6 DEF CreateNode

LEMMA LinkNodeInv ==
  ASSUME IInv, NEW r \in Request, LinkNode(r)
  PROVE  IInv'
<1> DEFINE S == Match("schema", schema[r])
           W == Here(age[r])
<1>1. /\ pc[r] = "linkNode" /\ NextNode(r, todo[r], made'[r]) /\ UNCHANGED age
      /\ \/ /\ edges' = edges \cup Pairs("HAS_NODE", S, W) /\ UNCHANGED props
            /\ made' = [made EXCEPT ![r] = @ \cup {age[r]}] /\ Executes(r)
         \/ Raises(r) /\ UNCHANGED made
  BY DEF LinkNode
<1>2. GraphOK /\ ControlOK /\ HeldOK(r)
  BY TypeParts DEF IInv
<1>3. /\ op[r] \in Writers /\ age[r] \in Vertex /\ age[r].label \in NodeLabels(op[r])
      /\ \A v \in made[r] : v.label \in NodeLabels(op[r])
  BY <1>1, <1>2 DEF HeldOK
<1>4. todo[r] \in SUBSET Item /\ pc[r] \notin Ended \cup {"idle"}
  BY <1>1, <1>2 DEF ControlOK, Ended
<1>5. /\ todo' \in [Request -> SUBSET Item] /\ \A q \in Request \ {r} : todo'[q] = todo[q]
      /\ \E l \in {"nodes", "rels", "done"} : Goto(r, l)
  BY <1>1, <1>2, <1>4, NextNodeOK
<1>6. PICK l \in {"nodes", "rels", "done"} : Goto(r, l)
  BY <1>5
<1>7. /\ made' \in [Request -> SUBSET Vertex] /\ \A q \in Request \ {r} : made'[q] = made[q]
      /\ \A v \in made'[r] : v.label \in NodeLabels(op[r])
  <2>1. CASE made' = [made EXCEPT ![r] = @ \cup {age[r]}]
    BY <1>2, <1>3, <2>1 DEF ControlOK
  <2>2. CASE UNCHANGED made
    BY <1>2, <1>3, <2>2 DEF ControlOK
  <2> QED
    BY <1>1, <2>1, <2>2
<1>8. GraphOK' /\ vertices' = vertices /\ \A e \in edges' : e[1] = "HAS_BEHAVIOR" => e \in edges
  <2>1. CASE edges' = edges \cup Pairs("HAS_NODE", S, W) /\ UNCHANGED props
    <3>1. S \in SUBSET vertices /\ W \in SUBSET vertices /\ "HAS_NODE" \in EdgeType
      BY DEF Match, Here, EdgeType
    <3>2. \A v \in S, w \in W : v.label = "schema" /\ w.label \in NodeLabels(op[r])
      BY <1>3 DEF Match, Here
    <3>3. \A v \in S, w \in W : <<v.label, w.label>> \in EndsOf("HAS_NODE")
      BY <3>2 DEF EndsOf, NodeLabels
    <3>4. GraphOK' /\ vertices' = vertices
      <4> HIDE DEF S, W
      <4> QED
        BY <1>2, <2>1, <3>1, <3>3, PairsOK
    <3> QED
      BY <2>1, <3>4 DEF Pairs
  <2>2. CASE Raises(r)
    BY <1>2, <2>2, SameGraph, SameVertices DEF Raises
  <2> QED
    BY <1>1, <2>1, <2>2
<1>9. l \in PC \ {"idle", "create", "link", "createMeta", "linkNode"}
  BY SyncLabels
<1> QED
  BY <1>1, <1>3, <1>4, <1>5, <1>6, <1>7, <1>8, <1>9, QuietStep

LEMMA CreateRelationshipInv ==
  ASSUME IInv, NEW r \in Request, NEW e \in Rel, CreateRelationship(r, e)
  PROVE  IInv'
<1> DEFINE P == Ends(made[r], e) \cap (vertices \X vertices)
           E == {<<RelType(op[r]), p[1], p[2]>> : p \in P}
<1>1. /\ pc[r] = "rels" /\ todo' = [todo EXCEPT ![r] = @ \ {e}] /\ UNCHANGED <<age, made>>
      /\ Goto(r, "done") \/ Goto(r, "rels")
      /\ \/ edges' = edges \cup E /\ UNCHANGED props /\ Executes(r)
         \/ Raises(r)
  BY DEF CreateRelationship
<1>2. GraphOK /\ ControlOK /\ HeldOK(r)
  BY TypeParts DEF IInv
<1>3. op[r] \in Writers /\ \A v \in made[r] : v.label \in NodeLabels(op[r])
  BY <1>1, <1>2 DEF HeldOK
<1>4. /\ todo' \in [Request -> SUBSET Item] /\ made' \in [Request -> SUBSET Vertex]
      /\ \A q \in Request \ {r} : todo'[q] = todo[q] /\ made'[q] = made[q]
      /\ \A v \in made'[r] : v.label \in NodeLabels(op[r])
  BY <1>1, <1>2, <1>3 DEF ControlOK
<1>5. GraphOK' /\ vertices' = vertices /\ \A x \in edges' : x[1] = "HAS_BEHAVIOR" => x \in edges
  <2>1. CASE edges' = edges \cup E /\ UNCHANGED props
    <3>1. ASSUME NEW x \in E
          PROVE  /\ x \in Edge /\ x[1] = RelType(op[r]) /\ x[2] \in vertices /\ x[3] \in vertices
                 /\ <<x[2].label, x[3].label>> \in EndsOf(x[1])
      <4>1. PICK p \in P : x = <<RelType(op[r]), p[1], p[2]>>
        OBVIOUS
      <4>2. p[1] \in made[r] /\ p[2] \in made[r] /\ p[1] \in vertices /\ p[2] \in vertices
        BY DEF Ends
      <4>3. p[1].label \in NodeLabels(op[r]) /\ p[2].label \in NodeLabels(op[r])
        BY <1>3, <4>2
      <4>4. x[1] = RelType(op[r]) /\ x[2] = p[1] /\ x[3] = p[2]
        BY <4>1
      <4>5. <<x[2].label, x[3].label>> \in EndsOf(x[1])
        BY <1>3, <4>3, <4>4 DEF EndsOf, NodeLabels, RelType, Writers
      <4>6. x \in Edge
        BY <1>2, <4>1, <4>2 DEF Edge, EdgeType, GraphOK, RelType
      <4> QED
        BY <4>2, <4>4, <4>5, <4>6
    <3> HIDE DEF E
    <3>2. GraphOK' /\ vertices' = vertices
      BY <1>2, <2>1, <3>1, EdgesOK
    <3> QED
      BY <2>1, <3>1, <3>2 DEF RelType
  <2>2. CASE Raises(r)
    BY <1>2, <2>2, SameGraph, SameVertices DEF Raises
  <2> QED
    BY <1>1, <2>1, <2>2
<1>6. pc[r] \notin Ended \cup {"idle"}
  BY <1>1 DEF Ended
<1>7. "done" \in PC \ {"idle", "create", "link", "createMeta", "linkNode"}
      /\ "rels" \in PC \ {"idle", "create", "link", "createMeta", "linkNode"}
  BY SyncLabels
<1> HIDE DEF E
<1> QED
  BY <1>1, <1>3, <1>4, <1>5, <1>6, <1>7, QuietStep

---------------------------------------------------------------------------
(* All together.                                                           *)

LEMMA InitInv == Init => IInv
<1> SUFFICES ASSUME Init PROVE IInv
  OBVIOUS
<1>1. vertices = Given /\ edges = GivenEdges /\ props = [v \in Given |-> None]
  BY DEF Init, vertices
<1>2. GraphOK
  BY <1>1 DEF GraphOK, GraphIntegrity
<1>3. ControlOK
  <2>1. faults \in 0..MaxFaults
    BY DEF Init, GraphAssumption
  <2>2. pc \in [Request -> PC]
    BY DEF Init, PC
  <2>3. /\ op \in [Request -> Op \cup {None}] /\ schema \in [Request -> Schema \cup {None}]
        /\ target \in [Request -> Id \cup {None}] /\ attr \in [Request -> Attr \cup {None}]
        /\ age \in [Request -> Vertex \cup {None}]
    BY DEF Init
  <2>4. /\ todo \in [Request -> SUBSET Item] /\ made \in [Request -> SUBSET Vertex]
        /\ clean \in [Request -> BOOLEAN] /\ overlap \in BOOLEAN
    BY DEF Init
  <2> QED
    BY <2>1, <2>2, <2>3, <2>4 DEF ControlOK
<1>4. TypeOK /\ GraphIntegrity
  BY <1>2, <1>3, TypeParts DEF TypeOK, GraphOK, ControlOK
<1>5. ASSUME NEW r \in Request
      PROVE  pc[r] = "idle" /\ op[r] = None /\ made[r] = {} /\ None \notin Op
  BY DEF Init, GraphAssumption
<1>6. \A r \in Request : GivenOK(r)
  BY <1>5 DEF GivenOK, Op, Writers
<1>7. \A r \in Request : HeldOK(r)
  BY <1>5 DEF HeldOK
<1>8. SerialOK
  BY <1>5 DEF SerialOK, StillSo, InFlight
<1>9. \A v, w \in Given : v.label = w.label /\ v.id = w.id => v = w
  BY DEF Vertex, GivenAssumption
<1>10. SerialUnique
  BY <1>1, <1>9 DEF SerialUnique, Match, BehaviorsOf, Under
<1> QED
  BY <1>4, <1>6, <1>7, <1>8, <1>10 DEF IInv

LEMMA NextInv == IInv /\ [Next]_vars => IInv'
<1> SUFFICES ASSUME IInv, [Next]_vars PROVE IInv'
  OBVIOUS
<1>1. ASSUME NEW r \in Request, Call(r)
      PROVE  IInv'
  BY <1>1, CallInv DEF Call
<1>2. ASSUME NEW r \in Request, BehaviorStep(r)
      PROVE  IInv'
  BY <1>2, MatchBehaviorInv, UnlinkFieldsInv, SetInv, CreateBehaviorInv, LinkBehaviorInv,
     CreateFieldLinkInv, DropInv DEF BehaviorStep
<1>3. ASSUME NEW r \in Request, ScenarioStep(r)
      PROVE  IInv'
  BY <1>3, MatchScenarioInv, SetInv, CreateScenarioInv, LinkScenarioInv, DropInv
     DEF ScenarioStep
<1>4. ASSUME NEW r \in Request, RepositoryStep(r)
      PROVE  IInv'
  BY <1>4, DeleteExistingNodesInv, MatchMetaInv, WriteMetaInv, CreateNodeInv, LinkNodeInv,
     CreateRelationshipInv, DropInv, SetInv DEF RepositoryStep
<1>5. ASSUME NEW r \in Request, SchemaStep(r)
      PROVE  IInv'
  BY <1>5, SchemaClearsInv, DropInv DEF SchemaStep
<1>6. ASSUME NEW r \in Request, Step(r)
      PROVE  IInv'
  BY <1>2, <1>3, <1>4, <1>5, <1>6, FailsInv DEF Step
<1>7. CASE UNCHANGED vars
  <2>1. vertices' = vertices
    BY <1>7 DEF vars, vertices
  <2>2. TypeOK' /\ GraphIntegrity'
    BY <1>7, <2>1 DEF IInv, TypeOK, GraphIntegrity, vars
  <2>3. \A r \in Request : GivenOK(r)' /\ HeldOK(r)'
    BY <1>7 DEF IInv, GivenOK, HeldOK, NewBehavior, NewScenario, vars
  <2>4. InFlight' = InFlight /\ \A r \in Request : StillSo(r)' = StillSo(r)
    BY <1>7, <2>1 DEF InFlight, StillSo, BehaviorsOf, Under, Match, vars
  <2>5. SerialOK'
    BY <1>7, <2>4 DEF IInv, SerialOK, vars
  <2>6. SerialUnique'
    BY <1>7, <2>1, SameGraph DEF IInv, SerialUnique, Unique, vars
  <2> QED
    BY <2>2, <2>3, <2>5, <2>6 DEF IInv
<1> QED
  BY <1>1, <1>6, <1>7 DEF Next

(* Every reachable state satisfies the inductive invariant.                *)
THEOREM Invariant == Spec => []IInv
  BY InitInv, NextInv, PTL DEF Spec

(* The graph and the coroutines keep their types.                          *)
THEOREM TypeCorrect == Spec => []TypeOK
<1>1. IInv => TypeOK
  BY DEF IInv
<1> QED
  BY <1>1, Invariant, PTL

(* No edge dangles or joins vertices of the wrong kinds, however the calls *)
(* of the four stores interleave.                                          *)
THEOREM EdgesInPlace == Spec => []GraphIntegrity
<1>1. IInv => GraphIntegrity
  BY DEF IInv
<1> QED
  BY <1>1, Invariant, PTL

(* MATCH-or-CREATE makes no duplicate unless two calls overlapped, be some *)
(* of them cut short by a statement that raised.                           *)
THEOREM OneVertexPerId == Spec => []SerialUnique
<1>1. IInv => SerialUnique
  BY DEF IInv
<1> QED
  BY <1>1, Invariant, PTL

(* The two readers of a schema's field links agree wherever the ids of its *)
(* behaviors are theirs alone.                                             *)
LEMMA SameLinks ==
  ASSUME GraphIntegrity, NEW s,
         \A v \in Under(s, "HAS_BEHAVIOR", "behavior") : Match("behavior", v.id) = {v}
  PROVE  BehaviorLinks(s) = ModelLinks(s)
<1> DEFINE M == Under(s, "HAS_BEHAVIOR", "behavior")
<1>1. \A v \in M : v \in vertices /\ v.label = "behavior"
  BY DEF Under
<1>2. \A v \in vertices, m \in M : v.label = "behavior" /\ v.id = m.id => v = m
  BY DEF Match
<1>3. ASSUME NEW x \in BehaviorLinks(s)
      PROVE  x \in ModelLinks(s)
  <2>1. PICK m \in M :
          \/ \E i \in InputsOf(m.id) : x = <<i, "READS_FIELD", m.id>>
          \/ \E i \in OutputsOf(m.id) : x = <<m.id, "PREDICTS_FIELD", i>>
    BY DEF BehaviorLinks
  <2>2. CASE \E i \in InputsOf(m.id) : x = <<i, "READS_FIELD", m.id>>
    <3>1. PICK e \in edges : /\ e[1] = "READS_FIELD" /\ e[2].label = "type"
                             /\ e[3].label = "behavior" /\ e[3].id = m.id
                             /\ x = <<e[2].id, e[1], e[3].id>>
      BY <2>2 DEF InputsOf
    <3>2. e[3] \in vertices
      BY DEF GraphIntegrity
    <3>3. e[3] = m
      BY <1>2, <3>1, <3>2
    <3> QED
      BY <3>1, <3>3 DEF ModelLinks
  <2>3. CASE \E i \in OutputsOf(m.id) : x = <<m.id, "PREDICTS_FIELD", i>>
    <3>1. PICK e \in edges : /\ e[1] = "PREDICTS_FIELD" /\ e[3].label = "type"
                             /\ e[2].label = "behavior" /\ e[2].id = m.id
                             /\ x = <<e[2].id, e[1], e[3].id>>
      BY <2>3 DEF OutputsOf
    <3>2. e[2] \in vertices
      BY DEF GraphIntegrity
    <3>3. e[2] = m
      BY <1>2, <3>1, <3>2
    <3> QED
      BY <3>1, <3>3 DEF ModelLinks
  <2> QED
    BY <2>1, <2>2, <2>3
<1>4. ASSUME NEW x \in ModelLinks(s)
      PROVE  x \in BehaviorLinks(s)
  <2>1. PICK e \in edges : /\ x = <<e[2].id, e[1], e[3].id>>
                           /\ \/ e[1] = "READS_FIELD" /\ e[2].label = "type" /\ e[3] \in M
                              \/ e[1] = "PREDICTS_FIELD" /\ e[2] \in M /\ e[3].label = "type"
    BY DEF ModelLinks
  <2>2. CASE e[1] = "READS_FIELD" /\ e[2].label = "type" /\ e[3] \in M
    <3>1. e[2].id \in InputsOf(e[3].id) /\ x = <<e[2].id, "READS_FIELD", e[3].id>>
      BY <1>1, <2>1, <2>2 DEF InputsOf
    <3> QED
      BY <2>2, <3>1 DEF BehaviorLinks
  <2>3. CASE e[1] = "PREDICTS_FIELD" /\ e[2] \in M /\ e[3].label = "type"
    <3>1. e[3].id \in OutputsOf(e[2].id) /\ x = <<e[2].id, "PREDICTS_FIELD", e[3].id>>
      BY <1>1, <2>1, <2>3 DEF OutputsOf
    <3> QED
      BY <2>3, <3>1 DEF BehaviorLinks
  <2> QED
    BY <2>1, <2>2, <2>3
<1> QED
  BY <1>3, <1>4

(* get_behaviors_for_schema and get_model_graph list the same field links, *)
(* as long as no second behavior vertex has an id of the schema's.         *)
THEOREM SameFieldLinks == Spec => []ReadersAgree
<1>1. IInv => ReadersAgree
  BY SameLinks DEF IInv, ReadersAgree
<1> QED
  BY <1>1, Invariant, PTL
---------------------------------------------------------------------------
(* Calls that nobody disturbed.                                            *)

(* The work of a call at its present statement.                            *)
Work(r) == BehaviorWork(r) /\ ScenarioWork(r) /\ SyncWork(r)

(* A scenario stands for the call that created it.                         *)
Keeps(q) ==
  op[q] = "saveScenario" /\ pc[q] \in {"link", "done", "failed"} =>
    /\ op'[q] = op[q] /\ schema'[q] = schema[q] /\ target'[q] = target[q]
    /\ pc'[q] = pc[q] \/ pc'[q] = "failed"

(* Statements that neither create a scenario nor end a call that did,      *)
(* except by failing.                                                      *)
LEMMA ScenariosStay ==
  ASSUME GraphOK, ScenariosOK, \A q \in Request : Keeps(q),
         \A v \in vertices' : v \in vertices \/ (v.label # "scenario" /\ v.by # None),
         \A e \in edges : e[1] = "HAS_SCENARIO" /\ e[2] \in vertices' /\ e[3] \in vertices'
                            => e \in edges'
  PROVE  ScenariosOK'
<1> SUFFICES ASSUME NEW v \in vertices', v.label = "scenario", v.by # None
             PROVE  /\ op'[v.by] = "saveScenario" /\ pc'[v.by] \in {"link", "done", "failed"}
                    /\ v.id = target'[v.by]
                    /\ pc'[v.by] = "done" =>
                         \A u \in Match("schema", schema[v.by])' :
                           u.by = None => <<"HAS_SCENARIO", u, v>> \in edges'
  BY DEF ScenariosOK
<1>1. v \in vertices
  OBVIOUS
<1>2. v \in Vertex
  BY <1>1 DEF GraphOK
<1>3. v.by \in Request
  BY <1>2 DEF Vertex
<1>4. /\ op[v.by] = "saveScenario" /\ pc[v.by] \in {"link", "done", "failed"}
      /\ v.id = target[v.by]
      /\ pc[v.by] = "done" =>
           \A u \in Match("schema", schema[v.by]) :
             u.by = None => <<"HAS_SCENARIO", u, v>> \in edges
  BY <1>1 DEF ScenariosOK
<1>5. /\ op'[v.by] = op[v.by] /\ schema'[v.by] = schema[v.by] /\ target'[v.by] = target[v.by]
      /\ pc'[v.by] = pc[v.by] \/ pc'[v.by] = "failed"
  BY <1>3, <1>4 DEF Keeps
<1>6. ASSUME pc'[v.by] = "done", NEW u \in Match("schema", schema[v.by])', u.by = None
      PROVE  <<"HAS_SCENARIO", u, v>> \in edges'
  <2>1. u \in vertices' /\ u.label = "schema" /\ u.id = schema[v.by]
    BY <1>5, <1>6 DEF Match
  <2>2. u \in Match("schema", schema[v.by])
    BY <1>6, <2>1 DEF Match
  <2>3. <<"HAS_SCENARIO", u, v>> \in edges
    BY <1>4, <1>5, <1>6, <2>2
  <2>4. PICK e \in edges : e = <<"HAS_SCENARIO", u, v>>
    BY <2>3
  <2>5. e[1] = "HAS_SCENARIO" /\ e[2] = u /\ e[3] = v
    BY <2>4
  <2> QED
    BY <2>1, <2>4, <2>5
<1> QED
  BY <1>4, <1>5, <1>6

(* A step of r leaves every other call disturbed.                          *)
LEMMA StepClean ==
  ASSUME CleanInv, NEW r \in Request, r \in InFlight, IInv',
         NEW l \in PC \ {"idle"}, pc' = [pc EXCEPT ![r] = l],
         \A q \in Request : clean'[q] => clean[q],
         ScenariosOK', UNCHANGED op, MethodOK(r)',
         clean'[r] => Work(r)'
  PROVE  CleanInv'
<1>1. ControlOK
  BY TypeParts DEF CleanInv, IInv
<1>2. pc'[r] = l /\ \A q \in Request \ {r} : pc'[q] = pc[q]
  BY <1>1 DEF ControlOK
<1>3. InFlight' \subseteq InFlight
  BY <1>2 DEF InFlight
<1>4. AloneOK'
  BY <1>3 DEF CleanInv, AloneOK
<1>5. ASSUME NEW q \in Request \ {r}
      PROVE  WorkOK(q)'
  <2>1. ~clean'[q]
    BY DEF CleanInv, AloneOK
  <2>2. MethodOK(q)'
    BY <1>2 DEF CleanInv, WorkOK, MethodOK
  <2> QED
    BY <2>1, <2>2 DEF WorkOK
<1>6. WorkOK(r)'
  BY <1>2 DEF WorkOK, Work
<1> QED
  BY <1>4, <1>5, <1>6 DEF CleanInv

(* A call that starts: the only clean one, if it is.                       *)
LEMMA StartClean ==
  ASSUME CleanInv, NEW r \in Request, IInv',
         NEW l \in {"match", "links", "set", "clear", "clearTypes", "dropTypes", "done"},
         pc' = [pc EXCEPT ![r] = l],
         NEW o, NEW s, NEW i, NEW a, Starts(r, o, s, i, a),
         o \in {"saveBehavior", "saveScenario"} => l = "match",
         o = "sync" => l = "clear", l = "links" => o = "saveLinks",
         l = "clearTypes" => o = "saveSchema", l = "dropTypes" => o = "deleteSchema",
         ScenariosOK'
  PROVE  CleanInv'
<1>1. ControlOK
  BY TypeParts DEF CleanInv, IInv
<1>2. /\ op' = [op EXCEPT ![r] = o] /\ pc[r] = "idle" /\ UNCHANGED made
      /\ clean' = [q \in Request |-> q = r /\ InFlight = {}]
  BY DEF Starts
<1>3. /\ pc'[r] = l /\ op'[r] = o /\ \A q \in Request \ {r} : pc'[q] = pc[q]
  BY <1>1, <1>2 DEF ControlOK
<1>4. \A q \in Request : clean'[q] => q = r /\ InFlight = {}
  BY <1>2
<1>5. InFlight' \subseteq InFlight \cup {r}
  BY <1>3 DEF InFlight
<1>6. AloneOK'
  BY <1>4, <1>5 DEF AloneOK
<1>7. made[r] = {}
  BY <1>2 DEF CleanInv, IInv, HeldOK
<1>8. ASSUME NEW q \in Request
      PROVE  WorkOK(q)'
  <2>1. CASE q = r
    BY <1>2, <1>3, <1>7, <2>1 DEF WorkOK, MethodOK, BehaviorWork, ScenarioWork, SyncWork
  <2>2. CASE q # r
    <3>1. op'[q] = op[q]
      BY <1>1, <1>2, <2>2 DEF ControlOK
    <3> QED
      BY <1>2, <1>3, <1>4, <2>2, <3>1 DEF CleanInv, WorkOK, MethodOK
  <2> QED
    BY <2>1, <2>2
<1> QED
  BY <1>6, <1>8 DEF CleanInv
(* ... and executes no statement before its first await.                   *)
LEMMA BeginClean ==
  ASSUME CleanInv, NEW r \in Request, IInv',
         NEW o, NEW s, NEW i, NEW a, Begin(r, o, s, i, a),
         NEW l \in {"match", "links", "set", "clear", "clearTypes", "dropTypes", "done"}, Goto(r, l),
         o \in {"saveBehavior", "saveScenario"} => l = "match",
         o = "sync" => l = "clear", l = "links" => o = "saveLinks",
         l = "clearTypes" => o = "saveSchema", l = "dropTypes" => o = "deleteSchema"
  PROVE  CleanInv'
<1>1. GraphOK /\ ControlOK /\ ScenariosOK
  BY TypeParts DEF CleanInv, IInv
<1>2. Starts(r, o, s, i, a) /\ UNCHANGED <<props, edges>> /\ pc' = [pc EXCEPT ![r] = l]
  BY DEF Begin, Goto
<1>3. vertices' = vertices
  BY <1>2, SameVertices
<1>4. \A q \in Request : Keeps(q)
  BY <1>1, <1>2 DEF Keeps, Starts, ControlOK
<1>5. ScenariosOK'
  BY <1>1, <1>2, <1>3, <1>4, ScenariosStay
<1> QED
  BY <1>2, <1>5, StartClean

LEMMA CallClean ==
  ASSUME CleanInv, NEW r \in Request, Call(r), IInv'
  PROVE  CleanInv'
<1>2. ASSUME NEW s \in Schema, NEW b \in Behavior, NEW a \in Attr, SaveBehavior(r, s, b, a)
      PROVE  CleanInv'
  BY <1>2, BeginClean DEF SaveBehavior
<1>3. CASE SaveModelFieldLinks(r, Links)
  <2>1. Begin(r, "saveLinks", None, None, None) /\ (Goto(r, "done") \/ Goto(r, "links"))
    BY <1>3 DEF SaveModelFieldLinks
  <2> QED
    BY <2>1, BeginClean
<1>4. ASSUME NEW b \in Behavior, NEW a \in Attr, UpdateModelStatus(r, b, a)
      PROVE  CleanInv'
  BY <1>4, BeginClean DEF UpdateModelStatus
<1>5. ASSUME NEW s \in Schema \cup {None}, NEW b \in Behavior, DeleteBehavior(r, s, b)
      PROVE  CleanInv'
  BY <1>5, BeginClean DEF DeleteBehavior
<1>6. ASSUME NEW s \in Schema, NEW c \in Scenario, NEW a \in Attr, SaveScenario(r, s, c, a)
      PROVE  CleanInv'
  BY <1>6, BeginClean DEF SaveScenario
<1>7. ASSUME NEW c \in Scenario, DeleteScenario(r, c)
      PROVE  CleanInv'
  BY <1>7, BeginClean DEF DeleteScenario
<1>8. ASSUME NEW s \in Schema, NEW D \in Document, NEW a \in Attr, SyncOntologySchema(r, s, D, a)
      PROVE  CleanInv'
  BY <1>8, BeginClean DEF SyncOntologySchema
<1>9. ASSUME NEW i \in Touched, DeleteNodeById(r, i)
      PROVE  CleanInv'
  BY <1>9, BeginClean DEF DeleteNodeById
<1>10. ASSUME NEW i \in Touched, NEW a \in Attr, UpdateNodeProperties(r, i, a)
       PROVE  CleanInv'
  BY <1>10, BeginClean DEF UpdateNodeProperties
<1>11. ASSUME NEW s \in Schema, NEW D \in Document, NEW a \in Attr, SaveSchema(r, s, D, a)
       PROVE  CleanInv'
  BY <1>11, BeginClean DEF SaveSchema
<1>12. ASSUME NEW s \in Schema, DeleteSchema(r, s)
       PROVE  CleanInv'
  BY <1>12, BeginClean DEF DeleteSchema
<1> QED
  BY <1>2, <1>3, <1>4, <1>5, <1>6, <1>7, <1>8, <1>9, <1>10, <1>11, <1>12 DEF Call

---------------------------------------------------------------------------
(* The statements of the calls.                                            *)

(* What a statement that may also raise leaves, and what it does not.      *)
LEMMA Undisturbed ==
  ASSUME CleanInv, NEW r \in Request, Executes(r) \/ Raises(r)
  PROVE  /\ UNCHANGED <<op, schema, target, attr, overlap>>
         /\ \A q \in Request : clean'[q] => clean[q]
         /\ clean'[r] => Executes(r)
         /\ Raises(r) => UNCHANGED <<props, edges>>
<1>1. ControlOK
  BY TypeParts DEF CleanInv, IInv
<1>2. CASE Executes(r)
  <2>1. UNCHANGED <<op, schema, target, attr, clean, overlap>>
    BY <1>2 DEF Executes
  <2>2. faults' = faults
    BY <1>2 DEF Executes
  <2>3. ~Raises(r)
    BY <1>1, <2>2 DEF Raises, ControlOK
  <2> QED
    BY <1>2, <2>1, <2>3
<1>3. CASE Raises(r)
  BY <1>1, <1>3 DEF Raises, ControlOK
<1> QED
  BY <1>2, <1>3

(* A statement of a call other than the creation of a scenario and its     *)
(* link.                                                                   *)
LEMMA StatementClean ==
  ASSUME CleanInv, NEW r \in Request, r \in InFlight, IInv',
         NEW l \in PC \ {"idle"}, Goto(r, l), Executes(r) \/ Raises(r),
         pc[r] = "link" => op[r] # "saveScenario" \/ l = "failed",
         l \in {"unlinkReads", "unlinkPredicts"} => op[r] = "saveBehavior",
         l = "links" => op[r] = "saveLinks",
         l \in {"clearTypes", "clearNodes"} => op[r] = "saveSchema",
         l \in {"dropTypes", "dropNodes", "dropBehaviors", "dropSchema"} =>
           op[r] = "deleteSchema",
         \A v \in vertices' : v \in vertices \/ (v.label # "scenario" /\ v.by # None),
         \A e \in edges : e[1] = "HAS_SCENARIO" /\ e[2] \in vertices' /\ e[3] \in vertices'
                            => e \in edges',
         clean[r] /\ Executes(r) => Work(r)'
  PROVE  CleanInv'
<1>1. GraphOK /\ ControlOK /\ ScenariosOK
  BY TypeParts DEF CleanInv, IInv
<1>2. /\ UNCHANGED <<op, schema, target>> /\ \A q \in Request : clean'[q] => clean[q]
      /\ clean'[r] => Executes(r)
  BY Undisturbed
<1>3. pc' = [pc EXCEPT ![r] = l] /\ pc[r] \notin {"done", "failed"}
  BY DEF Goto, InFlight, Ended
<1>4. \A q \in Request : Keeps(q)
  BY <1>1, <1>2, <1>3 DEF Keeps, ControlOK
<1>5. ScenariosOK'
  BY <1>1, <1>4, ScenariosStay
<1>6. MethodOK(r)'
  BY <1>1, <1>2, <1>3 DEF MethodOK, ControlOK
<1> QED
  BY <1>2, <1>3, <1>5, <1>6, StepClean

LEMMA FailsClean ==
  ASSUME CleanInv, NEW r \in Request, Fails(r, Fatal(op[r])), IInv'
  PROVE  CleanInv'
<1>1. /\ r \in InFlight /\ Goto(r, "failed") /\ Raises(r) /\ UNCHANGED <<age, todo, made>>
  BY DEF Fails, Fatal, InFlight, Ended
<1>2. UNCHANGED <<props, edges>> /\ ~clean'[r]
  BY <1>1, TypeParts DEF Raises, CleanInv, IInv, ControlOK
<1>3. ~Executes(r) \/ ~clean[r]
  BY <1>1, <1>2 DEF Executes
<1>4. vertices' = vertices /\ "failed" \in PC \ {"idle"}
  BY <1>2, SameVertices DEF PC
<1> QED
  BY <1>1, <1>2, <1>3, <1>4, StatementClean
LEMMA AtWork ==
  ASSUME CleanInv, NEW r \in Request
  PROVE  /\ GraphOK /\ ControlOK /\ ScenariosOK /\ GivenOK(r) /\ HeldOK(r) /\ MethodOK(r)
         /\ clean[r] => Work(r)
  BY TypeParts DEF CleanInv, IInv, WorkOK, Work

(* What the MATCHes find depends on the graph alone.                       *)
LEMMA SameFinds ==
  ASSUME vertices' = vertices, UNCHANGED edges
  PROVE  /\ \A l, i : Match(l, i)' = Match(l, i)
         /\ \A s, t, l : Under(s, t, l)' = Under(s, t, l)
         /\ \A s, b : BehaviorsOf(s, b)' = BehaviorsOf(s, b)
<1>1. \A l, i : Match(l, i)' = Match(l, i)
  BY DEF Match
<1>2. \A s, t, l : Under(s, t, l)' = Under(s, t, l)
  BY <1>1 DEF Under
<1> QED
  BY <1>1, <1>2 DEF BehaviorsOf

(* Methods of which nothing is said.                                       *)
LEMMA OtherWork ==
  ASSUME NEW r \in Request, op'[r] \notin {"saveBehavior", "saveScenario", "sync"}
  PROVE  Work(r)'
  BY DEF Work, BehaviorWork, ScenarioWork, SyncWork

LEMMA SchemaWork ==
  ASSUME CleanInv, NEW r \in Request, op[r] \in Writers \ {"sync"}, Executes(r) \/ Raises(r)
  PROVE  Work(r)'
<1>1. UNCHANGED op
  BY Undisturbed
<1> QED
  BY <1>1, OtherWork DEF Writers

LEMMA MatchBehaviorClean ==
  ASSUME CleanInv, NEW r \in Request, MatchBehavior(r), IInv'
  PROVE  CleanInv'
<1>1. /\ pc[r] = "match" /\ op[r] = "saveBehavior" /\ Executes(r)
      /\ UNCHANGED <<props, edges, todo, made>>
      /\ \/ Goto(r, "create")
         \/ \E v \in ExistingBehavior(r) : age' = [age EXCEPT ![r] = v] /\ Goto(r, "unlinkReads")
  BY DEF MatchBehavior
<1>2. GraphOK /\ ControlOK
  BY AtWork
<1>3. vertices' = vertices /\ UNCHANGED <<op, schema, target, attr>> /\ r \in InFlight
  BY <1>1, SameVertices, Undisturbed DEF InFlight, Ended
<1>4. CASE Goto(r, "create")
  <2>1. pc'[r] = "create" /\ "create" \in PC \ {"idle"}
    BY <1>2, <1>4 DEF Goto, ControlOK, PC
  <2>2. Work(r)'
    BY <1>1, <1>3, <2>1 DEF Work, BehaviorWork, ScenarioWork, SyncWork
  <2> QED
    BY <1>1, <1>3, <1>4, <2>1, <2>2, StatementClean
<1>5. ASSUME NEW v \in ExistingBehavior(r), age' = [age EXCEPT ![r] = v], Goto(r, "unlinkReads")
      PROVE  CleanInv'
  <2>1. pc'[r] = "unlinkReads" /\ age'[r] = v /\ "unlinkReads" \in PC \ {"idle"}
    BY <1>2, <1>5 DEF Goto, ControlOK, PC
  <2>2. ExistingBehavior(r)' = ExistingBehavior(r)
    BY <1>1, <1>3, SameFinds DEF ExistingBehavior, BehaviorsOf, Under, Match
  <2>3. Work(r)'
    BY <1>1, <1>3, <1>5, <2>1, <2>2 DEF Work, BehaviorWork, ScenarioWork, SyncWork
  <2> QED
    BY <1>1, <1>3, <1>5, <2>1, <2>3, StatementClean
<1> QED
  BY <1>1, <1>4, <1>5

(* The clean-up of the links leaves the behavior under its schema.         *)
LEMMA UnlinkFieldsClean ==
  ASSUME CleanInv, NEW r \in Request, UnlinkFields(r), IInv'
  PROVE  CleanInv'
<1>1. PICK l \in {"unlinkPredicts", "set"} :
        /\ pc[r] \in {"unlinkReads", "unlinkPredicts"} /\ Goto(r, l) /\ Executes(r)
        /\ UNCHANGED <<props, age, made>> /\ edges' \subseteq edges
        /\ \A e \in edges : e[1] \notin {"READS_FIELD", "PREDICTS_FIELD"} => e \in edges'
  BY DEF UnlinkFields, Unlink, Outgoing
<1>2. GraphOK /\ ControlOK /\ MethodOK(r) /\ (clean[r] => Work(r))
  BY AtWork
<1>3. /\ vertices' = vertices /\ UNCHANGED <<op, schema, target, attr>> /\ r \in InFlight
      /\ op[r] = "saveBehavior"
  BY <1>1, <1>2, Undisturbed DEF InFlight, Ended, MethodOK, vertices
<1>4. pc'[r] = l /\ l \in PC \ {"idle"}
  BY <1>1, <1>2 DEF Goto, ControlOK, PC
<1>5. ASSUME clean[r]
      PROVE  Work(r)'
  <2>1. age[r] \in ExistingBehavior(r)
    BY <1>1, <1>2, <1>3, <1>5 DEF Work, BehaviorWork
  <2>2. PICK v : v = age[r]
    OBVIOUS
  <2>3. /\ v \in vertices /\ v.label = "behavior" /\ v.id = target[r]
        /\ \E u \in Match("schema", schema[r]) : <<"HAS_BEHAVIOR", u, v>> \in edges
    BY <2>1, <2>2 DEF ExistingBehavior, BehaviorsOf, Under
  <2>4. PICK u \in Match("schema", schema[r]) : <<"HAS_BEHAVIOR", u, v>> \in edges
    BY <2>3
  <2>5. <<"HAS_BEHAVIOR", u, v>> \in edges'
    <3>1. PICK e \in edges : e = <<"HAS_BEHAVIOR", u, v>>
      BY <2>4
    <3>2. e[1] = "HAS_BEHAVIOR"
      BY <3>1
    <3> QED
      BY <1>1, <3>1, <3>2
  <2>6. u \in Match("schema", schema[r])'
    BY <1>3, <2>4 DEF Match
  <2>7. v \in ExistingBehavior(r)'
    BY <1>3, <2>3, <2>5, <2>6 DEF ExistingBehavior, BehaviorsOf, Under
  <2>8. age'[r] \in ExistingBehavior(r)'
    BY <1>1, <2>2, <2>7
  <2> QED
    BY <1>3, <1>4, <2>8 DEF Work, BehaviorWork, ScenarioWork, SyncWork
<1> QED
  BY <1>1, <1>3, <1>4, <1>5, StatementClean

(* The vertex found is there and gets the properties.                      *)
LEMMA SetBehaviorClean ==
  ASSUME CleanInv, NEW r \in Request, SetBehavior(r), IInv'
  PROVE  CleanInv'
<1>1. /\ pc[r] = "set" /\ op[r] = "saveBehavior" /\ Goto(r, "done") /\ Executes(r)
      /\ UNCHANGED <<edges, age, todo, made>> /\ SetAll(Here(age[r]), attr[r])
  BY DEF SetBehavior
<1>2. GraphOK /\ ControlOK /\ (clean[r] => Work(r))
  BY AtWork
<1>3. vertices' = vertices
  BY <1>1 DEF SetAll, vertices
<1>4. UNCHANGED <<op, schema, target, attr>> /\ r \in InFlight
  BY <1>1, Undisturbed DEF InFlight, Ended
<1>5. pc'[r] = "done" /\ "done" \in PC \ {"idle"}
  BY <1>1, <1>2 DEF Goto, ControlOK, PC
<1>6. ASSUME clean[r]
      PROVE  Work(r)'
  <2>1. age[r] \in ExistingBehavior(r)
    BY <1>1, <1>2, <1>6 DEF Work, BehaviorWork
  <2>2. age[r] \in vertices
    BY <2>1 DEF ExistingBehavior, BehaviorsOf, Under
  <2>3. props'[age[r]] = attr[r]
    BY <1>1, <2>2 DEF SetAll, Here
  <2>4. age[r] \in BehaviorsOf(schema[r], target[r])'
    BY <1>1, <1>3, <1>4, <2>1 DEF ExistingBehavior, BehaviorsOf, Under, Match
  <2>5. BehaviorListed(r)'
    BY <1>4, <2>3, <2>4 DEF BehaviorListed
  <2> QED
    BY <1>1, <1>4, <1>5, <2>5 DEF Work, BehaviorWork, ScenarioWork, SyncWork
<1> QED
  BY <1>1, <1>3, <1>4, <1>5, <1>6, StatementClean

LEMMA CreateBehaviorClean ==
  ASSUME CleanInv, NEW r \in Request, CreateBehavior(r), IInv'
  PROVE  CleanInv'
<1> DEFINE n == NewBehavior(r)
<1>1. /\ pc[r] = "create" /\ op[r] = "saveBehavior" /\ Goto(r, "link") /\ Executes(r)
      /\ Create(n, attr[r]) /\ UNCHANGED <<edges, todo, made>>
  BY DEF CreateBehavior
<1>2. GraphOK /\ ControlOK
  BY AtWork
<1>3. vertices' = vertices \cup {n} /\ props'[n] = attr[r]
  BY <1>1 DEF Create, vertices
<1>4. UNCHANGED <<op, schema, target, attr>> /\ r \in InFlight
  BY <1>1, Undisturbed DEF InFlight, Ended
<1>5. pc'[r] = "link" /\ "link" \in PC \ {"idle"}
  BY <1>1, <1>2 DEF Goto, ControlOK, PC
<1>6. n.label = "behavior" /\ n.by # None /\ NewBehavior(r)' = n
  BY <1>4 DEF NewBehavior
<1>7. Work(r)'
  BY <1>1, <1>3, <1>4, <1>5, <1>6 DEF Work, BehaviorWork, ScenarioWork, SyncWork, Written
<1> QED
  BY <1>1, <1>3, <1>4, <1>5, <1>6, <1>7, StatementClean

(* The new behavior is listed by every vertex the schema has.              *)
LEMMA LinkBehaviorClean ==
  ASSUME CleanInv, NEW r \in Request, LinkBehavior(r), IInv'
  PROVE  CleanInv'
<1> DEFINE n == NewBehavior(r)
<1>1. /\ pc[r] = "link" /\ op[r] = "saveBehavior" /\ Goto(r, "done") /\ Executes(r)
      /\ edges' = edges \cup Pairs("HAS_BEHAVIOR", Match("schema", schema[r]), Here(age[r]))
      /\ UNCHANGED <<props, age, todo, made>>
  BY DEF LinkBehavior
<1>2. GraphOK /\ ControlOK /\ HeldOK(r) /\ (clean[r] => Work(r))
  BY AtWork
<1>3. vertices' = vertices /\ UNCHANGED <<op, schema, target, attr>> /\ r \in InFlight
  BY <1>1, Undisturbed DEF InFlight, Ended, vertices
<1>4. pc'[r] = "done" /\ "done" \in PC \ {"idle"}
  BY <1>1, <1>2 DEF Goto, ControlOK, PC
<1>5. ASSUME clean[r]
      PROVE  Work(r)'
  <2>1. Written(r, n) /\ age[r] = n
    BY <1>1, <1>2, <1>5 DEF Work, BehaviorWork, HeldOK
  <2>2. n \in vertices /\ props[n] = attr[r] /\ n.label = "behavior" /\ n.id = target[r]
    BY <2>1 DEF Written, NewBehavior
  <2> HIDE DEF n
  <2>3. ASSUME Match("schema", schema[r])' # {}
        PROVE  n \in BehaviorsOf(schema[r], target[r])'
    <3>1. PICK u \in Match("schema", schema[r]) : TRUE
      BY <1>3, <2>3 DEF Match
    <3>2. <<"HAS_BEHAVIOR", u, n>> \in edges'
      BY <1>1, <2>1, <2>2, <3>1 DEF Pairs, Here
    <3>3. u \in Match("schema", schema[r])'
      BY <1>3, <3>1 DEF Match
    <3> QED
      BY <1>3, <2>2, <3>2, <3>3 DEF BehaviorsOf, Under
  <2>4. BehaviorListed(r)'
    BY <1>1, <1>3, <2>2, <2>3 DEF BehaviorListed
  <2> QED
    BY <1>1, <1>3, <1>4, <2>4 DEF Work, BehaviorWork, ScenarioWork, SyncWork
<1> QED
  BY <1>1, <1>3, <1>4, <1>5, StatementClean
(* Methods that write, link or delete for themselves alone.                *)
LEMMA OtherClean ==
  ASSUME CleanInv, NEW r \in Request, IInv',
         \/ SetStatus(r) \/ SetNode(r) \/ DropBehavior(r) \/ DropScenario(r) \/ DropNode(r)
         \/ DropSchema(r)
         \/ \E l \in FieldLink : CreateFieldLink(r, l)
  PROVE  CleanInv'
<1>1. GraphOK /\ ControlOK /\ MethodOK(r)
  BY AtWork
<1>2. CASE SetStatus(r) \/ SetNode(r)
  <2>1. /\ pc[r] = "set" /\ op[r] \in {"setStatus", "updateNode"} /\ Goto(r, "done")
        /\ Executes(r) /\ UNCHANGED <<edges, made>> /\ \E V : SetAll(V, attr[r])
    BY <1>2 DEF SetStatus, SetNode
  <2>2. vertices' = vertices
    BY <2>1 DEF SetAll, vertices
  <2>3. UNCHANGED op /\ r \in InFlight /\ "done" \in PC \ {"idle"}
    BY <2>1, Undisturbed DEF InFlight, Ended, PC
  <2>4. Work(r)'
    BY <2>1, <2>3, OtherWork
  <2> QED
    BY <2>1, <2>2, <2>3, <2>4, StatementClean
<1>3. CASE DropBehavior(r) \/ DropScenario(r) \/ DropNode(r) \/ DropSchema(r)
  <2>1. /\ pc[r] \in {"clear", "dropSchema"}
        /\ op[r] \in {"deleteBehavior", "deleteScenario", "deleteNode", "deleteSchema"}
        /\ Goto(r, "done") /\ Executes(r) /\ \E V : DetachDelete(V)
    BY <1>1, <1>3 DEF DropBehavior, DropScenario, DropNode, DropSchema, MethodOK
  <2>2. PICK V : DetachDelete(V)
    BY <2>1
  <2>3. vertices' = vertices \ V
    BY <1>1, <2>2, DetachOK
  <2>4. \A e \in edges : e[2] \in vertices' /\ e[3] \in vertices' => e \in edges'
    BY <2>2, <2>3 DEF DetachDelete
  <2>5. UNCHANGED op /\ r \in InFlight /\ "done" \in PC \ {"idle"}
    BY <2>1, Undisturbed DEF InFlight, Ended, PC
  <2>6. Work(r)'
    BY <2>1, <2>5, OtherWork
  <2> QED
    BY <2>1, <2>3, <2>4, <2>5, <2>6, StatementClean
<1>4. ASSUME NEW l \in FieldLink, CreateFieldLink(r, l)
      PROVE  CleanInv'
  <2>1. /\ pc[r] = "links" /\ UNCHANGED made
        /\ Goto(r, "done") \/ Goto(r, "links")
        /\ Executes(r) \/ Raises(r)
        /\ (edges' = edges \cup Linked(l) /\ UNCHANGED props) \/ Raises(r)
    BY <1>4 DEF CreateFieldLink
  <2>2. vertices' = vertices /\ edges \subseteq edges'
    BY <2>1, SameVertices DEF Raises, vertices
  <2>3. op[r] = "saveLinks"
    BY <1>1, <2>1 DEF MethodOK
  <2>4. UNCHANGED op /\ r \in InFlight /\ {"links", "done"} \subseteq PC \ {"idle"}
    BY <2>1, Undisturbed DEF InFlight, Ended, PC
  <2>5. Work(r)'
    BY <2>3, <2>4, OtherWork
  <2>6. PICK k \in {"links", "done"} : Goto(r, k)
    BY <2>1
  <2> QED
    BY <2>1, <2>2, <2>3, <2>4, <2>5, <2>6, StatementClean
<1> QED
  BY <1>2, <1>3, <1>4

(* The clean-ups of the schema store.                                      *)
LEMMA SchemaClearsClean ==
  ASSUME CleanInv, NEW r \in Request, IInv', DeleteSchemaNodes(r) \/ DropChildren(r)
  PROVE  CleanInv'
<1>1. GraphOK /\ ControlOK /\ MethodOK(r)
  BY AtWork
<1>2. PICK V :
        \E l \in {"clearNodes", "dropNodes", "dropBehaviors", "dropSchema", "matchMeta"} :
          /\ pc[r] \in {"clearTypes", "clearNodes", "dropTypes", "dropNodes", "dropBehaviors"}
          /\ Goto(r, l) /\ ((DetachDelete(V) /\ Executes(r)) \/ Raises(r))
          /\ l = "clearNodes" => op[r] = "saveSchema"
          /\ l \in {"dropNodes", "dropBehaviors", "dropSchema"} => op[r] = "deleteSchema"
  BY <1>1 DEF DeleteSchemaNodes, DropChildren, Clears, MethodOK
<1>a. PICK l \in {"clearNodes", "dropNodes", "dropBehaviors", "dropSchema", "matchMeta"} :
        /\ pc[r] \in {"clearTypes", "clearNodes", "dropTypes", "dropNodes", "dropBehaviors"}
        /\ Goto(r, l) /\ ((DetachDelete(V) /\ Executes(r)) \/ Raises(r))
        /\ l = "clearNodes" => op[r] = "saveSchema"
        /\ l \in {"dropNodes", "dropBehaviors", "dropSchema"} => op[r] = "deleteSchema"
  BY <1>2
<1>3. op[r] \in {"saveSchema", "deleteSchema"}
  BY <1>1, <1>a DEF MethodOK
<1>4. UNCHANGED op /\ r \in InFlight /\ l \in PC \ {"idle"}
  BY <1>a, Undisturbed DEF InFlight, Ended, PC
<1>5. Work(r)'
  BY <1>3, <1>4, OtherWork
<1>6. CASE DetachDelete(V) /\ Executes(r)
  <2>1. vertices' = vertices \ V
    BY <1>1, <1>6, DetachOK
  <2>2. \A e \in edges : e[2] \in vertices' /\ e[3] \in vertices' => e \in edges'
    BY <1>6, <2>1 DEF DetachDelete
  <2> QED
    BY <1>a, <1>4, <1>5, <1>6, <2>1, <2>2, StatementClean
<1>7. CASE Raises(r)
  <2>1. vertices' = vertices /\ UNCHANGED edges
    BY <1>7, SameVertices DEF Raises
  <2> QED
    BY <1>a, <1>4, <1>5, <1>7, <2>1, StatementClean
<1> QED
  BY <1>a, <1>6, <1>7

(* A scenario that is already there was left by some other call.           *)
LEMMA MatchScenarioClean ==
  ASSUME CleanInv, NEW r \in Request, MatchScenario(r), IInv'
  PROVE  CleanInv'
<1>1. /\ pc[r] = "match" /\ op[r] = "saveScenario" /\ Executes(r)
      /\ UNCHANGED <<props, edges, todo, made>>
      /\ \/ Goto(r, "create")
         \/ \E v \in Match("scenario", target[r]) :
              age' = [age EXCEPT ![r] = v] /\ Goto(r, "set")
  BY DEF MatchScenario
<1>2. GraphOK /\ ControlOK
  BY AtWork
<1>3. vertices' = vertices /\ UNCHANGED <<op, schema, target, attr>> /\ r \in InFlight
  BY <1>1, SameVertices, Undisturbed DEF InFlight, Ended
<1>4. CASE Goto(r, "create")
  <2>1. pc'[r] = "create" /\ "create" \in PC \ {"idle"}
    BY <1>2, <1>4 DEF Goto, ControlOK, PC
  <2>2. Work(r)'
    BY <1>1, <1>3, <2>1 DEF Work, BehaviorWork, ScenarioWork, SyncWork
  <2> QED
    BY <1>1, <1>3, <1>4, <2>1, <2>2, StatementClean
<1>5. ASSUME NEW v \in Match("scenario", target[r]), age' = [age EXCEPT ![r] = v], Goto(r, "set")
      PROVE  CleanInv'
  <2>1. pc'[r] = "set" /\ age'[r] = v /\ "set" \in PC \ {"idle"}
    BY <1>2, <1>5 DEF Goto, ControlOK, PC
  <2>2. v \in GetScenario(target[r])'
    BY <1>3, <1>5 DEF GetScenario, Match
  <2>3. Work(r)'
    BY <1>1, <1>3, <2>1, <2>2 DEF Work, BehaviorWork, ScenarioWork, SyncWork
  <2> QED
    BY <1>1, <1>3, <1>5, <2>1, <2>3, StatementClean
<1> QED
  BY <1>1, <1>4, <1>5

(* ... which its schema lists, or for one of the reasons does not.         *)
LEMMA SetScenarioClean ==
  ASSUME CleanInv, NEW r \in Request, SetScenario(r), IInv'
  PROVE  CleanInv'
<1>1. /\ pc[r] = "set" /\ op[r] = "saveScenario" /\ Goto(r, "done") /\ Executes(r)
      /\ UNCHANGED <<edges, age, todo, made>> /\ SetAll(Here(age[r]), attr[r])
  BY DEF SetScenario
<1>2. GraphOK /\ ControlOK /\ ScenariosOK /\ (clean[r] => Work(r))
  BY AtWork
<1>3. vertices' = vertices
  BY <1>1 DEF SetAll, vertices
<1>4. UNCHANGED <<op, schema, target, attr>> /\ r \in InFlight
  BY <1>1, Undisturbed DEF InFlight, Ended
<1>5. pc'[r] = "done" /\ "done" \in PC \ {"idle"} /\ \A q \in Request \ {r} : pc'[q] = pc[q]
  BY <1>1, <1>2 DEF Goto, ControlOK, PC
<1>6. ASSUME clean[r]
      PROVE  Work(r)'
  <2>1. PICK v : v = age[r]
    OBVIOUS
  <2>2. v \in vertices /\ v.label = "scenario" /\ v.id = target[r]
    BY <1>1, <1>2, <1>6, <2>1 DEF Work, ScenarioWork, GetScenario, Match
  <2>3. props'[v] = attr[r]
    BY <1>1, <2>1, <2>2 DEF SetAll, Here
  <2>4. v \in GetScenario(target[r])'
    BY <1>3, <1>4, <2>2 DEF GetScenario, Match
  <2>5. ASSUME v.by # None, pc'[v.by] # "failed", schema'[v.by] = schema'[r], ~Unlisted(v.by)'
        PROVE  v.by # r /\ v \in ListScenarios(schema[r])'
    <3>1. v.by \in Request
      BY <1>2, <2>2, <2>5 DEF GraphOK, Vertex
    <3>2. /\ pc[v.by] \in {"link", "done", "failed"}
          /\ pc[v.by] = "done" =>
               \A u \in Match("schema", schema[v.by]) :
                 u.by = None => <<"HAS_SCENARIO", u, v>> \in edges
      BY <1>2, <2>2, <2>5 DEF ScenariosOK
    <3>3. v.by # r
      BY <1>1, <3>2
    <3>4. pc[v.by] = "done"
      <4>1. v.by \notin InFlight
        BY <1>4, <1>6, <3>3 DEF CleanInv, AloneOK
      <4>2. pc[v.by] # "link"
        BY <3>1, <4>1 DEF InFlight, Ended
      <4> QED
        BY <1>5, <2>5, <3>1, <3>2, <3>3, <4>2
    <3>5. PICK u \in Match("schema", schema[v.by])' : u.by = None
      BY <2>5 DEF Unlisted
    <3>6. u \in Match("schema", schema[v.by])
      BY <1>3, <1>4, <3>5 DEF Match
    <3>7. <<"HAS_SCENARIO", u, v>> \in edges'
      BY <1>1, <3>2, <3>4, <3>5, <3>6
    <3>8. u \in Match("schema", schema[r])'
      BY <2>5, <3>5 DEF Match
    <3> QED
      BY <1>3, <2>2, <3>3, <3>7, <3>8 DEF ListScenarios, Under
  <2>6. v.by # r
    <3>1. v.by # None => pc[v.by] \in {"link", "done", "failed"}
      BY <1>2, <2>2 DEF ScenariosOK
    <3> QED
      BY <1>1, <3>1
  <2>7. \/ v \in ListScenarios(schema[r])'
        \/ v.by = None \/ pc'[v.by] = "failed"
        \/ schema'[v.by] # schema'[r] \/ Unlisted(v.by)'
    BY <2>5
  <2>8. ScenarioListed(r)'
    BY <1>4, <2>2, <2>3, <2>4, <2>6, <2>7 DEF ScenarioListed
  <2> QED
    BY <1>1, <1>4, <1>5, <2>8 DEF Work, BehaviorWork, ScenarioWork, SyncWork
<1> QED
  BY <1>1, <1>3, <1>4, <1>5, <1>6, StatementClean
LEMMA CreateScenarioClean ==
  ASSUME CleanInv, NEW r \in Request, CreateScenario(r), IInv'
  PROVE  CleanInv'
<1> DEFINE n == NewScenario(r)
<1>1. /\ pc[r] = "create" /\ op[r] = "saveScenario" /\ Goto(r, "link") /\ Executes(r)
      /\ Create(n, attr[r]) /\ UNCHANGED <<edges, todo, made>>
  BY DEF CreateScenario
<1>2. GraphOK /\ ControlOK /\ ScenariosOK
  BY AtWork
<1>3. vertices' = vertices \cup {n} /\ props'[n] = attr[r]
  BY <1>1 DEF Create, vertices
<1>4. /\ UNCHANGED <<op, schema, target, attr>> /\ r \in InFlight
      /\ \A q \in Request : clean'[q] => clean[q]
  BY <1>1, Undisturbed DEF InFlight, Ended
<1>5. /\ pc' = [pc EXCEPT ![r] = "link"] /\ pc'[r] = "link" /\ "link" \in PC \ {"idle"}
      /\ \A q \in Request \ {r} : pc'[q] = pc[q]
  BY <1>1, <1>2 DEF Goto, ControlOK, PC
<1>6. n.label = "scenario" /\ n.by = r /\ n.id = target[r] /\ NewScenario(r)' = n
  BY <1>4 DEF NewScenario
<1>7. Work(r)'
  BY <1>1, <1>3, <1>4, <1>5, <1>6 DEF Work, BehaviorWork, ScenarioWork, SyncWork, Written
<1> HIDE DEF n
<1>8. ASSUME NEW v \in vertices', v.label = "scenario", v.by # None
      PROVE  /\ op'[v.by] = "saveScenario" /\ pc'[v.by] \in {"link", "done", "failed"}
             /\ v.id = target'[v.by]
             /\ pc'[v.by] = "done" =>
                  \A u \in Match("schema", schema[v.by])' :
                    u.by = None => <<"HAS_SCENARIO", u, v>> \in edges'
  <2>1. CASE v = n
    BY <1>1, <1>4, <1>5, <1>6, <2>1
  <2>2. CASE v \in vertices
    <3>1. v.by \in Request
      BY <1>2, <1>8, <2>2 DEF GraphOK, Vertex
    <3>2. /\ op[v.by] = "saveScenario" /\ pc[v.by] \in {"link", "done", "failed"}
          /\ v.id = target[v.by]
          /\ pc[v.by] = "done" =>
               \A u \in Match("schema", schema[v.by]) :
                 u.by = None => <<"HAS_SCENARIO", u, v>> \in edges
      BY <1>2, <1>8, <2>2 DEF ScenariosOK
    <3>3. v.by # r
      BY <1>1, <3>2
    <3>4. pc'[v.by] = pc[v.by]
      BY <1>5, <3>1, <3>3
    <3>5. \A u \in Match("schema", schema[v.by])' :
            u.by = None => u \in Match("schema", schema[v.by])
      BY <1>3, <1>4, <1>6 DEF Match
    <3> QED
      BY <1>1, <1>4, <3>2, <3>4, <3>5
  <2> QED
    BY <1>3, <1>8, <2>1, <2>2
<1>9. ScenariosOK'
  BY <1>8 DEF ScenariosOK
<1>10. MethodOK(r)'
  BY <1>5 DEF MethodOK
<1> QED
  BY <1>1, <1>4, <1>5, <1>7, <1>9, <1>10, StepClean

(* The new scenario is listed by every vertex the schema has.              *)
LEMMA LinkScenarioClean ==
  ASSUME CleanInv, NEW r \in Request, LinkScenario(r), IInv'
  PROVE  CleanInv'
<1> DEFINE n == NewScenario(r)
<1>1. /\ pc[r] = "link" /\ op[r] = "saveScenario" /\ Goto(r, "done") /\ Executes(r)
      /\ edges' = edges \cup Pairs("HAS_SCENARIO", Match("schema", schema[r]), Here(age[r]))
      /\ UNCHANGED <<props, age, todo, made>>
  BY DEF LinkScenario
<1>2. GraphOK /\ ControlOK /\ ScenariosOK /\ HeldOK(r) /\ (clean[r] => Work(r))
  BY AtWork
<1>3. /\ vertices' = vertices /\ UNCHANGED <<op, schema, target, attr>> /\ r \in InFlight
      /\ \A q \in Request : clean'[q] => clean[q]
  BY <1>1, Undisturbed DEF InFlight, Ended, vertices
<1>4. /\ pc' = [pc EXCEPT ![r] = "done"] /\ pc'[r] = "done" /\ "done" \in PC \ {"idle"}
      /\ \A q \in Request \ {r} : pc'[q] = pc[q]
  BY <1>1, <1>2 DEF Goto, ControlOK, PC
<1>5. age[r] = n /\ n.label = "scenario" /\ n.id = target[r] /\ n.by = r
  BY <1>1, <1>2 DEF HeldOK, NewScenario
<1> HIDE DEF n
<1>6. ASSUME NEW u \in Match("schema", schema[r]), n \in vertices
      PROVE  <<"HAS_SCENARIO", u, n>> \in edges'
  BY <1>1, <1>5, <1>6 DEF Pairs, Here
<1>7. ASSUME clean[r]
      PROVE  Work(r)'
  <2>1. Written(r, n)
    BY <1>1, <1>2, <1>7 DEF Work, ScenarioWork, n
  <2>2. n \in vertices /\ props[n] = attr[r]
    BY <2>1 DEF Written
  <2>3. ASSUME Match("schema", schema[r])' # {}
        PROVE  n \in ListScenarios(schema[r])'
    <3>1. PICK u \in Match("schema", schema[r]) : TRUE
      BY <1>3, <2>3 DEF Match
    <3>2. <<"HAS_SCENARIO", u, n>> \in edges'
      BY <1>6, <2>2
    <3>3. u \in Match("schema", schema[r])'
      BY <1>3, <3>1 DEF Match
    <3> QED
      BY <1>3, <1>5, <2>2, <3>2, <3>3 DEF ListScenarios, Under
  <2>4. ScenarioListed(r)'
    BY <1>1, <1>3, <1>5, <2>2, <2>3 DEF ScenarioListed
  <2> QED
    BY <1>1, <1>3, <1>4, <2>4 DEF Work, BehaviorWork, ScenarioWork, SyncWork
<1>8. ASSUME NEW v \in vertices', v.label = "scenario", v.by # None
      PROVE  /\ op'[v.by] = "saveScenario" /\ pc'[v.by] \in {"link", "done", "failed"}
             /\ v.id = target'[v.by]
             /\ pc'[v.by] = "done" =>
                  \A u \in Match("schema", schema[v.by])' :
                    u.by = None => <<"HAS_SCENARIO", u, v>> \in edges'
  <2>1. v \in vertices /\ v \in Vertex
    BY <1>2, <1>3, <1>8 DEF GraphOK
  <2>2. v.by \in Request
    BY <1>8, <2>1 DEF Vertex
  <2>3. /\ op[v.by] = "saveScenario" /\ pc[v.by] \in {"link", "done", "failed"}
        /\ v.id = target[v.by]
        /\ pc[v.by] = "done" =>
             \A u \in Match("schema", schema[v.by]) :
               u.by = None => <<"HAS_SCENARIO", u, v>> \in edges
    BY <1>2, <1>8, <2>1 DEF ScenariosOK
  <2>4. Match("schema", schema[v.by])' = Match("schema", schema[v.by])
    BY <1>3 DEF Match
  <2>5. CASE v.by # r
    BY <1>1, <1>3, <1>4, <2>2, <2>3, <2>4, <2>5
  <2>6. CASE v.by = r
    <3>1. v = n
      BY <1>5, <1>8, <2>1, <2>3, <2>6 DEF Vertex, n, NewScenario
    <3>2. \A u \in Match("schema", schema[r]) : <<"HAS_SCENARIO", u, v>> \in edges'
      BY <1>6, <2>1, <3>1
    <3>3. Match("schema", schema[v.by]) = Match("schema", schema[r])
      BY <2>6
    <3>4. \A u \in Match("schema", schema[v.by])' : <<"HAS_SCENARIO", u, v>> \in edges'
      BY <2>4, <3>2, <3>3
    <3>5. op'[v.by] = "saveScenario" /\ pc'[v.by] = "done" /\ v.id = target'[v.by]
      BY <1>3, <1>4, <2>3, <2>6
    <3> QED
      BY <3>4, <3>5
  <2> QED
    BY <2>5, <2>6
<1>9. ScenariosOK'
  BY <1>8 DEF ScenariosOK
<1>10. MethodOK(r)'
  BY <1>4 DEF MethodOK
<1> QED
  BY <1>1, <1>3, <1>4, <1>7, <1>9, <1>10, StepClean
---------------------------------------------------------------------------
(* A synchronisation that nobody disturbed.                                *)

SyncNodes(r) == {SyncNode(r, n) : n \in NodeId}

LEMMA NodeFacts ==
  ASSUME NEW r \in Request, NEW n \in NodeId
  PROVE  /\ SyncNode(r, n).id = n /\ SyncNode(r, n).by = r
         /\ SyncNode(r, n).label \in {"node", "layer"}
         /\ SyncNode(r, n).label = "node" <=> n \notin Layered
  BY DEF SyncNode, NodeLabel

(* Where the loop over the nodes goes: on, or to the relationships of the  *)
(* nodes made, of which none is drawn yet.                                 *)
LEMMA NextNodeWork ==
  ASSUME ControlOK, NEW r \in Request, NEW T, NEW M, NextNode(r, T, M), M = made'[r]
  PROVE  /\ pc'[r] \in {"nodes", "rels", "done"}
         /\ pc'[r] \in {"rels", "done"} => Drawn(r, Rel \ todo[r])' = {}
         /\ pc'[r] = "done" => todo'[r] = {}
<1> DEFINE R == {e \in Rel : Ends(M, e) # {}}
<1>1. CASE T # {}
  <2>1. Goto(r, "nodes")
    BY <1>1 DEF NextNode
  <2> QED
    BY <2>1 DEF Goto, ControlOK
<1>2. CASE T = {}
  <2>1. todo' = [todo EXCEPT ![r] = R] /\ Goto(r, IF R = {} THEN "done" ELSE "rels")
    BY <1>2 DEF NextNode
  <2>2. todo'[r] = R /\ pc'[r] \in {"rels", "done"} /\ (pc'[r] = "done" => R = {})
    BY <2>1 DEF Goto, ControlOK
  <2>3. \A x \in Rel \ R : Ends(M, x) = {}
    OBVIOUS
  <2>4. PICK S : S = Rel \ R
    OBVIOUS
  <2>5. \A x \in S : SyncNode(r, x[1]) \in Plain(made'[r]) => SyncNode(r, x[2]) \notin Plain(made'[r])
    <3> SUFFICES ASSUME NEW x \in S, SyncNode(r, x[1]) \in Plain(M), SyncNode(r, x[2]) \in Plain(M)
                 PROVE  FALSE
      OBVIOUS
    <3>1. SyncNode(r, x[1]) \in M /\ SyncNode(r, x[2]) \in M
      BY DEF Plain
    <3>2. SyncNode(r, x[1]).id = x[1] /\ SyncNode(r, x[2]).id = x[2]
      BY DEF SyncNode
    <3>3. <<SyncNode(r, x[1]), SyncNode(r, x[2])>> \in Ends(M, x)
      BY <3>1, <3>2 DEF Ends
    <3> QED
      BY <2>3, <2>4, <3>3
  <2>6. Drawn(r, Rel \ todo[r])' = {}
    BY <2>2, <2>4, <2>5 DEF Drawn
  <2> QED
    BY <2>2, <2>6
<1> QED
  BY <1>1, <1>2

LEMMA DeleteExistingNodesClean ==
  ASSUME CleanInv, NEW r \in Request, DeleteExistingNodes(r), IInv'
  PROVE  CleanInv'
<1>1. /\ pc[r] = "clear" /\ op[r] = "sync" /\ Goto(r, "matchMeta") /\ UNCHANGED <<age, todo, made>>
      /\ (DetachDelete(ExistingNodes(r)) /\ Executes(r)) \/ Raises(r)
  BY DEF DeleteExistingNodes
<1>2. GraphOK /\ ControlOK /\ (clean[r] => Work(r))
  BY AtWork
<1>3. UNCHANGED <<op, schema, target, attr>> /\ r \in InFlight
  BY <1>1, Undisturbed DEF InFlight, Ended
<1>4. pc'[r] = "matchMeta" /\ "matchMeta" \in PC \ {"idle"}
  BY <1>1, <1>2 DEF Goto, ControlOK, PC
<1>5. CASE DetachDelete(ExistingNodes(r)) /\ Executes(r)
  <2>1. vertices' = vertices \ ExistingNodes(r)
    BY <1>2, <1>5, DetachOK
  <2>2. \A e \in edges : e[2] \in vertices' /\ e[3] \in vertices' => e \in edges'
    BY <1>5, <2>1 DEF DetachDelete
  <2>3. OntologyNodes' = {}
    BY <2>1 DEF OntologyNodes, ExistingNodes
  <2>4. ASSUME clean[r]
        PROVE  Work(r)'
    <3>1. made[r] = {}
      BY <1>1, <1>2, <2>4 DEF Work, SyncWork
    <3> QED
      BY <1>1, <1>3, <1>4, <2>3, <3>1 DEF Work, BehaviorWork, ScenarioWork, SyncWork
  <2> QED
    BY <1>1, <1>3, <1>4, <1>5, <2>1, <2>2, <2>4, StatementClean
<1>6. CASE Raises(r)
  <2>1. vertices' = vertices /\ UNCHANGED edges
    BY <1>6, SameVertices DEF Raises
  <2>2. ~(clean[r] /\ Executes(r))
    BY <1>2, <1>6 DEF Raises, Executes, ControlOK
  <2> QED
    BY <1>1, <1>3, <1>4, <1>6, <2>1, <2>2, StatementClean
<1> QED
  BY <1>1, <1>5, <1>6

LEMMA MatchMetaClean ==
  ASSUME CleanInv, NEW r \in Request, MatchMeta(r), IInv'
  PROVE  CleanInv'
<1>1. /\ pc[r] = "matchMeta" /\ Executes(r) /\ UNCHANGED <<props, edges, age, todo, made>>
      /\ \E l \in {"setMeta", "createMeta"} : Goto(r, l)
  BY DEF MatchMeta
<1>2. GraphOK /\ ControlOK /\ HeldOK(r) /\ (clean[r] => Work(r))
  BY AtWork
<1>3. /\ vertices' = vertices /\ UNCHANGED <<op, schema, target, attr>> /\ r \in InFlight
      /\ op[r] \in Writers
  BY <1>1, <1>2, SameVertices, Undisturbed DEF InFlight, Ended, HeldOK
<1>4. PICK l \in {"setMeta", "createMeta"} : Goto(r, l)
  BY <1>1
<1>5. pc'[r] = l /\ l \in PC \ {"idle"}
  BY <1>2, <1>4 DEF Goto, ControlOK, PC
<1>6a. ASSUME clean[r], op[r] = "sync"
      PROVE  Work(r)'
  <2>1. made[r] = {} /\ OntologyNodes = {}
    BY <1>1, <1>2, <1>3, <1>6a DEF Work, SyncWork
  <2>2. made'[r] = {} /\ OntologyNodes' = {}
    BY <1>1, <1>3, <2>1 DEF OntologyNodes
  <2> QED
    BY <1>3, <1>5, <2>2 DEF Work, BehaviorWork, ScenarioWork, SyncWork
<1>6. clean[r] => Work(r)'
  BY <1>1, <1>3, <1>6a, SchemaWork
<1> QED
  BY <1>1, <1>3, <1>4, <1>5, <1>6, StatementClean

LEMMA WriteMetaClean ==
  ASSUME CleanInv, NEW r \in Request, WriteMeta(r), IInv'
  PROVE  CleanInv'
<1>1. /\ NextNode(r, todo[r], {}) /\ Executes(r) /\ UNCHANGED <<edges, age, made>>
      /\ \/ pc[r] = "setMeta" /\ SetAll(Match("schema", schema[r]), attr[r])
         \/ pc[r] = "createMeta" /\ Create(NewSchema(r), attr[r])
  BY DEF WriteMeta
<1>2. GraphOK /\ ControlOK /\ HeldOK(r) /\ (clean[r] => Work(r))
  BY AtWork
<1>3. /\ UNCHANGED <<op, schema, target, attr>> /\ r \in InFlight
      /\ op[r] \in Writers /\ pc[r] \in {"setMeta", "createMeta"}
  BY <1>1, <1>2, Undisturbed DEF InFlight, Ended, HeldOK
<1>4. NewSchema(r).label = "schema" /\ NewSchema(r).by # None
  BY DEF NewSchema
<1>5. \A v \in vertices' : v \in vertices \/ (v.label = "schema" /\ v.by # None)
  BY <1>1, <1>4 DEF SetAll, Create, vertices
<1>6. todo[r] \in SUBSET Item
  BY <1>2 DEF ControlOK
<1>7. PICK l \in {"nodes", "rels", "done"} : Goto(r, l)
  BY <1>1, <1>2, <1>6, NextNodeOK
<1>8. pc'[r] = l /\ l \in PC \ {"idle"}
  BY <1>2, <1>7, SyncLabels DEF Goto, ControlOK
<1>9a. ASSUME clean[r], op[r] = "sync"
      PROVE  Work(r)'
  <2>1. made[r] = {} /\ OntologyNodes = {}
    BY <1>2, <1>3, <1>9a DEF Work, SyncWork
  <2>2. made'[r] = {}
    BY <1>1, <2>1
  <2>3. /\ pc'[r] \in {"rels", "done"} => Drawn(r, Rel \ todo[r])' = {}
        /\ pc'[r] = "done" => todo'[r] = {}
    BY <1>1, <1>2, <2>2, NextNodeWork
  <2>4. OntologyNodes' = {}
    BY <1>5, <2>1 DEF OntologyNodes
  <2>5. OntologyRelationships' = {} /\ Plain(made[r])' = {}
    BY <2>2, <2>4 DEF OntologyRelationships, Plain
  <2> QED
    BY <1>3, <1>8, <1>9a, <2>2, <2>3, <2>4, <2>5 DEF Work, BehaviorWork, ScenarioWork, SyncWork
<1>9. clean[r] => Work(r)'
  BY <1>1, <1>3, <1>9a, SchemaWork
<1> QED
  BY <1>1, <1>3, <1>5, <1>7, <1>8, <1>9, StatementClean
(* A node just created has no edges yet.                                   *)
LEMMA CreateNodeClean ==
  ASSUME CleanInv, NEW r \in Request, NEW n \in NodeId, CreateNode(r, n), IInv'
  PROVE  CleanInv'
<1> DEFINE w == NewNode(r, n)
<1>1. /\ pc[r] = "nodes" /\ UNCHANGED made
      /\ \/ /\ Create(w, attr[r]) /\ age' = [age EXCEPT ![r] = w]
            /\ Goto(r, "linkNode") /\ Executes(r) /\ UNCHANGED edges
         \/ Raises(r) /\ NextNode(r, todo[r] \ {n}, made[r])
  BY DEF CreateNode
<1>2. GraphOK /\ ControlOK /\ HeldOK(r) /\ (clean[r] => Work(r))
  BY AtWork
<1>3. r \in InFlight /\ op[r] \in Writers
  BY <1>1, <1>2 DEF InFlight, Ended, HeldOK
<1>4. w.by # None /\ w.label # "scenario"
  BY DEF NewNode, NodeLabel
<1>5. CASE /\ Create(w, attr[r]) /\ age' = [age EXCEPT ![r] = w]
           /\ Goto(r, "linkNode") /\ Executes(r) /\ UNCHANGED edges
  <2>1. UNCHANGED <<op, schema, target, attr>>
    BY <1>5, Undisturbed
  <2>2. pc'[r] = "linkNode" /\ age'[r] = w /\ "linkNode" \in PC \ {"idle"}
    BY <1>2, <1>5, SyncLabels DEF Goto, ControlOK
  <2>3. vertices' = vertices \cup {w}
    BY <1>5 DEF Create, vertices
  <2>4a. ASSUME clean[r], op[r] = "sync"
        PROVE  Work(r)'
    <3>1. /\ made[r] \subseteq SyncNodes(r) \cap vertices
          /\ OntologyNodes = Plain(made[r]) /\ OntologyRelationships = {}
      BY <1>1, <1>2, <1>3, <2>4a DEF Work, SyncWork, SyncNodes
    <3>0. w = SyncNode(r, n)
      BY <2>4a DEF NewNode, SyncNode
    <3>2. /\ made'[r] \subseteq SyncNodes(r)' \cap vertices'
          /\ age'[r] \in SyncNodes(r)' \cap vertices'
      BY <1>1, <2>2, <2>3, <3>0, <3>1 DEF SyncNodes, SyncNode, NodeLabel
    <3>3. OntologyNodes' = Plain(made'[r] \cup {age'[r]})
      <4>1. OntologyNodes' = {v \in vertices \cup {w} : v.label = "node"}
        BY <2>3 DEF OntologyNodes
      <4>2. {v \in vertices : v.label = "node"} = {v \in made[r] : v.label = "node"}
        BY <3>1 DEF OntologyNodes, Plain
      <4>3. {v \in vertices \cup {w} : v.label = "node"} = {v \in made[r] \cup {w} : v.label = "node"}
        <5> HIDE DEF w
        <5> QED
          BY <4>2
      <4> QED
        BY <1>1, <2>2, <4>1, <4>3 DEF Plain
    <3>4. OntologyRelationships' = {}
      <4> SUFFICES ASSUME NEW e \in edges, e[1] # "HAS_NODE",
                          e[2] \in OntologyNodes', e[3] \in OntologyNodes'
                   PROVE  FALSE
        BY <1>5 DEF OntologyRelationships
      <4>1. e[2] \in vertices /\ e[3] \in vertices
        BY <1>2 DEF GraphOK, GraphIntegrity
      <4>2. e[2] \in OntologyNodes /\ e[3] \in OntologyNodes
        BY <4>1 DEF OntologyNodes
      <4>3. e \in OntologyRelationships
        BY <4>2 DEF OntologyRelationships
      <4> QED
        BY <3>1, <4>3
    <3> QED
      BY <2>1, <2>2, <2>4a, <3>2, <3>3, <3>4
         DEF Work, BehaviorWork, ScenarioWork, SyncWork, SyncNodes, Plain
  <2>4. clean[r] => Work(r)'
    BY <1>1, <1>3, <1>5, <2>4a, SchemaWork
  <2> QED
    BY <1>1, <1>3, <1>4, <1>5, <2>2, <2>3, <2>4, StatementClean
<1>6. CASE Raises(r) /\ NextNode(r, todo[r] \ {n}, made[r])
  <2>1. PICK T \in SUBSET Item : T = todo[r] \ {n}
    BY <1>2 DEF ControlOK
  <2>2. PICK l \in {"nodes", "rels", "done"} : Goto(r, l)
    <3>1. NextNode(r, T, made[r])
      BY <1>6, <2>1
    <3> QED
      BY <1>2, <3>1, NextNodeOK
  <2>3. vertices' = vertices /\ UNCHANGED edges /\ l \in PC \ {"idle"}
    BY <1>6, SameVertices, SyncLabels DEF Raises
  <2>4. ~(clean[r] /\ Executes(r))
    BY <1>2, <1>6 DEF Raises, Executes, ControlOK
  <2> QED
    BY <1>1, <1>3, <1>6, <2>2, <2>3, <2>4, StatementClean
<1> QED
  BY <1>1, <1>5, <1>6

(* ... and its first is not a relationship of the ontology.                *)
LEMMA LinkNodeClean ==
  ASSUME CleanInv, NEW r \in Request, LinkNode(r), IInv'
  PROVE  CleanInv'
<1>1. /\ pc[r] = "linkNode" /\ NextNode(r, todo[r], made'[r])
      /\ \/ /\ edges' = edges \cup Pairs("HAS_NODE", Match("schema", schema[r]), Here(age[r]))
            /\ made' = [made EXCEPT ![r] = @ \cup {age[r]}]
            /\ Executes(r) /\ UNCHANGED props
         \/ Raises(r) /\ UNCHANGED made
  BY DEF LinkNode
<1>2. GraphOK /\ ControlOK /\ HeldOK(r) /\ (clean[r] => Work(r))
  BY AtWork
<1>3. r \in InFlight /\ op[r] \in Writers
  BY <1>1, <1>2 DEF InFlight, Ended, HeldOK
<1>4. todo[r] \in SUBSET Item /\ \E m : m = made'[r]
  BY <1>2 DEF ControlOK
<1>5. PICK l \in {"nodes", "rels", "done"} : Goto(r, l)
  <2>1. PICK m : m = made'[r]
    BY <1>4
  <2>2. NextNode(r, todo[r], m)
    BY <1>1, <2>1
  <2> QED
    BY <1>2, <1>4, <2>2, NextNodeOK
<1>6. pc'[r] = l /\ l \in PC \ {"idle"}
  BY <1>2, <1>5, SyncLabels DEF Goto, ControlOK
<1>7. CASE /\ edges' = edges \cup Pairs("HAS_NODE", Match("schema", schema[r]), Here(age[r]))
           /\ made' = [made EXCEPT ![r] = @ \cup {age[r]}]
           /\ Executes(r) /\ UNCHANGED props
  <2>1. vertices' = vertices /\ UNCHANGED <<op, schema, target, attr>>
    BY <1>7, Undisturbed DEF vertices
  <2>2. made'[r] = made[r] \cup {age[r]} /\ \A q \in Request \ {r} : made'[q] = made[q]
    BY <1>2, <1>7 DEF ControlOK
  <2>3a. ASSUME clean[r], op[r] = "sync"
        PROVE  Work(r)'
    <3>1. /\ made[r] \subseteq SyncNodes(r) \cap vertices
          /\ age[r] \in SyncNodes(r) \cap vertices
          /\ OntologyNodes = Plain(made[r] \cup {age[r]}) /\ OntologyRelationships = {}
      BY <1>1, <1>2, <1>3, <2>3a DEF Work, SyncWork, SyncNodes
    <3>2. made'[r] \subseteq SyncNodes(r)' \cap vertices'
      BY <2>1, <2>2, <3>1 DEF SyncNodes, SyncNode, NodeLabel
    <3>3. OntologyNodes' = OntologyNodes
      BY <2>1 DEF OntologyNodes
    <3>4. OntologyNodes' = Plain(made'[r])
      BY <2>2, <3>1, <3>3
    <3>5. OntologyRelationships' = {}
      <4> SUFFICES ASSUME NEW e \in edges', e[1] # "HAS_NODE",
                          e[2] \in OntologyNodes', e[3] \in OntologyNodes'
                   PROVE  FALSE
        BY DEF OntologyRelationships
      <4>1. e \notin Pairs("HAS_NODE", Match("schema", schema[r]), Here(age[r]))
        BY DEF Pairs
      <4>2. e \in OntologyRelationships
        BY <1>7, <3>3, <4>1 DEF OntologyRelationships
      <4> QED
        BY <3>1, <4>2
    <3>6. /\ pc'[r] \in {"rels", "done"} => Drawn(r, Rel \ todo[r])' = {}
          /\ pc'[r] = "done" => todo'[r] = {}
      <4>1. PICK m : m = made'[r]
        BY <1>4
      <4>2. NextNode(r, todo[r], m)
        BY <1>1, <4>1
      <4> QED
        BY <1>2, <4>1, <4>2, NextNodeWork
    <3> QED
      BY <1>6, <2>1, <2>3a, <3>2, <3>4, <3>5, <3>6
         DEF Work, BehaviorWork, ScenarioWork, SyncWork, SyncNodes, Plain
  <2>3. clean[r] => Work(r)'
    BY <1>1, <1>3, <1>7, <2>3a, SchemaWork
  <2> QED
    BY <1>1, <1>3, <1>5, <1>6, <1>7, <2>1, <2>2, <2>3, StatementClean
<1>8. CASE Raises(r) /\ UNCHANGED made
  <2>1. vertices' = vertices /\ UNCHANGED edges
    BY <1>8, SameVertices DEF Raises
  <2>2. ~(clean[r] /\ Executes(r))
    BY <1>2, <1>8 DEF Raises, Executes, ControlOK
  <2> QED
    BY <1>1, <1>3, <1>5, <1>6, <1>8, <2>1, <2>2, StatementClean
<1> QED
  BY <1>1, <1>7, <1>8
(* The relationship drawn is the one of the document, both ends of which   *)
(* are there.                                                              *)
LEMMA CreateRelationshipClean ==
  ASSUME CleanInv, NEW r \in Request, NEW e \in Rel, CreateRelationship(r, e), IInv'
  PROVE  CleanInv'
<1> DEFINE P == Ends(made[r], e) \cap (vertices \X vertices)
           E == {<<RelType(op[r]), p[1], p[2]>> : p \in P}
           x == <<"RELATED", SyncNode(r, e[1]), SyncNode(r, e[2])>>
<1>1. /\ pc[r] = "rels" /\ e \in todo[r] /\ todo' = [todo EXCEPT ![r] = @ \ {e}]
      /\ UNCHANGED <<age, made>>
      /\ Goto(r, IF todo'[r] = {} THEN "done" ELSE "rels")
      /\ (edges' = edges \cup E /\ Executes(r) /\ UNCHANGED props) \/ Raises(r)
  BY DEF CreateRelationship
<1>2. GraphOK /\ ControlOK /\ HeldOK(r) /\ (clean[r] => Work(r))
  BY AtWork
<1>3. r \in InFlight /\ op[r] \in Writers
  BY <1>1, <1>2 DEF InFlight, Ended, HeldOK
<1>4. PICK l \in {"rels", "done"} : Goto(r, l) /\ (l = "done" => todo'[r] = {})
  BY <1>1
<1>5. pc'[r] = l /\ l \in PC \ {"idle"}
  BY <1>2, <1>4, SyncLabels DEF Goto, ControlOK
<1>6. CASE edges' = edges \cup E /\ Executes(r) /\ UNCHANGED props
  <2>1. vertices' = vertices /\ UNCHANGED <<op, schema, target, attr>>
    BY <1>6, Undisturbed DEF vertices
  <2>2. \A c \in edges : c \in edges'
    BY <1>6
  <2>3a. ASSUME clean[r], op[r] = "sync"
        PROVE  Work(r)'
    <3>1. /\ made[r] \subseteq SyncNodes(r) \cap vertices
          /\ OntologyNodes = Plain(made[r])
          /\ OntologyRelationships = Drawn(r, Rel \ todo[r])
      BY <1>1, <1>2, <1>3, <2>3a DEF Work, SyncWork, SyncNodes
    <3>0. RelType(op[r]) = "RELATED"
      BY <2>3a DEF RelType
    <3>2. made'[r] = made[r] /\ todo'[r] = todo[r] \ {e}
      BY <1>1, <1>2 DEF ControlOK
    <3>3. OntologyNodes' = Plain(made[r])
      BY <2>1, <3>1 DEF OntologyNodes
    <3>4. \A c \in E : c = x /\ SyncNode(r, e[1]) \in made[r] /\ SyncNode(r, e[2]) \in made[r]
      <4> SUFFICES ASSUME NEW p \in P
                   PROVE  /\ p[1] = SyncNode(r, e[1]) /\ p[2] = SyncNode(r, e[2])
                          /\ p[1] \in made[r] /\ p[2] \in made[r]
        BY <3>0
      <4>1. p[1] \in made[r] /\ p[2] \in made[r] /\ p[1].id = e[1] /\ p[2].id = e[2]
        BY DEF Ends
      <4>2. \A v \in made[r] : v = SyncNode(r, v.id)
        BY <3>1, NodeFacts DEF SyncNodes
      <4> QED
        BY <4>1, <4>2
    <3>5. SyncNode(r, e[1]) \in made[r] /\ SyncNode(r, e[2]) \in made[r] => x \in E
      <4> SUFFICES ASSUME SyncNode(r, e[1]) \in made[r], SyncNode(r, e[2]) \in made[r]
                   PROVE  x \in E
        OBVIOUS
      <4>1. PICK v \in made[r], w \in made[r] : v = SyncNode(r, e[1]) /\ w = SyncNode(r, e[2])
        OBVIOUS
      <4>2. v.id = e[1] /\ w.id = e[2]
        BY <4>1 DEF SyncNode
      <4>3. v \in vertices /\ w \in vertices
        BY <3>1
      <4>4. <<v, w>> \in P
        BY <4>2, <4>3 DEF Ends
      <4> QED
        BY <3>0, <4>1, <4>4
    <3> HIDE DEF E, x
    <3>6. ASSUME NEW c \in OntologyRelationships'
          PROVE  c \in Drawn(r, Rel \ todo[r])'
      <4>1. /\ c \in edges \cup E /\ c[1] # "HAS_NODE"
            /\ c[2] \in Plain(made[r]) /\ c[3] \in Plain(made[r])
        BY <1>6, <3>3, <3>6 DEF OntologyRelationships
      <4>2. CASE c \in edges
        <5>1. c \in OntologyRelationships
          BY <3>1, <4>1, <4>2 DEF OntologyRelationships
        <5>2. PICK y \in Rel \ todo[r] :
                /\ c = <<"RELATED", SyncNode(r, y[1]), SyncNode(r, y[2])>>
                /\ SyncNode(r, y[1]) \in Plain(made[r]) /\ SyncNode(r, y[2]) \in Plain(made[r])
          BY <3>1, <5>1 DEF Drawn
        <5>3. y \in Rel \ todo'[r]
          BY <3>2, <5>2
        <5> QED
          BY <3>2, <5>2, <5>3 DEF Drawn, SyncNode, NodeLabel, Plain
      <4>3. CASE c \in E
        <5>1. c = x
          BY <3>4, <4>3
        <5>2. SyncNode(r, e[1]) \in Plain(made[r]) /\ SyncNode(r, e[2]) \in Plain(made[r])
          BY <4>1, <5>1 DEF x
        <5>3. e \in Rel \ todo'[r]
          BY <3>2
        <5> QED
          BY <3>2, <5>1, <5>2, <5>3 DEF Drawn, x, SyncNode, NodeLabel, Plain
      <4> QED
        BY <4>1, <4>2, <4>3
    <3>7. ASSUME NEW c \in Drawn(r, Rel \ todo[r])'
          PROVE  c \in OntologyRelationships'
      <4>1. PICK y \in Rel \ todo'[r] :
              /\ c = <<"RELATED", SyncNode(r, y[1]), SyncNode(r, y[2])>>
              /\ SyncNode(r, y[1]) \in Plain(made[r]) /\ SyncNode(r, y[2]) \in Plain(made[r])
        BY <3>2, <3>7 DEF Drawn, SyncNode, NodeLabel, Plain
      <4>2. c \in edges'
        <5>1. CASE y \notin todo[r]
          <6>1. y \in Rel \ todo[r]
            BY <5>1
          <6>2. c \in Drawn(r, Rel \ todo[r])
            BY <4>1, <6>1 DEF Drawn
          <6> QED
            BY <2>2, <3>1, <6>2 DEF OntologyRelationships
        <5>2. CASE y = e
          BY <1>6, <3>5, <4>1, <5>2 DEF x, Plain
        <5> QED
          BY <3>2, <4>1, <5>1, <5>2
      <4>3. c[1] = "RELATED" /\ c[2] \in OntologyNodes' /\ c[3] \in OntologyNodes'
        BY <3>3, <4>1
      <4> QED
        BY <4>2, <4>3 DEF OntologyRelationships
    <3>8. OntologyRelationships' = Drawn(r, Rel \ todo[r])'
      BY <3>6, <3>7
    <3>9. made'[r] \subseteq SyncNodes(r)' \cap vertices' /\ OntologyNodes' = Plain(made'[r])
      BY <2>1, <3>1, <3>2, <3>3 DEF SyncNodes, SyncNode, NodeLabel
    <3> QED
      BY <1>4, <1>5, <2>1, <2>3a, <3>8, <3>9
         DEF Work, BehaviorWork, ScenarioWork, SyncWork, SyncNodes, Plain
  <2>3. clean[r] => Work(r)'
    BY <1>1, <1>3, <1>6, <2>3a, SchemaWork
  <2> QED
    BY <1>1, <1>3, <1>4, <1>5, <1>6, <2>1, <2>2, <2>3, StatementClean
<1>7. CASE Raises(r)
  <2>1. vertices' = vertices /\ UNCHANGED edges
    BY <1>7, SameVertices DEF Raises
  <2>2. ~(clean[r] /\ Executes(r))
    BY <1>2, <1>7 DEF Raises, Executes, ControlOK
  <2> QED
    BY <1>1, <1>3, <1>4, <1>5, <1>7, <2>1, <2>2, StatementClean
<1> QED
  BY <1>1, <1>6, <1>7

---------------------------------------------------------------------------
(* All together.                                                           *)

LEMMA CleanInit == Init => CleanInv
<1> SUFFICES ASSUME Init PROVE CleanInv
  OBVIOUS
<1>1. IInv
  BY InitInv
<1>2. vertices = Given
  BY DEF Init, vertices
<1>3. ASSUME NEW r \in Request
      PROVE  pc[r] = "idle" /\ made[r] = {} /\ ~clean[r]
  BY DEF Init
<1>4. AloneOK /\ ScenariosOK
  BY <1>2, <1>3 DEF AloneOK, ScenariosOK
<1>5. \A r \in Request : WorkOK(r)
  BY <1>3 DEF WorkOK, MethodOK
<1> QED
  BY <1>1, <1>4, <1>5 DEF CleanInv

LEMMA CleanNext == CleanInv /\ [Next]_vars => CleanInv'
<1> SUFFICES ASSUME CleanInv, [Next]_vars PROVE CleanInv'
  OBVIOUS
<1>1. IInv'
  BY NextInv DEF CleanInv
<1>2. ASSUME NEW r \in Request, Call(r)
      PROVE  CleanInv'
  BY <1>1, <1>2, CallClean
<1>3. ASSUME NEW r \in Request, BehaviorStep(r)
      PROVE  CleanInv'
  BY <1>1, <1>3, MatchBehaviorClean, UnlinkFieldsClean, SetBehaviorClean, CreateBehaviorClean,
     LinkBehaviorClean, OtherClean DEF BehaviorStep
<1>4. ASSUME NEW r \in Request, ScenarioStep(r)
      PROVE  CleanInv'
  BY <1>1, <1>4, MatchScenarioClean, SetScenarioClean, CreateScenarioClean, LinkScenarioClean,
     OtherClean DEF ScenarioStep
<1>5. ASSUME NEW r \in Request, RepositoryStep(r)
      PROVE  CleanInv'
  BY <1>1, <1>5, DeleteExistingNodesClean, MatchMetaClean, WriteMetaClean, CreateNodeClean,
     LinkNodeClean, CreateRelationshipClean, OtherClean DEF RepositoryStep
<1>5a. ASSUME NEW r \in Request, SchemaStep(r)
      PROVE  CleanInv'
  BY <1>1, <1>5a, SchemaClearsClean, OtherClean DEF SchemaStep
<1>6. ASSUME NEW r \in Request, Step(r)
      PROVE  CleanInv'
  BY <1>1, <1>3, <1>4, <1>5, <1>5a, <1>6, FailsClean DEF Step
<1>7. CASE UNCHANGED vars
  <2>1. UNCHANGED <<props, edges, pc, op, schema, target, attr, age, todo, made, clean>>
    BY <1>7 DEF vars
  <2>2. vertices' = vertices
    BY <2>1, SameVertices
  <2>3. AloneOK'
    BY <2>1 DEF CleanInv, AloneOK, InFlight
  <2>4. ScenariosOK'
    BY <2>1, <2>2, ScenariosStay, TypeParts DEF CleanInv, IInv, Keeps
  <2>5. ASSUME NEW r \in Request
        PROVE  WorkOK(r)'
    <3>1. /\ BehaviorListed(r)' <=> BehaviorListed(r)
          /\ ScenarioListed(r)' <=> ScenarioListed(r)
      BY <2>1, <2>2 DEF BehaviorListed, ScenarioListed, BehaviorsOf, ListScenarios,
         GetScenario, Under, Match, Unlisted
    <3>2. /\ ExistingBehavior(r)' = ExistingBehavior(r)
          /\ GetScenario(target[r])' = GetScenario(target[r])
          /\ Written(r, NewBehavior(r))' <=> Written(r, NewBehavior(r))
          /\ Written(r, NewScenario(r))' <=> Written(r, NewScenario(r))
      BY <2>1, <2>2 DEF ExistingBehavior, BehaviorsOf, GetScenario, Under, Match, Written,
         NewBehavior, NewScenario
    <3>3. OntologyNodes' = OntologyNodes /\ OntologyRelationships' = OntologyRelationships
          /\ Drawn(r, Rel \ todo[r])' = Drawn(r, Rel \ todo[r])
      BY <2>1, <2>2 DEF OntologyNodes, OntologyRelationships, Drawn, Plain, SyncNode, NodeLabel
    <3>4. BehaviorWork(r)' <=> BehaviorWork(r)
      BY <2>1, <3>1, <3>2 DEF BehaviorWork
    <3>5. ScenarioWork(r)' <=> ScenarioWork(r)
      BY <2>1, <3>1, <3>2 DEF ScenarioWork
    <3>6. SyncWork(r)' <=> SyncWork(r)
      BY <2>1, <2>2, <3>3 DEF SyncWork, Plain, SyncNode, NodeLabel
    <3>7. MethodOK(r)' <=> MethodOK(r)
      BY <2>1 DEF MethodOK
    <3> QED
      BY <2>1, <3>4, <3>5, <3>6, <3>7 DEF CleanInv, WorkOK
  <2> QED
    BY <1>1, <2>3, <2>4, <2>5 DEF CleanInv
<1> QED
  BY <1>2, <1>6, <1>7 DEF Next

(* A call that nobody disturbs finds, at each statement, what its earlier  *)
(* ones found and wrote.                                                   *)
THEOREM CleanInvariant == Spec => []CleanInv
  BY CleanInit, CleanNext, PTL DEF Spec

(* save_behavior and save_scenario that nobody disturbed show in the lists *)
(* of their schema; a scenario, unless an earlier one was left unlisted.   *)
THEOREM CleanSaveListedHolds == Spec => []CleanSaveListed
<1>1. CleanInv => CleanSaveListed
  BY DEF CleanInv, WorkOK, BehaviorWork, ScenarioWork, CleanSaveListed, Clean
<1> QED
  BY <1>1, CleanInvariant, PTL

(* sync_ontology_schema that nobody disturbed makes the readers answer     *)
(* exactly its document, whatever the graph held before.                   *)
THEOREM CleanSyncShownHolds == Spec => []CleanSyncShown
<1>1. ASSUME CleanInv, NEW r \in Request, Clean(r, "sync")
      PROVE  LET plain == {v.id : v \in made[r]} \ Layered
             IN  /\ OntologyNodes = {[by |-> r, label |-> "node", id |-> n] : n \in plain}
                 /\ OntologyRelationships =
                      {<<"RELATED", [by |-> r, label |-> "node", id |-> e[1]],
                                    [by |-> r, label |-> "node", id |-> e[2]]>> :
                         e \in Rel \cap (plain \X plain)}
  <2> DEFINE plain == {v.id : v \in made[r]} \ Layered
             node(n) == [by |-> r, label |-> "node", id |-> n]
  <2>1. /\ made[r] \subseteq SyncNodes(r) /\ todo[r] = {}
        /\ OntologyNodes = Plain(made[r]) /\ OntologyRelationships = Drawn(r, Rel \ todo[r])
    BY <1>1 DEF CleanInv, WorkOK, SyncWork, Clean, SyncNodes
  <2>2. \A n \in NodeId \ Layered : SyncNode(r, n) = node(n)
    BY DEF SyncNode, NodeLabel
  <2>3. \A v \in made[r] : v.id \in NodeId /\ v = SyncNode(r, v.id)
    BY <2>1, NodeFacts DEF SyncNodes
  <2>4. plain \subseteq NodeId \ Layered
    BY <2>3
  <2>5. \A n \in NodeId : SyncNode(r, n) \in Plain(made[r]) <=> n \in plain
    <3> SUFFICES ASSUME NEW n \in NodeId
                 PROVE  SyncNode(r, n) \in Plain(made[r]) <=> n \in plain
      OBVIOUS
    <3>1. SyncNode(r, n).id = n /\ (SyncNode(r, n).label = "node" <=> n \notin Layered)
      BY NodeFacts
    <3>2. SyncNode(r, n) \in made[r] <=> n \in {v.id : v \in made[r]}
      BY <2>3, <3>1
    <3> QED
      BY <3>1, <3>2 DEF Plain
  <2>6. \A v \in Plain(made[r]) : v.id \in plain /\ v = node(v.id)
    BY <2>2, <2>3, <2>4, <2>5 DEF Plain
  <2>7. OntologyNodes = {node(n) : n \in plain}
    <3> HIDE DEF plain, node
    <3> QED
      BY <2>1, <2>2, <2>4, <2>5, <2>6
  <2>8. OntologyRelationships =
          {<<"RELATED", node(e[1]), node(e[2])>> : e \in Rel \cap (plain \X plain)}
    <3>1. \A e \in Rel : e = <<e[1], e[2]>> /\ e[1] \in NodeId /\ e[2] \in NodeId
      BY DEF DocumentAssumption
    <3> HIDE DEF plain, node
    <3>2. \A e \in Rel : /\ SyncNode(r, e[1]) \in Plain(made[r]) <=> e[1] \in plain
                         /\ SyncNode(r, e[2]) \in Plain(made[r]) <=> e[2] \in plain
      BY <2>5, <3>1
    <3>3. \A e \in Rel \cap (plain \X plain) :
            SyncNode(r, e[1]) = node(e[1]) /\ SyncNode(r, e[2]) = node(e[2])
      BY <2>2, <2>4
    <3>4. \A c : c \in Drawn(r, Rel) <=>
                 \E e \in Rel \cap (plain \X plain) : c = <<"RELATED", node(e[1]), node(e[2])>>
      BY <3>1, <3>2, <3>3 DEF Drawn
    <3>5. Rel \ todo[r] = Rel
      BY <2>1
    <3> QED
      BY <2>1, <3>4, <3>5
  <2> QED
    BY <2>7, <2>8
<1>2. CleanInv => CleanSyncShown
  BY <1>1 DEF CleanSyncShown
<1> QED
  BY <1>2, CleanInvariant, PTL
=============================================================================
