------------------------- MODULE SchemaStore_proofs -------------------------
(***************************************************************************)
(* Proofs about SchemaStore, for every set of requests, schemas, nodes and *)
(* documents and for every bound: IInv is an invariant, and with it type   *)
(* correctness, GraphIntegrity, CleanSaveMirrors and DeletesStayInSchema.  *)
(* With one client SerialInv is an invariant too, hence OneVertexPerSchema *)
(* and CacheMatchesGraph, and the store implements SchemaRegistry.         *)
(***************************************************************************)
EXTENDS SchemaStoreRefinement, FiniteSetTheorems, TLAPS

USE DEF db, graph, tables, memory, local, loop

(* A document with one field of one of its nodes changed is a document     *)
(* with the same nodes.                                                    *)
LEMMA ContentUpdate ==
  ASSUME NEW c \in Content, NEW n \in DOMAIN c, NEW a \in Attr
  PROVE  /\ [c EXCEPT ![n] = a] \in Content
         /\ DOMAIN [c EXCEPT ![n] = a] = DOMAIN c
<1>1. PICK N \in SUBSET NodeId : c \in [N -> Attr]
  BY DEF Content
<1>2. [c EXCEPT ![n] = a] \in [N -> Attr]
  BY <1>1
<1> QED
  BY <1>1, <1>2 DEF Content

(* What a document looks like.                                             *)
LEMMA ContentShape ==
  ASSUME NEW c \in Content
  PROVE  DOMAIN c \subseteq NodeId /\ \A n \in DOMAIN c : c[n] \in Attr
BY DEF Content

(* SET of the JSON keeps the vertices, their makers and their ids.         *)
LEMMA WithJsonShape ==
  ASSUME NEW s, NEW j \in Content, schemaV \subseteq SchemaVertex
  PROVE  /\ WithJson(s, j) \subseteq SchemaVertex
         /\ \A w \in WithJson(s, j) : \E v \in schemaV :
              /\ v.by = w.by /\ v.id = w.id
              /\ w.json = IF v.id = s THEN j ELSE v.json
         /\ \A v \in schemaV : \E w \in WithJson(s, j) :
              /\ v.by = w.by /\ v.id = w.id
              /\ w.json = IF v.id = s THEN j ELSE v.json
<1>1. \A v \in schemaV :
        LET w == IF v.id = s THEN [v EXCEPT !.json = j] ELSE v
        IN  /\ w \in SchemaVertex /\ w \in WithJson(s, j)
            /\ v.by = w.by /\ v.id = w.id
            /\ w.json = IF v.id = s THEN j ELSE v.json
  BY DEF WithJson, SchemaVertex
<1> QED
  BY <1>1 DEF WithJson

(* Types and references hold initially.                                    *)
LEMMA InitTypes == Init => TypeOK /\ RefsOK
BY ConstantAssumption DEF Init, TypeOK, RefsOK, PC, Saving

(* A call that begins has a schema and a clean flag.                       *)
LEMMA BeginTypes ==
  ASSUME TypeOK, NEW r \in Request, NEW s \in Schema, Begin(r, s)
  PROVE  /\ sid' \in [Request -> Schema \cup {None}]
         /\ clean' \in [Request -> BOOLEAN]
BY DEF TypeOK, Begin

(* SaveSchema keeps the types and the references.                          *)
LEMMA SaveSchemaTypes ==
  ASSUME TypeOK, RefsOK, NEW r \in Request, NEW s \in Schema, NEW c \in Posted,
         SaveSchema(r, s, c)
  PROVE  TypeOK' /\ RefsOK'
<1>1. c \in Content
  BY ConstantAssumption
<1>2. [id |-> s, content |-> c] \in Dict
  BY <1>1 DEF Dict
<1>3. TypeOK'
  BY <1>2, BeginTypes DEF TypeOK, SaveSchema, Begin, Goto, PC
<1>4. RefsOK'
  BY <1>2, ConstantAssumption DEF TypeOK, RefsOK, SaveSchema, Begin, Goto, Saving, Doc
<1> QED
  BY <1>3, <1>4

(* A statement that executes or raises counts within the bounds.           *)
LEMMA OutcomeTypes ==
  ASSUME TypeOK, NEW r \in Request, NEW ok \in BOOLEAN, Outcome(r, ok)
  PROVE  /\ clean' \in [Request -> BOOLEAN]
         /\ faults' \in 0..MaxFaults
         /\ crashes' \in 0..MaxCrashes
<1>1. clean' \in [Request -> BOOLEAN]
  BY DEF TypeOK, Outcome
<1>2. faults' \in 0..MaxFaults /\ crashes' \in 0..MaxCrashes
  BY ConstantAssumption DEF TypeOK, Outcome
<1> QED
  BY <1>1, <1>2

(* UpdateNode keeps the types and the references.                          *)
LEMMA UpdateNodeTypes ==
  ASSUME TypeOK, RefsOK, NEW r \in Request, NEW n \in NodeId, NEW a \in Attr,
         UpdateNode(r, n, a)
  PROVE  TypeOK' /\ RefsOK'
<1> DEFINE d == dict[active]
           c == [d.content EXCEPT ![n] = a]
<1>1. active \in Request /\ d \in Dict /\ d.content \in Content /\ d.id \in Schema
      /\ n \in DOMAIN d.content
  BY DEF UpdateNode, TypeOK, RefsOK, Dict
<1>2. c \in Content /\ DOMAIN c = DOMAIN d.content
  BY <1>1, ContentUpdate
<1>3. dict' = [dict EXCEPT ![active] = [d EXCEPT !.content = c]]
  BY <1>1 DEF UpdateNode
<1>4. [d EXCEPT !.content = c] = [id |-> d.id, content |-> c]
  BY <1>1 DEF Dict
<1>5. dict'[active] \in Dict /\ dict'[active].id = d.id
      /\ DOMAIN dict'[active].content = DOMAIN d.content
  BY <1>1, <1>2, <1>3, <1>4 DEF Dict, TypeOK
<1>6. dict' \in [Request -> Dict \cup {None}]
      /\ \A q \in Request : q # active => dict'[q] = dict[q]
  BY <1>1, <1>3, <1>5 DEF TypeOK
<1>7. TypeOK'
  BY <1>1, <1>6, BeginTypes DEF TypeOK, UpdateNode, Begin, Goto, PC
<1>8. RefsOK'
  BY <1>1, <1>5, <1>6, ConstantAssumption
  DEF TypeOK, RefsOK, UpdateNode, Begin, Goto, Saving, Doc
<1> QED
  BY <1>7, <1>8

(* SetActiveSchema keeps the types and the references.                     *)
LEMMA SetActiveSchemaTypes ==
  ASSUME TypeOK, RefsOK, NEW r \in Request, NEW s \in Schema,
         SetActiveSchema(r, s)
  PROVE  TypeOK' /\ RefsOK'
<1>1. TypeOK'
  BY BeginTypes DEF TypeOK, SetActiveSchema, Begin, Goto, PC
<1>2. RefsOK'
  BY DEF TypeOK, RefsOK, SetActiveSchema, Begin, Goto, Saving, Doc
<1> QED
  BY <1>1, <1>2

(* DeleteSchema keeps the types and the references.                        *)
LEMMA DeleteSchemaTypes ==
  ASSUME TypeOK, RefsOK, NEW r \in Request, NEW s \in Schema, DeleteSchema(r, s)
  PROVE  TypeOK' /\ RefsOK'
<1>1. TypeOK'
  BY BeginTypes DEF TypeOK, DeleteSchema, Begin, Goto, PC
<1>2. RefsOK'
  BY DEF TypeOK, RefsOK, DeleteSchema, Begin, Goto, Saving, Doc
<1> QED
  BY <1>1, <1>2

(* DETACH DELETE keeps the types of the graph.                             *)
LEMMA DetachDeleteTypes ==
  ASSUME TypeOK, NEW D, DetachDelete(D)
  PROVE  /\ nodeV' \subseteq NodeVertex
         /\ hasNode' \subseteq Request \X NodeVertex
         /\ effects' \subseteq NodeVertex \X NodeVertex
BY DEF TypeOK, DetachDelete

(* DeleteSchemaNodes keeps the types and the references.                   *)
LEMMA DeleteSchemaNodesTypes ==
  ASSUME TypeOK, RefsOK, NEW r \in Request, NEW ok \in BOOLEAN,
         DeleteSchemaNodes(r, ok)
  PROVE  TypeOK' /\ RefsOK'
<1>1. /\ nodeV' \subseteq NodeVertex
      /\ hasNode' \subseteq Request \X NodeVertex
      /\ effects' \subseteq NodeVertex \X NodeVertex
  BY DetachDeleteTypes DEF DeleteSchemaNodes, TypeOK
<1>2. TypeOK'
  BY <1>1, OutcomeTypes DEF TypeOK, DeleteSchemaNodes, Goto, PC
<1>3. RefsOK'
  BY DEF TypeOK, RefsOK, DeleteSchemaNodes, Goto, Saving, Doc
<1> QED
  BY <1>2, <1>3

(* MatchMeta keeps the types and the references.                           *)
LEMMA MatchMetaTypes ==
  ASSUME TypeOK, RefsOK, NEW r \in Request, NEW ok \in BOOLEAN, MatchMeta(r, ok)
  PROVE  TypeOK' /\ RefsOK'
<1>1. TypeOK'
  BY OutcomeTypes DEF TypeOK, MatchMeta, AfterMatch, Goto, PC
<1>2. RefsOK'
  BY DEF TypeOK, RefsOK, MatchMeta, AfterMatch, Goto, Saving, Doc
<1> QED
  BY <1>1, <1>2

(* The document of a coroutine that holds one.                             *)
LEMMA HeldDoc ==
  ASSUME TypeOK, RefsOK, NEW r \in Request, pc[r] \in Saving \cup {"adopt"}
  PROVE  /\ obj[r] \in Request /\ dict[obj[r]] \in Dict
         /\ Doc(r) \in Content /\ DOMAIN Doc(r) \subseteq NodeId
         /\ sid[r] \in Schema /\ dict[obj[r]].id = sid[r]
BY ContentShape DEF TypeOK, RefsOK, Doc, Dict, Saving

(* WriteMeta keeps the types and the references.                           *)
LEMMA WriteMetaTypes ==
  ASSUME TypeOK, RefsOK, NEW r \in Request, NEW ok \in BOOLEAN, WriteMeta(r, ok)
  PROVE  TypeOK' /\ RefsOK'
<1>1. /\ Doc(r) \in Content /\ DOMAIN Doc(r) \subseteq NodeId
      /\ sid[r] \in Schema /\ Doc(r)' = Doc(r)
  BY HeldDoc DEF WriteMeta, Saving, Doc
<1>2. schemaV' \subseteq SchemaVertex
  BY <1>1, WithJsonShape DEF WriteMeta, Written, TypeOK, SchemaVertex
<1>3. TypeOK'
  BY <1>1, <1>2, OutcomeTypes DEF TypeOK, WriteMeta, Goto, PC
<1>4. RefsOK'
  BY <1>1 DEF TypeOK, RefsOK, WriteMeta, Goto, Saving, Doc
<1> QED
  BY <1>3, <1>4

(* CreateNode keeps the types and the references.                          *)
LEMMA CreateNodeTypes ==
  ASSUME TypeOK, RefsOK, NEW r \in Request, NEW n \in NodeId, CreateNode(r, n)
  PROVE  TypeOK' /\ RefsOK'
<1> DEFINE x == [by |-> r, node |-> n, attr |-> Doc(r)[n]]
<1>1. x \in NodeVertex
  BY HeldDoc, ContentShape DEF CreateNode, RefsOK, Saving, NodeVertex
<1>2. TypeOK'
  BY <1>1 DEF TypeOK, CreateNode, NoFault, Goto, PC
<1>3. RefsOK'
  BY <1>1 DEF TypeOK, RefsOK, CreateNode, NoFault, Goto, Saving, Doc
<1> QED
  BY <1>2, <1>3

(* CreateNodeFails keeps the types and the references.                     *)
LEMMA CreateNodeFailsTypes ==
  ASSUME TypeOK, RefsOK, NEW r \in Request, NEW n \in NodeId, CreateNodeFails(r, n)
  PROVE  TypeOK' /\ RefsOK'
<1>1. TypeOK'
  BY OutcomeTypes DEF TypeOK, CreateNodeFails
<1>2. RefsOK'
  BY DEF TypeOK, RefsOK, CreateNodeFails, Saving, Doc
<1> QED
  BY <1>1, <1>2

(* LinkNode keeps the types and the references.                            *)
LEMMA LinkNodeTypes ==
  ASSUME TypeOK, RefsOK, NEW r \in Request, NEW ok \in BOOLEAN, LinkNode(r, ok)
  PROVE  TypeOK' /\ RefsOK'
<1>1. cur[r] \in NodeVertex
  BY DEF LinkNode, RefsOK
<1>2. hasNode' \subseteq Request \X NodeVertex
  BY <1>1 DEF LinkNode, TypeOK, VerticesOf, SchemaVertex
<1>3. TypeOK'
  BY <1>1, <1>2, OutcomeTypes DEF TypeOK, LinkNode, Mapped, Goto, PC
<1>4. RefsOK'
  BY DEF TypeOK, RefsOK, LinkNode, Goto, Saving, Doc
<1> QED
  BY <1>3, <1>4

(* CreateRelationship keeps the types and the references.                  *)
LEMMA CreateRelationshipTypes ==
  ASSUME TypeOK, RefsOK, NEW r \in Request, NEW e \in Edge, NEW ok \in BOOLEAN,
         CreateRelationship(r, e, ok)
  PROVE  TypeOK' /\ RefsOK'
<1>1. effects' \subseteq NodeVertex \X NodeVertex
  BY DEF CreateRelationship, TypeOK, Ends
<1>2. TypeOK'
  BY <1>1, OutcomeTypes DEF TypeOK, CreateRelationship
<1>3. RefsOK'
  BY DEF TypeOK, RefsOK, CreateRelationship, Saving, Doc
<1> QED
  BY <1>2, <1>3

(* EnsureLabelFails keeps the types and the references.                    *)
LEMMA EnsureLabelFailsTypes ==
  ASSUME TypeOK, RefsOK, NEW r \in Request, EnsureLabelFails(r)
  PROVE  TypeOK' /\ RefsOK'
<1>1. TypeOK'
  BY OutcomeTypes DEF TypeOK, EnsureLabelFails, Goto, PC
<1>2. RefsOK'
  BY DEF TypeOK, RefsOK, EnsureLabelFails, Goto, Saving, Doc
<1> QED
  BY <1>1, <1>2

(* SetSchemaJson keeps the types and the references.                       *)
LEMMA SetSchemaJsonTypes ==
  ASSUME TypeOK, RefsOK, NEW r \in Request, NEW ok \in BOOLEAN, SetSchemaJson(r, ok)
  PROVE  TypeOK' /\ RefsOK'
<1>1. Doc(r) \in Content
  BY HeldDoc DEF SetSchemaJson, Saving
<1>2. schemaV' \subseteq SchemaVertex
  BY <1>1, WithJsonShape DEF SetSchemaJson, TypeOK
<1>3. TypeOK'
  BY <1>2, OutcomeTypes DEF TypeOK, SetSchemaJson, Goto, PC
<1>4. RefsOK'
  BY DEF TypeOK, RefsOK, SetSchemaJson, Goto, Saving, Doc
<1> QED
  BY <1>3, <1>4

(* UpsertRdb keeps the types and the references.                           *)
LEMMA UpsertRdbTypes ==
  ASSUME TypeOK, RefsOK, NEW r \in Request, NEW ok \in BOOLEAN, UpsertRdb(r, ok)
  PROVE  TypeOK' /\ RefsOK'
<1>1. Doc(r) \in Content /\ sid[r] \in Schema
  BY HeldDoc DEF UpsertRdb, Saving
<1>2. TypeOK'
  BY <1>1, OutcomeTypes DEF TypeOK, UpsertRdb, Goto, PC
<1>3. RefsOK'
  BY <1>1 DEF TypeOK, RefsOK, UpsertRdb, Goto, Saving, Doc
<1> QED
  BY <1>2, <1>3

(* InsertVersion keeps the types and the references.                       *)
LEMMA InsertVersionTypes ==
  ASSUME TypeOK, RefsOK, NEW r \in Request, NEW ok \in BOOLEAN, InsertVersion(r, ok)
  PROVE  TypeOK' /\ RefsOK'
<1>1. snap[r] \in Content /\ sid[r] \in Schema
  BY DEF InsertVersion, RefsOK
<1>2. TypeOK'
  BY <1>1, OutcomeTypes DEF TypeOK, InsertVersion, Goto, PC
<1>3. RefsOK'
  BY DEF TypeOK, RefsOK, InsertVersion, Goto, Saving, Doc
<1> QED
  BY <1>2, <1>3

(* Install keeps the types and the references.                             *)
LEMMA InstallTypes ==
  ASSUME TypeOK, RefsOK, NEW r \in Request, Install(r)
  PROVE  TypeOK' /\ RefsOK'
<1>1. TypeOK'
  BY DEF TypeOK, Install, NoFault, Goto, PC
<1>2. RefsOK'
  BY DEF TypeOK, RefsOK, Install, NoFault, Goto, Saving, Doc
<1> QED
  BY <1>1, <1>2

(* ReadSchema keeps the types and the references.                          *)
LEMMA ReadSchemaTypes ==
  ASSUME TypeOK, RefsOK, NEW r \in Request, ReadSchema(r)
  PROVE  TypeOK' /\ RefsOK'
<1>1. PICK d \in Dict : d.id = sid[r] /\ dict' = [dict EXCEPT ![r] = d]
  BY DEF ReadSchema, RefsOK, TypeOK, VerticesOf, SchemaVertex, Dict
<1>2. TypeOK'
  BY <1>1 DEF TypeOK, ReadSchema, NoFault, Goto, PC
<1>3. RefsOK'
  BY <1>1, ConstantAssumption DEF TypeOK, RefsOK, ReadSchema, NoFault, Goto, Saving, Doc
<1> QED
  BY <1>2, <1>3

(* ReadNothing keeps the types and the references.                         *)
LEMMA ReadNothingTypes ==
  ASSUME TypeOK, RefsOK, NEW r \in Request, NEW ok \in BOOLEAN, ReadNothing(r, ok)
  PROVE  TypeOK' /\ RefsOK'
<1>1. TypeOK'
  BY OutcomeTypes DEF TypeOK, ReadNothing, Goto, PC
<1>2. RefsOK'
  BY DEF TypeOK, RefsOK, ReadNothing, Goto, Saving, Doc
<1> QED
  BY <1>1, <1>2

(* DropNodes keeps the types and the references.                           *)
LEMMA DropNodesTypes ==
  ASSUME TypeOK, RefsOK, NEW r \in Request, NEW ok \in BOOLEAN, DropNodes(r, ok)
  PROVE  TypeOK' /\ RefsOK'
<1>1. /\ nodeV' \subseteq NodeVertex
      /\ hasNode' \subseteq Request \X NodeVertex
      /\ effects' \subseteq NodeVertex \X NodeVertex
  BY DetachDeleteTypes DEF DropNodes, TypeOK
<1>2. TypeOK'
  BY <1>1, OutcomeTypes DEF TypeOK, DropNodes, Goto, PC
<1>3. RefsOK'
  BY DEF TypeOK, RefsOK, DropNodes, Goto, Saving, Doc
<1> QED
  BY <1>2, <1>3

(* DropSchema keeps the types and the references.                          *)
LEMMA DropSchemaTypes ==
  ASSUME TypeOK, RefsOK, NEW r \in Request, NEW ok \in BOOLEAN, DropSchema(r, ok)
  PROVE  TypeOK' /\ RefsOK'
<1>1. TypeOK'
  BY OutcomeTypes DEF TypeOK, DropSchema, Goto, PC
<1>2. RefsOK'
  BY DEF TypeOK, RefsOK, DropSchema, Goto, Saving, Doc
<1> QED
  BY <1>1, <1>2

(* Forget keeps the types and the references.                              *)
LEMMA ForgetTypes ==
  ASSUME TypeOK, RefsOK, NEW r \in Request, Forget(r)
  PROVE  TypeOK' /\ RefsOK'
<1>1. TypeOK'
  BY DEF TypeOK, Forget, ActiveAfterDelete, NoFault, Goto, PC
<1>2. RefsOK'
  BY DEF TypeOK, RefsOK, Forget, ActiveAfterDelete, NoFault, Goto, Saving, Doc
<1> QED
  BY <1>1, <1>2

(* A restart keeps the types and the references.                           *)
LEMMA CrashTypes ==
  ASSUME TypeOK, RefsOK, Crash
  PROVE  TypeOK' /\ RefsOK'
<1>1. TypeOK'
  BY ConstantAssumption DEF TypeOK, Crash, PC
<1>2. RefsOK'
  BY DEF TypeOK, RefsOK, Crash, InFlight, Ended, Saving, Doc
<1> QED
  BY <1>1, <1>2

(***************************************************************************)
(* OwnersOK.                                                               *)
(***************************************************************************)

(* The empty graph is owned.                                               *)
LEMMA InitOwners == Init => OwnersOK
BY DEF Init, OwnersOK

(* A request that begins owns nothing yet.                                 *)
LEMMA BeginOwners ==
  ASSUME TypeOK, OwnersOK, NEW r \in Request, NEW s \in Schema, NEW l,
         Begin(r, s), Goto(r, l)
  PROVE  OwnersOK'
<1>1. /\ \A v \in schemaV : v.by # r
      /\ \A x \in nodeV : x.by # r
      /\ \A e \in hasNode : e[1] # r
  <2>1. pc[r] \notin Synced \cup Ended
    BY DEF Begin, Synced, Ended
  <2>2. (\A v \in schemaV : v.by # r) /\ (\A x \in nodeV : x.by # r)
    BY <2>1 DEF OwnersOK
  <2> QED
    BY <2>2 DEF OwnersOK
<1>2. /\ UNCHANGED <<schemaV, nodeV, hasNode, effects, todo, made>>
      /\ \A q \in Request \ {r} : pc'[q] = pc[q] /\ sid'[q] = sid[q]
  BY DEF TypeOK, Begin, Goto, db, graph, loop
<1>3. \A x \in made[r] : FALSE
  BY DEF TypeOK, OwnersOK, Begin, Synced, Ended
<1> QED
  BY <1>1, <1>2, <1>3 DEF TypeOK, OwnersOK, SchemaVertex, NodeVertex

(* A step that leaves the graph and the loop alone and moves its coroutine *)
(* forward.                                                                *)
LEMMA QuietOwners ==
  ASSUME TypeOK, OwnersOK, NEW r \in Request, NEW l, Goto(r, l),
         UNCHANGED <<graph, sid, loop>>,
         pc[r] \in Synced \cup Ended => l \in Synced \cup Ended,
         l \in {"sync", "link"} => pc[r] \in {"sync", "link"}
  PROVE  OwnersOK'
BY DEF TypeOK, OwnersOK, Goto, SchemaVertex, NodeVertex

(* A restart keeps every vertex with its maker.                            *)
LEMMA CrashOwners ==
  ASSUME TypeOK, OwnersOK, Crash
  PROVE  OwnersOK'
<1>1. \A q \in Request : pc'[q] \in {pc[q], "failed"}
  BY DEF TypeOK, Crash
<1> QED
  BY <1>1 DEF TypeOK, OwnersOK, Crash, Ended, SchemaVertex, NodeVertex

(* DETACH DELETE leaves no edge behind.                                    *)
LEMMA DetachOwners ==
  ASSUME TypeOK, OwnersOK, NEW r \in Request, NEW l, NEW D, Goto(r, l),
         pc[r] \notin Synced \cup Ended, l \notin Synced \cup Ended,
         DetachDelete(D), UNCHANGED <<schemaV, sid, loop>>
  PROVE  OwnersOK'
BY DEF TypeOK, OwnersOK, Goto, DetachDelete, Synced, SchemaVertex, NodeVertex

(* WriteMeta keeps every vertex with its maker.                            *)
LEMMA WriteMetaOwners ==
  ASSUME TypeOK, RefsOK, OwnersOK, NEW r \in Request, NEW ok \in BOOLEAN,
         WriteMeta(r, ok)
  PROVE  OwnersOK'
<1>1. Doc(r) \in Content /\ sid[r] \in Schema /\ pc[r] \notin Synced \cup Ended
  BY HeldDoc DEF WriteMeta, Saving, Synced, Ended
<1>2. /\ pc'[r] \in Synced \cup Ended
      /\ \A q \in Request : q # r => pc'[q] = pc[q] /\ todo'[q] = todo[q]
  BY DEF WriteMeta, Goto, TypeOK, Synced, Ended
<1>3. \/ schemaV' = schemaV
      \/ schemaV' = WithJson(sid[r], Doc(r))
      \/ schemaV' = schemaV \cup {[by |-> r, id |-> sid[r], json |-> Doc(r)]}
  BY DEF WriteMeta, Written
<1>4. /\ \A w \in WithJson(sid[r], Doc(r)) : \E v \in schemaV : v.by = w.by /\ v.id = w.id
      /\ \A v \in schemaV : \E w \in WithJson(sid[r], Doc(r)) : w.by = v.by
  BY <1>1, WithJsonShape DEF TypeOK
<1>5. \A w \in schemaV' : (\E v \in schemaV : v.by = w.by /\ v.id = w.id)
                         \/ (w.by = r /\ w.id = sid[r])
  BY <1>3, <1>4
<1>6. \A v \in schemaV : \E w \in schemaV' : w.by = v.by
  BY <1>3, <1>4
<1>7. \A w \in schemaV' : w.id = sid'[w.by] /\ pc'[w.by] \in Synced \cup Ended
  BY <1>2, <1>5 DEF OwnersOK, WriteMeta, TypeOK, SchemaVertex
<1>8. \A x \in nodeV' : /\ pc'[x.by] \in Synced \cup Ended
                        /\ pc'[x.by] \in {"sync", "link"} => x.node \notin todo'[x.by]
  BY <1>1, <1>2 DEF OwnersOK, WriteMeta, TypeOK, NodeVertex
<1>9. \A q \in Request : \A x \in made'[q] : x.by = q /\ pc'[q] \in Synced \cup Ended
  BY <1>1, <1>2 DEF OwnersOK, WriteMeta
<1> QED
  BY <1>6, <1>7, <1>8, <1>9 DEF OwnersOK, WriteMeta

(* CreateNode keeps every vertex with its maker.                           *)
LEMMA CreateNodeOwners ==
  ASSUME TypeOK, RefsOK, OwnersOK, NEW r \in Request, NEW n \in NodeId,
         CreateNode(r, n)
  PROVE  OwnersOK'
<1> DEFINE x == [by |-> r, node |-> n, attr |-> Doc(r)[n]]
<1>1. nodeV' = nodeV \cup {x} /\ x.by = r /\ x.node = n
  BY DEF CreateNode
<1>2. /\ pc' = [pc EXCEPT ![r] = "link"] /\ pc[r] = "sync"
      /\ todo' = [todo EXCEPT ![r] = todo[r] \ {n}]
      /\ UNCHANGED <<schemaV, hasNode, effects, sid, made>>
  BY DEF CreateNode, Goto
<1> QED
  BY <1>1, <1>2 DEF OwnersOK, TypeOK, NodeVertex, SchemaVertex, Synced

(* CreateNodeFails keeps every vertex with its maker.                      *)
LEMMA CreateNodeFailsOwners ==
  ASSUME TypeOK, OwnersOK, NEW r \in Request, NEW n \in NodeId,
         CreateNodeFails(r, n)
  PROVE  OwnersOK'
BY DEF TypeOK, OwnersOK, CreateNodeFails, NodeVertex, SchemaVertex

(* LinkNode keeps every vertex with its maker.                             *)
LEMMA LinkNodeOwners ==
  ASSUME TypeOK, RefsOK, OwnersOK, NEW r \in Request, NEW ok \in BOOLEAN,
         LinkNode(r, ok)
  PROVE  OwnersOK'
<1>1. cur[r] \in NodeVertex /\ cur[r].by = r /\ sid[r] \in Schema
  BY DEF LinkNode, RefsOK
<1>2. \A e \in hasNode' : \/ e \in hasNode
                         \/ /\ e[2] = cur[r] /\ cur[r] \in nodeV
                            /\ \E v \in schemaV : v.by = e[1] /\ v.id = sid[r]
  BY DEF LinkNode, VerticesOf
<1>3. \A e \in hasNode' : /\ e[2] \in nodeV
                          /\ \E v \in schemaV : v.by = e[1]
                          /\ sid[e[1]] = sid[e[2].by]
  BY <1>1, <1>2 DEF OwnersOK
<1>4. \A q \in Request : \A x \in made'[q] : x.by = q /\ pc'[q] \in Synced \cup Ended
  <2>1. pc' = [pc EXCEPT ![r] = "sync"] /\ pc \in [Request -> PC]
        /\ made \in [Request -> SUBSET NodeVertex]
    BY DEF LinkNode, Goto, TypeOK
  <2>2. made' = [made EXCEPT ![r] = made[r] \cup Mapped(r, ok)]
        /\ \A x \in Mapped(r, ok) : x.by = r
    BY <1>1 DEF LinkNode, Mapped
  <2> QED
    BY <2>1, <2>2 DEF OwnersOK, Synced
<1>5. /\ pc' = [pc EXCEPT ![r] = "sync"] /\ pc[r] = "link"
      /\ UNCHANGED <<schemaV, nodeV, effects, sid, todo>>
  BY DEF LinkNode, Goto
<1> QED
  BY <1>3, <1>4, <1>5 DEF OwnersOK, TypeOK, NodeVertex, SchemaVertex, Synced

(* CreateRelationship keeps every vertex with its maker.                   *)
LEMMA CreateRelationshipOwners ==
  ASSUME TypeOK, OwnersOK, NEW r \in Request, NEW e \in Edge, NEW ok \in BOOLEAN,
         CreateRelationship(r, e, ok)
  PROVE  OwnersOK'
<1>1. \A f \in effects' : f[1] \in nodeV /\ f[2] \in nodeV /\ f[1].by = f[2].by
  BY DEF OwnersOK, CreateRelationship, Ends
<1> QED
  BY <1>1 DEF OwnersOK, CreateRelationship

(* SetSchemaJson keeps every vertex with its maker.                        *)
LEMMA SetSchemaJsonOwners ==
  ASSUME TypeOK, RefsOK, OwnersOK, NEW r \in Request, NEW ok \in BOOLEAN,
         SetSchemaJson(r, ok)
  PROVE  OwnersOK'
<1>1. Doc(r) \in Content
  BY HeldDoc DEF SetSchemaJson, Saving
<1>2. /\ \A w \in schemaV' : \E v \in schemaV : v.by = w.by /\ v.id = w.id
      /\ \A v \in schemaV : \E w \in schemaV' : w.by = v.by
  BY <1>1, WithJsonShape DEF SetSchemaJson, TypeOK
<1>3. /\ pc' = [pc EXCEPT ![r] = "rdb"] /\ pc[r] = "sync"
      /\ UNCHANGED <<nodeV, hasNode, effects, sid, made, todo>>
  BY DEF SetSchemaJson, Goto
<1> QED
  BY <1>2, <1>3 DEF OwnersOK, TypeOK, NodeVertex, SchemaVertex, Synced

(* DropSchema keeps every vertex with its maker.                           *)
LEMMA DropSchemaOwners ==
  ASSUME TypeOK, OwnersOK, NEW r \in Request, NEW ok \in BOOLEAN, DropSchema(r, ok)
  PROVE  OwnersOK'
<1> DEFINE V == IF ok THEN VerticesOf(sid[r]) ELSE {}
<1>1. /\ schemaV' = schemaV \ V
      /\ hasNode' = {e \in hasNode : \A v \in V : e[1] # v.by}
  BY DEF DropSchema
<1>2. \A e \in hasNode' : e \in hasNode /\ \E v \in schemaV' : v.by = e[1]
  BY <1>1 DEF OwnersOK
<1>3. /\ pc' = [pc EXCEPT ![r] = IF ok THEN "forget" ELSE "failed"]
      /\ pc[r] = "dropSchema"
      /\ UNCHANGED <<nodeV, effects, sid, made, todo>>
  BY DEF DropSchema, Goto
<1> HIDE DEF V
<1> QED
  BY <1>1, <1>2, <1>3 DEF OwnersOK, TypeOK, NodeVertex, SchemaVertex, Synced, Ended

(***************************************************************************)
(* CleanOK.  A step of q that concerns another schema than r's does not    *)
(* touch what Progress(r) speaks of.                                       *)
(***************************************************************************)

(* The coroutine's own variables are as they were.                         *)
Idles(r) ==
  /\ pc'[r] = pc[r] /\ sid'[r] = sid[r]
  /\ todo'[r] = todo[r] /\ made'[r] = made[r] /\ cur'[r] = cur[r]
  /\ rels'[r] = rels[r]

(* So is what the database holds about its schema.                         *)
Untouched(r) ==
  /\ VerticesOf(sid[r])' = VerticesOf(sid[r])
  /\ TypeChildren(sid[r])' = TypeChildren(sid[r])
  /\ \A x \in nodeV : x.by = r => x \in nodeV'
  /\ \A x, y : x.by = r \/ y.by = r =>
                (<<x, y>> \in effects' <=> <<x, y>> \in effects)
  /\ rdb'[sid[r]] = rdb[sid[r]]

(* Progress is about those and the document only.                          *)
LEMMA Frame ==
  ASSUME OwnersOK, NEW r \in Request, Idles(r), Untouched(r),
         Doc(r)' = Doc(r), Progress(r)
  PROVE  Progress(r)'
<1>1. Reached(r)' = Reached(r)
  BY DEF Idles, Reached
<1>2. Linkable(r)' = Linkable(r)
  BY DEF Idles, Linkable, Ends
<1>3. VerticesOf(sid[r])' = VerticesOf(sid[r])
      /\ TypeChildren(sid[r])' = TypeChildren(sid[r])
  BY DEF Untouched
<1>4. \A x \in made[r] : x.by = r
  BY DEF OwnersOK
<1>5. ASSUME pc[r] \in Synced
      PROVE  /\ made[r] \subseteq nodeV'
             /\ \A x, y \in made[r] :
                  <<x, y>> \in effects' <=> <<x.node, y.node>> \in Edge \ rels[r]
  BY <1>4, <1>5 DEF Progress, Untouched
<1>6. ASSUME pc[r] = "link"
      PROVE  /\ cur[r] \in nodeV'
             /\ \A x \in nodeV' : <<x, cur[r]>> \notin effects'
                                  /\ <<cur[r], x>> \notin effects'
  <2>1. cur[r] \in nodeV /\ cur[r].by = r
    BY <1>6 DEF Progress
  <2>2. \A x : <<x, cur[r]>> \notin effects /\ <<cur[r], x>> \notin effects
    BY <1>6 DEF Progress, OwnersOK
  <2> QED
    BY <2>1, <2>2 DEF Untouched
<1> QED
  BY <1>1, <1>2, <1>3, <1>5, <1>6 DEF Progress, Idles, Untouched

(* The children of a schema were made by requests about it.                *)
LEMMA ChildOwner ==
  ASSUME OwnersOK, NEW s
  PROVE  \A x \in Children(s) : sid[x.by] = s
BY DEF OwnersOK, Children, VerticesOf

(* A statement that leaves the graph alone.                                *)
LEMMA QuietElsewhere ==
  ASSUME NEW r \in Request, sid'[r] = sid[r], UNCHANGED graph,
         rdb'[sid[r]] = rdb[sid[r]]
  PROVE  Untouched(r)
BY DEF Untouched, VerticesOf, TypeChildren, Children

(* Deleting the children of another schema.                                *)
LEMMA DetachElsewhere ==
  ASSUME OwnersOK, NEW q \in Request, NEW r \in Request, sid[q] # sid[r],
         sid'[r] = sid[r], UNCHANGED <<schemaV, rdb>>,
         DetachDelete(TypeChildren(sid[q]))
  PROVE  Untouched(r)
<1> DEFINE D == TypeChildren(sid[q])
<1>1. \A x \in D : sid[x.by] # sid[r] /\ x.by # r
  BY ChildOwner DEF TypeChildren
<1>2. \A x \in TypeChildren(sid[r]) : x \notin D
  BY ChildOwner DEF TypeChildren
<1>3. VerticesOf(sid[r])' = VerticesOf(sid[r])
  BY DEF VerticesOf
<1> HIDE DEF D
<1>4. nodeV' = nodeV \ D /\ hasNode' = {e \in hasNode : e[2] \notin D}
      /\ effects' = {e \in effects : e[1] \notin D /\ e[2] \notin D}
  BY DEF DetachDelete, D
<1>5. TypeChildren(sid[r])' = TypeChildren(sid[r])
  BY <1>2, <1>3, <1>4 DEF TypeChildren, Children
<1>6. \A x, y : <<x, y>> \in effects /\ (x.by = r \/ y.by = r) => x \notin D /\ y \notin D
  BY <1>1 DEF OwnersOK
<1> QED
  BY <1>1, <1>3, <1>4, <1>5, <1>6 DEF Untouched

(* Writing the vertices of another schema.                                 *)
LEMMA WriteElsewhere ==
  ASSUME OwnersOK, NEW q \in Request, NEW r \in Request, sid[q] # sid[r],
         sid'[r] = sid[r], UNCHANGED <<nodeV, hasNode, effects, rdb>>,
         NEW j,
         \/ schemaV' = schemaV
         \/ schemaV' = WithJson(sid[q], j)
         \/ schemaV' = schemaV \cup {[by |-> q, id |-> sid[q], json |-> j]},
         schemaV \subseteq SchemaVertex
  PROVE  Untouched(r)
<1>1. VerticesOf(sid[r])' = VerticesOf(sid[r])
  BY DEF VerticesOf, WithJson, SchemaVertex
<1> QED
  BY <1>1 DEF Untouched, TypeChildren, Children

(* Creating a node vertex, not linked yet.                                 *)
LEMMA CreateElsewhere ==
  ASSUME OwnersOK, NEW r \in Request, sid'[r] = sid[r],
         UNCHANGED <<schemaV, hasNode, effects, rdb>>,
         NEW x, nodeV' = nodeV \cup {x}
  PROVE  Untouched(r)
<1>1. VerticesOf(sid[r])' = VerticesOf(sid[r])
  BY DEF VerticesOf
<1>2. TypeChildren(sid[r])' = TypeChildren(sid[r])
  BY <1>1 DEF TypeChildren, Children, OwnersOK
<1> QED
  BY <1>1, <1>2 DEF Untouched

(* Linking a vertex to another schema.                                     *)
LEMMA LinkElsewhere ==
  ASSUME OwnersOK, NEW q \in Request, NEW r \in Request, sid[q] # sid[r],
         sid'[r] = sid[r], UNCHANGED <<schemaV, nodeV, effects, rdb>>,
         NEW x,
         \/ hasNode' = hasNode
         \/ hasNode' = hasNode \cup {<<v.by, x>> : v \in VerticesOf(sid[q])}
  PROVE  Untouched(r)
<1>1. VerticesOf(sid[r])' = VerticesOf(sid[r])
  BY DEF VerticesOf
<1>2. \A v \in VerticesOf(sid[r]), w \in VerticesOf(sid[q]) : v.by # w.by
  BY DEF OwnersOK, VerticesOf
<1>3. Children(sid[r])' = Children(sid[r])
  BY <1>1, <1>2 DEF Children
<1> QED
  BY <1>1, <1>3 DEF Untouched, TypeChildren

(* Deleting the vertices of another schema.                                *)
LEMMA DropElsewhere ==
  ASSUME OwnersOK, NEW q \in Request, NEW r \in Request, sid[q] # sid[r],
         sid'[r] = sid[r], UNCHANGED <<nodeV, effects, rdb>>,
         NEW V \in {{}, VerticesOf(sid[q])},
         schemaV' = schemaV \ V,
         hasNode' = {e \in hasNode : \A v \in V : e[1] # v.by}
  PROVE  Untouched(r)
<1>1. VerticesOf(sid[r])' = VerticesOf(sid[r])
  BY DEF VerticesOf
<1>2. \A v \in VerticesOf(sid[r]) : \A x :
        <<v.by, x>> \in hasNode' <=> <<v.by, x>> \in hasNode
  <2>1. \A v \in VerticesOf(sid[r]), w \in V : v.by # w.by
    BY DEF OwnersOK, VerticesOf
  <2> TAKE v \in VerticesOf(sid[r])
  <2> TAKE x
  <2>2. \A w \in V : <<v.by, x>>[1] # w.by
    BY <2>1
  <2> QED
    BY <2>2
<1>3. Children(sid[r])' = Children(sid[r])
  <2>1. \A x : (\E v \in VerticesOf(sid[r])' : <<v.by, x>> \in hasNode')
               <=> (\E v \in VerticesOf(sid[r]) : <<v.by, x>> \in hasNode)
    BY <1>1, <1>2
  <2> DEFINE P(x) == \E v \in VerticesOf(sid[r]) : <<v.by, x>> \in hasNode
  <2>2. Children(sid[r]) = {x \in nodeV : P(x)}
    BY DEF Children
  <2>3. Children(sid[r])' = {x \in nodeV' : P(x)'}
    BY DEF Children
  <2> QED
    BY <2>1, <2>2, <2>3
<1> QED
  BY <1>1, <1>3 DEF Untouched, TypeChildren

(* Any statement of q, seen from a save r of another schema.               *)
LEMMA StepElsewhere ==
  ASSUME TypeOK, RefsOK, OwnersOK, NEW q \in Request, NEW r \in Request,
         q # r, sid[q] # sid[r], Step(q)
  PROVE  Idles(r) /\ Untouched(r)
<1>1. ASSUME NEW ok \in BOOLEAN, DeleteSchemaNodes(q, ok) PROVE Idles(r) /\ Untouched(r)
  <2>1. Idles(r)
    BY <1>1 DEF DeleteSchemaNodes, Goto, Idles, TypeOK
  <2>2. CASE DetachDelete(TypeChildren(sid[q]))
    BY <1>1, <2>1, <2>2, DetachElsewhere DEF DeleteSchemaNodes, Idles
  <2>3. CASE UNCHANGED <<nodeV, hasNode, effects>>
    BY <1>1, <2>1, <2>3, QuietElsewhere DEF DeleteSchemaNodes, Idles
  <2> QED
    BY <1>1, <2>2, <2>3 DEF DeleteSchemaNodes, Cleared
<1>2. ASSUME NEW ok \in BOOLEAN, MatchMeta(q, ok) PROVE Idles(r) /\ Untouched(r)
  BY <1>2, QuietElsewhere DEF MatchMeta, Goto, Idles, TypeOK
<1>3. ASSUME NEW ok \in BOOLEAN, WriteMeta(q, ok) PROVE Idles(r) /\ Untouched(r)
  <2>1. Idles(r)
    BY <1>3 DEF WriteMeta, Goto, Idles, TypeOK
  <2> QED
    BY <1>3, <2>1, WriteElsewhere DEF WriteMeta, Written, Idles, TypeOK
<1>4. ASSUME NEW ok \in BOOLEAN, LinkNode(q, ok) PROVE Idles(r) /\ Untouched(r)
  <2>1. Idles(r)
    BY <1>4 DEF LinkNode, Goto, Idles, TypeOK
  <2> QED
    BY <1>4, <2>1, LinkElsewhere DEF LinkNode, Idles
<1>5. ASSUME NEW ok \in BOOLEAN, SetSchemaJson(q, ok) PROVE Idles(r) /\ Untouched(r)
  <2>1. Idles(r)
    BY <1>5 DEF SetSchemaJson, Goto, Idles, TypeOK
  <2> QED
    BY <1>5, <2>1, WriteElsewhere DEF SetSchemaJson, Idles, TypeOK
<1>6. ASSUME NEW ok \in BOOLEAN, UpsertRdb(q, ok) PROVE Idles(r) /\ Untouched(r)
  <2>1. Idles(r)
    BY <1>6 DEF UpsertRdb, Goto, Idles, TypeOK
  <2>2. rdb'[sid[r]] = rdb[sid[r]]
    BY <1>6 DEF UpsertRdb, TypeOK
  <2> QED
    BY <1>6, <2>1, <2>2, QuietElsewhere DEF UpsertRdb, Idles
<1>7. ASSUME NEW ok \in BOOLEAN, InsertVersion(q, ok) PROVE Idles(r) /\ Untouched(r)
  BY <1>7, QuietElsewhere DEF InsertVersion, Goto, Idles, TypeOK
<1>8. ASSUME NEW ok \in BOOLEAN, ReadNothing(q, ok) PROVE Idles(r) /\ Untouched(r)
  BY <1>8, QuietElsewhere DEF ReadNothing, Goto, Idles, TypeOK
<1>9. ASSUME NEW ok \in BOOLEAN, DropNodes(q, ok) PROVE Idles(r) /\ Untouched(r)
  <2>1. Idles(r)
    BY <1>9 DEF DropNodes, Goto, Idles, TypeOK
  <2>2. CASE DetachDelete(TypeChildren(sid[q]))
    BY <1>9, <2>1, <2>2, DetachElsewhere DEF DropNodes, Idles
  <2>3. CASE UNCHANGED <<nodeV, hasNode, effects>>
    BY <1>9, <2>1, <2>3, QuietElsewhere DEF DropNodes, Idles
  <2> QED
    BY <1>9, <2>2, <2>3 DEF DropNodes
<1>10. ASSUME NEW ok \in BOOLEAN, DropSchema(q, ok) PROVE Idles(r) /\ Untouched(r)
  <2>1. Idles(r)
    BY <1>10 DEF DropSchema, Goto, Idles, TypeOK
  <2>2. (IF ok THEN VerticesOf(sid[q]) ELSE {}) \in {{}, VerticesOf(sid[q])}
    OBVIOUS
  <2> QED
    BY <1>10, <2>1, <2>2, DropElsewhere DEF DropSchema, Idles
<1>11. ASSUME NEW ok \in BOOLEAN, NEW e \in Edge, CreateRelationship(q, e, ok)
       PROVE  Idles(r) /\ Untouched(r)
  <2>1. Idles(r)
    BY <1>11 DEF CreateRelationship, Idles, TypeOK
  <2>2. \A x, y : x.by = r \/ y.by = r =>
                    (<<x, y>> \in effects' <=> <<x, y>> \in effects)
    <3>1. \A p \in Ends(q, e) : p[1].by = q /\ p[2].by = q
      BY DEF Ends, OwnersOK
    <3> QED
      BY <1>11, <3>1 DEF CreateRelationship
  <2> QED
    BY <1>11, <2>1, <2>2
    DEF CreateRelationship, Idles, Untouched, VerticesOf, TypeChildren, Children
<1>12. ASSUME NEW n \in NodeId, CreateNode(q, n) PROVE Idles(r) /\ Untouched(r)
  <2>1. Idles(r)
    BY <1>12 DEF CreateNode, Goto, Idles, TypeOK
  <2> QED
    BY <1>12, <2>1, CreateElsewhere DEF CreateNode, Idles
<1>13. ASSUME NEW n \in NodeId, CreateNodeFails(q, n) PROVE Idles(r) /\ Untouched(r)
  BY <1>13, QuietElsewhere DEF CreateNodeFails, Idles, TypeOK
<1>14. ASSUME EnsureLabelFails(q) PROVE Idles(r) /\ Untouched(r)
  BY <1>14, QuietElsewhere DEF EnsureLabelFails, Goto, Idles, TypeOK
<1>15. ASSUME Install(q) PROVE Idles(r) /\ Untouched(r)
  BY <1>15, QuietElsewhere DEF Install, Goto, Idles, TypeOK
<1>16. ASSUME ReadSchema(q) PROVE Idles(r) /\ Untouched(r)
  BY <1>16, QuietElsewhere DEF ReadSchema, Goto, Idles, TypeOK
<1>17. ASSUME Forget(q) PROVE Idles(r) /\ Untouched(r)
  BY <1>17, QuietElsewhere DEF Forget, Goto, Idles, TypeOK
<1> QED
  BY <1>1, <1>2, <1>3, <1>4, <1>5, <1>6, <1>7, <1>8, <1>9, <1>10, <1>11, <1>12,
     <1>13, <1>14, <1>15, <1>16, <1>17 DEF Step

(* The dict of a coroutine changes under an update of its own schema only. *)
LEMMA StepKeepsDoc ==
  ASSUME TypeOK, RefsOK, NEW q \in Request, NEW r \in Request, q # r, Step(q)
  PROVE  pc[r] \in Saving => Doc(r)' = Doc(r)
<1>1. CASE UNCHANGED <<dict, obj>>
  BY <1>1 DEF Doc
<1>3. CASE ReadSchema(q)
  <2>1. obj'[r] = obj[r] /\ dict[q] = None
    BY <1>3 DEF ReadSchema, TypeOK, RefsOK
  <2>2. pc[r] \in Saving => obj[r] \in Request /\ obj[r] # q
    BY <2>1, ConstantAssumption DEF TypeOK, RefsOK
  <2> QED
    BY <1>3, <2>1, <2>2 DEF ReadSchema, Doc, TypeOK
<1> QED
  BY <1>1, <1>3 DEF Step, DeleteSchemaNodes, MatchMeta, WriteMeta, LinkNode, SetSchemaJson,
     UpsertRdb, InsertVersion, ReadNothing, DropNodes, DropSchema,
     CreateRelationship, CreateNode, CreateNodeFails, EnsureLabelFails, Install, Forget

(* A save that is still clean met no exception in this statement.          *)
LEMMA CleanOutcome ==
  ASSUME TypeOK, NEW r \in Request, NEW ok \in BOOLEAN, Outcome(r, ok), clean'[r]
  PROVE  ok /\ clean[r]
<1>1. ok
  BY DEF Outcome, TypeOK
<1> QED
  BY <1>1 DEF Outcome

(* Setting the JSON a vertex has already changes nothing.                  *)
LEMMA WithSameJson ==
  ASSUME schemaV \subseteq SchemaVertex, NEW s, NEW j,
         \A v \in VerticesOf(s) : v.json = j
  PROVE  WithJson(s, j) = schemaV
<1>1. \A v \in schemaV : v.id = s => [v EXCEPT !.json = j] = v
  BY DEF VerticesOf, SchemaVertex
<1> QED
  BY <1>1 DEF WithJson

(* The steps of a save that is alone on its schema, one by one.            *)

(* The children of the schema are deleted.                                 *)
LEMMA ClearProgress ==
  ASSUME TypeOK, RefsOK, OwnersOK, NEW r \in Request, NEW ok \in BOOLEAN,
         DeleteSchemaNodes(r, ok), clean'[r]
  PROVE  Progress(r)'
<1>1. ok /\ pc[r] = "clear" /\ pc'[r] = "match" /\ sid' = sid
      /\ DetachDelete(TypeChildren(sid[r])) /\ UNCHANGED schemaV
  BY CleanOutcome DEF DeleteSchemaNodes, Goto, TypeOK, Cleared
<1>2. TypeChildren(sid[r])' = {}
  BY <1>1 DEF TypeChildren, Children, VerticesOf, DetachDelete
<1> QED
  BY <1>1, <1>2 DEF Progress, Synced, Saving

(* The branch taken is the one the graph calls for.                        *)
LEMMA MatchProgress ==
  ASSUME TypeOK, RefsOK, OwnersOK, NEW r \in Request, NEW ok \in BOOLEAN,
         MatchMeta(r, ok), clean'[r], Progress(r)
  PROVE  Progress(r)'
<1>1. ok /\ pc[r] = "match" /\ UNCHANGED <<graph, sid>>
      /\ pc'[r] = IF VerticesOf(sid[r]) # {} THEN "setMeta" ELSE "createMeta"
  BY CleanOutcome DEF MatchMeta, AfterMatch, Goto, TypeOK
<1>2. TypeChildren(sid[r])' = {} /\ VerticesOf(sid[r])' = VerticesOf(sid[r])
  BY <1>1 DEF Progress, TypeChildren, Children, VerticesOf
<1> QED
  BY <1>1, <1>2 DEF Progress, Synced

(* The schema vertex carries the document, the loop starts.                *)
LEMMA WriteProgress ==
  ASSUME TypeOK, RefsOK, OwnersOK, NEW r \in Request, NEW ok \in BOOLEAN,
         WriteMeta(r, ok), clean'[r], Progress(r)
  PROVE  Progress(r)'
<1> DEFINE s == sid[r]
           c == Doc(r)
<1>1. ok /\ pc[r] \in {"setMeta", "createMeta"} /\ pc'[r] = "sync"
      /\ UNCHANGED <<nodeV, hasNode, effects, memory, sid, obj, made>>
      /\ todo'[r] = DOMAIN c /\ rels'[r] = Edge /\ schemaV' = Written(r)
  BY CleanOutcome DEF WriteMeta, Goto, TypeOK
<1>2. made[r] = {} /\ TypeChildren(s) = {} /\ c \in Content
  BY <1>1, HeldDoc DEF OwnersOK, Progress, Synced, Ended, Saving
<1>3. \A e \in hasNode : e[1] # r
  BY <1>1 DEF OwnersOK, Synced, Ended
<1>4. CASE pc[r] = "setMeta"
  <2>1. VerticesOf(s) # {}
    BY <1>4 DEF Progress
  <2>2. schemaV' = WithJson(s, c)
    BY <1>1, <1>4 DEF Written
  <2>3. /\ \A w \in schemaV' : \E v \in schemaV : v.by = w.by /\ v.id = w.id
             /\ (v.id = s => w.json = c)
        /\ \A v \in schemaV : \E w \in schemaV' : v.by = w.by /\ v.id = w.id
    BY <1>2, <2>2, WithJsonShape DEF TypeOK
  <2>4. VerticesOf(s)' # {} /\ \A w \in VerticesOf(s)' : w.json = c
    BY <1>1, <2>1, <2>3 DEF VerticesOf
  <2>5. TypeChildren(s)' = {}
    <3>1. \A w \in VerticesOf(s)' : \E v \in VerticesOf(s) : v.by = w.by
      BY <1>1, <2>3 DEF VerticesOf
    <3>2. \A x \in nodeV : x.node \notin Layered =>
            \A v \in VerticesOf(s) : <<v.by, x>> \notin hasNode
      BY <1>2 DEF TypeChildren, Children
    <3> QED
      BY <1>1, <3>1, <3>2 DEF TypeChildren, Children
  <2>6. Doc(r)' = c /\ made'[r] = {} /\ Reached(r)' = {}
    BY <1>1, <1>2 DEF Reached, Doc
  <2> HIDE DEF c
  <2> QED
    BY <1>1, <1>2, <2>4, <2>5, <2>6 DEF Progress, Synced, Saving
<1>5. CASE pc[r] = "createMeta"
  <2>1. VerticesOf(s) = {}
    BY <1>5 DEF Progress
  <2>2. schemaV' = schemaV \cup {[by |-> r, id |-> s, json |-> c]}
    BY <1>1, <1>5 DEF Written
  <2>3. VerticesOf(s)' = {[by |-> r, id |-> s, json |-> c]}
    BY <1>1, <2>1, <2>2 DEF VerticesOf
  <2>4. TypeChildren(s)' = {}
    BY <1>1, <1>3, <2>3 DEF TypeChildren, Children
  <2> QED
    BY <1>1, <1>2, <2>3, <2>4 DEF Progress, Reached, Doc, Synced, Saving
<1> QED
  BY <1>1, <1>4, <1>5

(* The new vertex is not a child yet.                                      *)
LEMMA CreateProgress ==
  ASSUME TypeOK, RefsOK, OwnersOK, NEW r \in Request, NEW n \in NodeId,
         CreateNode(r, n), Progress(r)
  PROVE  Progress(r)'
<1> DEFINE s == sid[r]
           c == Doc(r)
           x == [by |-> r, node |-> n, attr |-> c[n]]
<1>1. /\ pc[r] = "sync" /\ pc'[r] = "link" /\ n \in todo[r]
      /\ nodeV' = nodeV \cup {x} /\ cur'[r] = x /\ todo'[r] = todo[r] \ {n}
      /\ UNCHANGED <<schemaV, hasNode, effects, memory, sid, obj, made, rels>>
  BY DEF CreateNode, Goto, TypeOK
<1>2. n \in DOMAIN c /\ x.by = r /\ x.node = n
  BY <1>1 DEF RefsOK
<1>3. x \notin nodeV
  BY <1>1, <1>2 DEF OwnersOK
<1>4. \A y : <<x, y>> \notin effects /\ <<y, x>> \notin effects
  BY <1>3 DEF OwnersOK
<1>5. VerticesOf(s)' = VerticesOf(s)
  BY <1>1 DEF VerticesOf
<1>6. TypeChildren(s)' = TypeChildren(s)
  BY <1>1, <1>3, <1>5 DEF TypeChildren, Children, OwnersOK
<1>7. Reached(r)' = Reached(r)
  BY <1>1, <1>2 DEF Reached, Doc
<1>8. Doc(r)' = Doc(r)
  BY <1>1 DEF Doc
<1>9. \A y \in nodeV' : <<x, y>> \notin effects' /\ <<y, x>> \notin effects'
  BY <1>1, <1>4
<1> HIDE DEF x
<1>10. x.node = n /\ x = [by |-> r, node |-> n, attr |-> c[n]]
  BY DEF x
<1> QED
  BY <1>1, <1>2, <1>5, <1>6, <1>7, <1>8, <1>9, <1>10 DEF Progress, Synced, Saving

(* The new vertex is a child of every vertex of the schema.                *)
LEMMA LinkProgress ==
  ASSUME TypeOK, RefsOK, OwnersOK, NEW r \in Request, NEW ok \in BOOLEAN,
         LinkNode(r, ok), clean'[r], Progress(r)
  PROVE  Progress(r)'
<1> DEFINE s == sid[r]
           c == Doc(r)
           x == cur[r]
<1>1. /\ pc[r] = "link" /\ pc'[r] = "sync"
      /\ x \in nodeV /\ x.node \in DOMAIN c \ todo[r]
      /\ x = [by |-> r, node |-> x.node, attr |-> c[x.node]]
      /\ \A y \in nodeV : <<y, x>> \notin effects /\ <<x, y>> \notin effects
      /\ VerticesOf(s) # {} /\ rels[r] = Edge
  BY DEF LinkNode, Progress, Goto, TypeOK, Synced
<1>2. /\ UNCHANGED <<schemaV, nodeV, effects, rdb, memory, sid, obj, todo, rels>>
      /\ hasNode' = hasNode \cup {<<v.by, x>> : v \in VerticesOf(s)}
      /\ made'[r] = made[r] \cup {x}
  BY <1>1, CleanOutcome DEF LinkNode, Mapped, TypeOK
<1>3. VerticesOf(s)' = VerticesOf(s) /\ Doc(r)' = c
  BY <1>2 DEF VerticesOf, Doc
<1>4. Reached(r)' = Reached(r) \cup {x.node}
  BY <1>1, <1>2, <1>3 DEF Reached
<1>5. made'[r] = {[by |-> r, node |-> n, attr |-> c[n]] : n \in Reached(r)'}
  <2>1. made[r] = {[by |-> r, node |-> n, attr |-> c[n]] : n \in Reached(r)}
    BY <1>1 DEF Progress, Synced
  <2> HIDE DEF x
  <2> QED
    BY <1>1, <1>2, <1>4, <2>1
<1>6. TypeChildren(s)' = {y \in made'[r] : y.node \notin Layered}
  <2>1. Children(s)' = Children(s) \cup {x}
    BY <1>1, <1>2, <1>3 DEF Children
  <2>2. TypeChildren(s)' = TypeChildren(s) \cup {y \in {x} : y.node \notin Layered}
    BY <2>1 DEF TypeChildren
  <2>3. TypeChildren(s) = {y \in made[r] : y.node \notin Layered}
    BY <1>1 DEF Progress, Synced
  <2> QED
    BY <1>2, <2>2, <2>3
<1>7. \A y, z \in made'[r] :
        <<y, z>> \in effects' <=> <<y.node, z.node>> \in Edge \ rels'[r]
  <2>1. \A y, z \in made[r] :
          <<y, z>> \in effects <=> <<y.node, z.node>> \in Edge \ rels[r]
    BY <1>1 DEF Progress, Synced
  <2>2. \A y \in made'[r] : y \in nodeV
    BY <1>1, <1>2 DEF Progress, Synced
  <2> QED
    BY <1>1, <1>2, <2>1, <2>2
<1>8. made'[r] \subseteq nodeV'
  BY <1>1, <1>2 DEF Progress, Synced
<1>9. \A v \in VerticesOf(s) : v.json = c
  BY <1>1 DEF Progress, Synced
<1> HIDE DEF x
<1> QED
  BY <1>1, <1>2, <1>3, <1>5, <1>6, <1>7, <1>8, <1>9 DEF Progress, Synced, Saving

(* One more relationship of the document is in the graph.                  *)
LEMMA RelateProgress ==
  ASSUME TypeOK, RefsOK, OwnersOK, NEW r \in Request, NEW e \in Edge,
         NEW ok \in BOOLEAN, CreateRelationship(r, e, ok), clean'[r], Progress(r)
  PROVE  Progress(r)'
<1>1. /\ ok /\ pc[r] = "sync" /\ todo[r] = {}
      /\ UNCHANGED <<schemaV, nodeV, hasNode, memory, pc, sid, obj, todo, made>>
      /\ rels'[r] = rels[r] \ {e}
  BY CleanOutcome DEF CreateRelationship, TypeOK
<1>2. effects' = effects \cup Ends(r, e)
  BY <1>1 DEF CreateRelationship, Ends, Progress, Synced
<1>3. e = <<e[1], e[2]>>
  BY ConstantAssumption
<1>4. \A x, y \in made[r] : <<x, y>> \in Ends(r, e) <=> <<x.node, y.node>> = e
  BY <1>3 DEF Ends
<1>5. \A x, y \in made[r] :
        <<x, y>> \in effects' <=> <<x.node, y.node>> \in Edge \ rels'[r]
  <2>1. \A x, y \in made[r] :
          <<x, y>> \in effects <=> <<x.node, y.node>> \in Edge \ rels[r]
    BY <1>1 DEF Progress, Synced
  <2> QED
    BY <1>1, <1>2, <1>4, <2>1
<1>6. /\ VerticesOf(sid[r])' = VerticesOf(sid[r]) /\ Doc(r)' = Doc(r)
      /\ TypeChildren(sid[r])' = TypeChildren(sid[r]) /\ Reached(r)' = Reached(r)
  BY <1>1 DEF VerticesOf, Doc, TypeChildren, Children, Reached
<1> QED
  BY <1>1, <1>5, <1>6 DEF Progress, Synced, Saving

(* A statement that changes neither the graph nor the loop.                *)
LEMMA TailProgress ==
  ASSUME NEW r \in Request, Progress(r), pc[r] \in Synced \ {"link"},
         pc'[r] \in {"rdb", "version", "install"},
         UNCHANGED <<graph, memory, sid, obj, loop>>,
         todo[r] = {}, Linkable(r) = {},
         pc'[r] # "rdb" => rdb'[sid[r]] = Doc(r)
  PROVE  Progress(r)'
<1>1. /\ VerticesOf(sid[r])' = VerticesOf(sid[r]) /\ Doc(r)' = Doc(r)
      /\ TypeChildren(sid[r])' = TypeChildren(sid[r])
      /\ Reached(r)' = Reached(r) /\ Linkable(r)' = Linkable(r)
  BY DEF VerticesOf, Doc, TypeChildren, Children, Reached, Linkable, Ends
<1> QED
  BY <1>1 DEF Progress, Synced, Saving

(* The final SET writes what is there.                                     *)
LEMMA SetJsonProgress ==
  ASSUME TypeOK, RefsOK, OwnersOK, NEW r \in Request, NEW ok \in BOOLEAN,
         SetSchemaJson(r, ok), clean'[r], Progress(r)
  PROVE  Progress(r)'
<1>1. /\ pc[r] = "sync" /\ pc'[r] = "rdb" /\ todo[r] = {} /\ Linkable(r) = {}
      /\ UNCHANGED <<nodeV, hasNode, effects, memory, sid, obj, loop>>
  BY DEF SetSchemaJson, Goto, TypeOK
<1>2. \A v \in VerticesOf(sid[r]) : v.json = Doc(r)
  BY <1>1 DEF Progress, Synced
<1>3. schemaV' = schemaV
  BY <1>2, WithSameJson DEF SetSchemaJson, TypeOK
<1> QED
  BY <1>1, <1>3, TailProgress DEF Synced

(* The RDB holds the document.                                             *)
LEMMA RdbProgress ==
  ASSUME TypeOK, RefsOK, OwnersOK, NEW r \in Request, NEW ok \in BOOLEAN,
         UpsertRdb(r, ok), clean'[r], Progress(r)
  PROVE  Progress(r)'
<1>1. /\ ok /\ pc[r] = "rdb" /\ pc'[r] = "version"
      /\ UNCHANGED <<graph, memory, sid, obj, loop>>
      /\ rdb' = [rdb EXCEPT ![sid[r]] = Doc(r)]
  BY CleanOutcome DEF UpsertRdb, Goto, TypeOK
<1>2. todo[r] = {} /\ Linkable(r) = {} /\ rdb'[sid[r]] = Doc(r)
  BY <1>1, HeldDoc DEF Progress, TypeOK, Saving
<1> QED
  BY <1>1, <1>2, TailProgress DEF Synced

(* The snapshot does not touch the graph.                                  *)
LEMMA VersionProgress ==
  ASSUME TypeOK, RefsOK, OwnersOK, NEW r \in Request, NEW ok \in BOOLEAN,
         InsertVersion(r, ok), clean'[r], Progress(r)
  PROVE  Progress(r)'
<1>1. /\ pc[r] = "version" /\ pc'[r] = "install"
      /\ UNCHANGED <<graph, rdb, memory, sid, obj, loop>>
  BY DEF InsertVersion, Goto, TypeOK
<1>2. todo[r] = {} /\ Linkable(r) = {} /\ rdb'[sid[r]] = Doc(r)
  BY <1>1 DEF Progress
<1> QED
  BY <1>1, <1>2, TailProgress DEF Synced

(* Every statement of a clean save makes progress.                         *)
LEMMA OwnProgress ==
  ASSUME TypeOK, RefsOK, OwnersOK, NEW r \in Request, Step(r), clean'[r],
         pc[r] \in Saving => Progress(r), pc'[r] \in Saving
  PROVE  Progress(r)'
<1>1. ASSUME NEW ok \in BOOLEAN, DeleteSchemaNodes(r, ok) PROVE Progress(r)'
  BY <1>1, ClearProgress
<1>2. ASSUME NEW ok \in BOOLEAN, MatchMeta(r, ok) PROVE Progress(r)'
  BY <1>2, MatchProgress DEF MatchMeta, Saving
<1>3. ASSUME NEW ok \in BOOLEAN, WriteMeta(r, ok) PROVE Progress(r)'
  BY <1>3, WriteProgress DEF WriteMeta, Saving
<1>4. ASSUME NEW ok \in BOOLEAN, LinkNode(r, ok) PROVE Progress(r)'
  BY <1>4, LinkProgress DEF LinkNode, Saving
<1>5. ASSUME NEW ok \in BOOLEAN, SetSchemaJson(r, ok) PROVE Progress(r)'
  BY <1>5, SetJsonProgress DEF SetSchemaJson, Saving
<1>6. ASSUME NEW ok \in BOOLEAN, UpsertRdb(r, ok) PROVE Progress(r)'
  BY <1>6, RdbProgress DEF UpsertRdb, Saving
<1>7. ASSUME NEW ok \in BOOLEAN, InsertVersion(r, ok) PROVE Progress(r)'
  BY <1>7, VersionProgress DEF InsertVersion, Saving
<1>8. ASSUME NEW ok \in BOOLEAN, NEW e \in Edge, CreateRelationship(r, e, ok)
      PROVE  Progress(r)'
  BY <1>8, RelateProgress DEF CreateRelationship, Saving
<1>9. ASSUME NEW n \in NodeId, CreateNode(r, n) PROVE Progress(r)'
  BY <1>9, CreateProgress DEF CreateNode, Saving
<1>10. \A n \in NodeId : ~CreateNodeFails(r, n)
  BY CleanOutcome DEF CreateNodeFails
<1>11. ~EnsureLabelFails(r)
  BY CleanOutcome DEF EnsureLabelFails
<1>12. pc'[r] \notin Saving \/ \E ok \in BOOLEAN :
          \/ DeleteSchemaNodes(r, ok) \/ MatchMeta(r, ok) \/ WriteMeta(r, ok)
          \/ LinkNode(r, ok) \/ SetSchemaJson(r, ok) \/ UpsertRdb(r, ok)
          \/ InsertVersion(r, ok) \/ (\E e \in Edge : CreateRelationship(r, e, ok))
          \/ \E n \in NodeId : CreateNode(r, n)
  BY <1>10, <1>11 DEF Step, ReadNothing, DropNodes, DropSchema, Install, ReadSchema,
     Forget, Goto, TypeOK, Saving
<1> QED
  BY <1>1, <1>2, <1>3, <1>4, <1>5, <1>6, <1>7, <1>8, <1>9, <1>12

(* What every statement has in common.                                     *)
LEMMA StepShape ==
  ASSUME TypeOK, NEW q \in Request, Step(q)
  PROVE  /\ q \in InFlight /\ sid' = sid
         /\ InFlight' \subseteq InFlight
         /\ \A r \in Request : clean'[r] => clean[r]
<1>1. pc[q] \notin Ended \cup {"idle"} /\ sid' = sid
  BY DEF Step, DeleteSchemaNodes, MatchMeta, WriteMeta, LinkNode, SetSchemaJson,
     UpsertRdb, InsertVersion, ReadNothing, DropNodes, DropSchema, CreateRelationship,
     CreateNode, CreateNodeFails, EnsureLabelFails, Install, ReadSchema, Forget, Ended
<1>2. \A r \in Request \ {q} : pc'[r] = pc[r]
  <2>1. (\E l : Goto(q, l)) \/ UNCHANGED pc
    BY DEF Step, DeleteSchemaNodes, MatchMeta, WriteMeta, LinkNode, SetSchemaJson,
       UpsertRdb, InsertVersion, ReadNothing, DropNodes, DropSchema, CreateRelationship,
       CreateNode, CreateNodeFails, EnsureLabelFails, Install, ReadSchema, Forget
  <2> QED
    BY <2>1 DEF Goto, TypeOK
<1>3. (\E ok \in BOOLEAN : Outcome(q, ok)) \/ NoFault
  BY DEF Step, DeleteSchemaNodes, MatchMeta, WriteMeta, LinkNode, SetSchemaJson,
     UpsertRdb, InsertVersion, ReadNothing, DropNodes, DropSchema, CreateRelationship,
     CreateNode, CreateNodeFails, EnsureLabelFails, Install, ReadSchema, Forget
<1>4. \A r \in Request : clean'[r] => clean[r]
  BY <1>3 DEF Outcome, NoFault, TypeOK
<1> QED
  BY <1>1, <1>2, <1>4 DEF InFlight

(* CleanOK survives every statement, whoever issues it.                    *)
LEMMA StepClean ==
  ASSUME IInv, NEW q \in Request, Step(q)
  PROVE  CleanOK'
<1> SUFFICES ASSUME NEW r \in Request, r \in InFlight', clean'[r]
             PROVE  Alone(r)' /\ (pc'[r] \in Saving => Progress(r)')
  BY DEF CleanOK, InFlight
<1>1. /\ r \in InFlight /\ clean[r] /\ q \in InFlight /\ sid' = sid
      /\ InFlight' \subseteq InFlight
  BY StepShape DEF IInv
<1>2. Alone(r) /\ (pc[r] \in Saving => Progress(r))
  BY <1>1 DEF IInv, CleanOK
<1>3. Alone(r)'
  BY <1>1, <1>2 DEF Alone
<1>4. CASE q = r
  BY <1>2, <1>3, <1>4, OwnProgress DEF IInv
<1>5. CASE q # r
  <2>1. sid[q] # sid[r]
    BY <1>1, <1>2, <1>5 DEF Alone
  <2>2. Idles(r) /\ Untouched(r)
    BY <1>5, <2>1, StepElsewhere DEF IInv
  <2>3. pc[r] \in Saving => Doc(r)' = Doc(r)
    BY <1>5, StepKeepsDoc DEF IInv
  <2> QED
    BY <1>2, <1>3, <2>2, <2>3, Frame DEF IInv, Idles
<1> QED
  BY <1>4, <1>5

(* A call that begins leaves the documents of the saves of other schemas   *)
(* alone.                                                                  *)
LEMMA CallKeepsDoc ==
  ASSUME TypeOK, RefsOK, NEW q \in Request, NEW r \in Request, q # r, Call(q),
         clean'[r], pc[r] \in Saving
  PROVE  Doc(r)' = Doc(r)
<1>1. obj[r] \in Request /\ dict[obj[r]] \in Dict /\ dict[obj[r]].id = sid[r]
  BY DEF TypeOK, RefsOK
<1>2. ASSUME NEW s \in Schema, NEW c \in Posted, SaveSchema(q, s, c)
      PROVE  Doc(r)' = Doc(r)
  <2>1. dict[q] = None
    BY <1>2 DEF SaveSchema, Begin, RefsOK
  <2>2. obj[r] # q
    BY <1>1, <2>1, ConstantAssumption
  <2> QED
    BY <1>1, <1>2, <2>2 DEF SaveSchema, Doc, TypeOK
<1>3. ASSUME NEW n \in NodeId, NEW a \in Attr, UpdateNode(q, n, a)
      PROVE  Doc(r)' = Doc(r)
  <2>1. sid[r] # dict[active].id
    BY <1>3 DEF UpdateNode, Begin
  <2>2. obj[r] # active
    BY <1>1, <2>1
  <2> QED
    BY <1>1, <1>3, <2>2 DEF UpdateNode, Doc, TypeOK
<1>4. ASSUME NEW s \in Schema, SetActiveSchema(q, s) \/ DeleteSchema(q, s)
      PROVE  Doc(r)' = Doc(r)
  BY <1>4 DEF SetActiveSchema, DeleteSchema, Doc
<1> QED
  BY <1>2, <1>3, <1>4 DEF Call

(* What the calls have in common.                                          *)
LEMMA CallShape ==
  ASSUME TypeOK, RefsOK, NEW q \in Request, Call(q)
  PROVE  /\ \E s \in Schema : Begin(q, s)
         /\ \A r \in Request \ {q} : pc'[r] = pc[r]
         /\ pc'[q] \in {"clear", "done", "read", "dropNodes"}
<1>1. \E s \in Schema : Begin(q, s)
  BY DEF Call, SaveSchema, UpdateNode, SetActiveSchema, DeleteSchema, RefsOK, Dict
<1> QED
  BY <1>1 DEF Call, SaveSchema, UpdateNode, SetActiveSchema, DeleteSchema, Goto, TypeOK

(* CleanOK survives every call that begins.                                *)
LEMMA CallClean ==
  ASSUME IInv, NEW q \in Request, Call(q)
  PROVE  CleanOK'
<1> USE DEF IInv
<1>1. PICK s \in Schema : Begin(q, s)
  BY CallShape
<1>2. /\ \A r \in Request \ {q} : pc'[r] = pc[r]
      /\ pc'[q] \in {"clear", "done", "read", "dropNodes"}
  BY CallShape
<1> SUFFICES ASSUME NEW r \in Request, r \in InFlight', clean'[r]
             PROVE  Alone(r)' /\ (pc'[r] \in Saving => Progress(r)')
  BY DEF CleanOK, InFlight
<1>3. InFlight' \subseteq InFlight \cup {q}
  BY <1>2 DEF InFlight
<1>4. sid' = [sid EXCEPT ![q] = s]
  BY <1>1 DEF Begin
<1>5. CASE r = q
  <2>1. \A p \in InFlight : sid[p] # s
    BY <1>1, <1>5 DEF Begin
  <2>2. Alone(r)'
    BY <1>3, <1>4, <1>5, <2>1 DEF Alone, TypeOK, InFlight
  <2>3. pc'[r] \in Saving => Progress(r)'
    BY <1>2, <1>5 DEF Progress, Saving, Synced
  <2> QED
    BY <2>2, <2>3
<1>6. CASE r # q
  <2>1. r \in InFlight /\ clean[r] /\ sid[r] # s
    BY <1>1, <1>2, <1>6 DEF Begin, InFlight
  <2>2. Alone(r) /\ (pc[r] \in Saving => Progress(r))
    BY <2>1 DEF CleanOK
  <2>3. Alone(r)'
    BY <1>3, <1>4, <1>6, <2>1, <2>2 DEF Alone, TypeOK, InFlight
  <2>4. Idles(r) /\ Untouched(r)
    BY <1>1, <1>2, <1>4, <1>6, QuietElsewhere DEF Begin, Idles, TypeOK
  <2>5. pc[r] \in Saving => Doc(r)' = Doc(r)
    BY <1>6, CallKeepsDoc
  <2> QED
    BY <2>2, <2>3, <2>4, <2>5, Frame DEF Idles
<1> QED
  BY <1>5, <1>6

(* So do the other parts of IInv.                                          *)
LEMMA CallTypesOwners ==
  ASSUME IInv, NEW q \in Request, Call(q)
  PROVE  TypeOK' /\ RefsOK' /\ OwnersOK'
<1>1. TypeOK' /\ RefsOK'
  BY SaveSchemaTypes, UpdateNodeTypes, SetActiveSchemaTypes, DeleteSchemaTypes
  DEF IInv, Call
<1>2. \E s \in Schema : Begin(q, s)
  BY CallShape DEF IInv
<1>3. \E l : Goto(q, l)
  BY DEF Call, SaveSchema, UpdateNode, SetActiveSchema, DeleteSchema
<1>4. OwnersOK'
  BY <1>2, <1>3, BeginOwners DEF IInv
<1> QED
  BY <1>1, <1>4

(* Types and references survive every statement.                           *)
LEMMA StepTypes ==
  ASSUME IInv, NEW q \in Request, Step(q)
  PROVE  TypeOK' /\ RefsOK'
BY DeleteSchemaNodesTypes, MatchMetaTypes, WriteMetaTypes, LinkNodeTypes,
   SetSchemaJsonTypes, UpsertRdbTypes, InsertVersionTypes, ReadNothingTypes,
   DropNodesTypes, DropSchemaTypes, CreateRelationshipTypes, CreateNodeTypes,
   CreateNodeFailsTypes, EnsureLabelFailsTypes, InstallTypes, ReadSchemaTypes,
   ForgetTypes
DEF IInv, Step

(* Owners survive every statement.                                         *)
LEMMA StepOwners ==
  ASSUME IInv, NEW q \in Request, Step(q)
  PROVE  OwnersOK'
<1> USE DEF IInv
<1>1. ASSUME NEW ok \in BOOLEAN, DeleteSchemaNodes(q, ok) \/ DropNodes(q, ok)
      PROVE  OwnersOK'
  <2>1. PICK l \in {"match", "dropSchema"} : Goto(q, l)
    BY <1>1 DEF DeleteSchemaNodes, DropNodes
  <2>2. pc[q] \notin Synced \cup Ended /\ l \notin Synced \cup Ended
        /\ UNCHANGED <<schemaV, sid, loop>>
    BY <1>1 DEF DeleteSchemaNodes, DropNodes, Synced, Ended
  <2>3. CASE \E D : DetachDelete(D)
    BY <2>1, <2>2, <2>3, DetachOwners
  <2>4. CASE UNCHANGED <<nodeV, hasNode, effects>>
    BY <2>1, <2>2, <2>4, QuietOwners DEF Synced
  <2> QED
    BY <1>1, <2>3, <2>4 DEF DeleteSchemaNodes, DropNodes
<1>2. ASSUME NEW ok \in BOOLEAN, MatchMeta(q, ok)
      PROVE  OwnersOK'
  <2>1. pc[q] \notin Synced \cup Ended /\ UNCHANGED <<graph, sid, loop>>
        /\ Goto(q, AfterMatch(q, ok)) /\ AfterMatch(q, ok) \notin {"sync", "link"}
    BY <1>2 DEF MatchMeta, AfterMatch, Synced, Ended
  <2> QED
    BY <2>1, QuietOwners
<1>3. ASSUME NEW ok \in BOOLEAN,
             UpsertRdb(q, ok) \/ InsertVersion(q, ok) \/ ReadNothing(q, ok)
             \/ EnsureLabelFails(q) \/ Install(q) \/ ReadSchema(q) \/ Forget(q)
      PROVE  OwnersOK'
  <2>1. PICK l : Goto(q, l) /\ l \notin {"sync", "link"}
                 /\ (pc[q] \in Synced \cup Ended => l \in Synced \cup Ended)
    BY <1>3 DEF UpsertRdb, InsertVersion, ReadNothing, EnsureLabelFails, Install,
       ReadSchema, Forget, Synced, Ended
  <2>2. UNCHANGED <<graph, sid, loop>>
    BY <1>3 DEF UpsertRdb, InsertVersion, ReadNothing, EnsureLabelFails, Install,
       ReadSchema, Forget
  <2> QED
    BY <2>1, <2>2, QuietOwners
<1> QED
  BY <1>1, <1>2, <1>3, WriteMetaOwners, CreateNodeOwners, CreateNodeFailsOwners,
     LinkNodeOwners, CreateRelationshipOwners, SetSchemaJsonOwners, DropSchemaOwners
  DEF Step

(* After a restart no save is running.                                     *)
LEMMA CrashClean ==
  ASSUME TypeOK, Crash
  PROVE  CleanOK'
BY DEF Crash, CleanOK, InFlight, Ended, TypeOK

(* IInv is inductive.                                                      *)
LEMMA IInvNext == IInv /\ [Next]_vars => IInv'
<1> SUFFICES ASSUME IInv, [Next]_vars
             PROVE  IInv'
  OBVIOUS
<1>1. ASSUME NEW q \in Request, Call(q)
      PROVE  IInv'
  BY <1>1, CallTypesOwners, CallClean DEF IInv
<1>2. ASSUME NEW q \in Request, Step(q)
      PROVE  IInv'
  BY <1>2, StepTypes, StepOwners, StepClean DEF IInv
<1>3. CASE Crash
  BY <1>3, CrashTypes, CrashOwners, CrashClean DEF IInv
<1>4. CASE UNCHANGED vars
  <2>1. TypeOK' /\ RefsOK' /\ OwnersOK'
    BY <1>4 DEF IInv, vars, TypeOK, RefsOK, OwnersOK, Doc
  <2>2. \A r \in Request : Idles(r) /\ Untouched(r) /\ Doc(r)' = Doc(r)
    BY <1>4, QuietElsewhere DEF vars, Idles, Doc
  <2>3. InFlight' = InFlight /\ clean' = clean /\ pc' = pc /\ sid' = sid
    BY <1>4 DEF vars, InFlight
  <2>4. CleanOK'
    BY <2>2, <2>3, Frame DEF IInv, CleanOK, Alone, InFlight
  <2> QED
    BY <2>1, <2>4 DEF IInv
<1> QED
  BY <1>1, <1>2, <1>3, <1>4 DEF Next

(* In every reachable state, whatever the requests, the documents and the  *)
(* bounds: who owns what, and how far the clean saves have come.           *)
THEOREM InductiveInvariant == Spec => []IInv
<1>1. Init => IInv
  BY InitTypes, InitOwners DEF IInv, Init, CleanOK, InFlight, Ended
<1> QED
  BY <1>1, IInvNext, PTL DEF Spec

(* The variables keep their types: the references the coroutines follow    *)
(* after an await (their dict, the vertex they created) are never None.    *)
THEOREM TypeCorrect == Spec => []TypeOK
<1>1. IInv => TypeOK
  BY DEF IInv
<1> QED
  BY <1>1, InductiveInvariant, PTL

(* No interleaving of saves, deletes, exceptions and restarts leaves an    *)
(* edge without its ends, a HAS_NODE edge between two schemas, or an       *)
(* EFFECTS edge between vertices of two saves.                             *)
THEOREM GraphIntegrityHolds == Spec => []GraphIntegrity
<1>1. IInv => GraphIntegrity
  BY DEF IInv, OwnersOK, GraphIntegrity
<1> QED
  BY <1>1, InductiveInvariant, PTL

(* A save that was alone on its schema and met no exception leaves graph   *)
(* and RDB equal to its document, from whatever state it started.          *)
THEOREM CleanSaveMirrorsHolds == Spec => []CleanSaveMirrors
<1>1. IInv => CleanSaveMirrors
  <2> SUFFICES ASSUME IInv, NEW r \in Request, pc[r] = "install", clean[r]
               PROVE  Mirrors(sid[r], Doc(r))
    BY DEF CleanSaveMirrors
  <2> DEFINE s == sid[r]
             c == Doc(r)
  <2>1. Progress(r)
    BY DEF IInv, CleanOK, InFlight, Ended, Saving, TypeOK
  <2>2. /\ VerticesOf(s) # {} /\ \A v \in VerticesOf(s) : v.json = c
        /\ TypeChildren(s) = {x \in made[r] : x.node \notin Layered}
        /\ \A x, y \in made[r] :
             <<x, y>> \in effects <=> <<x.node, y.node>> \in Edge \ rels[r]
        /\ todo[r] = {} /\ Linkable(r) = {} /\ rdb[s] = c
    BY <2>1 DEF Progress, Synced
  <2>3. made[r] = {[by |-> r, node |-> n, attr |-> c[n]] : n \in DOMAIN c}
    BY <2>1, <2>2 DEF Progress, Synced, Reached
  <2>4. \A x, y \in made[r] : <<x.node, y.node>> \notin rels[r]
    <3>1. \A x, y \in made[r] : <<x, y>> \in Ends(r, <<x.node, y.node>>)
      BY DEF Ends
    <3> QED
      BY <2>2, <3>1 DEF Linkable
  <2> HIDE DEF c
  <2>5. \A x \in TypeChildren(s) :
          x.node \in DOMAIN c \ Layered
          /\ x = [by |-> r, node |-> x.node, attr |-> c[x.node]]
    BY <2>2, <2>3
  <2>6. \A n \in DOMAIN c \ Layered :
          \E x \in TypeChildren(s) : x.node = n /\ x.attr = c[n]
    <3> TAKE n \in DOMAIN c \ Layered
    <3> DEFINE x == [by |-> r, node |-> n, attr |-> c[n]]
    <3>1. x \in TypeChildren(s)
      BY <2>2, <2>3
    <3> QED
      BY <3>1
  <2>7. {<<x.node, x.attr>> : x \in TypeChildren(s)}
          = {<<n, c[n]>> : n \in DOMAIN c \ Layered}
    BY <2>5, <2>6
  <2> QED
    BY <2>2, <2>4, <2>5, <2>7 DEF Mirrors, c
<1> QED
  BY <1>1, InductiveInvariant, PTL

(* Only a request about a schema removes vertices made for it.             *)
LEMMA StepStaysInSchema ==
  ASSUME IInv, NEW q \in Request, Step(q), NEW x \in nodeV \ nodeV'
  PROVE  pc'[q] # pc[q] /\ sid[q] = sid[x.by]
<1>1. PICK ok \in BOOLEAN : DeleteSchemaNodes(q, ok) \/ DropNodes(q, ok)
  BY DEF Step, DeleteSchemaNodes, DropNodes, MatchMeta, WriteMeta, LinkNode,
     SetSchemaJson, UpsertRdb, InsertVersion, ReadNothing, DropSchema,
     CreateRelationship, CreateNode, CreateNodeFails, EnsureLabelFails, Install,
     ReadSchema, Forget
<1>2. x \in TypeChildren(sid[q])
  BY <1>1 DEF DeleteSchemaNodes, DropNodes, Cleared, DetachDelete
<1>3. sid[x.by] = sid[q]
  BY <1>2, ChildOwner DEF TypeChildren, IInv
<1>4. pc'[q] # pc[q]
  BY <1>1 DEF DeleteSchemaNodes, DropNodes, Goto, IInv, TypeOK
<1> QED
  BY <1>3, <1>4

(* Deleting or re-saving a schema never removes a vertex of another one,   *)
(* though the statements select vertices by following HAS_NODE edges that  *)
(* concurrent requests add.                                                *)
THEOREM DeletesStayInSchemaHolds == Spec => DeletesStayInSchema
<1> DEFINE Stays == \A x \in nodeV \ nodeV' :
                      \E r \in Request : pc'[r] # pc[r] /\ sid[r] = sid[x.by]
<1>1. IInv /\ [Next]_vars => [Stays]_vars
  <2> SUFFICES ASSUME IInv, Next
               PROVE  Stays
    OBVIOUS
  <2>1. ASSUME NEW q \in Request, Step(q)
        PROVE  Stays
    BY <2>1, StepStaysInSchema
  <2>2. ASSUME NEW q \in Request, Call(q)
        PROVE  Stays
    BY <2>2, CallShape DEF IInv, Begin
  <2>3. CASE Crash
    BY <2>3 DEF Crash
  <2> QED
    BY <2>1, <2>2, <2>3 DEF Next
<1> QED
  BY <1>1, InductiveInvariant, PTL DEF Spec, DeletesStayInSchema

---------------------------------------------------------------------------
(* One client.                                                             *)

(* A client that waits for each answer has one request in flight.          *)
LEMMA CallLone ==
  ASSUME MaxInFlight = 1, TypeOK, RefsOK, Lone, NEW q \in Request, Call(q)
  PROVE  InFlight = {} /\ InFlight' \subseteq {q} /\ Lone'
<1>1. Cardinality(InFlight) < 1
  BY CallShape DEF Begin
<1>2. InFlight = {}
  <2>1. CASE \E r \in Request : InFlight = {r}
    <3>1. Cardinality(InFlight) = 1
      BY <2>1, FS_Singleton
    <3> QED
      BY <1>1, <3>1
  <2> QED
    BY <2>1 DEF Lone
<1>3. InFlight' \subseteq {q}
  BY <1>2, CallShape DEF InFlight
<1> QED
  BY <1>2, <1>3 DEF Lone

(* The one in flight stays the only one until it ends.                     *)
LEMMA StepLone ==
  ASSUME TypeOK, Lone, NEW q \in Request, Step(q)
  PROVE  InFlight = {q} /\ InFlight' \subseteq {q} /\ Lone'
<1>1. q \in InFlight /\ InFlight' \subseteq InFlight
  BY StepShape
<1> QED
  BY <1>1 DEF Lone

(* A request that goes on while the schemas and the cache stay as they are *)
(* needs a foothold at its next statement, and keeps the cache's excuses.  *)
LEMMA QuietSerial ==
  ASSUME TypeOK, RefsOK, TypeOK', NEW q \in Request, SerialInv, Step(q),
         UNCHANGED <<schemaV, active, dict, obj>>, Foothold(q)',
         pc[q] # "forget",
         faults' = 0 => faults = 0 /\ (pc[q] \in Saving => pc'[q] \in Saving)
  PROVE  SerialInv'
<1>1. InFlight = {q} /\ InFlight' \subseteq {q} /\ Lone' /\ sid' = sid
  BY StepLone, StepShape DEF SerialInv
<1>2. \A s : VerticesOf(s)' = VerticesOf(s)
  BY DEF VerticesOf
<1>3. OneVertexPerSchema' /\ \A r \in InFlight' : Foothold(r)'
  BY <1>1 DEF SerialInv, OneVertexPerSchema
<1>4. ASSUME active' # None
      PROVE  VerticesOf(dict[active].id)' # {}
  BY <1>1, <1>2, <1>4 DEF SerialInv, CacheOK
<1>5. ASSUME active' # None, faults' = 0,
             \A r \in InFlight' : sid'[r] = dict[active].id => pc'[r] \notin Saving
      PROVE  Agrees(dict[active].id, dict[active].content)'
  <2>1. pc[q] \in Saving => q \in InFlight'
    BY <1>5 DEF InFlight, Saving, Ended
  <2>2. \A r \in InFlight : sid[r] = dict[active].id => pc[r] \notin Saving
    BY <1>1, <1>5, <2>1
  <2>3. Agrees(dict[active].id, dict[active].content)
    BY <1>5, <2>2 DEF SerialInv, CacheOK
  <2> QED
    BY <1>2, <2>3 DEF Agrees
<1>6. CacheOK'
  BY <1>4, <1>5 DEF CacheOK
<1> QED
  BY <1>1, <1>3, <1>6 DEF SerialInv

(* The statements that leave schemas and cache alone.                      *)
LEMMA QuietSteps ==
  ASSUME IInv, TypeOK', SerialInv, NEW q \in Request, NEW ok \in BOOLEAN,
         \/ DeleteSchemaNodes(q, ok) \/ MatchMeta(q, ok) \/ LinkNode(q, ok)
         \/ UpsertRdb(q, ok) \/ InsertVersion(q, ok) \/ ReadNothing(q, ok)
         \/ DropNodes(q, ok) \/ EnsureLabelFails(q)
         \/ \E e \in Edge : CreateRelationship(q, e, ok)
         \/ \E n \in NodeId : CreateNode(q, n) \/ CreateNodeFails(q, n)
  PROVE  SerialInv' /\ UNCHANGED <<schemaV, active>> /\ dict' = dict
<1>1. Step(q)
  BY DEF Step
<1>2. UNCHANGED <<schemaV, active, dict, obj, sid>> /\ pc[q] # "forget"
  BY DEF DeleteSchemaNodes, MatchMeta, LinkNode, UpsertRdb, InsertVersion, ReadNothing,
     DropNodes, CreateRelationship, CreateNode, CreateNodeFails, EnsureLabelFails
<1>3. Foothold(q)
  BY <1>1, StepShape DEF SerialInv, IInv
<1>4. \A s : VerticesOf(s)' = VerticesOf(s)
  BY <1>2 DEF VerticesOf
<1>5. /\ pc'[q] \in Synced => pc[q] \in Synced
      /\ pc'[q] \notin {"forget", "adopt"}
      /\ pc'[q] = "setMeta" => VerticesOf(sid[q]) # {}
      /\ pc'[q] = "createMeta" => VerticesOf(sid[q]) = {}
  <2>0. pc \in [Request -> PC]
    BY DEF IInv, TypeOK
  <2>1. CASE MatchMeta(q, ok)
    BY <2>0, <2>1 DEF MatchMeta, AfterMatch, Goto, Synced
  <2>2. CASE DeleteSchemaNodes(q, ok) \/ ReadNothing(q, ok) \/ DropNodes(q, ok)
             \/ EnsureLabelFails(q)
    BY <2>0, <2>2 DEF DeleteSchemaNodes, ReadNothing, DropNodes, EnsureLabelFails, Goto,
       Synced
  <2>3. CASE LinkNode(q, ok) \/ UpsertRdb(q, ok) \/ InsertVersion(q, ok)
    BY <2>0, <2>3 DEF LinkNode, UpsertRdb, InsertVersion, Goto, Synced
  <2>4. CASE (\E e \in Edge : CreateRelationship(q, e, ok))
             \/ \E n \in NodeId : CreateNode(q, n) \/ CreateNodeFails(q, n)
    BY <2>0, <2>4 DEF CreateRelationship, CreateNode, CreateNodeFails, Goto, Synced
  <2> QED
    BY <2>1, <2>2, <2>3, <2>4
<1>6. Foothold(q)'
  BY <1>2, <1>3, <1>4, <1>5 DEF Foothold, Agrees, Doc
<1>7. ASSUME faults' = 0
      PROVE  faults = 0 /\ (pc[q] \in Saving => pc'[q] \in Saving)
  <2>1. faults \in Nat
    BY DEF IInv, TypeOK
  <2> QED
    BY <1>7, <2>1 DEF DeleteSchemaNodes, MatchMeta, LinkNode, UpsertRdb, InsertVersion, ReadNothing,
     DropNodes, CreateRelationship, CreateNode, CreateNodeFails, EnsureLabelFails,
     Outcome, NoFault, AfterMatch, Goto, Saving, IInv, TypeOK
<1>8. SerialInv'
  BY <1>1, <1>2, <1>6, <1>7, QuietSerial DEF IInv
<1> QED
  BY <1>2, <1>8

(* Writing the vertices of a schema leaves those of the others, and one.   *)
LEMMA WrittenShape ==
  ASSUME IInv, SerialInv, NEW q \in Request, q \in InFlight,
         pc[q] \in {"setMeta", "createMeta"}
  PROVE  /\ \E w \in Written(q) : w.id = sid[q]
         /\ \A w \in Written(q) : w.id = sid[q] => w.json = Doc(q)
         /\ \A t : t # sid[q] => {w \in Written(q) : w.id = t} = VerticesOf(t)
         /\ \A v, w \in Written(q) : v.id = w.id => v = w
<1>1. Foothold(q) /\ schemaV \subseteq SchemaVertex /\ Doc(q) \in Content
  BY HeldDoc DEF SerialInv, IInv, TypeOK, Saving
<1>2. CASE pc[q] = "createMeta"
  <2>1. VerticesOf(sid[q]) = {}
    BY <1>1, <1>2 DEF Foothold
  <2> DEFINE n == [by |-> q, id |-> sid[q], json |-> Doc(q)]
  <2>2. n.id = sid[q] /\ n.json = Doc(q) /\ Written(q) = schemaV \cup {n}
    BY <1>2 DEF Written
  <2>3. \A v \in schemaV : v.id # sid[q]
    BY <2>1 DEF VerticesOf
  <2> HIDE DEF n
  <2>4. \A v, w \in Written(q) : v.id = w.id => v = w
    BY <2>2, <2>3 DEF SerialInv, OneVertexPerSchema
  <2> QED
    BY <2>2, <2>3, <2>4 DEF VerticesOf
<1>3. CASE pc[q] = "setMeta"
  <2>1. VerticesOf(sid[q]) # {}
    BY <1>1, <1>3 DEF Foothold
  <2>2. Written(q) = WithJson(sid[q], Doc(q))
    BY <1>3 DEF Written
  <2> DEFINE As(v) == IF v.id = sid[q] THEN [v EXCEPT !.json = Doc(q)] ELSE v
  <2>3. \A v \in schemaV : As(v).id = v.id /\ (v.id = sid[q] => As(v).json = Doc(q))
    BY <1>1 DEF SchemaVertex
  <2>4. WithJson(sid[q], Doc(q)) = {As(v) : v \in schemaV}
    BY DEF WithJson
  <2>5. \A t : t # sid[q] => {w \in Written(q) : w.id = t} = VerticesOf(t)
    BY <2>2, <2>3, <2>4 DEF VerticesOf
  <2> HIDE DEF As
  <2>6. \A v, w \in Written(q) : v.id = w.id => v = w
    <3> SUFFICES ASSUME NEW v \in schemaV, NEW w \in schemaV, As(v).id = As(w).id
                 PROVE  v = w
      BY <2>2, <2>4
    <3> QED
      BY <2>3 DEF SerialInv, OneVertexPerSchema
  <2>7. \E w \in Written(q) : w.id = sid[q]
    BY <2>1, <2>2, <2>3, <2>4 DEF VerticesOf
  <2>8. \A w \in Written(q) : w.id = sid[q] => w.json = Doc(q)
    BY <2>2, <2>3, <2>4
  <2> QED
    BY <2>5, <2>6, <2>7, <2>8
<1> QED
  BY <1>2, <1>3

(* What the statement that writes the vertex does.                         *)
LEMMA WriteMetaEffect ==
  ASSUME IInv, SerialInv, NEW q \in Request, WriteMeta(q, TRUE)
  PROVE  /\ UNCHANGED <<active, dict, obj, sid, faults>>
         /\ pc'[q] = "sync" /\ pc[q] \in Saving
         /\ VerticesOf(sid[q])' # {} /\ Agrees(sid[q], Doc(q))'
         /\ \A t : t # sid[q] => VerticesOf(t)' = VerticesOf(t)
         /\ OneVertexPerSchema'
<1>1. pc[q] \in {"setMeta", "createMeta"} /\ schemaV' = Written(q)
      /\ UNCHANGED <<active, dict, obj, sid, faults>>
  BY DEF WriteMeta, Outcome
<1>2. q \in InFlight
  BY <1>1 DEF InFlight, Ended
<1>3. pc'[q] = "sync"
  BY DEF WriteMeta, Goto, IInv, TypeOK
<1>4. Doc(q)' = Doc(q)
  BY <1>1 DEF Doc
<1> QED
  BY <1>1, <1>2, <1>3, <1>4, WrittenShape
  DEF VerticesOf, Agrees, OneVertexPerSchema, Saving

LEMMA WriteMetaSerial ==
  ASSUME IInv, TypeOK', SerialInv, NEW q \in Request, NEW ok \in BOOLEAN, WriteMeta(q, ok)
  PROVE  SerialInv'
<1>1. Step(q)
  BY DEF Step
<1>2. InFlight = {q} /\ InFlight' \subseteq {q} /\ Lone'
  BY <1>1, StepLone DEF SerialInv, IInv
<1>3. CASE ~ok
  <2>1. UNCHANGED <<schemaV, active, dict, obj>> /\ pc'[q] = "failed" /\ pc[q] # "forget"
    BY <1>3 DEF WriteMeta, Goto, IInv, TypeOK
  <2>2. faults' # 0
    BY <1>3 DEF WriteMeta, Outcome, IInv, TypeOK
  <2>3. Foothold(q)'
    BY <2>1 DEF Foothold, Synced
  <2> QED
    BY <1>1, <2>1, <2>2, <2>3, QuietSerial DEF IInv
<1>4. CASE ok
  <2>0. WriteMeta(q, TRUE)
    BY <1>4
  <2>1. /\ UNCHANGED <<active, dict, obj, sid, faults>>
        /\ pc'[q] = "sync" /\ pc[q] \in Saving
        /\ VerticesOf(sid[q])' # {} /\ Agrees(sid[q], Doc(q))'
        /\ \A t : t # sid[q] => VerticesOf(t)' = VerticesOf(t)
        /\ OneVertexPerSchema'
    BY <2>0, WriteMetaEffect
  <2>2. Foothold(q)'
    BY <2>1 DEF Foothold
  <2>3. q \in InFlight'
    BY <2>1 DEF InFlight, Ended
  <2>4. CacheOK'
    <3> SUFFICES ASSUME active # None
                 PROVE  /\ VerticesOf(dict[active].id)' # {}
                        /\ (faults = 0 /\ sid[q] # dict[active].id =>
                              Agrees(dict[active].id, dict[active].content)')
      BY <2>1, <2>3 DEF CacheOK, Saving, Agrees
    <3>1. VerticesOf(dict[active].id) # {}
      BY <1>2, <2>1 DEF SerialInv, CacheOK, Saving
    <3>2. ASSUME faults = 0, sid[q] # dict[active].id
          PROVE  Agrees(dict[active].id, dict[active].content)'
      <4>1. Agrees(dict[active].id, dict[active].content)
        BY <1>2, <3>2 DEF SerialInv, CacheOK
      <4> QED
        BY <2>1, <3>2, <4>1 DEF Agrees
    <3> QED
      BY <2>1, <3>1, <3>2
  <2> QED
    BY <1>2, <2>1, <2>2, <2>4 DEF SerialInv
<1> QED
  BY <1>3, <1>4

(* SET s.schemaJson writes what is there already.                          *)
LEMMA SetSchemaJsonSerial ==
  ASSUME IInv, TypeOK', SerialInv, NEW q \in Request, NEW ok \in BOOLEAN,
         SetSchemaJson(q, ok)
  PROVE  SerialInv' /\ schemaV' = schemaV
<1>1. Step(q) /\ pc[q] = "sync" /\ UNCHANGED <<active, dict, obj, sid>>
  BY DEF Step, SetSchemaJson
<1>2. Foothold(q)
  BY <1>1, StepShape DEF SerialInv, IInv
<1>3. schemaV' = schemaV
  BY <1>1, <1>2, WithSameJson DEF SetSchemaJson, Foothold, Agrees, Synced, IInv, TypeOK
<1>4. pc'[q] = "rdb"
  BY DEF SetSchemaJson, Goto, IInv, TypeOK
<1>5. Foothold(q)'
  BY <1>1, <1>2, <1>3, <1>4 DEF Foothold, Synced, Agrees, VerticesOf, Doc
<1>6. faults' = 0 => faults = 0
  BY DEF SetSchemaJson, Outcome, IInv, TypeOK
<1>7. SerialInv'
  BY <1>1, <1>3, <1>4, <1>5, <1>6, QuietSerial DEF IInv, Saving
<1> QED
  BY <1>3, <1>7

(* The cache gets the document the graph stores.                           *)
LEMMA InstallEffect ==
  ASSUME IInv, SerialInv, NEW q \in Request, Install(q)
  PROVE  /\ UNCHANGED <<schemaV, dict, obj, sid, faults>>
         /\ active' = obj[q] /\ obj[q] # None /\ dict[obj[q]].id = sid[q]
         /\ VerticesOf(sid[q]) # {} /\ Agrees(sid[q], Doc(q))
         /\ \A s : VerticesOf(s)' = VerticesOf(s)
<1>1. Step(q) /\ pc[q] \in {"install", "adopt"}
  BY DEF Step, Install
<1>2. Foothold(q)
  BY <1>1, StepShape DEF SerialInv, IInv
<1>3. VerticesOf(sid[q]) # {} /\ Agrees(sid[q], Doc(q))
  BY <1>1, <1>2 DEF Foothold, Synced
<1>4. obj[q] # None /\ dict[obj[q]].id = sid[q]
  BY <1>1 DEF IInv, RefsOK, Saving
<1> QED
  BY <1>3, <1>4 DEF Install, NoFault, VerticesOf

LEMMA InstallSerial ==
  ASSUME IInv, SerialInv, NEW q \in Request, Install(q)
  PROVE  SerialInv'
<1>1. /\ UNCHANGED <<schemaV, dict, obj, sid, faults>>
      /\ active' = obj[q] /\ obj[q] # None /\ dict[obj[q]].id = sid[q]
      /\ VerticesOf(sid[q]) # {} /\ Agrees(sid[q], Doc(q))
      /\ \A s : VerticesOf(s)' = VerticesOf(s)
  BY InstallEffect
<1>2. InFlight' \subseteq {q} /\ Lone' /\ pc'[q] = "done"
  BY StepLone DEF Step, SerialInv, IInv, Install, Goto, TypeOK
<1>3. InFlight' = {}
  BY <1>2 DEF InFlight, Ended
<1>4. CacheOK'
  BY <1>1 DEF CacheOK, Agrees, Doc
<1> QED
  BY <1>1, <1>2, <1>3, <1>4 DEF SerialInv, OneVertexPerSchema

(* A read adopts the one vertex there is.                                  *)
LEMMA ReadSchemaSerial ==
  ASSUME IInv, SerialInv, NEW q \in Request, ReadSchema(q)
  PROVE  SerialInv' /\ schemaV' = schemaV /\ active' = active
         /\ (active # None => dict'[active] = dict[active])
<1>1. InFlight = {q} /\ InFlight' \subseteq {q} /\ Lone' /\ q \in InFlight
  BY StepLone DEF Step, SerialInv, IInv
<1>2. UNCHANGED <<schemaV, active, sid, faults>> /\ pc'[q] = "adopt" /\ obj'[q] = q
      /\ pc[q] = "read"
  BY DEF ReadSchema, NoFault, Goto, IInv, TypeOK
<1>3. \A s : VerticesOf(s)' = VerticesOf(s)
  BY <1>2 DEF VerticesOf
<1>4. PICK v \in VerticesOf(sid[q]) :
        dict' = [dict EXCEPT ![q] = [id |-> sid[q], content |-> v.json]]
  BY DEF ReadSchema
<1>5. Doc(q)' = v.json
  BY <1>2, <1>4 DEF Doc, IInv, TypeOK
<1>6. \A w \in VerticesOf(sid[q]) : w = v
  BY <1>4 DEF SerialInv, OneVertexPerSchema, VerticesOf
<1>7. Foothold(q)'
  BY <1>2, <1>3, <1>4, <1>5, <1>6 DEF Foothold, Agrees
<1>8. active # None => active # q /\ dict'[active] = dict[active]
  BY <1>2, <1>4, ConstantAssumption DEF IInv, RefsOK, TypeOK
<1>9. CacheOK'
  BY <1>1, <1>2, <1>3, <1>8 DEF CacheOK, SerialInv, Agrees, Saving
<1> QED
  BY <1>1, <1>2, <1>7, <1>8, <1>9 DEF SerialInv, OneVertexPerSchema

(* What the statement that deletes the vertex does.                        *)
LEMMA DropSchemaEffect ==
  ASSUME IInv, SerialInv, NEW q \in Request, DropSchema(q, TRUE)
  PROVE  /\ UNCHANGED <<active, dict, obj, sid, faults>>
         /\ pc[q] = "dropSchema" /\ pc'[q] = "forget"
         /\ schemaV' = schemaV \ VerticesOf(sid[q])
         /\ VerticesOf(sid[q])' = {}
         /\ \A t : t # sid[q] => VerticesOf(t)' = VerticesOf(t)
BY DEF DropSchema, Outcome, Goto, VerticesOf, IInv, TypeOK

LEMMA DropSchemaSerial ==
  ASSUME IInv, TypeOK', SerialInv, NEW q \in Request, NEW ok \in BOOLEAN,
         DropSchema(q, ok)
  PROVE  SerialInv'
<1>1. Step(q)
  BY DEF Step
<1>2. InFlight = {q} /\ InFlight' \subseteq {q} /\ Lone'
  BY <1>1, StepLone DEF SerialInv, IInv
<1>3. CASE ~ok
  <2>1. UNCHANGED <<active, dict, obj>> /\ pc'[q] = "failed" /\ pc[q] = "dropSchema"
    BY <1>3 DEF DropSchema, Goto, IInv, TypeOK
  <2>2. faults' # 0
    BY <1>3 DEF DropSchema, Outcome, IInv, TypeOK
  <2>3. schemaV' = schemaV
    BY <1>3 DEF DropSchema
  <2>4. Foothold(q)'
    BY <2>1 DEF Foothold, Synced
  <2> QED
    BY <1>1, <2>1, <2>2, <2>3, <2>4, QuietSerial DEF IInv
<1>4. CASE ok
  <2>0. DropSchema(q, TRUE)
    BY <1>4
  <2>1. /\ UNCHANGED <<active, dict, obj, sid, faults>>
        /\ pc[q] = "dropSchema" /\ pc'[q] = "forget"
        /\ schemaV' = schemaV \ VerticesOf(sid[q])
        /\ VerticesOf(sid[q])' = {}
        /\ \A t : t # sid[q] => VerticesOf(t)' = VerticesOf(t)
    BY <2>0, DropSchemaEffect
  <2>2. Foothold(q)' /\ OneVertexPerSchema'
    BY <2>1 DEF Foothold, Synced, SerialInv, OneVertexPerSchema
  <2>3. q \in InFlight'
    BY <2>1 DEF InFlight, Ended
  <2>4. CacheOK'
    BY <1>2, <2>1, <2>3 DEF CacheOK, SerialInv, Agrees, Saving
  <2> QED
    BY <1>2, <2>2, <2>4 DEF SerialInv
<1> QED
  BY <1>3, <1>4

(* The deleted schema leaves the cache; nothing else does.                 *)
LEMMA ForgetSerial ==
  ASSUME IInv, SerialInv, NEW q \in Request, Forget(q)
  PROVE  SerialInv' /\ UNCHANGED <<schemaV, dict>> /\ VerticesOf(sid[q]) = {}
<1>1. InFlight = {q} /\ InFlight' \subseteq {q} /\ Lone' /\ q \in InFlight
  BY StepLone DEF Step, SerialInv, IInv
<1>2. UNCHANGED <<schemaV, dict, faults>> /\ pc[q] = "forget" /\ pc'[q] = "done"
      /\ active' = ActiveAfterDelete(q)
  BY DEF Forget, NoFault, Goto, IInv, TypeOK
<1>3. \A s : VerticesOf(s)' = VerticesOf(s)
  BY <1>2 DEF VerticesOf
<1>4. VerticesOf(sid[q]) = {}
  BY <1>1, <1>2 DEF SerialInv, Foothold
<1>5. InFlight' = {}
  BY <1>1, <1>2 DEF InFlight, Ended
<1>6. CacheOK'
  BY <1>1, <1>2, <1>3 DEF CacheOK, SerialInv, Agrees, Saving, ActiveAfterDelete
<1> QED
  BY <1>1, <1>2, <1>4, <1>5, <1>6 DEF SerialInv, OneVertexPerSchema

(* A call changes no vertex, and of the cache at most a document that is   *)
(* on its way to the graph.                                                *)
LEMMA CallSerial ==
  ASSUME MaxInFlight = 1, IInv, SerialInv, NEW q \in Request, Call(q)
  PROVE  SerialInv' /\ UNCHANGED <<schemaV, active>>
         /\ (active # None => dict'[active].id = dict[active].id)
<1>1. InFlight = {} /\ InFlight' \subseteq {q} /\ Lone'
  BY CallLone DEF IInv, SerialInv
<1>2. UNCHANGED <<schemaV, active, faults>>
  BY CallShape DEF Begin, IInv
<1>3. pc'[q] \in {"clear", "done", "read", "dropNodes"}
  BY CallShape DEF IInv
<1>4. \A s : VerticesOf(s)' = VerticesOf(s)
  BY <1>2 DEF VerticesOf
<1>5. \A r \in InFlight' : Foothold(r)'
  BY <1>1, <1>3 DEF Foothold, Synced
<1>6. ASSUME active # None
      PROVE  /\ dict'[active].id = dict[active].id
             /\ \/ dict'[active] = dict[active]
                \/ q \in InFlight' /\ sid'[q] = dict[active].id /\ pc'[q] \in Saving
  <2>1. active \in Request /\ dict[active] \in Dict /\ active # q
    <3>1. pc[q] = "idle"
      BY CallShape DEF Begin, IInv
    <3> QED
      BY <1>6, <3>1, ConstantAssumption DEF IInv, RefsOK, TypeOK
  <2>2. ASSUME NEW s \in Schema, NEW c \in Posted, SaveSchema(q, s, c)
        PROVE  dict'[active] = dict[active]
    BY <2>1, <2>2 DEF SaveSchema, IInv, TypeOK
  <2>3. ASSUME NEW n \in NodeId, NEW a \in Attr, UpdateNode(q, n, a)
        PROVE  /\ dict'[active].id = dict[active].id
               /\ q \in InFlight' /\ sid'[q] = dict[active].id /\ pc'[q] \in Saving
    <3>1. sid'[q] = dict[active].id /\ pc'[q] = "clear"
      BY <2>3 DEF UpdateNode, Begin, Goto, IInv, TypeOK
    <3>2. dict'[active].id = dict[active].id
      BY <2>1, <2>3 DEF UpdateNode, Dict, IInv, TypeOK
    <3> QED
      BY <3>1, <3>2 DEF InFlight, Ended, Saving
  <2>4. ASSUME NEW s \in Schema, SetActiveSchema(q, s) \/ DeleteSchema(q, s)
        PROVE  dict'[active] = dict[active]
    BY <2>4 DEF SetActiveSchema, DeleteSchema
  <2> QED
    BY <2>2, <2>3, <2>4 DEF Call
<1>7. CacheOK'
  BY <1>1, <1>2, <1>4, <1>6 DEF CacheOK, SerialInv, Agrees
<1> QED
  BY <1>1, <1>2, <1>5, <1>6, <1>7 DEF SerialInv, OneVertexPerSchema

(* A restart leaves no request and no cache.                               *)
LEMMA CrashSerial ==
  ASSUME TypeOK, SerialInv, Crash
  PROVE  SerialInv' /\ schemaV' = schemaV /\ active' = None
<1>1. InFlight' = {} /\ schemaV' = schemaV /\ active' = None
  BY DEF Crash, InFlight, Ended, TypeOK
<1> QED
  BY <1>1 DEF SerialInv, Lone, OneVertexPerSchema, CacheOK

(* SerialInv is inductive, relative to IInv.                               *)
LEMMA SerialNext ==
  ASSUME MaxInFlight = 1, IInv, IInv', SerialInv, [Next]_vars
  PROVE  SerialInv'
<1>0. TypeOK'
  BY DEF IInv
<1>1. ASSUME NEW q \in Request, Call(q)
      PROVE  SerialInv'
  BY <1>1, CallSerial
<1>2. ASSUME NEW q \in Request, Step(q)
      PROVE  SerialInv'
  <2>1. ASSUME NEW ok \in BOOLEAN,
               \/ WriteMeta(q, ok) \/ SetSchemaJson(q, ok) \/ DropSchema(q, ok)
               \/ Install(q) \/ ReadSchema(q) \/ Forget(q)
        PROVE  SerialInv'
    BY <1>0, <2>1, WriteMetaSerial, SetSchemaJsonSerial, InstallSerial,
       ReadSchemaSerial, DropSchemaSerial, ForgetSerial
  <2> QED
    BY <1>0, <1>2, <2>1, QuietSteps DEF Step
<1>3. CASE Crash
  BY <1>3, CrashSerial DEF IInv
<1>4. CASE UNCHANGED vars
  <2>1. \A s : VerticesOf(s)' = VerticesOf(s)
    BY <1>4 DEF vars, VerticesOf
  <2>2. InFlight' = InFlight
    BY <1>4 DEF vars, InFlight
  <2>3. Lone' /\ OneVertexPerSchema' /\ CacheOK'
    BY <1>4, <2>1, <2>2 DEF vars, SerialInv, Lone, OneVertexPerSchema, CacheOK, Agrees
  <2>4. \A r \in InFlight' : Foothold(r)'
    BY <1>4, <2>1, <2>2 DEF vars, SerialInv, Foothold, Agrees, Doc
  <2> QED
    BY <2>3, <2>4 DEF SerialInv
<1> QED
  BY <1>1, <1>2, <1>3, <1>4 DEF Next

(* With one client the requests find the graph as they left it, whatever   *)
(* raises and however often the process restarts.                          *)
THEOREM SerialInvariant ==
  ASSUME MaxInFlight = 1
  PROVE  Spec => []SerialInv
<1>1. Init => SerialInv
  BY DEF Init, SerialInv, Lone, InFlight, Ended, OneVertexPerSchema, CacheOK
<1>2. IInv /\ IInv' /\ SerialInv /\ [Next]_vars => SerialInv'
  BY SerialNext
<1> QED
  BY <1>1, <1>2, InductiveInvariant, PTL DEF Spec

(* With one client MATCH then CREATE makes one vertex per schema.          *)
THEOREM OneVertexPerSchemaHolds ==
  ASSUME MaxInFlight = 1
  PROVE  Spec => []OneVertexPerSchema
<1>1. SerialInv => OneVertexPerSchema
  BY DEF SerialInv
<1> QED
  BY <1>1, SerialInvariant, PTL

(* With one client, between requests the cached schema is stored, and has  *)
(* the document that is stored unless a statement raised.                  *)
THEOREM CacheMatchesGraphHolds ==
  ASSUME MaxInFlight = 1
  PROVE  Spec => []CacheMatchesGraph
<1>1. SerialInv => CacheMatchesGraph
  BY DEF SerialInv, CacheOK, CacheMatchesGraph, Agrees
<1> QED
  BY <1>1, SerialInvariant, PTL

(* A document all vertices carry is the one chosen.                        *)
LEMMA JsonOfAgreed ==
  ASSUME NEW V, V # {}, NEW c, \A v \in V : v.json = c
  PROVE  JsonOf(V) = c
BY DEF JsonOf

(* What the registry sees is made of the vertices and the cached id.       *)
LEMMA SameBars ==
  ASSUME schemaV' = schemaV, active' = active,
         active # None => dict'[active].id = dict[active].id
  PROVE  storedBar' = storedBar /\ currentBar' = currentBar
<1>1. \A s : VerticesOf(s)' = VerticesOf(s)
  BY DEF VerticesOf
<1>2. storedBar' = storedBar
  BY <1>1 DEF storedBar
<1>3. currentBar' = currentBar
  <2>1. CASE active = None
    BY <2>1 DEF currentBar
  <2>2. CASE active # None
    <3>1. dict'[active].id = dict[active].id
      BY <2>2
    <3>2. VerticesOf(dict[active].id)' = VerticesOf(dict[active].id)
      BY <3>1 DEF VerticesOf
    <3> QED
      BY <3>1, <3>2 DEF currentBar
  <2> QED
    BY <2>1, <2>2
<1> QED
  BY <1>2, <1>3

(* The statement that writes the vertex stores the document.               *)
LEMMA WriteMetaStores ==
  ASSUME IInv, SerialInv, NEW q \in Request, WriteMeta(q, TRUE)
  PROVE  Registry!Store(sid[q], Doc(q)) /\ sid[q] \in Schema /\ Doc(q) \in Content
<1> DEFINE s == sid[q]
           c == Doc(q)
<1>1. /\ UNCHANGED <<active, dict, obj, sid, faults>>
      /\ pc[q] \in Saving
      /\ VerticesOf(s)' # {} /\ Agrees(s, c)'
      /\ \A t : t # s => VerticesOf(t)' = VerticesOf(t)
  BY WriteMetaEffect
<1>2. s \in Schema /\ c \in Content /\ InFlight = {q}
  BY <1>1, HeldDoc, StepLone DEF IInv, RefsOK, Saving, Step, SerialInv
<1>3. c' = c
  BY <1>1 DEF Doc
<1> HIDE DEF c
<1>4. storedBar' = [storedBar EXCEPT ![s] = c]
  <2>1. JsonOf(VerticesOf(s)') = c
    <3>1. \A v \in VerticesOf(s)' : v.json = c
      BY <1>1, <1>3 DEF Agrees
    <3> QED
      BY <1>1, <3>1, JsonOfAgreed
  <2>2. s' = s
    BY <1>1
  <2> HIDE DEF s
  <2>3. \A t \in Schema : storedBar'[t] = IF t = s THEN c ELSE storedBar[t]
    BY <1>1, <2>1, <2>2 DEF storedBar
  <2> QED
    BY <2>3 DEF storedBar
<1>5. currentBar' = currentBar
  <2>1. CASE active = None
    BY <1>1, <2>1 DEF currentBar
  <2>2. CASE active # None
    <3> DEFINE d == dict[active]
    <3>1. VerticesOf(d.id) # {}
      BY <1>1, <1>2, <2>2 DEF SerialInv, CacheOK, Saving
    <3>2. VerticesOf(d.id)' # {} /\ d' = d
      BY <1>1, <3>1
    <3> QED
      BY <1>1, <2>2, <3>1, <3>2 DEF currentBar
  <2> QED
    BY <2>1, <2>2
<1> QED
  BY <1>2, <1>4, <1>5 DEF Registry!Store, c

(* The statement that deletes the vertex removes the document, and with it *)
(* the selection.                                                          *)
LEMMA DropSchemaRemoves ==
  ASSUME IInv, SerialInv, NEW q \in Request, DropSchema(q, TRUE)
  PROVE  Registry!Remove(sid[q]) /\ sid[q] \in Schema
<1> DEFINE s == sid[q]
<1>1. /\ UNCHANGED <<active, dict, obj, sid, faults>>
      /\ pc[q] = "dropSchema"
      /\ VerticesOf(s)' = {}
      /\ \A t : t # s => VerticesOf(t)' = VerticesOf(t)
  BY DropSchemaEffect
<1>2. s \in Schema /\ s # None
  BY <1>1, ConstantAssumption DEF IInv, RefsOK
<1>3. s' = s
  BY <1>1
<1> HIDE DEF s
<1>4. storedBar' = [storedBar EXCEPT ![s] = None]
  <2>1. \A t \in Schema : storedBar'[t] = IF t = s THEN None ELSE storedBar[t]
    BY <1>1, <1>3 DEF storedBar
  <2> QED
    BY <2>1 DEF storedBar
<1>5. currentBar' = IF currentBar = s THEN None ELSE currentBar
  <2>1. CASE active = None
    BY <1>1, <1>2, <2>1 DEF currentBar
  <2>2. CASE active # None
    <3> DEFINE d == dict[active]
    <3>1. d' = d
      BY <1>1
    <3>2. currentBar = IF VerticesOf(d.id) # {} THEN d.id ELSE None
      BY <2>2 DEF currentBar
    <3>3. currentBar' = IF VerticesOf(d.id)' # {} THEN d.id ELSE None
      BY <1>1, <2>2, <3>1 DEF currentBar
    <3> HIDE DEF d
    <3>4. CASE d.id = s
      <4>1. VerticesOf(d.id)' = {}
        BY <1>1, <1>3, <3>1, <3>4 DEF VerticesOf
      <4> QED
        BY <1>2, <3>2, <3>3, <3>4, <4>1
    <3>5. CASE d.id # s
      BY <1>1, <1>2, <3>1, <3>2, <3>3, <3>5
    <3> QED
      BY <3>4, <3>5
  <2> QED
    BY <2>1, <2>2
<1> QED
  BY <1>2, <1>4, <1>5 DEF Registry!Remove, s

(* The cache selects what is stored.                                       *)
LEMMA InstallSelects ==
  ASSUME IInv, SerialInv, NEW q \in Request, Install(q)
  PROVE  Registry!Select(sid[q]) /\ sid[q] \in Schema
<1>1. /\ UNCHANGED <<schemaV, dict, obj, sid, faults>>
      /\ active' = obj[q] /\ obj[q] # None /\ dict[obj[q]].id = sid[q]
      /\ VerticesOf(sid[q]) # {} /\ Agrees(sid[q], Doc(q))
      /\ \A s : VerticesOf(s)' = VerticesOf(s)
  BY InstallEffect
<1>2. sid[q] \in Schema /\ Doc(q) \in Content
  BY HeldDoc DEF Install, IInv, RefsOK, Saving
<1>3. storedBar[sid[q]] # None
  <2>1. JsonOf(VerticesOf(sid[q])) = Doc(q)
    BY <1>1, JsonOfAgreed DEF Agrees
  <2> QED
    BY <1>1, <1>2, <2>1, ConstantAssumption DEF storedBar
<1>4. storedBar' = storedBar
  BY <1>1 DEF storedBar
<1>5. currentBar' = sid[q]
  <2>1. dict'[active'].id = sid[q] /\ active' # None
    BY <1>1
  <2>2. VerticesOf(dict[active].id)' = VerticesOf(sid[q])
    BY <1>1, <2>1 DEF VerticesOf
  <2> QED
    BY <1>1, <2>1, <2>2 DEF currentBar
<1> QED
  BY <1>2, <1>3, <1>4, <1>5 DEF Registry!Select

(* When the cache forgets a schema, the registry has done so already.      *)
LEMMA ForgetStutters ==
  ASSUME IInv, SerialInv, NEW q \in Request, Forget(q)
  PROVE  storedBar' = storedBar /\ currentBar' = currentBar
<1>1. UNCHANGED <<schemaV, dict>> /\ VerticesOf(sid[q]) = {}
      /\ active' = ActiveAfterDelete(q)
  BY ForgetSerial DEF Forget
<1>2. \A s : VerticesOf(s)' = VerticesOf(s)
  BY <1>1 DEF VerticesOf
<1>3. CASE active' = active
  BY <1>1, <1>3, SameBars
<1>4. CASE active # None /\ active' = None /\ dict[active].id = sid[q]
  BY <1>1, <1>2, <1>4 DEF storedBar, currentBar
<1> QED
  BY <1>1, <1>3, <1>4 DEF ActiveAfterDelete

(* Every statement is a step of the registry or changes nothing there.     *)
LEMMA StepRefines ==
  ASSUME IInv, TypeOK', SerialInv, NEW q \in Request, Step(q)
  PROVE  Registry!Next \/ (storedBar' = storedBar /\ currentBar' = currentBar)
<1> DEFINE Refines == Registry!Next \/ (storedBar' = storedBar /\ currentBar' = currentBar)
<1>1. ASSUME NEW ok \in BOOLEAN, WriteMeta(q, ok)
      PROVE  Refines
  <2>1. CASE ok
    BY <1>1, <2>1, WriteMetaStores DEF Registry!Next
  <2>2. CASE ~ok
    BY <1>1, <2>2, SameBars DEF WriteMeta
  <2> QED
    BY <2>1, <2>2
<1>2. ASSUME NEW ok \in BOOLEAN, DropSchema(q, ok)
      PROVE  Refines
  <2>1. CASE ok
    BY <1>2, <2>1, DropSchemaRemoves DEF Registry!Next
  <2>2. CASE ~ok
    <3>1. UNCHANGED <<schemaV, active, dict>>
      BY <1>2, <2>2 DEF DropSchema
    <3> QED
      BY <3>1, SameBars
  <2> QED
    BY <2>1, <2>2
<1>3. ASSUME NEW ok \in BOOLEAN, SetSchemaJson(q, ok)
      PROVE  Refines
  <2>1. schemaV' = schemaV /\ UNCHANGED <<active, dict>>
    BY <1>3, SetSchemaJsonSerial DEF SetSchemaJson
  <2> QED
    BY <2>1, SameBars
<1>4. ASSUME Install(q)
      PROVE  Refines
  BY <1>4, InstallSelects DEF Registry!Next
<1>5. ASSUME ReadSchema(q)
      PROVE  Refines
  BY <1>5, ReadSchemaSerial, SameBars
<1>6. ASSUME Forget(q)
      PROVE  Refines
  BY <1>6, ForgetStutters
<1>7. ASSUME NEW ok \in BOOLEAN,
             \/ DeleteSchemaNodes(q, ok) \/ MatchMeta(q, ok) \/ LinkNode(q, ok)
             \/ UpsertRdb(q, ok) \/ InsertVersion(q, ok) \/ ReadNothing(q, ok)
             \/ DropNodes(q, ok) \/ EnsureLabelFails(q)
             \/ \E e \in Edge : CreateRelationship(q, e, ok)
             \/ \E n \in NodeId : CreateNode(q, n) \/ CreateNodeFails(q, n)
      PROVE  Refines
  BY <1>7, QuietSteps, SameBars
<1> HIDE DEF Refines
<1>8. Refines
  BY <1>1, <1>2, <1>3, <1>4, <1>5, <1>6, <1>7 DEF Step
<1> QED
  BY <1>8 DEF Refines

(* Seen by one client the store is a registry of documents: a save, a      *)
(* delete and a choice of schema each take effect in one statement, and    *)
(* what raises or restarts undoes none of them.                            *)
THEOREM StoreIsRegistry ==
  ASSUME MaxInFlight = 1
  PROVE  Spec => ImplementsRegistry
<1>1. Init => Registry!Init
  BY DEF Init, Registry!Init, storedBar, currentBar, VerticesOf
<1>2. IInv /\ IInv' /\ SerialInv /\ [Next]_vars => [Registry!Next]_<<storedBar, currentBar>>
  <2> SUFFICES ASSUME IInv, IInv', SerialInv, [Next]_vars
               PROVE  Registry!Next \/ (storedBar' = storedBar /\ currentBar' = currentBar)
    OBVIOUS
  <2>1. ASSUME NEW q \in Request, Call(q)
        PROVE  storedBar' = storedBar /\ currentBar' = currentBar
    BY <2>1, CallSerial, SameBars
  <2>2. ASSUME NEW q \in Request, Step(q)
        PROVE  Registry!Next \/ (storedBar' = storedBar /\ currentBar' = currentBar)
    BY <2>2, StepRefines DEF IInv
  <2>3. CASE Crash
    <3>1. schemaV' = schemaV /\ active' = None
      BY <2>3, CrashSerial DEF IInv
    <3>2. storedBar' = storedBar /\ currentBar' = None
      BY <3>1 DEF storedBar, currentBar, VerticesOf
    <3> QED
      BY <3>2 DEF Registry!Next, Registry!Restart
  <2>4. CASE UNCHANGED vars
    BY <2>4, SameBars DEF vars
  <2> QED
    BY <2>1, <2>2, <2>3, <2>4 DEF Next
<1> QED
  BY <1>1, <1>2, InductiveInvariant, SerialInvariant, PTL
  DEF Spec, ImplementsRegistry, Registry!Spec
=============================================================================
