---------------------------- MODULE SchemaStore ----------------------------
(***************************************************************************)
(* The ontology schema store: AgeSchemaStore (services/age_schema_store),  *)
(* AgeService.sync_ontology_schema (services/age_service) and the RDB copy *)
(* CatalogAdapter.sync_schema_to_rdb (catalog_adapter).                    *)
(*                                                                         *)
(* Every request is one asyncio coroutine of a single process.  Between    *)
(* two awaits a coroutine runs alone; every await executes ONE autocommit  *)
(* statement on a pooled connection, and any other coroutine may run       *)
(* there.  A step of the model is the Python code from one await to the    *)
(* next together with the statement it issues: Python code of other        *)
(* coroutines commutes with a statement whose parameters are already       *)
(* bound, so nothing is lost.                                              *)
(*                                                                         *)
(* Vertices are identified by the request that created them: a save        *)
(* creates at most one schema vertex, and one vertex per node of its       *)
(* document.  AGE never reuses a graph id.                                 *)
(***************************************************************************)
EXTENDS Naturals, FiniteSets

CONSTANTS
  Request,      \* the calls the clients make, each by one coroutine
  Schema,       \* schema ids
  NodeId,       \* ids of ontology nodes inside a document
  Layered,      \* the nodes whose label is a layer (KPI, Measure, ...)
  Attr,         \* values of a node's other fields (name, description, ...)
  Edge,         \* the relationships a document lists: <<source, target>>
  Posted,       \* the documents clients post
  None,
  MaxInFlight,  \* bound: requests running at the same time
  MaxFaults,    \* bound: statements that raise
  MaxCrashes    \* bound: restarts of the process

(* The nodes of a document, each with its fields; the relationships are    *)
(* the same in every document and may name nodes the document lacks.       *)
Content == UNION {[N -> Attr] : N \in SUBSET NodeId}

(* A schema_dict: the client's object, or the one json.loads returned.     *)
(* Its schemaJson is its content, serialised whenever that changes.        *)
Dict == [id: Schema, content: Content]

SchemaVertex == [by: Request, id: Schema, json: Content]
NodeVertex == [by: Request, node: NodeId, attr: Attr]

ASSUME ConstantAssumption ==
  /\ Layered \subseteq NodeId
  /\ Edge \subseteq NodeId \X NodeId
  /\ Posted \subseteq Content
  /\ None \notin Request \cup Schema \cup Content \cup Dict \cup NodeVertex
  /\ MaxInFlight \in Nat /\ MaxFaults \in Nat /\ MaxCrashes \in Nat

PC == {"idle", "clear", "match", "setMeta", "createMeta", "sync", "link",
       "rdb", "version", "install", "read", "adopt",
       "dropNodes", "dropSchema", "forget", "done", "failed"}

VARIABLES
  schemaV,   \* schema vertices of the graph
  nodeV,     \* node vertices
  hasNode,   \* HAS_NODE edges: <<creator of the schema vertex, node vertex>>
  effects,   \* EFFECTS edges between node vertices
  rdb,       \* ontology_schemas: the document stored for a schema
  versions,  \* ontology_schema_versions: the snapshot stored for version 1
  active,    \* _active_schema (_active_schema_id is its id): whose dict
  dict,      \* the schema_dict object a request allocated
  pc,        \* next statement of a request
  sid,       \* schema a request is about
  obj,       \* the dict a request works on, by its allocator
  todo,      \* nodes the loop of sync_ontology_schema has not reached
  made,      \* node_age_ids, as the vertices it points to
  cur,       \* vertex created and not yet linked
  rels,      \* relationships not yet created
  snap,      \* the schema_json of sync_schema_to_rdb
  clean,     \* history: alone on its schema since it began, nothing raised
  faults, crashes

graph == <<schemaV, nodeV, hasNode, effects>>
tables == <<rdb, versions>>
db == <<graph, tables>>
memory == <<active, dict>>
loop == <<todo, made, cur, rels>>
local == <<sid, obj, loop, snap>>
vars == <<db, memory, pc, local, clean, faults, crashes>>

TypeOK ==
  /\ schemaV \subseteq SchemaVertex
  /\ nodeV \subseteq NodeVertex
  /\ hasNode \subseteq Request \X NodeVertex
  /\ effects \subseteq NodeVertex \X NodeVertex
  /\ rdb \in [Schema -> Content \cup {None}]
  /\ versions \in [Schema -> Content \cup {None}]
  /\ active \in Request \cup {None}
  /\ dict \in [Request -> Dict \cup {None}]
  /\ pc \in [Request -> PC]
  /\ sid \in [Request -> Schema \cup {None}]
  /\ obj \in [Request -> Request \cup {None}]
  /\ todo \in [Request -> SUBSET NodeId]
  /\ made \in [Request -> SUBSET NodeVertex]
  /\ cur \in [Request -> NodeVertex \cup {None}]
  /\ rels \in [Request -> SUBSET Edge]
  /\ snap \in [Request -> Content \cup {None}]
  /\ clean \in [Request -> BOOLEAN]
  /\ faults \in 0..MaxFaults
  /\ crashes \in 0..MaxCrashes

Init ==
  /\ schemaV = {} /\ nodeV = {} /\ hasNode = {} /\ effects = {}
  /\ rdb = [s \in Schema |-> None]
  /\ versions = [s \in Schema |-> None]
  /\ active = None
  /\ dict = [r \in Request |-> None]
  /\ pc = [r \in Request |-> "idle"]
  /\ sid = [r \in Request |-> None]
  /\ obj = [r \in Request |-> None]
  /\ todo = [r \in Request |-> {}]
  /\ made = [r \in Request |-> {}]
  /\ cur = [r \in Request |-> None]
  /\ rels = [r \in Request |-> {}]
  /\ snap = [r \in Request |-> None]
  /\ clean = [r \in Request |-> FALSE]
  /\ faults = 0 /\ crashes = 0

---------------------------------------------------------------------------
(* What the Cypher patterns select.                                        *)

(* MATCH (s:Ontology_OntologySchema {id: ...})                             *)
VerticesOf(s) == {v \in schemaV : v.id = s}

(* Mutant: the schema's id is left out of the pattern.                     *)
ChildrenOfAny(s) ==
  {x \in nodeV : \E v \in schemaV : v.id \in Schema /\ <<v.by, x>> \in hasNode}

(* (s {id: ...})-[:HAS_NODE]->(n)                                          *)
Children(s) == {x \in nodeV : \E v \in VerticesOf(s) : <<v.by, x>> \in hasNode}

(* ... with n:Ontology_OntologyType, the label of every unlayered node.    *)
TypeChildren(s) == {x \in Children(s) : x.node \notin Layered}

(* Mutant: DELETE without DETACH.                                          *)
DeleteOnly(D) == nodeV' = nodeV \ D /\ UNCHANGED <<hasNode, effects>>

(* DETACH DELETE of the node vertices D.                                   *)
DetachDelete(D) ==
  /\ nodeV' = nodeV \ D
  /\ hasNode' = {e \in hasNode : e[2] \notin D}
  /\ effects' = {e \in effects : e[1] \notin D /\ e[2] \notin D}

(* MATCH (s:... {id: ...}) SET s.schemaJson = ...                          *)
WithJson(s, j) ==
  {IF v.id = s THEN [v EXCEPT !.json = j] ELSE v : v \in schemaV}

---------------------------------------------------------------------------
(* Coroutines.                                                             *)

Ended == {"done", "failed"}
InFlight == {r \in Request : pc[r] \notin Ended \cup {"idle"}}

Doc(r) == dict[obj[r]].content

Goto(r, l) == pc' = [pc EXCEPT ![r] = l]

NoFault == UNCHANGED <<clean, faults, crashes>>

(* A statement either executes or raises with no effect.                   *)
Outcome(r, ok) ==
  /\ UNCHANGED crashes
  /\ IF ok THEN UNCHANGED <<faults, clean>>
           ELSE /\ faults < MaxFaults
                /\ faults' = faults + 1
                /\ clean' = [clean EXCEPT ![r] = FALSE]

(* A request about schema s starts; whoever is at work on s is no longer   *)
(* alone.                                                                  *)
Begin(r, s) ==
  /\ pc[r] = "idle"
  /\ Cardinality(InFlight) < MaxInFlight
  /\ sid' = [sid EXCEPT ![r] = s]
  /\ clean' = [q \in Request |->
                 IF q = r THEN \A p \in InFlight : sid[p] # s
                          ELSE clean[q] /\ sid[q] # s]
  /\ UNCHANGED <<db, active, loop, snap, faults, crashes>>

(* save_schema: stamp the dict, serialise it into its own schemaJson and   *)
(* enter sync_ontology_schema.                                             *)
SaveSchema(r, s, c) ==
  /\ Begin(r, s)
  /\ dict' = [dict EXCEPT ![r] = [id |-> s, content |-> c]]
  /\ obj' = [obj EXCEPT ![r] = r]
  /\ Goto(r, "clear")

(* update_node: the cached dict is changed in place, then saved.           *)
UpdateNode(r, n, a) ==
  /\ active # None /\ n \in DOMAIN dict[active].content
  /\ Begin(r, dict[active].id)
  /\ dict' = [dict EXCEPT ![active].content[n] = a]
  /\ obj' = [obj EXCEPT ![r] = active]
  /\ Goto(r, "clear")

(* Mutant: only nodes the new document still has are cleared.              *)
ClearNamed(r) == {x \in TypeChildren(sid[r]) : x.node \in DOMAIN Doc(r)}

(* _delete_schema_nodes names the labels TYPE and NODE; AgeService gives a *)
(* node the label TYPE or a layer's, never NODE.                           *)
Cleared(r) == TypeChildren(sid[r])

DeleteSchemaNodes(r, ok) ==
  /\ pc[r] = "clear"
  /\ Outcome(r, ok)
  /\ IF ok THEN DetachDelete(Cleared(r)) ELSE UNCHANGED <<nodeV, hasNode, effects>>
  /\ Goto(r, "match")   \* an exception is swallowed
  /\ UNCHANGED <<schemaV, tables, memory, local>>

(* Mutant: an exception counts as "no such schema".                        *)
FailedMatchCreates(r, ok) ==
  IF ok /\ VerticesOf(sid[r]) # {} THEN "setMeta" ELSE "createMeta"

(* _upsert_schema_meta: MATCH, then SET or CREATE by what it returned.     *)
(* Exceptions propagate out of save_schema.                                *)
AfterMatch(r, ok) ==
  IF ~ok THEN "failed"
  ELSE IF VerticesOf(sid[r]) # {} THEN "setMeta" ELSE "createMeta"

MatchMeta(r, ok) ==
  /\ pc[r] = "match"
  /\ Outcome(r, ok)
  /\ Goto(r, AfterMatch(r, ok))
  /\ UNCHANGED <<db, memory, local>>

(* The schema vertices once the SET or the CREATE has run.                 *)
Written(r) ==
  IF pc[r] = "setMeta"
  THEN WithJson(sid[r], Doc(r))
  ELSE schemaV \cup {[by |-> r, id |-> sid[r], json |-> Doc(r)]}

WriteMeta(r, ok) ==
  /\ pc[r] \in {"setMeta", "createMeta"}
  /\ Outcome(r, ok)
  /\ schemaV' = IF ok THEN Written(r) ELSE schemaV
  /\ todo' = [todo EXCEPT ![r] = DOMAIN Doc(r)]
  /\ rels' = [rels EXCEPT ![r] = Edge]
  /\ Goto(r, IF ok THEN "sync" ELSE "failed")
  /\ UNCHANGED <<nodeV, hasNode, effects, tables, memory, sid, obj, made, cur, snap>>

(* _create_node, first statement; the dict is read when the loop gets to   *)
(* the node.                                                               *)
CreateNode(r, n) ==
  /\ pc[r] = "sync" /\ n \in todo[r]
  /\ LET x == [by |-> r, node |-> n, attr |-> Doc(r)[n]]
     IN  /\ nodeV' = nodeV \cup {x}
         /\ cur' = [cur EXCEPT ![r] = x]
  /\ todo' = [todo EXCEPT ![r] = @ \ {n}]
  /\ Goto(r, "link")
  /\ NoFault
  /\ UNCHANGED <<schemaV, hasNode, effects, tables, memory, sid, obj, made, rels, snap>>

(* A CREATE that raises skips the node.                                    *)
CreateNodeFails(r, n) ==
  /\ pc[r] = "sync" /\ n \in todo[r]
  /\ Outcome(r, FALSE)
  /\ todo' = [todo EXCEPT ![r] = @ \ {n}]
  /\ UNCHANGED <<db, memory, pc, sid, obj, made, cur, rels, snap>>

(* Mutant: the result enters node_age_ids without the check for None.      *)
MappedUnchecked(r, ok) == {IF ok THEN cur[r] ELSE None}

(* The entry of node_age_ids a node gets: none when linking it raised.     *)
Mapped(r, ok) == IF ok THEN {cur[r]} ELSE {}

(* _create_node, second statement: an edge from every vertex with the      *)
(* schema's id, if the new vertex is still there.                          *)
LinkNode(r, ok) ==
  /\ pc[r] = "link"
  /\ Outcome(r, ok)
  /\ hasNode' = IF ok /\ cur[r] \in nodeV
                THEN hasNode \cup {<<v.by, cur[r]>> : v \in VerticesOf(sid[r])}
                ELSE hasNode
  /\ made' = [made EXCEPT ![r] = @ \cup Mapped(r, ok)]
  /\ cur' = [cur EXCEPT ![r] = None]
  /\ Goto(r, "sync")
  /\ UNCHANGED <<schemaV, nodeV, effects, tables, memory, sid, obj, todo, rels, snap>>

(* _create_relationship runs only for a relationship with both ends in     *)
(* node_age_ids.                                                           *)
Ends(r, e) == {p \in made[r] \X made[r] : p[1].node = e[1] /\ p[2].node = e[2]}
Linkable(r) == {e \in rels[r] : Ends(r, e) # {}}

CreateRelationship(r, e, ok) ==
  /\ pc[r] = "sync" /\ todo[r] = {} /\ e \in Linkable(r)
  /\ Outcome(r, ok)
  /\ effects' = effects \cup {p \in Ends(r, e) : ok /\ p[1] \in nodeV /\ p[2] \in nodeV}
  /\ rels' = [rels EXCEPT ![r] = @ \ {e}]
  /\ UNCHANGED <<schemaV, nodeV, hasNode, tables, memory, pc, sid, obj, todo, made,
                 cur, snap>>

(* ensure_vlabel or ensure_elabel raises, in either loop.                  *)
EnsureLabelFails(r) ==
  /\ pc[r] = "sync" /\ (todo[r] # {} \/ Linkable(r) # {})
  /\ Outcome(r, FALSE)
  /\ Goto(r, "failed")
  /\ UNCHANGED <<db, memory, local>>

(* save_schema: SET s.schemaJson, then the RDB copy; neither may fail it.  *)
SetSchemaJson(r, ok) ==
  /\ pc[r] = "sync" /\ todo[r] = {} /\ Linkable(r) = {}
  /\ Outcome(r, ok)
  /\ schemaV' = IF ok THEN WithJson(sid[r], Doc(r)) ELSE schemaV
  /\ Goto(r, "rdb")
  /\ UNCHANGED <<nodeV, hasNode, effects, tables, memory, local>>

UpsertRdb(r, ok) ==
  /\ pc[r] = "rdb"
  /\ Outcome(r, ok)
  /\ rdb' = IF ok THEN [rdb EXCEPT ![sid[r]] = Doc(r)] ELSE rdb
  /\ snap' = [snap EXCEPT ![r] = Doc(r)]
  /\ Goto(r, IF ok THEN "version" ELSE "install")
  /\ UNCHANGED <<graph, versions, memory, sid, obj, loop>>

(* INSERT ... ON CONFLICT (schema_id, version) DO NOTHING; no code raises  *)
(* a document's version.                                                   *)
InsertVersion(r, ok) ==
  /\ pc[r] = "version"
  /\ Outcome(r, ok)
  /\ versions' = IF ok /\ versions[sid[r]] = None
                 THEN [versions EXCEPT ![sid[r]] = snap[r]] ELSE versions
  /\ Goto(r, "install")
  /\ UNCHANGED <<graph, rdb, memory, local>>

(* The cache is set last, by save_schema and by set_active_schema.         *)
Install(r) ==
  /\ pc[r] \in {"install", "adopt"}
  /\ active' = obj[r]
  /\ Goto(r, "done")
  /\ NoFault
  /\ UNCHANGED <<db, dict, local>>

(* set_active_schema: get_schema answers from the cache when it can.       *)
SetActiveSchema(r, s) ==
  /\ Begin(r, s)
  /\ Goto(r, IF active # None /\ dict[active].id = s THEN "done" ELSE "read")
  /\ UNCHANGED <<dict, obj>>

(* get_schema: rows[0] of the matching vertices, any of them.              *)
ReadSchema(r) ==
  /\ pc[r] = "read"
  /\ \E v \in VerticesOf(sid[r]) :
        dict' = [dict EXCEPT ![r] = [id |-> sid[r], content |-> v.json]]
  /\ obj' = [obj EXCEPT ![r] = r]
  /\ Goto(r, "adopt")
  /\ NoFault
  /\ UNCHANGED <<db, active, sid, loop, snap>>

(* Mutant: a read that finds nothing is tried again until it raises.       *)
Unanswered(r, ok) == ~ok

(* No vertex, or an exception: get_schema answers None.                    *)
NoSchema(r, ok) == ok => VerticesOf(sid[r]) = {}

ReadNothing(r, ok) ==
  /\ pc[r] = "read"
  /\ NoSchema(r, ok)
  /\ Outcome(r, ok)
  /\ Goto(r, "done")
  /\ UNCHANGED <<db, memory, local>>

(* delete_schema: the children, then the vertex, then the cache.  The RDB  *)
(* rows stay.                                                              *)
DeleteSchema(r, s) ==
  /\ Begin(r, s)
  /\ Goto(r, "dropNodes")
  /\ UNCHANGED <<dict, obj>>

DropNodes(r, ok) ==
  /\ pc[r] = "dropNodes"
  /\ Outcome(r, ok)
  /\ IF ok THEN DetachDelete(TypeChildren(sid[r]))
           ELSE UNCHANGED <<nodeV, hasNode, effects>>
  /\ Goto(r, "dropSchema")
  /\ UNCHANGED <<schemaV, tables, memory, local>>

DropSchema(r, ok) ==
  /\ pc[r] = "dropSchema"
  /\ Outcome(r, ok)
  /\ LET V == IF ok THEN VerticesOf(sid[r]) ELSE {}
     IN  /\ schemaV' = schemaV \ V
         /\ hasNode' = {e \in hasNode : \A v \in V : e[1] # v.by}
  /\ Goto(r, IF ok THEN "forget" ELSE "failed")
  /\ UNCHANGED <<nodeV, effects, tables, memory, local>>

(* Mutant: the cache outlives the schema.                                  *)
KeepActive(r) == active

(* The deleted schema leaves the cache.                                    *)
ActiveAfterDelete(r) ==
  IF active # None /\ dict[active].id = sid[r] THEN None ELSE active

Forget(r) ==
  /\ pc[r] = "forget"
  /\ active' = ActiveAfterDelete(r)
  /\ Goto(r, "done")
  /\ NoFault
  /\ UNCHANGED <<db, dict, local>>

(* The process restarts: coroutines and the singleton's fields are gone,   *)
(* what was committed stays.                                               *)
Crash ==
  /\ crashes < MaxCrashes
  /\ crashes' = crashes + 1
  /\ pc' = [r \in Request |-> IF r \in InFlight THEN "failed" ELSE pc[r]]
  /\ active' = None
  /\ UNCHANGED <<db, dict, local, clean, faults>>

---------------------------------------------------------------------------
Call(r) ==
  \/ \E s \in Schema, c \in Posted : SaveSchema(r, s, c)
  \/ \E n \in NodeId, a \in Attr : UpdateNode(r, n, a)
  \/ \E s \in Schema : SetActiveSchema(r, s) \/ DeleteSchema(r, s)

Step(r) ==
  \/ \E ok \in BOOLEAN :
       \/ DeleteSchemaNodes(r, ok) \/ MatchMeta(r, ok) \/ WriteMeta(r, ok)
       \/ LinkNode(r, ok) \/ SetSchemaJson(r, ok)
       \/ UpsertRdb(r, ok) \/ InsertVersion(r, ok)
       \/ ReadNothing(r, ok) \/ DropNodes(r, ok) \/ DropSchema(r, ok)
       \/ \E e \in Edge : CreateRelationship(r, e, ok)
  \/ \E n \in NodeId : CreateNode(r, n) \/ CreateNodeFails(r, n)
  \/ EnsureLabelFails(r) \/ Install(r) \/ ReadSchema(r) \/ Forget(r)

Next == (\E r \in Request : Call(r) \/ Step(r)) \/ Crash

Spec == Init /\ [][Next]_vars

(* The event loop runs every coroutine whose statement has returned, and   *)
(* a statement takes one connection and gives it back: no call waits while *)
(* it holds one.                                                           *)
FairSpec == Spec /\ \A r \in Request : WF_vars(Step(r))

---------------------------------------------------------------------------
(* Properties.                                                             *)

(* Edges never dangle, HAS_NODE stays inside one schema, and EFFECTS joins *)
(* vertices of one save: LinkNode and _create_relationship look vertices   *)
(* up again after an await, when a delete of another request may have run. *)
GraphIntegrity ==
  /\ \A e \in hasNode :
       /\ e[2] \in nodeV
       /\ \E v \in schemaV : v.by = e[1] /\ v.id = sid[e[2].by]
  /\ \A e \in effects : e[1] \in nodeV /\ e[2] \in nodeV /\ e[1].by = e[2].by

(* The graph and the RDB hold document c for schema s: every vertex of s   *)
(* carries c, its unlayered children are the unlayered nodes of c with     *)
(* their fields, one vertex each, joined by exactly the relationships of   *)
(* the document.                                                           *)
Mirrors(s, c) ==
  LET kids == TypeChildren(s)
      kept == DOMAIN c \ Layered
  IN  /\ VerticesOf(s) # {} /\ \A v \in VerticesOf(s) : v.json = c
      /\ {<<x.node, x.attr>> : x \in kids} = {<<n, c[n]>> : n \in kept}
      /\ \A x, y \in kids : x.node = y.node => x = y
      /\ \A x, y \in kids : <<x, y>> \in effects <=> <<x.node, y.node>> \in Edge
      /\ rdb[s] = c

(* A save that was alone on its schema and met no exception leaves graph   *)
(* and RDB equal to its document, whatever earlier saves, deletes, crashes *)
(* and races left behind and whatever runs meanwhile on other schemas.     *)
CleanSaveMirrors ==
  \A r \in Request :
    pc[r] = "install" /\ clean[r] => Mirrors(sid[r], Doc(r))

(* A step on behalf of one schema removes no vertex of another schema.     *)
DeletesStayInSchema ==
  [][\A x \in nodeV \ nodeV' :
       \E r \in Request : pc'[r] # pc[r] /\ sid[r] = sid[x.by]]_vars

(* With one client that waits for each answer (MaxInFlight = 1), MATCH     *)
(* then CREATE never makes a second vertex for a schema, whatever raised   *)
(* and whenever the process restarted.                                     *)
OneVertexPerSchema ==
  \A v, w \in schemaV : v.id = w.id => v = w

(* With one client, between requests the cached schema is one the graph    *)
(* has, even after exceptions and restarts; and as long as no statement    *)
(* raised it has the content the graph stores.                             *)
CacheMatchesGraph ==
  InFlight = {} /\ active # None =>
    /\ VerticesOf(dict[active].id) # {}
    /\ faults = 0 => \A v \in VerticesOf(dict[active].id) :
                        v.json = dict[active].content

(* Every call is answered: none waits for another.                         *)
EveryCallEnds ==
  \A r \in Request : pc[r] # "idle" ~> pc[r] \in Ended

(* sync_ontology_schema "synchronises the schema to AGE": after a clean    *)
(* save, list_schemas counts (nodeCount) the nodes of the document.        *)
AllNodesMirrored ==
  \A r \in Request :
    pc[r] = "install" /\ clean[r] =>
      Cardinality(Children(sid[r])) = Cardinality(DOMAIN Doc(r))

(* ontology_schema_versions is the "snapshot history per version": after a *)
(* clean save the snapshot of the document's version is the document.      *)
VersionIsSnapshot ==
  \A r \in Request :
    pc[r] = "install" /\ clean[r] => versions[sid[r]] = Doc(r)
=============================================================================
