# A verification development of K-AIR-GraphDB

K-AIR-GraphDB replaces Neo4j by PostgreSQL with Apache AGE (graph), pgvector
(embeddings) and plain tables.  This directory holds TLA+ models of the parts
of it that change state, TLC configurations that check them on small
instances, and proofs that TLAPS checks for every size of instance.  All paths
below are relative to `src/`; `LIB` is `libs/age_graph_repository`.

## 1. The system

All Python code is asynchronous (asyncio, asyncpg) apart from the ingest
command (psycopg).  One process serves many requests; each is a coroutine that
runs alone between two `await`s.  Nearly every `await` executes **one**
statement on a connection taken from the pool and given back, in autocommit;
only a few operations open a transaction.  So the typical operation is a list
of committed statements, decided on what earlier ones returned, interleaved
with those of other requests and cut short by an exception or a restart.
That is where this code is hard to test, and what the models are about.

| component | state | operations | hard behaviour |
|---|---|---|---|
| Ontology schema store: `LIB/services/age_schema_store.py`, `age_service.py`, `age_guard.py`, `LIB/catalog_adapter.py` | graph of one schema vertex and its node vertices, RDB copy and version rows, cached active schema | save, update of a node, activate, delete, read | sync of a dozen statements, swallowed exceptions, a cached dict changed in place, MATCH-then-CREATE |
| Text2SQL query history: `LIB/text2sql/pg_query_repository.py` | `t2s_queries`, the tables and columns a query used, value mappings | save_query, delete_query, save_value_mapping | read-decide-write, an atomic counter, delete and reinsert without a transaction |
| Physical metadata: `LIB/physical_meta`, `services/meta_ingest_proto`, `apply_physical_meta_catalog` of `LIB/repository.py` | T2S tables, physical graph | load a catalog, apply one to the graph | one transaction then a statement list, rerun after a failure |
| Connection managers: `LIB/connection.py`, `LIB/text2sql/pg_connection.py`, the streams of `LIB/analyzer/pg_analyzer_client.py` | the pool | connect, close, statements, streams | connect twice, close while in use, a close that raises, a stream that holds a connection |
| Lifespans of the three FastAPI services: `app/main.py`, `app/deps.py` | module globals, pools, `graphdb_connected` | startup, shutdown | half a startup, a close that raises |
| Graph repository: `LIB/repository.py` | the graph of all schemas | sync, update and delete by id | a clean-up that reaches other schemas |
| Behavior and scenario stores: `LIB/services/age_behavior_store.py`, `age_scenario_store.py` | behavior and scenario vertices, field links | save, status, links, delete | create and link in two statements |
| Analyzer metadata: `LIB/analyzer/pg_phase_ddl.py`, `pg_metadata_service.py`, `pg_schema_manage_service.py` | analyzer tables, columns, relationships | DDL import, generated and user descriptions | row locks in input order, statements by name that write several rows, descriptions overwritten |
| Analyzer lineage: `LIB/analyzer/pg_lineage_service.py` | lineage nodes and edges | save_lineage | row locks, a node of two roles |
| Analyzer glossary, calendar | rows | CRUD | cascades |
| Text2SQL reads: `LIB/text2sql/pg_graph_search.py`, `pg_neo4j_utils.py`, `pg_context.py` | none | subschema, table details, similar queries | an answer put together from several statements |
| Vector repository | embeddings | upsert, search | single statements |
| Cypher text, labels | none | escape, convert, parse | pure |
| Migration scripts | source and target graph | batches, verification | run once, alone |

Interaction: the services call the stores; the stores and the repositories all
reach the database through the connection pool; the schema store calls the
catalog adapter for the RDB copy; the ingest pipeline writes T2S and then uses
the statements of `physical_meta`, which the graph repository uses as well.
`PROJECT.json` lists every component with its status, and every hazard with
its line and the properties that watch it.

What makes each component correct:

* schema store: after a save nobody disturbed, graph, RDB and cache show the
  document that was saved, whatever earlier failures left; edges never
  dangle; a request never touches the nodes of another schema; every call is
  answered; to a single client it is a map from ids to documents;
* query history: executions are counted exactly, usage rows belong to a row
  that is there, an undisturbed save leaves the usage of its own run, and for
  one client at a time the best run is the one kept;
* physical metadata: an undisturbed load makes the graph equal to the catalog,
  also after a load that was cut short; the graph never shows what T2S was not
  given; vertices that are not of the physical model stay;
* the stores on one domain graph: edges join what is there and is of the right
  kind, whoever deletes what; one client at a time never duplicates a vertex; an
  undisturbed save is listed; two readers of the same links agree;
* analyzer: what is committed is what the calls would have left one after the
  other; a generated description never replaces a user's; imports into one data
  source never deadlock; every call ends;
* connection managers: a manager that was connected stays usable until it is
  closed, no pool is lost, every call ends, also after calls that raised;
* lifespans: a service that reports its database has all it needs, a shutdown
  leaves nothing open, a database that is down does not stop the start;
* Text2SQL reads: an answer holds all that was there when the call began, under
  the name the code looks it up by, and nothing that was never there.

## 2. Modules

| module | role |
|---|---|
| `SchemaStore` | state, actions, specification and properties of the schema store |
| `SchemaStoreInv` | its inductive invariants: `IInv`, and `SerialInv` for one client |
| `SchemaRegistry`, `SchemaStoreRefinement` | what the store promises one client, and the refinement mapping |
| `MCSchemaStore` | finite instances |
| `SchemaStore_proofs` | theorems |
| `QueryHistory`, `QueryHistoryInv`, `MCQueryHistory`, `QueryHistory_proofs` | the query history, likewise |
| `MetaIngest`, `MetaIngestInv`, `MCMetaIngest`, `MetaIngest_proofs` | the physical metadata, likewise |
| `AgeGraph` | the graph in AGE, what its clauses do, and the coroutines on it |
| `BehaviorStore`, `ScenarioStore`, `GraphRepository` | one store each, on the graph of `AgeGraph` |
| `SchemaStatements` | the statements of the schema store on that graph, beside its own model in `SchemaStore` |
| `DomainGraph`, `DomainGraphInv`, `MCDomainGraph`, `DomainGraph_proofs` | these four together |
| `AnalyzerRows` | the analyzer's rows, row locks, transactions and the meaning of a statement |
| `AnalyzerCatalog`, `AnalyzerLineage` | the operations of the services, as lists of statements |
| `AnalyzerWrites`, `AnalyzerWritesInv`, `MCAnalyzerWrites`, `AnalyzerWrites_proofs` | these operations together |
| `PooledConnection`, `MCPooledConnection`, `PooledConnection_proofs` | a connection manager and its callers |
| `ServiceLifecycle`, `ServiceLifecycleInv`, `MCServiceLifecycle`, `ServiceLifecycle_proofs` | startup and shutdown of each service |
| `Text2SqlTables` | the T2S catalog, the keys and the calls that read them |
| `CatalogSearch`, `QuerySearch` | subschemas and table details; similar queries and value mappings |
| `Text2SqlReads`, `Text2SqlReadsInv`, `MCText2SqlReads`, `Text2SqlReads_proofs` | these beside ingests and saves |

Each `*Inv` module holds the inductive invariants of its component and nothing
else; the MC module and the module of proofs both extend it, so that what TLC
can check on an instance is what is proved.

The models of statements have the same shape.  `Request` is the set of calls
clients will make; `pc[r]` is the next statement of call `r`, `"idle"` before
the call and `"done"` or `"failed"` after it.  A step is the Python code from one
`await` to the next, together with the statement it issues: the code of other
coroutines commutes with a statement whose parameters are already bound.
`clean[r]` is a history variable: the request met no exception and shared its
schema (query, graph) with no other.  Properties that a rival legitimately
spoils are conditioned on it.  Vertices are named by the request that created
them and by what they stand for, since AGE never reuses an id.

### SchemaStore

| state | code |
|---|---|
| `schemaV`, `nodeV`, `hasNode`, `effects` | the vertices `Ontology_OntologySchema` and its nodes, `HAS_NODE` and the relationships between nodes |
| `rdb`, `versions` | `ontology_schemas`, `ontology_schema_versions` |
| `active`, `dict` | `_active_schema`, and the dict objects it and the coroutines share by reference |
| `sid`, `obj`, `todo`, `made`, `cur`, `rels`, `snap` | locals of the coroutines: the loops of `sync_ontology_schema`, `node_age_ids`, `schema_json` |

`SaveSchema` and `UpdateNode` enter `save_schema`; `DeleteSchemaNodes`,
`MatchMeta`, `WriteMeta`, `CreateNode`, `LinkNode`, `CreateRelationship`,
`SetSchemaJson`, `UpsertRdb`, `InsertVersion` and `Install` are its statements
in order, each with its failure (`Outcome`): swallowed for the clean-up, the
nodes, the relationships, the RDB copy; fatal for the schema vertex and for
`ensure_vlabel`.  `SetActiveSchema`, `ReadSchema`, `ReadNothing` are
activation; `DeleteSchema`, `DropNodes`, `DropSchema`, `Forget` deletion.
`Crash` restarts the process.  Data is abstracted to a document that maps node
ids to a field value; a relationship is a pair of node ids; a node has the
label `Ontology_OntologyType` or a layer's, which is all that the clean-up
tells apart.

### QueryHistory

`rows` is `t2s_queries`, `usage` the used tables and columns.  `SaveQuery` and
`ReadExisting` read the row and decide with `ShouldOverwrite` (status, steps,
time, creation time, compared as Python compares tuples) and
`ShouldOverwriteContext`; `InsertRow`, `InsertConflicts` and `UpdateRow` are
the upsert; `DropTables`, `DropColumns`, `InsertUsage`, `StoreLists` rewrite
the usage one statement at a time; `DeleteQuery` cascades.  `Raises` ends a
call at any statement; `Tick` moves the clock the runs are stamped with.
`apart` is a history variable: no two requests have overlapped.  A run
carries its rank, its context score, and the tables and columns it used, some
of which the catalog may not know (`Known`).

### MetaIngest

`t2s`, `t2sFk` are the relational tables; `vertices`, `has`, `fkTo` the graph.
`Load` starts the command (with or without the graph), `Apply` the API call.
`ApplyToT2s` is the one transaction; `DropColumns`, `DropTables`,
`DropDatabase`, `CreateDatabase`, `CreateNamed`, `LinkNamed`, `CreateFk` are
the statements of the refresh in the order `physical_cypher` lists them;
`Stops` is a failing statement or a killed process, at any point.

### The domain graph

`props` maps every vertex that is there to the properties calls write; `edges`
holds triples.  A vertex is named by its creator, its label and its id
property.  `AgeGraph` gives the MATCH patterns (`Match`, `MatchId`, `Under`,
`Children`), the clauses (`Create`, `SetAll`, `DetachDelete`, `Pairs`) and the coroutines
(`Begin`, `Goto`, `Raises`); a statement that uses a graph id read earlier
goes through `Here`, since the vertex may be gone.  `BehaviorStore` has
`save_behavior_node`, `save_model_field_links`, `update_model_status`,
`delete_behavior` and both reads of field links; the clean-up of links follows
outgoing edges only, and may fail in AGE as a whole, which the code swallows.
`ScenarioStore` has the scenarios, which are found by id and listed by edge.
`GraphRepository` has `sync_ontology_schema` statement by statement and the
statements that reach a vertex by id whatever its label.  `SchemaStatements`
has what the schema store's save and delete do to the graph.  A save clears the
children it labels `TYPE` and `NODE` under `HAS_NODE` (`DeleteSchemaNodes`), then
runs the statements of `GraphRepository` from `MatchMeta` on, with types instead
of nodes and with `EFFECTS` (`NodeLabel`, `RelType`): the code of `AgeService` is
the same there.  A delete takes the types, nodes and behaviors that hang on the
schema by any edge, one label at a time, each exception swallowed
(`DropChildren`), and then the schema vertex; scenarios and nodes of a layer
label stay.  The cache, the `schemaJson` property and the copy in the database
are left to `SchemaStore`, the answers of the calls are left out.

### The analyzer

A row of any `analyzer_*` table is named by its unique key and holds its text,
the source or role column (`by`), who inserted it (`maker`, which stands for the
serial id) and the table, glossary or calendar it belongs to (`owner`; `table_id`
of a column may be NULL, and a later import may change it).  A call is a list of
statements (`Stmt`, `Do`, `Sweep`, `Drop`); the operators of `AnalyzerCatalog` and
`AnalyzerLineage` build the list of each method in the order of the code, with
its loops.  Tables have names (`NameOf`), and what the code matches by name is a
set: `update_table_description` of both services writes the table in every
database, `update_column_description` the column in every schema and database,
`delete_schema_relationship` takes the relationships of every type between all
tables of the names.  A SELECT of one id by name returns any of the tables that
fit.

Ids are what a call has been given (`seen`): a statement that uses one it does
not have is left out (`Meant`), a column whose table is unknown is inserted with
a NULL `table_id`, an unknown table a key leads to gets a bare row, and a key
whose own table is unknown is skipped.  An id whose row is gone is refused by the
foreign key.

An UPDATE or DELETE by condition takes three kinds of steps, as in PostgreSQL
at READ COMMITTED: `Scan` finds the rows (`aim`) in what is committed at that
moment, `Acquire` takes the row locks one by one in any order, `Execute` writes
those of the rows found that still match when they are locked (`Live`).  What is
inserted in between is not seen.  `Footprint` gives the locks of a statement (a
foreign key check shares the owner), `Victim` is the deadlock detector, `Refuse`
a violated constraint, `Fails` any other exception.  `serial` is a history
variable: the rows as they would be, had each transaction made at its commit
the writes it made, on the rows its statements found; `kept` the text a user
wrote last.

### Connection managers and lifespans

`PooledConnection`: `slot` is `_pool`, `state` and `lent` what asyncpg knows of
each pool.  `Connect`/`Opened`/`CannotOpen` and `Close`/`Closed`/`CannotClose`
are the code around the `await` of each.  If the `await` of `close()` raises, the
line that clears the reference is skipped: the pool is closed and `slot` keeps
it (`Jammed`), a later `connect()` returns at once as if it were open, calls
raise, and the next `close()` forgets it, as asyncpg returns at once from the
close of a closed pool.  `Query` and `Stream` ask for a connection,
`Granted`, `Broken` are asyncpg, `Statement`, `Raises`, `Resume`, `Nested`,
`Leave` what callers and consumers of a stream do, `Collected` the event loop
closing an abandoned generator.  `promised`, `clean` and `raced` are history.

`ServiceLifecycle`: the lists `InitGraphdb`, `InitTargetDb` and `CloseAll` are
the statements of the startup and the shutdown of each service in order; a step
does the head of the list.  `set`, `usable`, `open` are the module globals and
their pools.  `/health` answers what was found at startup: it is never asked
again.

### Text2SQL reads

`Text2SqlTables` has the catalog of the T2S tables (`stored`, `fks`) that
ingests extend, and the shape of a call: a list of reads, each of which keeps
its result in `reads[r]`.  An ingest brings a catalog (`Catalog`): tables, any of
their columns, and keys, of which those between columns of the same catalog are
stored (`KeysWithin`); a later one may add columns to a stored table and keys
between stored columns.  `CatalogSearch` has `build_subschema` and
the table details; `QuerySearch` the two-search merge of `pg_find_similar_queries_and_mappings`
and both saves of a value mapping.  `before[r]` is what the tables were when the
call began.  A vector index may miss rows, so a search answers any subset of
the eligible rows of the right size.  Columns of twin tables (one schema and
name in two databases) are not told apart, as in the code.  `Shown` is
`COALESCE(original_name, name)`: a table found by the table search is known by
it, and columns and keys are looked up with it as if it were the table's name, so
those of a table with another original name are missing unless a column of it
was found too.  Table details answer to either name (`Answering`).

## 3. Runs

| run | asks | bounds | result |
|---|---|---|---|
| `store_isolation` | do interleaved saves, activations and deletes of two schemas keep the graph whole and apart, does an undisturbed save mirror, is every call answered; the inductive invariant | 2 requests at a time, layered nodes, 1 fault, 1 crash, fairness | holds |
| `store_serial` | one client: no second vertex for an id, cache agrees with graph, and the store implements `SchemaRegistry` | 3 requests, 1 at a time, 1 fault, 1 crash | holds |
| `store_layers` | are the nodes under a schema those of its document after a clean save that drops one | 2 requests, 1 at a time | violated |
| `store_versions` | is the version row the snapshot of its version | 2 requests, 1 at a time | violated |
| `history` | exact counting, usage rows, clean saves, inductive invariant; without overlaps, best run, best context and its usage are kept | 3 requests, 2 at a time, 6 runs, 2 instants, 1 fault | holds |
| `ingest_race` | two loads at once or in a row, any two of four catalogs, stopping anywhere; does a load repair what an earlier one left | 2 requests | holds |
| `ingest_labels` | does a refresh stay within its label | 2 requests, 1 at a time | violated |
| `domain_race` | any three calls of the domain stores: whole edges, no duplicates for one client at a time, clean saves listed, readers agree, clean syncs shown | 3 requests, 2 at a time, 2 schema ids, a document with a plain node and one with a layered node, 1 fault | holds |
| `analyzer_locks` | any two calls of the analyzer: serial outcome, user texts, no needless deadlock, every call ends; the inductive invariant | 2 requests, 3 tables of one name (two in two databases, one in another schema), 2 columns of one name, 3 files, 1 fault, fairness | holds |
| `pool_race` | four calls on a manager: no pool lost, promise kept, every call ends | 4 calls, 3 pools of 2 connections, 2 batches, 2 calls that raise, fairness | holds |
| `service_life` | each service, twice, with a database that comes and goes | 2 lives, 2 requests, 2 faults, fairness | holds |
| `t2s_reads` | any three reads, ingests and saves: answers hold all of before and nothing of never | 3 calls, 1 of them a read, 3 tables (two of them twins, one with another original name), 3 catalogs, 3 queries, 1 word | holds |

Why the bounds are enough to be interesting: a race needs two requests in
flight and a third that finds what they left; a repair needs a failure and one
clean request after it; two nodes with a relationship (one of them layered), or
two tables with a foreign key, make every branch of the loops happen (in
`domain_race` each document has one node; the loop over several is
`store_isolation`'s, and the theorems are about any document); two labels or two
schemas are what isolation is about.  Requests are interchangeable, so they are
a symmetry set, except in the run of a liveness property.  `MaxInFlight`, `MaxFaults`, `MaxCrashes` and `MaxTime` bound the
state space and nothing else; the theorems hold for every value of them.
Deadlock is not checked: a run in which every call was made and answered ends.

Two calls of the analyzer are enough for every pair of scripts to meet; a
circle of three is possible in the code and is broken like one of two.  Its
tables are namesakes so that a statement by name finds several rows, and the
files name them in opposite orders, move a column to another table, and define
columns and keys of tables they do not contain.  Four calls on a manager are a
stream whose consumer waits, another, a `close()` and a `connect()`, or a
`close()` that raises, a `connect()` that finds the dead pool, a query and
another `close()`.  In `t2s_reads` reads change nothing, so one of them beside two
writers shows all they can see (`MaxReads`).

Fairness is assumed in the runs of liveness properties, and always of the
steps that the event loop or the database take by themselves, never of a
client's next call or of a fault:

* `store_isolation`: weak fairness of each call's steps.  The event loop
  resumes every coroutine whose statement has returned, a statement takes one
  connection and gives it back, and no call of this store holds a connection
  while it waits for another.  The failing outcome of a statement is one of the
  steps that fairness allows.
* `analyzer_locks`: weak fairness of the steps of all calls together: as long as
  some call can go on, one does.  That is less than the event loop and the
  database give, which is fairness to each call; it suffices because every call
  is a finite list.  The steps contain the deadlock detector: PostgreSQL runs it
  after `deadlock_timeout`.  Without a call that releases its locks nobody would
  get on, so this is where `EveryCallEnds` could fail.
* `pool_race`: weak fairness of each call's `Step`; consumers come back to
  their streams.  The property assumes that fewer consumers wait for a second
  connection than a pool has: with as many the code does wait for ever.
* `service_life`: weak fairness of the startup: an attempt to connect ends.

## 4. Findings

* `store_layers`: `sync_ontology_schema` is to synchronise the schema
  (`age_service.py:45`).  `_create_node` gives a node of a layer that layer as
  its label (115-120), and the clean-up (`age_service.py:66`) deletes other labels
  only.  In the run a document with a plain and a KPI node is saved, and then one
  with the plain node only: the KPI vertex is still there, under `HAS_NODE`.
* `store_versions`: `02-ontology-tables.sql:40` calls
  `ontology_schema_versions` a history of snapshots per version.  The insert
  does nothing on conflict (`catalog_adapter.py:243`) and no code raises the
  version, so the row is the first document ever saved.
* `ingest_labels`: `physical_cypher.py:86` states that a refresh deletes what
  is there for its own `meta_db_label`; the statements at 108-113 delete the
  columns and tables of every label.

Each is a property on its own, in a run that TLC finds violated.

## 5. Proofs

Every property that a passing run checks, the liveness properties apart, is a
theorem of the specification.

| module | theorems |
|---|---|
| `SchemaStore_proofs` | `InductiveInvariant` (`Spec => []IInv`), `TypeCorrect`, `GraphIntegrityHolds`, `CleanSaveMirrorsHolds`, `DeletesStayInSchemaHolds`; for one client (`MaxInFlight = 1`) `SerialInvariant`, `OneVertexPerSchemaHolds`, `CacheMatchesGraphHolds`, and `StoreIsRegistry`: the store implements `SchemaRegistry` |
| `QueryHistory_proofs` | `InductiveInvariant`, `TypeCorrect`, `SeenIsExactHolds`, `UsageHasRowHolds`, `CleanSaveRecordedHolds`; `SerialInvariant`, `BestRunKeptHolds`, `BestContextKeptHolds`, `UsageMatchesRunHolds` of saves that do not overlap |
| `MetaIngest_proofs` | `InductiveInvariant`, `TypeCorrect`, `GraphIntegrityHolds`, `ForeignStaysHolds`, `GraphBehindT2sHolds`, `CleanRefreshHolds` |
| `DomainGraph_proofs` | `Invariant`, `TypeCorrect`, `EdgesInPlace` (`GraphIntegrity`), `OneVertexPerId` (`SerialUnique`), `SameFieldLinks` (`ReadersAgree`); `CleanInvariant`, `CleanSaveListedHolds`, `CleanSyncShownHolds` |
| `AnalyzerWrites_proofs` | `InductiveInvariant`, `TypeCorrect`, `CommittedInOrderHolds`, `UserTextKeptHolds`, `NoNeedlessDeadlockHolds` |
| `PooledConnection_proofs` | `Invariant`, `TypeCorrect`, `ConnectPromises` (`PromiseKept`), `PoolsInReach` (`NoPoolLost`) |
| `ServiceLifecycle_proofs` | `InductiveInvariant`, `TypeCorrect`, `HealthMeansReadyHolds`, `NothingLeftOpenHolds` |
| `Text2SqlReads_proofs` | `InductiveInvariant`, `TypeCorrect`, `SubschemaExactHolds`, `NeighboursKeptHolds`, `SimilarTopHolds`, `MappingsExactHolds` |

A theorem `PHolds` says `Spec => []P`, or `Spec => P` for an action property.
Each module has one or two inductive invariants, one lemma per action (or group
of actions with the same effect) that says the action keeps them, lemmas that
say what a step of one call leaves of the others, and a temporal step at the
end.  TLC checks `IInv` in `store_isolation`, `history`, `ingest_race` and
`analyzer_locks`.

**Assumptions.** The theorems use the named assumptions on the constants and
nothing else; no bound on requests, rows, tables, runs, faults or crashes is
used.  The assumptions say what the constants are: finite sets of requests (and
of tables, columns and queries, where answers are counted against a limit), a
table for every column, documents and catalogs that are of the sets they are
drawn from, kinds of rows that are disjoint as tables of a database are, start
states whose rows have the rows they refer to, limits and thresholds that are
naturals.  `MaxInFlight = 1` is the hypothesis of what the schema store
promises one client, not an assumption of the module.

### The stores

For the schema store, the query history and the ingest the argument is the
same.  None of the properties is inductive: they speak of the end of a call, or
of a graph without saying who made it.  `IInv` adds

* what a coroutine knows at each statement (`RefsOK`, `LocalsOK`): its dict is
  there and is about its schema, what is left to do is part of its document;
* who made what (`OwnersOK`): a vertex belongs to the request that created it,
  is of that request's schema, is made once, and edges join vertices that are
  there.  That deletes detach is what keeps this part;
* how far a clean request has come (`CleanOK`, `Progress`): after which
  statement which part of the graph equals which part of its document.  It
  carries `Alone`: nobody else in flight is about the same schema, so no step of
  another request touches what `Progress` speaks of;
* for `MetaIngest`, `T2sFirst`: a request past the transaction has its elements
  in T2S, which with `OwnersOK` gives `GraphBehindT2s`.

With one client the schema store keeps `SerialInv` besides: what the call in
flight found in the graph or put there is still so (`Foothold`), hence the
vertex it creates is the only one of its id; and the cached schema is stored or
on its way out of the cache, and is what is stored unless something raised
(`CacheOK`).  `StoreIsRegistry` maps a state to the documents the schema
vertices carry and the schema the cache selects, and shows for every action
that it maps to a step of the registry or to none: the statement that writes
the vertex is the save, the one that drops it the delete.

What the query history promises one client at a time has an inductive invariant
of its own, `SerialInv`, which is inductive relative to `IInv`: the row stores
the run of a request that it has counted (`Makers`); without overlaps, one
request is in flight (`Lone`) and what it decided when it read the row still
holds at its write (`Fresh`); and the usage is that of the stored run except
while its own request rewrites it (`UsageKept`).  `BestRunKept` also needs that
`_candidate_rank` is a strict order (`BeforeOrder`).

### The domain graph

`IInv` says what a call was given (`GivenOK`), what graph
id it holds when it links (`HeldOK`) and, as long as no two calls have
overlapped, that what MATCH did not find is still missing at the statement that
creates or links (`StillSo`).  `GraphIntegrity` is inductive with `HeldOK`: a
link is made between vertices that its own MATCH finds, and every delete
detaches.  `SerialUnique` needs `StillSo`; the vertices at the start are those of
one creator, so it holds there by the naming of vertices.  `ReadersAgree`
follows from `GraphIntegrity` alone.  Here too, steps that create nothing that
must be unique share lemmas (`QuietStep`, `PlainStep`).

What a clean call leaves needs `CleanInv`: a clean call is alone
(`AloneOK`); what it found or created is there as it wrote it, statement by
statement (`BehaviorWork`, `ScenarioWork`); of a synchronisation, the nodes
that can be read are those created and linked so far and the relationships those
drawn so far (`SyncWork`).  A scenario is found by its id but listed by its
edge, so updating one shows it only if it was linked before: `ScenariosOK` says
that whoever created a scenario linked it by the end of its call, whatever
failed.

### The analyzer

The statements of a call are arbitrary sequences of legal ones (`CallsOK` with
`Legal`: which kinds of statement on which kinds of rows a method issues).
`IInv` is then about any such calls:

* `LocksOK`: no two calls hold locks that exclude each other, and a
  transaction has locked what it may undo;
* `GateOK`: a call that writes descriptions holds nothing between statements,
  nor while it waits for the only row its UPDATE found, and an import has the
  row of its data source from its first statement on;
* `KeptOK`: a text a user wrote is committed, and no open transaction has
  something else in its place unless one of its statements writes over it;
* `OrderOK`: what is committed is `serial`, and making the writes of an open
  transaction on the committed rows gives the rows as the transaction sees them.

`CommittedInOrder` is the last part at a commit.  It needs that what a statement
makes of a row depends on that row alone, that it writes only rows it has
locked, and that a row a transaction has written cannot change under it, which
is what the locks of `Footprint` are for.  That the set of rows is the one the
statement found and locked is part of the promise: PostgreSQL does not promise
more at this level, and a row inserted while an UPDATE waits is left out of it
in the code as well.  The effect of a list is a fold; its lemmas are proved for
a list and one more statement.  `UserTextKept` holds although a statement may
have found a row empty before a user filled it, because `Live` looks again under
the lock.  `NoNeedlessDeadlock` takes `GateOK`: two imports of a source cannot
both be past its row, and a describing call that found one row has nothing
another waits for.  One that found several may well be in a circle.  Where an
induction over natural numbers is needed (the positions of a list), it is done by
the least element of a set.

### Connection managers and lifespans

For the connection manager `IInv` says what a call knows at each await
(`LocalOK`), that every opening call has a pool of its own and a clean one
excludes running closes (`OpenersOK`), that a pool being closed is never used
again (`ClosersOK`), that `_pool` is open, being closed by somebody, or
closed because a `close()` raised on it (`SlotOK`), and that calls which do not
overlap work on `_pool` (`OneManager`).
`PromiseKept` needs the second and the fourth, with the lemma that a pool a
`close()` raised on stays so (`JammedStays`); `NoPoolLost` needs the last.  Calls
that neither open nor close share one lemma, `QuietInv`.

For the lifespans `IInv` says that what is left to do is the end of a script
(`TodoOK`), that a startup keeps what it has set and opened (`StartupOK`), that
a pool no failing close is to blame for is open exactly under its global, from
the startup that opened it to the shutdown whose list still has its close
(`PoolsOK`), and that no life opens a pool twice (`CountOK`).

### Text2SQL reads

`IInv` says of each statement of a call what the earlier ones returned, and of
which state:

* the catalog only grows, and the queries are those of the beginning while
  nobody saved one (`HistoryOK`);
* a subschema has listed for every table it shows under its own name the
  columns this had at the beginning (`ListedOK`), and the keys are read after them
  (`KeysOK`): the columns are a stale read, columns of the same table may come
  after it, and the property holds because ingests only add;
* the rows of a table so far are all it had at the beginning unless the limit
  is reached (`DetailsOK`); that the two directions never share a row is what
  makes the rows of both count up to the limit;
* while nobody saves, each search returned rows of the same history
  (`SearchedOK`), and the answer is the best of what they returned; `SimilarTop`
  follows when they returned every eligible row;
* a save holds the column that its lookup saw, which is still there
  (`LookupOK`); `MappingsExact` is inductive with it.

### What stays with TLC

Liveness (`EveryCallEnds`, three times, and `StartsAnyway`): it rests on
fairness, which the prover does not reach.  The three findings are about
specifications whose property is false; their counterexamples come from TLC.

## 6. Not modelled, and plan

* Reads of one statement, in every component: a statement is atomic in the
  database, and nothing is decided on it afterwards.  So are the statistics and
  listings of the query history, `get_path`, the reads of lineage, glossaries
  and tables, importance scores, and all of `vector_repository.py`, whose
  upserts and deletes are single statements too.
* `pg_related_tables_service.py` selects columns that
  `04-text2sql-tables.sql` does not have; every call raises.
* `find_fk_paths` is called and its result is unused (`pg_graph_search.py`).
* Single inserts into tables nothing else writes: `save_etl_table_refs`,
  `create_domain`, `create_owner`, `create_tag`, `update_table_embedding`; the
  links between schemas and data sources an import adds with its schemas.
* `cleanup_graph` with `keep_datasource=False`, which nothing calls.
* Where and between which columns a relationship of two tables is: one of each
  type stands for all.
* The adapters of the ingest command, and its extraction, which is one
  nondeterministic catalog in the model.
* Cypher and JSON text (`cypher_compat.py`, `labels.py`): the models take
  values as values.
* The routes: one call of a store each.  Some call with arguments the service
  does not take (`save_lineage` in `analysis.py`, `create_term` and
  `create_calendar` in `glossary.py` of the analyzer) and can only raise; the
  models start from the services.
* The migration scripts: run once, by hand, alone.
* Declarative SQL: its keys and cascades are constraints inside the models.

Next: further components towards the services (the bootstrap of DDL, the vector
repository beside the ingests), and proofs that the domain stores together
implement a map per schema for one client, as the schema store does.
