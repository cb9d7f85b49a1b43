-------------------------- MODULE ServiceLifecycle --------------------------
(***************************************************************************)
(* The lifespan of one of the three FastAPI services (app/main.py and      *)
(* app/deps.py of each): what startup opens, in which order and how far it *)
(* gets, what /health says, what requests find, what shutdown closes.  The *)
(* process can run the lifespan several times.  The database comes and     *)
(* goes.  The server, which is external, serves between startup and        *)
(* shutdown and lets requests end before the latter.                       *)
(***************************************************************************)
EXTENDS Naturals, Sequences, FiniteSets

CONSTANTS
  Request,
  MaxFaults,  \* bound: calls that raise for reasons of their own
  MaxLives    \* bound: runs of the lifespan

ASSUME LifecycleAssumption == MaxFaults \in Nat /\ MaxLives \in Nat

VARIABLES
  service,
  target,     \* whether the target database is one asyncpg can open
  phase,      \* of the lifespan
  todo,       \* steps of the startup or the shutdown
  set,        \* the module globals that are not None
  usable,     \* of these, the ones with an open pool
  open,       \* how many pools opened under a global are open
  health,     \* app.state.graphdb_connected
  probe,      \* the result of verify_connection
  up,         \* whether the database answers
  req,        \* requests: "idle", "run", "answered", "error"
  lives, faults,
  stuck       \* history: the globals whose close() has raised

globals == <<set, usable, open>>
vars == <<service, target, phase, todo, globals, health, probe, up, req, lives, faults, stuck>>

Service == {"domain", "analyzer", "text2sql"}
Global == {"age_conn", "age_service", "schema_store", "pg_pool", "pg_client", "t2s_conn",
           "target_pool"}

(* What needs a pool, and what is only an object around it.                *)
Pooled == {"age_conn", "pg_pool", "t2s_conn", "target_pool"}

(* AgeConnection and PgConnection exist before their pool does.            *)
Wrapper == {"age_conn", "t2s_conn"}

Step(does, g) == [does |-> does, global |-> g]

(* Mutant: the service reports the database before the pool is there.      *)
EarlyHealth(s) ==
  IF s = "domain"
  THEN <<Step("open", "age_conn"), Step("set", "age_service"), Step("verify", "age_service"),
         Step("report", "age_service"), Step("set", "schema_store"), Step("open", "pg_pool")>>
  ELSE <<Step("sure", "pg_pool"), Step("open", "pg_pool"), Step("set", "pg_client")>>

(* init_graphdb, and what the lifespan does after it in the same try.      *)
InitGraphdb(s) ==
  CASE s = "domain" ->
         <<Step("open", "age_conn"), Step("set", "age_service"), Step("verify", "age_service"),
           Step("set", "schema_store"), Step("open", "pg_pool"),
           Step("verify", "age_service"), Step("report", "age_service")>>
    [] s = "analyzer" ->
         <<Step("open", "pg_pool"), Step("set", "pg_client"), Step("sure", "pg_pool")>>
    [] s = "text2sql" -> <<Step("open", "t2s_conn"), Step("sure", "t2s_conn")>>

(* init_target_db, in a try of its own.                                    *)
InitTargetDb(s) ==
  IF s = "text2sql" /\ target THEN <<Step("open", "target_pool")>> ELSE <<>>

(* Mutant: the manager is dropped with its pool.                           *)
DropsConnection(s) ==
  IF s = "domain" THEN <<Step("close", "pg_pool"), Step("unset", "age_conn")>>
  ELSE <<Step("close", "pg_pool"), Step("close", "target_pool"), Step("close", "t2s_conn")>>

(* close_graphdb, close_all.                                               *)
CloseAll(s) ==
  CASE s = "domain" ->
         <<Step("close", "pg_pool"), Step("close", "age_conn"),
           Step("unset", "age_service"), Step("unset", "schema_store")>>
    [] s = "analyzer" -> <<Step("close", "pg_pool"), Step("unset", "pg_client")>>
    [] s = "text2sql" -> <<Step("close", "target_pool"), Step("close", "t2s_conn")>>

(* The getters behind the routes of a service.                             *)
Needs(s) ==
  CASE s = "domain" -> {{"schema_store"}, {"age_service", "age_conn"}, {"age_conn"}}
    [] s = "analyzer" -> {{"pg_pool"}}
    [] s = "text2sql" -> {{"t2s_conn"}}

---------------------------------------------------------------------------
Init ==
  /\ service \in Service
  /\ target \in BOOLEAN /\ (target => service = "text2sql")
  /\ phase = "stopped" /\ todo = <<>>
  /\ set = {} /\ usable = {}
  /\ open = [g \in Pooled |-> 0]
  /\ health = FALSE /\ probe = FALSE /\ up \in BOOLEAN
  /\ req = [r \in Request |-> "idle"]
  /\ lives = 0 /\ faults = 0
  /\ stuck = {}

Start ==
  /\ phase = "stopped" /\ lives < MaxLives
  /\ lives' = lives + 1
  /\ phase' = "graphdb" /\ todo' = InitGraphdb(service)
  /\ req' = [r \in Request |-> "idle"]
  /\ UNCHANGED <<service, target, globals, health, probe, up, faults, stuck>>

Doing(does) == todo # <<>> /\ Head(todo).does = does
It == Head(todo).global
Advances == todo' = Tail(todo) /\ UNCHANGED phase

(* Both blocks of the startup end here, by their last statement or by the  *)
(* except clause.                                                          *)
After(p) ==
  IF p = "graphdb" THEN phase' = "target" /\ todo' = InitTargetDb(service)
  ELSE phase' = "serving" /\ todo' = <<>>

Opens ==
  /\ Doing("open") /\ up
  /\ set' = set \cup {It} /\ usable' = usable \cup {It}
  /\ open' = [open EXCEPT ![It] = @ + 1]
  /\ Advances
  /\ UNCHANGED <<service, target, health, probe, up, req, lives, faults, stuck>>

(* Mutant: the lifespan raises.                                            *)
Aborts(p) == phase' = "stopped" /\ todo' = <<>>

OnFailure(p) == After(p)

(* create_pool raises.  A wrapper is set already, without a pool; the      *)
(* other globals keep what they had.                                       *)
CannotOpen ==
  /\ Doing("open")
  /\ ~up \/ faults < MaxFaults
  /\ faults' = IF up THEN faults + 1 ELSE faults
  /\ set' = IF It \in Wrapper THEN set \cup {It} ELSE set
  /\ usable' = IF It \in Wrapper THEN usable \ {It} ELSE usable
  /\ health' = IF phase = "graphdb" THEN FALSE ELSE health
  /\ OnFailure(phase)
  /\ UNCHANGED <<service, target, open, probe, up, req, lives, stuck>>

Sets ==
  /\ Doing("set") /\ set' = set \cup {It} /\ Advances
  /\ UNCHANGED <<service, target, usable, open, health, probe, up, req, lives, faults, stuck>>

(* verify_connection answers False to whatever is raised.                  *)
Verifies ==
  /\ Doing("verify") /\ probe' = (up /\ "age_conn" \in usable) /\ Advances
  /\ UNCHANGED <<service, target, globals, health, up, req, lives, faults, stuck>>

Reports ==
  /\ Doing("report") \/ Doing("sure")
  /\ health' = IF Doing("report") THEN probe ELSE TRUE
  /\ Advances
  /\ UNCHANGED <<service, target, globals, probe, up, req, lives, faults, stuck>>

Ready ==
  /\ phase \in {"graphdb", "target"} /\ todo = <<>> /\ After(phase)
  /\ UNCHANGED <<service, target, globals, health, probe, up, req, lives, faults, stuck>>

(* A request asks the getters first, which raise for a global not set.     *)
Arrives(r) ==
  /\ phase = "serving" /\ req[r] = "idle"
  /\ \E needed \in Needs(service) :
       req' = [req EXCEPT ![r] = IF needed \subseteq set /\ needed \cap Pooled \subseteq usable
                                 THEN "run" ELSE "error"]
  /\ UNCHANGED <<service, target, phase, todo, globals, health, probe, up, lives, faults, stuck>>

Ends(r) ==
  /\ req[r] = "run"
  /\ req' = [req EXCEPT ![r] = IF up THEN "answered" ELSE "error"]
  /\ UNCHANGED <<service, target, phase, todo, globals, health, probe, up, lives, faults, stuck>>

Stop ==
  /\ phase = "serving" /\ \A r \in Request : req[r] # "run"
  /\ phase' = "closing" /\ todo' = CloseAll(service)
  /\ UNCHANGED <<service, target, globals, health, probe, up, req, lives, faults, stuck>>

(* if _pool: await _pool.close(); _pool = None                             *)
Closes ==
  /\ Doing("close")
  /\ open' = [open EXCEPT ![It] = IF It \in usable THEN @ - 1 ELSE @]
  /\ usable' = usable \ {It} /\ set' = set \ {It}
  /\ Advances
  /\ UNCHANGED <<service, target, health, probe, up, req, lives, faults, stuck>>

(* A close that raises terminates its pool and ends the shutdown: what     *)
(* comes after it stays, open.                                             *)
CannotClose ==
  /\ Doing("close") /\ It \in usable /\ faults < MaxFaults
  /\ faults' = faults + 1
  /\ open' = [open EXCEPT ![It] = @ - 1]
  /\ usable' = usable \ {It}
  /\ stuck' = stuck \cup {It}
  /\ phase' = "stopped" /\ todo' = <<>>
  /\ UNCHANGED <<service, target, set, health, probe, up, req, lives>>

Unsets ==
  /\ Doing("unset") /\ set' = set \ {It} /\ Advances
  /\ UNCHANGED <<service, target, usable, open, health, probe, up, req, lives, faults, stuck>>

Stopped ==
  /\ phase = "closing" /\ todo = <<>> /\ phase' = "stopped" /\ UNCHANGED todo
  /\ UNCHANGED <<service, target, globals, health, probe, up, req, lives, faults, stuck>>

(* The database comes and goes.                                            *)
Outage ==
  /\ up' = ~up
  /\ UNCHANGED <<service, target, phase, todo, globals, health, probe, req, lives, faults, stuck>>

StartupStep == phase \in {"graphdb", "target"} /\
  (Opens \/ CannotOpen \/ Sets \/ Verifies \/ Reports \/ Ready)

Next ==
  \/ Start \/ StartupStep \/ Stop \/ Closes \/ CannotClose \/ Unsets \/ Stopped \/ Outage
  \/ \E r \in Request : Arrives(r) \/ Ends(r)

Spec == Init /\ [][Next]_vars
(* A connection attempt ends, one way or the other.                        *)
FairSpec == Spec /\ WF_vars(StartupStep)

---------------------------------------------------------------------------
(* Properties.                                                             *)

TypeOK ==
  /\ service \in Service /\ target \in BOOLEAN
  /\ phase \in {"stopped", "graphdb", "target", "serving", "closing"}
  /\ set \subseteq Global /\ usable \subseteq set \cap Pooled
  /\ open \in [Pooled -> 0..MaxLives]
  /\ health \in BOOLEAN /\ probe \in BOOLEAN /\ up \in BOOLEAN
  /\ req \in [Request -> {"idle", "run", "answered", "error"}]
  /\ lives \in 0..MaxLives /\ faults \in 0..MaxFaults /\ stuck \subseteq Pooled

(* A service that says it is connected has every global its routes and its *)
(* shutdown rely on, each with a pool, however often it was started and    *)
(* whatever a former shutdown left behind                                  *)
(* (K-AIR-domain-layer/app/main.py:26-33, app/deps.py:27-58).              *)
Started(s) ==
  CASE s = "domain" -> {"age_conn", "age_service", "schema_store", "pg_pool"}
    [] s = "analyzer" -> {"pg_pool", "pg_client"}
    [] s = "text2sql" -> {"t2s_conn"}

HealthMeansReady ==
  phase = "serving" /\ health =>
    Started(service) \subseteq set /\ Started(service) \cap Pooled \subseteq usable

(* After a shutdown no pool is open, those of a half-done startup          *)
(* included, unless a close() before it in the order of the shutdown       *)
(* raised, once (app/deps.py:61-73 of the domain layer).                   *)
Before(h, g) ==
  \E i, j \in DOMAIN CloseAll(service) :
    i < j /\ CloseAll(service)[i] = Step("close", h) /\ CloseAll(service)[j] = Step("close", g)

NothingLeftOpen ==
  phase = "stopped" =>
    \A g \in Pooled : open[g] > 0 => \E h \in stuck : Before(h, g)

(* A database that does not answer delays the start of a service but does  *)
(* not prevent it (app/main.py:26-35 of the domain layer).                 *)
StartsAnyway == phase = "graphdb" ~> phase = "serving"
=============================================================================
