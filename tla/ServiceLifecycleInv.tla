------------------------- MODULE ServiceLifecycleInv -------------------------
(* The inductive invariant of ServiceLifecycle behind HealthMeansReady and *)
(* NothingLeftOpen.                                                        *)
EXTENDS ServiceLifecycle

(* What the lifespan is working through, and how much of it is done.       *)
Script ==
  CASE phase = "graphdb" -> InitGraphdb(service)
    [] phase = "target"  -> InitTargetDb(service)
    [] phase = "closing" -> CloseAll(service)
    [] OTHER -> <<>>

Past == Len(Script) - Len(todo)

Steps == [does : {"open", "set", "verify", "report", "sure", "close", "unset"},
          global : Global]

TodoOK ==
  /\ todo \in Seq(Steps)
  /\ Len(todo) <= Len(Script)
  /\ \A j \in 1..Len(todo) : todo[j] = Script[Past + j]

Opened(g) == \E i \in 1..Past : Script[i] = Step("open", g)

(* What a startup has done it has not lost, and only a startup that got to *)
(* its end says that the service is connected.                             *)
StartupOK ==
  /\ phase = "graphdb" =>
       \A i \in 1..Past : LET did == Script[i]
                          IN  /\ did.does \in {"open", "set"} => did.global \in set
                              /\ did.does = "open" => did.global \in usable
  /\ phase \in {"target", "serving"} /\ health =>
       Started(service) \subseteq set /\ Started(service) \cap Pooled \subseteq usable

(* The pools a service opens.                                              *)
Own(s) ==
  CASE s = "domain"   -> {"age_conn", "pg_pool"}
    [] s = "analyzer" -> {"pg_pool"}
    [] s = "text2sql" -> {"t2s_conn", "target_pool"}

(* A shutdown passed over g.                                               *)
Blamed(g) == \E h \in stuck : Before(h, g)

(* A pool nobody is to blame for is open only under a global that has it,  *)
(* from the startup that opened it to the shutdown that will close it.     *)
PoolsOK ==
  /\ usable \subseteq Own(service)
  /\ \A g \in Pooled : ~Blamed(g) =>
       /\ open[g] = IF g \in usable THEN 1 ELSE 0
       /\ g \in usable =>
            /\ phase # "stopped"
            /\ phase = "graphdb" => Opened(g)
            /\ phase = "target" /\ g = "target_pool" => Opened(g)
            /\ phase = "closing" => \E j \in 1..Len(todo) : todo[j] = Step("close", g)

(* No life opens a pool twice.                                             *)
CountOK ==
  \A g \in Pooled :
    /\ open[g] <= lives
    /\ g \in usable => open[g] > 0
    /\ phase = "graphdb" \/ (phase = "target" /\ g = "target_pool") =>
         Opened(g) \/ open[g] < lives

IInv == TypeOK /\ TodoOK /\ StartupOK /\ PoolsOK /\ CountOK
=============================================================================
