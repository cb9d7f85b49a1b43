----------------------- MODULE ServiceLifecycle_proofs -----------------------
(***************************************************************************)
(* Proofs about ServiceLifecycle, for every set of requests, any number of *)
(* lives of the process and any number of exceptions.                      *)
(***************************************************************************)
EXTENDS ServiceLifecycleInv, SequenceTheorems, TLAPS

USE DEF globals

(* The steps of a startup: its pools are the service's own, each is opened *)
(* once, and it fills every global the service relies on.                  *)
LEMMA StartupSteps ==
  ASSUME NEW s \in Service
  PROVE  LET S == InitGraphdb(s)
         IN  /\ S \in Seq(Steps)
             /\ \A i \in 1..Len(S) :
                  /\ S[i].does \in {"open", "set", "verify", "report", "sure"}
                  /\ S[i].does = "open" => S[i].global \in Own(s) \ {"target_pool"}
                  /\ S[i].does = "set" => S[i].global \notin Pooled
             /\ \A i, j \in 1..Len(S) : S[i].does = "open" /\ S[j] = S[i] => i = j
             /\ \A g \in Started(s) : \E i \in 1..Len(S) :
                  /\ S[i].global = g /\ S[i].does \in {"open", "set"}
                  /\ g \in Pooled => S[i].does = "open"
<1> USE DEF InitGraphdb, Steps, Step, Global, Own, Pooled, Started
<1>1. CASE s = "domain"
  BY <1>1
<1>2. CASE s = "analyzer"
  BY <1>2
<1>3. CASE s = "text2sql"
  BY <1>3
<1> QED
  BY <1>1, <1>2, <1>3 DEF Service

(* The second block of a startup opens at most the target database.        *)
LEMMA TargetSteps ==
  ASSUME NEW s \in Service
  PROVE  /\ InitTargetDb(s) \in Seq(Steps)
         /\ Len(InitTargetDb(s)) \in {0, 1}
         /\ \A i \in 1..Len(InitTargetDb(s)) :
              InitTargetDb(s)[i] = Step("open", "target_pool") /\ "target_pool" \in Own(s)
<1>1. CASE InitTargetDb(s) = <<>>
  BY <1>1
<1>2. CASE s = "text2sql" /\ InitTargetDb(s) = <<Step("open", "target_pool")>>
  <2> DEFINE t == Step("open", "target_pool")
  <2>1. t \in Steps
    BY DEF Step, Steps, Global
  <2>2. "target_pool" \in Own(s)
    BY <1>2 DEF Own
  <2> HIDE DEF t
  <2>3. <<t>> \in Seq(Steps) /\ Len(<<t>>) = 1 /\ <<t>>[1] = t
    BY <2>1
  <2>4. InitTargetDb(s) = <<t>> /\ t = Step("open", "target_pool")
    BY <1>2 DEF t
  <2>5. \A i \in 1..1 : i = 1
    OBVIOUS
  <2> QED
    BY <2>2, <2>3, <2>4, <2>5
<1> QED
  BY <1>1, <1>2 DEF InitTargetDb

(* A shutdown closes every pool of the service.                            *)
LEMMA ShutdownSteps ==
  ASSUME NEW s \in Service
  PROVE  LET S == CloseAll(s)
         IN  /\ S \in Seq(Steps)
             /\ \A i \in 1..Len(S) :
                  /\ S[i].does \in {"close", "unset"}
                  /\ S[i].does = "close" => S[i].global \in Pooled
                  /\ S[i].does = "unset" => S[i].global \notin Pooled
             /\ \A g \in Own(s) : \E i \in 1..Len(S) : S[i] = Step("close", g)
<1> USE DEF CloseAll, Steps, Step, Global, Own, Pooled
<1>1. CASE s = "domain"
  BY <1>1
<1>2. CASE s = "analyzer"
  BY <1>2
<1>3. CASE s = "text2sql"
  BY <1>3
<1> QED
  BY <1>1, <1>2, <1>3 DEF Service

(* Where the lifespan is in its script.                                    *)
LEMMA Place ==
  ASSUME TodoOK, todo # <<>>, Script \in Seq(Steps)
  PROVE  /\ Past \in Nat /\ Past + 1 \in 1..Len(Script)
         /\ Head(todo) = Script[Past + 1] /\ Head(todo) = todo[1] /\ Len(todo) > 0
         /\ Head(todo) \in Steps
<1>1. todo \in Seq(Steps) /\ Len(todo) \in Nat /\ Len(todo) > 0 /\ Head(todo) = todo[1]
  BY DEF TodoOK
<1>2. Len(Script) \in Nat
  OBVIOUS
<1> QED
  BY <1>1, <1>2 DEF TodoOK, Past

(* One step further.                                                       *)
LEMMA Further ==
  ASSUME TodoOK, todo # <<>>, Script \in Seq(Steps), Advances, Script' = Script
  PROVE  /\ TodoOK' /\ Past' = Past + 1
         /\ Len(todo') = Len(todo) - 1
         /\ \A j \in 1..Len(todo') : todo'[j] = todo[j + 1]
<1>1. /\ todo' \in Seq(Steps) /\ Len(todo') = Len(todo) - 1 /\ Len(todo) \in Nat
      /\ \A j \in 1..Len(todo') : todo'[j] = todo[j + 1]
  BY DEF TodoOK, Advances
<1>2. Past' = Past + 1 /\ Past \in Nat
  BY <1>1, Place DEF Past
<1>3. \A j \in 1..Len(todo') : todo'[j] = Script'[Past' + j]
  <2> TAKE j \in 1..Len(todo')
  <2>1. j + 1 \in 1..Len(todo) /\ todo'[j] = todo[j + 1]
    BY <1>1
  <2>2. todo[j + 1] = Script[Past + (j + 1)]
    BY <2>1 DEF TodoOK
  <2>3. Past + (j + 1) = Past' + j
    BY <1>2
  <2> QED
    BY <2>1, <2>2, <2>3
<1> QED
  BY <1>1, <1>2, <1>3 DEF TodoOK

(* A new script, from its first step.                                      *)
LEMMA FromTheTop ==
  ASSUME todo' = Script', Script' \in Seq(Steps)
  PROVE  TodoOK' /\ Past' = 0
<1>1. Len(todo') \in Nat /\ Past' = 0
  BY DEF Past
<1>2. \A j \in 1..Len(todo') : 0 + j = j
  BY <1>1
<1> QED
  BY <1>1, <1>2 DEF TodoOK

(* Every script is one.                                                    *)
LEMMA ScriptType ==
  ASSUME service \in Service
  PROVE  /\ Script \in Seq(Steps)
         /\ phase = "graphdb" => Script = InitGraphdb(service)
         /\ phase = "target" => Script = InitTargetDb(service)
         /\ phase = "closing" => Script = CloseAll(service)
         /\ phase \notin {"graphdb", "target", "closing"} => Script = <<>>
<1>1. CASE phase = "graphdb"
  BY <1>1, StartupSteps DEF Script
<1>2. CASE phase = "target"
  BY <1>2, TargetSteps DEF Script
<1>3. CASE phase = "closing"
  BY <1>3, ShutdownSteps DEF Script
<1>4. CASE phase \notin {"graphdb", "target", "closing"}
  BY <1>4 DEF Script
<1> QED
  BY <1>1, <1>2, <1>3, <1>4

---------------------------------------------------------------------------
(* Steps.                                                                  *)

(* Which kinds of steps a phase has.                                       *)
LEMMA PhaseSteps ==
  ASSUME IInv, todo # <<>>
  PROVE  /\ Past \in Nat /\ Past + 1 \in 1..Len(Script)
         /\ Head(todo) = Script[Past + 1] /\ Head(todo) = todo[1] /\ Len(todo) > 0
         /\ Head(todo) = Step(Head(todo).does, It)
         /\ \/ /\ phase = "graphdb"
               /\ Head(todo).does \in {"open", "set", "verify", "report", "sure"}
               /\ Head(todo).does = "open" => It \in Own(service) \ {"target_pool"}
            \/ /\ phase = "target" /\ Head(todo).does = "open" /\ It = "target_pool"
               /\ It \in Own(service) /\ Past = 0
            \/ phase = "closing" /\ Head(todo).does \in {"close", "unset"}
         /\ Head(todo).does = "set" \/ Head(todo).does = "unset" => It \notin Pooled
         /\ Head(todo).does = "close" => It \in Pooled
<1>1. service \in Service
  BY DEF IInv, TypeOK
<1>2. Script \in Seq(Steps) /\ Len(Script) \in Nat
  BY <1>1, ScriptType
<1>3. /\ Past \in Nat /\ Past + 1 \in 1..Len(Script)
      /\ Head(todo) = Script[Past + 1] /\ Head(todo) = todo[1] /\ Len(todo) > 0
      /\ Head(todo) \in Steps
  BY <1>2, Place DEF IInv
<1>4. Head(todo) = Step(Head(todo).does, It)
  BY <1>3 DEF Steps, Step, It
<1>5. CASE phase = "graphdb"
  BY <1>1, <1>3, <1>4, <1>5, ScriptType, StartupSteps DEF It
<1>6. CASE phase = "target"
  <2>1. Script = InitTargetDb(service)
    BY <1>1, <1>6, ScriptType
  <2>2. Past = 0 /\ Head(todo) = Step("open", "target_pool") /\ "target_pool" \in Own(service)
    BY <1>1, <1>3, <2>1, TargetSteps
  <2> QED
    BY <1>3, <1>4, <1>6, <2>2 DEF It, Step
<1>7. CASE phase = "closing"
  BY <1>1, <1>3, <1>4, <1>7, ScriptType, ShutdownSteps DEF It
<1>8. CASE phase \notin {"graphdb", "target", "closing"}
  <2>1. Script = <<>>
    BY <1>1, <1>8, ScriptType
  <2> QED
    BY <1>3, <2>1
<1> QED
  BY <1>5, <1>6, <1>7, <1>8

(* The pools of a service are pools.                                       *)
LEMMA OwnPools == ASSUME NEW s \in Service PROVE Own(s) \subseteq Pooled \cap Global
BY DEF Own, Service, Pooled, Global

(* What does not touch the lifespan.                                       *)
LEMMA QuietInv ==
  ASSUME TodoOK, StartupOK, PoolsOK, CountOK,
         UNCHANGED <<service, target, phase, todo, set, usable, open, health, lives, stuck>>
  PROVE  TodoOK' /\ StartupOK' /\ PoolsOK' /\ CountOK'
<1>1. Script' = Script
  BY DEF Script, InitTargetDb
<1>2. Past' = Past
  BY <1>1 DEF Past
<1>3. TodoOK'
  BY <1>1, <1>2 DEF TodoOK
<1>4. StartupOK'
  BY <1>1, <1>2 DEF StartupOK
<1>5. \A g : Opened(g)' = Opened(g) /\ Blamed(g)' = Blamed(g)
  BY <1>1, <1>2 DEF Opened, Blamed, Before
<1>6. PoolsOK' /\ CountOK'
  BY <1>5 DEF PoolsOK, CountOK
<1> QED
  BY <1>3, <1>4, <1>6

(* A startup goes on.                                                      *)
LEMMA StartupGoesOn ==
  ASSUME IInv, todo # <<>>, phase \in {"graphdb", "target"}, Advances,
         UNCHANGED <<service, target>>, set \subseteq set', usable \subseteq usable',
         Head(todo).does \in {"open", "set"} => It \in set',
         Head(todo).does = "open" => It \in usable',
         Head(todo).does \in {"open", "set", "verify"} => health' = health
  PROVE  /\ TodoOK' /\ StartupOK' /\ Past' = Past + 1 /\ Script' = Script
         /\ \A g : Opened(g)' <=> Opened(g) \/ Head(todo) = Step("open", g)
<1>1. Script' = Script /\ Script \in Seq(Steps)
  BY ScriptType DEF Script, Advances, InitTargetDb, IInv, TypeOK
<1>2. TodoOK' /\ Past' = Past + 1
  BY <1>1, Further DEF IInv
<1>3. Past \in Nat /\ Past + 1 \in 1..Len(Script) /\ Head(todo) = Script[Past + 1]
      /\ (phase = "target" => Head(todo).does = "open")
  BY PhaseSteps
<1>4. StartupOK'
  <2>1. ASSUME phase' = "graphdb", NEW i \in 1..Past'
        PROVE  /\ Script'[i].does \in {"open", "set"} => Script'[i].global \in set'
               /\ Script'[i].does = "open" => Script'[i].global \in usable'
    <3>1. CASE i = Past + 1
      BY <1>1, <1>3, <3>1 DEF It
    <3>2. CASE i # Past + 1
      <4>1. i \in 1..Past /\ phase = "graphdb"
        BY <1>2, <1>3, <2>1, <3>2 DEF Advances
      <4> QED
        BY <1>1, <4>1 DEF IInv, StartupOK
    <3> QED
      BY <3>1, <3>2
  <2>2. ASSUME phase' \in {"target", "serving"}, health'
        PROVE  Started(service)' \subseteq set'
               /\ Started(service)' \cap Pooled \subseteq usable'
    <3>1. phase = "target" /\ health
      BY <1>3, <2>2 DEF Advances
    <3>2. Started(service)' = Started(service)
      BY DEF Started
    <3> QED
      BY <3>1, <3>2 DEF IInv, StartupOK
  <2> QED
    BY <2>1, <2>2 DEF StartupOK
<1>5. \A g : Opened(g)' <=> Opened(g) \/ Head(todo) = Step("open", g)
  <2> SUFFICES ASSUME NEW g
               PROVE  Opened(g)' <=> Opened(g) \/ Head(todo) = Step("open", g)
    OBVIOUS
  <2>1. Opened(g)' <=> \E i \in 1..(Past + 1) : Script[i] = Step("open", g)
    BY <1>1, <1>2 DEF Opened
  <2>2. \A i \in 1..(Past + 1) : i \in 1..Past \/ i = Past + 1
    BY <1>3
  <2>3. \A i \in 1..Past : i \in 1..(Past + 1)
    BY <1>3
  <2>4. Past + 1 \in 1..(Past + 1)
    BY <1>3
  <2> QED
    BY <1>3, <2>1, <2>2, <2>3, <2>4 DEF Opened
<1> QED
  BY <1>1, <1>2, <1>4, <1>5

(* A pool that is opened has not been opened by this startup.              *)
LEMMA NotYetOpened ==
  ASSUME IInv, Doing("open")
  PROVE  ~Opened(It)
<1>1. /\ Past \in Nat /\ Past + 1 \in 1..Len(Script)
      /\ Head(todo) = Script[Past + 1] /\ Head(todo) = Step("open", It)
      /\ phase \in {"graphdb", "target"} /\ (phase = "target" => Past = 0)
  BY PhaseSteps DEF Doing
<1>2. CASE phase = "target"
  BY <1>1, <1>2 DEF Opened
<1>3. CASE phase = "graphdb"
  <2> SUFFICES ASSUME NEW i \in 1..Past, Script[i] = Step("open", It)
               PROVE  FALSE
    BY DEF Opened
  <2>1. i \in 1..Len(Script) /\ i # Past + 1 /\ Script[i] = Script[Past + 1]
    BY <1>1, ScriptType DEF IInv, TypeOK
  <2>2. Script[i].does = "open"
    BY DEF Step
  <2> QED
    BY <1>1, <1>3, <2>1, <2>2, ScriptType, StartupSteps DEF IInv, TypeOK
<1> QED
  BY <1>1, <1>2, <1>3

(* Opening a pool adds one to the ones the startup will be asked for.      *)
LEMMA OpensInv ==
  ASSUME IInv, Opens, phase \in {"graphdb", "target"}
  PROVE  IInv'
<1>0. PICK g : g = It
  OBVIOUS
<1>1. /\ Head(todo).does = "open" /\ todo # <<>> /\ g \in Own(service)
      /\ g \in Pooled \cap Global /\ service \in Service
      /\ Head(todo) = Step("open", g)
      /\ phase = "target" => g = "target_pool"
  BY <1>0, PhaseSteps, OwnPools DEF Opens, Doing, IInv, TypeOK
<1>2. /\ set' = set \cup {g} /\ usable' = usable \cup {g}
      /\ open' = [open EXCEPT ![g] = @ + 1]
      /\ UNCHANGED <<service, target, health, probe, up, req, lives, faults, stuck, phase>>
      /\ Advances
  BY <1>0 DEF Opens, Advances
<1>3. TodoOK' /\ StartupOK' /\ \A h : Opened(h)' <=> Opened(h) \/ Head(todo) = Step("open", h)
  BY <1>0, <1>1, <1>2, StartupGoesOn
<1>4. ~Opened(g)
  BY <1>0, <1>1, NotYetOpened DEF Doing
<1>5. open[g] < lives /\ lives \in 0..MaxLives /\ open \in [Pooled -> 0..MaxLives]
      /\ MaxLives \in Nat
  BY <1>1, <1>4, LifecycleAssumption DEF IInv, TypeOK, CountOK
<1>6. open' \in [Pooled -> 0..MaxLives] /\ open'[g] = open[g] + 1
      /\ \A h \in Pooled \ {g} : open'[h] = open[h]
  BY <1>1, <1>2, <1>5
<1>7. TypeOK'
  BY <1>1, <1>2, <1>6 DEF IInv, TypeOK
<1>8. \A h : Blamed(h)' = Blamed(h)
  BY <1>2 DEF Blamed, Before
<1>9. \A h : Opened(h) => Opened(h)'
  BY <1>3
<1>10. Opened(g)'
  BY <1>1, <1>3
<1>11. PoolsOK'
  <2>1. usable' \subseteq Own(service)'
    BY <1>1, <1>2 DEF IInv, PoolsOK, Own
  <2>2. ASSUME NEW h \in Pooled, ~Blamed(h)'
        PROVE  /\ open'[h] = IF h \in usable' THEN 1 ELSE 0
               /\ h \in usable' =>
                    /\ phase' # "stopped"
                    /\ phase' = "graphdb" => Opened(h)'
                    /\ phase' = "target" /\ h = "target_pool" => Opened(h)'
                    /\ phase' = "closing" =>
                         \E j \in 1..Len(todo') : todo'[j] = Step("close", h)
    <3>1. CASE h = g
      <4>1. g \notin usable /\ open[g] = 0
        BY <1>1, <1>4, <1>8, <2>2, <3>1 DEF IInv, PoolsOK
      <4> QED
        BY <1>2, <1>6, <1>10, <3>1, <4>1
    <3>2. CASE h # g
      BY <1>2, <1>6, <1>8, <1>9, <2>2, <3>2 DEF IInv, PoolsOK
    <3> QED
      BY <3>1, <3>2
  <2> QED
    BY <2>1, <2>2 DEF PoolsOK
<1>12. CountOK'
  BY <1>1, <1>2, <1>5, <1>6, <1>9, <1>10 DEF IInv, CountOK
<1> QED
  BY <1>3, <1>7, <1>11, <1>12 DEF IInv

(* The other steps of a startup that succeed.                              *)
LEMMA SetsInv ==
  ASSUME IInv, Sets \/ Verifies \/ Reports, phase \in {"graphdb", "target"}
  PROVE  IInv'
<1>1. /\ todo # <<>> /\ Head(todo).does \in {"set", "verify", "report", "sure"}
      /\ set \subseteq set' /\ (set' = set \/ (Head(todo).does = "set" /\ set' = set \cup {It}))
      /\ UNCHANGED <<service, target, usable, open, up, req, lives, faults, stuck, phase>>
      /\ Advances
  BY DEF Sets, Verifies, Reports, Doing, Advances
<1>2. /\ Head(todo).does = "set" => It \in set'
      /\ Head(todo).does \in {"set", "verify"} => health' = health
      /\ health' \in BOOLEAN /\ probe' \in BOOLEAN
  BY DEF Sets, Verifies, Reports, Doing, IInv, TypeOK
<1>3. Head(todo) \in Steps
  BY <1>1, Place, ScriptType DEF IInv, TypeOK
<1>4. set' \subseteq Global /\ usable' \subseteq set' \cap Pooled
  BY <1>1, <1>3 DEF IInv, TypeOK, It, Steps
<1>5. TypeOK'
  BY <1>1, <1>2, <1>4 DEF IInv, TypeOK
<1>6. /\ TodoOK' /\ StartupOK'
      /\ \A g : Opened(g)' <=> Opened(g) \/ Head(todo) = Step("open", g)
  BY <1>1, <1>2, StartupGoesOn
<1>7. \A g : (Opened(g)' <=> Opened(g)) /\ (Blamed(g)' <=> Blamed(g))
  <2>1. \A g : Head(todo) # Step("open", g)
    BY <1>1 DEF Step
  <2>2. \A g : Opened(g)' <=> Opened(g)
    BY <1>6, <2>1
  <2>3. \A g : Blamed(g)' <=> Blamed(g)
    BY <1>1 DEF Blamed, Before
  <2> QED
    BY <2>2, <2>3
<1>8. phase # "closing"
  OBVIOUS
<1>9. PoolsOK'
  BY <1>1, <1>7, <1>8 DEF IInv, PoolsOK
<1>10. CountOK'
  BY <1>1, <1>7 DEF IInv, CountOK
<1> QED
  BY <1>5, <1>6, <1>9, <1>10 DEF IInv

(* The first block of a startup does not open the target database.         *)
LEMMA TargetComesLater ==
  ASSUME IInv, phase = "graphdb"
  PROVE  ~Opened("target_pool")
<1> SUFFICES ASSUME NEW i \in 1..Past, Script[i] = Step("open", "target_pool")
             PROVE  FALSE
  BY DEF Opened
<1>1. i \in 1..Len(Script) /\ Script = InitGraphdb(service) /\ service \in Service
  BY ScriptType DEF IInv, TypeOK, TodoOK, Past
<1>2. Script[i].does = "open" /\ Script[i].global = "target_pool"
  BY DEF Step
<1> QED
  BY <1>1, <1>2, StartupSteps

(* A block of a startup ends, at its last statement or by an exception.    *)
LEMMA BlockEnds ==
  ASSUME IInv, phase \in {"graphdb", "target"}, After(phase),
         UNCHANGED <<service, target, open, lives, stuck>>, usable' \subseteq usable,
         \A g \in Pooled : ~Blamed(g) /\ g \in usable => g \in usable',
         health' => Started(service) \subseteq set'
                    /\ Started(service) \cap Pooled \subseteq usable'
  PROVE  TodoOK' /\ StartupOK' /\ PoolsOK' /\ CountOK'
<1>1. \/ phase = "graphdb" /\ phase' = "target"
      \/ phase = "target" /\ phase' = "serving"
  BY DEF After
<1>2. todo' = Script' /\ Script' \in Seq(Steps)
  <2>1. CASE phase = "graphdb"
    <3>1. todo' = InitTargetDb(service) /\ Script' = InitTargetDb(service)
      BY <2>1 DEF After, Script, InitTargetDb
    <3> QED
      BY <3>1, TargetSteps DEF IInv, TypeOK
  <2>2. CASE phase = "target"
    BY <2>2 DEF After, Script
  <2> QED
    BY <2>1, <2>2
<1>3. TodoOK' /\ Past' = 0
  BY <1>2, FromTheTop
<1>4. StartupOK'
  BY <1>1 DEF StartupOK, Started
<1>5. \A g : Blamed(g)' <=> Blamed(g)
  BY DEF Blamed, Before
<1>6. phase = "graphdb" => ~Opened("target_pool")
  BY TargetComesLater
<1>7. PoolsOK'
  <2>1. usable' \subseteq Own(service)'
    BY DEF IInv, PoolsOK, Own
  <2>2. ASSUME NEW h \in Pooled, ~Blamed(h)'
        PROVE  /\ open'[h] = IF h \in usable' THEN 1 ELSE 0
               /\ h \in usable' =>
                    /\ phase' # "stopped"
                    /\ phase' = "graphdb" => Opened(h)'
                    /\ phase' = "target" /\ h = "target_pool" => Opened(h)'
                    /\ phase' = "closing" =>
                         \E j \in 1..Len(todo') : todo'[j] = Step("close", h)
    <3>1. ~Blamed(h)
      BY <1>5, <2>2
    <3>2. h \in usable' <=> h \in usable
      BY <3>1
    <3>3. open[h] = IF h \in usable THEN 1 ELSE 0
      BY <3>1 DEF IInv, PoolsOK
    <3>4. phase' = "target" /\ h = "target_pool" => h \notin usable
      BY <1>1, <1>6, <3>1 DEF IInv, PoolsOK
    <3> QED
      BY <1>1, <3>2, <3>3, <3>4
  <2> QED
    BY <2>1, <2>2 DEF PoolsOK
<1>8. CountOK'
  <2>1. ASSUME NEW h \in Pooled
        PROVE  /\ open'[h] <= lives' /\ (h \in usable' => open'[h] > 0)
               /\ phase' = "target" /\ h = "target_pool" => open'[h] < lives'
    BY <1>1, <1>6 DEF IInv, CountOK
  <2> QED
    BY <1>1, <2>1 DEF CountOK
<1> QED
  BY <1>3, <1>4, <1>7, <1>8

(* A pool that cannot be opened ends its block.                            *)
LEMMA CannotOpenInv ==
  ASSUME IInv, CannotOpen, phase \in {"graphdb", "target"}
  PROVE  IInv'
<1>0. PICK g : g = It
  OBVIOUS
<1>1. /\ Head(todo).does = "open" /\ todo # <<>> /\ g \in Own(service)
      /\ g \in Pooled \cap Global /\ service \in Service
      /\ phase = "target" => g = "target_pool"
      /\ phase = "graphdb" => g # "target_pool"
  BY <1>0, PhaseSteps, OwnPools DEF CannotOpen, Doing, IInv, TypeOK
<1>2. /\ set' = IF g \in Wrapper THEN set \cup {g} ELSE set
      /\ usable' = IF g \in Wrapper THEN usable \ {g} ELSE usable
      /\ health' = IF phase = "graphdb" THEN FALSE ELSE health
      /\ After(phase)
      /\ UNCHANGED <<service, target, open, probe, up, req, lives, stuck>>
  BY <1>0 DEF CannotOpen, OnFailure
<1>3. faults' \in 0..MaxFaults
  BY LifecycleAssumption DEF CannotOpen, IInv, TypeOK
<1>4. TypeOK'
  <2>1. phase' \in {"target", "serving"}
    BY <1>2 DEF After
  <2>2. set' \subseteq Global /\ usable' \subseteq set' \cap Pooled
    BY <1>1, <1>2 DEF IInv, TypeOK
  <2> QED
    BY <1>2, <1>3, <2>1, <2>2 DEF IInv, TypeOK
<1>5. \A h \in Pooled : ~Blamed(h) /\ h \in usable => h \in usable'
  <2>1. ~Opened(g)
    BY <1>0, <1>1, NotYetOpened DEF Doing
  <2>2. ~Blamed(g) => g \notin usable
    BY <1>1, <2>1 DEF IInv, PoolsOK
  <2> QED
    BY <1>2, <2>2
<1>6. health' => Started(service) \subseteq set' /\ Started(service) \cap Pooled \subseteq usable'
  <2>1. CASE phase = "graphdb"
    BY <1>2, <2>1
  <2>2. CASE phase = "target"
    <3>1. g \notin Wrapper
      BY <1>1, <2>2 DEF Wrapper
    <3> QED
      BY <1>2, <2>2, <3>1 DEF IInv, StartupOK
  <2> QED
    BY <2>1, <2>2
<1>7. TodoOK' /\ StartupOK' /\ PoolsOK' /\ CountOK'
  BY <1>2, <1>5, <1>6, BlockEnds
<1> QED
  BY <1>4, <1>7 DEF IInv

(* A startup that got to the end of its first block has all it needs.      *)
LEMMA ReadyInv ==
  ASSUME IInv, Ready
  PROVE  IInv'
<1>1. /\ phase \in {"graphdb", "target"} /\ todo = <<>> /\ After(phase)
      /\ UNCHANGED <<service, target, globals, health, probe, up, req, lives, faults, stuck>>
  BY DEF Ready
<1>2. TypeOK'
  <2>1. phase' \in {"target", "serving"}
    BY <1>1 DEF After
  <2> QED
    BY <1>1, <2>1 DEF IInv, TypeOK
<1>3. health => Started(service) \subseteq set /\ Started(service) \cap Pooled \subseteq usable
  <2>1. CASE phase = "target"
    BY <2>1 DEF IInv, StartupOK
  <2>2. CASE phase = "graphdb"
    <3>1. service \in Service /\ Script = InitGraphdb(service) /\ Script \in Seq(Steps)
      BY <2>2, ScriptType DEF IInv, TypeOK
    <3>2. Past = Len(Script)
      BY <1>1, <3>1 DEF Past
    <3>3. \A i \in 1..Len(Script) :
            /\ Script[i].does \in {"open", "set"} => Script[i].global \in set
            /\ Script[i].does = "open" => Script[i].global \in usable
      BY <2>2, <3>2 DEF IInv, StartupOK
    <3>4. \A g \in Started(service) : \E i \in 1..Len(Script) :
            /\ Script[i].global = g /\ Script[i].does \in {"open", "set"}
            /\ g \in Pooled => Script[i].does = "open"
      BY <3>1, StartupSteps
    <3> QED
      BY <3>3, <3>4
  <2> QED
    BY <1>1, <2>1, <2>2
<1>4. TodoOK' /\ StartupOK' /\ PoolsOK' /\ CountOK'
  BY <1>1, <1>3, BlockEnds
<1> QED
  BY <1>2, <1>4 DEF IInv

(* A new life begins with what the last shutdown left.                     *)
LEMMA StartInv ==
  ASSUME IInv, Start
  PROVE  IInv'
<1>1. /\ phase = "stopped" /\ phase' = "graphdb" /\ todo' = InitGraphdb(service)
      /\ lives' = lives + 1 /\ lives < MaxLives
      /\ UNCHANGED <<service, target, globals, health, probe, up, faults, stuck>>
      /\ req' = [r \in Request |-> "idle"]
  BY DEF Start
<1>2. Script' = InitGraphdb(service) /\ Script' \in Seq(Steps)
  BY <1>1, StartupSteps DEF Script, IInv, TypeOK
<1>3. TodoOK' /\ Past' = 0
  BY <1>1, <1>2, FromTheTop
<1>4. TypeOK'
  <2>1. lives' \in 0..MaxLives
    BY <1>1, LifecycleAssumption DEF IInv, TypeOK
  <2> QED
    BY <1>1, <2>1 DEF IInv, TypeOK
<1>5. StartupOK'
  BY <1>1, <1>3 DEF StartupOK
<1>6. \A g : Blamed(g)' <=> Blamed(g)
  BY <1>1 DEF Blamed, Before
<1>7. PoolsOK'
  BY <1>1, <1>6 DEF IInv, PoolsOK, Own
<1>8. CountOK'
  BY <1>1, LifecycleAssumption DEF IInv, CountOK, TypeOK
<1> QED
  BY <1>3, <1>4, <1>5, <1>7, <1>8 DEF IInv

(* A shutdown has a close() for every pool the service may have.           *)
LEMMA StopInv ==
  ASSUME IInv, Stop
  PROVE  IInv'
<1>1. /\ phase = "serving" /\ phase' = "closing" /\ todo' = CloseAll(service)
      /\ UNCHANGED <<service, target, globals, health, probe, up, req, lives, faults, stuck>>
  BY DEF Stop
<1>2. service \in Service
  BY DEF IInv, TypeOK
<1>3. Script' = CloseAll(service) /\ Script' \in Seq(Steps)
  BY <1>1, <1>2, ShutdownSteps DEF Script
<1>4. TodoOK'
  BY <1>1, <1>3, FromTheTop
<1>5. TypeOK' /\ StartupOK'
  BY <1>1 DEF IInv, TypeOK, StartupOK
<1>6. \A g : Blamed(g)' <=> Blamed(g)
  BY <1>1 DEF Blamed, Before
<1>7. \A g \in usable : \E j \in 1..Len(todo') : todo'[j] = Step("close", g)
  BY <1>1, <1>2, ShutdownSteps DEF IInv, PoolsOK
<1>8. PoolsOK'
  BY <1>1, <1>6, <1>7 DEF IInv, PoolsOK, Own
<1>9. CountOK'
  BY <1>1 DEF IInv, CountOK
<1> QED
  BY <1>4, <1>5, <1>8, <1>9 DEF IInv

(* A shutdown goes on: what it has still to close but g stays ahead.       *)
LEMMA ShutdownGoesOn ==
  ASSUME IInv, todo # <<>>, phase = "closing", Advances, UNCHANGED <<service, target>>
  PROVE  /\ TodoOK' /\ StartupOK'
         /\ \A g : Head(todo) # Step("close", g)
                   /\ (\E j \in 1..Len(todo) : todo[j] = Step("close", g))
                   => \E j \in 1..Len(todo') : todo'[j] = Step("close", g)
<1>1. Script' = Script /\ Script \in Seq(Steps)
  BY ScriptType DEF Script, Advances, InitTargetDb, IInv, TypeOK
<1>2. /\ TodoOK' /\ Len(todo') = Len(todo) - 1
      /\ \A j \in 1..Len(todo') : todo'[j] = todo[j + 1]
  BY <1>1, Further DEF IInv
<1>3. StartupOK'
  BY DEF StartupOK, Advances
<1>4. ASSUME NEW g, Head(todo) # Step("close", g), NEW j \in 1..Len(todo),
             todo[j] = Step("close", g)
      PROVE  \E i \in 1..Len(todo') : todo'[i] = Step("close", g)
  <2>1. Head(todo) = todo[1] /\ Len(todo) \in Nat
    BY PhaseSteps DEF IInv, TodoOK
  <2>2. j # 1 /\ j - 1 \in 1..Len(todo') /\ (j - 1) + 1 = j
    BY <1>2, <1>4, <2>1
  <2>3. todo'[j - 1] = todo[(j - 1) + 1]
    BY <1>2, <2>2
  <2> QED
    BY <1>4, <2>2, <2>3
<1> QED
  BY <1>2, <1>3, <1>4

(* Closing takes the pool away with the global.                            *)
LEMMA ClosesInv ==
  ASSUME IInv, Closes
  PROVE  IInv'
<1>0. PICK g : g = It
  OBVIOUS
<1>1. /\ todo # <<>> /\ Head(todo) = Step("close", g) /\ g \in Pooled /\ phase = "closing"
  BY <1>0, PhaseSteps DEF Closes, Doing
<1>2. /\ open' = [open EXCEPT ![g] = IF g \in usable THEN @ - 1 ELSE @]
      /\ usable' = usable \ {g} /\ set' = set \ {g}
      /\ Advances
      /\ UNCHANGED <<service, target, phase, health, probe, up, req, lives, faults, stuck>>
  BY <1>0 DEF Closes, Advances
<1>3. /\ TodoOK' /\ StartupOK'
      /\ \A h : Head(todo) # Step("close", h)
                /\ (\E j \in 1..Len(todo) : todo[j] = Step("close", h))
                => \E j \in 1..Len(todo') : todo'[j] = Step("close", h)
  BY <1>1, <1>2, ShutdownGoesOn
<1>4. open[g] \in 0..MaxLives /\ (g \in usable => open[g] > 0) /\ MaxLives \in Nat
      /\ lives \in 0..MaxLives /\ open[g] <= lives /\ open \in [Pooled -> 0..MaxLives]
  BY <1>1, LifecycleAssumption DEF IInv, TypeOK, CountOK
<1>5. /\ open'[g] = IF g \in usable THEN open[g] - 1 ELSE open[g]
      /\ \A h \in Pooled \ {g} : open'[h] = open[h]
      /\ open' \in [Pooled -> 0..MaxLives] /\ open'[g] <= lives
  BY <1>1, <1>2, <1>4
<1>6. TypeOK'
  BY <1>2, <1>5 DEF IInv, TypeOK
<1>7. \A h : Blamed(h)' <=> Blamed(h)
  BY <1>2 DEF Blamed, Before
<1>8. PoolsOK'
  <2>1. usable' \subseteq Own(service)'
    BY <1>2 DEF IInv, PoolsOK, Own
  <2>2. ASSUME NEW h \in Pooled, ~Blamed(h)
        PROVE  /\ open'[h] = IF h \in usable' THEN 1 ELSE 0
               /\ h \in usable' => \E j \in 1..Len(todo') : todo'[j] = Step("close", h)
    <3>1. CASE h = g
      BY <1>1, <1>2, <1>5, <2>2, <3>1 DEF IInv, PoolsOK
    <3>2. CASE h # g
      <4>1. Head(todo) # Step("close", h)
        BY <1>1, <3>2 DEF Step
      <4>2. open'[h] = open[h] /\ (h \in usable' <=> h \in usable)
        BY <1>2, <1>5, <3>2
      <4>3. h \in usable => \E j \in 1..Len(todo) : todo[j] = Step("close", h)
        BY <1>1, <2>2 DEF IInv, PoolsOK
      <4>4. open[h] = IF h \in usable THEN 1 ELSE 0
        BY <2>2 DEF IInv, PoolsOK
      <4> QED
        BY <1>3, <4>1, <4>2, <4>3, <4>4
    <3> QED
      BY <3>1, <3>2
  <2> QED
    BY <1>1, <1>2, <1>7, <2>1, <2>2 DEF PoolsOK
<1>9. CountOK'
  BY <1>1, <1>2, <1>5 DEF IInv, CountOK
<1> QED
  BY <1>3, <1>6, <1>8, <1>9 DEF IInv

(* What a close() that raises leaves open comes after it in the order of   *)
(* the shutdown.                                                           *)
LEMMA CannotCloseInv ==
  ASSUME IInv, CannotClose
  PROVE  IInv'
<1>0. PICK g : g = It
  OBVIOUS
<1>1. /\ todo # <<>> /\ Head(todo) = Step("close", g) /\ g \in Pooled /\ phase = "closing"
      /\ Past \in Nat /\ Past + 1 \in 1..Len(Script) /\ Head(todo) = Script[Past + 1]
      /\ Head(todo) = todo[1]
  BY <1>0, PhaseSteps DEF CannotClose, Doing
<1>2. /\ open' = [open EXCEPT ![g] = @ - 1] /\ g \in usable
      /\ usable' = usable \ {g} /\ stuck' = stuck \cup {g}
      /\ phase' = "stopped" /\ todo' = <<>>
      /\ UNCHANGED <<service, target, set, health, probe, up, req, lives>>
  BY <1>0 DEF CannotClose
<1>3. Script = CloseAll(service) /\ service \in Service /\ Script \in Seq(Steps)
  BY <1>1, ScriptType DEF IInv, TypeOK
<1>4. open[g] \in 0..MaxLives /\ open[g] > 0 /\ MaxLives \in Nat
      /\ lives \in 0..MaxLives /\ open[g] <= lives /\ open \in [Pooled -> 0..MaxLives]
  BY <1>1, <1>2, LifecycleAssumption DEF IInv, TypeOK, CountOK
<1>5. /\ open'[g] = open[g] - 1
      /\ \A h \in Pooled \ {g} : open'[h] = open[h]
      /\ open' \in [Pooled -> 0..MaxLives] /\ open'[g] <= lives
  BY <1>1, <1>2, <1>4
<1>6. TypeOK'
  <2>1. faults' \in 0..MaxFaults
    BY LifecycleAssumption DEF CannotClose, IInv, TypeOK
  <2> QED
    BY <1>1, <1>2, <1>5, <2>1 DEF IInv, TypeOK
<1>7. TodoOK' /\ StartupOK'
  <2>1. Script' = <<>>
    BY <1>2 DEF Script
  <2>2. TodoOK'
    BY <1>2, <2>1, FromTheTop
  <2> QED
    BY <1>2, <2>2 DEF StartupOK
<1>8. \A h : Blamed(h) => Blamed(h)'
  BY <1>2 DEF Blamed, Before
<1>9. PoolsOK'
  <2>1. usable' \subseteq Own(service)'
    BY <1>2 DEF IInv, PoolsOK, Own
  <2>2. ASSUME NEW h \in Pooled, ~Blamed(h)'
        PROVE  open'[h] = 0 /\ h \notin usable'
    <3>1. ~Blamed(h)
      BY <1>8, <2>2
    <3>2. CASE h = g
      BY <1>1, <1>2, <1>5, <3>1, <3>2 DEF IInv, PoolsOK
    <3>3. CASE h # g
      <4>1. h \notin usable
        <5> SUFFICES ASSUME h \in usable
                     PROVE  FALSE
          OBVIOUS
        <5>1. PICK j \in 1..Len(todo) : todo[j] = Step("close", h)
          BY <1>1, <3>1 DEF IInv, PoolsOK
        <5>2. todo[j] = Script[Past + j] /\ Len(todo) \in Nat /\ Past + Len(todo) = Len(Script)
          BY <1>3 DEF IInv, TodoOK, Past
        <5>3. j # 1
          BY <1>1, <3>3, <5>1 DEF Step
        <5>4. Past + j \in 1..Len(Script) /\ Past + 1 < Past + j
          BY <1>1, <5>2, <5>3
        <5>5. Before(g, h)
          BY <1>1, <1>3, <5>1, <5>2, <5>4 DEF Before
        <5> QED
          BY <1>2, <2>2, <5>5 DEF Blamed, Before
      <4> QED
        BY <1>2, <1>5, <3>1, <3>3, <4>1 DEF IInv, PoolsOK
    <3> QED
      BY <3>2, <3>3
  <2> QED
    BY <1>2, <2>1, <2>2 DEF PoolsOK
<1>10. CountOK'
  BY <1>1, <1>2, <1>4, <1>5 DEF IInv, CountOK
<1> QED
  BY <1>6, <1>7, <1>9, <1>10 DEF IInv

(* Dropping an object around a pool leaves the pools alone.                *)
LEMMA UnsetsInv ==
  ASSUME IInv, Unsets
  PROVE  IInv'
<1>0. PICK g : g = It
  OBVIOUS
<1>1. /\ todo # <<>> /\ Head(todo) = Step("unset", g) /\ g \notin Pooled /\ phase = "closing"
  BY <1>0, PhaseSteps DEF Unsets, Doing
<1>2. /\ set' = set \ {g} /\ Advances
      /\ UNCHANGED <<service, target, phase, usable, open, health, probe, up, req, lives, faults,
                     stuck>>
  BY <1>0 DEF Unsets, Advances
<1>3. /\ TodoOK' /\ StartupOK'
      /\ \A h : Head(todo) # Step("close", h)
                /\ (\E j \in 1..Len(todo) : todo[j] = Step("close", h))
                => \E j \in 1..Len(todo') : todo'[j] = Step("close", h)
  BY <1>1, <1>2, ShutdownGoesOn
<1>4. TypeOK'
  BY <1>1, <1>2 DEF IInv, TypeOK
<1>5. \A h : Blamed(h)' <=> Blamed(h)
  BY <1>2 DEF Blamed, Before
<1>6. \A h : Head(todo) # Step("close", h)
  BY <1>1 DEF Step
<1>7. PoolsOK'
  BY <1>1, <1>2, <1>3, <1>5, <1>6 DEF IInv, PoolsOK, Own
<1>8. CountOK'
  BY <1>1, <1>2 DEF IInv, CountOK
<1> QED
  BY <1>3, <1>4, <1>7, <1>8 DEF IInv

(* A shutdown that got to its end has closed all it was not kept from.     *)
LEMMA StoppedInv ==
  ASSUME IInv, Stopped
  PROVE  IInv'
<1>1. /\ phase = "closing" /\ todo = <<>> /\ phase' = "stopped" /\ todo' = <<>>
      /\ UNCHANGED <<service, target, globals, health, probe, up, req, lives, faults, stuck>>
  BY DEF Stopped
<1>2. Script' = <<>>
  BY <1>1 DEF Script
<1>3. TodoOK'
  BY <1>1, <1>2, FromTheTop
<1>4. TypeOK' /\ StartupOK'
  BY <1>1 DEF IInv, TypeOK, StartupOK
<1>5. \A g : Blamed(g)' <=> Blamed(g)
  BY <1>1 DEF Blamed, Before
<1>6. \A g \in Pooled : ~Blamed(g) => g \notin usable
  BY <1>1 DEF IInv, PoolsOK
<1>7. PoolsOK'
  BY <1>1, <1>5, <1>6 DEF IInv, PoolsOK, Own
<1>8. CountOK'
  BY <1>1 DEF IInv, CountOK
<1> QED
  BY <1>3, <1>4, <1>7, <1>8 DEF IInv

(* Requests and the database itself leave the lifespan alone.              *)
LEMMA OutsideInv ==
  ASSUME IInv, Outage \/ \E r \in Request : Arrives(r) \/ Ends(r)
  PROVE  IInv'
<1>1. UNCHANGED <<service, target, phase, todo, globals, health, probe, lives, faults, stuck>>
  BY DEF Outage, Arrives, Ends
<1>2. up' \in BOOLEAN /\ req' \in [Request -> {"idle", "run", "answered", "error"}]
  <2>1. CASE Outage
    BY <2>1 DEF Outage, IInv, TypeOK
  <2>2. ASSUME NEW r \in Request, Arrives(r)
        PROVE  up' \in BOOLEAN /\ req' \in [Request -> {"idle", "run", "answered", "error"}]
    BY <2>2 DEF Arrives, IInv, TypeOK
  <2>3. ASSUME NEW r \in Request, Ends(r)
        PROVE  up' \in BOOLEAN /\ req' \in [Request -> {"idle", "run", "answered", "error"}]
    BY <2>3 DEF Ends, IInv, TypeOK
  <2> QED
    BY <2>1, <2>2, <2>3
<1>3. TypeOK'
  BY <1>1, <1>2 DEF IInv, TypeOK
<1> QED
  BY <1>1, <1>3, QuietInv DEF IInv

---------------------------------------------------------------------------
(* The theorems.                                                           *)

(* A process that has not run its lifespan yet.                            *)
LEMMA InitInv == Init => IInv
<1> SUFFICES ASSUME Init PROVE IInv
  OBVIOUS
<1>1. TypeOK
  <2>1. open \in [Pooled -> 0..MaxLives] /\ lives \in 0..MaxLives /\ faults \in 0..MaxFaults
    BY LifecycleAssumption DEF Init
  <2> QED
    BY <2>1 DEF Init, TypeOK
<1>2. Script = <<>> /\ Past = 0
  BY DEF Init, Script, Past
<1>3. TodoOK
  BY <1>2 DEF Init, TodoOK
<1> QED
  BY <1>1, <1>3 DEF Init, IInv, StartupOK, PoolsOK, CountOK

(* Every step keeps the invariant.                                         *)
LEMMA NextInv == IInv /\ [Next]_vars => IInv'
<1> SUFFICES ASSUME IInv, [Next]_vars PROVE IInv'
  OBVIOUS
<1>1. CASE StartupStep
  BY <1>1, OpensInv, CannotOpenInv, SetsInv, ReadyInv DEF StartupStep
<1>2. CASE Start
  BY <1>2, StartInv
<1>3. CASE Stop
  BY <1>3, StopInv
<1>4. CASE Closes
  BY <1>4, ClosesInv
<1>5. CASE CannotClose
  BY <1>5, CannotCloseInv
<1>6. CASE Unsets
  BY <1>6, UnsetsInv
<1>7. CASE Stopped
  BY <1>7, StoppedInv
<1>8. CASE Outage \/ \E r \in Request : Arrives(r) \/ Ends(r)
  BY <1>8, OutsideInv
<1>9. CASE UNCHANGED vars
  <2>1. TypeOK'
    BY <1>9 DEF IInv, TypeOK, vars
  <2> QED
    BY <1>9, <2>1, QuietInv DEF IInv, vars
<1> QED
  BY <1>1, <1>2, <1>3, <1>4, <1>5, <1>6, <1>7, <1>8, <1>9 DEF Next

(* The pools, globals and counters of a service agree with how far its     *)
(* lifespan got, in every reachable state.                                 *)
THEOREM InductiveInvariant == Spec => []IInv
<1>1. Init => IInv
  BY InitInv
<1>2. IInv /\ [Next]_vars => IInv'
  BY NextInv
<1> QED
  BY <1>1, <1>2, PTL DEF Spec

(* Every variable keeps its type; a pool is opened at most once in a life. *)
THEOREM TypeCorrect == Spec => []TypeOK
<1>1. IInv => TypeOK
  BY DEF IInv
<1> QED
  BY <1>1, InductiveInvariant, PTL

(* A service that serves and says it is connected has every global its     *)
(* routes and its shutdown rely on, each with a pool, whatever failed in   *)
(* this life or a former one (K-AIR-domain-layer/app/main.py:26-33).       *)
THEOREM HealthMeansReadyHolds == Spec => []HealthMeansReady
<1>1. IInv => HealthMeansReady
  BY DEF IInv, StartupOK, HealthMeansReady
<1> QED
  BY <1>1, InductiveInvariant, PTL

(* After a shutdown a pool is open only if a close() that comes before its *)
(* own raised, in this life or a former one, whatever the startup got to   *)
(* (K-AIR-domain-layer/app/deps.py:61-73).                                 *)
THEOREM NothingLeftOpenHolds == Spec => []NothingLeftOpen
<1>1. IInv => NothingLeftOpen
  BY DEF IInv, PoolsOK, NothingLeftOpen, Blamed
<1> QED
  BY <1>1, InductiveInvariant, PTL
=============================================================================
