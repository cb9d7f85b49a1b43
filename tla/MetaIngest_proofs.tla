-------------------------- MODULE MetaIngest_proofs --------------------------
(***************************************************************************)
(* Proofs about MetaIngest, for every set of requests, labels, tables,     *)
(* columns and catalogs, and for any number of ingests at a time.          *)
(***************************************************************************)
EXTENDS MetaIngestInv, TLAPS

USE DEF tables, graph, given, loop, Obsolete

(* What a catalog that may be ingested looks like.                         *)
LEMMA PostedShape ==
  ASSUME NEW c \in Posted
  PROVE  /\ c \in Catalog /\ c # None
         /\ c.label \in Label /\ c.attr \in Attr
         /\ NamedIn(c) \subseteq Named
         /\ \A e \in NamedIn(c) : Parent(e) \in NamedIn(c) \cup {c.label}
         /\ \A e \in NamedIn(c) \cap Column : Parent(e) = TableOf[e] /\ TableOf[e] \in c.tables
<1>1. c \in Catalog /\ c # None /\ c.label \in Label /\ c.attr \in Attr
      /\ c.tables \subseteq Table /\ c.columns \subseteq Column
  BY MetaAssumption DEF Catalog
<1>2. \A e \in NamedIn(c) \cap Column : Parent(e) = TableOf[e] /\ TableOf[e] \in c.tables
  BY <1>1, MetaAssumption DEF NamedIn, Parent
<1>3. \A e \in c.tables : Parent(e) = c.label
  BY <1>1, MetaAssumption DEF Parent
<1> QED
  BY <1>1, <1>2, <1>3 DEF NamedIn, Named

(* A new vertex and its fields.                                            *)
LEMMA NewShape ==
  ASSUME TypeOK, LocalsOK, NEW r \in Request, pc[r] # "idle",
         NEW e \in Element
  PROVE  /\ New(r, e) \in Vertex
         /\ New(r, e).by = r /\ New(r, e).eid = e /\ New(r, e).ingested
         /\ catalog[r] \in Posted
BY PostedShape DEF LocalsOK, New, Vertex

(* Before the first ingest the graph holds what came from elsewhere.       *)
LEMMA InitInv == Init => IInv
<1> SUFFICES ASSUME Init
             PROVE  IInv
  OBVIOUS
<1>1. ForeignVertices \subseteq Vertex
  <2> SUFFICES ASSUME NEW e \in Foreign
               PROVE  [by |-> None, eid |-> e, attr |-> None, ingested |-> FALSE] \in Vertex
    BY DEF ForeignVertices
  <2>1. e \in Element
    BY MetaAssumption DEF Element
  <2> QED
    BY <2>1 DEF Vertex
<1>2. TypeOK
  BY <1>1 DEF Init, TypeOK, PC
<1>3. LocalsOK /\ T2sFirst /\ CleanOK /\ ForeignStays
  BY DEF Init, LocalsOK, T2sFirst, CleanOK, ForeignStays, Building, Dropping
<1>4. OwnersOK
  BY DEF Init, OwnersOK, ForeignVertices
<1>5. GraphBehindT2s
  BY DEF Init, GraphBehindT2s, Ingested, ForeignVertices
<1> QED
  BY <1>2, <1>3, <1>4, <1>5 DEF IInv

(* A step of one ingest leaves the others' statements, catalogs and flags  *)
(* alone; a clean one among them cannot be running.                        *)
OnlyOf(r) ==
  /\ r \in InFlight
  /\ UNCHANGED <<given, clean>>
  /\ \A p \in Request \ {r} :
       /\ pc'[p] = pc[p] /\ todo'[p] = todo[p] /\ cur'[p] = cur[p] /\ keys'[p] = keys[p]

LEMMA CleanStep ==
  ASSUME TypeOK, CleanOK, NEW r \in Request, OnlyOf(r), pc'[r] # "idle",
         clean[r] => Progress(r)'
  PROVE  CleanOK'
<1> SUFFICES ASSUME NEW p \in Request, clean'[p], pc'[p] # "idle"
             PROVE  InFlight' \subseteq {p} /\ Progress(p)'
  BY DEF CleanOK
<1>1. CASE p = r
  BY <1>1 DEF OnlyOf, CleanOK, InFlight
<1>2. CASE p # r
  BY <1>2 DEF OnlyOf, CleanOK, InFlight
<1> QED
  BY <1>1, <1>2

(* A step that neither makes vertices of tables or columns nor takes rows  *)
(* away keeps the graph behind the relational tables.                      *)
LEMMA BehindStep ==
  ASSUME OwnersOK, GraphBehindT2s, vertices' \subseteq vertices,
         \A e \in Named : t2s[e] # None => t2s'[e] # None,
         \A p \in Request : pc[p] \notin {"idle", "t2s"} => mode'[p] = mode[p]
  PROVE  GraphBehindT2s'
BY DEF OwnersOK, GraphBehindT2s, Ingested

(* A call: a later ingest takes the clean flag of every other.             *)
LEMMA CallInv ==
  ASSUME IInv, NEW r \in Request, Call(r)
  PROVE  IInv'
<1> USE DEF IInv
<1>1. PICK c \in Posted, m \in Mode, l \in {"t2s", "failed", "dropColumns"} :
        /\ Begin(r, m, c) /\ Goto(r, l)
        /\ l = "t2s" => m # "apply"
        /\ l = "dropColumns" => m = "apply"
  BY DEF Call, Apply, Load, Mode
<1>2. /\ pc[r] = "idle" /\ c \in Catalog
      /\ pc' = [pc EXCEPT ![r] = l] /\ mode' = [mode EXCEPT ![r] = m]
      /\ catalog' = [catalog EXCEPT ![r] = c]
      /\ clean' = [p \in Request |-> p = r /\ InFlight = {}]
      /\ UNCHANGED <<tables, graph, loop>>
  BY <1>1, PostedShape DEF Begin, Goto
<1>3. TypeOK'
  BY <1>2 DEF TypeOK, PC
<1>4. LocalsOK'
  BY <1>1, <1>2 DEF TypeOK, LocalsOK, Building
<1>5. OwnersOK'
  <2>1. \A v \in vertices : v.ingested => v.by # r
    BY <1>2 DEF OwnersOK
  <2>2. \A p \in Request \ {r} : pc'[p] = pc[p] /\ catalog'[p] = catalog[p]
    BY <1>2 DEF TypeOK
  <2> QED
    BY <1>2, <2>1, <2>2 DEF OwnersOK
<1>6. T2sFirst'
  BY <1>1, <1>2 DEF TypeOK, T2sFirst, Dropping, Building
<1>7. ForeignStays'
  BY <1>2 DEF ForeignStays
<1>8. CleanOK'
  <2> SUFFICES ASSUME NEW p \in Request, clean'[p], pc'[p] # "idle"
               PROVE  InFlight' \subseteq {p} /\ Progress(p)'
    BY DEF CleanOK
  <2>1. p = r /\ InFlight = {}
    BY <1>2
  <2>2. InFlight' \subseteq {r}
    BY <1>2, <2>1 DEF InFlight, TypeOK
  <2>3. Progress(r)'
    BY <1>2 DEF TypeOK, Progress, Building
  <2> QED
    BY <2>1, <2>2, <2>3
<1>9. GraphBehindT2s'
  BY <1>2, BehindStep DEF TypeOK
<1> QED
  BY <1>3, <1>4, <1>5, <1>6, <1>7, <1>8, <1>9

(* An ingest that stops changes nothing but that.                          *)
LEMMA StopsInv ==
  ASSUME IInv, NEW r \in Request, Stops(r)
  PROVE  IInv'
<1> USE DEF IInv
<1>1. r \in InFlight /\ pc' = [pc EXCEPT ![r] = "failed"]
      /\ UNCHANGED <<tables, graph, given, loop, clean>>
  BY DEF Stops, Goto
<1>2. TypeOK'
  BY <1>1 DEF TypeOK, PC
<1>3. LocalsOK'
  BY <1>1 DEF TypeOK, LocalsOK, Building, InFlight
<1>4. OwnersOK' /\ ForeignStays'
  BY <1>1 DEF TypeOK, OwnersOK, ForeignStays
<1>5. T2sFirst'
  BY <1>1 DEF TypeOK, T2sFirst, Dropping, Building
<1>6. CleanOK'
  <2>1. OnlyOf(r) /\ pc'[r] = "failed"
    BY <1>1 DEF OnlyOf, TypeOK
  <2>2. Progress(r)'
    BY <2>1 DEF Progress, Building
  <2> QED
    BY <2>1, <2>2, CleanStep
<1>7. GraphBehindT2s'
  BY <1>1, BehindStep
<1> QED
  BY <1>2, <1>3, <1>4, <1>5, <1>6, <1>7

(* The transaction over the relational tables.                             *)
LEMMA ApplyToT2sInv ==
  ASSUME IInv, NEW r \in Request, ApplyToT2s(r)
  PROVE  IInv'
<1> USE DEF IInv
<1> DEFINE c == catalog[r]
           l == IF mode[r] = "t2s" THEN "done" ELSE "dropColumns"
<1>1. /\ r \in InFlight /\ pc[r] = "t2s" /\ c \in Posted /\ mode[r] # "apply"
      /\ pc' = [pc EXCEPT ![r] = l]
      /\ UNCHANGED <<graph, given, loop, clean>>
  BY DEF ApplyToT2s, Goto, InFlight, LocalsOK
<1>2. c.attr \in Attr /\ c.attr # None
  BY <1>1, PostedShape, MetaAssumption
<1>3. /\ t2s' \in [Named -> Attr \cup {None}]
      /\ \A e \in Named : e \in NamedIn(c) \/ t2s[e] # None => t2s'[e] # None
      /\ t2sFk' \subseteq Fk
  BY <1>2 DEF ApplyToT2s, Upserted, TypeOK, FksOf
<1>4. TypeOK'
  BY <1>1, <1>3 DEF TypeOK, PC
<1>5. LocalsOK'
  BY <1>1 DEF TypeOK, LocalsOK, Building
<1>6. OwnersOK' /\ ForeignStays'
  BY <1>1 DEF TypeOK, OwnersOK, ForeignStays
<1>7. T2sFirst'
  <2> SUFFICES ASSUME NEW p \in Request,
                      pc'[p] \in Dropping \cup Building \cup {"done"}, mode[p] # "apply",
                      NEW e \in NamedIn(catalog[p])
               PROVE  t2s'[e] # None
    BY <1>1 DEF T2sFirst
  <2>1. catalog[p] \in Posted
    BY <1>1 DEF LocalsOK, Dropping, Building, TypeOK
  <2>2. e \in Named
    BY <2>1, PostedShape
  <2>3. CASE p = r
    BY <1>3, <2>2, <2>3
  <2>4. CASE p # r
    BY <1>1, <1>3, <2>2, <2>4 DEF T2sFirst, TypeOK
  <2> QED
    BY <2>3, <2>4
<1>8. CleanOK'
  <2>1. OnlyOf(r) /\ pc'[r] = l
    BY <1>1 DEF OnlyOf, TypeOK
  <2>2. Progress(r)'
    BY <1>1, <2>1 DEF Progress, Building
  <2> QED
    BY <2>1, <2>2, CleanStep
<1>9. GraphBehindT2s'
  BY <1>1, <1>3, BehindStep
<1> QED
  BY <1>4, <1>5, <1>6, <1>7, <1>8, <1>9

(* What a DETACH DELETE of marked vertices leaves.                         *)
LEMMA DetachShape ==
  ASSUME TypeOK, OwnersOK, ForeignStays, NEW E, DetachDelete(Ingested(E))
  PROVE  /\ vertices' = vertices \ Ingested(E)
         /\ has' \subseteq has /\ fkTo' \subseteq fkTo
         /\ \A e \in has' \cup fkTo' : e[2] \in vertices' /\ e[3] \in vertices'
         /\ ForeignVertices \subseteq vertices'
         /\ \A v \in vertices' : v \in vertices /\ (v.ingested => v.eid \notin E)
BY DEF DetachDelete, Ingested, OwnersOK, ForeignStays, ForeignVertices

(* The deletes keep types, owners, locals and what came from elsewhere.    *)
LEMMA DropInv ==
  ASSUME IInv, NEW r \in Request, NEW E, NEW l \in Dropping,
         pc[r] \in Dropping, DetachDelete(Ingested(E)), Goto(r, l),
         UNCHANGED <<tables, given, loop, clean>>
  PROVE  /\ TypeOK' /\ LocalsOK' /\ OwnersOK' /\ T2sFirst' /\ GraphBehindT2s' /\ ForeignStays'
         /\ OnlyOf(r) /\ pc'[r] = l
<1> USE DEF IInv
<1>1. TypeOK'
  BY DetachShape DEF TypeOK, Goto, PC, Dropping
<1>2. LocalsOK'
  BY DEF TypeOK, LocalsOK, Goto, Dropping, Building
<1>3. \A p \in Request : pc[p] \notin {"idle", "t2s"} => pc'[p] \notin {"idle", "t2s"}
  BY DEF TypeOK, Goto, Dropping
<1>4. OwnersOK'
  BY <1>3, DetachShape DEF OwnersOK
<1>5. T2sFirst'
  BY DEF TypeOK, T2sFirst, Goto, Dropping, Building
<1>6. ForeignStays'
  BY DetachShape DEF ForeignStays
<1>7. OnlyOf(r) /\ pc'[r] = l
  BY DEF OnlyOf, InFlight, Goto, Dropping, TypeOK
<1>8. GraphBehindT2s'
  BY DetachShape, BehindStep
<1> QED
  BY <1>1, <1>2, <1>4, <1>5, <1>6, <1>7, <1>8

(* The three deletes, in their order, empty the marked layer.              *)
LEMMA DropsInv ==
  ASSUME IInv, NEW r \in Request,
         DropColumns(r) \/ DropTables(r) \/ DropDatabase(r)
  PROVE  IInv'
<1>1. ASSUME DropColumns(r)
      PROVE  IInv'
  <2>1. pc[r] = "dropColumns" /\ DetachDelete(Ingested(Column)) /\ Goto(r, "dropTables")
        /\ UNCHANGED <<tables, given, loop, clean>>
    BY <1>1 DEF DropColumns
  <2>2. /\ TypeOK' /\ LocalsOK' /\ OwnersOK' /\ T2sFirst' /\ GraphBehindT2s' /\ ForeignStays'
        /\ OnlyOf(r) /\ pc'[r] = "dropTables"
    BY <2>1, DropInv DEF Dropping
  <2>3. Ingested(Column)' = {}
    BY <2>1, DetachShape DEF Ingested, IInv
  <2>4. Progress(r)'
    BY <2>2, <2>3 DEF Progress, Building
  <2>5. CleanOK'
    BY <2>2, <2>4, CleanStep DEF IInv
  <2> QED
    BY <2>2, <2>5 DEF IInv
<1>2. ASSUME DropTables(r)
      PROVE  IInv'
  <2>1. pc[r] = "dropTables" /\ DetachDelete(Ingested(Table)) /\ Goto(r, "dropDatabase")
        /\ UNCHANGED <<tables, given, loop, clean>>
    BY <1>2 DEF DropTables
  <2>2. /\ TypeOK' /\ LocalsOK' /\ OwnersOK' /\ T2sFirst' /\ GraphBehindT2s' /\ ForeignStays'
        /\ OnlyOf(r) /\ pc'[r] = "dropDatabase"
    BY <2>1, DropInv DEF Dropping
  <2>3. clean[r] => Ingested(Column) = {}
    BY <2>1 DEF IInv, CleanOK, Progress
  <2>4. clean[r] => Ingested(Named)' = {}
    BY <2>1, <2>3, DetachShape DEF Ingested, Named, IInv
  <2>5. clean[r] => Progress(r)'
    BY <2>2, <2>4 DEF Progress, Building
  <2>6. CleanOK'
    BY <2>2, <2>5, CleanStep DEF IInv
  <2> QED
    BY <2>2, <2>6 DEF IInv
<1>3. ASSUME DropDatabase(r)
      PROVE  IInv'
  <2>1. pc[r] = "dropDatabase" /\ DetachDelete(Ingested({catalog[r].label}))
        /\ Goto(r, "createDatabase") /\ UNCHANGED <<tables, given, loop, clean>>
    BY <1>3 DEF DropDatabase
  <2>2. /\ TypeOK' /\ LocalsOK' /\ OwnersOK' /\ T2sFirst' /\ GraphBehindT2s' /\ ForeignStays'
        /\ OnlyOf(r) /\ pc'[r] = "createDatabase"
    BY <2>1, DropInv DEF Dropping
  <2>3. clean[r] => Ingested(Named) = {}
    BY <2>1 DEF IInv, CleanOK, Progress
  <2>4. clean[r] => Ingested(Named \cup {catalog[r].label})' = {}
    <3>1. \A v \in vertices' : v \in vertices /\ (v.ingested => v.eid \notin {catalog[r].label})
      BY <2>1, DetachShape DEF IInv
    <3>2. catalog' = catalog
      BY <2>1
    <3> QED
      BY <2>3, <3>1, <3>2 DEF Ingested
  <2>5. clean[r] => Progress(r)'
    BY <2>2, <2>4 DEF Progress, Building
  <2>6. CleanOK'
    BY <2>2, <2>5, CleanStep DEF IInv
  <2> QED
    BY <2>2, <2>6 DEF IInv
<1> QED
  BY <1>1, <1>2, <1>3

(* A step of the building phase goes on where something is left to do.     *)
LEMMA BuiltProgress ==
  ASSUME NEW r \in Request, Built(r)', pc'[r] = Remaining(todo'[r], keys'[r]),
         todo'[r] # {} => keys'[r] = FksOf(catalog'[r])
  PROVE  Progress(r)'
<1>1. pc'[r] \notin Dropping /\ pc'[r] # "link"
  BY DEF Remaining, Dropping
<1>2. pc'[r] = "done" => IsSnapshot(r)'
  BY <1>1 DEF Remaining, Built, IsSnapshot, Created, Linked, Keyed
<1> QED
  BY <1>1, <1>2 DEF Progress, Remaining, Building, Dropping

(* Creating the vertex of the label.                                       *)
LEMMA CreateDatabaseInv ==
  ASSUME IInv, NEW r \in Request, CreateDatabase(r)
  PROVE  IInv'
<1> USE DEF IInv
<1> DEFINE c == catalog[r]
           n == New(r, c.label)
<1>1. /\ pc[r] = "createDatabase" /\ r \in InFlight /\ c \in Posted
      /\ vertices' = vertices \cup {n}
      /\ todo' = [todo EXCEPT ![r] = NamedIn(c)]
      /\ keys' = [keys EXCEPT ![r] = FksOf(c)]
      /\ pc' = [pc EXCEPT ![r] = Remaining(todo'[r], keys'[r])]
      /\ UNCHANGED <<tables, has, fkTo, given, cur, clean>>
  BY DEF CreateDatabase, Goto, InFlight, LocalsOK
<1>2. NamedIn(c) \subseteq Named /\ c.label \in Label /\ FksOf(c) \subseteq Fk
  BY <1>1, PostedShape DEF FksOf
<1>3. n \in Vertex /\ n.by = r /\ n.eid = c.label /\ n.ingested
  BY <1>1, <1>2, NewShape DEF Element
<1>4. Remaining(todo'[r], keys'[r]) \in {"create", "fks", "done"}
  BY DEF Remaining
<1>5. TypeOK'
  BY <1>1, <1>2, <1>3, <1>4 DEF TypeOK, PC
<1>6. LocalsOK'
  BY <1>1, <1>4 DEF TypeOK, LocalsOK, Building
<1>7. OwnersOK'
  <2>1. \A p \in Request : pc[p] \notin {"idle", "t2s"} => pc'[p] \notin {"idle", "t2s"}
    BY <1>1, <1>4 DEF TypeOK
  <2>2. pc'[r] \notin {"idle", "t2s"}
    BY <1>1, <1>4 DEF TypeOK
  <2> QED
    BY <1>1, <1>3, <2>1, <2>2 DEF OwnersOK
<1>8. T2sFirst'
  BY <1>1, <1>4 DEF TypeOK, T2sFirst, Dropping, Building
<1>9. ForeignStays'
  BY <1>1 DEF ForeignStays
<1>10. OnlyOf(r) /\ pc'[r] # "idle"
  BY <1>1, <1>4 DEF OnlyOf, TypeOK
<1>11. clean[r] => Progress(r)'
  <2> SUFFICES ASSUME clean[r]
               PROVE  Progress(r)'
    OBVIOUS
  <2>1. Ingested(Named \cup {c.label}) = {}
    BY <1>1 DEF CleanOK, Progress
  <2>2. has = {} /\ fkTo = {}
    BY <2>1 DEF OwnersOK, Ingested, Named
  <2>3. todo'[r] = NamedIn(c) /\ keys'[r] = FksOf(c) /\ catalog'[r] = c
        /\ pc'[r] = Remaining(todo'[r], keys'[r])
    BY <1>1 DEF TypeOK
  <2>4. Created(r)' = {} /\ Linked(r)' = {} /\ Keyed(r)' = {}
    BY <2>3 DEF Created, Linked, Keyed
  <2>5. Ingested(Named \cup {c.label})' = {n}
    BY <1>1, <1>3, <2>1 DEF Ingested
  <2>6. \A e : New(r, e)' = New(r, e)
    BY <1>1 DEF New
  <2>7. Built(r)'
    BY <1>1, <2>2, <2>3, <2>4, <2>5, <2>6 DEF Built
  <2> QED
    BY <2>3, <2>7, BuiltProgress
<1>12. CleanOK'
  BY <1>10, <1>11, CleanStep
<1>13. GraphBehindT2s'
  BY <1>1, <1>2, <1>3, MetaAssumption DEF GraphBehindT2s, Ingested, Named
<1> QED
  BY <1>5, <1>6, <1>7, <1>8, <1>9, <1>12, <1>13

(* Creating the vertex of a table or column.                               *)
LEMMA CreateNamedInv ==
  ASSUME IInv, NEW r \in Request, NEW e \in Named, CreateNamed(r, e)
  PROVE  IInv'
<1> USE DEF IInv
<1> DEFINE c == catalog[r]
           n == New(r, e)
<1>1. /\ pc[r] = "create" /\ r \in InFlight /\ c \in Posted /\ e \in todo[r]
      /\ todo[r] \subseteq NamedIn(c)
      /\ vertices' = vertices \cup {n}
      /\ todo' = [todo EXCEPT ![r] = @ \ {e}]
      /\ cur' = [cur EXCEPT ![r] = e]
      /\ pc' = [pc EXCEPT ![r] = "link"]
      /\ UNCHANGED <<tables, has, fkTo, given, keys, clean>>
  BY DEF CreateNamed, NextNamed, Goto, InFlight, LocalsOK, Building
<1>2. n \in Vertex /\ n.by = r /\ n.eid = e /\ n.ingested
  BY <1>1, NewShape DEF Element
<1>3. TypeOK'
  BY <1>1, <1>2 DEF TypeOK, PC
<1>4. todo'[r] = todo[r] \ {e} /\ cur'[r] = e /\ pc'[r] = "link" /\ catalog'[r] = c
      /\ keys'[r] = keys[r]
  BY <1>1 DEF TypeOK
<1>5. LocalsOK'
  BY <1>1, <1>4 DEF TypeOK, LocalsOK, Building
<1>6. OwnersOK'
  <2>1. \A p \in Request : pc[p] \notin {"idle", "t2s"} => pc'[p] \notin {"idle", "t2s"}
    BY <1>1 DEF TypeOK
  <2> QED
    BY <1>1, <1>2, <1>4, <2>1 DEF OwnersOK
<1>7. T2sFirst'
  BY <1>1 DEF TypeOK, T2sFirst, Dropping, Building
<1>8. ForeignStays'
  BY <1>1 DEF ForeignStays
<1>9. OnlyOf(r) /\ pc'[r] # "idle"
  BY <1>1 DEF OnlyOf, TypeOK
<1>10. clean[r] => Progress(r)'
  <2> SUFFICES ASSUME clean[r]
               PROVE  Progress(r)'
    OBVIOUS
  <2>1. Built(r) /\ keys[r] = FksOf(c)
    BY <1>1 DEF CleanOK, Progress, Building
  <2>2. Created(r)' = Created(r) \cup {e} /\ e \notin Created(r)
    BY <1>1, <1>4 DEF Created
  <2>3. Linked(r)' = Linked(r)
    BY <1>1, <1>4, <2>2 DEF Linked
  <2>4. Keyed(r)' = Keyed(r)
    BY <1>4 DEF Keyed
  <2>5. \A x : New(r, x)' = New(r, x)
    BY <1>1 DEF New
  <2>6. Ingested(Named \cup {c.label})' = Ingested(Named \cup {c.label}) \cup {n}
    BY <1>1, <1>2 DEF Ingested
  <2>7. \A k \in Created(r)' \cap Column : TableOf[k] \in Created(r)'
    <3>1. e \in Column => TableOf[e] \in Created(r)
      <4>1. e \in Column => TableOf[e] \notin todo[r]
        BY MetaAssumption DEF CreateNamed, NextNamed
      <4>2. e \in Column => TableOf[e] \in NamedIn(c)
        BY <1>1, PostedShape DEF NamedIn
      <4> QED
        BY <4>1, <4>2 DEF Created
    <3> QED
      BY <2>1, <2>2, <3>1 DEF Built
  <2>8. /\ Ingested(Named \cup {c.label})' = {New(r, x) : x \in Created(r)' \cup {c.label}}
        /\ has' = {<<r, New(r, Parent(x)), New(r, x)>> : x \in Linked(r)'}
        /\ fkTo' = {<<r, New(r, f[1]), New(r, f[2])>> : f \in Keyed(r)'}
    <3>1. \A v : v \in Ingested(Named \cup {c.label})'
                 <=> \E x \in Created(r) \cup {e} \cup {c.label} : v = New(r, x)
      BY <2>1, <2>6 DEF Built
    <3>2. Ingested(Named \cup {c.label})' = {New(r, x) : x \in Created(r)' \cup {c.label}}
      BY <2>2, <3>1
    <3> QED
      BY <1>1, <2>1, <2>3, <2>4, <3>2 DEF Built, Linked
  <2>9. Built(r)'
    <3>1. {New(r, x)' : x \in Created(r)' \cup {c.label}} = {New(r, x) : x \in Created(r)' \cup {c.label}}
      BY <2>5
    <3>2. {<<r, New(r, Parent(x))', New(r, x)'>> : x \in Linked(r)'}
            = {<<r, New(r, Parent(x)), New(r, x)>> : x \in Linked(r)'}
      BY <2>5
    <3>3. {<<r, New(r, f[1])', New(r, f[2])'>> : f \in Keyed(r)'}
            = {<<r, New(r, f[1]), New(r, f[2])>> : f \in Keyed(r)'}
      BY <2>5
    <3>4. keys'[r] \subseteq FksOf(catalog'[r]) /\ catalog'[r] = c
      BY <1>4, <2>1 DEF Built
    <3> QED
      BY <2>7, <2>8, <3>1, <3>2, <3>3, <3>4 DEF Built
  <2> QED
    BY <1>4, <2>1, <2>9 DEF Progress, Building
<1>11. CleanOK'
  BY <1>9, <1>10, CleanStep
<1>12. GraphBehindT2s'
  <2>1. mode[r] # "apply" => t2s[e] # None
    BY <1>1 DEF T2sFirst, Building
  <2> QED
    BY <1>1, <1>2, <2>1 DEF GraphBehindT2s, Ingested
<1> QED
  BY <1>3, <1>5, <1>6, <1>7, <1>8, <1>11, <1>12

(* An edge between two elements a clean ingest has created joins its own   *)
(* vertices and nothing else.                                              *)
LEMMA JoinedIsOne ==
  ASSUME IInv, NEW r \in Request, clean[r], pc[r] \in Building,
         NEW d \in Created(r) \cup {catalog[r].label},
         NEW e \in Created(r)
  PROVE  Joined(r, d, e) = {<<r, New(r, d), New(r, e)>>}
<1>1. catalog[r] \in Posted /\ pc[r] # "idle"
  BY DEF IInv, LocalsOK, Building
<1>2. Built(r)
  BY <1>1 DEF IInv, CleanOK, Progress
<1>3. \A x \in Created(r) \cup {catalog[r].label} :
        x \in Element /\ x \in Named \cup {catalog[r].label} /\ New(r, x).eid = x
  BY <1>1, PostedShape, NewShape DEF Created, Element, IInv
<1>4. \A x \in Created(r) \cup {catalog[r].label} : Ingested({x}) = {New(r, x)}
  <2> TAKE x \in Created(r) \cup {catalog[r].label}
  <2>1. \A v : v \in Ingested({x}) <=> v \in Ingested(Named \cup {catalog[r].label}) /\ v.eid = x
    BY <1>3 DEF Ingested
  <2>2. \A v : v \in Ingested(Named \cup {catalog[r].label})
               <=> \E y \in Created(r) \cup {catalog[r].label} : v = New(r, y)
    BY <1>2 DEF Built
  <2>3. New(r, x) \in Ingested({x})
    BY <1>3, <2>1, <2>2
  <2>4. ASSUME NEW v \in Ingested({x})
        PROVE  v = New(r, x)
    <3>1. PICK y \in Created(r) \cup {catalog[r].label} : v = New(r, y)
      BY <2>1, <2>2
    <3>2. y = x
      BY <1>3, <2>1, <3>1
    <3> QED
      BY <3>1, <3>2
  <2> QED
    BY <2>3, <2>4
<1>5. Ingested({d}) = {New(r, d)} /\ Ingested({e}) = {New(r, e)}
  BY <1>4
<1> QED
  BY <1>5 DEF Joined

(* Linking a table or column under its parent.                             *)
LEMMA LinkNamedInv ==
  ASSUME IInv, NEW r \in Request, LinkNamed(r)
  PROVE  IInv'
<1> USE DEF IInv
<1> DEFINE c == catalog[r]
           e == cur[r]
           l == Remaining(todo[r], keys[r])
<1>1. /\ pc[r] = "link" /\ r \in InFlight /\ c \in Posted
      /\ e \in NamedIn(c) \ todo[r] /\ todo[r] \subseteq NamedIn(c)
      /\ has' = has \cup Joined(r, Parent(e), e)
      /\ pc' = [pc EXCEPT ![r] = l]
      /\ UNCHANGED <<tables, vertices, fkTo, given, loop, clean>>
  BY DEF LinkNamed, Goto, InFlight, LocalsOK, Building
<1>2. l \in {"create", "fks", "done"}
  BY DEF Remaining
<1>3. e \in Named
  BY <1>1, PostedShape
<1>4. \A j \in Joined(r, Parent(e), e) :
        /\ j \in Request \X Vertex \X Vertex
        /\ j[2] \in vertices /\ j[3] \in vertices
        /\ j[2].ingested /\ j[3].ingested /\ j[3].eid = e /\ j[2].eid = Parent(e)
  BY DEF Joined, Ingested, TypeOK
<1>5. TypeOK'
  BY <1>1, <1>2, <1>4 DEF TypeOK, PC
<1>6. LocalsOK'
  BY <1>1, <1>2 DEF TypeOK, LocalsOK, Building
<1>7. OwnersOK'
  <2>1. \A p \in Request : pc[p] \notin {"idle", "t2s"} => pc'[p] \notin {"idle", "t2s"}
    BY <1>1, <1>2 DEF TypeOK
  <2> QED
    BY <1>1, <1>3, <1>4, <2>1 DEF OwnersOK
<1>8. T2sFirst'
  BY <1>1, <1>2 DEF TypeOK, T2sFirst, Dropping, Building
<1>9. ForeignStays'
  BY <1>1 DEF ForeignStays
<1>10. OnlyOf(r) /\ pc'[r] = l /\ pc'[r] # "idle"
  BY <1>1, <1>2 DEF OnlyOf, TypeOK
<1>11. clean[r] => Progress(r)'
  <2> SUFFICES ASSUME clean[r]
               PROVE  Progress(r)'
    OBVIOUS
  <2>1. Built(r) /\ keys[r] = FksOf(c)
    BY <1>1 DEF CleanOK, Progress, Building
  <2>2. e \in Created(r) /\ Linked(r) = Created(r) \ {e}
    BY <1>1 DEF Created, Linked
  <2>3. Parent(e) \in Created(r) \cup {c.label}
    <3>1. CASE e \in Column
      BY <1>1, <2>1, <2>2, <3>1, PostedShape DEF Built
    <3>2. CASE e \in Table
      BY <1>1, <3>2, MetaAssumption, PostedShape DEF Parent, NamedIn, Catalog
    <3> QED
      BY <1>3, <3>1, <3>2 DEF Named
  <2>4. Joined(r, Parent(e), e) = {<<r, New(r, Parent(e)), New(r, e)>>}
    BY <1>1, <2>2, <2>3, JoinedIsOne DEF Building
  <2>5. /\ Created(r)' = Created(r) /\ Linked(r)' = Created(r) /\ Keyed(r)' = Keyed(r)
        /\ Ingested(Named \cup {c.label})' = Ingested(Named \cup {c.label})
    BY <1>1, <1>2, <1>10 DEF Created, Linked, Keyed, Ingested
  <2>6. \A x : New(r, x)' = New(r, x)
    BY <1>1 DEF New
  <2>7. has' = {<<r, New(r, Parent(x)), New(r, x)>> : x \in Created(r)}
    BY <1>1, <2>1, <2>2, <2>4 DEF Built
  <2>8. Built(r)'
    <3>1. {New(r, x)' : x \in Created(r) \cup {c.label}} = {New(r, x) : x \in Created(r) \cup {c.label}}
      BY <2>6
    <3>2. {<<r, New(r, Parent(x))', New(r, x)'>> : x \in Created(r)}
            = {<<r, New(r, Parent(x)), New(r, x)>> : x \in Created(r)}
      BY <2>6
    <3>3. {<<r, New(r, f[1])', New(r, f[2])'>> : f \in Keyed(r)}
            = {<<r, New(r, f[1]), New(r, f[2])>> : f \in Keyed(r)}
      BY <2>6
    <3>4. keys'[r] \subseteq FksOf(c) /\ catalog' = catalog /\ fkTo' = fkTo
      BY <1>1, <2>1 DEF Built
    <3>5. \A k \in Created(r) \cap Column : TableOf[k] \in Created(r)
      BY <2>1 DEF Built
    <3> QED
      BY <2>1, <2>5, <2>7, <3>1, <3>2, <3>3, <3>4, <3>5 DEF Built
  <2> QED
    BY <1>1, <1>10, <2>1, <2>8, BuiltProgress
<1>12. CleanOK'
  BY <1>10, <1>11, CleanStep
<1>13. GraphBehindT2s'
  BY <1>1, BehindStep
<1> QED
  BY <1>5, <1>6, <1>7, <1>8, <1>9, <1>12, <1>13

(* Creating the edge of a foreign key: none if a column is missing.        *)
LEMMA CreateFkInv ==
  ASSUME IInv, NEW r \in Request, NEW f \in Fk, CreateFk(r, f)
  PROVE  IInv'
<1> USE DEF IInv
<1> DEFINE c == catalog[r]
           l == Remaining({}, keys'[r])
<1>1. /\ pc[r] = "fks" /\ r \in InFlight /\ c \in Posted /\ f \in keys[r]
      /\ fkTo' = fkTo \cup Joined(r, f[1], f[2])
      /\ keys' = [keys EXCEPT ![r] = @ \ {f}]
      /\ pc' = [pc EXCEPT ![r] = l]
      /\ UNCHANGED <<tables, vertices, has, given, todo, cur, clean>>
  BY DEF CreateFk, Goto, InFlight, LocalsOK
<1>2. l \in {"fks", "done"}
  BY DEF Remaining
<1>3. f[1] \in Column /\ f[2] \in Column
  BY MetaAssumption
<1>4. \A j \in Joined(r, f[1], f[2]) :
        /\ j \in Request \X Vertex \X Vertex
        /\ j[2] \in vertices /\ j[3] \in vertices
        /\ j[3].ingested /\ j[3].eid = f[2]
  BY DEF Joined, Ingested, TypeOK
<1>5. TypeOK'
  BY <1>1, <1>2, <1>4 DEF TypeOK, PC
<1>6. LocalsOK'
  BY <1>1, <1>2 DEF TypeOK, LocalsOK, Building
<1>7. OwnersOK'
  <2>1. \A p \in Request : pc[p] \notin {"idle", "t2s"} => pc'[p] \notin {"idle", "t2s"}
    BY <1>1, <1>2 DEF TypeOK
  <2> QED
    BY <1>1, <1>3, <1>4, <2>1 DEF OwnersOK
<1>8. T2sFirst'
  BY <1>1, <1>2 DEF TypeOK, T2sFirst, Dropping, Building
<1>9. ForeignStays'
  BY <1>1 DEF ForeignStays
<1>10. /\ OnlyOf(r) /\ pc'[r] = l /\ pc'[r] # "idle"
       /\ keys'[r] = keys[r] \ {f} /\ catalog' = catalog /\ todo' = todo
  BY <1>1, <1>2 DEF OnlyOf, TypeOK
<1>11. clean[r] => Progress(r)'
  <2> SUFFICES ASSUME clean[r]
               PROVE  Progress(r)'
    OBVIOUS
  <2>1. Built(r) /\ todo[r] = {}
    BY <1>1 DEF CleanOK, Progress, Building
  <2>2. Created(r) = NamedIn(c) /\ Linked(r) = NamedIn(c) /\ f \in FksOf(c)
    BY <1>1, <2>1 DEF Created, Linked, Built
  <2>3. Created(r)' = Created(r) /\ Linked(r)' = Linked(r)
        /\ Ingested(Named \cup {c.label})' = Ingested(Named \cup {c.label})
    BY <1>1, <1>2, <1>10, <2>2 DEF Created, Linked, Ingested
  <2>4. fkTo' = {<<r, New(r, k[1]), New(r, k[2])>> : k \in Keyed(r)'}
    <3>1. CASE {f[1], f[2]} \subseteq c.columns
      <4>1. f[1] \in Created(r) /\ f[2] \in Created(r)
        BY <2>2, <3>1 DEF NamedIn
      <4>2. Joined(r, f[1], f[2]) = {<<r, New(r, f[1]), New(r, f[2])>>}
        BY <1>1, <4>1, JoinedIsOne DEF Building
      <4>3. Keyed(r)' = Keyed(r) \cup {f}
        BY <1>10, <2>2, <3>1 DEF Keyed
      <4> QED
        BY <1>1, <2>1, <4>2, <4>3 DEF Built
    <3>2. CASE ~({f[1], f[2]} \subseteq c.columns)
      <4>1. PICK k \in {f[1], f[2]} : k \notin c.columns
        BY <3>2
      <4>2. k \in Column /\ k \notin NamedIn(c) \cup {c.label}
        BY <1>1, <1>3, <4>1, MetaAssumption, PostedShape DEF NamedIn, Catalog
      <4>3. Ingested({k}) = {}
        <5> SUFFICES ASSUME NEW v \in Ingested({k})
                     PROVE  FALSE
          OBVIOUS
        <5>1. v \in Ingested(Named \cup {c.label}) /\ v.eid = k
          BY <4>2 DEF Ingested, Named
        <5>2. PICK x \in NamedIn(c) \cup {c.label} : v = New(r, x)
          BY <2>1, <2>2, <5>1 DEF Built
        <5>3. v.eid = x
          BY <5>2 DEF New
        <5> QED
          BY <4>2, <5>1, <5>3
      <4>4. Joined(r, f[1], f[2]) = {}
        BY <4>1, <4>3 DEF Joined
      <4>5. Keyed(r)' = Keyed(r)
        BY <1>10, <3>2 DEF Keyed
      <4> QED
        BY <1>1, <2>1, <4>4, <4>5 DEF Built
    <3> QED
      BY <3>1, <3>2
  <2>5. \A x : New(r, x)' = New(r, x)
    BY <1>10 DEF New
  <2>6. Built(r)'
    <3>1. {New(r, x)' : x \in Created(r) \cup {c.label}} = {New(r, x) : x \in Created(r) \cup {c.label}}
      BY <2>5
    <3>2. {<<r, New(r, Parent(x))', New(r, x)'>> : x \in Linked(r)}
            = {<<r, New(r, Parent(x)), New(r, x)>> : x \in Linked(r)}
      BY <2>5
    <3>3. {<<r, New(r, k[1])', New(r, k[2])'>> : k \in Keyed(r)'}
            = {<<r, New(r, k[1]), New(r, k[2])>> : k \in Keyed(r)'}
      BY <2>5
    <3>4. keys'[r] \subseteq FksOf(c) /\ has' = has
      BY <1>1, <1>10, <2>1 DEF Built
    <3>5. \A k \in Created(r) \cap Column : TableOf[k] \in Created(r)
      BY <2>1 DEF Built
    <3> QED
      BY <1>10, <2>1, <2>3, <2>4, <3>1, <3>2, <3>3, <3>4, <3>5 DEF Built
  <2> QED
    BY <1>10, <2>1, <2>6, BuiltProgress
<1>12. CleanOK'
  BY <1>10, <1>11, CleanStep
<1>13. GraphBehindT2s'
  BY <1>1, BehindStep
<1> QED
  BY <1>5, <1>6, <1>7, <1>8, <1>9, <1>12, <1>13

(* IInv is inductive: every statement of an ingest, the calls and the      *)
(* failures keep it.                                                       *)
THEOREM InductiveInvariant == Spec => []IInv
<1>1. IInv /\ [Next]_vars => IInv'
  <2> SUFFICES ASSUME IInv, [Next]_vars
               PROVE  IInv'
    OBVIOUS
  <2>1. ASSUME NEW r \in Request, Step(r)
        PROVE  IInv'
    BY <2>1, ApplyToT2sInv, DropsInv, CreateDatabaseInv, CreateNamedInv,
       LinkNamedInv, CreateFkInv DEF Step
  <2>2. CASE UNCHANGED vars
    <3>1. UNCHANGED <<tables, graph, pc, given, loop, clean>>
      BY <2>2 DEF vars
    <3>2. TypeOK' /\ LocalsOK' /\ OwnersOK' /\ T2sFirst' /\ ForeignStays'
      BY <3>1 DEF IInv, TypeOK, LocalsOK, OwnersOK, T2sFirst, ForeignStays
    <3>3. ASSUME NEW r \in Request
          PROVE  Progress(r) => Progress(r)'
      BY <3>1 DEF Progress, Built, IsSnapshot, Created, Linked, Keyed, Ingested, New,
         Building
    <3>4. CleanOK'
      BY <3>1, <3>3 DEF IInv, CleanOK, InFlight
    <3>5. GraphBehindT2s'
      BY <3>1, BehindStep DEF IInv
    <3> QED
      BY <3>2, <3>4, <3>5 DEF IInv
  <2> QED
    BY <2>1, <2>2, CallInv, StopsInv DEF Next
<1> QED
  BY <1>1, InitInv, PTL DEF Spec

(* The tables, the graph and what every ingest holds are of their types.   *)
THEOREM TypeCorrect == Spec => []TypeOK
<1>1. IInv => TypeOK
  BY DEF IInv
<1> QED
  BY <1>1, InductiveInvariant, PTL

(* Edges join what is there, and hang everything under its own parent.     *)
THEOREM GraphIntegrityHolds == Spec => []GraphIntegrity
<1>1. IInv => GraphIntegrity
  BY DEF IInv, OwnersOK, GraphIntegrity
<1> QED
  BY <1>1, InductiveInvariant, PTL

(* What came into the graph by other means is never deleted.               *)
THEOREM ForeignStaysHolds == Spec => []ForeignStays
<1>1. IInv => ForeignStays
  BY DEF IInv
<1> QED
  BY <1>1, InductiveInvariant, PTL

(* The graph never runs ahead of the relational tables.                    *)
THEOREM GraphBehindT2sHolds == Spec => []GraphBehindT2s
<1>1. IInv => GraphBehindT2s
  BY DEF IInv
<1> QED
  BY <1>1, InductiveInvariant, PTL

(* An ingest that no other ran beside leaves exactly its catalog, whatever *)
(* was left before it.                                                     *)
THEOREM CleanRefreshHolds == Spec => []CleanRefresh
<1>1. IInv => CleanRefresh
  BY DEF IInv, CleanOK, Progress, CleanRefresh
<1> QED
  BY <1>1, InductiveInvariant, PTL
=============================================================================
