--------------------------- MODULE MetaIngestInv ---------------------------
(* The inductive invariant of MetaIngest behind GraphIntegrity,            *)
(* ForeignStays, GraphBehindT2s and CleanRefresh.                          *)
EXTENDS MetaIngest

Dropping == {"dropColumns", "dropTables", "dropDatabase", "createDatabase"}
Building == {"create", "link", "fks"}

(* What an ingest knows at each statement.                                 *)
LocalsOK ==
  \A r \in Request :
    /\ pc[r] # "idle" => mode[r] \in Mode /\ catalog[r] \in Posted
    /\ pc[r] = "t2s" => mode[r] # "apply"
    /\ pc[r] \in Building => todo[r] \subseteq NamedIn(catalog[r])
    /\ pc[r] = "link" => cur[r] \in NamedIn(catalog[r]) \ todo[r]

(* Who made a vertex, and what an edge joins.                              *)
OwnersOK ==
  /\ \A v \in vertices :
       IF v.ingested
       THEN /\ v.by \in Request /\ pc[v.by] \notin {"idle", "t2s"}
            /\ v.eid \in NamedIn(catalog[v.by]) \cup {catalog[v.by].label}
       ELSE v \in ForeignVertices
  /\ \A e \in has :
       /\ e[2] \in vertices /\ e[3] \in vertices
       /\ e[2].ingested /\ e[3].ingested
       /\ e[3].eid \in Named /\ e[2].eid = Parent(e[3].eid)
  /\ \A e \in fkTo :
       /\ e[2] \in vertices /\ e[3] \in vertices
       /\ e[3].ingested /\ e[3].eid \in Column

(* The relational tables hold what an ingest brings to the graph.          *)
T2sFirst ==
  \A r \in Request :
    pc[r] \in Dropping \cup Building \cup {"done"} /\ mode[r] # "apply" =>
      \A e \in NamedIn(catalog[r]) : t2s[e] # None

(* The tables and columns that are created, and those linked.              *)
Created(r) == NamedIn(catalog[r]) \ todo[r]
Linked(r) == Created(r) \ (IF pc[r] = "link" THEN {cur[r]} ELSE {})

(* The keys whose edge is created.                                         *)
Keyed(r) ==
  {f \in FksOf(catalog[r]) \ keys[r] : {f[1], f[2]} \subseteq catalog[r].columns}

Built(r) ==
  LET c == catalog[r]
  IN  /\ Ingested(Named \cup {c.label}) = {New(r, e) : e \in Created(r) \cup {c.label}}
      /\ has = {<<r, New(r, Parent(e)), New(r, e)>> : e \in Linked(r)}
      /\ fkTo = {<<r, New(r, f[1]), New(r, f[2])>> : f \in Keyed(r)}
      /\ keys[r] \subseteq FksOf(c)
      /\ \A k \in Created(r) \cap Column : TableOf[k] \in Created(r)

(* How far the layer has come.                                             *)
Progress(r) ==
  /\ pc[r] = "dropTables" => Ingested(Column) = {}
  /\ pc[r] = "dropDatabase" => Ingested(Named) = {}
  /\ pc[r] = "createDatabase" => Ingested(Named \cup {catalog[r].label}) = {}
  /\ pc[r] \in Building => Built(r)
  /\ pc[r] \in {"create", "link"} => keys[r] = FksOf(catalog[r])
  /\ pc[r] = "fks" => todo[r] = {}
  /\ pc[r] = "done" /\ mode[r] # "t2s" => IsSnapshot(r)

CleanOK ==
  \A r \in Request :
    clean[r] /\ pc[r] # "idle" => InFlight \subseteq {r} /\ Progress(r)

(* CleanRefresh speaks of the end of an ingest, CleanOK of the way there;  *)
(* OwnersOK says why the deletes reach every edge.                         *)
IInv ==
  /\ TypeOK /\ LocalsOK /\ OwnersOK /\ T2sFirst
  /\ GraphBehindT2s /\ ForeignStays /\ CleanOK
=============================================================================
