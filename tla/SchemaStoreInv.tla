--------------------------- MODULE SchemaStoreInv ---------------------------
(* The inductive invariants of SchemaStore: IInv behind CleanSaveMirrors   *)
(* and GraphIntegrity, SerialInv behind what one client can rely on.       *)
EXTENDS SchemaStore

(* Statements of a coroutine that holds a schema_dict.                     *)
Saving == {"clear", "match", "setMeta", "createMeta", "sync", "link",
           "rdb", "version", "install"}
Synced == {"sync", "link", "rdb", "version", "install"}

(* The references held by coroutines and by the cache: a dict is there     *)
(* before anything points to it, keeps its id, and is about the schema its *)
(* coroutine works on.                                                     *)
RefsOK ==
  /\ active # None => dict[active] \in Dict
  /\ \A r \in Request :
       /\ obj[r] # None => dict[obj[r]] \in Dict
       /\ pc[r] \in {"idle", "read"} => dict[r] = None
       /\ pc[r] # "idle" => sid[r] \in Schema
       /\ pc[r] \in Saving \cup {"adopt"} =>
            obj[r] # None /\ dict[obj[r]].id = sid[r]
       /\ pc[r] \in {"sync", "link"} => todo[r] \subseteq DOMAIN Doc(r)
       /\ pc[r] = "link" => cur[r] \in NodeVertex /\ cur[r].by = r
       /\ pc[r] = "version" => snap[r] \in Content

(* Whoever made a vertex fixes its schema, no vertex is made twice, and an *)
(* edge joins what exists.                                                 *)
OwnersOK ==
  /\ \A v \in schemaV : /\ v.id = sid[v.by]
                        /\ pc[v.by] \in Synced \cup Ended
  /\ \A x \in nodeV : /\ pc[x.by] \in Synced \cup Ended
                      /\ pc[x.by] \in {"sync", "link"} => x.node \notin todo[x.by]
  /\ \A e \in hasNode : /\ e[2] \in nodeV
                        /\ \E v \in schemaV : v.by = e[1]
                        /\ sid[e[1]] = sid[e[2].by]
  /\ \A e \in effects : e[1] \in nodeV /\ e[2] \in nodeV /\ e[1].by = e[2].by
  /\ \A r \in Request : \A x \in made[r] : x.by = r /\ pc[r] \in Synced \cup Ended

(* A clean save that is running has its schema to itself.                  *)
Alone(r) == \A q \in InFlight \ {r} : sid[q] # sid[r]

(* The nodes the loop has created, linked and noted.                       *)
Reached(r) == (DOMAIN Doc(r) \ todo[r]) \ (IF pc[r] = "link" THEN {cur[r].node} ELSE {})

(* How far the graph of its schema has come.                               *)
Progress(r) ==
  LET s == sid[r]
      c == Doc(r)
  IN  /\ pc[r] \in {"match", "setMeta", "createMeta"} => TypeChildren(s) = {}
      /\ pc[r] = "setMeta" => VerticesOf(s) # {}
      /\ pc[r] = "createMeta" => VerticesOf(s) = {}
      /\ pc[r] \in Synced =>
           /\ VerticesOf(s) # {} /\ \A v \in VerticesOf(s) : v.json = c
           /\ made[r] = {[by |-> r, node |-> n, attr |-> c[n]] : n \in Reached(r)}
           /\ made[r] \subseteq nodeV
           /\ pc[r] = "link" \/ todo[r] # {} => rels[r] = Edge
           /\ TypeChildren(s) = {x \in made[r] : x.node \notin Layered}
           /\ \A x, y \in made[r] :
                <<x, y>> \in effects <=> <<x.node, y.node>> \in Edge \ rels[r]
      /\ pc[r] = "link" =>
           /\ cur[r] \in nodeV /\ cur[r].node \in DOMAIN c \ todo[r]
           /\ cur[r] = [by |-> r, node |-> cur[r].node, attr |-> c[cur[r].node]]
           /\ \A x \in nodeV : <<x, cur[r]>> \notin effects /\ <<cur[r], x>> \notin effects
      /\ pc[r] \in {"rdb", "version", "install"} =>
           todo[r] = {} /\ Linkable(r) = {}
      /\ pc[r] \in {"version", "install"} => rdb[s] = c

CleanOK ==
  \A r \in InFlight : clean[r] => Alone(r) /\ (pc[r] \in Saving => Progress(r))

(* The conjunction is inductive: TypeOK alone is not, since CreateNode     *)
(* reads the dict, nor is CleanSaveMirrors, which speaks of the end of a   *)
(* save only.                                                              *)
IInv == TypeOK /\ RefsOK /\ OwnersOK /\ CleanOK

---------------------------------------------------------------------------
Lone == InFlight = {} \/ \E r \in Request : InFlight = {r}

(* The graph stores c, if anything, for schema s.                          *)
Agrees(s, c) == \A v \in VerticesOf(s) : v.json = c

(* What a request has found in the graph or put there is still so.         *)
Foothold(r) ==
  /\ pc[r] \in {"createMeta", "forget"} => VerticesOf(sid[r]) = {}
  /\ pc[r] = "setMeta" => VerticesOf(sid[r]) # {}
  /\ pc[r] \in Synced \cup {"adopt"} =>
       VerticesOf(sid[r]) # {} /\ Agrees(sid[r], Doc(r))

(* The cached schema is stored or about to leave the cache, and is what is *)
(* stored, unless something raised or a save of it is on its way.          *)
CacheOK ==
  active # None =>
    LET d == dict[active]
    IN  /\ VerticesOf(d.id) = {} =>
             \E r \in InFlight : pc[r] = "forget" /\ sid[r] = d.id
        /\ faults = 0 /\ (\A r \in InFlight : sid[r] = d.id => pc[r] \notin Saving) =>
             Agrees(d.id, d.content)

(* With one client.                                                        *)
SerialInv ==
  Lone /\ OneVertexPerSchema /\ (\A r \in InFlight : Foothold(r)) /\ CacheOK
=============================================================================
