--------------------------- MODULE SchemaRegistry ---------------------------
(***************************************************************************)
(* What the schema store promises one client, without graph, cache or RDB: *)
(* a document per schema that changes in one step, and a selected schema   *)
(* that is always a stored one.                                            *)
(***************************************************************************)
CONSTANTS Schema, Content, None

VARIABLES
  stored,   \* the document of each schema
  current   \* the schema the store answers for by default

Init ==
  /\ stored = [s \in Schema |-> None]
  /\ current = None

(* A schema is created or its document replaced.                           *)
Store(s, c) ==
  /\ stored' = [stored EXCEPT ![s] = c]
  /\ UNCHANGED current

Select(s) ==
  /\ stored[s] # None
  /\ current' = s
  /\ UNCHANGED stored

(* A removed schema is not selected any more, in the same step.            *)
Remove(s) ==
  /\ stored' = [stored EXCEPT ![s] = None]
  /\ current' = IF current = s THEN None ELSE current

(* A restarted process has nothing selected.                               *)
Restart == current' = None /\ UNCHANGED stored

Next ==
  \/ \E s \in Schema, c \in Content : Store(s, c)
  \/ \E s \in Schema : Select(s) \/ Remove(s)
  \/ Restart

Spec == Init /\ [][Next]_<<stored, current>>
=============================================================================
