--------------------------- MODULE AnalyzerWrites ---------------------------
(***************************************************************************)
(* The writing operations of the analyzer service at work on one database. *)
(***************************************************************************)
EXTENDS AnalyzerCatalog, AnalyzerLineage

CONSTANTS
  Given,      \* the rows at the start, with their values
  Parsed,     \* the DDL files clients import
  Described,  \* the lists of columns descriptions are generated for
  Inferred,   \* pairs of columns a key is inferred between
  Drawn,      \* relationships users draw: <<table, table, kind>>
  Process     \* the processes: <<node, sources, targets>>

ASSUME GivenAssumption ==
  /\ DOMAIN Given \subseteq Row
  /\ \A x \in DOMAIN Given : Given[x] \in Value /\ Owners(x, Given[x]) \subseteq DOMAIN Given

ASSUME InputAssumption ==
  /\ Parsed \subseteq Ddl /\ Process \subseteq Node \X Seq(Node) \X Seq(Node)
  /\ Inferred \subseteq Column \X Column /\ Drawn \subseteq Table \X Table \X Kind
  /\ "FK_TO_TABLE" \in Kind
  /\ \A names \in Described : names \in Seq({names[i] : i \in DOMAIN names})

Init ==
  /\ rows = [x \in Row |-> IF x \in DOMAIN Given THEN Given[x] ELSE None]
  /\ undo = [r \in Request |-> <<>>]
  /\ held = [r \in Request |-> {}]
  /\ pc = [r \in Request |-> "idle"]
  /\ op = [r \in Request |-> None]
  /\ gate = [r \in Request |-> None]
  /\ atomic = [r \in Request |-> FALSE]
  /\ todo = [r \in Request |-> <<>>]
  /\ aim = [r \in Request |-> None]
  /\ done = [r \in Request |-> <<>>]
  /\ seen = [r \in Request |-> {}]
  /\ serial = rows
  /\ kept = [x \in Row |-> None]
  /\ faults = 0

(* The tables a column of this name can be in.                             *)
Home(c) == {t \in Table : NameOf[t] = SubSeq(NameOf[c], 1, 2)}

(* A call names tables and columns; a SELECT by name returns any of those  *)
(* it fits, and a call whose table is not there ends like one whose name   *)
(* no table has.                                                           *)
Call(r) ==
  \/ \E d \in Parsed : SaveDdlResults(r, d)
  \/ \E t \in Table, a \in Text : UpdateTableDescription(r, NameOf[t], a)
  \/ \E t \in Table, names \in Described, a \in Text :
       UpdateColumnDescriptions(r, NameOf[t], names, a)
  \/ \E p \in Inferred : \E t \in Home(p[1]), u \in Home(p[2]) :
       SaveFkRelationship(r, t, u, p[1], p[2])
  \/ \E p \in Drawn : CreateSchemaRelationship(r, p[1], p[2], p[3])
  \/ \E t, u \in Table : DeleteSchemaRelationship(r, NameOf[t][2], NameOf[u][2])
  \/ \E t \in Table, a \in Text : EditTables(r, NameOf[t], a)
  \/ \E c \in Column, a \in Text : EditColumns(r, NameOf[c][2], NameOf[c][3], a)
  \/ CleanupGraph(r)
  \/ \E p \in Process : SaveLineage(r, p[1], p[2], p[3])
  \/ \E x \in Glossary \cup Term \cup Calendar, a \in Text : CreateRow(r, x, a)
  \/ \E x \in Glossary \cup Term, a \in Text : UpdateRow(r, x, a)
  \/ \E x \in Glossary \cup Term \cup Calendar : DeleteRow(r, x)
  \/ \E x \in Day, a \in Text : AddDay(r, x, a)

Next == \E r \in Request : Call(r) \/ Step(r) \/ Fails(r)

Spec == Init /\ [][Next]_vars
FairSpec == Spec /\ WF_vars(\E r \in Request : Step(r))

---------------------------------------------------------------------------
(* Properties.                                                             *)

TypeOK ==
  /\ rows \in [Row -> Value \cup {None}]
  /\ \A r \in Request : DOMAIN undo[r] \subseteq Row
  /\ held \in [Request -> SUBSET (Row \X Mode)]
  /\ pc \in [Request -> {"idle", "run", "done", "failed"}]
  /\ gate \in [Request -> Source \cup {None}]
  /\ atomic \in [Request -> BOOLEAN]
  /\ \A r \in Request :
       aim[r] # None => aim[r] \subseteq Row \X (Request \cup {None}) \X Owner
  /\ serial \in [Row -> Value \cup {None}]
  /\ kept \in [Row -> Text \cup {Empty, None}]
  /\ faults \in 0..MaxFaults

(* What is committed is what the calls have written, had each made all its *)
(* writes at the moment of its commit: nothing of a call that raised or    *)
(* was the victim of a deadlock stays, and no write of one is lost in, or  *)
(* computed from, one of another that is not committed.  The rows are      *)
(* those a statement found: an UPDATE does not see what is inserted after  *)
(* it started (pg_phase_ddl.py:45-209, pg_metadata_service.py:123-175,     *)
(* pg_lineage_service.py:101-156, pg_graph_query_service.py:180-198,       *)
(* pg_schema_manage_service.py:150-196).                                   *)
CommittedInOrder == \A x \in Row : Committed(x) = serial[x]

(* A description a user wrote stays until an edit whose names fit the row, *)
(* an import that has the row, or a delete: what is generated in the       *)
(* meantime from an older, empty one never replaces it, though it may have *)
(* found the row empty (pg_metadata_service.py:76-104,                     *)
(* pg_schema_manage_service.py:165-196).                                   *)
UserTextKept ==
  \A x \in Row : kept[x] # None =>
    Committed(x) # None /\ Committed(x).text = kept[x] /\ Committed(x).by = "user"

(* Imports into one data source never wait for each other in a circle,     *)
(* whatever the order of their tables: the first row they write is that of *)
(* the source (pg_phase_ddl.py:48-56).  Of the calls that commit statement *)
(* by statement and write descriptions, only one that found several rows   *)
(* can be in a circle: it has one row while it waits for another           *)
(* (pg_metadata_service.py:76-104, pg_schema_manage_service.py:165-196).   *)
SameSource(q, r) == op[q] = "import" /\ op[r] = "import" /\ gate[q] = gate[r] /\ gate[q] # None

NoNeedlessDeadlock ==
  \A q, r \in Request :
    Waits(q, r) /\ Waits(r, q) =>
      /\ ~SameSource(q, r)
      /\ op[q] \in {"generate", "describe"} => \E a, b \in aim[q] : a[1] # b[1]

(* Every call is answered: a deadlock costs one of them its transaction,   *)
(* and no lock outlives the transaction that took it.                      *)
EveryCallEnds == \A r \in Request : pc[r] = "run" ~> pc[r] \in {"done", "failed"}
=============================================================================
