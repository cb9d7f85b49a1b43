-------------------------- MODULE QueryHistoryInv --------------------------
(* The inductive invariants of QueryHistory: IInv behind SeenIsExact,      *)
(* UsageHasRow and CleanSaveRecorded, SerialInv behind the properties of   *)
(* requests that do not overlap.                                           *)
EXTENDS QueryHistory

Writing == {"insert", "update"}
Using == {"dropTables", "dropColumns", "use"}

(* What a request knows at each statement.                                 *)
LocalsOK ==
  \A r \in Request :
    /\ pc[r] # "idle" => query[r] \in Query
    /\ pc[r] \in {"read"} \cup Writing \cup Using => run[r] \in Run
    /\ pc[r] \in {"idle", "read"} \cup Writing => ~stored[r]
    /\ pc[r] \in Using => over[r] /\ run[r].meta
    /\ pc[r] = "use" => todo[r] \subseteq run[r].used
    /\ stored[r] => query[r] \in Query /\ rows[query[r]] # None
    /\ pc[r] = "done" /\ over[r] => run[r] \in Run
    /\ pc[r] \in {"idle", "read"} => ~over[r]

(* A clean request still has its question to itself, also after it ended.  *)
Alone(r) == \A o \in InFlight \ {r} : query[o] # query[r]

(* The row holds what request r overwrote it with.                         *)
RowIsOf(r) ==
  /\ rows[query[r]] # None
  /\ rows[query[r]].run = run[r] /\ rows[query[r]].at = at[r]

Progress(r) ==
  /\ pc[r] = "insert" => rows[query[r]] = None
  /\ pc[r] = "update" => rows[query[r]] # None
  /\ pc[r] \in Using => RowIsOf(r)
  /\ pc[r] = "dropColumns" => UsageOf(query[r]) \cap Table = {}
  /\ pc[r] = "use" => UsageOf(query[r]) = (run[r].used \ todo[r]) \cap Known
  /\ pc[r] = "done" /\ over[r] => HoldsRun(r)

CleanOK ==
  \A r \in Request :
    clean[r] /\ pc[r] # "idle" => Alone(r) /\ Progress(r)

(* SeenIsExact needs to know who has written; CleanSaveRecorded speaks of  *)
(* the end of a save, Progress of the way there.                           *)
IInv == TypeOK /\ LocalsOK /\ SeenIsExact /\ UsageHasRow /\ CleanOK

---------------------------------------------------------------------------
(* The row stores the run of a request that it has counted.                *)
Makers ==
  /\ \A r \in Request : stored[r] => run[r] \in Run
  /\ \A q \in Query :
       rows[q] # None => \E r \in Counted(q) : run[r] = rows[q].run /\ at[r] = rows[q].at

Lone == \A p, r \in InFlight : p = r

(* What a request decided when it read its row is right at its write.      *)
Fresh ==
  \A r \in Request :
    pc[r] \in Writing =>
      LET row == rows[query[r]]
      IN  /\ over[r] = ShouldOverwrite(run[r], at[r], row)
          /\ context[r] = ShouldOverwriteContext(run[r], at[r], row)
          /\ pc[r] = "insert" <=> row = None

(* Nobody is between the write of a row of q and the end of its usage.     *)
Settled(q) == \A r \in InFlight : query[r] = q => pc[r] \notin Using

UsageKept ==
  \A q \in Query :
    rows[q] # None /\ rows[q].run.meta /\ Settled(q) =>
      /\ UsageOf(q) = rows[q].run.used \cap Known
      /\ rows[q].used = rows[q].run.used

(* Without overlaps, and for the usage without exceptions as well.         *)
SerialInv ==
  /\ Makers
  /\ apart => Lone /\ Fresh
  /\ BestRunKept /\ BestContextKept
  /\ apart /\ faults = 0 => (\A r \in InFlight : clean[r]) /\ UsageKept
=============================================================================
