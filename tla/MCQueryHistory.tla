--------------------------- MODULE MCQueryHistory ---------------------------
(* Finite instances of QueryHistory for TLC.                               *)
EXTENDS QueryHistoryInv, TLC

CONSTANTS t1, t2, c1

(* A completed run over two tables, one of them unknown to the catalog,    *)
(* and a failed one over a table and a column.                             *)
Good == [status |-> 0, steps |-> 3, ms |-> 10, score |-> 1, verified |-> FALSE,
         gate |-> FALSE, summary |-> "made", meta |-> TRUE,
         used |-> {t1, t2}]
Bad == [Good EXCEPT !.status = 2, !.steps = None, !.score = 2, !.used = {t1, c1}]

(* One run better only by its time, one that is verified, one that has no  *)
(* metadata.                                                               *)
Quick == [Good EXCEPT !.ms = 5, !.used = {c1}]
Verified == [Bad EXCEPT !.verified = TRUE, !.gate = TRUE]
Bare == [Good EXCEPT !.steps = 2, !.score = 0, !.summary = "none", !.meta = FALSE,
                  !.used = {}]
Summed == [Bad EXCEPT !.summary = "given"]

Reported == {Good, Bad, Quick, Verified, Bare, Summed}

RequestSymmetry == Permutations(Request)
=============================================================================
