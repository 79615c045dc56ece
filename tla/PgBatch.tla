------------------------------ MODULE PgBatch ------------------------------
(***************************************************************************)
(* Storage.sendBatch (internal/storage/postgres/postgres.go), by which     *)
(* SaveScrapeTasks and SaveOrUpdateTargetGroups write their rows, and the  *)
(* failures of storage calls.                                              *)
(***************************************************************************)
EXTENDS Naturals

CONSTANT MaxFaults  \* bound: storage calls that fail

VARIABLE faults     \* storage calls that have failed so far

Fault == faults < MaxFaults /\ faults' = faults + 1

(***************************************************************************)
(* How sendBatch ends.  The rows are one implicit transaction.  A deadlock *)
(* rolls it back and the batch is sent again, without limit, until it ends *)
(* in one of the other ways: the rows are committed; a statement fails,    *)
(* and the error is returned, even if the connection was lost after the    *)
(* commit; or every statement succeeds and the end of the batch fails.     *)
(* That error comes out of Close, which only logs it: the call succeeds    *)
(* and nothing is committed.                                               *)
(***************************************************************************)
sendBatch(err, committed) ==
  \/ ~err /\ committed /\ UNCHANGED faults
  \/ ~err /\ ~committed /\ Fault
  \/ err /\ Fault
============================================================================
