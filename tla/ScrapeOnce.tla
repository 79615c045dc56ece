----------------------------- MODULE ScrapeOnce -----------------------------
(***************************************************************************)
(* What the scrape pipeline promises the readers of its tables, without    *)
(* replicas, workers or batches.                                           *)
(*                                                                         *)
(* A task is inserted, claimed once and given one verdict.  Reports and    *)
(* target groups come from tasks that have been claimed and have not       *)
(* failed, and a task fails only if it has left neither behind.  A report  *)
(* may be stored again, and before or after the verdict.  Tasks that are   *)
(* not pending may be deleted at any time.                                 *)
(***************************************************************************)
EXTENDS Naturals

CONSTANT Tasks

VARIABLES
  status,  \* of each task
  saves,   \* how often its report has been stored
  groups   \* the tasks whose target group has been stored

vars == <<status, saves, groups>>

Init ==
  /\ status = [t \in Tasks |-> "absent"]
  /\ saves = [t \in Tasks |-> 0]
  /\ groups = {}

All(S, statuses) == \A t \in S : status[t] \in statuses

Become(S, s) == status' = [t \in Tasks |-> IF t \in S THEN s ELSE status[t]]

Insert(S) == All(S, {"absent"}) /\ Become(S, "pending") /\ UNCHANGED <<saves, groups>>
Claim(S) == All(S, {"pending"}) /\ Become(S, "running") /\ UNCHANGED <<saves, groups>>

Delete(S) ==
  /\ All(S, {"running", "complete", "error", "deleted"})
  /\ Become(S, "deleted")
  /\ UNCHANGED <<saves, groups>>

(* The tasks that may have results to store. *)
Successful == {"running", "complete", "deleted"}

Report(S) ==
  /\ All(S, Successful)
  /\ saves' = [t \in Tasks |-> IF t \in S THEN saves[t] + 1 ELSE saves[t]]
  /\ UNCHANGED <<status, groups>>

StoreGroups(S) ==
  /\ All(S, Successful)
  /\ groups' = groups \union S
  /\ UNCHANGED <<status, saves>>

Settle(ok, failed) ==
  /\ All(ok \union failed, {"running"}) /\ ok \intersect failed = {}
  /\ \A t \in failed : saves[t] = 0 /\ t \notin groups
  /\ status' = [t \in Tasks |-> IF t \in ok THEN "complete"
                                ELSE IF t \in failed THEN "error" ELSE status[t]]
  /\ UNCHANGED <<saves, groups>>

Next ==
  \/ \E S \in SUBSET Tasks : Insert(S) \/ Claim(S) \/ Delete(S) \/ Report(S) \/ StoreGroups(S)
  \/ \E ok, failed \in SUBSET Tasks : Settle(ok, failed)

Spec == Init /\ [][Next]_vars
=============================================================================
