----------------------------- MODULE ScrapeTasks -----------------------------
(***************************************************************************)
(* The scrape_tasks table (internal/storage/postgres/scrape_task.go) and   *)
(* the cron job that fills it (internal/scrapetask/producer_job.go).       *)
(*                                                                         *)
(* A statement is one step.  A task is a row, by id: "absent" before its   *)
(* insert, "deleted" after the cleanup has removed it.                     *)
(***************************************************************************)
EXTENDS Service, PgClaim, PgBatch

CONSTANTS
  RowsPerBatch,  \* rowsPerBatch: rows one sendBatch inserts
  Retention,     \* scrapeTaskCleanupRetention, in ticks of the clock
  MaxClock       \* bound: ticks of the clock in a behaviour

ASSUME ScrapeTasksAssumption ==
  /\ RowsPerBatch \in Nat \ {0}
  /\ Retention \in Nat
  /\ MaxClock \in Nat
  /\ MaxFaults \in Nat

VARIABLES
  taskStatus,  \* scrape_tasks.status
  createdAt,   \* scrape_tasks.created_at
  clock,       \* the time
  toInsert     \* per replica: what its SaveScrapeTasks call has yet to insert

tableVars == <<taskStatus, createdAt, clock, toInsert>>

TaskStatuses == {"absent", "pending", "running", "complete", "error", "deleted"}

TableTypeOK ==
  /\ taskStatus \in [Tasks -> TaskStatuses]
  /\ createdAt \in [Tasks -> Nat]
  /\ clock \in Nat
  /\ toInsert \in [Replicas -> SUBSET Tasks]
  /\ faults \in Nat

TableInit ==
  /\ taskStatus = [t \in Tasks |-> "absent"]
  /\ createdAt = [t \in Tasks |-> 0]
  /\ clock = 0
  /\ toInsert = [c \in Replicas |-> {}]
  /\ faults = 0

(* The status of the rows S becomes s. *)
SetStatus(S, s) == [t \in Tasks |-> IF t \in S THEN s ELSE taskStatus[t]]

Tick ==
  /\ clock < MaxClock
  /\ clock' = clock + 1
  /\ UNCHANGED <<taskStatus, createdAt, toInsert, faults>>

Fresh == {t \in Tasks : taskStatus[t] = "absent" /\ \A c \in Replicas : t \notin toInsert[c]}

(* Mutant: the cleanup removes old rows nobody has claimed yet, too. *)
CleanedUpAnyStatus == {t \in Tasks : taskStatus[t] # "absent" /\ createdAt[t] + Retention < clock}

(* cleanupScrapeTasksSQL: old rows that are not pending, "running" included. *)
CleanedUp ==
  {t \in Tasks : taskStatus[t] \notin {"absent", "pending"} /\ createdAt[t] + Retention < clock}

(***************************************************************************)
(* The cron job builds tasks for the targets it discovered, stamped with   *)
(* the current time, and SaveScrapeTasks begins with the cleanup.  A       *)
(* cleanup that fails ends the call; discovering nothing only cleans up.   *)
(***************************************************************************)
Work(c, S) ==
  /\ toInsert[c] = {} /\ S \subseteq Fresh
  /\ createdAt' = [t \in Tasks |-> IF t \in S THEN clock ELSE createdAt[t]]
  /\ \/ /\ taskStatus' = SetStatus(CleanedUp, "deleted")
        /\ toInsert' = [toInsert EXCEPT ![c] = S]
        /\ UNCHANGED faults
     \/ /\ Fault
        /\ taskStatus' \in {taskStatus, SetStatus(CleanedUp, "deleted")}
        /\ UNCHANGED toInsert
  /\ UNCHANGED clock

(***************************************************************************)
(* SaveScrapeTasks sends the next rowsPerBatch rows.  An error ends the    *)
(* call and drops the rows not yet sent.                                   *)
(***************************************************************************)
SaveScrapeTasks(c) ==
  /\ \E chunk \in SUBSET toInsert[c] :
       /\ chunk # {}
       /\ Cardinality(chunk) = RowsPerBatch
            \/ (chunk = toInsert[c] /\ Cardinality(chunk) < RowsPerBatch)
       /\ \E err, committed \in BOOLEAN :
            /\ sendBatch(err, committed)
            /\ taskStatus' = IF committed THEN SetStatus(chunk, "pending") ELSE taskStatus
            /\ toInsert' = [toInsert EXCEPT ![c] = IF err THEN {} ELSE @ \ chunk]
  /\ UNCHANGED <<createdAt, clock>>

(* Mutant: the claim also takes rows another replica is working on. *)
ClaimableRunning(limit) ==
  OldestFirst({t \in Tasks : taskStatus[t] \in {"pending", "running"}}, limit, createdAt)

(* The sets of rows getScrapeTasksSQL may claim. *)
Claimable(limit) == OldestFirst({t \in Tasks : taskStatus[t] = "pending"}, limit, createdAt)

(* Mutant: the status of a failed scrape is not one the table knows. *)
WithStatusesFailed(updates) ==
  [t \in Tasks |->
     IF [task |-> t, err |-> TRUE] \in updates THEN "failed"
     ELSE IF [task |-> t, err |-> FALSE] \in updates THEN "complete"
     ELSE taskStatus[t]]

(* updateTaskStatusesSQL: a row that has been deleted meanwhile is not updated. *)
WithStatuses(updates) ==
  [t \in Tasks |->
     IF taskStatus[t] \in {"absent", "deleted"} THEN taskStatus[t]
     ELSE IF [task |-> t, err |-> TRUE] \in updates THEN "error"
     ELSE IF [task |-> t, err |-> FALSE] \in updates THEN "complete"
     ELSE taskStatus[t]]
==============================================================================
