---------------------------- MODULE TaskConsumer ----------------------------
(***************************************************************************)
(* The consumer loop of every replica (internal/scraper/task_consumer.go)  *)
(* over the shared task table and the replica's own worker pool.           *)
(*                                                                         *)
(* TaskConsumer.Run is one goroutine.  pc says where it is: in its select, *)
(* between the leadership check and the claim, inside the loop of blocking *)
(* submits, at one of the three saves of a flush, waiting for the pool to  *)
(* stop, or gone.  A flush is "result" (after a result, only batches of    *)
(* BatchSize), "tick" or "exit" (every batch that is not empty).  A save   *)
(* that reports an error keeps its batch, and may have committed.          *)
(***************************************************************************)
EXTENDS ScrapeTasks, WorkerPool

CONSTANTS
  Electable,        \* the replicas whose isLeader flag a leadership change may set
  Producers,        \* the replicas whose cron may run the producer job
  TasksPerRequest,  \* tasksPerRequest
  BatchSize,        \* batchSize
  MaxOutages        \* bound: crashes and stop signals

ASSUME TaskConsumerAssumption ==
  /\ IsFiniteSet(Tasks)
  /\ Electable \subseteq Replicas /\ Producers \subseteq Replicas
  /\ TasksPerRequest \in Nat \ {0}
  /\ BatchSize \in Nat \ {0}
  /\ MaxOutages \in Nat

VARIABLES
  pc, flush,    \* per replica: where Run is, and which flush it is in
  isLeader,     \* per replica: the atomic flag SetLeader stores
  stopCh,       \* the replicas whose stopCh is closed
  queue,        \* per replica: claimed tasks still to be submitted
  statBatch,    \* per replica: tasks whose report is still to be saved
  statusBatch,  \* per replica: status updates still to be saved
  groupBatch,   \* per replica: tasks whose target group is still to be saved
  saves,        \* how many committed SaveReports included the task's report
  groups,       \* tasks whose target group has been saved
  dropped,      \* history: tasks whose target group only seemed to be saved
  outages,      \* crashes and stop signals so far
  lost          \* history: tasks a replica or a lost reply has forgotten

batches == <<statBatch, statusBatch, groupBatch>>
stored == <<saves, groups, dropped>>
control == <<isLeader, stopCh, outages>>
vars == <<tableVars, faults, poolVars, pc, flush, control, queue, batches, stored, lost>>

Places == {"select", "claim", "submit", "reports", "statuses", "groups", "stopping", "stopped", "down"}
Flushes == {"result", "tick", "exit"}

TypeOK ==
  /\ TableTypeOK /\ PoolTypeOK
  /\ pc \in [Replicas -> Places]
  /\ flush \in [Replicas -> Flushes]
  /\ isLeader \in [Replicas -> BOOLEAN]
  /\ stopCh \in SUBSET Replicas
  /\ queue \in [Replicas -> SUBSET Tasks]
  /\ statBatch \in [Replicas -> SUBSET Tasks]
  /\ statusBatch \in [Replicas -> SUBSET workerResult]
  /\ groupBatch \in [Replicas -> SUBSET Tasks]
  /\ saves \in [Tasks -> Nat]
  /\ groups \in SUBSET Tasks /\ dropped \in SUBSET Tasks
  /\ outages \in Nat
  /\ lost \in SUBSET Tasks

Init ==
  /\ TableInit /\ PoolInit
  /\ pc = [c \in Replicas |-> "select"]
  /\ flush = [c \in Replicas |-> "tick"]
  /\ isLeader = [c \in Replicas |-> FALSE]
  /\ stopCh = {}
  /\ queue = [c \in Replicas |-> {}]
  /\ statBatch = [c \in Replicas |-> {}]
  /\ statusBatch = [c \in Replicas |-> {}]
  /\ groupBatch = [c \in Replicas |-> {}]
  /\ saves = [t \in Tasks |-> 0]
  /\ groups = {} /\ dropped = {}
  /\ outages = 0
  /\ lost = {}

Goto(c, place) == pc' = [pc EXCEPT ![c] = place]
Alive(c) == pc[c] \notin {"stopped", "down"}

(* Everything replica c would forget if it died now. *)
InMemory(c) ==
  queue[c] \union InPool(c) \union statBatch[c] \union TasksOf(statusBatch[c]) \union groupBatch[c]

----------------------------------------------------------------------------
(* The producer job, the clock and the workers leave Run alone. *)
Produce(c) ==
  /\ c \in Producers /\ Alive(c)
  /\ (\E S \in SUBSET Fresh : Work(c, S)) \/ SaveScrapeTasks(c)
  /\ UNCHANGED <<poolVars, pc, flush, control, queue, batches, stored, lost>>

PassTime == Tick /\ UNCHANGED <<poolVars, pc, flush, control, queue, batches, stored, lost>>

WorkerStep(c) ==
  /\ Alive(c)
  /\ \/ (\E t \in processing[c] : Process(c, t)) /\ UNCHANGED lost
     \/ (\E res \in sending[c] : SendResult(c, res)) /\ UNCHANGED lost
     \/ \E res \in sending[c] : DropResult(c, res) /\ lost' = lost \union {res.task}
     \/ WorkerExit(c) /\ UNCHANGED lost
  /\ UNCHANGED <<tableVars, faults, pc, flush, control, queue, batches, stored>>

SetLeader(c, v) ==
  /\ c \in Electable /\ Alive(c) /\ isLeader[c] # v
  /\ isLeader' = [isLeader EXCEPT ![c] = v]
  /\ UNCHANGED <<tableVars, faults, poolVars, pc, flush, stopCh, outages, queue, batches, stored, lost>>

----------------------------------------------------------------------------
(* Mutant: the leader claims, and the followers wait. *)
TaskTickOfLeader(c) ==
  /\ pc[c] = "select" /\ isLeader[c]
  /\ Goto(c, "claim")
  /\ UNCHANGED <<tableVars, faults, poolVars, flush, control, queue, batches, stored, lost>>

(* case <-taskTicker.C: a leader goes back to its select. *)
TaskTick(c) ==
  /\ pc[c] = "select" /\ ~isLeader[c]
  /\ Goto(c, "claim")
  /\ UNCHANGED <<tableVars, faults, poolVars, flush, control, queue, batches, stored, lost>>

(***************************************************************************)
(* The claim commits or fails as a whole.  If it commits and the reply is  *)
(* lost, or a row does not scan, nobody knows the claimed tasks.           *)
(***************************************************************************)
GetScrapeTasks(c) ==
  /\ pc[c] = "claim"
  /\ \/ \E picked \in Claimable(TasksPerRequest) :
          /\ taskStatus' = SetStatus(picked, "running")
          /\ \/ /\ queue' = [queue EXCEPT ![c] = picked]
                /\ Goto(c, IF picked = {} THEN "select" ELSE "submit")
                /\ UNCHANGED <<faults, lost>>
             \/ /\ Fault /\ lost' = lost \union picked
                /\ Goto(c, "select")
                /\ UNCHANGED queue
     \/ Fault /\ Goto(c, "select") /\ UNCHANGED <<taskStatus, queue, lost>>
  /\ UNCHANGED <<createdAt, clock, toInsert, poolVars, flush, control, batches, stored>>

(* for _, task := range tasks { Submit }: each blocks until a worker is idle. *)
SubmitNext(c) ==
  /\ pc[c] = "submit"
  /\ \E t \in queue[c] :
       /\ Submit(c, t)
       /\ queue' = [queue EXCEPT ![c] = @ \ {t}]
       /\ Goto(c, IF queue[c] = {t} THEN "select" ELSE "submit")
  /\ UNCHANGED <<tableVars, faults, flush, control, batches, stored, lost>>

(* Mutant: a failed scrape leaves a report, too. *)
ReceiveResultWithReport(c) ==
  /\ pc[c] = "select"
  /\ \E res \in results[c] :
       /\ results' = [results EXCEPT ![c] = @ \ {res}]
       /\ statusBatch' = [statusBatch EXCEPT ![c] = @ \union {res}]
       /\ statBatch' = [statBatch EXCEPT ![c] = @ \union {res.task}]
       /\ groupBatch' = [groupBatch EXCEPT ![c] = @ \union {res.task}]
  /\ flush' = [flush EXCEPT ![c] = "result"]
  /\ Goto(c, "reports")
  /\ UNCHANGED <<tableVars, faults, processing, sending, exited, cancelled, control, queue, stored, lost>>

(* case res := <-Results(): the result goes to the batches, then a flush. *)
ReceiveResult(c) ==
  /\ pc[c] = "select"
  /\ \E res \in results[c] :
       /\ results' = [results EXCEPT ![c] = @ \ {res}]
       /\ statusBatch' = [statusBatch EXCEPT ![c] = @ \union {res}]
       /\ statBatch' = [statBatch EXCEPT ![c] = IF res.err THEN @ ELSE @ \union {res.task}]
       /\ groupBatch' = [groupBatch EXCEPT ![c] = IF res.err THEN @ ELSE @ \union {res.task}]
  /\ flush' = [flush EXCEPT ![c] = "result"]
  /\ Goto(c, "reports")
  /\ UNCHANGED <<tableVars, faults, processing, sending, exited, cancelled, control, queue, stored, lost>>

(* Mutant: the flush ticker saves the statuses and leaves the reports. *)
FlushTickWithoutReports(c) ==
  /\ pc[c] = "select" /\ statusBatch[c] # {}
  /\ flush' = [flush EXCEPT ![c] = "tick"]
  /\ Goto(c, "statuses")
  /\ UNCHANGED <<tableVars, faults, poolVars, control, queue, batches, stored, lost>>

(* case <-flushTicker.C *)
FlushTick(c) ==
  /\ pc[c] = "select"
  /\ statusBatch[c] # {} \/ statBatch[c] # {} \/ groupBatch[c] # {}
  /\ flush' = [flush EXCEPT ![c] = "tick"]
  /\ Goto(c, "reports")
  /\ UNCHANGED <<tableVars, faults, poolVars, control, queue, batches, stored, lost>>

----------------------------------------------------------------------------
(* len(batch) >= batchSize after a result, len(batch) > 0 otherwise. *)
Due(c, batch) == Cardinality(batch) >= IF flush[c] = "result" THEN BatchSize ELSE 1

(* Mutant: a batch whose save failed is dropped. *)
SaveReportsForgetful(c) ==
  /\ pc[c] = "reports" /\ Goto(c, "statuses")
  /\ statBatch' = [statBatch EXCEPT ![c] = IF Due(c, @) THEN {} ELSE @]
  /\ \/ /\ saves' = [t \in Tasks |-> IF Due(c, statBatch[c]) /\ t \in statBatch[c]
                                     THEN saves[t] + 1 ELSE saves[t]]
        /\ UNCHANGED faults
     \/ Due(c, statBatch[c]) /\ Fault /\ UNCHANGED saves
  /\ UNCHANGED <<tableVars, poolVars, flush, control, queue, statusBatch, groupBatch, groups, dropped, lost>>

(* Mutant: a batch that has been saved is kept. *)
SaveReportsKeepingBatch(c) ==
  /\ pc[c] = "reports" /\ Goto(c, "statuses")
  /\ saves' = [t \in Tasks |-> IF Due(c, statBatch[c]) /\ t \in statBatch[c] THEN saves[t] + 1 ELSE saves[t]]
  /\ UNCHANGED <<tableVars, faults, poolVars, flush, control, queue, batches, groups, dropped, lost>>

(* One transaction: reports and outbox events of the whole batch, or nothing. *)
SaveReports(c) ==
  /\ pc[c] = "reports" /\ Goto(c, "statuses")
  /\ LET saved == [t \in Tasks |-> IF t \in statBatch[c] THEN saves[t] + 1 ELSE saves[t]]
     IN  \/ /\ ~Due(c, statBatch[c])
            /\ UNCHANGED <<saves, statBatch, faults>>
         \/ /\ Due(c, statBatch[c])
            /\ saves' = saved /\ statBatch' = [statBatch EXCEPT ![c] = {}]
            /\ UNCHANGED faults
         \/ /\ Due(c, statBatch[c]) /\ Fault
            /\ saves' \in {saves, saved}
            /\ UNCHANGED statBatch
  /\ UNCHANGED <<tableVars, poolVars, flush, control, queue, statusBatch, groupBatch, groups, dropped, lost>>

UpdateTaskStatuses(c) ==
  /\ pc[c] = "statuses" /\ Goto(c, "groups")
  /\ \/ /\ ~Due(c, statusBatch[c])
        /\ UNCHANGED <<taskStatus, statusBatch, faults>>
     \/ /\ Due(c, statusBatch[c])
        /\ taskStatus' = WithStatuses(statusBatch[c])
        /\ statusBatch' = [statusBatch EXCEPT ![c] = {}]
        /\ UNCHANGED faults
     \/ /\ Due(c, statusBatch[c]) /\ Fault
        /\ taskStatus' \in {taskStatus, WithStatuses(statusBatch[c])}
        /\ UNCHANGED statusBatch
  /\ UNCHANGED <<createdAt, clock, toInsert, poolVars, flush, control, queue, statBatch, groupBatch,
                 stored, lost>>

(* The rows are sent in chunks of RowsPerBatch; these are some of the chunks. *)
WholeChunks(part, batch) ==
  Cardinality(part) % RowsPerBatch = 0 \/ Cardinality(batch \ part) % RowsPerBatch = 0

(***************************************************************************)
(* Each chunk is a sendBatch: the first one that returns an error ends the *)
(* call, and the batch is kept; a chunk that is not committed although     *)
(* sendBatch returned nil is dropped with the batch.                       *)
(***************************************************************************)
SaveOrUpdateTargetGroups(c) ==
  /\ pc[c] = "groups"
  /\ \/ /\ ~Due(c, groupBatch[c])
        /\ UNCHANGED <<groups, dropped, groupBatch, faults>>
     \/ /\ Due(c, groupBatch[c])
        /\ \E part \in SUBSET groupBatch[c], err \in BOOLEAN :
             /\ WholeChunks(part, groupBatch[c])
             /\ sendBatch(err, part = groupBatch[c])
             /\ groups' = groups \union part
             /\ dropped' = IF err THEN dropped ELSE dropped \union (groupBatch[c] \ part)
             /\ groupBatch' = IF err THEN groupBatch ELSE [groupBatch EXCEPT ![c] = {}]
  /\ IF flush[c] = "exit" THEN Goto(c, "stopped") ELSE Goto(c, "select")
  /\ UNCHANGED <<tableVars, poolVars, flush, control, queue, statBatch, statusBatch, saves, lost>>

----------------------------------------------------------------------------
Outage == outages < MaxOutages /\ outages' = outages + 1

(* Stop closes stopCh and returns; Run sees it at its next select. *)
Stop(c) ==
  /\ Alive(c) /\ c \notin stopCh /\ Outage
  /\ stopCh' = stopCh \union {c}
  /\ UNCHANGED <<tableVars, faults, poolVars, pc, flush, isLeader, queue, batches, stored, lost>>

(* case <-c.stopCh: workerPool.Stop() cancels the pool and waits for it. *)
StopSignal(c) ==
  /\ pc[c] = "select" /\ c \in stopCh
  /\ Cancel(c) /\ Goto(c, "stopping")
  /\ UNCHANGED <<tableVars, faults, flush, control, queue, batches, stored, lost>>

(* wg.Wait returns: the deferred flush runs, buffered results are not read. *)
PoolStopped(c) ==
  /\ pc[c] = "stopping" /\ Joined(c)
  /\ flush' = [flush EXCEPT ![c] = "exit"]
  /\ Goto(c, "reports")
  /\ UNCHANGED <<tableVars, faults, poolVars, control, queue, batches, stored, lost>>

(* What the replica held in memory and did not save is gone. *)
Forget(c) ==
  /\ lost' = lost \union InMemory(c)
  /\ ResetPool(c)
  /\ queue' = [queue EXCEPT ![c] = {}]
  /\ statBatch' = [statBatch EXCEPT ![c] = {}]
  /\ statusBatch' = [statusBatch EXCEPT ![c] = {}]
  /\ groupBatch' = [groupBatch EXCEPT ![c] = {}]
  /\ toInsert' = [toInsert EXCEPT ![c] = {}]
  /\ isLeader' = [isLeader EXCEPT ![c] = FALSE]
  /\ stopCh' = stopCh \ {c}

(* The process dies, or exits before the deferred flush is through. *)
Crash(c) ==
  /\ Alive(c) /\ Outage
  /\ Goto(c, "down") /\ Forget(c)
  /\ UNCHANGED <<taskStatus, createdAt, clock, faults, flush, stored>>

(* restart: unless-stopped *)
Restart(c) ==
  /\ ~Alive(c)
  /\ Goto(c, "select") /\ Forget(c)
  /\ UNCHANGED <<taskStatus, createdAt, clock, faults, flush, outages, stored>>

RunStep(c) ==
  \/ GetScrapeTasks(c) \/ SubmitNext(c)
  \/ SaveReports(c) \/ UpdateTaskStatuses(c) \/ SaveOrUpdateTargetGroups(c)
  \/ PoolStopped(c)

Next ==
  \/ PassTime
  \/ \E c \in Replicas :
       \/ Produce(c) \/ WorkerStep(c) \/ RunStep(c)
       \/ TaskTick(c) \/ ReceiveResult(c) \/ FlushTick(c) \/ StopSignal(c)
       \/ Stop(c) \/ Crash(c) \/ Restart(c)
       \/ \E v \in BOOLEAN : SetLeader(c, v)

Spec == Init /\ [][Next]_vars

(***************************************************************************)
(* Fairness.  Calls return and workers run (weak fairness).  Go's select   *)
(* chooses at random among the cases that are ready, so a case that is     *)
(* ready again and again is taken in the end (strong fairness).  Docker    *)
(* restarts a replica that exits.                                          *)
(***************************************************************************)
Fairness ==
  \A c \in Replicas :
    /\ WF_vars(RunStep(c)) /\ WF_vars(WorkerStep(c)) /\ WF_vars(Restart(c))
    /\ SF_vars(TaskTick(c)) /\ SF_vars(ReceiveResult(c))
    /\ SF_vars(FlushTick(c)) /\ SF_vars(StopSignal(c))

FairSpec == Spec /\ Fairness

----------------------------------------------------------------------------
(* The claimed tasks of replica c whose status it has not written yet. *)
InHand(c) == queue[c] \union InPool(c) \union TasksOf(statusBatch[c])

(***************************************************************************)
(* A task is worked on once: no two replicas have it in hand, and within a *)
(* replica it is at one place, from GetScrapeTasks to UpdateTaskStatuses.  *)
(***************************************************************************)
ClaimExclusive ==
  /\ \A c, d \in Replicas : c # d => InHand(c) \intersect InHand(d) = {}
  /\ \A c \in Replicas :
       /\ queue[c] \intersect (InPool(c) \union TasksOf(statusBatch[c])) = {}
       /\ processing[c] \intersect
            (TasksOf(sending[c]) \union TasksOf(results[c]) \union TasksOf(statusBatch[c])) = {}
       /\ sending[c] \intersect (results[c] \union statusBatch[c]) = {}
       /\ results[c] \intersect statusBatch[c] = {}
       /\ \A r, s \in sending[c] \union results[c] \union statusBatch[c] : r.task = s.task => r = s

(***************************************************************************)
(* A row in "running" is in somebody's hands, or a crash, a shutdown or a  *)
(* lost reply has orphaned it; nothing else in the loop loses a task.      *)
(***************************************************************************)
RunningIsAccounted ==
  \A t \in Tasks :
    taskStatus[t] = "running" => t \in lost \/ \E c \in Replicas : t \in InHand(c)

(***************************************************************************)
(* A row in "complete" has its report and its target group saved, or still *)
(* in the batches of a replica, unless that replica is gone: a failed save *)
(* followed by the successful one of the statuses loses neither.  The one  *)
(* exception is a target group whose sendBatch failed at its end, of which *)
(* SaveOrUpdateTargetGroups is not told.                                   *)
(***************************************************************************)
CompleteIsAccounted ==
  \A t \in Tasks :
    taskStatus[t] = "complete" =>
      \/ t \in lost
      \/ /\ saves[t] > 0 \/ \E c \in Replicas : t \in statBatch[c]
         /\ t \in groups \union dropped \/ \E c \in Replicas : t \in groupBatch[c]

(***************************************************************************)
(* "complete" is written after the report, so that a crash at any point    *)
(* leaves no complete task without its report, with two exceptions only: a *)
(* storage call has failed, or a scrape has (failed tasks count for the    *)
(* status batch of Run and not for the report batch, so that the former    *)
(* may be full, and saved, before the latter).                             *)
(***************************************************************************)
ReportBeforeStatus ==
  faults = 0 /\ (\A t \in Tasks : taskStatus[t] \notin {"error", "deleted"}) =>
    \A t \in Tasks : taskStatus[t] = "complete" => saves[t] > 0

(***************************************************************************)
(* A report, with its outbox events, is committed once, and once more for  *)
(* each storage call that reported an error after its commit.              *)
(***************************************************************************)
SavesBounded == \A t \in Tasks : saves[t] <= 1 + faults

Lifecycle ==
  {<<"absent", "pending">>, <<"pending", "running">>, <<"running", "complete">>, <<"running", "error">>}
    \union ({"running", "complete", "error"} \X {"deleted"})

(***************************************************************************)
(* A row only moves forward: no stale claim, no second verdict and no      *)
(* retried batch takes back a status, and the cleanup leaves rows nobody   *)
(* has claimed.                                                            *)
(***************************************************************************)
StatusLifecycle ==
  [][\A t \in Tasks : taskStatus'[t] # taskStatus[t] => <<taskStatus[t], taskStatus'[t]>> \in Lifecycle]_vars

(***************************************************************************)
(* The loop by itself loses nothing: without a crash, a stop signal or a   *)
(* storage call that reports an error, every claimed task is in somebody's *)
(* hands until its report and its status are saved (the send of worker,    *)
(* which waits for a full results channel as long as the pool runs).       *)
(***************************************************************************)
LossHasCause == lost # {} => outages > 0 \/ faults > 0

Once == INSTANCE ScrapeOnce WITH status <- taskStatus

(***************************************************************************)
(* The pipeline implements one scrape per task: a task is claimed once and *)
(* gets one verdict, nothing is stored of a task that failed or was not    *)
(* claimed, and no verdict contradicts what is stored, in spite of failed  *)
(* and repeated saves, crashes and the cleanup (ReceiveResult and the      *)
(* three saves of a flush).                                                *)
(***************************************************************************)
ImplementsScrapeOnce == Once!Spec

(***************************************************************************)
(* Run is blocked in Submit for good: every worker waits for a target that *)
(* never answers, or to send its result to a channel that is full.         *)
(***************************************************************************)
SubmitBlocked(c) ==
  /\ pc[c] = "submit" /\ ~HasIdleWorker(c)
  /\ processing[c] \subseteq Silent
  /\ sending[c] = {} \/ Cardinality(results[c]) = Workers

(***************************************************************************)
(* Every inserted task whose target answers gets a verdict or is forgotten *)
(* by a crash, a shutdown or a lost reply.  Two things only are in its     *)
(* way: a replica that has it and is blocked in Submit, and that again and *)
(* again every replica is blocked or a leader, which does not claim        *)
(* (taskTicker case of Run).                                               *)
(***************************************************************************)
EveryTaskSettles ==
  \A t \in Tasks \ Silent :
    \/ taskStatus[t] = "pending" ~>
         \/ taskStatus[t] \in {"complete", "error", "deleted"} \/ t \in lost
         \/ \E c \in Replicas : SubmitBlocked(c) /\ t \in InHand(c)
    \/ []<>(\A c \in Replicas : isLeader[c] \/ SubmitBlocked(c))

(***************************************************************************)
(* A replica told to stop drains its pool, flushes and is gone, even if a  *)
(* target never answers one of its workers (Stop cancels the context that  *)
(* GetTargetMetrics passes to the HTTP client), unless it is blocked in    *)
(* Submit, where it does not see its stop channel.                         *)
(***************************************************************************)
StopCompletes == \A c \in Replicas : c \in stopCh ~> (c \notin stopCh \/ SubmitBlocked(c))

(***************************************************************************)
(* A submitted task comes back as a result: the consumer does not block    *)
(* for ever in Submit.                                                     *)
(***************************************************************************)
SubmitReturns == \A c \in Replicas : pc[c] = "submit" ~> pc[c] # "submit"
=============================================================================
