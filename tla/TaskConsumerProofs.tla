------------------------- MODULE TaskConsumerProofs -------------------------
(***************************************************************************)
(* Proofs about the scrape pipeline for every set of tasks and replicas,   *)
(* every pool and batch size and every value of the bounds.                *)
(***************************************************************************)
EXTENDS TaskConsumer, FiniteSetTheorems, TLAPS

(* The state components have their types: statuses, batches and counters. *)
THEOREM TypeCorrect == Spec => []TypeOK
<1> USE DEF TypeOK, TableTypeOK, PoolTypeOK
<1>1. Init => TypeOK
  BY DEF Init, TableInit, PoolInit, TaskStatuses, Places, Flushes
<1>2. TypeOK /\ [Next]_vars => TypeOK'
  <2> SUFFICES ASSUME TypeOK, [Next]_vars PROVE TypeOK'
    OBVIOUS
  <2> USE DEF TaskStatuses, Places, Flushes, tableVars, poolVars, batches, stored, control, Goto
  <2>1. CASE PassTime
    BY <2>1 DEF PassTime, Tick
  <2>2. ASSUME NEW c \in Replicas, Produce(c) PROVE TypeOK'
    <3>1. CASE \E S \in SUBSET Fresh : Work(c, S)
      BY <2>2, <3>1 DEF Produce, Work, Fresh, SetStatus, Fault
    <3>2. CASE SaveScrapeTasks(c)
      <4>1. taskStatus' \in [Tasks -> TaskStatuses]
        BY <3>2 DEF SaveScrapeTasks, SetStatus
      <4>2. toInsert' \in [Replicas -> SUBSET Tasks]
        BY <3>2 DEF SaveScrapeTasks
      <4>3. faults' \in Nat /\ UNCHANGED <<createdAt, clock>>
        BY <3>2 DEF SaveScrapeTasks, sendBatch, Fault
      <4> QED BY <2>2, <4>1, <4>2, <4>3 DEF Produce
    <3>3. QED
      BY <2>2, <3>1, <3>2 DEF Produce
  <2>3. ASSUME NEW c \in Replicas, WorkerStep(c) PROVE TypeOK'
    <3>1. ASSUME NEW t \in processing[c], Process(c, t), UNCHANGED lost PROVE TypeOK'
      BY <2>3, <3>1 DEF WorkerStep, Process, workerResult
    <3>2. ASSUME NEW res \in sending[c], SendResult(c, res), UNCHANGED lost PROVE TypeOK'
      BY <2>3, <3>2 DEF WorkerStep, SendResult
    <3>3. ASSUME NEW res \in sending[c], DropResult(c, res), lost' = lost \union {res.task} PROVE TypeOK'
      BY <2>3, <3>3 DEF WorkerStep, DropResult, workerResult
    <3>4. CASE WorkerExit(c) /\ UNCHANGED lost
      BY <2>3, <3>4 DEF WorkerStep, WorkerExit
    <3>5. QED
      BY <2>3, <3>1, <3>2, <3>3, <3>4 DEF WorkerStep
  <2>4. ASSUME NEW c \in Replicas, GetScrapeTasks(c) PROVE TypeOK'
    <3>1. \A picked \in Claimable(TasksPerRequest) : picked \subseteq Tasks
      BY DEF Claimable, OldestFirst
    <3>2. QED
      BY <2>4, <3>1 DEF GetScrapeTasks, SetStatus, Fault
  <2>5. ASSUME NEW c \in Replicas, SubmitNext(c) PROVE TypeOK'
    BY <2>5 DEF SubmitNext, Submit
  <2>6. ASSUME NEW c \in Replicas, SaveReports(c) PROVE TypeOK'
    BY <2>6 DEF SaveReports, Fault
  <2>7. ASSUME NEW c \in Replicas, UpdateTaskStatuses(c) PROVE TypeOK'
    <3>1. WithStatuses(statusBatch[c]) \in [Tasks -> TaskStatuses]
      BY DEF WithStatuses
    <3>2. QED
      BY <2>7, <3>1 DEF UpdateTaskStatuses, Fault
  <2>8. ASSUME NEW c \in Replicas, SaveOrUpdateTargetGroups(c) PROVE TypeOK'
    <3>1. groups' \in SUBSET Tasks /\ dropped' \in SUBSET Tasks
      BY <2>8 DEF SaveOrUpdateTargetGroups
    <3>2. groupBatch' \in [Replicas -> SUBSET Tasks] /\ faults' \in Nat
      BY <2>8 DEF SaveOrUpdateTargetGroups, sendBatch, Fault
    <3>3. pc' \in [Replicas -> Places]
      BY <2>8 DEF SaveOrUpdateTargetGroups
    <3>4. UNCHANGED <<tableVars, poolVars, flush, control, queue, statBatch, statusBatch, saves, lost>>
      BY <2>8 DEF SaveOrUpdateTargetGroups
    <3>5. QED
      BY <3>1, <3>2, <3>3, <3>4
  <2>9. ASSUME NEW c \in Replicas, PoolStopped(c) \/ TaskTick(c) \/ FlushTick(c) \/ StopSignal(c) \/ Stop(c)
        PROVE TypeOK'
    BY <2>9 DEF PoolStopped, TaskTick, FlushTick, StopSignal, Stop, Cancel, Outage
  <2>10. ASSUME NEW c \in Replicas, ReceiveResult(c) PROVE TypeOK'
    BY <2>10 DEF ReceiveResult, workerResult
  <2>11. ASSUME NEW c \in Replicas, Crash(c) \/ Restart(c) PROVE TypeOK'
    <3>1. InMemory(c) \subseteq Tasks
      BY DEF InMemory, InPool, TasksOf, workerResult
    <3>2. Forget(c)
      BY <2>11 DEF Crash, Restart
    <3>3. PoolTypeOK'
      BY <3>2 DEF Forget, ResetPool
    <3>4. /\ queue' \in [Replicas -> SUBSET Tasks] /\ statBatch' \in [Replicas -> SUBSET Tasks]
          /\ statusBatch' \in [Replicas -> SUBSET workerResult]
          /\ groupBatch' \in [Replicas -> SUBSET Tasks] /\ toInsert' \in [Replicas -> SUBSET Tasks]
          /\ isLeader' \in [Replicas -> BOOLEAN] /\ stopCh' \in SUBSET Replicas /\ lost' \in SUBSET Tasks
      BY <3>1, <3>2 DEF Forget
    <3>5. /\ pc' \in [Replicas -> Places] /\ flush' = flush /\ outages' \in Nat
          /\ UNCHANGED <<taskStatus, createdAt, clock, faults, saves, groups, dropped>>
      BY <2>11 DEF Crash, Restart, Outage
    <3>6. QED
      BY <3>3, <3>4, <3>5
  <2>12. ASSUME NEW c \in Replicas, NEW v \in BOOLEAN, SetLeader(c, v) PROVE TypeOK'
    BY <2>12 DEF SetLeader
  <2>13. CASE UNCHANGED vars
    BY <2>13 DEF vars
  <2>14. QED
    BY <2>1, <2>2, <2>3, <2>4, <2>5, <2>6, <2>7, <2>8, <2>9, <2>10, <2>11, <2>12, <2>13 DEF Next, RunStep
<1>3. QED
  BY <1>1, <1>2, PTL DEF Spec
----------------------------------------------------------------------------
(***************************************************************************)
(* The inductive invariant.  It follows a task from the producer to the    *)
(* batches: before the claim nobody holds it; from the claim to the saved  *)
(* status it is at one place of one replica, unscraped until the consumer  *)
(* has read its result; from then on its report and its target group are   *)
(* in the batches of that replica or saved.                                *)
(***************************************************************************)
Raw(c) == queue[c] \union processing[c]
Scraped(c) == sending[c] \union results[c]
Verdicts(c) == Scraped(c) \union statusBatch[c]
VerdictStatus(res) == IF res.err THEN "error" ELSE "complete"

Unscraped(t) == saves[t] = 0 /\ \A d \in Replicas : t \notin statBatch[d]

InsertInv ==
  /\ \A c \in Replicas : \A t \in toInsert[c] : taskStatus[t] = "absent"
  /\ \A c, d \in Replicas : \A t \in toInsert[c] : t \in toInsert[d] => c = d

PlaceInv ==
  /\ \A c, d \in Replicas : \A t \in Raw(c) : t \in Raw(d) => c = d
  /\ \A c \in Replicas : \A t \in queue[c] : t \notin processing[c]
  /\ \A c, d \in Replicas : \A t \in Raw(c) : \A r \in Verdicts(d) : r.task # t
  /\ \A c, d \in Replicas : \A r \in Verdicts(c) : \A s \in Verdicts(d) : r.task = s.task => c = d /\ r = s
  /\ \A c \in Replicas : \A r \in sending[c] : r \notin results[c]
  /\ \A c \in Replicas : \A r \in Scraped(c) : r \notin statusBatch[c]

WorkInv ==
  /\ \A t \in Tasks : taskStatus[t] \in {"absent", "pending"} => Unscraped(t)
  /\ \A c \in Replicas : \A t \in Raw(c) : taskStatus[t] \in {"running", "deleted"} /\ Unscraped(t)
  /\ \A c \in Replicas : \A r \in Scraped(c) :
       taskStatus[r.task] \in {"running", "deleted"} /\ Unscraped(r.task)
  /\ \A c \in Replicas : \A r \in statusBatch[c] :
       taskStatus[r.task] \in {"running", "deleted", VerdictStatus(r)}

RunningInv ==
  \A t \in Tasks : taskStatus[t] = "running" =>
    t \in lost \/ \E c \in Replicas : t \in Raw(c) \/ \E r \in Verdicts(c) : r.task = t

CompleteInv ==
  /\ \A c \in Replicas : \A r \in statusBatch[c] : ~r.err =>
       \/ r.task \in lost
       \/ /\ saves[r.task] > 0 \/ r.task \in statBatch[c]
          /\ r.task \in groups \union dropped \/ r.task \in groupBatch[c]
  /\ CompleteIsAccounted

SavesInv ==
  /\ SavesBounded
  /\ \A c \in Replicas : \A t \in statBatch[c] : saves[t] <= faults
  /\ \A c, d \in Replicas : \A t \in statBatch[c] : t \in statBatch[d] => c = d

PipelineInv == InsertInv /\ PlaceInv /\ WorkInv /\ RunningInv /\ CompleteInv /\ SavesInv
(* What the invariant is about. *)
core == <<taskStatus, toInsert, faults, queue, processing, sending, results, batches, stored, lost>>

(* Ticks, timers, leadership and the stop signal move no task. *)
LEMMA CoreUnchanged == PipelineInv /\ UNCHANGED core => PipelineInv'
BY DEF PipelineInv, InsertInv, PlaceInv, WorkInv, RunningInv, CompleteInv, SavesInv, Raw, Scraped,
       Verdicts, VerdictStatus, Unscraped, CompleteIsAccounted, SavesBounded, core, batches, stored

(* The cleanup deletes rows that were claimed; the new tasks are held by nobody else. *)
LEMMA WorkKeeps ==
  ASSUME TypeOK, PipelineInv, NEW c \in Replicas, NEW S \in SUBSET Fresh, Work(c, S),
         UNCHANGED <<poolVars, queue, batches, stored, lost>>
  PROVE  PipelineInv'
<1> USE DEF poolVars, batches, stored
<1>1. /\ taskStatus' = SetStatus(CleanedUp, "deleted") \/ taskStatus' = taskStatus
      /\ toInsert' = [toInsert EXCEPT ![c] = S] \/ toInsert' = toInsert
      /\ faults' \in {faults, faults + 1}
      /\ toInsert[c] = {}
  BY DEF Work, Fault, TypeOK, TableTypeOK
<1>2. \A t \in Tasks :
        \/ taskStatus'[t] = taskStatus[t]
        \/ taskStatus'[t] = "deleted" /\ taskStatus[t] \notin {"absent", "pending"}
  BY <1>1 DEF SetStatus, CleanedUp, TypeOK, TableTypeOK
<1>3. InsertInv'
  <2>1. \A t \in S : taskStatus'[t] = "absent" /\ \A d \in Replicas : t \notin toInsert[d]
    BY <1>2 DEF Fresh
  <2>2. \A d \in Replicas : toInsert[d] \subseteq Tasks
    BY DEF TypeOK, TableTypeOK
  <2>3. QED
    BY <1>1, <1>2, <2>1, <2>2 DEF PipelineInv, InsertInv, TypeOK, TableTypeOK
<1>4. PlaceInv'
  BY DEF PipelineInv, PlaceInv, Raw, Scraped, Verdicts
<1>5. WorkInv'
  BY <1>2 DEF PipelineInv, WorkInv, Raw, Scraped, VerdictStatus, Unscraped, TypeOK, TableTypeOK,
              PoolTypeOK, workerResult
<1>6. RunningInv'
  BY <1>2 DEF PipelineInv, RunningInv, Raw, Scraped, Verdicts
<1>7. CompleteInv'
  BY <1>2 DEF PipelineInv, CompleteInv, CompleteIsAccounted
<1>8. SavesInv'
  BY <1>1 DEF PipelineInv, SavesInv, SavesBounded, TypeOK, TableTypeOK
<1>9. QED
  BY <1>3, <1>4, <1>5, <1>6, <1>7, <1>8 DEF PipelineInv

(* An insert opens rows that only this call was going to insert. *)
LEMMA InsertKeeps ==
  ASSUME TypeOK, PipelineInv, NEW c \in Replicas, SaveScrapeTasks(c),
         UNCHANGED <<poolVars, queue, batches, stored, lost>>
  PROVE  PipelineInv'
<1> USE DEF poolVars, batches, stored
<1>1. PICK chunk \in SUBSET toInsert[c] :
        /\ taskStatus' = taskStatus \/ taskStatus' = SetStatus(chunk, "pending")
        /\ \/ toInsert' = [toInsert EXCEPT ![c] = @ \ chunk]
           \/ toInsert' = [toInsert EXCEPT ![c] = {}]
        /\ faults' \in {faults, faults + 1}
  BY DEF SaveScrapeTasks, sendBatch, Fault, TypeOK, TableTypeOK
<1>2. \A t \in Tasks :
        \/ taskStatus'[t] = taskStatus[t]
        \/ t \in chunk /\ taskStatus'[t] = "pending" /\ taskStatus[t] = "absent"
  BY <1>1 DEF SetStatus, PipelineInv, InsertInv, TypeOK, TableTypeOK
<1>3. InsertInv'
  <2>1. \A d \in Replicas : \A t \in toInsert'[d] : t \in toInsert[d] /\ t \notin chunk
    BY <1>1 DEF PipelineInv, InsertInv, TypeOK, TableTypeOK
  <2>2. \A d \in Replicas : toInsert[d] \subseteq Tasks
    BY DEF TypeOK, TableTypeOK
  <2>3. QED
    BY <1>2, <2>1, <2>2 DEF PipelineInv, InsertInv
<1>4. PlaceInv'
  BY DEF PipelineInv, PlaceInv, Raw, Scraped, Verdicts
<1>5. WorkInv'
  BY <1>2 DEF PipelineInv, WorkInv, Raw, Scraped, VerdictStatus, Unscraped, TypeOK, TableTypeOK,
              PoolTypeOK, workerResult
<1>6. RunningInv'
  BY <1>2 DEF PipelineInv, RunningInv, Raw, Scraped, Verdicts
<1>7. CompleteInv'
  BY <1>2 DEF PipelineInv, CompleteInv, CompleteIsAccounted
<1>8. SavesInv'
  BY <1>1 DEF PipelineInv, SavesInv, SavesBounded, TypeOK, TableTypeOK
<1>9. QED
  BY <1>3, <1>4, <1>5, <1>6, <1>7, <1>8 DEF PipelineInv

(* A claim takes pending rows, which nobody holds. *)
LEMMA ClaimKeeps ==
  ASSUME TypeOK, PipelineInv, NEW c \in Replicas, GetScrapeTasks(c), queue[c] = {}
  PROVE  PipelineInv'
<1>1. /\ UNCHANGED <<toInsert, processing, sending, results, statBatch, statusBatch, groupBatch, saves,
                     groups, dropped>>
      /\ faults' \in {faults, faults + 1}
  BY DEF GetScrapeTasks, Fault, poolVars, batches, stored, TypeOK, TableTypeOK
<1>2. PICK picked \in SUBSET Tasks :
        /\ \A t \in picked : taskStatus[t] = "pending"
        /\ taskStatus' = SetStatus(picked, "running")
        /\ \/ queue' = [queue EXCEPT ![c] = picked] /\ lost' = lost
           \/ queue' = queue /\ lost' = lost \union picked
  <2>1. ASSUME NEW picked \in Claimable(TasksPerRequest)
        PROVE  picked \in SUBSET Tasks /\ \A t \in picked : taskStatus[t] = "pending"
    BY DEF Claimable, OldestFirst
  <2>2. SetStatus({}, "running") = taskStatus
    BY DEF SetStatus, TypeOK, TableTypeOK
  <2>3. CASE UNCHANGED <<taskStatus, queue, lost>>
    BY <2>2, <2>3
  <2>4. CASE ~UNCHANGED <<taskStatus, queue, lost>>
    BY <2>1, <2>4 DEF GetScrapeTasks
  <2>5. QED
    BY <2>3, <2>4
<1>3. \A t \in Tasks : taskStatus'[t] = IF t \in picked THEN "running" ELSE taskStatus[t]
  BY <1>2 DEF SetStatus
<1>4. \A d \in Replicas : queue'[d] = queue[d] \/ (d = c /\ queue'[d] = picked)
  BY <1>2 DEF TypeOK
<1>5. \A t \in picked : /\ \A d \in Replicas : t \notin Raw(d) /\ t \notin statBatch[d]
                        /\ \A d \in Replicas : \A r \in Verdicts(d) : r.task # t
                        /\ saves[t] = 0
  BY <1>2 DEF PipelineInv, WorkInv, Unscraped, Verdicts, Scraped, VerdictStatus
<1>6. InsertInv'
  BY <1>1, <1>2, <1>3 DEF PipelineInv, InsertInv, TypeOK, TableTypeOK
<1>7. PlaceInv'
  BY <1>1, <1>4, <1>5 DEF PipelineInv, PlaceInv, Raw, Scraped, Verdicts
<1>8. WorkInv'
  BY <1>1, <1>2, <1>3, <1>4, <1>5 DEF PipelineInv, WorkInv, Raw, Scraped, Verdicts, VerdictStatus, Unscraped,
              TypeOK, TableTypeOK, PoolTypeOK, workerResult
<1>9. RunningInv'
  BY <1>1, <1>2, <1>3, <1>4 DEF PipelineInv, RunningInv, Raw, Scraped, Verdicts, TypeOK
<1>10. CompleteInv'
  BY <1>1, <1>2, <1>3 DEF PipelineInv, CompleteInv, CompleteIsAccounted
<1>11. SavesInv'
  BY <1>1 DEF PipelineInv, SavesInv, SavesBounded, TypeOK, TableTypeOK
<1>12. QED
  BY <1>6, <1>7, <1>8, <1>9, <1>10, <1>11 DEF PipelineInv
(* A submit moves a task from the queue to a worker of the same replica. *)
LEMMA SubmitKeeps ==
  ASSUME TypeOK, PipelineInv, NEW c \in Replicas, SubmitNext(c)
  PROVE  PipelineInv'
<1>1. PICK m \in queue[c] :
        /\ queue' = [queue EXCEPT ![c] = @ \ {m}]
        /\ processing' = [processing EXCEPT ![c] = @ \union {m}]
        /\ UNCHANGED <<taskStatus, toInsert, faults, sending, results, batches, stored, lost>>
  BY DEF SubmitNext, Submit, tableVars
<1>2. \A d \in Replicas : /\ queue'[d] \subseteq queue[d]
                          /\ Raw(d)' = Raw(d) /\ Scraped(d)' = Scraped(d) /\ Verdicts(d)' = Verdicts(d)
  BY <1>1 DEF Raw, Scraped, Verdicts, TypeOK, PoolTypeOK, batches
<1>3. InsertInv' /\ CompleteInv' /\ SavesInv'
  BY <1>1 DEF PipelineInv, InsertInv, CompleteInv, CompleteIsAccounted, SavesInv, SavesBounded, batches, stored
<1>4. PlaceInv'
  <2>1. \A d \in Replicas : \A t \in queue'[d] : t \notin processing'[d]
    BY <1>1 DEF PipelineInv, PlaceInv, TypeOK, PoolTypeOK
  <2>2. QED
    BY <1>1, <1>2, <2>1 DEF PipelineInv, PlaceInv, batches
<1>5. WorkInv'
  BY <1>1, <1>2 DEF PipelineInv, WorkInv, Unscraped, VerdictStatus, batches, stored
<1>6. RunningInv'
  BY <1>1, <1>2 DEF PipelineInv, RunningInv
<1>7. QED
  BY <1>3, <1>4, <1>5, <1>6 DEF PipelineInv

(* A scrape turns a raw task into the verdict the worker is about to send. *)
LEMMA ProcessKeeps ==
  ASSUME TypeOK, PipelineInv, NEW c \in Replicas, NEW m \in processing[c], Process(c, m),
         UNCHANGED <<taskStatus, toInsert, faults, queue, batches, stored, lost>>
  PROVE  PipelineInv'
<1>1. PICK new \in workerResult :
        /\ new.task = m
        /\ processing' = [processing EXCEPT ![c] = @ \ {m}]
        /\ sending' = [sending EXCEPT ![c] = @ \union {new}]
        /\ results' = results
  <2>1. PICK err \in BOOLEAN :
          /\ processing' = [processing EXCEPT ![c] = @ \ {m}]
          /\ sending' = [sending EXCEPT ![c] = @ \union {[task |-> m, err |-> err]}]
          /\ results' = results
    BY DEF Process
  <2>2. [task |-> m, err |-> err] \in workerResult
    BY DEF workerResult, TypeOK, PoolTypeOK
  <2>3. QED
    BY <2>1, <2>2
<1>2. \A d \in Replicas :
        /\ processing'[d] = IF d = c THEN processing[d] \ {m} ELSE processing[d]
        /\ sending'[d] = IF d = c THEN sending[d] \union {new} ELSE sending[d]
  BY <1>1 DEF TypeOK, PoolTypeOK
<1>3. /\ m \in Raw(c)
      /\ \A d \in Replicas : \A t : t \in Raw(d)' <=> t \in Raw(d) /\ ~(d = c /\ t = m)
      /\ \A d \in Replicas : \A r : r \in Scraped(d)' <=> r \in Scraped(d) \/ (d = c /\ r = new)
      /\ \A d \in Replicas : \A r : r \in Verdicts(d)' <=> r \in Verdicts(d) \/ (d = c /\ r = new)
  <2>1. m \notin queue[c] /\ \A d \in Replicas : queue'[d] = queue[d]
    BY DEF PipelineInv, PlaceInv
  <2>2. \A d \in Replicas : \A t : t \in Raw(d)' <=> t \in Raw(d) /\ ~(d = c /\ t = m)
    BY <1>2, <2>1 DEF Raw
  <2>3. \A d \in Replicas : \A r : r \in Scraped(d)' <=> r \in Scraped(d) \/ (d = c /\ r = new)
    BY <1>1, <1>2 DEF Scraped
  <2>4. \A d \in Replicas : \A r : r \in Verdicts(d)' <=> r \in Verdicts(d) \/ (d = c /\ r = new)
    BY <2>3 DEF Verdicts, batches
  <2>5. QED
    BY <2>2, <2>3, <2>4 DEF Raw
<1>4. InsertInv' /\ CompleteInv' /\ SavesInv'
  BY <1>1 DEF PipelineInv, InsertInv, CompleteInv, CompleteIsAccounted, SavesInv, SavesBounded, batches, stored
<1>5. PlaceInv'
  <2>1. \A d \in Replicas : \A r \in Verdicts(d) : r # new
    BY <1>1, <1>3 DEF PipelineInv, PlaceInv
  <2>2. \A d \in Replicas : \A t \in queue'[d] : t \notin processing'[d]
    BY <1>2 DEF PipelineInv, PlaceInv
  <2>3. \A d \in Replicas : \A r \in sending'[d] : r \notin results'[d]
    BY <1>1, <1>2, <2>1 DEF PipelineInv, PlaceInv, Verdicts, Scraped
  <2>4. \A d \in Replicas : \A r \in Scraped(d)' : r \notin statusBatch'[d]
    BY <1>3, <2>1 DEF PipelineInv, PlaceInv, Verdicts, batches
  <2>5. \A d, e \in Replicas : \A t \in Raw(d)' : \A r \in Verdicts(e)' : r.task # t
    BY <1>1, <1>3 DEF PipelineInv, PlaceInv
  <2>6. \A d, e \in Replicas : \A r \in Verdicts(d)' : \A s \in Verdicts(e)' :
          r.task = s.task => d = e /\ r = s
    BY <1>1, <1>3 DEF PipelineInv, PlaceInv
  <2>7. \A d, e \in Replicas : \A t \in Raw(d)' : t \in Raw(e)' => d = e
    BY <1>3 DEF PipelineInv, PlaceInv
  <2>8. QED
    BY <2>2, <2>3, <2>4, <2>5, <2>6, <2>7 DEF PlaceInv
<1>6. WorkInv'
  BY <1>1, <1>3 DEF PipelineInv, WorkInv, Unscraped, VerdictStatus, batches, stored
<1>7. RunningInv'
  BY <1>1, <1>3 DEF PipelineInv, RunningInv
<1>8. QED
  BY <1>4, <1>5, <1>6, <1>7 DEF PipelineInv

(* A send moves a verdict into the channel. *)
LEMMA SendKeeps ==
  ASSUME TypeOK, PipelineInv, NEW c \in Replicas, NEW res \in sending[c], SendResult(c, res),
         UNCHANGED <<taskStatus, toInsert, faults, queue, batches, stored, lost>>
  PROVE  PipelineInv'
<1>1. /\ sending' = [sending EXCEPT ![c] = @ \ {res}]
      /\ results' = [results EXCEPT ![c] = @ \union {res}]
      /\ processing' = processing
  BY DEF SendResult
<1>2. \A d \in Replicas : /\ Raw(d)' = Raw(d) /\ Scraped(d)' = Scraped(d) /\ Verdicts(d)' = Verdicts(d)
  BY <1>1 DEF Raw, Scraped, Verdicts, TypeOK, PoolTypeOK, batches
<1>3. InsertInv' /\ CompleteInv' /\ SavesInv'
  BY <1>1 DEF PipelineInv, InsertInv, CompleteInv, CompleteIsAccounted, SavesInv, SavesBounded, batches, stored
<1>4. PlaceInv'
  <2>1. \A d \in Replicas : \A r \in sending'[d] : r \notin results'[d]
    BY <1>1 DEF PipelineInv, PlaceInv, TypeOK, PoolTypeOK
  <2>2. QED
    BY <1>1, <1>2, <2>1 DEF PipelineInv, PlaceInv, batches
<1>5. WorkInv'
  BY <1>1, <1>2 DEF PipelineInv, WorkInv, Unscraped, VerdictStatus, batches, stored
<1>6. RunningInv'
  BY <1>1, <1>2 DEF PipelineInv, RunningInv
<1>7. QED
  BY <1>3, <1>4, <1>5, <1>6 DEF PipelineInv

(* A worker that gives up its send to a cancelled pool loses the verdict. *)
LEMMA DropKeeps ==
  ASSUME TypeOK, PipelineInv, NEW c \in Replicas, NEW res \in sending[c], DropResult(c, res),
         lost' = lost \union {res.task},
         UNCHANGED <<taskStatus, toInsert, faults, queue, batches, stored>>
  PROVE  PipelineInv'
<1>1. /\ sending' = [sending EXCEPT ![c] = @ \ {res}]
      /\ results' = results /\ processing' = processing
  BY DEF DropResult
<1>2. /\ \A d \in Replicas : /\ Raw(d)' = Raw(d) /\ Scraped(d)' \subseteq Scraped(d)
                             /\ Verdicts(d)' \subseteq Verdicts(d) /\ sending'[d] \subseteq sending[d]
      /\ \A d \in Replicas : \A r \in Verdicts(d) : r \in Verdicts(d)' \/ r = res
  BY <1>1 DEF Raw, Scraped, Verdicts, TypeOK, PoolTypeOK, batches
<1>3. InsertInv' /\ CompleteInv' /\ SavesInv'
  BY <1>1 DEF PipelineInv, InsertInv, CompleteInv, CompleteIsAccounted, SavesInv, SavesBounded, batches, stored
<1>4. PlaceInv'
  BY <1>1, <1>2 DEF PipelineInv, PlaceInv, batches
<1>5. WorkInv'
  BY <1>1, <1>2 DEF PipelineInv, WorkInv, Unscraped, VerdictStatus, batches, stored
<1>6. RunningInv'
  BY <1>1, <1>2 DEF PipelineInv, RunningInv
<1>7. QED
  BY <1>3, <1>4, <1>5, <1>6 DEF PipelineInv
(* Reading a result moves the verdict to the status batch of the replica. *)
LEMMA ReceiveKeeps ==
  ASSUME TypeOK, PipelineInv, NEW c \in Replicas, ReceiveResult(c)
  PROVE  PipelineInv'
<1>1. PICK res \in results[c] :
        /\ results' = [results EXCEPT ![c] = @ \ {res}]
        /\ statusBatch' = [statusBatch EXCEPT ![c] = @ \union {res}]
        /\ statBatch' = [statBatch EXCEPT ![c] = IF res.err THEN @ ELSE @ \union {res.task}]
        /\ groupBatch' = [groupBatch EXCEPT ![c] = IF res.err THEN @ ELSE @ \union {res.task}]
        /\ UNCHANGED <<taskStatus, toInsert, faults, queue, processing, sending, stored, lost>>
  BY DEF ReceiveResult, tableVars
<1>2. \A d \in Replicas :
        /\ \A r : r \in results'[d] <=> r \in results[d] /\ ~(d = c /\ r = res)
        /\ \A r : r \in statusBatch'[d] <=> r \in statusBatch[d] \/ (d = c /\ r = res)
        /\ \A t : t \in statBatch'[d] <=> t \in statBatch[d] \/ (d = c /\ ~res.err /\ t = res.task)
        /\ \A t : t \in groupBatch'[d] <=> t \in groupBatch[d] \/ (d = c /\ ~res.err /\ t = res.task)
  BY <1>1 DEF TypeOK, PoolTypeOK
<1>3. /\ res \in Scraped(c) /\ res \in Verdicts(c) /\ res \notin sending[c] /\ res.task \in Tasks
      /\ taskStatus[res.task] \in {"running", "deleted"} /\ Unscraped(res.task)
  BY DEF Scraped, Verdicts, PipelineInv, PlaceInv, WorkInv, TypeOK, PoolTypeOK, workerResult
<1>4. /\ \A d \in Replicas : Raw(d)' = Raw(d)
      /\ \A d \in Replicas : \A r : r \in Scraped(d)' <=> r \in Scraped(d) /\ ~(d = c /\ r = res)
      /\ \A d \in Replicas : \A r : r \in Verdicts(d)' <=> r \in Verdicts(d)
  <2>1. \A d \in Replicas : Raw(d)' = Raw(d)
    BY <1>1 DEF Raw
  <2>2. \A d \in Replicas : \A r : r \in Scraped(d)' <=> r \in Scraped(d) /\ ~(d = c /\ r = res)
    BY <1>1, <1>2, <1>3 DEF Scraped
  <2>3. \A d \in Replicas : \A r : r \in Verdicts(d)' <=> r \in Verdicts(d)
    BY <1>2, <1>3, <2>2 DEF Verdicts
  <2>4. QED
    BY <2>1, <2>2, <2>3
<1>5. InsertInv'
  BY <1>1 DEF PipelineInv, InsertInv
<1>6. PlaceInv'
  BY <1>1, <1>2, <1>4 DEF PipelineInv, PlaceInv
<1>7. WorkInv'
  <2>1. ASSUME NEW t \in Tasks, t # res.task, Unscraped(t) PROVE Unscraped(t)'
    BY <1>1, <1>2, <2>1 DEF Unscraped, stored
  <2>2. \A t \in Tasks : taskStatus'[t] \in {"absent", "pending"} => Unscraped(t)'
    BY <1>1, <1>3, <2>1 DEF PipelineInv, WorkInv
  <2>3. \A d \in Replicas : \A t \in Raw(d)' : taskStatus'[t] \in {"running", "deleted"} /\ Unscraped(t)'
    <3>1. \A d \in Replicas : Raw(d) \subseteq Tasks
      BY DEF Raw, TypeOK, PoolTypeOK
    <3>2. QED
      BY <1>1, <1>3, <1>4, <2>1, <3>1 DEF PipelineInv, WorkInv, PlaceInv
  <2>4. \A d \in Replicas : \A r \in Scraped(d)' :
          taskStatus'[r.task] \in {"running", "deleted"} /\ Unscraped(r.task)'
    <3>1. \A d \in Replicas : \A r \in Scraped(d)' : r \in Scraped(d) /\ r.task # res.task /\ r.task \in Tasks
      BY <1>3, <1>4 DEF PipelineInv, PlaceInv, Verdicts, Scraped, TypeOK, PoolTypeOK, workerResult
    <3>2. QED
      BY <1>1, <2>1, <3>1 DEF PipelineInv, WorkInv
  <2>5. \A d \in Replicas : \A r \in statusBatch'[d] :
          taskStatus'[r.task] \in {"running", "deleted", VerdictStatus(r)}
    BY <1>1, <1>2, <1>3 DEF PipelineInv, WorkInv
  <2>6. QED
    BY <2>2, <2>3, <2>4, <2>5 DEF WorkInv, VerdictStatus
<1>8. RunningInv'
  BY <1>1, <1>4 DEF PipelineInv, RunningInv
<1>9. CompleteInv'
  BY <1>1, <1>2 DEF PipelineInv, CompleteInv, CompleteIsAccounted, stored
<1>10. SavesInv'
  BY <1>1, <1>2, <1>3 DEF PipelineInv, SavesInv, SavesBounded, Unscraped, stored, TypeOK, TableTypeOK
<1>11. QED
  BY <1>5, <1>6, <1>7, <1>8, <1>9, <1>10 DEF PipelineInv

(* A save of the reports, whatever its outcome, keeps each report saved or batched. *)
LEMMA SaveReportsKeeps ==
  ASSUME TypeOK, PipelineInv, NEW c \in Replicas, SaveReports(c)
  PROVE  PipelineInv'
<1>1. /\ UNCHANGED <<taskStatus, toInsert, queue, processing, sending, results, statusBatch, groupBatch,
                     groups, dropped, lost>>
      /\ \/ UNCHANGED <<saves, statBatch, faults>>
         \/ /\ saves' = [t \in Tasks |-> IF t \in statBatch[c] THEN saves[t] + 1 ELSE saves[t]]
            /\ statBatch' = [statBatch EXCEPT ![c] = {}] /\ faults' = faults
         \/ /\ saves' = saves \/ saves' = [t \in Tasks |-> IF t \in statBatch[c] THEN saves[t] + 1 ELSE saves[t]]
            /\ statBatch' = statBatch /\ faults' = faults + 1
  BY DEF SaveReports, Fault, tableVars, poolVars
<1>2. /\ \A t \in Tasks : /\ saves'[t] = saves[t] \/ (t \in statBatch[c] /\ saves'[t] = saves[t] + 1)
                          /\ saves[t] \in Nat
      /\ \A d \in Replicas : \A t \in statBatch'[d] : t \in statBatch[d] /\ t \in Tasks
      /\ \A d \in Replicas : d # c => statBatch'[d] = statBatch[d]
      /\ \A t \in Tasks : t \in statBatch[c] /\ t \notin statBatch'[c] => saves'[t] > 0
      /\ faults \in Nat /\ faults' \in {faults, faults + 1}
  BY <1>1 DEF TypeOK, TableTypeOK
<1>3. \A d \in Replicas : Raw(d)' = Raw(d) /\ Scraped(d)' = Scraped(d) /\ Verdicts(d)' = Verdicts(d)
  BY <1>1 DEF Raw, Scraped, Verdicts
<1>4. InsertInv' /\ PlaceInv' /\ RunningInv'
  BY <1>1, <1>3 DEF PipelineInv, InsertInv, PlaceInv, RunningInv
<1>5. WorkInv'
  <2>1. ASSUME NEW t \in Tasks, Unscraped(t) PROVE Unscraped(t)'
    BY <1>2, <2>1 DEF Unscraped
  <2>2. \A d \in Replicas : Raw(d) \subseteq Tasks /\ \A r \in Scraped(d) : r.task \in Tasks
    BY DEF Raw, Scraped, TypeOK, PoolTypeOK, workerResult
  <2>3. QED
    BY <1>1, <1>3, <2>1, <2>2 DEF PipelineInv, WorkInv, VerdictStatus
<1>6. CompleteInv'
  <2>1. \A d \in Replicas : \A r \in statusBatch[d] : r.task \in Tasks
    BY DEF TypeOK, workerResult
  <2>2. \A d \in Replicas : \A t \in Tasks :
          saves[t] > 0 \/ t \in statBatch[d] => saves'[t] > 0 \/ t \in statBatch'[d]
    BY <1>2
  <2>3. QED
    BY <1>1, <2>1, <2>2 DEF PipelineInv, CompleteInv, CompleteIsAccounted
<1>7. SavesInv'
  <2>1. SavesBounded'
    BY <1>2 DEF PipelineInv, SavesInv, SavesBounded
  <2>2. ASSUME NEW d \in Replicas, NEW t \in statBatch'[d] PROVE saves'[t] <= faults'
    <3>1. t \in Tasks /\ t \in statBatch[d] /\ saves[t] <= faults
      BY <1>2 DEF PipelineInv, SavesInv
    <3>2. CASE d = c
      BY <1>1, <1>2, <2>2, <3>1, <3>2 DEF TypeOK
    <3>3. CASE d # c
      BY <1>2, <3>1, <3>3 DEF PipelineInv, SavesInv
    <3>4. QED
      BY <3>2, <3>3
  <2>3. QED
    BY <1>2, <2>1, <2>2 DEF PipelineInv, SavesInv
<1>8. QED
  BY <1>4, <1>5, <1>6, <1>7 DEF PipelineInv
(* A save of the statuses gives each running row its own verdict. *)
LEMMA UpdateStatusesKeeps ==
  ASSUME TypeOK, PipelineInv, NEW c \in Replicas, UpdateTaskStatuses(c)
  PROVE  PipelineInv'
<1>1. /\ UNCHANGED <<toInsert, queue, processing, sending, results, statBatch, groupBatch, stored, lost>>
      /\ faults' \in {faults, faults + 1}
      /\ \/ taskStatus' = taskStatus /\ statusBatch' = statusBatch
         \/ /\ taskStatus' = WithStatuses(statusBatch[c])
            /\ statusBatch' = statusBatch \/ statusBatch' = [statusBatch EXCEPT ![c] = {}]
  BY DEF UpdateTaskStatuses, Fault, poolVars, TypeOK, TableTypeOK
<1>2. \A t \in Tasks :
        \/ taskStatus'[t] = taskStatus[t]
        \/ /\ taskStatus[t] = "running"
           /\ \E r \in statusBatch[c] : r.task = t /\ taskStatus'[t] = VerdictStatus(r)
  <2> SUFFICES ASSUME NEW t \in Tasks, taskStatus'[t] # taskStatus[t]
               PROVE  /\ taskStatus[t] = "running"
                      /\ \E r \in statusBatch[c] : r.task = t /\ taskStatus'[t] = VerdictStatus(r)
    OBVIOUS
  <2>1. PICK r \in statusBatch[c] : r.task = t /\ taskStatus'[t] = VerdictStatus(r)
    <3>1. taskStatus'[t] = WithStatuses(statusBatch[c])[t]
      BY <1>1
    <3>2. \/ [task |-> t, err |-> TRUE] \in statusBatch[c] /\ taskStatus'[t] = "error"
          \/ [task |-> t, err |-> FALSE] \in statusBatch[c] /\ taskStatus'[t] = "complete"
      BY <3>1 DEF WithStatuses
    <3>3. CASE [task |-> t, err |-> TRUE] \in statusBatch[c] /\ taskStatus'[t] = "error"
      BY <3>3 DEF VerdictStatus
    <3>4. CASE [task |-> t, err |-> FALSE] \in statusBatch[c] /\ taskStatus'[t] = "complete"
      BY <3>4 DEF VerdictStatus
    <3>5. QED
      BY <3>2, <3>3, <3>4
  <2>2. taskStatus[t] \in {"running", "deleted"}
    BY <2>1 DEF PipelineInv, WorkInv
  <2>3. taskStatus[t] # "deleted"
    BY <1>1 DEF WithStatuses
  <2>4. QED
    BY <2>1, <2>2, <2>3
<1>3. \A d \in Replicas : \A r \in statusBatch'[d] : r \in statusBatch[d]
  BY <1>1 DEF TypeOK
<1>4. /\ \A d \in Replicas : Raw(d)' = Raw(d) /\ Scraped(d)' = Scraped(d)
      /\ \A d \in Replicas : \A r \in Verdicts(d)' : r \in Verdicts(d)
  BY <1>1, <1>3 DEF Raw, Scraped, Verdicts
<1>5. /\ \A d \in Replicas : \A t \in Raw(d) : t \in Tasks /\ taskStatus'[t] = taskStatus[t]
      /\ \A d \in Replicas : \A r \in Scraped(d) : r.task \in Tasks /\ taskStatus'[r.task] = taskStatus[r.task]
  <2>1. \A r \in statusBatch[c] : r \in Verdicts(c)
    BY DEF Verdicts
  <2>2. \A d \in Replicas : \A r \in Scraped(d) : r \in Verdicts(d) /\ (r \in statusBatch[c] => d # c)
    BY DEF Verdicts, PipelineInv, PlaceInv
  <2>3. \A d \in Replicas : (\A t \in Raw(d) : t \in Tasks) /\ \A r \in Scraped(d) : r.task \in Tasks
    BY DEF Raw, Scraped, TypeOK, PoolTypeOK, workerResult
  <2>4. QED
    BY <1>2, <2>1, <2>2, <2>3 DEF PipelineInv, PlaceInv
<1>6. InsertInv'
  BY <1>1, <1>2 DEF PipelineInv, InsertInv, TypeOK, TableTypeOK
<1>7. PlaceInv'
  BY <1>1, <1>3, <1>4 DEF PipelineInv, PlaceInv
<1>8. WorkInv'
  <2>1. \A t \in Tasks : Unscraped(t)' <=> Unscraped(t)
    BY <1>1 DEF Unscraped, stored
  <2>2. \A t \in Tasks : taskStatus'[t] \in {"absent", "pending"} => Unscraped(t)'
    BY <1>2, <2>1 DEF PipelineInv, WorkInv, VerdictStatus
  <2>3. \A d \in Replicas : \A t \in Raw(d)' : taskStatus'[t] \in {"running", "deleted"} /\ Unscraped(t)'
    BY <1>4, <1>5, <2>1 DEF PipelineInv, WorkInv
  <2>4. \A d \in Replicas : \A r \in Scraped(d)' :
          taskStatus'[r.task] \in {"running", "deleted"} /\ Unscraped(r.task)'
    BY <1>4, <1>5, <2>1 DEF PipelineInv, WorkInv
  <2>5. ASSUME NEW d \in Replicas, NEW r \in statusBatch'[d]
        PROVE  taskStatus'[r.task] \in {"running", "deleted", VerdictStatus(r)}
    <3>1. r \in statusBatch[d] /\ r.task \in Tasks /\ r \in Verdicts(d)
      BY <1>3 DEF TypeOK, workerResult, Verdicts
    <3>2. \A s \in statusBatch[c] : s.task = r.task => s = r
      BY <3>1 DEF PipelineInv, PlaceInv, Verdicts
    <3>3. QED
      BY <1>2, <3>1, <3>2 DEF PipelineInv, WorkInv
  <2>6. QED
    BY <2>2, <2>3, <2>4, <2>5 DEF WorkInv, VerdictStatus
<1>9. RunningInv'
  <2>1. ASSUME NEW t \in Tasks, taskStatus'[t] = "running", t \notin lost
        PROVE  \E d \in Replicas : t \in Raw(d)' \/ \E r \in Verdicts(d)' : r.task = t
    <3>1. taskStatus[t] = "running"
      BY <1>2, <2>1 DEF VerdictStatus
    <3>2. PICK d \in Replicas : t \in Raw(d) \/ \E r \in Verdicts(d) : r.task = t
      BY <2>1, <3>1 DEF PipelineInv, RunningInv
    <3>3. CASE t \in Raw(d)
      BY <1>4, <3>3
    <3>4. CASE \E r \in Verdicts(d) : r.task = t
      <4>1. PICK r \in Verdicts(d) : r.task = t
        BY <3>4
      <4>2. CASE r \in Verdicts(d)'
        BY <4>1, <4>2
      <4>3. CASE r \notin Verdicts(d)'
        <5>1. d = c /\ r \in statusBatch[c] /\ taskStatus' = WithStatuses(statusBatch[c])
          BY <1>1, <1>4, <4>3 DEF Verdicts, TypeOK
        <5>2. r = [task |-> t, err |-> TRUE] \/ r = [task |-> t, err |-> FALSE]
          BY <4>1, <5>1 DEF TypeOK, workerResult
        <5>3. taskStatus'[t] # "running"
          BY <3>1, <5>1, <5>2 DEF WithStatuses
        <5>4. QED
          BY <2>1, <5>3
      <4>4. QED
        BY <4>2, <4>3
    <3>5. QED
      BY <3>2, <3>3, <3>4
  <2>2. QED
    BY <1>1, <2>1 DEF RunningInv
<1>10. CompleteInv'
  <2>1. \A d \in Replicas : \A r \in statusBatch'[d] : ~r.err =>
          \/ r.task \in lost'
          \/ /\ saves'[r.task] > 0 \/ r.task \in statBatch'[d]
             /\ r.task \in groups' \union dropped' \/ r.task \in groupBatch'[d]
    BY <1>1, <1>3 DEF PipelineInv, CompleteInv, stored
  <2>2. CompleteIsAccounted'
    <3> SUFFICES ASSUME NEW t \in Tasks, taskStatus'[t] = "complete"
                 PROVE  \/ t \in lost
                        \/ /\ saves[t] > 0 \/ \E d \in Replicas : t \in statBatch[d]
                           /\ t \in groups \union dropped \/ \E d \in Replicas : t \in groupBatch[d]
      BY <1>1 DEF CompleteIsAccounted, stored
    <3>1. CASE taskStatus[t] = "complete"
      BY <3>1 DEF PipelineInv, CompleteInv, CompleteIsAccounted
    <3>2. CASE taskStatus[t] # "complete"
      <4>1. PICK r \in statusBatch[c] : r.task = t /\ ~r.err
        BY <1>2, <3>2 DEF VerdictStatus
      <4>2. QED
        BY <4>1 DEF PipelineInv, CompleteInv
    <3>3. QED
      BY <3>1, <3>2
  <2>3. QED
    BY <2>1, <2>2 DEF CompleteInv
<1>11. SavesInv'
  BY <1>1 DEF PipelineInv, SavesInv, SavesBounded, stored, TypeOK, TableTypeOK
<1>12. QED
  BY <1>6, <1>7, <1>8, <1>9, <1>10, <1>11 DEF PipelineInv

(* A save of the target groups keeps each group saved, batched or recorded as dropped. *)
LEMMA SaveGroupsKeeps ==
  ASSUME TypeOK, PipelineInv, NEW c \in Replicas, SaveOrUpdateTargetGroups(c)
  PROVE  PipelineInv'
<1>1. /\ UNCHANGED <<taskStatus, toInsert, queue, processing, sending, results, statBatch, statusBatch,
                     saves, lost>>
      /\ faults' \in {faults, faults + 1}
      /\ \A t \in groups \union dropped : t \in groups' \union dropped'
      /\ \/ groupBatch' = groupBatch
         \/ /\ groupBatch' = [groupBatch EXCEPT ![c] = {}]
            /\ \A t \in groupBatch[c] : t \in groups' \union dropped'
  BY DEF SaveOrUpdateTargetGroups, sendBatch, Fault, tableVars, poolVars, TypeOK, TableTypeOK
<1>2. \A d \in Replicas : \A t :
        t \in groups \union dropped \/ t \in groupBatch[d] => t \in groups' \union dropped' \/ t \in groupBatch'[d]
  BY <1>1 DEF TypeOK
<1>3. InsertInv' /\ PlaceInv' /\ WorkInv' /\ RunningInv'
  BY <1>1 DEF PipelineInv, InsertInv, PlaceInv, WorkInv, RunningInv, Raw, Scraped, Verdicts,
              VerdictStatus, Unscraped
<1>4. CompleteInv'
  BY <1>1, <1>2 DEF PipelineInv, CompleteInv, CompleteIsAccounted
<1>5. SavesInv'
  BY <1>1 DEF PipelineInv, SavesInv, SavesBounded, TypeOK, TableTypeOK
<1>6. QED
  BY <1>3, <1>4, <1>5 DEF PipelineInv
(* A replica that is gone holds nothing; what it held is recorded as lost. *)
LEMMA ForgetKeeps ==
  ASSUME TypeOK, PipelineInv, NEW c \in Replicas, Forget(c), UNCHANGED <<taskStatus, faults, stored>>
  PROVE  PipelineInv'
<1>1. /\ \A d \in Replicas : d # c =>
           /\ queue'[d] = queue[d] /\ processing'[d] = processing[d] /\ sending'[d] = sending[d]
           /\ results'[d] = results[d] /\ statBatch'[d] = statBatch[d] /\ statusBatch'[d] = statusBatch[d]
           /\ groupBatch'[d] = groupBatch[d] /\ toInsert'[d] = toInsert[d]
      /\ queue'[c] = {} /\ processing'[c] = {} /\ sending'[c] = {} /\ results'[c] = {}
      /\ statBatch'[c] = {} /\ statusBatch'[c] = {} /\ groupBatch'[c] = {} /\ toInsert'[c] = {}
      /\ lost' = lost \union InMemory(c)
  BY DEF Forget, ResetPool, TypeOK, TableTypeOK, PoolTypeOK
<1>2. /\ \A t \in Raw(c) : t \in lost'
      /\ \A r \in Verdicts(c) : r.task \in lost'
      /\ \A t \in statBatch[c] \union groupBatch[c] : t \in lost'
      /\ \A t \in lost : t \in lost'
  BY <1>1 DEF InMemory, InPool, TasksOf, Raw, Scraped, Verdicts
<1>3. /\ Raw(c)' = {} /\ Scraped(c)' = {} /\ Verdicts(c)' = {}
      /\ \A d \in Replicas : d # c => Raw(d)' = Raw(d) /\ Scraped(d)' = Scraped(d) /\ Verdicts(d)' = Verdicts(d)
  BY <1>1 DEF Raw, Scraped, Verdicts
<1>4. InsertInv'
  BY <1>1 DEF PipelineInv, InsertInv
<1>5. PlaceInv'
  BY <1>1, <1>3 DEF PipelineInv, PlaceInv
<1>6. WorkInv'
  <2>1. \A t : Unscraped(t) => Unscraped(t)'
    BY <1>1 DEF Unscraped, stored
  <2>2. QED
    BY <1>1, <1>3, <2>1 DEF PipelineInv, WorkInv, VerdictStatus
<1>7. RunningInv'
  BY <1>2, <1>3 DEF PipelineInv, RunningInv
<1>8. CompleteInv'
  BY <1>1, <1>2 DEF PipelineInv, CompleteInv, CompleteIsAccounted, stored
<1>9. SavesInv'
  BY <1>1 DEF PipelineInv, SavesInv, SavesBounded, stored
<1>10. QED
  BY <1>4, <1>5, <1>6, <1>7, <1>8, <1>9 DEF PipelineInv

(* Outside the submit loop there is no claimed task left to submit. *)
QueueDrained == \A c \in Replicas : pc[c] # "submit" => queue[c] = {}

(* Run leaves its submit loop only when every claimed task has been submitted. *)
LEMMA QueueIsDrained == Spec => []QueueDrained
<1>1. Init => QueueDrained
  BY DEF Init, QueueDrained
<1>2. TypeOK /\ QueueDrained /\ [Next]_vars => QueueDrained'
  <2> SUFFICES ASSUME TypeOK, QueueDrained, [Next]_vars PROVE QueueDrained'
    OBVIOUS
  <2> USE DEF QueueDrained, Goto, TypeOK
  <2>1. CASE PassTime \/ UNCHANGED vars
    BY <2>1 DEF PassTime, vars
  <2>2. ASSUME NEW c \in Replicas, Produce(c) \/ WorkerStep(c) PROVE QueueDrained'
    BY <2>2 DEF Produce, WorkerStep
  <2>3. ASSUME NEW c \in Replicas, GetScrapeTasks(c) PROVE QueueDrained'
    BY <2>3 DEF GetScrapeTasks
  <2>4. ASSUME NEW c \in Replicas, SubmitNext(c) PROVE QueueDrained'
    BY <2>4 DEF SubmitNext
  <2>5. ASSUME NEW c \in Replicas, SaveReports(c) \/ UpdateTaskStatuses(c) \/ SaveOrUpdateTargetGroups(c)
        PROVE QueueDrained'
    BY <2>5 DEF SaveReports, UpdateTaskStatuses, SaveOrUpdateTargetGroups
  <2>6. ASSUME NEW c \in Replicas,
               PoolStopped(c) \/ TaskTick(c) \/ ReceiveResult(c) \/ FlushTick(c) \/ StopSignal(c)
        PROVE QueueDrained'
    BY <2>6 DEF PoolStopped, TaskTick, ReceiveResult, FlushTick, StopSignal
  <2>7. ASSUME NEW c \in Replicas, Stop(c) \/ \E v \in BOOLEAN : SetLeader(c, v) PROVE QueueDrained'
    BY <2>7 DEF Stop, SetLeader
  <2>8. ASSUME NEW c \in Replicas, Crash(c) \/ Restart(c) PROVE QueueDrained'
    BY <2>8 DEF Crash, Restart, Forget
  <2>9. QED
    BY <2>1, <2>2, <2>3, <2>4, <2>5, <2>6, <2>7, <2>8 DEF Next, RunStep
<1>3. QED
  BY <1>1, <1>2, TypeCorrect, PTL DEF Spec

(* PipelineInv is inductive: it holds in every reachable state of the pipeline. *)
THEOREM PipelineInvariant == Spec => []PipelineInv
<1>1. Init => PipelineInv
  BY DEF Init, TableInit, PoolInit, PipelineInv, InsertInv, PlaceInv, WorkInv, RunningInv, CompleteInv, SavesInv,
         Raw, Scraped, Verdicts, VerdictStatus, Unscraped, CompleteIsAccounted, SavesBounded
<1>2. TypeOK /\ QueueDrained /\ PipelineInv /\ [Next]_vars => PipelineInv'
  <2> SUFFICES ASSUME TypeOK, QueueDrained, PipelineInv, [Next]_vars PROVE PipelineInv'
    OBVIOUS
  <2>1. CASE PassTime \/ UNCHANGED vars
    <3>1. UNCHANGED core
      BY <2>1 DEF PassTime, Tick, vars, core, tableVars, poolVars, batches, stored
    <3>2. QED
      BY <3>1, CoreUnchanged
  <2>2. ASSUME NEW c \in Replicas, Produce(c) PROVE PipelineInv'
    BY <2>2, WorkKeeps, InsertKeeps DEF Produce
  <2>3. ASSUME NEW c \in Replicas, WorkerStep(c) PROVE PipelineInv'
    <3>1. UNCHANGED <<taskStatus, toInsert, faults, queue, batches, stored>>
      BY <2>3 DEF WorkerStep, tableVars
    <3>2. CASE WorkerExit(c) /\ UNCHANGED lost
      BY <3>1, <3>2, CoreUnchanged DEF WorkerExit, core, batches, stored
    <3>3. QED
      BY <2>3, <3>1, <3>2, ProcessKeeps, SendKeeps, DropKeeps DEF WorkerStep
  <2>4. ASSUME NEW c \in Replicas, GetScrapeTasks(c) PROVE PipelineInv'
    <3>1. queue[c] = {}
      BY <2>4 DEF QueueDrained, GetScrapeTasks
    <3>2. QED
      BY <2>4, <3>1, ClaimKeeps
  <2>5. ASSUME NEW c \in Replicas,
               PoolStopped(c) \/ TaskTick(c) \/ FlushTick(c) \/ StopSignal(c) \/ Stop(c)
        PROVE  PipelineInv'
    <3>1. UNCHANGED core
      BY <2>5 DEF PoolStopped, TaskTick, FlushTick, StopSignal, Stop, Cancel, core, tableVars, poolVars,
                  batches, stored
    <3>2. QED
      BY <3>1, CoreUnchanged
  <2>6. ASSUME NEW c \in Replicas, NEW v \in BOOLEAN, SetLeader(c, v) PROVE PipelineInv'
    <3>1. UNCHANGED core
      BY <2>6 DEF SetLeader, core, tableVars, poolVars, batches, stored
    <3>2. QED
      BY <3>1, CoreUnchanged
  <2>7. ASSUME NEW c \in Replicas, Crash(c) \/ Restart(c) PROVE PipelineInv'
    BY <2>7, ForgetKeeps DEF Crash, Restart, stored
  <2>8. QED
    BY <2>1, <2>2, <2>3, <2>4, <2>5, <2>6, <2>7, SubmitKeeps, ReceiveKeeps, SaveReportsKeeps,
       UpdateStatusesKeeps, SaveGroupsKeeps
    DEF Next, RunStep
<1>3. QED
  BY <1>1, <1>2, TypeCorrect, QueueIsDrained, PTL DEF Spec

----------------------------------------------------------------------------
(* A task is worked on by one replica, at one place, between claim and saved status. *)
THEOREM ClaimsAreExclusive == Spec => []ClaimExclusive
<1>1. PlaceInv => ClaimExclusive
  BY DEF PlaceInv, ClaimExclusive, InHand, InPool, TasksOf, Raw, Scraped, Verdicts
<1>2. QED
  BY <1>1, PipelineInvariant, PTL DEF PipelineInv

(* Only a crash, a shutdown or a lost reply orphans a running task. *)
THEOREM RunningTasksAreAccounted == Spec => []RunningIsAccounted
<1>1. RunningInv => RunningIsAccounted
  BY DEF RunningInv, RunningIsAccounted, InHand, InPool, TasksOf, Raw, Scraped, Verdicts
<1>2. QED
  BY <1>1, PipelineInvariant, PTL DEF PipelineInv

(* A complete task has its report and target group saved, or in the batches of a replica. *)
THEOREM CompleteTasksAreAccounted == Spec => []CompleteIsAccounted
<1>1. PipelineInv => CompleteIsAccounted
  BY DEF PipelineInv, CompleteInv
<1>2. QED
  BY <1>1, PipelineInvariant, PTL

(* A report is committed at most once more than storage calls failed. *)
THEOREM ReportSavesAreBounded == Spec => []SavesBounded
<1>1. PipelineInv => SavesBounded
  BY DEF PipelineInv, SavesInv
<1>2. QED
  BY <1>1, PipelineInvariant, PTL
(* A row's status only moves forward along Lifecycle, in every step of the system. *)
THEOREM StatusesMoveForward == Spec => StatusLifecycle
<1> DEFINE Forward == \A t \in Tasks :
      taskStatus'[t] # taskStatus[t] => <<taskStatus[t], taskStatus'[t]>> \in Lifecycle
<1>1. TypeOK /\ PipelineInv /\ [Next]_vars => [Forward]_vars
  <2> SUFFICES ASSUME TypeOK, PipelineInv, Next PROVE Forward
    OBVIOUS
  <2>1. ASSUME NEW c \in Replicas, NEW S \in SUBSET Fresh, Work(c, S) PROVE Forward
    BY <2>1 DEF Work, SetStatus, CleanedUp, Lifecycle, TypeOK, TableTypeOK, TaskStatuses
  <2>2. ASSUME NEW c \in Replicas, SaveScrapeTasks(c) PROVE Forward
    BY <2>2 DEF SaveScrapeTasks, SetStatus, Lifecycle, PipelineInv, InsertInv
  <2>3. ASSUME NEW c \in Replicas, GetScrapeTasks(c) PROVE Forward
    <3>1. \A picked \in Claimable(TasksPerRequest) : \A t \in picked : taskStatus[t] = "pending"
      BY DEF Claimable, OldestFirst
    <3>2. QED
      BY <2>3, <3>1 DEF GetScrapeTasks, SetStatus, Lifecycle
  <2>4. ASSUME NEW c \in Replicas, UpdateTaskStatuses(c) PROVE Forward
    <3> SUFFICES ASSUME NEW t \in Tasks, taskStatus'[t] # taskStatus[t]
                 PROVE  <<taskStatus[t], taskStatus'[t]>> \in Lifecycle
      OBVIOUS
    <3>1. taskStatus'[t] = WithStatuses(statusBatch[c])[t]
      BY <2>4 DEF UpdateTaskStatuses
    <3>2. PICK r \in statusBatch[c] : r.task = t /\ taskStatus'[t] = VerdictStatus(r)
      BY <3>1 DEF WithStatuses, VerdictStatus
    <3>3. taskStatus[t] \in {"running", "deleted"} /\ taskStatus[t] # "deleted"
      BY <3>1, <3>2 DEF PipelineInv, WorkInv, WithStatuses
    <3>4. QED
      BY <3>2, <3>3 DEF VerdictStatus, Lifecycle
  <2>5. ASSUME NEW c \in Replicas,
               \/ WorkerStep(c) \/ SubmitNext(c) \/ SaveReports(c) \/ SaveOrUpdateTargetGroups(c)
               \/ PoolStopped(c) \/ TaskTick(c) \/ ReceiveResult(c) \/ FlushTick(c) \/ StopSignal(c)
               \/ Stop(c) \/ Crash(c) \/ Restart(c) \/ \E v \in BOOLEAN : SetLeader(c, v)
        PROVE Forward
    BY <2>5 DEF WorkerStep, SubmitNext, SaveReports, SaveOrUpdateTargetGroups, PoolStopped, TaskTick,
                ReceiveResult, FlushTick, StopSignal, Stop, Crash, Restart, SetLeader, tableVars
  <2>6. CASE PassTime
    BY <2>6 DEF PassTime, Tick
  <2>7. QED
    BY <2>1, <2>2, <2>3, <2>4, <2>5, <2>6 DEF Next, RunStep, Produce
<1>2. QED
  BY <1>1, TypeCorrect, PipelineInvariant, PTL DEF Spec, StatusLifecycle

----------------------------------------------------------------------------
(***************************************************************************)
(* What makes ReportBeforeStatus inductive.  When no storage call and no   *)
(* scrape has failed, the report batch holds the reports of the good       *)
(* verdicts of the status batch, no more and no less, except between the   *)
(* save of the former and that of the latter.  There the reports have been *)
(* saved, and the statuses are due as well, or they were not due.          *)
(***************************************************************************)
Quiet == faults = 0 /\ \A t \in Tasks : taskStatus[t] \notin {"error", "deleted"}

SameBatch(c) ==
  /\ \A r \in statusBatch[c] : ~r.err => r.task \in statBatch[c]
  /\ \A t \in statBatch[c] : [task |-> t, err |-> FALSE] \in statusBatch[c]

Saved(t) == saves[t] > 0

FlushFirst(c) ==
  IF pc[c] = "statuses"
    THEN \/ SameBatch(c) /\ ~Due(c, statBatch[c])
         \/ /\ statBatch[c] = {} /\ Due(c, statusBatch[c])
            /\ \A r \in statusBatch[c] : ~r.err => Saved(r.task)
    ELSE SameBatch(c)

ReportFirst ==
  /\ \A t \in Tasks : taskStatus[t] = "complete" => Saved(t)
  /\ \A c \in Replicas : FlushFirst(c)

(* Both batches are finite, and a verdict in the status batch is of a task. *)
LEMMA BatchesFinite ==
  ASSUME TypeOK, PipelineInv, NEW c \in Replicas
  PROVE  /\ IsFiniteSet(statusBatch[c]) /\ Cardinality(statusBatch[c]) \in Nat
         /\ IsFiniteSet(statBatch[c]) /\ Cardinality(statBatch[c]) \in Nat
         /\ \A r \in statusBatch[c] : r.task \in Tasks
<1> DEFINE B == statusBatch[c]
           f == [r \in B |-> r.task]
<1>1. \A r \in B : r.task \in Tasks
  BY DEF TypeOK, workerResult
<1>2. \A r, s \in B : r.task = s.task => r = s
  BY DEF PipelineInv, PlaceInv, Verdicts
<1>3. f \in [B -> Tasks] /\ \A r, s \in B : f[r] = f[s] => r = s
  BY <1>1, <1>2
<1>4. f \in Injection(B, Tasks)
  BY <1>3 DEF Injection, IsInjective
<1>5. IsFiniteSet(B)
  BY <1>4, FS_Injection, TaskConsumerAssumption
<1>6. IsFiniteSet(statBatch[c])
  <2>1. statBatch[c] \subseteq Tasks
    BY DEF TypeOK
  <2> QED BY <2>1, FS_Subset, TaskConsumerAssumption
<1> QED BY <1>1, <1>5, <1>6, FS_CardinalityType

(* Every report of the batch has its verdict beside it: the verdicts are no fewer. *)
LEMMA NoFewerVerdicts ==
  ASSUME TypeOK, PipelineInv, NEW c \in Replicas, SameBatch(c)
  PROVE  Cardinality(statBatch[c]) <= Cardinality(statusBatch[c])
<1> DEFINE B == statBatch[c]
           V == statusBatch[c]
           f == [t \in B |-> [task |-> t, err |-> FALSE]]
<1>1. f \in [B -> V]
  BY DEF SameBatch
<1>2. ASSUME NEW t \in B, NEW u \in B, f[t] = f[u] PROVE t = u
  <2>1. [task |-> t, err |-> FALSE] = [task |-> u, err |-> FALSE]
    BY <1>2
  <2>2. [task |-> t, err |-> FALSE].task = [task |-> u, err |-> FALSE].task
    BY <2>1
  <2> QED BY <2>2
<1>3. f \in Injection(B, V)
  BY <1>1, <1>2 DEF Injection, IsInjective
<1> QED BY <1>3, BatchesFinite, FS_Injection

(* Without a bad verdict, they are as many. *)
LEMMA NoMoreVerdicts ==
  ASSUME TypeOK, PipelineInv, NEW c \in Replicas, SameBatch(c), \A r \in statusBatch[c] : ~r.err
  PROVE  Cardinality(statusBatch[c]) <= Cardinality(statBatch[c])
<1> DEFINE B == statBatch[c]
           V == statusBatch[c]
           f == [r \in V |-> r.task]
<1>1. \A r, s \in V : r.task = s.task => r = s
  BY DEF PipelineInv, PlaceInv, Verdicts
<1>2. f \in [V -> B] /\ \A r, s \in V : f[r] = f[s] => r = s
  BY <1>1 DEF SameBatch
<1>3. f \in Injection(V, B)
  BY <1>2 DEF Injection, IsInjective
<1> QED BY <1>3, BatchesFinite, FS_Injection

(* What a step leaves alone of a replica, it keeps. *)
LEMMA FlushKept ==
  ASSUME TypeOK, NEW d \in Replicas, FlushFirst(d),
         statBatch'[d] = statBatch[d], statusBatch'[d] = statusBatch[d],
         pc'[d] = "statuses" <=> pc[d] = "statuses", pc[d] = "statuses" => flush'[d] = flush[d],
         \A t \in Tasks : Saved(t) => Saved(t)'
  PROVE  FlushFirst(d)'
<1>1. SameBatch(d) => SameBatch(d)'
  BY DEF SameBatch
<1>2. \A r \in statusBatch[d] : r.task \in Tasks
  BY DEF TypeOK, workerResult
<1>3. pc[d] = "statuses" => /\ Due(d, statBatch[d])' <=> Due(d, statBatch[d])
                            /\ Due(d, statusBatch[d])' <=> Due(d, statusBatch[d])
  BY DEF Due
<1> QED BY <1>1, <1>2, <1>3 DEF FlushFirst

(* A step that changes neither what is stored nor a batch, nor comes from or goes to the statuses. *)
LEMMA ReportFirstKept ==
  ASSUME TypeOK, ReportFirst, UNCHANGED <<saves, statusBatch, statBatch>>,
         \A t \in Tasks : taskStatus'[t] = "complete" => taskStatus[t] = "complete",
         \A d \in Replicas : pc'[d] = "statuses" <=> pc[d] = "statuses",
         \A d \in Replicas : pc[d] = "statuses" => flush'[d] = flush[d]
  PROVE  ReportFirst'
<1>1. \A t : Saved(t)' <=> Saved(t)
  BY DEF Saved
<1>2. ASSUME NEW d \in Replicas PROVE FlushFirst(d)'
  BY <1>1, FlushKept DEF ReportFirst
<1> QED BY <1>1, <1>2 DEF ReportFirst

(* Every step keeps the order of the saves. *)
LEMMA ReportFirstStep ==
  ASSUME TypeOK, PipelineInv, Quiet', ReportFirst, [Next]_vars
  PROVE  ReportFirst'
<1> USE DEF tableVars, poolVars, batches, stored, control
<1>0. /\ DOMAIN pc = Replicas /\ DOMAIN flush = Replicas /\ DOMAIN statBatch = Replicas
      /\ DOMAIN statusBatch = Replicas
      /\ faults \in Nat /\ faults' = 0
  BY DEF TypeOK, TableTypeOK, Quiet
<1>1. CASE PassTime \/ UNCHANGED vars
  <2>1. UNCHANGED <<saves, statusBatch, statBatch, taskStatus, pc, flush>>
    BY <1>1 DEF PassTime, Tick, vars
  <2> QED BY <2>1, ReportFirstKept
<1>2. ASSUME NEW c \in Replicas, Produce(c) PROVE ReportFirst'
  <2>1. UNCHANGED <<saves, statusBatch, statBatch, pc, flush>>
    BY <1>2 DEF Produce
  <2>2. \A t \in Tasks : taskStatus'[t] = "complete" => taskStatus[t] = "complete"
    BY <1>2 DEF Produce, Work, SaveScrapeTasks, SetStatus
  <2> QED BY <2>1, <2>2, ReportFirstKept
<1>3. ASSUME NEW c \in Replicas, WorkerStep(c) \/ Stop(c) \/ \E v \in BOOLEAN : SetLeader(c, v)
      PROVE  ReportFirst'
  <2>1. UNCHANGED <<saves, statusBatch, statBatch, taskStatus, pc, flush>>
    BY <1>3 DEF WorkerStep, Stop, SetLeader
  <2> QED BY <2>1, ReportFirstKept
<1>4. ASSUME NEW c \in Replicas,
             \/ SubmitNext(c) \/ SaveOrUpdateTargetGroups(c) \/ TaskTick(c) \/ StopSignal(c)
             \/ FlushTick(c) \/ PoolStopped(c)
      PROVE  ReportFirst'
  <2>1. UNCHANGED <<saves, statusBatch, statBatch, taskStatus>>
    BY <1>4 DEF SubmitNext, SaveOrUpdateTargetGroups, TaskTick, StopSignal, FlushTick, PoolStopped
  <2>2. /\ pc[c] # "statuses" /\ pc'[c] # "statuses"
        /\ \A d \in Replicas \ {c} : pc'[d] = pc[d] /\ flush'[d] = flush[d]
    BY <1>0, <1>4 DEF SubmitNext, SaveOrUpdateTargetGroups, TaskTick, StopSignal, FlushTick, PoolStopped, Goto
  <2> QED BY <2>1, <2>2, ReportFirstKept
<1>5. ASSUME NEW c \in Replicas, GetScrapeTasks(c) PROVE ReportFirst'
  <2>1. UNCHANGED <<saves, statusBatch, statBatch, flush>>
    BY <1>5 DEF GetScrapeTasks
  <2>2. \A t \in Tasks : taskStatus'[t] = "complete" => taskStatus[t] = "complete"
    BY <1>5 DEF GetScrapeTasks, SetStatus
  <2>3. pc[c] # "statuses" /\ pc'[c] # "statuses" /\ \A d \in Replicas \ {c} : pc'[d] = pc[d]
    BY <1>0, <1>5 DEF GetScrapeTasks, Goto
  <2> QED BY <2>1, <2>2, <2>3, ReportFirstKept
<1>6. ASSUME NEW c \in Replicas, UNCHANGED <<taskStatus, saves>>,
             \A d \in Replicas \ {c} : /\ statusBatch'[d] = statusBatch[d] /\ statBatch'[d] = statBatch[d]
                                       /\ pc'[d] = pc[d] /\ flush'[d] = flush[d],
             FlushFirst(c)'
      PROVE  ReportFirst'
  <2>1. \A t : Saved(t)' <=> Saved(t)
    BY <1>6 DEF Saved
  <2>2. ASSUME NEW d \in Replicas PROVE FlushFirst(d)'
    <3>1. CASE d = c
      BY <1>6, <3>1
    <3>2. CASE d # c
      <4>1. d \in Replicas \ {c}
        BY <3>2
      <4> QED BY <1>6, <2>1, <4>1, FlushKept DEF ReportFirst
    <3> QED BY <3>1, <3>2
  <2> QED BY <1>6, <2>1, <2>2 DEF ReportFirst
<1>7. ASSUME NEW c \in Replicas, ReceiveResult(c) PROVE ReportFirst'
  <2>1. PICK res \in results[c] :
          /\ statusBatch' = [statusBatch EXCEPT ![c] = @ \union {res}]
          /\ statBatch' = [statBatch EXCEPT ![c] = IF res.err THEN @ ELSE @ \union {res.task}]
    BY <1>7 DEF ReceiveResult
  <2>2. /\ UNCHANGED <<taskStatus, saves>> /\ pc[c] = "select" /\ pc'[c] = "reports"
        /\ \A d \in Replicas \ {c} : pc'[d] = pc[d] /\ flush'[d] = flush[d]
    BY <1>0, <1>7 DEF ReceiveResult, Goto
  <2>3. /\ statusBatch'[c] = statusBatch[c] \union {res}
        /\ statBatch'[c] = IF res.err THEN statBatch[c] ELSE statBatch[c] \union {res.task}
        /\ \A d \in Replicas \ {c} : statusBatch'[d] = statusBatch[d] /\ statBatch'[d] = statBatch[d]
    BY <1>0, <2>1
  <2>4. ~res.err => res = [task |-> res.task, err |-> FALSE]
    BY DEF TypeOK, PoolTypeOK, workerResult
  <2>5. SameBatch(c)
    BY <2>2 DEF ReportFirst, FlushFirst
  <2>6. SameBatch(c)'
    <3>1. \A r \in statusBatch'[c] : ~r.err => r.task \in statBatch'[c]
      BY <2>3, <2>5 DEF SameBatch
    <3>2. ASSUME NEW t \in statBatch'[c] PROVE [task |-> t, err |-> FALSE] \in statusBatch'[c]
      <4>1. CASE t \in statBatch[c]
        BY <2>3, <2>5, <4>1 DEF SameBatch
      <4>2. CASE t \notin statBatch[c]
        <5>1. ~res.err /\ t = res.task
          BY <2>3, <4>2
        <5> QED BY <2>3, <2>4, <5>1
      <4> QED BY <4>1, <4>2
    <3> QED BY <3>1, <3>2 DEF SameBatch
  <2> QED BY <1>6, <2>2, <2>3, <2>6 DEF FlushFirst
<1>8. ASSUME NEW c \in Replicas, SaveReports(c) PROVE ReportFirst'
  <2>1. /\ UNCHANGED <<taskStatus, statusBatch, flush>> /\ pc[c] = "reports" /\ pc' = [pc EXCEPT ![c] = "statuses"]
        /\ \/ ~Due(c, statBatch[c]) /\ UNCHANGED <<saves, statBatch>>
           \/ /\ Due(c, statBatch[c])
              /\ saves' = [t \in Tasks |-> IF t \in statBatch[c] THEN saves[t] + 1 ELSE saves[t]]
              /\ statBatch' = [statBatch EXCEPT ![c] = {}]
    BY <1>0, <1>8 DEF SaveReports, Fault, Goto
  <2>2. SameBatch(c) /\ pc'[c] = "statuses" /\ \A d \in Replicas \ {c} : pc'[d] = pc[d]
    BY <1>0, <2>1 DEF ReportFirst, FlushFirst
  <2>3. CASE UNCHANGED <<saves, statBatch>> /\ ~Due(c, statBatch[c])
    <3>1. SameBatch(c)' /\ ~Due(c, statBatch[c])'
      BY <2>1, <2>2, <2>3 DEF SameBatch, Due
    <3>2. FlushFirst(c)'
      BY <2>2, <3>1 DEF FlushFirst
    <3> QED BY <1>6, <2>1, <2>2, <2>3, <3>2
  <2>4. CASE /\ Due(c, statBatch[c])
             /\ saves' = [t \in Tasks |-> IF t \in statBatch[c] THEN saves[t] + 1 ELSE saves[t]]
             /\ statBatch' = [statBatch EXCEPT ![c] = {}]
    <3>1. \A t \in Tasks : /\ Saved(t) => Saved(t)'
                           /\ t \in statBatch[c] => Saved(t)'
      BY <2>4 DEF Saved, TypeOK
    <3>2. statBatch'[c] = {} /\ \A d \in Replicas \ {c} : statBatch'[d] = statBatch[d]
      BY <1>0, <2>4
    <3>3. Due(c, statusBatch[c])'
      <4>1. Cardinality(statBatch[c]) <= Cardinality(statusBatch[c])
        BY <2>2, NoFewerVerdicts
      <4>2. Cardinality(statBatch[c]) \in Nat /\ Cardinality(statusBatch[c]) \in Nat /\ BatchSize \in Nat
        BY BatchesFinite, TaskConsumerAssumption
      <4>3. Due(c, statusBatch[c])
        BY <2>4, <4>1, <4>2 DEF Due
      <4> QED BY <2>1, <4>3 DEF Due
    <3>4. \A r \in statusBatch'[c] : ~r.err => Saved(r.task)'
      <4>1. \A r \in statusBatch[c] : r.task \in Tasks
        BY BatchesFinite
      <4> QED BY <2>1, <2>2, <3>1, <4>1 DEF SameBatch
    <3>5. ASSUME NEW d \in Replicas PROVE FlushFirst(d)'
      <4>1. CASE d = c
        BY <2>2, <3>2, <3>3, <3>4, <4>1 DEF FlushFirst
      <4>2. CASE d # c
        <5>1. d \in Replicas \ {c} /\ FlushFirst(d)
          BY <4>2 DEF ReportFirst
        <5> QED BY <2>1, <2>2, <3>1, <3>2, <5>1, FlushKept
      <4> QED BY <4>1, <4>2
    <3> QED BY <2>1, <3>1, <3>5 DEF ReportFirst
  <2> QED BY <2>1, <2>3, <2>4
<1>9. ASSUME NEW c \in Replicas, UpdateTaskStatuses(c) PROVE ReportFirst'
  <2>1. /\ UNCHANGED <<saves, statBatch, flush>> /\ pc[c] = "statuses" /\ pc' = [pc EXCEPT ![c] = "groups"]
        /\ \/ ~Due(c, statusBatch[c]) /\ taskStatus' = taskStatus /\ statusBatch' = statusBatch
           \/ /\ Due(c, statusBatch[c]) /\ taskStatus' = WithStatuses(statusBatch[c])
              /\ statusBatch' = [statusBatch EXCEPT ![c] = {}]
    BY <1>0, <1>9 DEF UpdateTaskStatuses, Fault, Goto
  <2>2. pc'[c] = "groups" /\ \A d \in Replicas \ {c} : pc'[d] = pc[d]
    BY <1>0, <2>1
  <2>3. CASE ~Due(c, statusBatch[c]) /\ taskStatus' = taskStatus /\ statusBatch' = statusBatch
    <3>1. SameBatch(c)
      BY <2>1, <2>3 DEF ReportFirst, FlushFirst
    <3>2. FlushFirst(c)'
      BY <2>1, <2>2, <2>3, <3>1 DEF FlushFirst, SameBatch
    <3> QED BY <1>6, <2>1, <2>2, <2>3, <3>2
  <2>4. CASE /\ Due(c, statusBatch[c]) /\ taskStatus' = WithStatuses(statusBatch[c])
             /\ statusBatch' = [statusBatch EXCEPT ![c] = {}]
    <3>1. \A r \in statusBatch[c] : ~r.err
      <4> SUFFICES ASSUME NEW r \in statusBatch[c], r.err PROVE FALSE
        BY DEF TypeOK, workerResult
      <4>1. r = [task |-> r.task, err |-> TRUE] /\ r.task \in Tasks
        BY DEF TypeOK, workerResult
      <4>2. taskStatus[r.task] \in {"running", "deleted", "error"}
        BY DEF PipelineInv, WorkInv, VerdictStatus
      <4>3. [task |-> r.task, err |-> TRUE] \in statusBatch[c]
        BY <4>1
      <4>4. taskStatus'[r.task] \in {"error", "deleted"}
        BY <2>4, <4>1, <4>2, <4>3 DEF WithStatuses
      <4> QED BY <4>1, <4>4 DEF Quiet
    <3>2. ~(SameBatch(c) /\ ~Due(c, statBatch[c]))
      <4> SUFFICES ASSUME SameBatch(c) PROVE Due(c, statBatch[c])
        OBVIOUS
      <4>1. Cardinality(statusBatch[c]) <= Cardinality(statBatch[c])
        BY <3>1, NoMoreVerdicts
      <4>2. Cardinality(statBatch[c]) \in Nat /\ Cardinality(statusBatch[c]) \in Nat /\ BatchSize \in Nat
        BY BatchesFinite, TaskConsumerAssumption
      <4> QED BY <2>4, <4>1, <4>2 DEF Due
    <3>3. statBatch[c] = {} /\ \A r \in statusBatch[c] : Saved(r.task)
      BY <2>1, <3>1, <3>2 DEF ReportFirst, FlushFirst
    <3>4. ASSUME NEW t \in Tasks, taskStatus'[t] = "complete" PROVE Saved(t)'
      <4>1. taskStatus[t] = "complete" \/ [task |-> t, err |-> FALSE] \in statusBatch[c]
        BY <2>4, <3>4 DEF WithStatuses
      <4>2. Saved(t)
        BY <3>3, <4>1 DEF ReportFirst
      <4> QED BY <2>1, <4>2 DEF Saved
    <3>5. statusBatch'[c] = {} /\ \A d \in Replicas \ {c} : statusBatch'[d] = statusBatch[d]
      BY <1>0, <2>4
    <3>6. ASSUME NEW d \in Replicas PROVE FlushFirst(d)'
      <4>1. CASE d = c
        BY <2>1, <2>2, <3>3, <3>5, <4>1 DEF FlushFirst, SameBatch
      <4>2. CASE d # c
        <5>1. d \in Replicas \ {c} /\ FlushFirst(d)
          BY <4>2 DEF ReportFirst
        <5>2. \A t \in Tasks : Saved(t) => Saved(t)'
          BY <2>1 DEF Saved
        <5> QED BY <2>1, <2>2, <3>5, <5>1, <5>2, FlushKept
      <4> QED BY <4>1, <4>2
    <3> QED BY <3>4, <3>6 DEF ReportFirst
  <2> QED BY <2>1, <2>3, <2>4
<1>10. ASSUME NEW c \in Replicas, Crash(c) \/ Restart(c) PROVE ReportFirst'
  <2>1. /\ UNCHANGED <<taskStatus, saves, flush>>
        /\ statBatch' = [statBatch EXCEPT ![c] = {}] /\ statusBatch' = [statusBatch EXCEPT ![c] = {}]
    BY <1>10 DEF Crash, Restart, Forget
  <2>2. pc'[c] # "statuses" /\ \A d \in Replicas \ {c} : pc'[d] = pc[d]
    BY <1>0, <1>10 DEF Crash, Restart, Goto
  <2>3. /\ statBatch'[c] = {} /\ statusBatch'[c] = {}
        /\ \A d \in Replicas \ {c} : statusBatch'[d] = statusBatch[d] /\ statBatch'[d] = statBatch[d]
    BY <1>0, <2>1
  <2>4. FlushFirst(c)'
    BY <2>2, <2>3 DEF FlushFirst, SameBatch
  <2> QED BY <1>6, <2>1, <2>2, <2>3, <2>4
<1> QED
  BY <1>1, <1>2, <1>3, <1>4, <1>5, <1>7, <1>8, <1>9, <1>10 DEF Next, RunStep

(* No step takes back a fault, and a row that failed or was deleted stays so or is deleted. *)
LEMMA QuietBefore ==
  ASSUME TypeOK, [Next]_vars, Quiet',
         [\A t \in Tasks : taskStatus'[t] # taskStatus[t] => <<taskStatus[t], taskStatus'[t]>> \in Lifecycle]_vars
  PROVE  Quiet
<1> USE DEF tableVars, poolVars, batches, stored, control
<1>1. faults' = faults \/ faults' = faults + 1
  BY DEF Next, vars, PassTime, Tick, Produce, Work, SaveScrapeTasks, sendBatch, Fault, WorkerStep, RunStep,
         GetScrapeTasks, SubmitNext, SaveReports, UpdateTaskStatuses, SaveOrUpdateTargetGroups, PoolStopped,
         TaskTick, ReceiveResult, FlushTick, StopSignal, Stop, Crash, Restart, SetLeader
<1>2. ASSUME NEW t \in Tasks, taskStatus[t] \in {"error", "deleted"} PROVE taskStatus'[t] \in {"error", "deleted"}
  <2>1. taskStatus'[t] # taskStatus[t] => <<taskStatus[t], taskStatus'[t]>> \in Lifecycle
    BY DEF vars
  <2> QED BY <1>2, <2>1 DEF Lifecycle
<1> QED BY <1>1, <1>2 DEF Quiet, TypeOK, TableTypeOK

(***************************************************************************)
(* The order of the three saves, for any tasks, replicas and batch sizes,  *)
(* batches that fill up included: a crash at any point leaves no complete  *)
(* task without its report, until a storage call or a scrape has failed    *)
(* (SaveReports before UpdateTaskStatuses in every flush of Run).          *)
(***************************************************************************)
THEOREM ReportsBeforeStatuses == Spec => []ReportBeforeStatus
<1> DEFINE J == Quiet => ReportFirst
           Forward == \A t \in Tasks :
             taskStatus'[t] # taskStatus[t] => <<taskStatus[t], taskStatus'[t]>> \in Lifecycle
<1>1. Init => J
  BY DEF Init, TableInit, ReportFirst, FlushFirst, SameBatch
<1>2. TypeOK /\ PipelineInv /\ J /\ [Next]_vars /\ [Forward]_vars => J'
  BY ReportFirstStep, QuietBefore
<1>3. J => ReportBeforeStatus
  BY DEF Quiet, ReportFirst, ReportBeforeStatus, Saved
<1>4. Spec => [][Forward]_vars
  BY StatusesMoveForward DEF StatusLifecycle
<1> HIDE DEF J, Forward
<1> QED BY <1>1, <1>2, <1>3, <1>4, TypeCorrect, PipelineInvariant, PTL DEF Spec

----------------------------------------------------------------------------
(* A crash or a stop signal is behind every cancelled pool and every dead replica. *)
StoppedInv ==
  /\ LossHasCause
  /\ stopCh # {} \/ cancelled # {} \/ (\E c \in Replicas : ~Alive(c) \/ pc[c] = "stopping" \/ flush[c] = "exit")
       => outages > 0

LEMMA StoppedStep ==
  ASSUME TypeOK, StoppedInv, [Next]_vars
  PROVE  StoppedInv'
<1>0. /\ outages \in Nat /\ faults \in Nat
      /\ pc \in [Replicas -> Places] /\ flush \in [Replicas -> Flushes]
  BY DEF TypeOK, TableTypeOK
<1> USE DEF tableVars, poolVars, batches, stored, control, Goto, Alive, Fault, Outage
<1>1. CASE PassTime \/ UNCHANGED vars
  BY <1>1 DEF PassTime, Tick, vars, StoppedInv, LossHasCause
<1>2. ASSUME NEW c \in Replicas, Produce(c) PROVE StoppedInv'
  BY <1>0, <1>2 DEF Produce, Work, SaveScrapeTasks, sendBatch, StoppedInv, LossHasCause
<1>3. ASSUME NEW c \in Replicas, WorkerStep(c) PROVE StoppedInv'
  <2>1. cancelled' = cancelled /\ (cancelled # {} \/ lost' = lost)
    BY <1>3 DEF WorkerStep, Process, SendResult, DropResult, WorkerExit
  <2>2. UNCHANGED <<faults, pc, flush, stopCh, outages>>
    BY <1>3 DEF WorkerStep
  <2> QED BY <2>1, <2>2 DEF StoppedInv, LossHasCause
<1>4. ASSUME NEW c \in Replicas, GetScrapeTasks(c) PROVE StoppedInv'
  <2>1. /\ UNCHANGED <<flush, stopCh, outages, cancelled>>
        /\ pc' = [pc EXCEPT ![c] = "select"] \/ pc' = [pc EXCEPT ![c] = "submit"]
        /\ (faults' = faults /\ lost' = lost) \/ faults' = faults + 1
    BY <1>4 DEF GetScrapeTasks
  <2> QED BY <1>0, <2>1 DEF StoppedInv, LossHasCause
<1>5. ASSUME NEW c \in Replicas, SubmitNext(c) \/ TaskTick(c) \/ FlushTick(c) PROVE StoppedInv'
  <2>1. /\ UNCHANGED <<stopCh, outages, cancelled, faults, lost>>
        /\ \E place \in {"select", "submit", "claim", "reports"} : pc' = [pc EXCEPT ![c] = place]
        /\ flush' = flush \/ flush' = [flush EXCEPT ![c] = "tick"]
    BY <1>5 DEF SubmitNext, Submit, TaskTick, FlushTick
  <2> QED BY <1>0, <2>1 DEF StoppedInv, LossHasCause
<1>6. ASSUME NEW c \in Replicas, ReceiveResult(c) PROVE StoppedInv'
  BY <1>0, <1>6 DEF ReceiveResult, StoppedInv, LossHasCause
<1>7. ASSUME NEW c \in Replicas, SaveReports(c) \/ UpdateTaskStatuses(c) PROVE StoppedInv'
  <2>1. /\ UNCHANGED <<stopCh, outages, cancelled, flush, lost>>
        /\ \E place \in {"statuses", "groups"} : pc' = [pc EXCEPT ![c] = place]
        /\ faults' = faults \/ faults' = faults + 1
    BY <1>7 DEF SaveReports, UpdateTaskStatuses
  <2> QED BY <1>0, <2>1 DEF StoppedInv, LossHasCause
<1>8. ASSUME NEW c \in Replicas, SaveOrUpdateTargetGroups(c) PROVE StoppedInv'
  <2>1. /\ UNCHANGED <<stopCh, outages, cancelled, flush, lost>>
        /\ \/ pc' = [pc EXCEPT ![c] = "select"]
           \/ flush[c] = "exit" /\ pc' = [pc EXCEPT ![c] = "stopped"]
        /\ faults' = faults \/ faults' = faults + 1
    BY <1>8 DEF SaveOrUpdateTargetGroups, sendBatch
  <2> QED BY <1>0, <2>1 DEF StoppedInv, LossHasCause
<1>9. ASSUME NEW c \in Replicas, PoolStopped(c) \/ StopSignal(c) PROVE StoppedInv'
  BY <1>0, <1>9 DEF PoolStopped, StopSignal, Cancel, StoppedInv, LossHasCause
<1>10. ASSUME NEW c \in Replicas, Stop(c) \/ \E v \in BOOLEAN : SetLeader(c, v) PROVE StoppedInv'
  BY <1>0, <1>10 DEF Stop, SetLeader, StoppedInv, LossHasCause
<1>11. ASSUME NEW c \in Replicas, Crash(c) \/ Restart(c) PROVE StoppedInv'
  <2>1. outages' > 0
    BY <1>0, <1>11 DEF Crash, Restart, StoppedInv
  <2> QED BY <2>1 DEF StoppedInv, LossHasCause
<1> QED
  BY <1>1, <1>2, <1>3, <1>4, <1>5, <1>6, <1>7, <1>8, <1>9, <1>10, <1>11 DEF Next, RunStep

(***************************************************************************)
(* Without an outage and without a failed storage call no task is ever     *)
(* forgotten: the escape that RunningIsAccounted and CompleteIsAccounted   *)
(* leave is taken by nothing else (worker, Run, Stop).                     *)
(***************************************************************************)
THEOREM LossesHaveCauses == Spec => []LossHasCause
<1>1. Init => StoppedInv
  BY DEF Init, PoolInit, StoppedInv, LossHasCause, Alive
<1>2. TypeOK /\ StoppedInv /\ [Next]_vars => StoppedInv'
  BY StoppedStep
<1>3. StoppedInv => LossHasCause
  BY DEF StoppedInv
<1> QED BY <1>1, <1>2, <1>3, TypeCorrect, PTL DEF Spec

----------------------------------------------------------------------------
(***************************************************************************)
(* Why the pipeline implements ScrapeOnce.  A task leaves a trace when its *)
(* report or its target group is saved or in a batch.  Only a task without *)
(* an error leaves one, none does before the consumer has read its result, *)
(* and a verdict that waits to be written contradicts no trace.            *)
(***************************************************************************)
Traced(t) ==
  \/ saves[t] > 0 \/ t \in groups
  \/ \E d \in Replicas : t \in statBatch[d] \/ t \in groupBatch[d]

OutcomeInv ==
  /\ \A t \in Tasks : Traced(t) => taskStatus[t] \in Once!Successful
  /\ \A c \in Replicas : \A t \in Raw(c) : ~Traced(t)
  /\ \A c \in Replicas : \A r \in Scraped(c) : ~Traced(r.task)
  /\ \A c \in Replicas : \A r \in statusBatch[c] : r.err => ~Traced(r.task)

(* A step that leaves no new trace, fails no traced task and moves only tasks without one. *)
LEMMA OutcomeKept ==
  ASSUME TypeOK', OutcomeInv,
         \A t \in Tasks : Traced(t)' => Traced(t),
         \A t \in Tasks : Traced(t) => taskStatus'[t] \in Once!Successful,
         \A d \in Replicas : \A t \in Raw(d)' : ~Traced(t),
         \A d \in Replicas : \A r \in Scraped(d)' : ~Traced(r.task),
         \A d \in Replicas : \A r \in statusBatch'[d] : r.err => ~Traced(r.task)
  PROVE  OutcomeInv'
<1>1. \A d \in Replicas : /\ \A t \in Raw(d)' : t \in Tasks
                          /\ \A r \in Scraped(d)' : r.task \in Tasks
                          /\ \A r \in statusBatch'[d] : r.task \in Tasks
  BY DEF Raw, Scraped, TypeOK, PoolTypeOK, workerResult
<1>2. \A t \in Tasks : Traced(t)' => taskStatus'[t] \in Once!Successful
  OBVIOUS
<1>3. \A d \in Replicas : \A t \in Raw(d)' : ~Traced(t)'
  BY <1>1
<1>4. \A d \in Replicas : \A r \in Scraped(d)' : ~Traced(r.task)'
  BY <1>1
<1>5. \A d \in Replicas : \A r \in statusBatch'[d] : r.err => ~Traced(r.task)'
  BY <1>1
<1> QED BY <1>2, <1>3, <1>4, <1>5 DEF OutcomeInv, Once!Successful

(* What a save of the statuses changes: running rows, each to its verdict in the batch. *)
LEMMA StatusesSaved ==
  ASSUME TypeOK, PipelineInv, NEW c \in Replicas, UpdateTaskStatuses(c), NEW t \in Tasks,
         taskStatus'[t] # taskStatus[t]
  PROVE  /\ taskStatus[t] = "running"
         /\ \E r \in statusBatch[c] : r.task = t /\ taskStatus'[t] = VerdictStatus(r)
<1>1. taskStatus'[t] = WithStatuses(statusBatch[c])[t]
  BY DEF UpdateTaskStatuses
<1>2. PICK r \in statusBatch[c] : r.task = t /\ taskStatus'[t] = VerdictStatus(r)
  BY <1>1 DEF WithStatuses, VerdictStatus
<1>3. taskStatus[t] \in {"running", "deleted"} /\ taskStatus[t] # "deleted"
  BY <1>1, <1>2 DEF PipelineInv, WorkInv, WithStatuses
<1> QED BY <1>2, <1>3

(* Every step keeps the traces and the verdicts consistent. *)
LEMMA OutcomeStep ==
  ASSUME TypeOK, TypeOK', PipelineInv, OutcomeInv, [Next]_vars
  PROVE  OutcomeInv'
<1> USE DEF tableVars, poolVars, batches, stored, control
<1>0. /\ DOMAIN statBatch = Replicas /\ DOMAIN statusBatch = Replicas /\ DOMAIN groupBatch = Replicas
      /\ DOMAIN queue = Replicas /\ DOMAIN processing = Replicas
      /\ DOMAIN sending = Replicas /\ DOMAIN results = Replicas
  BY DEF TypeOK, PoolTypeOK
<1>1. \A t \in Tasks : taskStatus[t] = "pending" => ~Traced(t)
  BY DEF OutcomeInv, Once!Successful
<1>2. CASE UNCHANGED <<taskStatus, queue, processing, sending, results, batches, stored>>
  BY <1>2 DEF OutcomeInv, Raw, Scraped, Traced
<1>3. ASSUME NEW c \in Replicas, Produce(c) PROVE OutcomeInv'
  <2>1. UNCHANGED <<queue, processing, sending, results, batches, stored>>
    BY <1>3 DEF Produce
  <2>2. \A t \in Tasks : \/ taskStatus'[t] = taskStatus[t]
                         \/ taskStatus'[t] = "deleted"
                         \/ taskStatus[t] = "absent"
    BY <1>3 DEF Produce, Work, SaveScrapeTasks, SetStatus, PipelineInv, InsertInv
  <2>3. \A t \in Tasks : Traced(t) => taskStatus'[t] \in Once!Successful
    BY <2>2 DEF OutcomeInv, Once!Successful
  <2>4. \A t : Traced(t)' <=> Traced(t)
    BY <2>1 DEF Traced
  <2>5. \A d \in Replicas : Raw(d)' = Raw(d) /\ Scraped(d)' = Scraped(d)
    BY <2>1 DEF Raw, Scraped
  <2> QED BY <2>1, <2>3, <2>4, <2>5, OutcomeKept DEF OutcomeInv
<1>4. ASSUME NEW c \in Replicas, WorkerStep(c) PROVE OutcomeInv'
  <2>1. UNCHANGED <<taskStatus, queue, batches, stored>>
    BY <1>4 DEF WorkerStep
  <2>2. \A t : Traced(t)' <=> Traced(t)
    BY <2>1 DEF Traced
  <2>3. \A d \in Replicas : Raw(d)' \subseteq Raw(d)
    BY <1>0, <1>4, <2>1 DEF WorkerStep, Process, SendResult, DropResult, WorkerExit, Raw
  <2>4. \A d \in Replicas : \A r \in Scraped(d)' : r \in Scraped(d) \/ r.task \in Raw(d)
    <3>1. ASSUME NEW m \in processing[c], Process(c, m)
          PROVE  \A d \in Replicas : \A r \in Scraped(d)' : r \in Scraped(d) \/ r.task \in Raw(d)
      <4>1. PICK new : /\ new.task = m /\ results' = results
                       /\ sending' = [sending EXCEPT ![c] = @ \union {new}]
        BY <3>1 DEF Process
      <4> QED BY <1>0, <4>1 DEF Scraped, Raw
    <3>2. ASSUME NEW res \in sending[c], SendResult(c, res)
          PROVE  \A d \in Replicas : \A r \in Scraped(d)' : r \in Scraped(d)
      BY <1>0, <3>2 DEF SendResult, Scraped
    <3>3. ASSUME NEW res \in sending[c], DropResult(c, res)
          PROVE  \A d \in Replicas : \A r \in Scraped(d)' : r \in Scraped(d)
      BY <1>0, <3>3 DEF DropResult, Scraped
    <3>4. CASE WorkerExit(c)
      BY <3>4 DEF WorkerExit, Scraped
    <3> QED BY <1>4, <3>1, <3>2, <3>3, <3>4 DEF WorkerStep
  <2> QED BY <2>1, <2>2, <2>3, <2>4, OutcomeKept DEF OutcomeInv
<1>5. ASSUME NEW c \in Replicas, GetScrapeTasks(c) PROVE OutcomeInv'
  <2>1. UNCHANGED <<processing, sending, results, batches, stored>>
    BY <1>5 DEF GetScrapeTasks
  <2>2. ASSUME NEW picked \in Claimable(TasksPerRequest)
        PROVE  picked \in SUBSET Tasks /\ \A t \in picked : taskStatus[t] = "pending"
    BY DEF Claimable, OldestFirst
  <2>3. \A t \in Tasks : taskStatus'[t] = taskStatus[t] \/ taskStatus[t] = "pending"
    BY <1>5, <2>2 DEF GetScrapeTasks, SetStatus
  <2>4. \A d \in Replicas : \A t \in Raw(d)' : t \in Raw(d) \/ (t \in Tasks /\ taskStatus[t] = "pending")
    BY <1>0, <1>5, <2>1, <2>2 DEF GetScrapeTasks, Raw
  <2>5. \A t : Traced(t)' <=> Traced(t)
    BY <2>1 DEF Traced
  <2>6. \A d \in Replicas : Scraped(d)' = Scraped(d)
    BY <2>1 DEF Scraped
  <2> QED BY <1>1, <2>1, <2>3, <2>4, <2>5, <2>6, OutcomeKept DEF OutcomeInv
<1>6. ASSUME NEW c \in Replicas, SubmitNext(c) PROVE OutcomeInv'
  <2>1. /\ UNCHANGED <<taskStatus, sending, results, batches, stored>>
        /\ \E m \in queue[c] : /\ queue' = [queue EXCEPT ![c] = @ \ {m}]
                               /\ processing' = [processing EXCEPT ![c] = @ \union {m}]
    BY <1>6 DEF SubmitNext, Submit
  <2>2. \A d \in Replicas : Raw(d)' \subseteq Raw(d) /\ Scraped(d)' = Scraped(d)
    BY <1>0, <2>1 DEF Raw, Scraped
  <2>3. \A t : Traced(t)' <=> Traced(t)
    BY <2>1 DEF Traced
  <2> QED BY <2>1, <2>2, <2>3, OutcomeKept DEF OutcomeInv
<1>7. ASSUME NEW c \in Replicas, ReceiveResult(c) PROVE OutcomeInv'
  <2>1. PICK res \in results[c] :
          /\ results' = [results EXCEPT ![c] = @ \ {res}]
          /\ statusBatch' = [statusBatch EXCEPT ![c] = @ \union {res}]
          /\ statBatch' = [statBatch EXCEPT ![c] = IF res.err THEN @ ELSE @ \union {res.task}]
          /\ groupBatch' = [groupBatch EXCEPT ![c] = IF res.err THEN @ ELSE @ \union {res.task}]
          /\ UNCHANGED <<taskStatus, queue, processing, sending, stored>>
    BY <1>7 DEF ReceiveResult
  <2>2. /\ res \in Scraped(c) /\ res \in Verdicts(c) /\ res.task \in Tasks /\ res \notin statusBatch[c]
        /\ taskStatus[res.task] \in {"running", "deleted"} /\ res \notin sending[c]
    BY DEF Scraped, Verdicts, PipelineInv, PlaceInv, WorkInv, TypeOK, PoolTypeOK, workerResult
  <2>3. /\ \A d \in Replicas : \A t : t \in statBatch'[d] =>
             t \in statBatch[d] \/ (~res.err /\ t = res.task)
        /\ \A d \in Replicas : \A t : t \in groupBatch'[d] =>
             t \in groupBatch[d] \/ (~res.err /\ t = res.task)
    BY <1>0, <2>1
  <2>4. \A t : Traced(t)' => Traced(t) \/ (~res.err /\ t = res.task)
    BY <2>1, <2>3 DEF Traced
  <2>5. \A d \in Replicas : /\ Raw(d)' = Raw(d)
                            /\ \A r \in Scraped(d)' : r \in Scraped(d) /\ ~(d = c /\ r = res)
    BY <1>0, <2>1, <2>2 DEF Raw, Scraped
  <2>6. /\ \A d \in Replicas : \A t \in Raw(d) : res.task # t
        /\ \A d \in Replicas : \A r \in Scraped(d)' : r.task # res.task
        /\ \A d \in Replicas : \A r \in statusBatch[d] : r.task # res.task
    <3>1. \A d \in Replicas : \A t \in Raw(d) : res.task # t
      BY <2>2 DEF PipelineInv, PlaceInv
    <3>2. \A d \in Replicas : \A r \in Verdicts(d) : r.task = res.task => d = c /\ r = res
      BY <2>2 DEF PipelineInv, PlaceInv
    <3>3. \A d \in Replicas : \A r \in Scraped(d)' : r.task # res.task
      BY <2>5, <3>2 DEF Verdicts
    <3>4. \A d \in Replicas : \A r \in statusBatch[d] : r.task # res.task
      BY <2>2, <3>2 DEF Verdicts
    <3> QED BY <3>1, <3>3, <3>4
  <2>7. \A t \in Tasks : Traced(t)' => taskStatus'[t] \in Once!Successful
    BY <2>1, <2>2, <2>4 DEF OutcomeInv, Once!Successful
  <2>8. \A d \in Replicas : \A t \in Raw(d)' : ~Traced(t)'
    BY <2>4, <2>5, <2>6 DEF OutcomeInv
  <2>9. \A d \in Replicas : \A r \in Scraped(d)' : ~Traced(r.task)'
    BY <2>4, <2>5, <2>6 DEF OutcomeInv
  <2>10. \A d \in Replicas : \A r \in statusBatch'[d] : r.err => ~Traced(r.task)'
    <3> SUFFICES ASSUME NEW d \in Replicas, NEW r \in statusBatch'[d], r.err, Traced(r.task)' PROVE FALSE
      OBVIOUS
    <3>1. Traced(r.task) \/ (~res.err /\ r.task = res.task)
      BY <2>4
    <3>2. CASE r \in statusBatch[d]
      BY <2>6, <3>1, <3>2 DEF OutcomeInv
    <3>3. CASE r = res
      <4>1. r \in Scraped(c)
        BY <2>2, <3>3
      <4>2. Traced(r.task)
        BY <3>1, <3>3
      <4> QED BY <4>1, <4>2 DEF OutcomeInv
    <3>4. r \in statusBatch[d] \/ r = res
      BY <1>0, <2>1
    <3> QED BY <3>2, <3>3, <3>4
  <2> QED BY <2>7, <2>8, <2>9, <2>10 DEF OutcomeInv, Once!Successful
<1>8. ASSUME NEW c \in Replicas, SaveReports(c) PROVE OutcomeInv'
  <2>1. UNCHANGED <<taskStatus, queue, processing, sending, results, statusBatch, groupBatch, groups>>
    BY <1>8 DEF SaveReports
  <2>2. /\ \A t \in Tasks : saves'[t] > 0 => saves[t] > 0 \/ t \in statBatch[c]
        /\ \A d \in Replicas : statBatch'[d] \subseteq statBatch[d]
    BY <1>0, <1>8 DEF SaveReports
  <2>3. \A t \in Tasks : Traced(t)' => Traced(t)
    BY <2>1, <2>2 DEF Traced
  <2>4. \A d \in Replicas : Raw(d)' = Raw(d) /\ Scraped(d)' = Scraped(d)
    BY <2>1 DEF Raw, Scraped
  <2> QED BY <2>1, <2>3, <2>4, OutcomeKept DEF OutcomeInv
<1>9. ASSUME NEW c \in Replicas, SaveOrUpdateTargetGroups(c) PROVE OutcomeInv'
  <2>1. UNCHANGED <<taskStatus, queue, processing, sending, results, statusBatch, statBatch, saves>>
    BY <1>9 DEF SaveOrUpdateTargetGroups
  <2>2. /\ \A t \in groups' : t \in groups \/ t \in groupBatch[c]
        /\ \A d \in Replicas : groupBatch'[d] \subseteq groupBatch[d]
    BY <1>0, <1>9 DEF SaveOrUpdateTargetGroups
  <2>3. \A t \in Tasks : Traced(t)' => Traced(t)
    BY <2>1, <2>2 DEF Traced
  <2>4. \A d \in Replicas : Raw(d)' = Raw(d) /\ Scraped(d)' = Scraped(d)
    BY <2>1 DEF Raw, Scraped
  <2> QED BY <2>1, <2>3, <2>4, OutcomeKept DEF OutcomeInv
<1>10. ASSUME NEW c \in Replicas, UpdateTaskStatuses(c) PROVE OutcomeInv'
  <2>1. UNCHANGED <<queue, processing, sending, results, statBatch, groupBatch, stored>>
    BY <1>10 DEF UpdateTaskStatuses
  <2>2. \A d \in Replicas : statusBatch'[d] \subseteq statusBatch[d]
    BY <1>0, <1>10 DEF UpdateTaskStatuses
  <2>3. ASSUME NEW t \in Tasks, Traced(t) PROVE taskStatus'[t] \in Once!Successful
    <3>1. CASE taskStatus'[t] = taskStatus[t]
      BY <2>3, <3>1 DEF OutcomeInv
    <3>2. CASE taskStatus'[t] # taskStatus[t]
      <4>1. PICK r \in statusBatch[c] : r.task = t /\ taskStatus'[t] = VerdictStatus(r)
        BY <1>10, <3>2, StatusesSaved
      <4>2. ~r.err
        BY <2>3, <4>1 DEF OutcomeInv
      <4> QED BY <4>1, <4>2 DEF VerdictStatus, Once!Successful
    <3> QED BY <3>1, <3>2
  <2>4. \A t : Traced(t)' <=> Traced(t)
    BY <2>1 DEF Traced
  <2>5. \A d \in Replicas : Raw(d)' = Raw(d) /\ Scraped(d)' = Scraped(d)
    BY <2>1 DEF Raw, Scraped
  <2> QED BY <2>2, <2>3, <2>4, <2>5, OutcomeKept DEF OutcomeInv
<1>11. ASSUME NEW c \in Replicas, Crash(c) \/ Restart(c) PROVE OutcomeInv'
  <2>1. Forget(c) /\ UNCHANGED <<taskStatus, stored>>
    BY <1>11 DEF Crash, Restart
  <2>2. \A d \in Replicas : /\ queue'[d] \subseteq queue[d] /\ processing'[d] \subseteq processing[d]
                            /\ sending'[d] \subseteq sending[d] /\ results'[d] \subseteq results[d]
                            /\ statBatch'[d] \subseteq statBatch[d] /\ groupBatch'[d] \subseteq groupBatch[d]
                            /\ statusBatch'[d] \subseteq statusBatch[d]
    BY <1>0, <2>1 DEF Forget, ResetPool
  <2>3. \A t : Traced(t)' => Traced(t)
    BY <2>1, <2>2 DEF Traced
  <2>4. \A d \in Replicas : Raw(d)' \subseteq Raw(d) /\ Scraped(d)' \subseteq Scraped(d)
    BY <2>2 DEF Raw, Scraped
  <2> QED BY <2>1, <2>2, <2>3, <2>4, OutcomeKept DEF OutcomeInv
<1>12. CASE PassTime \/ UNCHANGED vars
  BY <1>2, <1>12 DEF PassTime, Tick, vars
<1>13. ASSUME NEW c \in Replicas,
              \/ PoolStopped(c) \/ TaskTick(c) \/ FlushTick(c) \/ StopSignal(c) \/ Stop(c)
              \/ \E v \in BOOLEAN : SetLeader(c, v)
       PROVE  OutcomeInv'
  BY <1>2, <1>13 DEF PoolStopped, TaskTick, FlushTick, StopSignal, Stop, Cancel, SetLeader
<1> QED
  BY <1>3, <1>4, <1>5, <1>6, <1>7, <1>8, <1>9, <1>10, <1>11, <1>12, <1>13 DEF Next, RunStep

(* Every reachable state keeps its promises about traces and verdicts. *)
LEMMA OutcomeInvariant == Spec => []OutcomeInv
<1>1. Init => OutcomeInv
  BY DEF Init, PoolInit, OutcomeInv, Traced, Raw, Scraped
<1>2. TypeOK /\ TypeOK' /\ PipelineInv /\ OutcomeInv /\ [Next]_vars => OutcomeInv'
  BY OutcomeStep
<1> QED BY <1>1, <1>2, TypeCorrect, PipelineInvariant, PTL DEF Spec

(* A step that changes no status and nothing stored, or only deletes, inserts or claims. *)
LEMMA RowsImplementOnce ==
  ASSUME TypeOK, PipelineInv, NEW c \in Replicas, Produce(c) \/ GetScrapeTasks(c)
  PROVE  [Once!Next]_(Once!vars)
<1> USE DEF stored
<1>1. UNCHANGED <<saves, groups>>
  BY DEF Produce, GetScrapeTasks
<1>2. taskStatus' = taskStatus => UNCHANGED Once!vars
  BY <1>1 DEF Once!vars
<1>3. ASSUME NEW S \in SUBSET Tasks, taskStatus' = SetStatus(S, "deleted"),
             \A t \in S : taskStatus[t] \in {"running", "complete", "error", "deleted"}
      PROVE  Once!Next
  <2>1. Once!Delete(S)
    BY <1>1, <1>3 DEF SetStatus, Once!Delete, Once!All, Once!Become
  <2> QED BY <2>1 DEF Once!Next
<1>4. ASSUME NEW S \in SUBSET Tasks, taskStatus' = SetStatus(S, "pending"),
             \A t \in S : taskStatus[t] = "absent"
      PROVE  Once!Next
  <2>1. Once!Insert(S)
    BY <1>1, <1>4 DEF SetStatus, Once!Insert, Once!All, Once!Become
  <2> QED BY <2>1 DEF Once!Next
<1>5. ASSUME NEW S \in SUBSET Tasks, taskStatus' = SetStatus(S, "running"),
             \A t \in S : taskStatus[t] = "pending"
      PROVE  Once!Next
  <2>1. Once!Claim(S)
    BY <1>1, <1>5 DEF SetStatus, Once!Claim, Once!All, Once!Become
  <2> QED BY <2>1 DEF Once!Next
<1>6. ASSUME NEW S \in SUBSET Fresh, Work(c, S) PROVE [Once!Next]_(Once!vars)
  <2>1. taskStatus' = taskStatus \/ taskStatus' = SetStatus(CleanedUp, "deleted")
    BY <1>6 DEF Work
  <2>2. /\ CleanedUp \in SUBSET Tasks
        /\ \A t \in CleanedUp : taskStatus[t] \in {"running", "complete", "error", "deleted"}
    BY DEF CleanedUp, TypeOK, TableTypeOK, TaskStatuses
  <2> QED BY <1>2, <1>3, <2>1, <2>2
<1>7. ASSUME SaveScrapeTasks(c) PROVE [Once!Next]_(Once!vars)
  <2>1. PICK chunk \in SUBSET toInsert[c] : taskStatus' = taskStatus \/ taskStatus' = SetStatus(chunk, "pending")
    BY <1>7 DEF SaveScrapeTasks
  <2>2. chunk \in SUBSET Tasks /\ \A t \in chunk : taskStatus[t] = "absent"
    BY DEF TypeOK, TableTypeOK, PipelineInv, InsertInv
  <2> QED BY <1>2, <1>4, <2>1, <2>2
<1>8. ASSUME GetScrapeTasks(c) PROVE [Once!Next]_(Once!vars)
  <2>1. ASSUME NEW picked \in Claimable(TasksPerRequest), taskStatus' = SetStatus(picked, "running")
        PROVE  Once!Next
    <3>1. picked \in SUBSET Tasks /\ \A t \in picked : taskStatus[t] = "pending"
      BY DEF Claimable, OldestFirst
    <3> QED BY <1>5, <2>1, <3>1
  <2>2. \/ taskStatus' = taskStatus
        \/ \E picked \in Claimable(TasksPerRequest) : taskStatus' = SetStatus(picked, "running")
    BY <1>8 DEF GetScrapeTasks
  <2> QED BY <1>2, <2>1, <2>2
<1> QED BY <1>6, <1>7, <1>8 DEF Produce

(* A save of reports or target groups stores what tasks without an error left behind. *)
LEMMA SavesImplementOnce ==
  ASSUME TypeOK, OutcomeInv, NEW c \in Replicas, SaveReports(c) \/ SaveOrUpdateTargetGroups(c)
  PROVE  [Once!Next]_(Once!vars)
<1>1. /\ statBatch[c] \in SUBSET Tasks /\ Once!All(statBatch[c], Once!Successful)
      /\ groupBatch[c] \in SUBSET Tasks /\ Once!All(groupBatch[c], Once!Successful)
  BY DEF TypeOK, OutcomeInv, Traced, Once!All
<1>2. CASE SaveReports(c)
  <2>1. UNCHANGED <<taskStatus, groups>>
    BY <1>2 DEF SaveReports, tableVars
  <2>2. CASE saves' = saves
    BY <2>1, <2>2 DEF Once!vars
  <2>3. CASE saves' = [t \in Tasks |-> IF t \in statBatch[c] THEN saves[t] + 1 ELSE saves[t]]
    <3>1. Once!Report(statBatch[c])
      BY <1>1, <2>1, <2>3 DEF Once!Report
    <3> QED BY <1>1, <3>1 DEF Once!Next
  <2> QED BY <1>2, <2>2, <2>3 DEF SaveReports
<1>3. CASE SaveOrUpdateTargetGroups(c)
  <2>1. UNCHANGED <<taskStatus, saves>>
    BY <1>3 DEF SaveOrUpdateTargetGroups, tableVars
  <2>2. groups' = groups \/ \E part \in SUBSET groupBatch[c] : groups' = groups \union part
    BY <1>3 DEF SaveOrUpdateTargetGroups
  <2>3. ASSUME NEW part \in SUBSET groupBatch[c], groups' = groups \union part PROVE Once!Next
    <3>1. Once!StoreGroups(part)
      BY <1>1, <2>1, <2>3 DEF Once!StoreGroups, Once!All
    <3>2. part \in SUBSET Tasks
      BY <1>1
    <3> QED BY <3>1, <3>2 DEF Once!Next
  <2> QED BY <2>1, <2>2, <2>3 DEF Once!vars
<1> QED BY <1>2, <1>3

(* A save of the statuses gives running tasks the verdicts of the batch, and fails no traced one. *)
LEMMA StatusesImplementOnce ==
  ASSUME TypeOK, PipelineInv, OutcomeInv, NEW c \in Replicas, UpdateTaskStatuses(c), TypeOK'
  PROVE  [Once!Next]_(Once!vars)
<1> DEFINE changed == {t \in Tasks : taskStatus'[t] # taskStatus[t]}
           ok == {t \in changed : taskStatus'[t] = "complete"}
           failed == {t \in changed : taskStatus'[t] = "error"}
<1>1. UNCHANGED <<saves, groups>>
  BY DEF UpdateTaskStatuses, stored
<1>2. \A t \in changed : taskStatus[t] = "running" /\ taskStatus'[t] \in {"complete", "error"}
  BY StatusesSaved DEF VerdictStatus
<1>3. ASSUME NEW t \in failed PROVE ~Traced(t)
  <2>1. PICK r \in statusBatch[c] : r.task = t /\ taskStatus'[t] = VerdictStatus(r)
    BY StatusesSaved
  <2>2. r.err
    BY <2>1 DEF VerdictStatus
  <2> QED BY <2>1, <2>2, Zenon DEF OutcomeInv
<1>4. \A t \in failed : saves[t] = 0 /\ t \notin groups
  <2>1. \A t \in Tasks : saves[t] \in Nat
    BY DEF TypeOK
  <2> QED BY <1>3, <2>1 DEF Traced
<1>5. taskStatus' = [t \in Tasks |-> IF t \in ok THEN "complete"
                                     ELSE IF t \in failed THEN "error" ELSE taskStatus[t]]
  <2>1. taskStatus' \in [Tasks -> TaskStatuses]
    BY DEF TypeOK, TableTypeOK
  <2> QED BY <1>2, <2>1
<1>6. Once!All(ok \union failed, {"running"}) /\ ok \intersect failed = {}
  BY <1>2 DEF Once!All
<1>7. ok \in SUBSET Tasks /\ failed \in SUBSET Tasks
  OBVIOUS
<1> HIDE DEF ok, failed
<1>8. Once!Settle(ok, failed)
  BY <1>1, <1>4, <1>5, <1>6 DEF Once!Settle
<1> QED BY <1>7, <1>8 DEF Once!Next

(***************************************************************************)
(* The pipeline implements one scrape per task, for any number of          *)
(* replicas, workers and tasks: however claims, saves that failed or were  *)
(* repeated, crashes and the cleanup interleave, each task is claimed once *)
(* and gets one verdict, and no report or target group is stored of a task *)
(* that failed (Run and its flush, Produce).                               *)
(***************************************************************************)
THEOREM PipelineImplementsScrapeOnce == Spec => ImplementsScrapeOnce
<1>1. Init => Once!Init
  BY DEF Init, TableInit, Once!Init
<1>2. TypeOK /\ TypeOK' /\ PipelineInv /\ OutcomeInv /\ [Next]_vars => [Once!Next]_(Once!vars)
  <2> SUFFICES ASSUME TypeOK, TypeOK', PipelineInv, OutcomeInv, [Next]_vars PROVE [Once!Next]_(Once!vars)
    OBVIOUS
  <2>1. CASE UNCHANGED <<taskStatus, saves, groups>>
    BY <2>1 DEF Once!vars
  <2>2. CASE PassTime \/ UNCHANGED vars
    BY <2>1, <2>2 DEF PassTime, Tick, vars, tableVars, stored
  <2>3. ASSUME NEW c \in Replicas,
               \/ WorkerStep(c) \/ SubmitNext(c) \/ PoolStopped(c) \/ TaskTick(c) \/ ReceiveResult(c)
               \/ FlushTick(c) \/ StopSignal(c) \/ Stop(c) \/ Crash(c) \/ Restart(c)
               \/ \E v \in BOOLEAN : SetLeader(c, v)
        PROVE  UNCHANGED <<taskStatus, saves, groups>>
    BY <2>3 DEF WorkerStep, SubmitNext, PoolStopped, TaskTick, ReceiveResult, FlushTick, StopSignal, Stop,
                Crash, Restart, SetLeader, tableVars, stored
  <2> QED
    BY <2>1, <2>2, <2>3, RowsImplementOnce, SavesImplementOnce, StatusesImplementOnce DEF Next, RunStep
<1> QED
  BY <1>1, <1>2, TypeCorrect, PipelineInvariant, OutcomeInvariant, PTL DEF Spec, ImplementsScrapeOnce, Once!Spec
=============================================================================
