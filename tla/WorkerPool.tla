----------------------------- MODULE WorkerPool -----------------------------
(***************************************************************************)
(* The worker pool of each replica (internal/scraper/worker_pool.go).      *)
(*                                                                         *)
(* The workers of a pool are interchangeable, so a pool is what its        *)
(* workers are at: scraping a task, or blocked in the send of its result.  *)
(* `jobs' is unbuffered: a submit is a rendezvous with an idle worker.     *)
(* `results' holds as many results as there are workers; their order is    *)
(* left open.                                                              *)
(***************************************************************************)
EXTENDS Service, Naturals, FiniteSets

CONSTANTS
  Workers,  \* the `workers' argument of NewWorkerPool
  Silent    \* tasks with an address that takes the request and never answers

ASSUME WorkerPoolAssumption == Workers \in Nat \ {0} /\ Silent \subseteq Tasks

VARIABLES
  processing,  \* per replica: tasks its workers are scraping
  sending,     \* per replica: results its workers are trying to send
  results,     \* per replica: the buffered channel `results'
  exited,      \* per replica: workers that have returned
  cancelled    \* the replicas whose pool has been cancelled

poolVars == <<processing, sending, results, exited, cancelled>>

workerResult == [task : Tasks, err : BOOLEAN]

PoolTypeOK ==
  /\ processing \in [Replicas -> SUBSET Tasks]
  /\ sending \in [Replicas -> SUBSET workerResult]
  /\ results \in [Replicas -> SUBSET workerResult]
  /\ exited \in [Replicas -> Nat]
  /\ cancelled \in SUBSET Replicas

PoolInit ==
  /\ processing = [c \in Replicas |-> {}]
  /\ sending = [c \in Replicas |-> {}]
  /\ results = [c \in Replicas |-> {}]
  /\ exited = [c \in Replicas |-> 0]
  /\ cancelled = {}

HasIdleWorker(c) == Cardinality(processing[c]) + Cardinality(sending[c]) + exited[c] < Workers

TasksOf(S) == {res.task : res \in S}

(* What would be forgotten if the pool went away. *)
InPool(c) == processing[c] \union TasksOf(sending[c]) \union TasksOf(results[c])

(* A task passes from the consumer to an idle worker. *)
Submit(c, t) ==
  /\ HasIdleWorker(c) /\ c \notin cancelled
  /\ processing' = [processing EXCEPT ![c] = @ \union {t}]
  /\ UNCHANGED <<sending, results, exited, cancelled>>

(* Mutant: the request does not carry the context of the pool. *)
ProcessWithoutContext(c, t) ==
  /\ t \in processing[c] \ Silent
  /\ processing' = [processing EXCEPT ![c] = @ \ {t}]
  /\ \E err \in BOOLEAN : sending' = [sending EXCEPT ![c] = @ \union {[task |-> t, err |-> err]}]
  /\ UNCHANGED <<results, exited, cancelled>>

(* Mutant: a scrape that fails sends no result. *)
ProcessDroppingErrors(c, t) ==
  /\ t \in processing[c]
  /\ t \in Silent => c \in cancelled
  /\ processing' = [processing EXCEPT ![c] = @ \ {t}]
  /\ sending' \in {sending, [sending EXCEPT ![c] = @ \union {[task |-> t, err |-> FALSE]}]}
  /\ UNCHANGED <<results, exited, cancelled>>

(* Process returns: a report, or an error when no address answered.  The   *)
(* HTTP client has no timeout: only the cancelled context ends the request *)
(* to a silent address.                                                    *)
Process(c, t) ==
  /\ t \in processing[c]
  /\ t \in Silent => c \in cancelled
  /\ processing' = [processing EXCEPT ![c] = @ \ {t}]
  /\ \E err \in BOOLEAN : sending' = [sending EXCEPT ![c] = @ \union {[task |-> t, err |-> err]}]
  /\ UNCHANGED <<results, exited, cancelled>>

SendResult(c, res) ==
  /\ res \in sending[c] /\ Cardinality(results[c]) < Workers
  /\ sending' = [sending EXCEPT ![c] = @ \ {res}]
  /\ results' = [results EXCEPT ![c] = @ \union {res}]
  /\ UNCHANGED <<processing, exited, cancelled>>

(* Mutant: the send does not wait for a full channel. *)
DropResultWhenFull(c, res) ==
  /\ c \in cancelled \/ Cardinality(results[c]) = Workers
  /\ res \in sending[c]
  /\ sending' = [sending EXCEPT ![c] = @ \ {res}]
  /\ exited' = IF c \in cancelled THEN [exited EXCEPT ![c] = @ + 1] ELSE exited
  /\ UNCHANGED <<processing, results, cancelled>>

(* The other branch of that select, once the pool is cancelled. *)
DropResult(c, res) ==
  /\ c \in cancelled /\ res \in sending[c]
  /\ sending' = [sending EXCEPT ![c] = @ \ {res}]
  /\ exited' = [exited EXCEPT ![c] = @ + 1]
  /\ UNCHANGED <<processing, results, cancelled>>

(* An idle worker sees the cancelled context or the closed jobs channel. *)
WorkerExit(c) ==
  /\ c \in cancelled /\ HasIdleWorker(c)
  /\ exited' = [exited EXCEPT ![c] = @ + 1]
  /\ UNCHANGED <<processing, sending, results, cancelled>>

(* WorkerPool.Stop cancels, then waits for Joined. *)
Cancel(c) ==
  /\ cancelled' = cancelled \union {c}
  /\ UNCHANGED <<processing, sending, results, exited>>

Joined(c) == exited[c] = Workers

(* A new process has a new, empty pool. *)
ResetPool(c) ==
  /\ processing' = [processing EXCEPT ![c] = {}]
  /\ sending' = [sending EXCEPT ![c] = {}]
  /\ results' = [results EXCEPT ![c] = {}]
  /\ exited' = [exited EXCEPT ![c] = 0]
  /\ cancelled' = cancelled \ {c}
=============================================================================
