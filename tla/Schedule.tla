------------------------------ MODULE Schedule ------------------------------
(***************************************************************************)
(* The runtime settings in etcd and the produce schedule each replica      *)
(* derives from them (internal/runtimeconfig, internal/scrapetask/         *)
(* scheduler.go, pkg/cron, internal/storage/etcdstorage).                  *)
(*                                                                         *)
(* Every replica bootstraps the two keys when it starts, then schedules    *)
(* the producer job, re-reads the key on a ticker, and serves requests     *)
(* that change it, each in a goroutine of its own.  Each etcd call is a    *)
(* step of its own, and so are the parts of an update of the scheduler,    *)
(* which the goroutines of a replica make one after the other.             *)
(***************************************************************************)
EXTENDS Naturals, FiniteSets

CONSTANTS
  Replicas,
  Handlers,        \* the goroutines that serve PUTs of the schedule
  Specs,           \* the cron expressions both parsers accept, trimmed
  DefaultSpec,     \* Service.defaultCronExpr, trimmed
  Limits,          \* the limits ValidateLimitsConfig accepts
  DefaultLimits,   \* Service.defaultLimits
  Missing,         \* no value: of a key in etcd, a spec, a cron entry
  MaxUpdates,      \* bound: settings requests in a behaviour
  MaxFaults,       \* bound: etcd calls of requests that report an error
  MaxRestarts      \* bound: replicas that die

ASSUME ScheduleAssumption ==
  /\ IsFiniteSet(Replicas) /\ Replicas # {} /\ Handlers \intersect Replicas = {}
  /\ DefaultSpec \in Specs /\ Missing \notin Specs
  /\ DefaultLimits \in Limits /\ Missing \notin Limits
  /\ MaxUpdates \in Nat /\ MaxFaults \in Nat /\ MaxRestarts \in Nat

VARIABLES
  limits,       \* metricCheckLimitsKey in etcd
  spec,         \* scrapeTasksCronKey in etcd
  boot,         \* per replica: how far main has come
  read,         \* per replica: what Init or Sync has read and not applied yet
  currentSpec,  \* per replica: Scheduler.currentSpec
  entry,        \* per replica: the spec of the producer job in its cron
  request,      \* per handler: the SetProduceTasksCronExpr call under way
  updating,     \* per sync loop and handler: how far its UpdateSchedule call has come
  updates, faults, restarts,
  stalePuts,    \* history, per key: defaults written over a value that was already there
  version,      \* history: Puts of the schedule so far
  readVersion,  \* history, per replica: the version that was read
  entryVersion, \* history, per replica: the version in its cron
  overtaken     \* history: sync loops and handlers that another update has overtaken

local == <<read, currentSpec, entry, request, updating>>
counters == <<updates, faults, restarts>>
applied == <<readVersion, entryVersion, overtaken>>
vars == <<limits, spec, boot, local, counters, stalePuts, version, applied>>

Keys == {"limits", "spec"}
BootSteps == {"getLimits", "putLimits", "getSpec", "putSpec", "init", "up"}
Updates == {"none", "add", "set"}
Requests == [at : {"get", "put", "apply"}, replica : Replicas, spec : Specs, version : Nat]

TypeOK ==
  /\ limits \in Limits \union {Missing}
  /\ spec \in Specs \union {Missing}
  /\ boot \in [Replicas -> BootSteps]
  /\ read \in [Replicas -> Specs \union {Missing}]
  /\ currentSpec \in [Replicas -> Specs \union {Missing}]
  /\ entry \in [Replicas -> Specs \union {Missing}]
  /\ request \in [Handlers -> Requests \union {Missing}]
  /\ updating \in [Replicas \union Handlers -> Updates]
  /\ updates \in Nat /\ faults \in Nat /\ restarts \in Nat
  /\ stalePuts \in [Keys -> Nat]
  /\ version \in Nat
  /\ readVersion \in [Replicas -> Nat] /\ entryVersion \in [Replicas -> Nat]
  /\ overtaken \subseteq Replicas \union Handlers

Init ==
  /\ limits = Missing /\ spec = Missing
  /\ boot = [c \in Replicas |-> "getLimits"]
  /\ read = [c \in Replicas |-> Missing]
  /\ currentSpec = [c \in Replicas |-> Missing]
  /\ entry = [c \in Replicas |-> Missing]
  /\ request = [h \in Handlers |-> Missing]
  /\ updating = [a \in Replicas \union Handlers |-> "none"]
  /\ updates = 0 /\ faults = 0 /\ restarts = 0
  /\ stalePuts = [k \in Keys |-> 0]
  /\ version = 0
  /\ readVersion = [c \in Replicas |-> 0] /\ entryVersion = [c \in Replicas |-> 0]
  /\ overtaken = {}

Boot(c, from, to) == boot[c] = from /\ boot' = [boot EXCEPT ![c] = to]

Fault == faults < MaxFaults /\ faults' = faults + 1

----------------------------------------------------------------------------
(* Bootstrap: ensureKey for the limits, then for the schedule; the Get and *)
(* the Put of ensureKey are two calls.                                     *)

PutDefault(k, old) ==
  stalePuts' = [stalePuts EXCEPT ![k] = IF old = Missing THEN @ ELSE @ + 1]

EnsureLimitsGet(c) ==
  /\ Boot(c, "getLimits", IF limits = Missing THEN "putLimits" ELSE "getSpec")
  /\ UNCHANGED <<limits, spec, local, counters, stalePuts, version, applied>>

EnsureLimitsPut(c) ==
  /\ Boot(c, "putLimits", "getSpec")
  /\ limits' = DefaultLimits
  /\ PutDefault("limits", limits)
  /\ UNCHANGED <<spec, local, counters, version, applied>>

(* Mutant: the default is written without looking. *)
EnsureSpecGetBlind(c) ==
  /\ Boot(c, "getSpec", "putSpec")
  /\ UNCHANGED <<limits, spec, local, counters, stalePuts, version, applied>>

EnsureSpecGet(c) ==
  /\ Boot(c, "getSpec", IF spec = Missing THEN "putSpec" ELSE "init")
  /\ UNCHANGED <<limits, spec, local, counters, stalePuts, version, applied>>

EnsureSpecPut(c) ==
  /\ Boot(c, "putSpec", "init")
  /\ spec' = DefaultSpec /\ version' = version + 1
  /\ PutDefault("spec", spec)
  /\ UNCHANGED <<limits, local, counters, applied>>

----------------------------------------------------------------------------
At(h, place) == request[h] # Missing /\ request[h].at = place
On(h, c) == request[h] # Missing /\ request[h].replica = c

(* Who is about to call UpdateSchedule of replica c: its sync loop, its handlers. *)
Pending(c) == {d \in {c} : read[d] # Missing} \union {h \in Handlers : At(h, "apply") /\ On(h, c)}

(* Mutant: UpdateSchedule does not take the lock. *)
LockedNever(c) == FALSE

(* Scheduler.mu of replica c is held. *)
Locked(c) == \E a \in Pending(c) : updating[a] # "none"

(* Mutant: the old entry is not removed before the new one is added. *)
RemoveTaskKeeping(c, s, by) ==
  /\ updating[by] = "none" /\ ~Locked(c) /\ s # currentSpec[c]
  /\ updating' = [updating EXCEPT ![by] = "add"]
  /\ UNCHANGED <<entry, currentSpec>>

(***************************************************************************)
(* Scheduler.UpdateSchedule, called by `by' on replica c.  Under the lock, *)
(* a new spec makes it remove the producer job from the cron,              *)
(***************************************************************************)
RemoveTask(c, s, by) ==
  /\ updating[by] = "none" /\ ~Locked(c) /\ s # currentSpec[c]
  /\ updating' = [updating EXCEPT ![by] = "add"]
  /\ entry' = [entry EXCEPT ![c] = Missing]
  /\ UNCHANGED currentSpec

(***************************************************************************)
(* add it with the new spec (the name is free, by ScheduleInStep, and the  *)
(* callers pass specs that runtimeconfig's parser accepted, whose options  *)
(* are those of the cron: AddTask does not fail),                          *)
(***************************************************************************)
AddTask(c, s, by) ==
  /\ updating[by] = "add" /\ entry[c] = Missing
  /\ updating' = [updating EXCEPT ![by] = "set"]
  /\ entry' = [entry EXCEPT ![c] = s]
  /\ UNCHANGED currentSpec

(* remember the spec, and return; a spec that is not new is all right. *)
UpdateReturns(c, s, by) ==
  /\ \/ updating[by] = "none" /\ ~Locked(c) /\ s = currentSpec[c]
     \/ updating[by] = "set"
  /\ updating' = [updating EXCEPT ![by] = "none"]
  /\ currentSpec' = [currentSpec EXCEPT ![c] = s]
  /\ UNCHANGED entry

UpdateSchedule(c, s, by) == RemoveTask(c, s, by) \/ AddTask(c, s, by)

(* History: `by' has given replica c the schedule of version v. *)
Applied(c, by, v) ==
  /\ entryVersion' = [entryVersion EXCEPT ![c] = v]
  /\ overtaken' = (overtaken \union Pending(c)) \ {by}

(* Mutant: the default stands in for a schedule that cannot be read. *)
GetProduceTasksCronExprOrDefault(c) ==
  /\ boot[c] \in {"init", "up"} /\ read[c] = Missing
  /\ \/ read' = [read EXCEPT ![c] = spec] /\ readVersion' = [readVersion EXCEPT ![c] = version]
     \/ read' = [read EXCEPT ![c] = DefaultSpec] /\ readVersion' = [readVersion EXCEPT ![c] = 0]
  /\ UNCHANGED <<limits, spec, boot, currentSpec, entry, request, updating, counters, stalePuts, version,
                 entryVersion, overtaken>>

(* Init, then a tick of the sync loop: the schedule is read ... *)
GetProduceTasksCronExpr(c) ==
  /\ boot[c] \in {"init", "up"} /\ read[c] = Missing
  /\ read' = [read EXCEPT ![c] = spec]
  /\ readVersion' = [readVersion EXCEPT ![c] = version]
  /\ UNCHANGED <<limits, spec, boot, currentSpec, entry, request, updating, counters, stalePuts, version,
                 entryVersion, overtaken>>

(* ... and applied, once the lock is free. *)
SyncUpdates(c) ==
  /\ read[c] # Missing /\ UpdateSchedule(c, read[c], c)
  /\ UNCHANGED <<limits, spec, boot, read, request, counters, stalePuts, version, applied>>

Sync(c) ==
  /\ read[c] # Missing
  /\ UpdateReturns(c, read[c], c) /\ Applied(c, c, readVersion[c])
  /\ read' = [read EXCEPT ![c] = Missing]
  /\ readVersion' = [readVersion EXCEPT ![c] = 0]
  /\ boot' = [boot EXCEPT ![c] = "up"]
  /\ UNCHANGED <<limits, spec, request, counters, stalePuts, version>>

----------------------------------------------------------------------------
Update == updates < MaxUpdates /\ updates' = updates + 1

(* PUT of the limits: validated, one Put, which may commit and report an error. *)
SetMetricLimits(c, l) ==
  /\ boot[c] = "up" /\ Update
  /\ \/ limits' = l /\ UNCHANGED faults
     \/ Fault /\ limits' \in {limits, l}
  /\ UNCHANGED <<spec, boot, local, restarts, stalePuts, version, applied>>

(* PUT of the schedule: an expression that does not parse is refused here. *)
SetProduceTasksCronExpr(h, c, s) ==
  /\ boot[c] = "up" /\ request[h] = Missing /\ Update
  /\ request' = [request EXCEPT ![h] = [at |-> "get", replica |-> c, spec |-> s, version |-> 0]]
  /\ UNCHANGED <<limits, spec, boot, read, currentSpec, entry, updating, faults, restarts, stalePuts, version,
                 applied>>

Done(h) == request' = [request EXCEPT ![h] = Missing]

RequestGet(h) ==
  /\ At(h, "get")
  /\ \/ /\ IF spec = request[h].spec THEN Done(h) ELSE request' = [request EXCEPT ![h].at = "put"]
        /\ UNCHANGED faults
     \/ Fault /\ Done(h)
  /\ UNCHANGED <<limits, spec, boot, read, currentSpec, entry, updating, updates, restarts, stalePuts, version,
                 applied>>

(* A Put that reports an error ends the request; the sync loops see its effect. *)
RequestPut(h) ==
  /\ At(h, "put")
  /\ \/ /\ spec' = request[h].spec /\ version' = version + 1
        /\ request' = [request EXCEPT ![h] = [@ EXCEPT !.at = "apply", !.version = version + 1]]
        /\ UNCHANGED faults
     \/ /\ Fault /\ Done(h)
        /\ \/ spec' = request[h].spec /\ version' = version + 1
           \/ UNCHANGED <<spec, version>>
  /\ UNCHANGED <<limits, boot, read, currentSpec, entry, updating, updates, restarts, stalePuts, applied>>

RequestUpdates(h) ==
  /\ At(h, "apply") /\ UpdateSchedule(request[h].replica, request[h].spec, h)
  /\ UNCHANGED <<limits, spec, boot, read, request, counters, stalePuts, version, applied>>

RequestApply(h) ==
  /\ At(h, "apply")
  /\ UpdateReturns(request[h].replica, request[h].spec, h)
  /\ Applied(request[h].replica, h, request[h].version)
  /\ Done(h)
  /\ UNCHANGED <<limits, spec, boot, read, counters, stalePuts, version, readVersion>>

(* The process dies, or an error of Bootstrap or Init is fatal, and restarts. *)
Restart(c) ==
  /\ boot[c] # "getLimits"
  /\ restarts < MaxRestarts /\ restarts' = restarts + 1
  /\ boot' = [boot EXCEPT ![c] = "getLimits"]
  /\ read' = [read EXCEPT ![c] = Missing]
  /\ currentSpec' = [currentSpec EXCEPT ![c] = Missing]
  /\ entry' = [entry EXCEPT ![c] = Missing]
  /\ request' = [h \in Handlers |-> IF On(h, c) THEN Missing ELSE request[h]]
  /\ updating' = [a \in Replicas \union Handlers |->
                    IF a = c \/ (a \in Handlers /\ On(a, c)) THEN "none" ELSE updating[a]]
  /\ readVersion' = [readVersion EXCEPT ![c] = 0]
  /\ entryVersion' = [entryVersion EXCEPT ![c] = 0]
  /\ overtaken' = overtaken \ ({c} \union {h \in Handlers : On(h, c)})
  /\ UNCHANGED <<limits, spec, updates, faults, stalePuts, version>>

Bootstrap(c) == EnsureLimitsGet(c) \/ EnsureLimitsPut(c) \/ EnsureSpecGet(c) \/ EnsureSpecPut(c)
RunSyncLoop(c) == GetProduceTasksCronExpr(c) \/ SyncUpdates(c) \/ Sync(c)
Serve(h) == RequestGet(h) \/ RequestPut(h) \/ RequestUpdates(h) \/ RequestApply(h)

Next ==
  \/ \E c \in Replicas :
       \/ Bootstrap(c) \/ RunSyncLoop(c) \/ Restart(c)
       \/ \E l \in Limits : SetMetricLimits(c, l)
       \/ \E h \in Handlers, s \in Specs : SetProduceTasksCronExpr(h, c, s)
  \/ \E h \in Handlers : Serve(h)

Spec == Init /\ [][Next]_vars

(***************************************************************************)
(* Fairness.  main comes through its start-up, the ticker of the sync loop *)
(* keeps firing and reads succeed again and again, requests are served.    *)
(***************************************************************************)
Fairness ==
  /\ \A c \in Replicas : WF_vars(Bootstrap(c)) /\ WF_vars(RunSyncLoop(c))
  /\ \A h \in Handlers : WF_vars(Serve(h))

FairSpec == Spec /\ Fairness

----------------------------------------------------------------------------
(***************************************************************************)
(* The scheduler and the cron agree whenever nobody holds the lock: the    *)
(* cron of a replica that is up has the producer job, under the spec new   *)
(* ones are compared with, so that no update is skipped for good because   *)
(* of a spec that is not in the cron.  An update never finds that another  *)
(* one has added the job between its RemoveTask and its AddTask, so that   *)
(* neither rollback is ever taken (UpdateSchedule, which the sync loop and *)
(* several requests of a replica call at once, in parts).                  *)
(***************************************************************************)
ScheduleInStep ==
  \A c \in Replicas :
    /\ ~Locked(c) => entry[c] = currentSpec[c] /\ (boot[c] = "up" => entry[c] # Missing)
    /\ \A a \in Pending(c) : updating[a] = "add" => entry[c] = Missing

(***************************************************************************)
(* A starting replica does not reset the settings.  The Get and the Put of *)
(* ensureKey are not atomic, so that the replicas of the first deployment  *)
(* may write a default over a value set meanwhile, each but the one that   *)
(* created the key; however often replicas restart later, it never happens *)
(* again.                                                                  *)
(***************************************************************************)
DefaultsOnlyAtFirstStart == \A k \in Keys : stalePuts[k] < Cardinality(Replicas)

(***************************************************************************)
(* The schedule of a running replica goes back to an earlier one only when *)
(* the sync loop or a request of that replica applies what it had read or  *)
(* written before another of them applied something newer (UpdateSchedule  *)
(* takes its lock after the read and after the Put): without such a race a *)
(* replica follows etcd, and no schedule is ever taken from elsewhere.     *)
(***************************************************************************)
RollbackNeedsRace ==
  [][\A c \in Replicas :
       entry'[c] # Missing /\ entryVersion'[c] < entryVersion[c] =>
         \E by \in overtaken \intersect Pending(c) : by \notin Pending(c)']_vars

(***************************************************************************)
(* All replicas end up with the schedule that is in etcd, whatever stale   *)
(* reads, overtaken updates and failed requests came before: a new leader  *)
(* produces on the schedule the operator set (the ticker of RunSyncLoop).  *)
(***************************************************************************)
SchedulesConverge ==
  <>[](\A c \in Replicas : boot[c] = "up" /\ entry[c] = spec)
=============================================================================
