--------------------------- MODULE ScheduleProofs ---------------------------
(* Proofs about Schedule, for any number of replicas, specs and requests. *)
EXTENDS Schedule, FiniteSetTheorems, TLAPS

StoredAt(k) == IF k = "limits" THEN limits ELSE spec
PutStep(k) == IF k = "limits" THEN "putLimits" ELSE "putSpec"

(* The replicas that found key k missing and have not written it yet. *)
Putting(k) == {c \in Replicas : boot[c] = PutStep(k)}

(* Whoever has come past the bootstrap of a key has seen or written it. *)
KeysExist ==
  /\ \A c \in Replicas :
       /\ boot[c] \notin {"getLimits", "putLimits"} => limits # Missing
       /\ boot[c] \in {"init", "up"} => spec # Missing
       /\ read[c] # Missing => boot[c] \in {"init", "up"}
  /\ \A h \in Handlers : request[h] # Missing => boot[request[h].replica] = "up"

(* Once the key is there, those still about to write it can only get fewer. *)
PutsLeft(k) ==
  IF StoredAt(k) = Missing THEN stalePuts[k] = 0
  ELSE stalePuts[k] + Cardinality(Putting(k)) < Cardinality(Replicas)

(* The spec a sync loop or a handler is about to give its replica. *)
Wanted(a) == IF a \in Replicas THEN read[a] ELSE request[a].spec

(***************************************************************************)
(* The scheduler's lock.  Who is in the middle of an update is about to    *)
(* make it, alone on its replica; between its RemoveTask and its AddTask   *)
(* the cron has no producer job, after it the job of its spec.             *)
(***************************************************************************)
LockInv ==
  /\ \A a \in Replicas \union Handlers : updating[a] # "none" => \E c \in Replicas : a \in Pending(c)
  /\ \A c \in Replicas : \A a, b \in Pending(c) : updating[a] # "none" /\ updating[b] # "none" => a = b
  /\ \A c \in Replicas : \A a \in Pending(c) :
       /\ updating[a] = "add" => entry[c] = Missing
       /\ updating[a] = "set" => entry[c] = Wanted(a)
  /\ \A c \in Replicas : ~Locked(c) => entry[c] = currentSpec[c] /\ (boot[c] = "up" => entry[c] # Missing)

Inv == TypeOK /\ LockInv /\ KeysExist /\ \A k \in Keys : PutsLeft(k)

----------------------------------------------------------------------------
(* The parts of an update keep the scheduler's types. *)
LEMMA UpdateTypes ==
  ASSUME TypeOK, NEW c \in Replicas, NEW s \in Specs, NEW by \in Replicas \union Handlers,
         UpdateSchedule(c, s, by) \/ UpdateReturns(c, s, by)
  PROVE  /\ currentSpec' \in [Replicas -> Specs \union {Missing}]
         /\ entry' \in [Replicas -> Specs \union {Missing}]
         /\ updating' \in [Replicas \union Handlers -> Updates]
  BY DEF UpdateSchedule, RemoveTask, AddTask, UpdateReturns, TypeOK, Updates

(* Nobody is about to update two replicas. *)
LEMMA OnePending ==
  ASSUME NEW c \in Replicas, NEW d \in Replicas, NEW a, a \in Pending(c), a \in Pending(d)
  PROVE  c = d /\ a \in Replicas \union Handlers
  BY ScheduleAssumption DEF Pending, On

(* The replicas about to write a key are finitely many, at most all of them. *)
LEMMA PuttingFinite ==
  ASSUME NEW k \in Keys
  PROVE  /\ IsFiniteSet(Putting(k)) /\ Cardinality(Putting(k)) \in Nat
         /\ IsFiniteSet(Replicas) /\ Cardinality(Replicas) \in Nat
<1>1. Putting(k) \subseteq Replicas
  BY DEF Putting
<1> QED BY <1>1, ScheduleAssumption, FS_Subset, FS_CardinalityType

(* The request of a handler is typed, and so is what its next steps make of it. *)
LEMMA RequestType ==
  ASSUME TypeOK, NEW h \in Handlers, request[h] # Missing
  PROVE  /\ request[h].spec \in Specs /\ request[h].replica \in Replicas /\ request[h].version \in Nat
         /\ request[h].at \in {"get", "put", "apply"}
         /\ \A place \in {"get", "put", "apply"} :
              /\ [request[h] EXCEPT !.at = place] \in Requests
              /\ [request[h] EXCEPT !.at = place].replica = request[h].replica
              /\ \A v \in Nat : /\ [request[h] EXCEPT !.at = place, !.version = v] \in Requests
                                /\ [request[h] EXCEPT !.at = place, !.version = v].replica = request[h].replica
<1>1. request[h] \in Requests
  BY DEF TypeOK
<1> QED BY <1>1 DEF Requests

(* Applying a schedule keeps the types of the history. *)
LEMMA AppliedType ==
  ASSUME TypeOK, NEW c \in Replicas, NEW by, NEW v \in Nat, Applied(c, by, v)
  PROVE  entryVersion' \in [Replicas -> Nat] /\ overtaken' \subseteq Replicas \union Handlers
  BY DEF TypeOK, Applied, Pending

(* Every step keeps the types. *)
LEMMA TypeStep ==
  ASSUME TypeOK, [Next]_vars
  PROVE  TypeOK'
<1> USE ScheduleAssumption DEF local, counters, applied
<1>1. ASSUME NEW c \in Replicas, Bootstrap(c) PROVE TypeOK'
  <2>1. CASE EnsureLimitsGet(c)
    BY <2>1 DEF TypeOK, EnsureLimitsGet, Boot, BootSteps
  <2>2. CASE EnsureLimitsPut(c)
    BY <2>2 DEF TypeOK, EnsureLimitsPut, Boot, BootSteps, PutDefault, Keys
  <2>3. CASE EnsureSpecGet(c)
    BY <2>3 DEF TypeOK, EnsureSpecGet, Boot, BootSteps
  <2>4. CASE EnsureSpecPut(c)
    BY <2>4 DEF TypeOK, EnsureSpecPut, Boot, BootSteps, PutDefault, Keys
  <2> QED BY <1>1, <2>1, <2>2, <2>3, <2>4 DEF Bootstrap
<1>2. ASSUME NEW c \in Replicas, GetProduceTasksCronExpr(c) PROVE TypeOK'
  BY <1>2 DEF TypeOK, GetProduceTasksCronExpr
<1>3. ASSUME NEW c \in Replicas, Sync(c) PROVE TypeOK'
  <2>1. read[c] \in Specs /\ readVersion[c] \in Nat
    BY <1>3 DEF TypeOK, Sync
  <2>2. /\ currentSpec' \in [Replicas -> Specs \union {Missing}]
        /\ entry' \in [Replicas -> Specs \union {Missing}]
        /\ updating' \in [Replicas \union Handlers -> Updates]
    BY <1>3, <2>1, UpdateTypes DEF Sync
  <2>3. entryVersion' \in [Replicas -> Nat] /\ overtaken' \subseteq Replicas \union Handlers
    BY <1>3, <2>1, AppliedType DEF Sync
  <2> QED BY <1>3, <2>2, <2>3 DEF TypeOK, Sync, BootSteps
<1>4. ASSUME NEW h \in Handlers, RequestGet(h) PROVE TypeOK'
  <2>1. request[h] # Missing
    BY <1>4 DEF RequestGet, At
  <2>2. request' \in [Handlers -> Requests \union {Missing}]
    <3> DEFINE new == [request[h] EXCEPT !.at = "put"]
    <3>1. new \in Requests
      BY <2>1, RequestType
    <3>2. request' = [request EXCEPT ![h] = new] \/ request' = [request EXCEPT ![h] = Missing]
      BY <1>4 DEF RequestGet, Done
    <3> HIDE DEF new
    <3> QED BY <3>1, <3>2 DEF TypeOK
  <2> QED BY <1>4, <2>2 DEF TypeOK, RequestGet, Fault
<1>5. ASSUME NEW h \in Handlers, RequestPut(h) PROVE TypeOK'
  <2>1. request[h] # Missing
    BY <1>5 DEF RequestPut, At
  <2>2. request' \in [Handlers -> Requests \union {Missing}]
    <3> DEFINE new == [request[h] EXCEPT !.at = "apply", !.version = version + 1]
    <3>1. new \in Requests
      <4>1. version + 1 \in Nat
        BY DEF TypeOK
      <4> QED BY <2>1, <4>1, RequestType
    <3>2. request' = [request EXCEPT ![h] = new] \/ request' = [request EXCEPT ![h] = Missing]
      BY <1>5 DEF RequestPut, Done
    <3> HIDE DEF new
    <3> QED BY <3>1, <3>2 DEF TypeOK
  <2>3. spec' \in Specs \union {Missing}
    <3>1. request[h].spec \in Specs
      BY <2>1, RequestType
    <3> QED BY <1>5, <3>1 DEF RequestPut, TypeOK
  <2>4. faults' \in Nat /\ version' \in Nat
    BY <1>5 DEF RequestPut, TypeOK, Fault
  <2> QED BY <1>5, <2>2, <2>3, <2>4 DEF TypeOK, RequestPut
<1>6. ASSUME NEW h \in Handlers, RequestApply(h) PROVE TypeOK'
  <2>1. request[h] # Missing
    BY <1>6 DEF RequestApply, At
  <2>2. request[h].spec \in Specs /\ request[h].replica \in Replicas /\ request[h].version \in Nat
    BY <2>1, RequestType
  <2>3. /\ currentSpec' \in [Replicas -> Specs \union {Missing}]
        /\ entry' \in [Replicas -> Specs \union {Missing}]
        /\ updating' \in [Replicas \union Handlers -> Updates]
    BY <1>6, <2>2, UpdateTypes DEF RequestApply
  <2>4. entryVersion' \in [Replicas -> Nat] /\ overtaken' \subseteq Replicas \union Handlers
    BY <1>6, <2>2, AppliedType DEF RequestApply
  <2> QED BY <1>6, <2>3, <2>4 DEF TypeOK, RequestApply, Done
<1>7. ASSUME NEW c \in Replicas, Restart(c) PROVE TypeOK'
  BY <1>7 DEF TypeOK, Restart, BootSteps, Updates
<1>8. ASSUME NEW c \in Replicas, NEW l \in Limits, SetMetricLimits(c, l) PROVE TypeOK'
  BY <1>8 DEF TypeOK, SetMetricLimits, Update, Fault
<1>9. ASSUME NEW h \in Handlers, NEW c \in Replicas, NEW s \in Specs, SetProduceTasksCronExpr(h, c, s)
      PROVE  TypeOK'
  BY <1>9 DEF TypeOK, SetProduceTasksCronExpr, Update, Requests
<1>10. CASE UNCHANGED vars
  BY <1>10 DEF TypeOK, vars
<1>11. ASSUME NEW c \in Replicas, SyncUpdates(c) PROVE TypeOK'
  <2>1. read[c] \in Specs
    BY <1>11 DEF TypeOK, SyncUpdates
  <2>2. /\ currentSpec' \in [Replicas -> Specs \union {Missing}]
        /\ entry' \in [Replicas -> Specs \union {Missing}]
        /\ updating' \in [Replicas \union Handlers -> Updates]
    BY <1>11, <2>1, UpdateTypes DEF SyncUpdates
  <2> QED BY <1>11, <2>2 DEF TypeOK, SyncUpdates
<1>12. ASSUME NEW h \in Handlers, RequestUpdates(h) PROVE TypeOK'
  <2>1. request[h] # Missing
    BY <1>12 DEF RequestUpdates, At
  <2>2. request[h].spec \in Specs /\ request[h].replica \in Replicas
    BY <2>1, RequestType
  <2>3. /\ currentSpec' \in [Replicas -> Specs \union {Missing}]
        /\ entry' \in [Replicas -> Specs \union {Missing}]
        /\ updating' \in [Replicas \union Handlers -> Updates]
    BY <1>12, <2>2, UpdateTypes DEF RequestUpdates
  <2> QED BY <1>12, <2>3 DEF TypeOK, RequestUpdates
<1> QED
  BY <1>1, <1>2, <1>3, <1>4, <1>5, <1>6, <1>7, <1>8, <1>9, <1>10, <1>11, <1>12 DEF Next, RunSyncLoop, Serve

----------------------------------------------------------------------------
(* A step that leaves the scheduler and those in the middle of an update alone. *)
LEMMA LockKept ==
  ASSUME LockInv, UNCHANGED <<updating, entry, currentSpec>>,
         \A c \in Replicas : \A a \in Pending(c)' : updating[a] # "none" => a \in Pending(c) /\ Wanted(a)' = Wanted(a),
         \A c \in Replicas : \A a \in Pending(c) : updating[a] # "none" => a \in Pending(c)',
         \A c \in Replicas : boot'[c] = "up" => boot[c] = "up"
  PROVE  LockInv'
<1>1. ASSUME NEW c \in Replicas PROVE Locked(c)' <=> Locked(c)
  BY DEF Locked
<1>2. (\A a \in Replicas \union Handlers : updating[a] # "none" => \E c \in Replicas : a \in Pending(c))'
  BY DEF LockInv
<1>3. (\A c \in Replicas : \A a, b \in Pending(c) : updating[a] # "none" /\ updating[b] # "none" => a = b)'
  BY DEF LockInv
<1>4. ASSUME NEW c \in Replicas, NEW a \in Pending(c)'
      PROVE  /\ updating'[a] = "add" => entry'[c] = Missing
             /\ updating'[a] = "set" => entry'[c] = Wanted(a)'
  BY DEF LockInv
<1>5. (\A c \in Replicas : ~Locked(c) => entry[c] = currentSpec[c] /\ (boot[c] = "up" => entry[c] # Missing))'
  BY <1>1 DEF LockInv
<1> QED BY <1>2, <1>3, <1>4, <1>5 DEF LockInv

(* The first two parts of an update: one goroutine goes on, under the lock. *)
LEMMA LockMoves ==
  ASSUME TypeOK, LockInv, NEW c \in Replicas, NEW by \in Pending(c), NEW s, s = Wanted(by),
         UpdateSchedule(c, s, by), UNCHANGED <<boot, read, request>>
  PROVE  LockInv'
<1>0. by \in Replicas \union Handlers
  BY OnePending
<1>1. ASSUME NEW d \in Replicas PROVE Pending(d)' = Pending(d)
  BY DEF Pending, At, On
<1>2. \A a : Wanted(a)' = Wanted(a)
  BY DEF Wanted
<1>3. \A a \in Replicas \union Handlers : a # by => updating'[a] = updating[a]
  BY DEF UpdateSchedule, RemoveTask, AddTask, TypeOK
<1>4. /\ updating'[by] \in {"add", "set"}
      /\ updating'[by] = "add" => entry'[c] = Missing
      /\ updating'[by] = "set" => entry'[c] = s
      /\ \A d \in Replicas \ {c} : entry'[d] = entry[d] /\ currentSpec'[d] = currentSpec[d]
  BY <1>0 DEF UpdateSchedule, RemoveTask, AddTask, TypeOK
<1>5. \A a \in Pending(c) : a # by => updating[a] = "none"
  BY DEF UpdateSchedule, RemoveTask, AddTask, Locked, LockInv
<1>6. ASSUME NEW d \in Replicas, NEW a \in Pending(d) PROVE a \in Replicas \union Handlers /\ (d # c => a # by)
  BY OnePending
<1>7. (\A a \in Replicas \union Handlers : updating[a] # "none" => \E d \in Replicas : a \in Pending(d))'
  BY <1>1, <1>3 DEF LockInv
<1>8. ASSUME NEW d \in Replicas, NEW a \in Pending(d)', NEW b \in Pending(d)',
             updating'[a] # "none", updating'[b] # "none"
      PROVE  a = b
  <2>1. a \in Pending(d) /\ b \in Pending(d)
    BY <1>1, <1>8
  <2>2. CASE d = c
    BY <1>3, <1>5, <1>6, <1>8, <2>1, <2>2
  <2>3. CASE d # c
    BY <1>3, <1>6, <1>8, <2>1, <2>3 DEF LockInv
  <2> QED BY <2>2, <2>3
<1>9. ASSUME NEW d \in Replicas, NEW a \in Pending(d)'
      PROVE  /\ updating'[a] = "add" => entry'[d] = Missing
             /\ updating'[a] = "set" => entry'[d] = Wanted(a)'
  <2>1. a \in Pending(d) /\ Wanted(a)' = Wanted(a)
    BY <1>1, <1>2, <1>9
  <2>2. CASE d = c
    BY <1>3, <1>4, <1>5, <1>6, <2>1, <2>2
  <2>3. CASE d # c
    <3>1. d \in Replicas \ {c}
      BY <2>3
    <3> QED BY <1>3, <1>4, <1>6, <2>1, <3>1 DEF LockInv
  <2> QED BY <2>2, <2>3
<1>10. ASSUME NEW d \in Replicas, ~Locked(d)'
       PROVE  entry'[d] = currentSpec'[d] /\ (boot'[d] = "up" => entry'[d] # Missing)
  <2>1. d \in Replicas \ {c}
    BY <1>1, <1>4, <1>10 DEF Locked
  <2>2. ~Locked(d)
    BY <1>1, <1>3, <1>6, <1>10, <2>1 DEF Locked
  <2> QED BY <1>4, <2>1, <2>2 DEF LockInv
<1> QED BY <1>7, <1>8, <1>9, <1>10 DEF LockInv

(* The end of an update: its goroutine gives the lock back, in step. *)
LEMMA LockReturns ==
  ASSUME TypeOK, LockInv, NEW c \in Replicas, NEW by \in Pending(c), NEW s \in Specs, s = Wanted(by),
         UpdateReturns(c, s, by),
         \A d \in Replicas : Pending(d)' = Pending(d) \ {by},
         \A d \in Replicas : \A a \in Pending(d)' : Wanted(a)' = Wanted(a),
         \A d \in Replicas \ {c} : boot'[d] = boot[d]
  PROVE  LockInv'
<1> USE ScheduleAssumption
<1>0. by \in Replicas \union Handlers
  BY OnePending
<1>1. /\ updating'[by] = "none"
      /\ \A a \in Replicas \union Handlers : a # by => updating'[a] = updating[a]
      /\ currentSpec'[c] = s /\ entry' = entry
      /\ \A d \in Replicas \ {c} : currentSpec'[d] = currentSpec[d]
  BY <1>0 DEF UpdateReturns, TypeOK
<1>2. \A a \in Pending(c) : a # by => updating[a] = "none"
  BY DEF UpdateReturns, Locked, LockInv
<1>3. entry[c] = s
  BY DEF UpdateReturns, LockInv
<1>4. ASSUME NEW d \in Replicas, NEW a \in Pending(d) PROVE a \in Replicas \union Handlers
  BY OnePending
<1>5. (\A a \in Replicas \union Handlers : updating[a] # "none" => \E d \in Replicas : a \in Pending(d))'
  BY <1>1 DEF LockInv
<1>6. ASSUME NEW d \in Replicas, NEW a \in Pending(d)'
      PROVE  a \in Pending(d) /\ a # by /\ updating'[a] = updating[a] /\ Wanted(a)' = Wanted(a)
  BY <1>1, <1>4
<1>7. (\A d \in Replicas : \A a, b \in Pending(d) : updating[a] # "none" /\ updating[b] # "none" => a = b)'
  BY <1>6 DEF LockInv
<1>8. ASSUME NEW d \in Replicas, NEW a \in Pending(d)'
      PROVE  /\ updating'[a] = "add" => entry'[d] = Missing
             /\ updating'[a] = "set" => entry'[d] = Wanted(a)'
  BY <1>1, <1>6 DEF LockInv
<1>9. ASSUME NEW d \in Replicas, ~Locked(d)'
      PROVE  entry'[d] = currentSpec'[d] /\ (boot'[d] = "up" => entry'[d] # Missing)
  <2>1. CASE d = c
    BY <1>1, <1>3, <2>1
  <2>2. CASE d # c
    <3>1. d \in Replicas \ {c} /\ by \notin Pending(d)
      BY <2>2, OnePending
    <3>2. Pending(d)' = Pending(d)
      BY <3>1
    <3>3. ~Locked(d)
      BY <1>6, <1>9, <3>2 DEF Locked
    <3> QED BY <1>1, <3>1, <3>3 DEF LockInv
  <2> QED BY <2>1, <2>2
<1> QED BY <1>5, <1>7, <1>8, <1>9 DEF LockInv

(* Every step keeps the account of the scheduler's lock. *)
LEMMA LockStep ==
  ASSUME TypeOK, LockInv, KeysExist, [Next]_vars
  PROVE  LockInv'
<1> USE ScheduleAssumption DEF local
<1>0. \A a \in Replicas \union Handlers : updating[a] # "none" =>
        IF a \in Replicas THEN read[a] # Missing ELSE At(a, "apply")
  BY DEF LockInv, Pending
<1>1. ASSUME UNCHANGED <<updating, entry, currentSpec, read, request>>,
             \A c \in Replicas : boot'[c] = "up" => boot[c] = "up"
      PROVE  LockInv'
  <2>1. ASSUME NEW c \in Replicas PROVE Pending(c)' = Pending(c)
    BY <1>1 DEF Pending, At, On
  <2>2. \A a : Wanted(a)' = Wanted(a)
    BY <1>1 DEF Wanted
  <2> QED BY <1>1, <2>1, <2>2, LockKept
<1>2. ASSUME NEW c \in Replicas, Bootstrap(c) PROVE LockInv'
  <2>1. \A d \in Replicas : boot'[d] = "up" => boot[d] = "up"
    BY <1>2 DEF Bootstrap, EnsureLimitsGet, EnsureLimitsPut, EnsureSpecGet, EnsureSpecPut, Boot, TypeOK
  <2>2. UNCHANGED <<updating, entry, currentSpec, read, request>>
    BY <1>2 DEF Bootstrap, EnsureLimitsGet, EnsureLimitsPut, EnsureSpecGet, EnsureSpecPut
  <2> QED BY <1>1, <2>1, <2>2
<1>3. ASSUME NEW c \in Replicas, GetProduceTasksCronExpr(c) PROVE LockInv'
  <2>1. updating[c] = "none"
    BY <1>0, <1>3 DEF GetProduceTasksCronExpr
  <2>2. /\ UNCHANGED <<updating, entry, currentSpec, request, boot>>
        /\ \A d \in Replicas \ {c} : read'[d] = read[d]
    BY <1>3 DEF GetProduceTasksCronExpr, TypeOK
  <2>3. ASSUME NEW d \in Replicas, NEW a, updating[a] # "none"
        PROVE  (a \in Pending(d)' <=> a \in Pending(d)) /\ Wanted(a)' = Wanted(a)
    <3>1. a # c
      BY <2>1, <2>3
    <3>2. a \in Replicas => read'[a] = read[a]
      BY <2>2, <3>1
    <3>3. Wanted(a)' = Wanted(a)
      BY <2>2, <3>2 DEF Wanted
    <3> QED BY <2>2, <3>2, <3>3 DEF Pending, At, On
  <2> QED BY <2>2, <2>3, LockKept
<1>4. ASSUME NEW h \in Handlers, ~At(h, "apply"),
             \A g \in Handlers \ {h} : request'[g] = request[g],
             UNCHANGED <<updating, entry, currentSpec, read, boot>>
      PROVE  LockInv'
  <2>1. updating[h] = "none"
    BY <1>0, <1>4
  <2>2. ASSUME NEW d \in Replicas, NEW a, updating[a] # "none"
        PROVE  /\ a \in Pending(d)' <=> a \in Pending(d)
               /\ a \in Pending(d) => Wanted(a)' = Wanted(a)
    <3>1. a \in Handlers => request'[a] = request[a]
      BY <1>4, <2>1, <2>2
    <3>2. a \in Pending(d) => Wanted(a)' = Wanted(a)
      BY <1>4, <3>1, OnePending DEF Wanted
    <3> QED BY <1>4, <3>1, <3>2 DEF Pending, At, On
  <2> QED BY <1>4, <2>2, LockKept
<1>5. ASSUME NEW h \in Handlers, RequestGet(h) \/ RequestPut(h) PROVE LockInv'
  <2>1. \A g \in Handlers \ {h} : request'[g] = request[g]
    BY <1>5 DEF RequestGet, RequestPut, Done, TypeOK
  <2>2. ~At(h, "apply") /\ UNCHANGED <<updating, entry, currentSpec, read, boot>>
    BY <1>5 DEF RequestGet, RequestPut, At
  <2> QED BY <1>4, <2>1, <2>2
<1>6. ASSUME NEW h \in Handlers, NEW c \in Replicas, NEW s \in Specs, SetProduceTasksCronExpr(h, c, s)
      PROVE  LockInv'
  <2>1. ~At(h, "apply") /\ UNCHANGED <<updating, entry, currentSpec, read, boot>>
    BY <1>6 DEF SetProduceTasksCronExpr, At
  <2>2. \A g \in Handlers \ {h} : request'[g] = request[g]
    BY <1>6 DEF SetProduceTasksCronExpr, TypeOK
  <2> QED BY <1>4, <2>1, <2>2
<1>7. ASSUME NEW c \in Replicas, SyncUpdates(c) PROVE LockInv'
  <2>1. c \in Pending(c) /\ read[c] = Wanted(c)
    BY <1>7 DEF SyncUpdates, Pending, Wanted
  <2> QED BY <1>7, <2>1, LockMoves DEF SyncUpdates
<1>8. ASSUME NEW h \in Handlers, RequestUpdates(h) PROVE LockInv'
  <2>1. At(h, "apply") /\ request[h] # Missing
    BY <1>8 DEF RequestUpdates, At
  <2>2. request[h].replica \in Replicas
    BY <2>1, RequestType
  <2>3. h \in Pending(request[h].replica) /\ request[h].spec = Wanted(h)
    BY <2>1 DEF Pending, On, Wanted
  <2> QED BY <1>8, <2>2, <2>3, LockMoves DEF RequestUpdates
<1>9. ASSUME NEW c \in Replicas, Sync(c) PROVE LockInv'
  <2>1. c \in Pending(c) /\ read[c] = Wanted(c) /\ read[c] \in Specs
    BY <1>9 DEF Sync, Pending, Wanted, TypeOK
  <2>2. /\ read'[c] = Missing /\ UNCHANGED request
        /\ \A d \in Replicas \ {c} : read'[d] = read[d] /\ boot'[d] = boot[d]
    BY <1>9 DEF Sync, TypeOK
  <2>3. ASSUME NEW d \in Replicas PROVE Pending(d)' = Pending(d) \ {c}
    <3>1. CASE d = c
      BY <2>2, <3>1 DEF Pending, At, On
    <3>2. CASE d # c
      BY <2>2, <3>2 DEF Pending, At, On
    <3> QED BY <3>1, <3>2
  <2>4. ASSUME NEW d \in Replicas, NEW a \in Pending(d)' PROVE Wanted(a)' = Wanted(a)
    <3>1. a # c
      BY <2>3, <2>4
    <3> QED BY <2>2, <3>1 DEF Wanted
  <2>5. UpdateReturns(c, read[c], c)
    BY <1>9 DEF Sync
  <2> QED BY <2>1, <2>2, <2>3, <2>4, <2>5, LockReturns
<1>10. ASSUME NEW h \in Handlers, RequestApply(h) PROVE LockInv'
  <2>1. At(h, "apply") /\ request[h] # Missing
    BY <1>10 DEF RequestApply, At
  <2>2. request[h].replica \in Replicas /\ request[h].spec \in Specs
    BY <2>1, RequestType
  <2>3. h \in Pending(request[h].replica) /\ request[h].spec = Wanted(h)
    BY <2>1 DEF Pending, On, Wanted
  <2>4. /\ request'[h] = Missing /\ UNCHANGED <<read, boot>>
        /\ \A g \in Handlers \ {h} : request'[g] = request[g]
    BY <1>10 DEF RequestApply, Done, TypeOK
  <2>5. ASSUME NEW d \in Replicas PROVE Pending(d)' = Pending(d) \ {h}
    BY <2>4 DEF Pending, At, On
  <2>6. ASSUME NEW d \in Replicas, NEW a \in Pending(d)' PROVE Wanted(a)' = Wanted(a)
    <3>1. a # h /\ a \in Replicas \union Handlers
      BY <2>5, <2>6, OnePending
    <3> QED BY <2>4, <3>1 DEF Wanted
  <2>7. UpdateReturns(request[h].replica, request[h].spec, h)
    BY <1>10 DEF RequestApply
  <2> QED BY <2>2, <2>3, <2>4, <2>5, <2>6, <2>7, LockReturns
<1>11. ASSUME NEW c \in Replicas, Restart(c) PROVE LockInv'
  <2>1. /\ entry'[c] = Missing /\ currentSpec'[c] = Missing /\ boot'[c] # "up" /\ read'[c] = Missing
        /\ \A d \in Replicas \ {c} :
             entry'[d] = entry[d] /\ currentSpec'[d] = currentSpec[d] /\ boot'[d] = boot[d] /\ read'[d] = read[d]
    BY <1>11 DEF Restart, TypeOK
  <2>2. \A h \in Handlers : request'[h] = IF On(h, c) THEN Missing ELSE request[h]
    BY <1>11 DEF Restart
  <2>3. Pending(c)' = {}
    BY <2>1, <2>2 DEF Pending, At, On
  <2>4. ASSUME NEW d \in Replicas \ {c} PROVE Pending(d)' = Pending(d)
    BY <2>1, <2>2 DEF Pending, At, On
  <2>5. ASSUME NEW d \in Replicas \ {c}, NEW a \in Pending(d)
        PROVE  updating'[a] = updating[a] /\ Wanted(a)' = Wanted(a)
    <3>1. a # c /\ (a \in Handlers => ~On(a, c)) /\ a \in Replicas \union Handlers
      BY DEF Pending, On
    <3>2. updating'[a] = updating[a]
      BY <1>11, <3>1 DEF Restart
    <3> QED BY <2>1, <2>2, <3>1, <3>2 DEF Wanted
  <2>6. ASSUME NEW a \in Replicas \union Handlers, updating'[a] # "none" PROVE \E d \in Replicas : a \in Pending(d)'
    <3>1. a # c /\ (a \in Handlers => ~On(a, c)) /\ updating'[a] = updating[a]
      BY <1>11, <2>6 DEF Restart
    <3>2. PICK d \in Replicas : a \in Pending(d)
      BY <2>6, <3>1 DEF LockInv
    <3>3. d # c
      BY <3>1, <3>2 DEF Pending
    <3> QED BY <2>4, <3>2, <3>3
  <2>7. ASSUME NEW d \in Replicas, NEW a \in Pending(d)'
        PROVE  /\ d \in Replicas \ {c} /\ a \in Pending(d)
               /\ updating'[a] = updating[a] /\ Wanted(a)' = Wanted(a) /\ entry'[d] = entry[d]
    BY <2>1, <2>3, <2>4, <2>5, <2>7
  <2>8. (\A d \in Replicas : \A a, b \in Pending(d) : updating[a] # "none" /\ updating[b] # "none" => a = b)'
    BY <2>7 DEF LockInv
  <2>9. ASSUME NEW d \in Replicas, NEW a \in Pending(d)'
        PROVE  /\ updating'[a] = "add" => entry'[d] = Missing
               /\ updating'[a] = "set" => entry'[d] = Wanted(a)'
    BY <2>7 DEF LockInv
  <2>10. ASSUME NEW d \in Replicas, ~Locked(d)'
         PROVE  entry'[d] = currentSpec'[d] /\ (boot'[d] = "up" => entry'[d] # Missing)
    <3>1. CASE d = c
      BY <2>1, <3>1
    <3>2. CASE d # c
      <4>1. d \in Replicas \ {c}
        BY <3>2
      <4>2. ~Locked(d)
        BY <2>4, <2>5, <2>10, <4>1 DEF Locked
      <4> QED BY <2>1, <4>1, <4>2 DEF LockInv
    <3> QED BY <3>1, <3>2
  <2> QED BY <2>6, <2>8, <2>9, <2>10 DEF LockInv
<1>12. ASSUME NEW c \in Replicas, NEW l \in Limits, SetMetricLimits(c, l) PROVE LockInv'
  <2>1. UNCHANGED <<updating, entry, currentSpec, read, request, boot>>
    BY <1>12 DEF SetMetricLimits
  <2> QED BY <1>1, <2>1
<1>13. CASE UNCHANGED vars
  <2>1. UNCHANGED <<updating, entry, currentSpec, read, request, boot>>
    BY <1>13 DEF vars
  <2> QED BY <1>1, <2>1
<1> QED
  BY <1>2, <1>3, <1>5, <1>6, <1>7, <1>8, <1>9, <1>10, <1>11, <1>12, <1>13 DEF Next, RunSyncLoop, Serve

(* Keys are never deleted, so that what a replica has seen stays there. *)
LEMMA KeysExistStep ==
  ASSUME TypeOK, KeysExist, [Next]_vars
  PROVE  KeysExist'
<1> USE ScheduleAssumption DEF local
<1>0. \A h \in Handlers : request[h] # Missing => request[h].replica \in Replicas
  BY RequestType
<1>1. ASSUME NEW c \in Replicas, Bootstrap(c) PROVE KeysExist'
  <2>1. CASE EnsureLimitsGet(c)
    BY <1>0, <2>1 DEF EnsureLimitsGet, Boot, KeysExist, TypeOK
  <2>2. CASE EnsureLimitsPut(c)
    BY <1>0, <2>2 DEF EnsureLimitsPut, Boot, KeysExist, TypeOK
  <2>3. CASE EnsureSpecGet(c)
    BY <1>0, <2>3 DEF EnsureSpecGet, Boot, KeysExist, TypeOK
  <2>4. CASE EnsureSpecPut(c)
    BY <1>0, <2>4 DEF EnsureSpecPut, Boot, KeysExist, TypeOK
  <2> QED BY <1>1, <2>1, <2>2, <2>3, <2>4 DEF Bootstrap
<1>2. ASSUME NEW c \in Replicas, GetProduceTasksCronExpr(c) PROVE KeysExist'
  BY <1>2 DEF GetProduceTasksCronExpr, KeysExist, TypeOK
<1>3. ASSUME NEW c \in Replicas, Sync(c) PROVE KeysExist'
  BY <1>0, <1>3 DEF Sync, KeysExist, TypeOK
<1>9. ASSUME UNCHANGED <<limits, spec, boot, read, request>> PROVE KeysExist'
  BY <1>9 DEF KeysExist
<1>10. ASSUME NEW c \in Replicas, SyncUpdates(c) PROVE KeysExist'
  BY <1>9, <1>10 DEF SyncUpdates
<1>11. ASSUME NEW h \in Handlers, RequestUpdates(h) PROVE KeysExist'
  BY <1>9, <1>11 DEF RequestUpdates
<1>4. ASSUME NEW h \in Handlers, RequestGet(h) \/ RequestPut(h) \/ RequestApply(h) PROVE KeysExist'
  <2>1. request[h] # Missing
    BY <1>4 DEF RequestGet, RequestPut, RequestApply, At
  <2>2. spec # Missing => spec' # Missing
    <3>1. request[h].spec # Missing
      BY <2>1, RequestType
    <3> QED BY <1>4, <3>1 DEF RequestGet, RequestPut, RequestApply
  <2>3. \/ request' = [request EXCEPT ![h] = Missing]
        \/ request' = [request EXCEPT ![h] = [request[h] EXCEPT !.at = "put"]]
        \/ request' = [request EXCEPT ![h] = [request[h] EXCEPT !.at = "apply", !.version = version + 1]]
    BY <1>4 DEF RequestGet, RequestPut, RequestApply, Done
  <2>4. \A g \in Handlers : request'[g] # Missing => request[g] # Missing /\ request'[g].replica = request[g].replica
    <3>1. /\ [request[h] EXCEPT !.at = "put"].replica = request[h].replica
          /\ [request[h] EXCEPT !.at = "apply", !.version = version + 1].replica = request[h].replica
      OBVIOUS
    <3>2. request \in [Handlers -> Requests \union {Missing}]
      BY DEF TypeOK
    <3> QED BY <2>1, <2>3, <3>1, <3>2
  <2>5. UNCHANGED <<boot, read, limits>>
    BY <1>4 DEF RequestGet, RequestPut, RequestApply
  <2> QED BY <2>2, <2>4, <2>5 DEF KeysExist
<1>5. ASSUME NEW c \in Replicas, Restart(c) PROVE KeysExist'
  <2>1. \A h \in Handlers : request'[h] # Missing => request'[h] = request[h] /\ request[h].replica # c
    BY <1>5 DEF Restart, On
  <2>2. boot' = [boot EXCEPT ![c] = "getLimits"] /\ read' = [read EXCEPT ![c] = Missing] /\ UNCHANGED <<limits, spec>>
    BY <1>5 DEF Restart
  <2> QED BY <1>0, <2>1, <2>2 DEF KeysExist, TypeOK
<1>6. ASSUME NEW c \in Replicas, NEW l \in Limits, SetMetricLimits(c, l) PROVE KeysExist'
  BY <1>6 DEF SetMetricLimits, KeysExist
<1>7. ASSUME NEW h \in Handlers, NEW c \in Replicas, NEW s \in Specs, SetProduceTasksCronExpr(h, c, s)
      PROVE  KeysExist'
  BY <1>7 DEF SetProduceTasksCronExpr, KeysExist, TypeOK
<1>8. CASE UNCHANGED vars
  BY <1>8 DEF vars, KeysExist
<1> QED
  BY <1>1, <1>2, <1>3, <1>4, <1>5, <1>6, <1>7, <1>8, <1>10, <1>11 DEF Next, RunSyncLoop, Serve

----------------------------------------------------------------------------
(* A step that lets nobody join the writers of a key that is there. *)
LEMMA PutsKept ==
  ASSUME NEW k \in Keys, TypeOK, PutsLeft(k),
         stalePuts'[k] = stalePuts[k],
         StoredAt(k)' = Missing <=> StoredAt(k) = Missing,
         StoredAt(k) # Missing => Putting(k)' \subseteq Putting(k)
  PROVE  PutsLeft(k)'
<1>1. CASE StoredAt(k) = Missing
  BY <1>1 DEF PutsLeft
<1>2. CASE StoredAt(k) # Missing
  <2>1. Cardinality(Putting(k)') <= Cardinality(Putting(k)) /\ Cardinality(Putting(k)') \in Nat
    BY <1>2, PuttingFinite, FS_Subset, FS_CardinalityType
  <2>2. stalePuts[k] \in Nat
    BY DEF TypeOK
  <2> QED BY <1>2, <2>1, <2>2, PuttingFinite DEF PutsLeft
<1> QED BY <1>1, <1>2

(* A replica that writes the default it had decided on leaves the writers. *)
LEMMA PutsDone ==
  ASSUME NEW k \in Keys, TypeOK, PutsLeft(k), NEW c \in Replicas, NEW next,
         Boot(c, PutStep(k), next), next # PutStep(k),
         StoredAt(k)' # Missing,
         PutDefault(k, StoredAt(k))
  PROVE  PutsLeft(k)'
<1>1. c \in Putting(k) /\ Putting(k)' = Putting(k) \ {c}
  BY DEF Putting, Boot, TypeOK, PutStep
<1>2. Cardinality(Putting(k)') = Cardinality(Putting(k)) - 1
  BY <1>1, PuttingFinite, FS_RemoveElement
<1>3. Cardinality(Putting(k)) <= Cardinality(Replicas)
  BY PuttingFinite, FS_Subset DEF Putting
<1>4. /\ stalePuts[k] \in Nat
      /\ stalePuts'[k] = IF StoredAt(k) = Missing THEN stalePuts[k] ELSE stalePuts[k] + 1
  BY DEF TypeOK, PutDefault
<1> QED BY <1>2, <1>3, <1>4, PuttingFinite DEF PutsLeft

(* Every step keeps the number of defaults that may still come too late. *)
LEMMA PutsLeftStep ==
  ASSUME Inv, [Next]_vars, NEW k \in Keys
  PROVE  PutsLeft(k)'
<1> USE ScheduleAssumption DEF local
<1>0. TypeOK /\ KeysExist /\ PutsLeft(k) /\ k \in {"limits", "spec"}
  BY DEF Inv, Keys
<1>1. ASSUME NEW c \in Replicas, EnsureLimitsGet(c) \/ EnsureSpecGet(c) PROVE PutsLeft(k)'
  <2>1. stalePuts'[k] = stalePuts[k] /\ StoredAt(k)' = StoredAt(k)
    BY <1>1 DEF EnsureLimitsGet, EnsureSpecGet, StoredAt
  <2>2. StoredAt(k) # Missing => Putting(k)' \subseteq Putting(k)
    BY <1>0, <1>1 DEF EnsureLimitsGet, EnsureSpecGet, StoredAt, Boot, Putting, PutStep, TypeOK
  <2> QED BY <1>0, <2>1, <2>2, PutsKept
<1>2. ASSUME NEW c \in Replicas, EnsureLimitsPut(c) PROVE PutsLeft(k)'
  <2>1. CASE k = "limits"
    BY <1>0, <1>2, <2>1, PutsDone DEF EnsureLimitsPut, PutStep, StoredAt
  <2>2. CASE k = "spec"
    <3>1. stalePuts'[k] = stalePuts[k] /\ StoredAt(k)' = StoredAt(k)
      BY <1>0, <1>2, <2>2 DEF EnsureLimitsPut, StoredAt, PutDefault, TypeOK
    <3>2. Putting(k)' \subseteq Putting(k)
      BY <1>0, <1>2, <2>2 DEF EnsureLimitsPut, Boot, Putting, PutStep, TypeOK
    <3> QED BY <1>0, <3>1, <3>2, PutsKept
  <2> QED BY <1>0, <2>1, <2>2
<1>3. ASSUME NEW c \in Replicas, EnsureSpecPut(c) PROVE PutsLeft(k)'
  <2>1. CASE k = "spec"
    BY <1>0, <1>3, <2>1, PutsDone DEF EnsureSpecPut, PutStep, StoredAt
  <2>2. CASE k = "limits"
    <3>1. stalePuts'[k] = stalePuts[k] /\ StoredAt(k)' = StoredAt(k)
      BY <1>0, <1>3, <2>2 DEF EnsureSpecPut, StoredAt, PutDefault, TypeOK
    <3>2. Putting(k)' \subseteq Putting(k)
      BY <1>0, <1>3, <2>2 DEF EnsureSpecPut, Boot, Putting, PutStep, TypeOK
    <3> QED BY <1>0, <3>1, <3>2, PutsKept
  <2> QED BY <1>0, <2>1, <2>2
<1>4. ASSUME NEW c \in Replicas, RunSyncLoop(c) \/ Restart(c) PROVE PutsLeft(k)'
  <2>1. stalePuts'[k] = stalePuts[k] /\ StoredAt(k)' = StoredAt(k)
    BY <1>4 DEF RunSyncLoop, GetProduceTasksCronExpr, SyncUpdates, Sync, Restart, StoredAt
  <2>2. Putting(k)' \subseteq Putting(k)
    BY <1>0, <1>4 DEF RunSyncLoop, GetProduceTasksCronExpr, SyncUpdates, Sync, Restart, Putting, PutStep, TypeOK
  <2> QED BY <1>0, <2>1, <2>2, PutsKept
<1>5. ASSUME NEW h \in Handlers, Serve(h) PROVE PutsLeft(k)'
  <2>1. request[h] # Missing
    BY <1>5 DEF Serve, RequestGet, RequestPut, RequestUpdates, RequestApply, At
  <2>2. request[h].spec \in Specs /\ request[h].replica \in Replicas
    BY <1>0, <2>1, RequestType
  <2>3. spec # Missing
    BY <1>0, <2>1, <2>2 DEF KeysExist
  <2>4. spec' = spec \/ spec' = request[h].spec
    BY <1>5 DEF Serve, RequestGet, RequestPut, RequestUpdates, RequestApply
  <2>5. spec # Missing /\ spec' # Missing
    BY <2>2, <2>3, <2>4
  <2>6. stalePuts'[k] = stalePuts[k] /\ (StoredAt(k)' = Missing <=> StoredAt(k) = Missing)
    BY <1>5, <2>5 DEF Serve, RequestGet, RequestPut, RequestUpdates, RequestApply, StoredAt
  <2>7. Putting(k)' = Putting(k)
    BY <1>5 DEF Serve, RequestGet, RequestPut, RequestUpdates, RequestApply, Putting
  <2> QED BY <1>0, <2>6, <2>7, PutsKept
<1>6. ASSUME NEW c \in Replicas, NEW l \in Limits, SetMetricLimits(c, l) PROVE PutsLeft(k)'
  <2>1. limits # Missing /\ limits' # Missing
    BY <1>0, <1>6 DEF SetMetricLimits, KeysExist
  <2>2. stalePuts'[k] = stalePuts[k] /\ (StoredAt(k)' = Missing <=> StoredAt(k) = Missing)
    BY <1>6, <2>1 DEF SetMetricLimits, StoredAt
  <2>3. Putting(k)' = Putting(k)
    BY <1>6 DEF SetMetricLimits, Putting
  <2> QED BY <1>0, <2>2, <2>3, PutsKept
<1>7. ASSUME NEW h \in Handlers, NEW c \in Replicas, NEW s \in Specs, SetProduceTasksCronExpr(h, c, s)
      PROVE  PutsLeft(k)'
  <2>1. stalePuts'[k] = stalePuts[k] /\ StoredAt(k)' = StoredAt(k) /\ Putting(k)' = Putting(k)
    BY <1>7 DEF SetProduceTasksCronExpr, StoredAt, Putting
  <2> QED BY <1>0, <2>1, PutsKept
<1>8. CASE UNCHANGED vars
  <2>1. stalePuts'[k] = stalePuts[k] /\ StoredAt(k)' = StoredAt(k) /\ Putting(k)' = Putting(k)
    BY <1>8 DEF vars, StoredAt, Putting
  <2> QED BY <1>0, <2>1, PutsKept
<1> QED
  BY <1>1, <1>2, <1>3, <1>4, <1>5, <1>6, <1>7, <1>8 DEF Next, Bootstrap

----------------------------------------------------------------------------
(* The inductive invariant of the settings and the schedules. *)
THEOREM ScheduleInvariant == Spec => []Inv
<1>1. Init => Inv
  BY ScheduleAssumption
     DEF Init, Inv, TypeOK, BootSteps, Requests, Updates, Keys, LockInv, Locked, Pending, At, KeysExist,
         PutsLeft, StoredAt
<1>2. Inv /\ [Next]_vars => Inv'
  BY TypeStep, LockStep, KeysExistStep, PutsLeftStep DEF Inv
<1> QED BY <1>1, <1>2, PTL DEF Spec

(***************************************************************************)
(* On every replica the cron runs the spec the scheduler believes in, and  *)
(* a replica that is up has a producer job, for any number of replicas,    *)
(* requests, failures and restarts.                                        *)
(***************************************************************************)
THEOREM SchedulesAreInStep == Spec => []ScheduleInStep
<1>1. Inv => ScheduleInStep
  BY DEF Inv, LockInv, ScheduleInStep
<1> QED BY <1>1, ScheduleInvariant, PTL

(***************************************************************************)
(* N replicas write a default over an existing setting at most N - 1 times *)
(* in the life of the service, however often they restart.                 *)
(***************************************************************************)
THEOREM DefaultsAreBounded == Spec => []DefaultsOnlyAtFirstStart
<1>1. Inv => DefaultsOnlyAtFirstStart
  <2> SUFFICES ASSUME Inv, NEW k \in Keys PROVE stalePuts[k] < Cardinality(Replicas)
    BY DEF DefaultsOnlyAtFirstStart
  <2>1. stalePuts[k] \in Nat /\ PutsLeft(k)
    BY DEF Inv, TypeOK
  <2>2. Cardinality(Replicas) # 0
    BY ScheduleAssumption, FS_EmptySet
  <2> QED BY <2>1, <2>2, PuttingFinite DEF PutsLeft
<1> QED BY <1>1, ScheduleInvariant, PTL

(* The types of the settings, the schedules and the requests of every replica (RuntimeSettings, Scheduler). *)
THEOREM TypeCorrect == Spec => []TypeOK
<1>1. Inv => TypeOK
  BY DEF Inv
<1> QED BY <1>1, ScheduleInvariant, PTL

----------------------------------------------------------------------------
(***************************************************************************)
(* Versions grow with the Puts, and whoever is about to apply a schedule   *)
(* older than the one in the cron has been overtaken.                      *)
(***************************************************************************)
RaceInv ==
  /\ \A c \in Replicas : entryVersion[c] <= version
  /\ \A c \in Replicas : read[c] # Missing => c \in overtaken \/ entryVersion[c] <= readVersion[c]
  /\ \A c \in Replicas : readVersion[c] <= version
  /\ \A h \in Handlers : At(h, "apply") =>
       /\ request[h].version <= version
       /\ h \in overtaken \/ entryVersion[request[h].replica] <= request[h].version

(* An update by one of those about to make it overtakes the others of its replica. *)
LEMMA RaceApplied ==
  ASSUME TypeOK, RaceInv, NEW c \in Replicas, NEW by, NEW v \in Nat, Applied(c, by, v), v <= version,
         UNCHANGED version,
         \A d \in Replicas : read'[d] # Missing => read[d] # Missing /\ readVersion'[d] = readVersion[d] /\ d # by,
         \A d \in Replicas : readVersion'[d] <= version,
         \A h \in Handlers : At(h, "apply")' => At(h, "apply") /\ request'[h] = request[h] /\ h # by
  PROVE  RaceInv'
<1>1. /\ entryVersion'[c] = v
      /\ \A d \in Replicas \ {c} : entryVersion'[d] = entryVersion[d]
  BY DEF Applied, TypeOK
<1>2. \A d \in Replicas : read'[d] # Missing => d \in overtaken' \/ entryVersion'[d] <= readVersion'[d]
  <2> SUFFICES ASSUME NEW d \in Replicas, read'[d] # Missing
               PROVE  d \in overtaken' \/ entryVersion'[d] <= readVersion'[d]
    OBVIOUS
  <2>1. read[d] # Missing /\ readVersion'[d] = readVersion[d] /\ d # by
    OBVIOUS
  <2>2. CASE d = c
    BY <2>1, <2>2 DEF Applied, Pending
  <2>3. CASE d # c
    BY <1>1, <2>1, <2>3 DEF Applied, RaceInv
  <2> QED BY <2>2, <2>3
<1>3. ASSUME NEW h \in Handlers, At(h, "apply")'
      PROVE  /\ request'[h].version <= version'
             /\ h \in overtaken' \/ entryVersion'[request'[h].replica] <= request'[h].version
  <2>1. At(h, "apply") /\ request'[h] = request[h] /\ h # by
    BY <1>3
  <2>2. request[h] # Missing
    BY <2>1 DEF At
  <2>3. request[h].replica \in Replicas
    BY <2>2, RequestType
  <2>4. CASE request[h].replica = c
    <3>1. h \in Pending(c)
      BY <2>1, <2>2, <2>4 DEF Pending, On
    <3> QED BY <2>1, <3>1 DEF Applied, RaceInv
  <2>5. CASE request[h].replica # c
    BY <1>1, <2>1, <2>3, <2>5 DEF Applied, RaceInv
  <2> QED BY <2>4, <2>5
<1> QED BY <1>1, <1>2, <1>3 DEF RaceInv

(* A step that applies nothing and takes away no version. *)
LEMMA RaceKept ==
  ASSUME TypeOK, RaceInv, UNCHANGED <<read, request, applied>>, version' \in {version, version + 1}
  PROVE  RaceInv'
<1>1. \A c \in Replicas : entryVersion[c] \in Nat /\ readVersion[c] \in Nat /\ version \in Nat
  BY DEF TypeOK
<1>2. \A h \in Handlers : At(h, "apply") => request[h].version \in Nat /\ request[h].version <= version'
  <2> SUFFICES ASSUME NEW h \in Handlers, At(h, "apply")
               PROVE  request[h].version \in Nat /\ request[h].version <= version'
    OBVIOUS
  <2>1. request[h].version \in Nat
    BY RequestType DEF At
  <2> QED BY <2>1 DEF RaceInv, TypeOK
<1>3. \A h \in Handlers : At(h, "apply")' <=> At(h, "apply")
  BY DEF At
<1>4. \A c \in Replicas : entryVersion[c] <= version' /\ readVersion[c] <= version'
  BY <1>1 DEF RaceInv
<1> QED BY <1>2, <1>3, <1>4 DEF RaceInv, applied

(* Every step keeps the account of who has been overtaken. *)
LEMMA RaceStep ==
  ASSUME TypeOK, RaceInv, [Next]_vars
  PROVE  RaceInv'
<1> USE ScheduleAssumption DEF local, counters
<1>0. /\ version \in Nat
      /\ \A c \in Replicas : entryVersion[c] \in Nat /\ readVersion[c] \in Nat
      /\ \A h \in Handlers : request[h] # Missing => request[h].version \in Nat /\ request[h].replica \in Replicas
  BY RequestType DEF TypeOK
<1>1. ASSUME NEW c \in Replicas, Bootstrap(c) PROVE RaceInv'
  <2>1. UNCHANGED <<read, request, applied>> /\ version' \in {version, version + 1}
    BY <1>1 DEF Bootstrap, EnsureLimitsGet, EnsureLimitsPut, EnsureSpecGet, EnsureSpecPut
  <2> QED BY <2>1, RaceKept
<1>2. ASSUME NEW c \in Replicas, GetProduceTasksCronExpr(c) PROVE RaceInv'
  <2>1. /\ UNCHANGED <<version, request, entryVersion, overtaken>>
        /\ readVersion'[c] = version
        /\ \A d \in Replicas \ {c} : read'[d] = read[d] /\ readVersion'[d] = readVersion[d]
    BY <1>2 DEF GetProduceTasksCronExpr, TypeOK
  <2> QED BY <1>0, <2>1 DEF RaceInv, At
<1>3. ASSUME NEW c \in Replicas, Sync(c) PROVE RaceInv'
  <2>1. Applied(c, c, readVersion[c]) /\ readVersion[c] \in Nat /\ readVersion[c] <= version
    BY <1>0, <1>3 DEF Sync, RaceInv
  <2>2. /\ UNCHANGED <<version, request>>
        /\ read'[c] = Missing /\ readVersion'[c] = 0
        /\ \A d \in Replicas \ {c} : read'[d] = read[d] /\ readVersion'[d] = readVersion[d]
    BY <1>3 DEF Sync, TypeOK
  <2>3. \A d \in Replicas : read'[d] # Missing => read[d] # Missing /\ readVersion'[d] = readVersion[d] /\ d # c
    BY <2>2
  <2>4. \A d \in Replicas : readVersion'[d] <= version
    BY <1>0, <2>2 DEF RaceInv
  <2>5. \A h \in Handlers : At(h, "apply")' => At(h, "apply") /\ request'[h] = request[h] /\ h # c
    BY <2>2 DEF At
  <2> QED BY <2>1, <2>2, <2>3, <2>4, <2>5, RaceApplied
<1>4. ASSUME NEW h \in Handlers, RequestGet(h) PROVE RaceInv'
  <2>1. UNCHANGED <<read, version, readVersion, entryVersion, overtaken>>
    BY <1>4 DEF RequestGet, applied
  <2>2. \A g \in Handlers \ {h} : request'[g] = request[g]
    BY <1>4 DEF RequestGet, Done, TypeOK
  <2>3. ~At(h, "apply")'
    <3>1. \/ request' = [request EXCEPT ![h] = Missing]
          \/ request' = [request EXCEPT ![h] = [request[h] EXCEPT !.at = "put"]]
      BY <1>4 DEF RequestGet, Done
    <3>2. request[h] # Missing
      BY <1>4 DEF RequestGet, At
    <3>3. request[h] \in Requests /\ request \in [Handlers -> Requests \union {Missing}]
      BY <3>2 DEF TypeOK
    <3>4. [request[h] EXCEPT !.at = "put"].at = "put"
      BY <3>3 DEF Requests
    <3> QED BY <3>1, <3>3, <3>4 DEF At
  <2> QED BY <2>1, <2>2, <2>3 DEF RaceInv, At
<1>5. ASSUME NEW h \in Handlers, RequestPut(h) PROVE RaceInv'
  <2>1. UNCHANGED <<read, readVersion, entryVersion, overtaken>> /\ version' \in {version, version + 1}
    BY <1>5 DEF RequestPut, applied
  <2>2. \A g \in Handlers \ {h} : request'[g] = request[g]
    BY <1>5 DEF RequestPut, Done, TypeOK
  <2>3. ASSUME At(h, "apply")'
        PROVE  request'[h].version = version' /\ request'[h].replica \in Replicas
    <3> DEFINE new == [request[h] EXCEPT !.at = "apply", !.version = version + 1]
    <3>1. \/ request' = [request EXCEPT ![h] = Missing]
          \/ request' = [request EXCEPT ![h] = new] /\ version' = version + 1
      BY <1>5 DEF RequestPut, Done
    <3>2. request[h] # Missing
      BY <1>5 DEF RequestPut, At
    <3>3. request[h] \in Requests /\ request \in [Handlers -> Requests \union {Missing}]
      BY <3>2 DEF TypeOK
    <3>4. new.version = version + 1 /\ new.replica \in Replicas
      BY <1>0, <3>3 DEF Requests
    <3> HIDE DEF new
    <3> QED BY <2>3, <3>1, <3>3, <3>4 DEF At
  <2>4. \A g \in Handlers \ {h} : (At(g, "apply")' <=> At(g, "apply")) /\ request'[g].version = request[g].version
    BY <2>2 DEF At
  <2>5. ASSUME NEW g \in Handlers, At(g, "apply")'
        PROVE  /\ request'[g].version <= version'
               /\ g \in overtaken' \/ entryVersion'[request'[g].replica] <= request'[g].version
    <3>1. CASE g = h
      BY <1>0, <2>1, <2>3, <2>5, <3>1 DEF RaceInv
    <3>2. CASE g # h
      <4>1. g \in Handlers \ {h}
        BY <3>2
      <4>2. request'[g] = request[g] /\ At(g, "apply") /\ request[g].version \in Nat
        BY <1>0, <2>2, <2>4, <2>5, <4>1 DEF At
      <4> QED BY <1>0, <2>1, <4>2 DEF RaceInv
    <3> QED BY <3>1, <3>2
  <2>6. \A c \in Replicas : /\ entryVersion'[c] <= version' /\ readVersion'[c] <= version'
                            /\ read'[c] # Missing => c \in overtaken' \/ entryVersion'[c] <= readVersion'[c]
    BY <1>0, <2>1 DEF RaceInv
  <2> QED BY <2>5, <2>6 DEF RaceInv
<1>6. ASSUME NEW h \in Handlers, RequestApply(h) PROVE RaceInv'
  <2>1. At(h, "apply") /\ request[h] # Missing
    BY <1>6 DEF RequestApply, At
  <2>2. /\ Applied(request[h].replica, h, request[h].version)
        /\ request[h].replica \in Replicas /\ request[h].version \in Nat /\ request[h].version <= version
    BY <1>0, <1>6, <2>1 DEF RequestApply, RaceInv
  <2>3. /\ UNCHANGED <<version, read, readVersion>> /\ request'[h] = Missing
        /\ \A g \in Handlers \ {h} : request'[g] = request[g]
    BY <1>6 DEF RequestApply, Done, TypeOK
  <2>4. \A d \in Replicas : read'[d] # Missing => read[d] # Missing /\ readVersion'[d] = readVersion[d] /\ d # h
    BY <2>3
  <2>5. \A d \in Replicas : readVersion'[d] <= version
    BY <2>3 DEF RaceInv
  <2>6. \A g \in Handlers : At(g, "apply")' => At(g, "apply") /\ request'[g] = request[g] /\ g # h
    BY <2>3 DEF At
  <2> QED BY <2>2, <2>3, <2>4, <2>5, <2>6, RaceApplied
<1>7. ASSUME NEW c \in Replicas, Restart(c) PROVE RaceInv'
  <2>1. /\ version' = version /\ read'[c] = Missing /\ readVersion'[c] = 0 /\ entryVersion'[c] = 0
        /\ \A d \in Replicas \ {c} : /\ read'[d] = read[d] /\ readVersion'[d] = readVersion[d]
                                     /\ entryVersion'[d] = entryVersion[d]
                                     /\ d \in overtaken => d \in overtaken'
    BY <1>7 DEF Restart, TypeOK
  <2>2. \A h \in Handlers : request'[h] # Missing =>
          request'[h] = request[h] /\ request[h].replica # c /\ (h \in overtaken => h \in overtaken')
    BY <1>7 DEF Restart, On
  <2>3. \A h \in Handlers : At(h, "apply")' => At(h, "apply") /\ request'[h] # Missing
    BY <2>2 DEF At
  <2>4. \A h \in Handlers : At(h, "apply")' =>
          /\ request'[h].version <= version'
          /\ h \in overtaken' \/ entryVersion'[request'[h].replica] <= request'[h].version
    BY <1>0, <2>1, <2>2, <2>3 DEF RaceInv
  <2>5. \A d \in Replicas : /\ entryVersion'[d] <= version' /\ readVersion'[d] <= version'
                            /\ read'[d] # Missing => d \in overtaken' \/ entryVersion'[d] <= readVersion'[d]
    <3>1. ASSUME NEW d \in Replicas \ {c}
          PROVE  /\ entryVersion'[d] <= version' /\ readVersion'[d] <= version'
                 /\ read'[d] # Missing => d \in overtaken' \/ entryVersion'[d] <= readVersion'[d]
      BY <2>1 DEF RaceInv
    <3>2. entryVersion'[c] <= version' /\ readVersion'[c] <= version' /\ read'[c] = Missing
      BY <1>0, <2>1
    <3> QED BY <3>1, <3>2
  <2> QED BY <2>4, <2>5 DEF RaceInv
<1>8. ASSUME NEW c \in Replicas, NEW l \in Limits, SetMetricLimits(c, l) PROVE RaceInv'
  <2>1. UNCHANGED <<read, request, applied, version>>
    BY <1>8 DEF SetMetricLimits
  <2> QED BY <2>1, RaceKept
<1>9. ASSUME NEW h \in Handlers, NEW c \in Replicas, NEW s \in Specs, SetProduceTasksCronExpr(h, c, s)
      PROVE  RaceInv'
  <2>1. UNCHANGED <<read, version, readVersion, entryVersion, overtaken>>
    BY <1>9 DEF SetProduceTasksCronExpr, applied
  <2>2. request'[h].at = "get" /\ \A g \in Handlers \ {h} : request'[g] = request[g]
    BY <1>9 DEF SetProduceTasksCronExpr, TypeOK
  <2> QED BY <2>1, <2>2 DEF RaceInv, At
<1>11. ASSUME NEW c \in Replicas, SyncUpdates(c) PROVE RaceInv'
  <2>1. UNCHANGED <<read, request, applied, version>>
    BY <1>11 DEF SyncUpdates
  <2> QED BY <2>1, RaceKept
<1>12. ASSUME NEW h \in Handlers, RequestUpdates(h) PROVE RaceInv'
  <2>1. UNCHANGED <<read, request, applied, version>>
    BY <1>12 DEF RequestUpdates
  <2> QED BY <2>1, RaceKept
<1>10. CASE UNCHANGED vars
  <2>1. UNCHANGED <<read, request, applied, version>>
    BY <1>10 DEF vars
  <2> QED BY <2>1, RaceKept
<1> QED
  BY <1>1, <1>2, <1>3, <1>4, <1>5, <1>6, <1>7, <1>8, <1>9, <1>10, <1>11, <1>12 DEF Next, RunSyncLoop, Serve

(***************************************************************************)
(* For any number of replicas, handlers and requests: the schedule of a    *)
(* running replica goes back only by the sync loop or a request that       *)
(* another update of that replica has overtaken between its etcd call and  *)
(* the scheduler's lock (Sync, SetProduceTasksCronExpr, UpdateSchedule).   *)
(***************************************************************************)
THEOREM RollbacksNeedRaces == Spec => RollbackNeedsRace
<1> DEFINE Safe == \A c \in Replicas :
             entry'[c] # Missing /\ entryVersion'[c] < entryVersion[c] =>
               \E by \in overtaken \intersect Pending(c) : by \notin Pending(c)'
<1>1. Init => RaceInv
  BY DEF Init, RaceInv, At
<1>2. TypeOK /\ RaceInv /\ [Next]_vars => RaceInv'
  BY RaceStep
<1>3. TypeOK /\ RaceInv /\ [Next]_vars => [Safe]_vars
  <2> SUFFICES ASSUME TypeOK, RaceInv, Next, NEW c \in Replicas, entry'[c] # Missing,
                      entryVersion'[c] < entryVersion[c]
               PROVE  \E by \in overtaken \intersect Pending(c) : by \notin Pending(c)'
    OBVIOUS
  <2> USE ScheduleAssumption
  <2>0. entryVersion[c] \in Nat /\ readVersion[c] \in Nat
    BY DEF TypeOK
  <2>1. CASE UNCHANGED entryVersion
    BY <2>0, <2>1
  <2>2. ASSUME NEW d \in Replicas, Sync(d)
        PROVE  \E by \in overtaken \intersect Pending(c) : by \notin Pending(c)'
    <3>1. d = c
      BY <2>0, <2>2 DEF Sync, Applied, TypeOK
    <3>2. read[c] # Missing /\ read'[c] = Missing /\ entryVersion'[c] = readVersion[c]
      BY <2>2, <3>1 DEF Sync, Applied, TypeOK
    <3>3. c \in overtaken
      BY <2>0, <3>2 DEF RaceInv
    <3>4. c \in Pending(c) /\ c \notin Pending(c)'
      BY <3>2 DEF Pending
    <3> QED BY <3>3, <3>4
  <2>3. ASSUME NEW h \in Handlers, RequestApply(h)
        PROVE  \E by \in overtaken \intersect Pending(c) : by \notin Pending(c)'
    <3>1. At(h, "apply") /\ request[h] # Missing /\ request'[h] = Missing
      BY <2>3 DEF RequestApply, At, Done, TypeOK
    <3>2. request[h].version \in Nat
      BY <3>1, RequestType
    <3>3. request[h].replica = c /\ entryVersion'[c] = request[h].version
      BY <2>0, <2>3 DEF RequestApply, Applied, TypeOK
    <3>4. h \in overtaken
      BY <2>0, <3>1, <3>2, <3>3 DEF RaceInv
    <3>5. h \in Pending(c) /\ h \notin Pending(c)'
      BY <3>1, <3>3 DEF Pending, At, On
    <3> QED BY <3>4, <3>5
  <2>4. ASSUME NEW d \in Replicas, Restart(d) PROVE FALSE
    <3>1. entryVersion' = [entryVersion EXCEPT ![d] = 0] /\ entry' = [entry EXCEPT ![d] = Missing]
      BY <2>4 DEF Restart
    <3> QED BY <2>0, <3>1 DEF TypeOK
  <2>5. ASSUME NEW d \in Replicas,
               \/ Bootstrap(d) \/ GetProduceTasksCronExpr(d) \/ SyncUpdates(d) \/ \E l \in Limits : SetMetricLimits(d, l)
               \/ \E h \in Handlers, s \in Specs : SetProduceTasksCronExpr(h, d, s)
        PROVE  UNCHANGED entryVersion
    BY <2>5 DEF Bootstrap, EnsureLimitsGet, EnsureLimitsPut, EnsureSpecGet, EnsureSpecPut,
                GetProduceTasksCronExpr, SyncUpdates, SetMetricLimits, SetProduceTasksCronExpr, applied
  <2>6. ASSUME NEW h \in Handlers, RequestGet(h) \/ RequestPut(h) \/ RequestUpdates(h) PROVE UNCHANGED entryVersion
    BY <2>6 DEF RequestGet, RequestPut, RequestUpdates, applied
  <2> QED BY <2>1, <2>2, <2>3, <2>4, <2>5, <2>6 DEF Next, RunSyncLoop, Serve
<1> QED BY <1>1, <1>2, <1>3, TypeCorrect, PTL DEF Spec, RollbackNeedsRace
=============================================================================
