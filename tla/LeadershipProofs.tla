-------------------------- MODULE LeadershipProofs --------------------------
(* Proofs about Leadership, for any number of replicas, elections and crashes. *)
EXTENDS Leadership, TLAPS

(* An orderly replica with callback g under way is between its two roles. *)
InTransition(c, g) ==
  /\ g.kind = "start" <=> c \in believes
  /\ c \in cronRunning <=> g.kind = "stop"
  /\ c \in isLeader <=>
       /\ c \notin Local
       /\ (g.kind = "stop" /\ g.at = "flag") \/ (g.kind = "start" /\ g.at = "cron")

Quiet(c) == callbacks[c] = {} /\ InRole(c)
Changing(c) == \E g \in Callbacks : callbacks[c] = {g} /\ InTransition(c, g)

(* RoleFollowsElection says nothing while a callback runs; this does. *)
OrderlyInv == \A c \in Orderly : Quiet(c) \/ Changing(c)

Inv == TypeOK /\ OrderlyInv

----------------------------------------------------------------------------
(* Spawn keeps the callbacks well typed. *)
LEMMA SpawnType ==
  ASSUME TypeOK, NEW c \in Replicas, NEW kind \in {"start", "stop"}, NEW term \in Nat,
         Spawn(c, kind, term)
  PROVE  /\ callbacks' \in [Replicas -> SUBSET Callbacks]
         /\ overlapped' \subseteq Replicas /\ missed' \subseteq Replicas
  BY DEF TypeOK, Spawn, Callbacks

(* No operation of main, the elector or a callback leaves the state's types. *)
LEMMA TypeStep ==
  ASSUME TypeOK, [Next]_vars
  PROVE  TypeOK'
<1> USE LeadershipAssumption
<1>1. ASSUME NEW c \in Replicas, BootStep(c) PROVE TypeOK'
  BY <1>1 DEF TypeOK, BootStep, StartElector, AddOnStart, AddOnStop, Boot, process, BootSteps
<1>2. ASSUME NEW c \in Replicas, onLeaderStart(c) PROVE TypeOK'
  <2>1. elections' \in Nat
    BY <1>2 DEF TypeOK, onLeaderStart
  <2>2. Spawn(c, "start", elections')
    BY <1>2 DEF onLeaderStart
  <2> QED BY <1>2, <2>1, <2>2, SpawnType DEF TypeOK, onLeaderStart
<1>3. ASSUME NEW c \in Replicas, onLeaderStop(c) PROVE TypeOK'
  <2>1. elections \in Nat /\ Spawn(c, "stop", elections)
    BY <1>3 DEF TypeOK, onLeaderStop
  <2> QED BY <1>3, <2>1, SpawnType DEF TypeOK, onLeaderStop
<1>4. ASSUME NEW c \in Replicas, LocalRun(c) PROVE TypeOK'
  <2>1. elections \in Nat /\ Spawn(c, "start", elections)
    BY <1>4 DEF TypeOK, LocalRun
  <2> QED BY <1>4, <2>1, SpawnType DEF TypeOK, LocalRun
<1>5. ASSUME NEW c \in Replicas, NEW g \in callbacks[c], SetLeader(c, g) PROVE TypeOK'
  <2>1. g \in Callbacks /\ [g EXCEPT !.at = "cron"] \in Callbacks
    BY DEF TypeOK, Callbacks
  <2> QED BY <1>5, <2>1 DEF TypeOK, SetLeader
<1>6. ASSUME NEW c \in Replicas, NEW g \in callbacks[c], StartStopCron(c, g) PROVE TypeOK'
  BY <1>6 DEF TypeOK, StartStopCron
<1>7. ASSUME NEW c \in Replicas, Crash(c) PROVE TypeOK'
  BY <1>7 DEF TypeOK, Crash, BootSteps
<1>8. CASE SessionExpires
  BY <1>8 DEF TypeOK, SessionExpires, process
<1>9. CASE UNCHANGED vars
  BY <1>9 DEF TypeOK, vars, process
<1> QED
  BY <1>1, <1>2, <1>3, <1>4, <1>5, <1>6, <1>7, <1>8, <1>9 DEF Next, ElectorStep, CallbackStep

(* The variables of every replica, main and the election keep their types. *)
THEOREM TypeCorrect == Spec => []TypeOK
<1>1. Init => TypeOK
  BY LeadershipAssumption DEF Init, TypeOK, BootSteps
<1>2. TypeOK /\ [Next]_vars => TypeOK'
  BY TypeStep
<1> QED BY <1>1, <1>2, PTL DEF Spec

----------------------------------------------------------------------------
(* A step that leaves process alone, or does so for c, keeps c's state. *)
Same(c) ==
  /\ c \in believes' <=> c \in believes
  /\ c \in isLeader' <=> c \in isLeader
  /\ c \in cronRunning' <=> c \in cronRunning
  /\ callbacks'[c] = callbacks[c]
  /\ c \in Orderly' => c \in Orderly

(* A replica the step did not touch is as orderly as it was. *)
LEMMA SameKeeps ==
  ASSUME OrderlyInv, NEW c \in Orderly', Same(c)
  PROVE  (Quiet(c) \/ Changing(c))'
  BY DEF OrderlyInv, Same, Quiet, Changing, InRole, InTransition

(* An orderly replica that changes its belief was in its role and has one callback now. *)
LEMMA SpawnKeeps ==
  ASSUME Inv, NEW c \in Replicas, NEW kind \in {"start", "stop"}, NEW term \in Nat,
         Spawn(c, kind, term),
         kind = "start" <=> c \notin believes,
         kind = "stop" => c \notin Local,
         kind = "start" <=> c \in believes',
         isLeader' = isLeader, cronRunning' = cronRunning,
         c \in Orderly'
  PROVE  Changing(c)'
<1> DEFINE g == [term |-> term, kind |-> kind, at |-> "flag"]
<1>1. g \in Callbacks /\ g.kind = kind /\ g.at = "flag"
  BY DEF Callbacks
<1>2. Registered(c, kind) /\ c \in Orderly
  BY DEF Spawn, Orderly
<1>3. callbacks[c] = {} /\ callbacks'[c] = {g}
  BY <1>2 DEF Spawn, Inv, TypeOK, Orderly
<1>4. InRole(c)
  BY <1>2, <1>3 DEF Inv, OrderlyInv, Quiet, Changing
<1>5. InTransition(c, g)'
  BY <1>1, <1>4 DEF InRole, InTransition
<1> QED BY <1>1, <1>3, <1>5 DEF Changing

(* The invariant is inductive: one case per action. *)
LEMMA OrderlyStep ==
  ASSUME Inv, [Next]_vars
  PROVE  OrderlyInv'
<1> USE LeadershipAssumption
<1>0. TypeOK /\ OrderlyInv
  BY DEF Inv
<1> SUFFICES ASSUME NEW d \in Orderly' PROVE (Quiet(d) \/ Changing(d))'
  BY DEF OrderlyInv
<1>d. d \in Replicas
  BY DEF Orderly
<1>1. ASSUME NEW c \in Replicas, BootStep(c) PROVE Same(d)
  BY <1>1 DEF BootStep, StartElector, AddOnStart, AddOnStop, Boot, process, Same, Orderly
<1>2. ASSUME NEW c \in Replicas, onLeaderStart(c) PROVE Same(d) \/ Changing(d)'
  <2>1. CASE c = d
    <3>1. elections' \in Nat
      BY <1>2, <1>0 DEF onLeaderStart, TypeOK
    <3>2. c \notin believes /\ c \in believes'
      BY <1>2 DEF onLeaderStart
    <3> QED BY <1>2, <2>1, <3>1, <3>2, SpawnKeeps DEF onLeaderStart
  <2>2. CASE c # d
    BY <1>2, <2>2, <1>d, <1>0 DEF onLeaderStart, Spawn, Same, Orderly, TypeOK
  <2> QED BY <2>1, <2>2
<1>3. ASSUME NEW c \in Replicas, onLeaderStop(c) PROVE Same(d) \/ Changing(d)'
  <2>1. CASE c = d
    <3>1. elections \in Nat
      BY <1>0 DEF TypeOK
    <3>2. c \in believes /\ c \notin believes'
      BY <1>3 DEF onLeaderStop
    <3> QED BY <1>3, <2>1, <3>1, <3>2, SpawnKeeps DEF onLeaderStop
  <2>2. CASE c # d
    BY <1>3, <2>2, <1>d, <1>0 DEF onLeaderStop, Spawn, Same, Orderly, TypeOK
  <2> QED BY <2>1, <2>2
<1>4. ASSUME NEW c \in Replicas, LocalRun(c) PROVE Same(d) \/ Changing(d)'
  <2>1. CASE c = d
    <3>1. elections \in Nat
      BY <1>0 DEF TypeOK
    <3>2. c \notin believes /\ c \in believes'
      BY <1>4 DEF LocalRun
    <3> QED BY <1>4, <2>1, <3>1, <3>2, SpawnKeeps DEF LocalRun
  <2>2. CASE c # d
    BY <1>4, <2>2, <1>d, <1>0 DEF LocalRun, Spawn, Same, Orderly, TypeOK
  <2> QED BY <2>1, <2>2
<1>5. ASSUME NEW c \in Replicas, NEW g \in callbacks[c], SetLeader(c, g)
      PROVE  Same(d) \/ Changing(d)'
  <2>1. CASE c = d
    <3> DEFINE h == [g EXCEPT !.at = "cron"]
    <3>1. g \in Callbacks /\ g.at = "flag"
      BY <1>5, <1>0 DEF SetLeader, TypeOK
    <3>2. h \in Callbacks /\ h.kind = g.kind /\ h.at = "cron" /\ g.kind \in {"start", "stop"}
      BY <3>1 DEF Callbacks
    <3>3. d \in Orderly
      BY <1>5 DEF SetLeader, Orderly
    <3>4. callbacks[c] = {g} /\ InTransition(c, g)
      BY <1>0, <3>3, <2>1 DEF OrderlyInv, Quiet, Changing
    <3>5. callbacks'[c] = {h}
      BY <1>5, <3>4, <1>0 DEF SetLeader, TypeOK
    <3>6. InTransition(c, h)'
      <4>1. believes' = believes /\ cronRunning' = cronRunning
        BY <1>5 DEF SetLeader
      <4>2. c \in isLeader' <=> c \notin Local /\ h.kind = "start"
        BY <1>5, <3>1, <3>2, <3>4 DEF SetLeader, InTransition
      <4> QED BY <3>2, <3>4, <4>1, <4>2 DEF InTransition
    <3> QED BY <2>1, <3>2, <3>5, <3>6 DEF Changing
  <2>2. CASE c # d
    BY <1>5, <2>2, <1>d, <1>0 DEF SetLeader, Same, Orderly, TypeOK
  <2> QED BY <2>1, <2>2
<1>6. ASSUME NEW c \in Replicas, NEW g \in callbacks[c], StartStopCron(c, g)
      PROVE  Same(d) \/ Quiet(d)'
  <2>1. CASE c = d
    <3>1. g \in Callbacks /\ g.at = "cron"
      BY <1>6, <1>0 DEF StartStopCron, TypeOK
    <3>2. g.kind \in {"start", "stop"}
      BY <3>1 DEF Callbacks
    <3>3. d \in Orderly
      BY <1>6 DEF StartStopCron, Orderly
    <3>4. callbacks[c] = {g} /\ InTransition(c, g)
      BY <1>0, <3>3, <2>1 DEF OrderlyInv, Quiet, Changing
    <3>5. callbacks'[c] = {}
      BY <1>6, <3>4, <1>0 DEF StartStopCron, TypeOK
    <3>6. InRole(c)'
      BY <1>6, <3>1, <3>2, <3>4 DEF StartStopCron, InTransition, InRole
    <3> QED BY <2>1, <3>5, <3>6 DEF Quiet
  <2>2. CASE c # d
    BY <1>6, <2>2, <1>d, <1>0 DEF StartStopCron, Same, Orderly, TypeOK
  <2> QED BY <2>1, <2>2
<1>7. ASSUME NEW c \in Replicas, Crash(c) PROVE Same(d) \/ Quiet(d)'
  <2>1. CASE c = d
    BY <1>7, <2>1, <1>0 DEF Crash, Quiet, InRole, TypeOK
  <2>2. CASE c # d
    BY <1>7, <2>2, <1>d, <1>0 DEF Crash, Same, Orderly, TypeOK
  <2> QED BY <2>1, <2>2
<1>8. CASE SessionExpires
  <2>1. Same(d)
    BY <1>8 DEF SessionExpires, process, Same, Orderly
  <2> QED BY <2>1, <1>0, SameKeeps
<1>9. CASE UNCHANGED vars
  <2>1. Same(d)
    BY <1>9 DEF vars, process, Same, Orderly
  <2> QED BY <2>1, <1>0, SameKeeps
<1>10. CASE \E c \in Replicas : BootStep(c) \/ ElectorStep(c) \/ CallbackStep(c) \/ Crash(c)
  <2>1. Same(d) \/ Quiet(d)' \/ Changing(d)'
    BY <1>10, <1>1, <1>2, <1>3, <1>4, <1>5, <1>6, <1>7 DEF ElectorStep, CallbackStep
  <2>2. CASE Same(d)
    BY <2>2, <1>0, SameKeeps
  <2> QED BY <2>1, <2>2
<1> QED BY <1>8, <1>9, <1>10 DEF Next

(* Every orderly replica is in its role, or on the way to it. *)
THEOREM RolesAreOrderly == Spec => []Inv
<1>1. Init => Inv
  BY LeadershipAssumption
     DEF Init, Inv, TypeOK, BootSteps, OrderlyInv, Orderly, Quiet, InRole
<1>2. Inv /\ [Next]_vars => Inv'
  BY TypeStep, OrderlyStep DEF Inv
<1> QED BY <1>1, <1>2, PTL DEF Spec

(***************************************************************************)
(* The leader flag and the cron follow the election on every replica whose *)
(* callbacks were registered in time and did not overlap, whatever the     *)
(* number of replicas, elections, lost sessions and crashes.               *)
(***************************************************************************)
THEOREM RolesFollowElection == Spec => []RoleFollowsElection
<1>1. Inv => RoleFollowsElection
  BY DEF Inv, OrderlyInv, RoleFollowsElection, Quiet, Changing
<1> QED BY <1>1, RolesAreOrderly, PTL
=============================================================================
