----------------------------- MODULE Leadership -----------------------------
(***************************************************************************)
(* Leadership and what the service hangs on it: main.go lines 259-345 and  *)
(* internal/leaderelection.                                                *)
(*                                                                         *)
(* The elector library is modelled from its use: it calls onLeaderStart    *)
(* when the replica wins the election and onLeaderStop when it finds out   *)
(* that its etcd session is gone.  Both spawn one goroutine per registered *)
(* callback, and the goroutines of a replica run in any order.             *)
(***************************************************************************)
EXTENDS Naturals

CONSTANTS
  Replicas,
  NoHolder,      \* nobody holds the election key
  Local,         \* the replicas with env == localEnv: LocalElector instead of EtcdElector
  MaxElections,  \* bound: elections won in a behaviour
  MaxCrashes     \* bound: replicas that die

ASSUME LeadershipAssumption ==
  /\ NoHolder \notin Replicas
  /\ Local \subseteq Replicas
  /\ MaxElections \in Nat
  /\ MaxCrashes \in Nat

VARIABLES
  boot,         \* per replica: what main does next
  holder,       \* the replica whose session holds the election key
  believes,     \* the replicas whose elector has reported leadership
  callbacks,    \* per replica: callback goroutines that have not finished
  isLeader,     \* the replicas whose task consumer has its leader flag set
  cronRunning,  \* the replicas whose cron runs
  elections,    \* elections won so far
  crashes,      \* replicas that have died so far
  overlapped,   \* history: replicas that spawned a callback while another ran
  missed        \* history: replicas that changed role before the callback was registered

process == <<believes, callbacks, isLeader, cronRunning, overlapped, missed>>
vars == <<boot, holder, process, elections, crashes>>

BootSteps == {"elector", "addOnStart", "addOnStop", "ready"}
Callbacks == [term : Nat, kind : {"start", "stop"}, at : {"flag", "cron"}]

TypeOK ==
  /\ boot \in [Replicas -> BootSteps]
  /\ holder \in Replicas \union {NoHolder}
  /\ callbacks \in [Replicas -> SUBSET Callbacks]
  /\ believes \subseteq Replicas /\ isLeader \subseteq Replicas /\ cronRunning \subseteq Replicas
  /\ overlapped \subseteq Replicas /\ missed \subseteq Replicas
  /\ elections \in Nat /\ crashes \in Nat

Init ==
  /\ boot = [c \in Replicas |-> "elector"]
  /\ holder = NoHolder
  /\ callbacks = [c \in Replicas |-> {}]
  /\ believes = {} /\ isLeader = {} /\ cronRunning = {}
  /\ overlapped = {} /\ missed = {}
  /\ elections = 0 /\ crashes = 0

Boot(c, from, to) ==
  /\ boot[c] = from
  /\ boot' = [boot EXCEPT ![c] = to]
  /\ UNCHANGED <<holder, process, elections, crashes>>

(* main spawns the elector before it registers the callbacks. *)
StartElector(c) == Boot(c, "elector", "addOnStart")
AddOnStart(c) == Boot(c, "addOnStart", "addOnStop")
AddOnStop(c) == Boot(c, "addOnStop", "ready")

Registered(c, kind) ==
  boot[c] \in IF kind = "start" THEN {"addOnStop", "ready"} ELSE {"ready"}

(* for _, callback := range ... { go callback() } *)
Spawn(c, kind, term) ==
  IF Registered(c, kind)
  THEN /\ callbacks' = [callbacks EXCEPT ![c] = @ \union {[term |-> term, kind |-> kind, at |-> "flag"]}]
       /\ overlapped' = IF callbacks[c] = {} THEN overlapped ELSE overlapped \union {c}
       /\ UNCHANGED missed
  ELSE /\ missed' = missed \union {c}
       /\ UNCHANGED <<callbacks, overlapped>>

(* The campaign succeeds: the key was free. *)
onLeaderStart(c) ==
  /\ c \notin Local /\ boot[c] # "elector"
  /\ c \notin believes /\ holder = NoHolder
  /\ elections < MaxElections /\ elections' = elections + 1
  /\ holder' = c
  /\ believes' = believes \union {c}
  /\ Spawn(c, "start", elections')
  /\ UNCHANGED <<boot, isLeader, cronRunning, crashes>>

(* The elector notices that its session has expired. *)
onLeaderStop(c) ==
  /\ c \in believes /\ c \notin Local /\ holder # c
  /\ believes' = believes \ {c}
  /\ Spawn(c, "stop", elections)
  /\ UNCHANGED <<boot, holder, isLeader, cronRunning, elections, crashes>>

(* LocalElector.Run: leader at once, and for good. *)
LocalRun(c) ==
  /\ c \in Local /\ boot[c] # "elector" /\ c \notin believes
  /\ believes' = believes \union {c}
  /\ Spawn(c, "start", elections)
  /\ UNCHANGED <<boot, holder, isLeader, cronRunning, elections, crashes>>

(* etcd drops the session of the holder: a partition, a pause, a dead process. *)
SessionExpires ==
  /\ holder # NoHolder
  /\ holder' = NoHolder
  /\ UNCHANGED <<boot, process, elections, crashes>>

(* Mutant: the stop callback leaves the flag as it is. *)
SetLeaderOnce(c, g) ==
  /\ g \in callbacks[c] /\ g.at = "flag"
  /\ isLeader' = IF g.kind = "start" /\ c \notin Local THEN isLeader \union {c} ELSE isLeader
  /\ callbacks' = [callbacks EXCEPT ![c] = (@ \ {g}) \union {[g EXCEPT !.at = "cron"]}]
  /\ UNCHANGED <<boot, holder, believes, cronRunning, elections, crashes, overlapped, missed>>

(* First line of either callback: taskConsumer.SetLeader. *)
SetLeader(c, g) ==
  /\ g \in callbacks[c] /\ g.at = "flag"
  /\ isLeader' = IF g.kind = "stop" THEN isLeader \ {c}
                 ELSE IF c \in Local THEN isLeader ELSE isLeader \union {c}
  /\ callbacks' = [callbacks EXCEPT ![c] = (@ \ {g}) \union {[g EXCEPT !.at = "cron"]}]
  /\ UNCHANGED <<boot, holder, believes, cronRunning, elections, crashes, overlapped, missed>>

(* Mutant: the cron is started and never stopped. *)
StartCronOnly(c, g) ==
  /\ g \in callbacks[c] /\ g.at = "cron"
  /\ cronRunning' = IF g.kind = "start" THEN cronRunning \union {c} ELSE cronRunning
  /\ callbacks' = [callbacks EXCEPT ![c] = @ \ {g}]
  /\ UNCHANGED <<boot, holder, believes, isLeader, elections, crashes, overlapped, missed>>

(* Second line: cronManager.Start, or Stop, which takes effect before it waits. *)
StartStopCron(c, g) ==
  /\ g \in callbacks[c] /\ g.at = "cron"
  /\ cronRunning' = IF g.kind = "start" THEN cronRunning \union {c} ELSE cronRunning \ {c}
  /\ callbacks' = [callbacks EXCEPT ![c] = @ \ {g}]
  /\ UNCHANGED <<boot, holder, believes, isLeader, elections, crashes, overlapped, missed>>

(* The process dies and is restarted; its session lives until it expires. *)
Crash(c) ==
  /\ boot[c] # "elector"
  /\ crashes < MaxCrashes /\ crashes' = crashes + 1
  /\ boot' = [boot EXCEPT ![c] = "elector"]
  /\ callbacks' = [callbacks EXCEPT ![c] = {}]
  /\ believes' = believes \ {c}
  /\ isLeader' = isLeader \ {c}
  /\ cronRunning' = cronRunning \ {c}
  /\ overlapped' = overlapped \ {c}
  /\ missed' = missed \ {c}
  /\ UNCHANGED <<holder, elections>>

BootStep(c) == StartElector(c) \/ AddOnStart(c) \/ AddOnStop(c)

ElectorStep(c) == onLeaderStart(c) \/ onLeaderStop(c) \/ LocalRun(c)

CallbackStep(c) == \E g \in callbacks[c] : SetLeader(c, g) \/ StartStopCron(c, g)

Next ==
  \/ \E c \in Replicas : BootStep(c) \/ ElectorStep(c) \/ CallbackStep(c) \/ Crash(c)
  \/ SessionExpires

Spec == Init /\ [][Next]_vars

(***************************************************************************)
(* Fairness.  main and its goroutines run; the elector of every replica    *)
(* campaigns and notices a lost session; etcd lets the session of a dead   *)
(* process expire (a session the replica keeps alive need not).            *)
(***************************************************************************)
Fairness ==
  /\ \A c \in Replicas : WF_vars(BootStep(c)) /\ WF_vars(ElectorStep(c)) /\ WF_vars(CallbackStep(c))
  /\ WF_vars(holder \notin believes /\ SessionExpires)

FairSpec == Spec /\ Fairness

----------------------------------------------------------------------------
(* The replicas for which the order of events was the one main.go has in mind. *)
Orderly == Replicas \ (overlapped \union missed)

(* Replica c acts as what it believes to be. *)
InRole(c) ==
  /\ c \in cronRunning <=> c \in believes
  /\ c \in isLeader <=> c \in believes \ Local

(***************************************************************************)
(* Flag and cron follow the election: on a replica whose callbacks were    *)
(* registered in time and never ran at once, the task consumer leaves the  *)
(* claims to others and the cron runs exactly while the replica believes   *)
(* it leads, as soon as its callbacks are through.  A local replica is     *)
(* leader and scrapes all the same.                                        *)
(***************************************************************************)
RoleFollowsElection ==
  \A c \in Orderly : callbacks[c] = {} => InRole(c)

(***************************************************************************)
(* The service settles on one producer: when the elections are over, one   *)
(* replica runs the producer cron and has its leader flag set, and all the *)
(* others claim tasks, unless a replica was overtaken by its own callbacks *)
(* or the session of the last elected leader is gone.                      *)
(***************************************************************************)
SettlesOnOneProducer ==
  <>[](\/ Orderly # Replicas \/ holder = NoHolder
       \/ isLeader = {holder} /\ cronRunning \ Local = {holder})

(***************************************************************************)
(* AddOnStart registers a callback that is called when the leadership is   *)
(* won: a replica that leads gets its cron started.                        *)
(***************************************************************************)
LeaderStartsCron == \A c \in Replicas : c \in believes ~> (c \in cronRunning \/ c \notin believes)
=============================================================================
