--------------------------- MODULE MCTaskConsumer ---------------------------
(* Instances of TaskConsumer for TLC. *)
EXTENDS TaskConsumer, TLC

CONSTANTS t1, t2, t3, c1, c2

NoTask == {}
OneTask == {t1}
TwoTasks == {t1, t2}
ThreeTasks == {t1, t2, t3}
NoReplica == {}
OneReplica == {c1}
TwoReplicas == {c1, c2}

(* Tasks are interchangeable. *)
TaskSymmetry == Permutations(Tasks)
=============================================================================
