----------------------------- MODULE MCSchedule -----------------------------
(* Instances of Schedule for TLC. *)
EXTENDS Schedule, TLC

CONSTANTS c1, c2, h1, h2, s1, s2, l1, l2

TwoReplicas == {c1, c2}
OneHandler == {h1}
TwoHandlers == {h1, h2}
TwoSpecs == {s1, s2}
OneLimit == {l1}
TwoLimits == {l1, l2}

(* Replicas are interchangeable, and so are the goroutines that serve requests. *)
ActorSymmetry == Permutations(Replicas) \union Permutations(Handlers)
=============================================================================
