---------------------------- MODULE MCLeadership ----------------------------
(* Instances of Leadership for TLC. *)
EXTENDS Leadership, TLC

CONSTANTS c1, c2, dev

(* Two deployed replicas and a developer's process, or that process alone. *)
MCReplicas == {c1, c2, dev}
MCLocal == {dev}
=============================================================================
