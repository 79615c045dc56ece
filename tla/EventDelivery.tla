--------------------------- MODULE EventDelivery ---------------------------
(***************************************************************************)
(* What the transactional outbox promises, without rows, relays or leases. *)
(*                                                                         *)
(* An event that was published is open until it is settled.  It may reach  *)
(* the topic any number of times (at-least-once delivery), it is           *)
(* acknowledged only after it has reached the topic, and it is dropped     *)
(* only when MaxRetries attempts at it have been recorded as failed.  An   *)
(* attempt that fails below that budget reopens the event.                 *)
(***************************************************************************)
EXTENDS Naturals

CONSTANTS Events, MaxRetries

VARIABLES
  stage,      \* "none", "open", "acked" or "dropped", for each event
  delivered,  \* how often each event has been appended to the topic
  failures    \* how many failed attempts have been recorded for it

vars == <<stage, delivered, failures>>

Init ==
  /\ stage = [e \in Events |-> "none"]
  /\ delivered = [e \in Events |-> 0]
  /\ failures = [e \in Events |-> 0]

Publish(S) ==
  /\ S # {} /\ \A e \in S : stage[e] = "none"
  /\ stage' = [e \in Events |-> IF e \in S THEN "open" ELSE stage[e]]
  /\ UNCHANGED <<delivered, failures>>

Deliver(e) ==
  /\ stage[e] # "none"
  /\ delivered' = [delivered EXCEPT ![e] = @ + 1]
  /\ UNCHANGED <<stage, failures>>

Acknowledge(e) ==
  /\ stage[e] # "none" /\ delivered[e] > 0
  /\ stage' = [stage EXCEPT ![e] = "acked"]
  /\ UNCHANGED <<delivered, failures>>

RecordFailure(e) ==
  /\ stage[e] # "none"
  /\ failures' = [failures EXCEPT ![e] = @ + 1]
  /\ stage' = [stage EXCEPT ![e] = IF failures[e] + 1 >= MaxRetries THEN "dropped" ELSE "open"]
  /\ UNCHANGED delivered

Next ==
  \/ \E S \in SUBSET Events : Publish(S)
  \/ \E e \in Events : Deliver(e) \/ Acknowledge(e) \/ RecordFailure(e)

Spec == Init /\ [][Next]_vars

============================================================================
