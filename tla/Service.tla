------------------------------ MODULE Service ------------------------------
(* What the modules about the scrape pipeline share. *)

CONSTANTS
  Tasks,     \* the scrape tasks a behaviour may insert, by id
  Replicas   \* the running instances of the service

============================================================================
