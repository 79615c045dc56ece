------------------------------ MODULE MCOutbox ------------------------------
(* An instance of Outbox for TLC: two events, two relays. *)
EXTENDS Outbox, TLC

CONSTANTS e1, e2, r1, r2

MCEvents == {e1, e2}
MCRelays == {r1, r2}
MCCreatedAt == (e1 :> 1) @@ (e2 :> 2)
=============================================================================
