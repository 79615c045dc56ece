---------------------------- MODULE ReportStore ----------------------------
(***************************************************************************)
(* What SaveReports promises the consumer, without statements, locks or    *)
(* transactions.                                                           *)
(*                                                                         *)
(* A replica collects reports and saves all it has collected in one step,  *)
(* in which the row of every group becomes the last report collected of    *)
(* it and the outbox gets the events of all of them.  A batch with a       *)
(* report the database refuses is not saved at all.  The replica forgets   *)
(* what it has saved, or saves it again because it was not told.           *)
(***************************************************************************)
EXTENDS Naturals, Sequences

CONSTANTS Replicas, Groups, Refused, None, MaxScrapes

VARIABLES
  reports,  \* per group: its row, or None
  outbox,   \* the reports whose events have been published
  pending   \* per replica: the reports it has collected, in order

vars == <<reports, outbox, pending>>

Init ==
  /\ reports = [g \in Groups |-> None]
  /\ outbox = {}
  /\ pending = [c \in Replicas |-> <<>>]

Collect(c, g, n) ==
  /\ pending' = [pending EXCEPT ![c] = Append(@, [group |-> g, seq |-> n, by |-> c])]
  /\ UNCHANGED <<reports, outbox>>

(* Report i is the last of its group in the batch. *)
IsLast(batch, i) == \A j \in DOMAIN batch : j > i => batch[j].group # batch[i].group

(* The rows once the batch has been written over them. *)
Overwritten(rows, batch) ==
  [g \in Groups |->
     IF \E i \in DOMAIN batch : batch[i].group = g
     THEN batch[CHOOSE i \in DOMAIN batch : batch[i].group = g /\ IsLast(batch, i)]
     ELSE rows[g]]

Save(c) ==
  /\ \A i \in DOMAIN pending[c] : pending[c][i] \notin Refused
  /\ reports' = Overwritten(reports, pending[c])
  /\ outbox' = outbox \union {pending[c][i] : i \in DOMAIN pending[c]}
  /\ pending' \in {pending, [pending EXCEPT ![c] = <<>>]}

(* The replica dies. *)
Forget(c) ==
  /\ pending' = [pending EXCEPT ![c] = <<>>]
  /\ UNCHANGED <<reports, outbox>>

Next ==
  \E c \in Replicas :
    \/ \E g \in Groups, n \in 1..MaxScrapes : Collect(c, g, n)
    \/ Save(c) \/ Forget(c)

Spec == Init /\ [][Next]_vars
============================================================================
