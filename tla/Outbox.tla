------------------------------- MODULE Outbox -------------------------------
(***************************************************************************)
(* The outbox table and the relays that drain it into Kafka                *)
(* (internal/outbox/relay.go, internal/storage/postgres/outbox.go).        *)
(*                                                                         *)
(* Every replica of the service runs one relay.  A relay leases a batch of *)
(* rows by moving them to "processing"; a lease another relay may break is *)
(* a row whose updated_at is more than a minute old.  Marking a message    *)
(* does not look at the row's current status, so the relay that lost its   *)
(* lease still writes its verdict.                                         *)
(***************************************************************************)
EXTENDS PgClaim, Integers

CONSTANTS
  Events,            \* the outbox rows, by id
  Relays,            \* one Relay.Run goroutine per replica
  NoMark,            \* a relay that is not between a write and its mark
  CreatedAt,         \* created_at of each row
  BatchSize,         \* Relay.batchSize
  MaxRetries,        \* Relay.maxRetries
  MaxFaults,         \* bound: crashes and failed storage calls in a behaviour
  MaxEarlyExpiries   \* bound: leases that run out under a live relay

ASSUME OutboxAssumption ==
  /\ IsFiniteSet(Relays) /\ Relays # {}
  /\ NoMark \notin [event : Events, ok : BOOLEAN]
  /\ CreatedAt \in [Events -> Nat]
  /\ BatchSize \in Nat \ {0}
  /\ MaxRetries \in Nat \ {0}
  /\ MaxFaults \in Nat
  /\ MaxEarlyExpiries \in Nat

VARIABLES
  status,         \* outbox.status; "absent" before the row is inserted
  retryCount,     \* outbox.retry_count
  expired,        \* the "processing" rows with updated_at over a minute ago
  batch,          \* per relay: fetched messages it has not written yet
  mark,           \* per relay: the message written last, not yet marked
  delivered,      \* how many calls of WriteMessages brought the event to the topic
  faults,         \* crashes and failed storage calls so far
  earlyExpiries,  \* leases that ran out under a live relay so far
  reclaims        \* history: how often an expired lease was taken over

rows == <<status, retryCount, expired>>
bounds == <<faults, earlyExpiries>>
vars == <<status, retryCount, expired, batch, mark, delivered, faults, earlyExpiries, reclaims>>

Statuses == {"absent", "pending", "processing", "sent", "failed"}
Marks == [event : Events, ok : BOOLEAN]

TypeOK ==
  /\ status \in [Events -> Statuses]
  /\ retryCount \in [Events -> Nat]
  /\ expired \in SUBSET Events
  /\ batch \in [Relays -> SUBSET Events]
  /\ mark \in [Relays -> Marks \union {NoMark}]
  /\ delivered \in [Events -> Nat]
  /\ faults \in Nat
  /\ earlyExpiries \in Nat
  /\ reclaims \in [Events -> Nat]

Init ==
  /\ status = [e \in Events |-> "absent"]
  /\ retryCount = [e \in Events |-> 0]
  /\ expired = {}
  /\ batch = [r \in Relays |-> {}]
  /\ mark = [r \in Relays |-> NoMark]
  /\ delivered = [e \in Events |-> 0]
  /\ faults = 0
  /\ earlyExpiries = 0
  /\ reclaims = [e \in Events |-> 0]

Fault == faults < MaxFaults /\ faults' = faults + 1

Idle(r) == batch[r] = {} /\ mark[r] = NoMark
Marking(r, e) == mark[r] # NoMark /\ mark[r].event = e
Holds(r, e) == e \in batch[r] \/ Marking(r, e)

----------------------------------------------------------------------------
(* SaveReports commits the events of its reports, stamped with one time. *)
enqueueOutboxEvents(S) ==
  /\ S # {} /\ \A e \in S : status[e] = "absent"
  /\ \A e, f \in S : CreatedAt[e] = CreatedAt[f]
  /\ status' = [e \in Events |-> IF e \in S THEN "pending" ELSE status[e]]
  /\ retryCount' = [e \in Events |-> IF e \in S THEN 0 ELSE retryCount[e]]
  /\ UNCHANGED <<expired, batch, mark, delivered, bounds, reclaims>>

(* Mutant: rows in "processing" are fetched whatever the age of the lease. *)
EligibleIgnoringLease == {e \in Events : status[e] \in {"pending", "processing"}}

(* Mutant: a row left in "processing" is never looked at again. *)
EligiblePendingOnly == {e \in Events : status[e] = "pending"}

(* Mutant: rows given up on are fetched again. *)
EligibleWithFailed ==
  {e \in Events : status[e] \in {"pending", "failed"} \/ (status[e] = "processing" /\ e \in expired)}

Eligible ==
  {e \in Events : status[e] = "pending" \/ (status[e] = "processing" /\ e \in expired)}

(***************************************************************************)
(* A tick of the poll ticker on an idle relay.  The rows are leased when   *)
(* the statement commits; if the reply is lost, or a row does not scan,    *)
(* they stay leased to nobody.                                             *)
(***************************************************************************)
FetchPendingOutboxMessages(r) ==
  /\ Idle(r)
  /\ \E picked \in OldestFirst(Eligible, BatchSize, CreatedAt) :
       /\ picked # {}
       /\ status' = [e \in Events |-> IF e \in picked THEN "processing" ELSE status[e]]
       /\ expired' = expired \ picked
       /\ reclaims' = [e \in Events |->
                         IF e \in picked \intersect expired THEN reclaims[e] + 1 ELSE reclaims[e]]
       /\ \/ batch' = [batch EXCEPT ![r] = picked] /\ UNCHANGED faults
          \/ Fault /\ UNCHANGED batch
  /\ UNCHANGED <<retryCount, mark, delivered, earlyExpiries>>

(***************************************************************************)
(* WriteMessages for one message of the batch (RETURNING gives no order).  *)
(* A write that reports an error may still have reached the broker.        *)
(***************************************************************************)
WriteMessages(r, e) ==
  /\ mark[r] = NoMark /\ e \in batch[r]
  /\ batch' = [batch EXCEPT ![r] = @ \ {e}]
  /\ \E ok \in BOOLEAN, reached \in BOOLEAN :
       /\ ok => reached
       /\ mark' = [mark EXCEPT ![r] = [event |-> e, ok |-> ok]]
       /\ delivered' = IF reached THEN [delivered EXCEPT ![e] = @ + 1] ELSE delivered
  /\ UNCHANGED <<rows, bounds, reclaims>>

SetSent(e) ==
  /\ status' = [status EXCEPT ![e] = "sent"]
  /\ expired' = expired \ {e}
  /\ UNCHANGED retryCount

(* Mutant: the row is given up on one failure late. *)
SetFailedLate(e) ==
  /\ status' = [status EXCEPT ![e] = IF retryCount[e] >= MaxRetries THEN "failed" ELSE "pending"]
  /\ retryCount' = [retryCount EXCEPT ![e] = @ + 1]
  /\ expired' = expired \ {e}

(* Mutant: the retries are counted down. *)
SetFailedCountdown(e) ==
  /\ status' = [status EXCEPT ![e] = IF retryCount[e] + 1 >= MaxRetries THEN "failed" ELSE "pending"]
  /\ retryCount' = [retryCount EXCEPT ![e] = @ - 1]
  /\ expired' = expired \ {e}

SetFailed(e) ==
  /\ status' = [status EXCEPT ![e] = IF retryCount[e] + 1 >= MaxRetries THEN "failed" ELSE "pending"]
  /\ retryCount' = [retryCount EXCEPT ![e] = @ + 1]
  /\ expired' = expired \ {e}

(* Mutant: a failed write is marked as sent. *)
MarkSentUnchecked(r) ==
  /\ mark[r] # NoMark
  /\ mark' = [mark EXCEPT ![r] = NoMark]
  /\ SetSent(mark[r].event)
  /\ UNCHANGED <<batch, delivered, bounds, reclaims>>

(* The mark is one UPDATE; when it reports an error it may have committed. *)
MarkOutboxMessageSent(r) ==
  /\ mark[r] # NoMark /\ mark[r].ok
  /\ mark' = [mark EXCEPT ![r] = NoMark]
  /\ \/ SetSent(mark[r].event) /\ UNCHANGED faults
     \/ SetSent(mark[r].event) /\ Fault
     \/ UNCHANGED rows /\ Fault
  /\ UNCHANGED <<batch, delivered, earlyExpiries, reclaims>>

MarkOutboxMessageFailed(r) ==
  /\ mark[r] # NoMark /\ ~mark[r].ok
  /\ mark' = [mark EXCEPT ![r] = NoMark]
  /\ \/ SetFailed(mark[r].event) /\ UNCHANGED faults
     \/ SetFailed(mark[r].event) /\ Fault
     \/ UNCHANGED rows /\ Fault
  /\ UNCHANGED <<batch, delivered, earlyExpiries, reclaims>>

(***************************************************************************)
(* A minute passes since updated_at.  Under a relay that still holds the   *)
(* message this is a slow batch, and bounded; a lease nobody holds always  *)
(* runs out.                                                               *)
(***************************************************************************)
Expire(e) ==
  /\ status[e] = "processing" /\ e \notin expired
  /\ expired' = expired \union {e}
  /\ \/ (\A r \in Relays : ~Holds(r, e)) /\ UNCHANGED earlyExpiries
     \/ /\ \E r \in Relays : Holds(r, e)
        /\ earlyExpiries < MaxEarlyExpiries /\ earlyExpiries' = earlyExpiries + 1
  /\ UNCHANGED <<status, retryCount, batch, mark, delivered, faults, reclaims>>

(* The replica dies and is restarted: the relay forgets what it held. *)
Crash(r) ==
  /\ ~Idle(r) /\ Fault
  /\ batch' = [batch EXCEPT ![r] = {}]
  /\ mark' = [mark EXCEPT ![r] = NoMark]
  /\ UNCHANGED <<rows, delivered, earlyExpiries, reclaims>>

RelayStep(r) ==
  \/ FetchPendingOutboxMessages(r)
  \/ \E e \in Events : WriteMessages(r, e)
  \/ MarkOutboxMessageSent(r)
  \/ MarkOutboxMessageFailed(r)

Next ==
  \/ \E S \in SUBSET Events : enqueueOutboxEvents(S)
  \/ \E r \in Relays : RelayStep(r) \/ Crash(r)
  \/ \E e \in Events : Expire(e)

Spec == Init /\ [][Next]_vars

(***************************************************************************)
(* Fairness.  Each replica's poll ticker keeps firing and its calls return *)
(* (main.go starts every relay with a context that is never cancelled),    *)
(* and wall-clock time passes.                                             *)
(***************************************************************************)
Fairness ==
  /\ \A r \in Relays : WF_vars(RelayStep(r))
  /\ \A e \in Events : WF_vars(Expire(e))

FairSpec == Spec /\ Fairness

----------------------------------------------------------------------------
Holders(e) == {r \in Relays : Holds(r, e)}
Writers(e) == {r \in Relays : e \in batch[r]}
One(P) == IF P THEN 1 ELSE 0
Settled(e) == status[e] \in {"sent", "failed"}

(***************************************************************************)
(* No event is lost as sent: a row marked "sent" has reached the topic, in *)
(* spite of relays that crash between the write and the mark, of leases    *)
(* that change hands and of marks that ignore the row's status.            *)
(***************************************************************************)
SentWasDelivered == \A e \in Events : status[e] = "sent" => delivered[e] > 0

(***************************************************************************)
(* The retry budget of MarkOutboxMessageFailed: a row is given up on only  *)
(* after maxRetries recorded failures, a row with that many is never taken *)
(* up again, and relays that lost their lease overrun the budget by at     *)
(* most one failure each.                                                  *)
(***************************************************************************)
RetryBudget ==
  \A e \in Events :
    /\ status[e] = "failed" => retryCount[e] >= MaxRetries
    /\ retryCount[e] >= MaxRetries => Settled(e)
    /\ retryCount[e] < MaxRetries + Cardinality(Relays)

(***************************************************************************)
(* A lease is exclusive until it runs out: beyond the first, every relay   *)
(* that still holds a row came from a takeover of an expired lease, and a  *)
(* row that nobody needs to hold (pending or settled) makes one less.      *)
(***************************************************************************)
LeaseBound ==
  \A e \in Events :
    status[e] # "absent" =>
      Cardinality(Holders(e)) + One(status[e] # "processing") <= 1 + reclaims[e]

(***************************************************************************)
(* At-least-once has a price, and this is all of it: an event reaches the  *)
(* topic once, plus once for each recorded failure and each takeover of an *)
(* expired lease.                                                          *)
(***************************************************************************)
DuplicateBound == \A e \in Events : delivered[e] <= 1 + retryCount[e] + reclaims[e]

(***************************************************************************)
(* The marks do not look at the row's status, so a late verdict can bring  *)
(* a row back from "sent" or "failed"; it takes a lease that expired under *)
(* a relay still at work on the row.                                       *)
(***************************************************************************)
SettledForGood ==
  [][\A e \in Events : Settled(e) /\ reclaims[e] = 0 => status'[e] = status[e]]_vars

(***************************************************************************)
(* Every event SaveReports committed is in the end sent or given up on,    *)
(* and stays so: no crash and no lost reply strands a row in "processing". *)
(***************************************************************************)
EventuallySettled ==
  \A e \in Events : status[e] # "absent" ~> []Settled(e)

(* What a row is for the reader of the topic. *)
StageOf ==
  [absent |-> "none", pending |-> "open", processing |-> "open", sent |-> "acked", failed |-> "dropped"]

Delivery == INSTANCE EventDelivery WITH
  stage <- [e \in Events |-> StageOf[status[e]]],
  failures <- retryCount

(***************************************************************************)
(* The table and its relays implement at-least-once delivery with a retry  *)
(* budget: leases, batches, crashes and late marks are steps of            *)
(* EventDelivery or invisible to it.                                       *)
(***************************************************************************)
ImplementsDelivery == Delivery!Spec
============================================================================
