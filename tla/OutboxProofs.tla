---------------------------- MODULE OutboxProofs ----------------------------
(***************************************************************************)
(* Proofs about the outbox for every set of events, every finite set of    *)
(* relays and every value of the bounds.  OutboxInv is the inductive       *)
(* invariant; its conjuncts are checked by TLC as well (MCOutbox).         *)
(***************************************************************************)
EXTENDS Outbox, FiniteSetTheorems, TLAPS

(* Adding or removing one relay changes a count of relays by one at most. *)
LEMMA RelayCounts ==
  ASSUME NEW S \in SUBSET Relays, NEW r \in Relays
  PROVE  /\ Cardinality(S) \in Nat
         /\ Cardinality(Relays) \in Nat
         /\ Cardinality(S) <= Cardinality(Relays)
         /\ r \notin S => Cardinality(S) < Cardinality(Relays)
         /\ r \notin S => Cardinality(S \union {r}) = Cardinality(S) + 1
         /\ r \in S => Cardinality(S \ {r}) = Cardinality(S) - 1
<1>1. IsFiniteSet(Relays) /\ IsFiniteSet(S)
  BY OutboxAssumption, FS_Subset
<1>2. /\ Cardinality(S) \in Nat
      /\ Cardinality(Relays) \in Nat
      /\ Cardinality(S) <= Cardinality(Relays)
  BY <1>1, FS_CardinalityType, FS_Subset
<1>3. r \notin S => Cardinality(S \union {r}) = Cardinality(S) + 1
  BY <1>1, FS_AddElement
<1>4. r \in S => Cardinality(S \ {r}) = Cardinality(S) - 1
  BY <1>1, FS_RemoveElement
<1>5. r \notin S => Cardinality(S) < Cardinality(Relays)
  <2>1. Cardinality(S \union {r}) <= Cardinality(Relays)
    BY <1>1, FS_Subset, S \union {r} \subseteq Relays
  <2>2. QED
    BY <1>2, <1>3, <2>1
<1>6. QED
  BY <1>2, <1>3, <1>4, <1>5

(* Each state component has its type: statuses, counters and verdicts. *)
THEOREM TypeCorrect == Spec => []TypeOK
<1>1. Init => TypeOK
  BY DEF Init, TypeOK, Statuses
<1>2. TypeOK /\ [Next]_vars => TypeOK'
  <2> SUFFICES ASSUME TypeOK, [Next]_vars PROVE TypeOK'
    OBVIOUS
  <2> USE DEF TypeOK, Statuses, bounds, rows, Fault
  <2>1. ASSUME NEW S \in SUBSET Events, enqueueOutboxEvents(S) PROVE TypeOK'
    BY <2>1 DEF enqueueOutboxEvents
  <2>2. ASSUME NEW r \in Relays, FetchPendingOutboxMessages(r) PROVE TypeOK'
    <3>1. PICK picked \in OldestFirst(Eligible, BatchSize, CreatedAt) :
            /\ status' = [e \in Events |-> IF e \in picked THEN "processing" ELSE status[e]]
            /\ expired' = expired \ picked
            /\ reclaims' = [e \in Events |->
                 IF e \in picked \intersect expired THEN reclaims[e] + 1 ELSE reclaims[e]]
            /\ \/ batch' = [batch EXCEPT ![r] = picked] /\ UNCHANGED faults
               \/ Fault /\ UNCHANGED batch
      BY <2>2 DEF FetchPendingOutboxMessages
    <3>2. picked \in SUBSET Events
      BY <3>1 DEF OldestFirst, Eligible
    <3>3. QED
      BY <2>2, <3>1, <3>2 DEF FetchPendingOutboxMessages
  <2>3. ASSUME NEW r \in Relays, NEW e \in Events, WriteMessages(r, e) PROVE TypeOK'
    BY <2>3 DEF WriteMessages, Marks
  <2>4. ASSUME NEW r \in Relays, MarkOutboxMessageSent(r) PROVE TypeOK'
    BY <2>4 DEF MarkOutboxMessageSent, SetSent, Marks
  <2>5. ASSUME NEW r \in Relays, MarkOutboxMessageFailed(r) PROVE TypeOK'
    BY <2>5 DEF MarkOutboxMessageFailed, SetFailed, Marks
  <2>6. ASSUME NEW e \in Events, Expire(e) PROVE TypeOK'
    BY <2>6 DEF Expire
  <2>7. ASSUME NEW r \in Relays, Crash(r) PROVE TypeOK'
    BY <2>7 DEF Crash
  <2>8. CASE UNCHANGED vars
    BY <2>8 DEF vars
  <2>9. QED
    BY <2>1, <2>2, <2>3, <2>4, <2>5, <2>6, <2>7, <2>8 DEF Next, RelayStep
<1>3. QED
  BY <1>1, <1>2, PTL DEF Spec

----------------------------------------------------------------------------
(***************************************************************************)
(* The inductive invariant, row by row and relay by relay.  The budgets of *)
(* LeaseBound, DuplicateBound and RetryBudget are not inductive on their   *)
(* own: each must also count what the relays that hold the row may still   *)
(* do to it (a pending write, a pending mark).                             *)
(***************************************************************************)
Untouched(e) == status[e] = "absent" => retryCount[e] = 0 /\ delivered[e] = 0 /\ Holders(e) = {}

LeasedIfExpired(e) == e \in expired => status[e] = "processing"

SentRow(e) == status[e] = "sent" => delivered[e] > 0

RetryReserve(e) ==
  /\ status[e] = "failed" => retryCount[e] >= MaxRetries
  /\ retryCount[e] >= MaxRetries =>
       /\ Settled(e)
       /\ retryCount[e] + Cardinality(Holders(e)) < MaxRetries + Cardinality(Relays)

LeaseBudget(e) ==
  status[e] # "absent" =>
    Cardinality(Holders(e)) + One(status[e] # "processing") <= 1 + reclaims[e]

WriteBudget(e) ==
  status[e] # "absent" =>
    delivered[e] + Cardinality(Writers(e)) + One(status[e] = "pending")
      <= 1 + retryCount[e] + reclaims[e]

RowInv(e) ==
  /\ Untouched(e)
  /\ LeasedIfExpired(e)
  /\ SentRow(e)
  /\ RetryReserve(e)
  /\ LeaseBudget(e)
  /\ WriteBudget(e)

RelayInv(r) ==
  mark[r] # NoMark =>
    /\ mark[r].event \notin batch[r]
    /\ mark[r].ok => delivered[mark[r].event] > 0

OutboxInv ==
  /\ \A e \in Events : RowInv(e)
  /\ \A r \in Relays : RelayInv(r)

USE DEF One, Settled

(* The counts in the invariant are naturals. *)
LEMMA CountTypes ==
  ASSUME NEW e \in Events
  PROVE  /\ Cardinality(Holders(e)) \in Nat
         /\ Cardinality(Writers(e)) \in Nat
         /\ Cardinality(Relays) \in Nat
<1>1. Holders(e) \in SUBSET Relays /\ Writers(e) \in SUBSET Relays
  BY DEF Holders, Writers
<1>2. QED
  BY <1>1, RelayCounts, OutboxAssumption

(* A step that leaves a row's holders, writers and columns alone. *)
LEMMA RowUntouched ==
  ASSUME NEW e \in Events, RowInv(e),
         Holders(e)' = Holders(e), Writers(e)' = Writers(e),
         status'[e] = status[e], retryCount'[e] = retryCount[e],
         delivered'[e] = delivered[e], reclaims'[e] = reclaims[e],
         e \in expired' => e \in expired
  PROVE  RowInv(e)'
BY DEF RowInv, Untouched, LeasedIfExpired, SentRow, RetryReserve, LeaseBudget, WriteBudget
(* SaveReports opens rows nobody holds yet. *)
LEMMA EnqueueKeeps ==
  ASSUME TypeOK, OutboxInv, NEW S \in SUBSET Events, enqueueOutboxEvents(S)
  PROVE  OutboxInv'
<1> USE DEF enqueueOutboxEvents, bounds
<1>1. ASSUME NEW e \in Events PROVE RowInv(e)'
  <2>1. Holders(e)' = Holders(e) /\ Writers(e)' = Writers(e)
    BY DEF Holders, Writers, Holds, Marking
  <2>2. CASE e \in S
    <3>1. /\ Holders(e) = {} /\ delivered[e] = 0 /\ retryCount'[e] = 0 /\ status'[e] = "pending"
          /\ e \notin expired
      BY <2>2 DEF OutboxInv, RowInv, Untouched, LeasedIfExpired, TypeOK
    <3>2. Writers(e) = {}
      BY <3>1 DEF Holders, Writers, Holds
    <3>3. Cardinality({}) = 0
      BY FS_EmptySet
    <3>4. reclaims[e] \in Nat /\ MaxRetries \in Nat \ {0}
      BY OutboxAssumption DEF TypeOK
    <3>5. QED
      BY <2>1, <3>1, <3>2, <3>3, <3>4
      DEF RowInv, Untouched, LeasedIfExpired, SentRow, RetryReserve, LeaseBudget, WriteBudget
  <2>3. CASE e \notin S
    <3>1. /\ status'[e] = status[e] /\ retryCount'[e] = retryCount[e]
          /\ delivered'[e] = delivered[e] /\ reclaims'[e] = reclaims[e]
      BY <2>3 DEF TypeOK
    <3>2. QED
      BY <2>1, <3>1, RowUntouched DEF OutboxInv
  <2>4. QED
    BY <2>2, <2>3
<1>2. ASSUME NEW r \in Relays PROVE RelayInv(r)'
  BY DEF OutboxInv, RelayInv
<1>3. QED
  BY <1>1, <1>2 DEF OutboxInv

(* A fetch makes the relay a holder and a writer of each row it leases. *)
LEMMA FetchKeeps ==
  ASSUME TypeOK, OutboxInv, NEW r \in Relays, FetchPendingOutboxMessages(r)
  PROVE  OutboxInv'
<1>1. PICK picked \in OldestFirst(Eligible, BatchSize, CreatedAt) :
        /\ status' = [e \in Events |-> IF e \in picked THEN "processing" ELSE status[e]]
        /\ expired' = expired \ picked
        /\ reclaims' = [e \in Events |->
             IF e \in picked \intersect expired THEN reclaims[e] + 1 ELSE reclaims[e]]
        /\ \/ batch' = [batch EXCEPT ![r] = picked] /\ UNCHANGED faults
           \/ Fault /\ UNCHANGED batch
  BY DEF FetchPendingOutboxMessages
<1>2. picked \in SUBSET Eligible
  BY DEF OldestFirst
<1>3. /\ batch[r] = {} /\ mark[r] = NoMark
      /\ UNCHANGED <<retryCount, mark, delivered, earlyExpiries>>
  BY DEF FetchPendingOutboxMessages, Idle
<1>4. ASSUME NEW e \in Events PROVE RowInv(e)'
  <2>1. r \notin Holders(e) /\ r \notin Writers(e)
    BY <1>3 DEF Holders, Writers, Holds, Marking
  <2>2. CASE e \notin picked
    <3>1. Holders(e)' = Holders(e) /\ Writers(e)' = Writers(e)
      BY <1>1, <1>3, <2>2 DEF Holders, Writers, Holds, Marking, TypeOK
    <3>2. /\ status'[e] = status[e] /\ reclaims'[e] = reclaims[e]
          /\ retryCount'[e] = retryCount[e] /\ delivered'[e] = delivered[e]
          /\ e \in expired' => e \in expired
      BY <1>1, <1>3, <2>2 DEF TypeOK
    <3>3. QED
      BY <3>1, <3>2, RowUntouched DEF OutboxInv
  <2>3. CASE e \in picked
    <3>1. /\ status[e] \in {"pending", "processing"}
          /\ status[e] = "pending" => e \notin expired
          /\ status[e] = "processing" => e \in expired
      BY <1>2, <2>3 DEF Eligible, OutboxInv, RowInv, LeasedIfExpired
    <3>2. /\ status'[e] = "processing" /\ e \notin expired'
          /\ reclaims'[e] = reclaims[e] + One(e \in expired)
          /\ retryCount'[e] = retryCount[e] /\ delivered'[e] = delivered[e]
      BY <1>1, <1>3, <2>3 DEF TypeOK
    <3>3. \/ Holders(e)' = Holders(e) \union {r} /\ Writers(e)' = Writers(e) \union {r}
          \/ Holders(e)' = Holders(e) /\ Writers(e)' = Writers(e)
      BY <1>1, <1>3, <2>3 DEF Holders, Writers, Holds, Marking, TypeOK
    <3>4. /\ Cardinality(Holders(e)') \in {Cardinality(Holders(e)), Cardinality(Holders(e)) + 1}
          /\ Cardinality(Writers(e)') \in {Cardinality(Writers(e)), Cardinality(Writers(e)) + 1}
      <4>1. Holders(e) \in SUBSET Relays /\ Writers(e) \in SUBSET Relays
        BY DEF Holders, Writers
      <4>2. QED
        BY <2>1, <3>3, <4>1, RelayCounts
    <3>5. /\ Cardinality(Holders(e)) \in Nat /\ Cardinality(Writers(e)) \in Nat
          /\ reclaims[e] \in Nat /\ retryCount[e] \in Nat /\ delivered[e] \in Nat
      BY CountTypes DEF TypeOK
    <3>6. RowInv(e)
      BY DEF OutboxInv
    <3>7. QED
      BY <3>1, <3>2, <3>4, <3>5, <3>6
      DEF RowInv, Untouched, LeasedIfExpired, SentRow, RetryReserve, LeaseBudget, WriteBudget
  <2>4. QED
    BY <2>2, <2>3
<1>5. ASSUME NEW q \in Relays PROVE RelayInv(q)'
  <2>1. CASE q = r
    BY <1>3, <2>1 DEF RelayInv
  <2>2. CASE q # r
    <3>1. batch'[q] = batch[q] /\ mark'[q] = mark[q] /\ delivered' = delivered
      BY <1>1, <1>3, <2>2 DEF TypeOK
    <3>2. QED
      BY <3>1 DEF OutboxInv, RelayInv
  <2>3. QED
    BY <2>1, <2>2
<1>6. QED
  BY <1>4, <1>5 DEF OutboxInv

(* A write turns one pending write into at most one delivery. *)
LEMMA WriteKeeps ==
  ASSUME TypeOK, OutboxInv, NEW r \in Relays, NEW m \in Events, WriteMessages(r, m)
  PROVE  OutboxInv'
<1>1. PICK ok \in BOOLEAN, reached \in BOOLEAN :
        /\ ok => reached
        /\ mark' = [mark EXCEPT ![r] = [event |-> m, ok |-> ok]]
        /\ delivered' = IF reached THEN [delivered EXCEPT ![m] = @ + 1] ELSE delivered
  BY DEF WriteMessages
<1>2. /\ mark[r] = NoMark /\ m \in batch[r]
      /\ batch' = [batch EXCEPT ![r] = @ \ {m}]
      /\ UNCHANGED <<status, retryCount, expired, reclaims>>
  BY DEF WriteMessages, rows
<1>3. mark'[r] = [event |-> m, ok |-> ok] /\ mark'[r] # NoMark
  BY <1>1, OutboxAssumption DEF TypeOK
<1>4. ASSUME NEW e \in Events PROVE RowInv(e)'
  <2>1. Holders(e)' = Holders(e)
    BY <1>1, <1>2, <1>3 DEF Holders, Holds, Marking, TypeOK
  <2>2. CASE e # m
    <3>1. Writers(e)' = Writers(e)
      BY <1>2, <2>2 DEF Writers, TypeOK
    <3>2. delivered'[e] = delivered[e]
      BY <1>1, <2>2 DEF TypeOK
    <3>3. QED
      BY <1>2, <2>1, <3>1, <3>2, RowUntouched DEF OutboxInv
  <2>3. CASE e = m
    <3>1. r \in Writers(e) /\ Writers(e)' = Writers(e) \ {r} /\ r \in Holders(e)
      BY <1>2, <2>3 DEF Writers, Holders, Holds, TypeOK
    <3>2. Cardinality(Writers(e)') = Cardinality(Writers(e)) - 1
      BY <3>1, RelayCounts DEF Writers
    <3>3. delivered'[e] \in {delivered[e], delivered[e] + 1}
      BY <1>1, <2>3 DEF TypeOK
    <3>4. /\ Cardinality(Writers(e)) \in Nat
          /\ reclaims[e] \in Nat /\ retryCount[e] \in Nat /\ delivered[e] \in Nat
      BY CountTypes DEF TypeOK
    <3>5. RowInv(e) /\ status[e] # "absent"
      BY <3>1 DEF OutboxInv, RowInv, Untouched
    <3>6. QED
      BY <1>2, <2>1, <3>2, <3>3, <3>4, <3>5
      DEF RowInv, Untouched, LeasedIfExpired, SentRow, RetryReserve, LeaseBudget, WriteBudget
  <2>4. QED
    BY <2>2, <2>3
<1>5. ASSUME NEW q \in Relays PROVE RelayInv(q)'
  <2>1. CASE q = r
    BY <1>1, <1>2, <1>3, <2>1 DEF RelayInv, TypeOK
  <2>2. CASE q # r
    <3>1. batch'[q] = batch[q] /\ mark'[q] = mark[q]
      BY <1>1, <1>2, <2>2 DEF TypeOK
    <3>2. \A e \in Events : delivered[e] > 0 => delivered'[e] > 0
      BY <1>1 DEF TypeOK
    <3>3. mark[q] # NoMark => mark[q].event \in Events
      BY DEF TypeOK, Marks
    <3>4. QED
      BY <3>1, <3>2, <3>3 DEF OutboxInv, RelayInv
  <2>3. QED
    BY <2>1, <2>2
<1>6. QED
  BY <1>4, <1>5 DEF OutboxInv
(* A mark ends the relay's hold on the row it marks and on no other row. *)
LEMMA MarkReleases ==
  ASSUME TypeOK, OutboxInv, NEW r \in Relays, mark[r] # NoMark,
         mark' = [mark EXCEPT ![r] = NoMark], batch' = batch, delivered' = delivered,
         NEW e \in Events
  PROVE  /\ mark[r].event \in Events
         /\ Writers(e)' = Writers(e)
         /\ e # mark[r].event => Holders(e)' = Holders(e)
         /\ e = mark[r].event =>
              /\ Cardinality(Holders(e)') = Cardinality(Holders(e)) - 1
              /\ Cardinality(Holders(e)) <= Cardinality(Relays)
              /\ status[e] # "absent"
         /\ \A q \in Relays : RelayInv(q)'
<1>1. mark[r].event \in Events /\ mark[r].event \notin batch[r]
  BY DEF OutboxInv, RelayInv, TypeOK, Marks
<1>2. Writers(e)' = Writers(e)
  BY DEF Writers
<1>3. e # mark[r].event => Holders(e)' = Holders(e)
  BY DEF Holders, Holds, Marking, TypeOK
<1>4. ASSUME e = mark[r].event
      PROVE  /\ Cardinality(Holders(e)') = Cardinality(Holders(e)) - 1
             /\ Cardinality(Holders(e)) <= Cardinality(Relays)
             /\ status[e] # "absent"
  <2>1. r \in Holders(e) /\ Holders(e)' = Holders(e) \ {r}
    BY <1>1, <1>4 DEF Holders, Holds, Marking, TypeOK
  <2>2. status[e] # "absent"
    BY <2>1 DEF OutboxInv, RowInv, Untouched
  <2>3. Holders(e) \in SUBSET Relays
    BY DEF Holders
  <2>4. QED
    BY <2>1, <2>2, <2>3, RelayCounts
<1>5. ASSUME NEW q \in Relays PROVE RelayInv(q)'
  BY DEF OutboxInv, RelayInv, TypeOK
<1>6. QED
  BY <1>1, <1>2, <1>3, <1>4, <1>5

(* The verdict "sent" is written over any status, and only after a write. *)
LEMMA MarkSentKeeps ==
  ASSUME TypeOK, OutboxInv, NEW r \in Relays, MarkOutboxMessageSent(r)
  PROVE  OutboxInv'
<1>1. /\ mark[r] # NoMark /\ mark[r].ok
      /\ mark' = [mark EXCEPT ![r] = NoMark] /\ batch' = batch /\ delivered' = delivered
      /\ reclaims' = reclaims
      /\ SetSent(mark[r].event) \/ UNCHANGED rows
  BY DEF MarkOutboxMessageSent
<1>2. delivered[mark[r].event] > 0
  BY <1>1 DEF OutboxInv, RelayInv
<1>3. ASSUME NEW e \in Events PROVE RowInv(e)'
  <2>1. RowInv(e)
    BY DEF OutboxInv
  <2>2. CASE e # mark[r].event
    <3>1. /\ status'[e] = status[e] /\ retryCount'[e] = retryCount[e]
          /\ e \in expired' => e \in expired
      BY <1>1, <2>2 DEF SetSent, rows, TypeOK
    <3>2. QED
      BY <1>1, <2>1, <2>2, <3>1, MarkReleases, RowUntouched
  <2>3. CASE e = mark[r].event
    <3>1. /\ Cardinality(Holders(e)') = Cardinality(Holders(e)) - 1
          /\ Writers(e)' = Writers(e)
          /\ status[e] # "absent"
      BY <1>1, <2>3, MarkReleases
    <3>2. /\ Cardinality(Holders(e)) \in Nat /\ Cardinality(Writers(e)) \in Nat
          /\ Cardinality(Relays) \in Nat /\ MaxRetries \in Nat
          /\ reclaims[e] \in Nat /\ retryCount[e] \in Nat /\ delivered[e] \in Nat
      BY CountTypes, OutboxAssumption DEF TypeOK
    <3>3. /\ retryCount'[e] = retryCount[e] /\ delivered'[e] = delivered[e] /\ reclaims'[e] = reclaims[e]
          /\ \/ status'[e] = "sent" /\ e \notin expired'
             \/ status'[e] = status[e] /\ expired' = expired
      BY <1>1, <2>3 DEF SetSent, rows, TypeOK
    <3>4. QED
      BY <1>2, <2>1, <2>3, <3>1, <3>2, <3>3
      DEF RowInv, Untouched, LeasedIfExpired, SentRow, RetryReserve, LeaseBudget, WriteBudget
  <2>4. QED
    BY <2>2, <2>3
<1>4. mark[r].event \in Events
  BY <1>1 DEF TypeOK, Marks
<1>5. \A q \in Relays : RelayInv(q)'
  BY <1>1, <1>4, MarkReleases
<1>6. QED
  BY <1>3, <1>5 DEF OutboxInv

(* The verdict "failed" spends one retry and one hold on the row. *)
LEMMA MarkFailedKeeps ==
  ASSUME TypeOK, OutboxInv, NEW r \in Relays, MarkOutboxMessageFailed(r)
  PROVE  OutboxInv'
<1>1. /\ mark[r] # NoMark
      /\ mark' = [mark EXCEPT ![r] = NoMark] /\ batch' = batch /\ delivered' = delivered
      /\ reclaims' = reclaims
      /\ SetFailed(mark[r].event) \/ UNCHANGED rows
  BY DEF MarkOutboxMessageFailed
<1>2. ASSUME NEW e \in Events PROVE RowInv(e)'
  <2>1. RowInv(e)
    BY DEF OutboxInv
  <2>2. CASE e # mark[r].event
    <3>1. /\ status'[e] = status[e] /\ retryCount'[e] = retryCount[e]
          /\ e \in expired' => e \in expired
      BY <1>1, <2>2 DEF SetFailed, rows, TypeOK
    <3>2. QED
      BY <1>1, <2>1, <2>2, <3>1, MarkReleases, RowUntouched
  <2>3. CASE e = mark[r].event
    <3>1. /\ Cardinality(Holders(e)') = Cardinality(Holders(e)) - 1
          /\ Cardinality(Holders(e)) <= Cardinality(Relays)
          /\ Writers(e)' = Writers(e)
          /\ status[e] # "absent"
      BY <1>1, <2>3, MarkReleases
    <3>2. /\ Cardinality(Holders(e)) \in Nat /\ Cardinality(Writers(e)) \in Nat
          /\ Cardinality(Relays) \in Nat /\ MaxRetries \in Nat
          /\ reclaims[e] \in Nat /\ retryCount[e] \in Nat /\ delivered[e] \in Nat
      BY CountTypes, OutboxAssumption DEF TypeOK
    <3>3. CASE SetFailed(mark[r].event)
      <4>1. /\ status'[e] = IF retryCount[e] + 1 >= MaxRetries THEN "failed" ELSE "pending"
            /\ retryCount'[e] = retryCount[e] + 1 /\ e \notin expired'
            /\ delivered'[e] = delivered[e] /\ reclaims'[e] = reclaims[e]
        BY <1>1, <2>3, <3>3 DEF SetFailed, TypeOK
      <4>2. retryCount'[e] >= MaxRetries =>
              retryCount'[e] + Cardinality(Holders(e)') < MaxRetries + Cardinality(Relays)
        BY <2>1, <3>1, <3>2, <4>1 DEF RowInv, RetryReserve
      <4>3. QED
        BY <2>1, <3>1, <3>2, <4>1, <4>2
        DEF RowInv, Untouched, LeasedIfExpired, SentRow, RetryReserve, LeaseBudget, WriteBudget
    <3>4. CASE UNCHANGED rows
      BY <1>1, <2>1, <3>1, <3>2, <3>4
      DEF rows, RowInv, Untouched, LeasedIfExpired, SentRow, RetryReserve, LeaseBudget, WriteBudget
    <3>5. QED
      BY <1>1, <3>3, <3>4
  <2>4. QED
    BY <2>2, <2>3
<1>3. mark[r].event \in Events
  BY <1>1 DEF TypeOK, Marks
<1>4. \A q \in Relays : RelayInv(q)'
  BY <1>1, <1>3, MarkReleases
<1>5. QED
  BY <1>2, <1>4 DEF OutboxInv

(* Time only turns a lease of a "processing" row into an expired one. *)
LEMMA ExpireKeeps ==
  ASSUME TypeOK, OutboxInv, NEW m \in Events, Expire(m)
  PROVE  OutboxInv'
<1>1. /\ status[m] = "processing" /\ expired' = expired \union {m}
      /\ UNCHANGED <<status, retryCount, batch, mark, delivered, reclaims>>
  BY DEF Expire
<1>2. ASSUME NEW e \in Events PROVE RowInv(e)'
  <2>1. Holders(e)' = Holders(e) /\ Writers(e)' = Writers(e)
    BY <1>1 DEF Holders, Writers, Holds, Marking
  <2>2. QED
    BY <1>1, <2>1
    DEF OutboxInv, RowInv, Untouched, LeasedIfExpired, SentRow, RetryReserve, LeaseBudget, WriteBudget
<1>3. ASSUME NEW q \in Relays PROVE RelayInv(q)'
  BY <1>1 DEF OutboxInv, RelayInv
<1>4. QED
  BY <1>2, <1>3 DEF OutboxInv

(* A crash drops holds and pending writes, so no budget is exceeded. *)
LEMMA CrashKeeps ==
  ASSUME TypeOK, OutboxInv, NEW r \in Relays, Crash(r)
  PROVE  OutboxInv'
<1>1. /\ batch' = [batch EXCEPT ![r] = {}] /\ mark' = [mark EXCEPT ![r] = NoMark]
      /\ UNCHANGED <<status, retryCount, expired, delivered, reclaims>>
  BY DEF Crash, rows
<1>2. ASSUME NEW e \in Events PROVE RowInv(e)'
  <2>1. Holders(e)' = Holders(e) \ {r} /\ Writers(e)' = Writers(e) \ {r}
    BY <1>1 DEF Holders, Writers, Holds, Marking, TypeOK
  <2>2. /\ Cardinality(Holders(e)') \in {Cardinality(Holders(e)), Cardinality(Holders(e)) - 1}
        /\ Cardinality(Writers(e)') \in {Cardinality(Writers(e)), Cardinality(Writers(e)) - 1}
    <3>1. Holders(e) \in SUBSET Relays /\ Writers(e) \in SUBSET Relays
      BY DEF Holders, Writers
    <3>2. /\ r \notin Holders(e) => Holders(e) \ {r} = Holders(e)
          /\ r \notin Writers(e) => Writers(e) \ {r} = Writers(e)
      OBVIOUS
    <3>3. QED
      BY <2>1, <3>1, <3>2, RelayCounts
  <2>3. /\ Cardinality(Holders(e)) \in Nat /\ Cardinality(Writers(e)) \in Nat
        /\ Cardinality(Relays) \in Nat /\ MaxRetries \in Nat
        /\ reclaims[e] \in Nat /\ retryCount[e] \in Nat /\ delivered[e] \in Nat
    BY CountTypes, OutboxAssumption DEF TypeOK
  <2>4. Holders(e) = {} => Holders(e)' = {}
    BY <2>1
  <2>5. QED
    BY <1>1, <2>2, <2>3, <2>4
    DEF OutboxInv, RowInv, Untouched, LeasedIfExpired, SentRow, RetryReserve, LeaseBudget, WriteBudget
<1>3. ASSUME NEW q \in Relays PROVE RelayInv(q)'
  BY <1>1 DEF OutboxInv, RelayInv, TypeOK
<1>4. QED
  BY <1>2, <1>3 DEF OutboxInv
(* OutboxInv is inductive: it holds in every reachable state of the outbox. *)
THEOREM OutboxInvariant == Spec => [](TypeOK /\ OutboxInv)
<1>1. Init => OutboxInv
  <2> SUFFICES ASSUME Init PROVE OutboxInv
    OBVIOUS
  <2>1. ASSUME NEW e \in Events PROVE RowInv(e)
    <3>1. Holders(e) = {}
      BY DEF Init, Holders, Holds, Marking
    <3>2. QED
      BY <3>1, OutboxAssumption
      DEF Init, RowInv, Untouched, LeasedIfExpired, SentRow, RetryReserve, LeaseBudget, WriteBudget
  <2>2. ASSUME NEW r \in Relays PROVE RelayInv(r)
    BY DEF Init, RelayInv
  <2>3. QED
    BY <2>1, <2>2 DEF OutboxInv
<1>2. TypeOK /\ OutboxInv /\ [Next]_vars => OutboxInv'
  <2> SUFFICES ASSUME TypeOK, OutboxInv, [Next]_vars PROVE OutboxInv'
    OBVIOUS
  <2>1. CASE UNCHANGED vars
    BY <2>1
    DEF vars, OutboxInv, RowInv, Untouched, LeasedIfExpired, SentRow, RetryReserve, LeaseBudget,
        WriteBudget, RelayInv, Holders, Writers, Holds, Marking
  <2>2. CASE Next
    BY <2>2, EnqueueKeeps, FetchKeeps, WriteKeeps, MarkSentKeeps, MarkFailedKeeps, ExpireKeeps,
       CrashKeeps
    DEF Next, RelayStep
  <2>3. QED
    BY <2>1, <2>2
<1>3. QED
  BY <1>1, <1>2, TypeCorrect, PTL DEF Spec

(* A row marked "sent" has reached the topic, whatever crashed or expired. *)
THEOREM SentIsDelivered == Spec => []SentWasDelivered
<1>1. OutboxInv => SentWasDelivered
  BY DEF OutboxInv, RowInv, SentRow, SentWasDelivered
<1>2. QED
  BY <1>1, OutboxInvariant, PTL

(* A row is given up on after maxRetries failures, and never taken up again. *)
THEOREM RetriesAreBudgeted == Spec => []RetryBudget
<1>1. TypeOK /\ OutboxInv => RetryBudget
  <2> SUFFICES ASSUME TypeOK, OutboxInv, NEW e \in Events
               PROVE  /\ status[e] = "failed" => retryCount[e] >= MaxRetries
                      /\ retryCount[e] >= MaxRetries => Settled(e)
                      /\ retryCount[e] < MaxRetries + Cardinality(Relays)
    BY DEF RetryBudget
  <2>1. RetryReserve(e)
    BY DEF OutboxInv, RowInv
  <2>2. Cardinality(Holders(e)) \in Nat /\ Cardinality(Relays) \in Nat
        /\ retryCount[e] \in Nat /\ MaxRetries \in Nat
    BY CountTypes, OutboxAssumption DEF TypeOK
  <2>3. QED
    BY <2>1, <2>2 DEF RetryReserve
<1>2. QED
  BY <1>1, OutboxInvariant, PTL

(* Each relay beyond the first that holds a row took over an expired lease. *)
THEOREM LeasesAreBounded == Spec => []LeaseBound
<1>1. OutboxInv => LeaseBound
  BY DEF OutboxInv, RowInv, LeaseBudget, LeaseBound
<1>2. QED
  BY <1>1, OutboxInvariant, PTL

(* A duplicate on the topic is paid for by a recorded failure or a takeover. *)
THEOREM DuplicatesAreBounded == Spec => []DuplicateBound
<1>1. TypeOK /\ OutboxInv => DuplicateBound
  <2> SUFFICES ASSUME TypeOK, OutboxInv, NEW e \in Events
               PROVE  delivered[e] <= 1 + retryCount[e] + reclaims[e]
    BY DEF DuplicateBound
  <2>1. Untouched(e) /\ WriteBudget(e)
    BY DEF OutboxInv, RowInv
  <2>2. /\ Cardinality(Writers(e)) \in Nat /\ retryCount[e] \in Nat
        /\ reclaims[e] \in Nat /\ delivered[e] \in Nat
    BY CountTypes DEF TypeOK
  <2>3. QED
    BY <2>1, <2>2 DEF Untouched, WriteBudget
<1>2. QED
  BY <1>1, OutboxInvariant, PTL

----------------------------------------------------------------------------
(***************************************************************************)
(* A settled row whose lease was never taken over has no holder left, so   *)
(* no late verdict can move it.                                            *)
(***************************************************************************)
THEOREM SettledStaysSettled == Spec => SettledForGood
<1>1. TypeOK /\ OutboxInv /\ [Next]_vars =>
        [\A e \in Events : Settled(e) /\ reclaims[e] = 0 => status'[e] = status[e]]_vars
  <2> SUFFICES ASSUME TypeOK, OutboxInv, Next, NEW e \in Events, Settled(e), reclaims[e] = 0
               PROVE  status'[e] = status[e]
    BY DEF Next
  <2>1. Holders(e) = {}
    <3>1. Cardinality(Holders(e)) + 1 <= 1
      BY DEF OutboxInv, RowInv, LeaseBudget
    <3>2. IsFiniteSet(Holders(e))
      BY OutboxAssumption, FS_Subset, Holders(e) \subseteq Relays DEF Holders
    <3>3. Cardinality(Holders(e)) = 0
      BY <3>1, CountTypes
    <3>4. QED
      BY <3>2, <3>3, FS_EmptySet
  <2>2. \A r \in Relays : mark[r] # NoMark => mark[r].event # e
    BY <2>1 DEF Holders, Holds, Marking
  <2>3. ASSUME NEW S \in SUBSET Events, enqueueOutboxEvents(S) PROVE status'[e] = status[e]
    BY <2>3 DEF enqueueOutboxEvents
  <2>4. ASSUME NEW r \in Relays, FetchPendingOutboxMessages(r) PROVE status'[e] = status[e]
    <3>1. PICK picked \in OldestFirst(Eligible, BatchSize, CreatedAt) :
            status' = [f \in Events |-> IF f \in picked THEN "processing" ELSE status[f]]
      BY <2>4 DEF FetchPendingOutboxMessages
    <3>2. e \notin picked
      BY DEF OldestFirst, Eligible
    <3>3. QED
      BY <3>1, <3>2
  <2>5. ASSUME NEW r \in Relays, NEW m \in Events, WriteMessages(r, m) PROVE status'[e] = status[e]
    BY <2>5 DEF WriteMessages, rows
  <2>6. ASSUME NEW r \in Relays, MarkOutboxMessageSent(r) PROVE status'[e] = status[e]
    BY <2>2, <2>6 DEF MarkOutboxMessageSent, SetSent, rows, TypeOK
  <2>7. ASSUME NEW r \in Relays, MarkOutboxMessageFailed(r) PROVE status'[e] = status[e]
    BY <2>2, <2>7 DEF MarkOutboxMessageFailed, SetFailed, rows, TypeOK
  <2>8. ASSUME NEW m \in Events, Expire(m) PROVE status'[e] = status[e]
    BY <2>8 DEF Expire
  <2>9. ASSUME NEW r \in Relays, Crash(r) PROVE status'[e] = status[e]
    BY <2>9 DEF Crash, rows
  <2>10. QED
    BY <2>3, <2>4, <2>5, <2>6, <2>7, <2>8, <2>9 DEF Next, RelayStep
<1>2. QED
  BY <1>1, OutboxInvariant, PTL DEF Spec, SettledForGood
----------------------------------------------------------------------------
(***************************************************************************)
(* The outbox implements EventDelivery.  Fetches, expiries and crashes are *)
(* stutters; the marks need the invariant, since a mark by a relay that    *)
(* lost its lease is an acknowledgement only if the event was delivered.   *)
(***************************************************************************)
THEOREM OutboxImplementsDelivery == Spec => ImplementsDelivery
<1> DEFINE stg == [e \in Events |-> StageOf[status[e]]]
<1>1. Init => Delivery!Init
  BY DEF Init, Delivery!Init, StageOf
<1>2. TypeOK /\ OutboxInv /\ [Next]_vars => [Delivery!Next]_(Delivery!vars)
  <2> SUFFICES ASSUME TypeOK, OutboxInv, [Next]_vars
               PROVE  Delivery!Next \/ UNCHANGED <<stg, delivered, retryCount>>
    BY DEF Delivery!vars
  <2>1. CASE UNCHANGED vars
    BY <2>1 DEF vars
  <2>2. ASSUME NEW S \in SUBSET Events, enqueueOutboxEvents(S) PROVE Delivery!Publish(S)
    <3>1. \A e \in S : status[e] = "absent" /\ retryCount[e] = 0
      BY <2>2 DEF enqueueOutboxEvents, OutboxInv, RowInv, Untouched
    <3>2. retryCount' = retryCount
      BY <2>2, <3>1 DEF enqueueOutboxEvents, TypeOK
    <3>3. stg' = [e \in Events |-> IF e \in S THEN "open" ELSE stg[e]]
      BY <2>2 DEF enqueueOutboxEvents, StageOf, TypeOK
    <3>4. QED
      BY <2>2, <3>1, <3>2, <3>3 DEF enqueueOutboxEvents, Delivery!Publish, StageOf
  <2>3. ASSUME NEW r \in Relays, FetchPendingOutboxMessages(r)
        PROVE  UNCHANGED <<stg, delivered, retryCount>>
    <3>1. PICK picked \in OldestFirst(Eligible, BatchSize, CreatedAt) :
            status' = [e \in Events |-> IF e \in picked THEN "processing" ELSE status[e]]
      BY <2>3 DEF FetchPendingOutboxMessages
    <3>2. \A e \in picked : status[e] \in {"pending", "processing"}
      BY <3>1 DEF OldestFirst, Eligible
    <3>3. QED
      BY <2>3, <3>1, <3>2 DEF FetchPendingOutboxMessages, StageOf
  <2>4. ASSUME NEW r \in Relays, NEW m \in Events, WriteMessages(r, m)
        PROVE  Delivery!Deliver(m) \/ UNCHANGED <<stg, delivered, retryCount>>
    <3>1. status[m] # "absent"
      <4>1. r \in Holders(m)
        BY <2>4 DEF WriteMessages, Holders, Holds
      <4>2. QED
        BY <4>1 DEF OutboxInv, RowInv, Untouched
    <3>2. StageOf[status[m]] # "none"
      BY <3>1 DEF StageOf, TypeOK, Statuses
    <3>3. QED
      BY <2>4, <3>2 DEF WriteMessages, rows, Delivery!Deliver
  <2>5. ASSUME NEW r \in Relays, mark[r] # NoMark
        PROVE  /\ mark[r].event \in Events
               /\ StageOf[status[mark[r].event]] # "none"
    <3>1. mark[r].event \in Events /\ r \in Holders(mark[r].event)
      BY <2>5 DEF TypeOK, Marks, Holders, Holds, Marking
    <3>2. status[mark[r].event] # "absent"
      BY <3>1 DEF OutboxInv, RowInv, Untouched
    <3>3. QED
      BY <3>1, <3>2 DEF StageOf, TypeOK, Statuses
  <2>6. ASSUME NEW r \in Relays, NEW m \in Events, m = mark[r].event, MarkOutboxMessageSent(r)
        PROVE  \/ Delivery!Acknowledge(m)
               \/ UNCHANGED <<stg, delivered, retryCount>>
    <3>1. CASE SetSent(m)
      <4>1. delivered[m] > 0
        BY <2>6 DEF MarkOutboxMessageSent, OutboxInv, RelayInv
      <4>2. stg' = [stg EXCEPT ![m] = "acked"]
        BY <3>1, <2>5, <2>6 DEF SetSent, StageOf, TypeOK, MarkOutboxMessageSent
      <4>3. QED
        BY <2>5, <2>6, <3>1, <4>1, <4>2
        DEF MarkOutboxMessageSent, SetSent, Delivery!Acknowledge
    <3>2. CASE UNCHANGED rows
      BY <2>6, <3>2 DEF MarkOutboxMessageSent, rows
    <3>3. QED
      BY <2>6, <3>1, <3>2 DEF MarkOutboxMessageSent
  <2>7. ASSUME NEW r \in Relays, NEW m \in Events, m = mark[r].event, MarkOutboxMessageFailed(r)
        PROVE  \/ Delivery!RecordFailure(m)
               \/ UNCHANGED <<stg, delivered, retryCount>>
    <3>1. CASE SetFailed(m)
      <4>1. stg' = [stg EXCEPT ![m] =
                      IF retryCount[m] + 1 >= MaxRetries THEN "dropped" ELSE "open"]
        BY <3>1, <2>5, <2>7 DEF SetFailed, StageOf, TypeOK, MarkOutboxMessageFailed
      <4>2. QED
        BY <2>5, <2>7, <3>1, <4>1
        DEF MarkOutboxMessageFailed, SetFailed, Delivery!RecordFailure
    <3>2. CASE UNCHANGED rows
      BY <2>7, <3>2 DEF MarkOutboxMessageFailed, rows
    <3>3. QED
      BY <2>7, <3>1, <3>2 DEF MarkOutboxMessageFailed
  <2>8. ASSUME NEW e \in Events, Expire(e) PROVE UNCHANGED <<stg, delivered, retryCount>>
    BY <2>8 DEF Expire
  <2>9. ASSUME NEW r \in Relays, Crash(r) PROVE UNCHANGED <<stg, delivered, retryCount>>
    BY <2>9 DEF Crash, rows
  <2>10. ASSUME NEW r \in Relays, MarkOutboxMessageSent(r) \/ MarkOutboxMessageFailed(r)
         PROVE  mark[r].event \in Events
    BY <2>5, <2>10 DEF MarkOutboxMessageSent, MarkOutboxMessageFailed
  <2>11. ASSUME NEW S \in SUBSET Events, Delivery!Publish(S) PROVE Delivery!Next
    BY <2>11 DEF Delivery!Next
  <2>12. ASSUME NEW e \in Events,
                Delivery!Deliver(e) \/ Delivery!Acknowledge(e) \/ Delivery!RecordFailure(e)
         PROVE  Delivery!Next
    BY <2>12 DEF Delivery!Next
  <2> HIDE DEF stg
  <2>13. CASE Next
    <3>1. CASE \E S \in SUBSET Events : enqueueOutboxEvents(S)
      BY <2>2, <2>11, <3>1
    <3>2. CASE \E r \in Relays : FetchPendingOutboxMessages(r) \/ Crash(r)
      BY <2>3, <2>9, <3>2
    <3>3. CASE \E r \in Relays, m \in Events : WriteMessages(r, m)
      BY <2>4, <2>12, <3>3
    <3>4. CASE \E r \in Relays : MarkOutboxMessageSent(r) \/ MarkOutboxMessageFailed(r)
      <4>1. PICK r \in Relays : MarkOutboxMessageSent(r) \/ MarkOutboxMessageFailed(r)
        BY <3>4
      <4>2. PICK m \in Events : m = mark[r].event
        BY <2>10, <4>1
      <4>3. \/ Delivery!Acknowledge(m) \/ Delivery!RecordFailure(m)
            \/ UNCHANGED <<stg, delivered, retryCount>>
        BY <2>6, <2>7, <4>1, <4>2
      <4>4. QED
        BY <2>12, <4>3
    <3>5. CASE \E e \in Events : Expire(e)
      BY <2>8, <3>5
    <3>6. QED
      BY <2>13, <3>1, <3>2, <3>3, <3>4, <3>5 DEF Next, RelayStep
  <2>14. QED
    BY <2>1, <2>13
<1>3. QED
  BY <1>1, <1>2, OutboxInvariant, PTL DEF Spec, ImplementsDelivery, Delivery!Spec
=============================================================================
