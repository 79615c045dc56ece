---------------------------- MODULE ReportsProofs ----------------------------
(* Proofs about Reports, for any number of replicas and groups and any bounds. *)
EXTENDS Reports, TLAPS

(* A batch b of replica c holds its own reports in the order of their      *)
(* scrapes, n of them so far, and of every group it holds any of, the      *)
(* latest.                                                                 *)
Ordered(b, c, n, newest) ==
  \A i \in DOMAIN b :
    /\ b[i].by = c /\ b[i].seq <= n
    /\ \A j \in DOMAIN b : i < j => b[i].seq < b[j].seq
    /\ \E j \in DOMAIN b : b[j].group = b[i].group /\ b[j].seq = newest[b[i].group]

BatchOrdered == \A c \in Replicas : Ordered(statBatch[c], c, scrapes[c], latest[c])

(* An open transaction over batch b has written, of the n - 1 reports it   *)
(* has come past, for every group one that is no older than any of them.   *)
Writing(c, place, n, rows, b) ==
  /\ place = "tx" =>
       /\ n \in 1..Len(b) + 1
       /\ \A j \in DOMAIN b :
            j < n => rows[b[j].group] # None /\ rows[b[j].group].seq >= b[j].seq
  /\ \A g \in Groups :
       rows[g] # None => /\ place = "tx" /\ rows[g].by = c
                         /\ \E i \in DOMAIN b : b[i] = rows[g] /\ b[i].group = g

WrittenIsNewest ==
  \A c \in Replicas : Writing(c, stage[c], next[c], written[c], statBatch[c])

(* The two batches of a replica know of the same groups, as far as the     *)
(* tables do not know of them yet.                                         *)
BatchesPair ==
  \A c \in Replicas :
    /\ \A g \in ReportedIn(statBatch[c]) : g \in targetGroups \union dropped \/ g \in GroupsIn(groupBatch[c])
    /\ \A g \in GroupsIn(groupBatch[c]) : reports[g] # None \/ g \in ReportedIn(statBatch[c])

(* Between two flushes no call is under way; one that is has sent the rows *)
(* up to next, which are in the table or recorded as dropped.              *)
ChunksSent ==
  \A c \in Replicas :
    /\ stage[c] \in {"select", "submit"} => next[c] = 0
    /\ stage[c] = "groups" =>
         \A i \in DOMAIN groupBatch[c] : i <= next[c] => groupBatch[c][i] \in targetGroups \union dropped

(* Replica c has made n reports.  A report r whose events are in the       *)
(* outbox is still in the batch b of its replica, or older than all of it. *)
Past(r, b, n) ==
  /\ r.seq <= n
  /\ (\E i \in DOMAIN b : b[i] = r) \/ (\A i \in DOMAIN b : r.seq < b[i].seq)

EventsPast == \A r \in outbox : Past(r, statBatch[r.by], scrapes[r.by])

(* After the save of the reports the batch is not full, or the save has failed. *)
FullOnlyByFailure ==
  \A c \in Replicas : stage[c] # "tx" /\ Len(statBatch[c]) >= BatchSize => c \in failing

Inv ==
  /\ TypeOK /\ BatchOrdered /\ WrittenIsNewest /\ BatchesPair /\ ChunksSent
  /\ ReadsAreComplete /\ NewestOfItsReplica /\ FullOnlyByFailure
  /\ EventsPast /\ EventsFollowReports

----------------------------------------------------------------------------
(* One value of a function is replaced. *)
LEMMA Updated ==
  ASSUME NEW A, NEW B, NEW f \in [A -> B], NEW a \in A, NEW b \in B
  PROVE  /\ [f EXCEPT ![a] = b] \in [A -> B]
         /\ [f EXCEPT ![a] = b][a] = b
         /\ \A x \in A \ {a} : [f EXCEPT ![a] = b][x] = f[x]
  OBVIOUS

LEMMA UpdatedAt ==
  ASSUME NEW f, NEW A, DOMAIN f = A, NEW a \in A, NEW v, NEW h, h = [f EXCEPT ![a] = v]
  PROVE  h[a] = v /\ \A x \in A \ {a} : h[x] = f[x]
  OBVIOUS

(* What is in a batch after one more report or group. *)
LEMMA AppendedReport ==
  ASSUME NEW b \in Seq(Report), NEW r \in Report
  PROVE  /\ Append(b, r) \in Seq(Report) /\ Len(Append(b, r)) = Len(b) + 1
         /\ DOMAIN Append(b, r) = 1..Len(b) + 1 /\ DOMAIN b = 1..Len(b) /\ Len(b) \in Nat
         /\ \A i \in DOMAIN b : Append(b, r)[i] = b[i] /\ b[i] \in Report
         /\ Append(b, r)[Len(b) + 1] = r
         /\ ReportedIn(Append(b, r)) = ReportedIn(b) \union {r.group}
<1>1. /\ Append(b, r) \in Seq(Report) /\ Len(Append(b, r)) = Len(b) + 1
      /\ DOMAIN Append(b, r) = 1..Len(b) + 1 /\ DOMAIN b = 1..Len(b) /\ Len(b) \in Nat
      /\ \A i \in DOMAIN b : Append(b, r)[i] = b[i] /\ b[i] \in Report
      /\ Append(b, r)[Len(b) + 1] = r
  OBVIOUS
<1>2. ReportedIn(Append(b, r)) = ReportedIn(b) \union {r.group}
  BY <1>1 DEF ReportedIn
<1> QED BY <1>1, <1>2

LEMMA AppendedGroup ==
  ASSUME NEW b \in Seq(Groups), NEW g \in Groups
  PROVE  /\ Append(b, g) \in Seq(Groups)
         /\ GroupsIn(Append(b, g)) = GroupsIn(b) \union {g}
<1>1. /\ Append(b, g) \in Seq(Groups) /\ Len(b) \in Nat
      /\ DOMAIN Append(b, g) = 1..Len(b) + 1 /\ DOMAIN b = 1..Len(b)
      /\ \A i \in DOMAIN b : Append(b, g)[i] = b[i]
      /\ Append(b, g)[Len(b) + 1] = g
  OBVIOUS
<1> QED BY <1>1 DEF GroupsIn

(* The fields of a report. *)
LEMMA ReportFields ==
  /\ \A r \in Report : r.group \in Groups /\ r.seq \in Nat /\ r.by \in Replicas /\ r # None
  /\ \A g \in Groups, n \in Nat, c \in Replicas :
       LET r == [group |-> g, seq |-> n, by |-> c]
       IN r \in Report /\ r.group = g /\ r.seq = n /\ r.by = c
  BY ReportsAssumption DEF Report

(* What the batches hold are groups. *)
LEMMA InBatches ==
  ASSUME BatchesTypeOK, NEW c \in Replicas
  PROVE  /\ statBatch[c] \in Seq(Report) /\ groupBatch[c] \in Seq(Groups)
         /\ ReportedIn(statBatch[c]) \subseteq Groups /\ GroupsIn(groupBatch[c]) \subseteq Groups
         /\ \A i \in DOMAIN statBatch[c] :
              /\ statBatch[c][i] \in Report /\ statBatch[c][i].group \in Groups
              /\ statBatch[c][i].seq \in Nat /\ statBatch[c][i].group \in ReportedIn(statBatch[c])
         /\ DOMAIN statBatch[c] = 1..Len(statBatch[c]) /\ Len(statBatch[c]) \in Nat
<1>1. statBatch[c] \in Seq(Report) /\ groupBatch[c] \in Seq(Groups)
  BY DEF BatchesTypeOK
<1>2. \A i \in DOMAIN statBatch[c] : statBatch[c][i] \in Report
  BY <1>1
<1>3. \A i \in DOMAIN groupBatch[c] : groupBatch[c][i] \in Groups
  BY <1>1
<1>4. DOMAIN statBatch[c] = 1..Len(statBatch[c]) /\ Len(statBatch[c]) \in Nat
  BY <1>1
<1> QED BY <1>1, <1>2, <1>3, <1>4, ReportFields DEF ReportedIn, GroupsIn

(* Run goes into its submits and comes back. *)
Submits(c) == TaskTick(c) \/ SubmitReturns(c)

LEMMA Submitted ==
  ASSUME TypeOK, NEW c \in Replicas, Submits(c)
  PROVE  /\ UNCHANGED <<reports, outbox, targetGroups, dropped, locks, next, written, flush, statBatch,
                         groupBatch, scrapes, faults, failing, latest, lost>>
         /\ stage' \in [Replicas -> Stages]
         /\ stage[c] \in {"select", "submit"} /\ stage'[c] \in {"select", "submit"}
         /\ \A d \in Replicas \ {c} : stage'[d] = stage[d]
<1>1. UNCHANGED <<reports, outbox, targetGroups, dropped, locks, next, written, flush, statBatch,
                  groupBatch, scrapes, faults, failing, latest, lost>>
  BY DEF Submits, TaskTick, SubmitReturns, tables, transaction, batches
<1>2. /\ stage[c] \in {"select", "submit"} /\ stage \in [Replicas -> Stages]
      /\ stage' = [stage EXCEPT ![c] = "submit"] \/ stage' = [stage EXCEPT ![c] = "select"]
  BY DEF Submits, TaskTick, SubmitReturns, Goto, TypeOK
<1> QED BY <1>1, <1>2 DEF Stages

(***************************************************************************)
(* One sendBatch of the target groups.  The rows it does not commit are    *)
(* kept with the batch, or dropped.                                        *)
(***************************************************************************)
LEMMA GroupsSent ==
  ASSUME TypeOK, NEW c \in Replicas, SaveOrUpdateTargetGroups(c)
  PROVE  /\ UNCHANGED <<reports, outbox, locks, written, flush, statBatch, scrapes, failing, latest, lost>>
         /\ faults' \in Nat /\ next' \in [Replicas -> Nat] /\ stage' \in [Replicas -> Stages]
         /\ stage[c] = "groups" /\ stage'[c] \in {"groups", "select"}
         /\ \A d \in Replicas \ {c} : stage'[d] = stage[d] /\ next'[d] = next[d]
         /\ targetGroups \subseteq targetGroups' /\ dropped \subseteq dropped'
         /\ targetGroups' \subseteq targetGroups \union GroupsIn(groupBatch[c])
         /\ dropped' \subseteq dropped \union GroupsIn(groupBatch[c])
         /\ groupBatch' = groupBatch \/ groupBatch' = [groupBatch EXCEPT ![c] = <<>>]
         /\ stage'[c] = "select" => next'[c] = 0
         /\ stage'[c] = "groups" => groupBatch' = groupBatch /\ next'[c] = next[c] + RowsPerBatch
         /\ groupBatch' # groupBatch => next[c] + RowsPerBatch >= Len(groupBatch[c])
         /\ stage'[c] = "groups" \/ groupBatch' # groupBatch =>
              \A i \in Chunk(c) : groupBatch[c][i] \in targetGroups' \union dropped'
<1> DEFINE rows == {groupBatch[c][i] : i \in Chunk(c)}
           last == next[c] + RowsPerBatch >= Len(groupBatch[c])
           emptied == [groupBatch EXCEPT ![c] = <<>>]
<1>0. /\ stage \in [Replicas -> Stages] /\ next \in [Replicas -> Nat] /\ faults \in Nat
      /\ next[c] \in Nat /\ RowsPerBatch \in Nat
  BY ReportsAssumption DEF TypeOK
<1>1. UNCHANGED <<reports, outbox, locks, written, flush, statBatch, scrapes, failing, latest, lost>>
  BY DEF SaveOrUpdateTargetGroups
<1>2. stage[c] = "groups"
  BY DEF SaveOrUpdateTargetGroups
<1>3. rows \subseteq GroupsIn(groupBatch[c]) /\ \A i \in Chunk(c) : groupBatch[c][i] \in rows
  BY DEF Chunk, GroupsIn
<1> HIDE DEF rows, last, emptied
<1>4. CASE GroupsSaved(c) /\ UNCHANGED <<targetGroups, dropped, groupBatch, faults>>
  <2>1. /\ stage' = [stage EXCEPT ![c] = "select"] /\ next' = [next EXCEPT ![c] = 0]
    BY <1>4 DEF GroupsSaved, Goto
  <2>2. /\ next' \in [Replicas -> Nat] /\ stage' \in [Replicas -> Stages]
        /\ stage'[c] = "select" /\ next'[c] = 0
        /\ \A d \in Replicas \ {c} : stage'[d] = stage[d] /\ next'[d] = next[d]
    BY <1>0, <2>1 DEF Stages
  <2> QED BY <1>0, <1>1, <1>2, <1>4, <2>2
<1>5. ASSUME NEW err \in BOOLEAN, NEW committed \in BOOLEAN, sendBatch(err, committed),
             targetGroups' = IF committed THEN targetGroups \union rows ELSE targetGroups,
             dropped' = IF err \/ committed THEN dropped ELSE dropped \union rows,
             IF err \/ last THEN GroupsSaved(c)
                            ELSE next' = [next EXCEPT ![c] = next[c] + RowsPerBatch] /\ UNCHANGED stage,
             groupBatch' = IF err \/ ~last THEN groupBatch ELSE emptied
      PROVE  /\ faults' \in Nat /\ next' \in [Replicas -> Nat] /\ stage' \in [Replicas -> Stages]
             /\ stage'[c] \in {"groups", "select"}
             /\ \A d \in Replicas \ {c} : stage'[d] = stage[d] /\ next'[d] = next[d]
             /\ targetGroups \subseteq targetGroups' /\ dropped \subseteq dropped'
             /\ targetGroups' \subseteq targetGroups \union rows
             /\ dropped' \subseteq dropped \union rows
             /\ groupBatch' = groupBatch \/ groupBatch' = emptied
             /\ stage'[c] = "select" => next'[c] = 0
             /\ stage'[c] = "groups" => groupBatch' = groupBatch /\ next'[c] = next[c] + RowsPerBatch
             /\ groupBatch' # groupBatch => last
             /\ stage'[c] = "groups" \/ groupBatch' # groupBatch => rows \subseteq targetGroups' \union dropped'
  <2>1. faults' \in Nat
    BY <1>0, <1>5 DEF sendBatch, Fault
  <2>2. /\ targetGroups \subseteq targetGroups' /\ dropped \subseteq dropped'
        /\ targetGroups' \subseteq targetGroups \union rows /\ dropped' \subseteq dropped \union rows
        /\ ~err => rows \subseteq targetGroups' \union dropped'
    BY <1>5
  <2>3. CASE err \/ last
    <3>1. stage' = [stage EXCEPT ![c] = "select"] /\ next' = [next EXCEPT ![c] = 0]
      BY <1>5, <2>3 DEF GroupsSaved, Goto
    <3>2. /\ next' \in [Replicas -> Nat] /\ stage' \in [Replicas -> Stages]
          /\ stage'[c] = "select" /\ next'[c] = 0
          /\ \A d \in Replicas \ {c} : stage'[d] = stage[d] /\ next'[d] = next[d]
      BY <1>0, <3>1 DEF Stages
    <3>3. groupBatch' # groupBatch => ~err /\ last
      BY <1>5
    <3>4. groupBatch' = groupBatch \/ groupBatch' = emptied
      BY <1>5
    <3> QED BY <2>1, <2>2, <3>2, <3>3, <3>4
  <2>4. CASE ~(err \/ last)
    <3>1. next' = [next EXCEPT ![c] = next[c] + RowsPerBatch] /\ stage' = stage /\ groupBatch' = groupBatch
      BY <1>5, <2>4
    <3>2. /\ next' \in [Replicas -> Nat] /\ next'[c] = next[c] + RowsPerBatch
          /\ \A d \in Replicas \ {c} : next'[d] = next[d]
      BY <1>0, <3>1
    <3> QED BY <1>0, <1>2, <2>1, <2>2, <2>4, <3>1, <3>2
  <2> QED BY <2>3, <2>4
<1>6. \/ GroupsSaved(c) /\ UNCHANGED <<targetGroups, dropped, groupBatch, faults>>
      \/ \E err, committed \in BOOLEAN :
           /\ sendBatch(err, committed)
           /\ targetGroups' = IF committed THEN targetGroups \union rows ELSE targetGroups
           /\ dropped' = IF err \/ committed THEN dropped ELSE dropped \union rows
           /\ IF err \/ last THEN GroupsSaved(c)
                             ELSE next' = [next EXCEPT ![c] = next[c] + RowsPerBatch] /\ UNCHANGED stage
           /\ groupBatch' = IF err \/ ~last THEN groupBatch ELSE emptied
  BY DEF SaveOrUpdateTargetGroups, rows, last, emptied
<1>7. CASE ~(GroupsSaved(c) /\ UNCHANGED <<targetGroups, dropped, groupBatch, faults>>)
  <2>1. PICK err \in BOOLEAN, committed \in BOOLEAN :
           /\ sendBatch(err, committed)
           /\ targetGroups' = IF committed THEN targetGroups \union rows ELSE targetGroups
           /\ dropped' = IF err \/ committed THEN dropped ELSE dropped \union rows
           /\ IF err \/ last THEN GroupsSaved(c)
                             ELSE next' = [next EXCEPT ![c] = next[c] + RowsPerBatch] /\ UNCHANGED stage
           /\ groupBatch' = IF err \/ ~last THEN groupBatch ELSE emptied
    BY <1>6, <1>7
  <2>2. /\ faults' \in Nat /\ next' \in [Replicas -> Nat] /\ stage' \in [Replicas -> Stages]
        /\ stage'[c] \in {"groups", "select"}
        /\ \A d \in Replicas \ {c} : stage'[d] = stage[d] /\ next'[d] = next[d]
        /\ targetGroups \subseteq targetGroups' /\ dropped \subseteq dropped'
        /\ targetGroups' \subseteq targetGroups \union rows
        /\ dropped' \subseteq dropped \union rows
        /\ groupBatch' = groupBatch \/ groupBatch' = emptied
        /\ stage'[c] = "select" => next'[c] = 0
        /\ stage'[c] = "groups" => groupBatch' = groupBatch /\ next'[c] = next[c] + RowsPerBatch
        /\ groupBatch' # groupBatch => last
        /\ stage'[c] = "groups" \/ groupBatch' # groupBatch => rows \subseteq targetGroups' \union dropped'
    BY <1>5, <2>1
  <2>3. (groupBatch' = groupBatch \/ groupBatch' = [groupBatch EXCEPT ![c] = <<>>])
        /\ (groupBatch' # groupBatch => next[c] + RowsPerBatch >= Len(groupBatch[c]))
    BY <2>2 DEF emptied, last
  <2> QED BY <1>1, <1>2, <1>3, <2>2, <2>3
<1> QED BY <1>4, <1>7

(* The actions of Next, one by one. *)
LEMMA NextCases ==
  ASSUME [Next]_vars
  PROVE  \/ \E c \in Replicas, g \in Groups : ReceiveResult(c, g)
         \/ \E c \in Replicas : FlushTick(c)
         \/ \E c \in Replicas : Submits(c)
         \/ \E c \in Replicas, g \in Groups : Exec(c, g)
         \/ \E c \in Replicas : ExecFails(c)
         \/ \E c \in Replicas : Commit(c)
         \/ \E c \in Replicas : SaveOrUpdateTargetGroups(c)
         \/ \E c \in Replicas : Crash(c)
         \/ UNCHANGED vars
  BY DEF Next, Save, Submits

(* The report that replica c makes of group g next. *)
NewReport(c, g) == [group |-> g, seq |-> scrapes[c] + 1, by |-> c]

(* It goes to the end of the batches. *)
LEMMA Received ==
  ASSUME TypeOK, NEW c \in Replicas, NEW g \in Groups, ReceiveResult(c, g)
  PROVE  /\ NewReport(c, g) \in Report /\ scrapes[c] \in Nat
         /\ NewReport(c, g).group = g /\ NewReport(c, g).seq = scrapes[c] + 1 /\ NewReport(c, g).by = c
         /\ scrapes' = [scrapes EXCEPT ![c] = scrapes[c] + 1]
         /\ latest' = [latest EXCEPT ![c] = [latest[c] EXCEPT ![g] = scrapes[c] + 1]]
         /\ statBatch' = [statBatch EXCEPT ![c] = Append(statBatch[c], NewReport(c, g))]
         /\ groupBatch' = [groupBatch EXCEPT ![c] = Append(groupBatch[c], g)]
         /\ scrapes'[c] = scrapes[c] + 1 /\ latest'[c] = [latest[c] EXCEPT ![g] = scrapes[c] + 1]
         /\ statBatch'[c] = Append(statBatch[c], NewReport(c, g))
         /\ groupBatch'[c] = Append(groupBatch[c], g)
         /\ \A d \in Replicas \ {c} : /\ scrapes'[d] = scrapes[d] /\ latest'[d] = latest[d]
                                      /\ statBatch'[d] = statBatch[d] /\ groupBatch'[d] = groupBatch[d]
<1>1. scrapes \in [Replicas -> Nat] /\ scrapes' = [scrapes EXCEPT ![c] = scrapes[c] + 1]
  BY DEF TypeOK, ReceiveResult
<1>2. scrapes'[c] = scrapes[c] + 1 /\ scrapes[c] \in Nat
  BY <1>1
<1>3. /\ NewReport(c, g) \in Report
      /\ NewReport(c, g).group = g /\ NewReport(c, g).seq = scrapes[c] + 1 /\ NewReport(c, g).by = c
  BY <1>2, ReportFields DEF NewReport
<1>4. /\ statBatch' = [statBatch EXCEPT ![c] = Append(statBatch[c], NewReport(c, g))]
      /\ groupBatch' = [groupBatch EXCEPT ![c] = Append(groupBatch[c], g)]
  BY <1>2 DEF ReceiveResult, NewReport
<1>5. latest' = [latest EXCEPT ![c] = [latest[c] EXCEPT ![g] = scrapes[c] + 1]]
  BY <1>2 DEF ReceiveResult
<1>6. /\ DOMAIN statBatch = Replicas /\ DOMAIN groupBatch = Replicas /\ DOMAIN latest = Replicas
      /\ DOMAIN scrapes = Replicas
  BY DEF TypeOK, BatchesTypeOK
<1>7. /\ statBatch'[c] = Append(statBatch[c], NewReport(c, g))
      /\ \A d \in Replicas \ {c} : statBatch'[d] = statBatch[d]
  BY <1>4, <1>6, UpdatedAt, Zenon
<1>8. /\ groupBatch'[c] = Append(groupBatch[c], g)
      /\ \A d \in Replicas \ {c} : groupBatch'[d] = groupBatch[d]
  BY <1>4, <1>6, UpdatedAt, Zenon
<1>9. /\ latest'[c] = [latest[c] EXCEPT ![g] = scrapes[c] + 1]
      /\ \A d \in Replicas \ {c} : latest'[d] = latest[d]
  BY <1>5, <1>6, UpdatedAt, Zenon
<1>10. \A d \in Replicas \ {c} : scrapes'[d] = scrapes[d]
  BY <1>1
<1> QED BY <1>1, <1>2, <1>3, <1>4, <1>5, <1>7, <1>8, <1>9, <1>10

(* A flush goes to the transaction, or past it. *)
LEMMA Flushed ==
  ASSUME TypeOK, NEW c \in Replicas, NEW kind \in {"result", "tick"}, Flush(c, kind)
  PROVE  /\ stage' \in [Replicas -> Stages] /\ flush' \in [Replicas -> {"result", "tick"}]
         /\ next' \in [Replicas -> Nat]
         /\ \A d \in Replicas \ {c} : stage'[d] = stage[d] /\ next'[d] = next[d]
         /\ stage'[c] \in {"tx", "groups"}
         /\ stage'[c] = "tx" => next'[c] = 1
         /\ stage'[c] = "groups" => ~Due(kind, statBatch'[c]) /\ next'[c] = next[c]
<1> HIDE DEF Due
<1>1. /\ stage \in [Replicas -> Stages] /\ flush \in [Replicas -> {"result", "tick"}]
      /\ next \in [Replicas -> Nat]
  BY DEF TypeOK
<1>2. CASE Due(kind, statBatch'[c])
  BY <1>1, <1>2 DEF Flush, Goto, Stages
<1>3. CASE ~Due(kind, statBatch'[c])
  BY <1>1, <1>3 DEF Flush, Goto, Stages
<1> QED BY <1>2, <1>3

(* The end of a transaction, whatever its result. *)
LEMMA RolledBack ==
  ASSUME TypeOK, NEW c \in Replicas, Rollback(c)
  PROVE  /\ locks' \in [Groups -> Replicas \union {None}]
         /\ next' \in [Replicas -> Nat]
         /\ written' \in [Replicas -> [Groups -> Report \union {None}]]
         /\ \A d \in Replicas \ {c} : next'[d] = next[d] /\ written'[d] = written[d]
         /\ \A g \in Groups : written'[c][g] = None
<1>1. /\ locks \in [Groups -> Replicas \union {None}] /\ next \in [Replicas -> Nat]
      /\ written \in [Replicas -> [Groups -> Report \union {None}]]
  BY DEF TypeOK
<1> QED BY <1>1 DEF Rollback, Unlocked, NoRows

(* Every step keeps the types of the batches ... *)
LEMMA BatchesTypeStep ==
  ASSUME TypeOK, [Next]_vars
  PROVE  BatchesTypeOK'
<1> USE DEF batches
<1>0. BatchesTypeOK
  BY DEF TypeOK
<1> DEFINE Emptied(b, c) == [b EXCEPT ![c] = <<>>]
<1>e. \A c \in Replicas : /\ Emptied(statBatch, c) \in [Replicas -> Seq(Report)]
                          /\ Emptied(groupBatch, c) \in [Replicas -> Seq(Groups)]
  <2>1. <<>> \in Seq(Report) /\ <<>> \in Seq(Groups)
    OBVIOUS
  <2> QED BY <1>0, <2>1, Updated DEF BatchesTypeOK
<1>1. ASSUME NEW c \in Replicas, NEW g \in Groups, ReceiveResult(c, g) PROVE BatchesTypeOK'
  <2>1. Append(statBatch[c], NewReport(c, g)) \in Seq(Report) /\ Append(groupBatch[c], g) \in Seq(Groups)
    BY <1>0, <1>1, Received, InBatches, AppendedReport, AppendedGroup
  <2>2. /\ [statBatch EXCEPT ![c] = Append(statBatch[c], NewReport(c, g))] \in [Replicas -> Seq(Report)]
        /\ [groupBatch EXCEPT ![c] = Append(groupBatch[c], g)] \in [Replicas -> Seq(Groups)]
    BY <1>0, <2>1, Updated DEF BatchesTypeOK
  <2> QED BY <1>1, <2>2, Received DEF BatchesTypeOK
<1>2. ASSUME NEW c \in Replicas, FlushTick(c) PROVE BatchesTypeOK'
  BY <1>0, <1>2 DEF FlushTick, BatchesTypeOK
<1>3. ASSUME NEW c \in Replicas, NEW g \in Groups, Exec(c, g) PROVE BatchesTypeOK'
  BY <1>0, <1>3 DEF Exec, BatchesTypeOK
<1>4. ASSUME NEW c \in Replicas, ExecFails(c) PROVE BatchesTypeOK'
  BY <1>0, <1>4 DEF ExecFails, BatchesTypeOK
<1>5. ASSUME NEW c \in Replicas, Commit(c) PROVE BatchesTypeOK'
  <2>1. groupBatch' = groupBatch /\ (statBatch' = statBatch \/ statBatch' = Emptied(statBatch, c))
    BY <1>5 DEF Commit
  <2> HIDE DEF Emptied
  <2> QED BY <1>0, <1>e, <2>1 DEF BatchesTypeOK
<1>6. ASSUME NEW c \in Replicas, SaveOrUpdateTargetGroups(c) PROVE BatchesTypeOK'
  <2>1. statBatch' = statBatch /\ (groupBatch' = groupBatch \/ groupBatch' = Emptied(groupBatch, c))
    BY <1>6, GroupsSent
  <2> HIDE DEF Emptied
  <2> QED BY <1>0, <1>e, <2>1 DEF BatchesTypeOK
<1>7. ASSUME NEW c \in Replicas, Crash(c) PROVE BatchesTypeOK'
  BY <1>0, <1>7 DEF Crash, BatchesTypeOK
<1>8. CASE UNCHANGED vars
  BY <1>0, <1>8 DEF vars, BatchesTypeOK
<1>9. ASSUME NEW c \in Replicas, Submits(c) PROVE BatchesTypeOK'
  BY <1>0, <1>9, Submitted DEF BatchesTypeOK
<1> QED BY <1>1, <1>2, <1>3, <1>4, <1>5, <1>6, <1>7, <1>8, <1>9, NextCases

(* ... and of everything else. *)
LEMMA TypeStep ==
  ASSUME TypeOK, [Next]_vars
  PROVE  TypeOK'
<1> USE ReportsAssumption DEF tables, transaction, Goto, Stages, Fault
<1>0. BatchesTypeOK' /\ BatchesTypeOK
  BY BatchesTypeStep DEF TypeOK
<1>1. ASSUME NEW c \in Replicas, NEW g \in Groups, ReceiveResult(c, g) PROVE TypeOK'
  <2>1. scrapes' \in [Replicas -> Nat] /\ latest' \in [Replicas -> [Groups -> Nat]]
    <3>1. scrapes \in [Replicas -> Nat] /\ latest \in [Replicas -> [Groups -> Nat]]
      BY DEF TypeOK
    <3>2. scrapes[c] + 1 \in Nat /\ latest[c] \in [Groups -> Nat]
      BY <1>1, <3>1, Received
    <3>3. [latest[c] EXCEPT ![g] = scrapes[c] + 1] \in [Groups -> Nat]
      BY <3>2, Updated
    <3> DEFINE new == [latest[c] EXCEPT ![g] = scrapes[c] + 1]
    <3> HIDE DEF new
    <3>4. [latest EXCEPT ![c] = new] \in [Replicas -> [Groups -> Nat]]
      BY <3>1, <3>3, Updated DEF new
    <3>5. latest' = [latest EXCEPT ![c] = new] /\ scrapes' = [scrapes EXCEPT ![c] = scrapes[c] + 1]
      BY <1>1, Received DEF new
    <3> QED BY <3>1, <3>2, <3>4, <3>5
  <2>2. /\ stage' \in [Replicas -> Stages] /\ flush' \in [Replicas -> {"result", "tick"}]
        /\ next' \in [Replicas -> Nat]
    BY <1>1, Flushed DEF ReceiveResult
  <2> QED BY <1>0, <1>1, <2>1, <2>2 DEF ReceiveResult, TypeOK
<1>2. ASSUME NEW c \in Replicas, FlushTick(c) PROVE TypeOK'
  <2>1. /\ stage' \in [Replicas -> Stages] /\ flush' \in [Replicas -> {"result", "tick"}]
        /\ next' \in [Replicas -> Nat]
    BY <1>2, Flushed DEF FlushTick
  <2> QED BY <1>0, <1>2, <2>1 DEF FlushTick, TypeOK
<1>3. ASSUME NEW c \in Replicas, NEW g \in Groups, Exec(c, g) PROVE TypeOK'
  <2>1. Current(c) \in Report /\ Current(c).group = g
    BY <1>0, <1>3, InBatches DEF Exec, InTx, Current
  <2>2. written' \in [Replicas -> [Groups -> Report \union {None}]]
    BY <1>3, <2>1 DEF Exec, saveReportsSQL, TypeOK
  <2>3. locks' \in [Groups -> Replicas \union {None}] /\ next' \in [Replicas -> Nat]
    BY <1>3 DEF Exec, TypeOK
  <2> QED BY <1>0, <1>3, <2>2, <2>3 DEF Exec, TypeOK
<1>4. ASSUME NEW c \in Replicas, ExecFails(c) PROVE TypeOK'
  BY <1>0, <1>4, RolledBack DEF ExecFails, TypeOK
<1>5. ASSUME NEW c \in Replicas, Commit(c) PROVE TypeOK'
  <2>1. Committed(c) \in [Groups -> Report \union {None}]
    BY DEF Committed, TypeOK
  <2>2. reports' \in [Groups -> Report \union {None}]
    BY <1>5, <2>1 DEF Commit, TypeOK
  <2>3. stage' \in [Replicas -> Stages] /\ faults' \in Nat /\ failing' \subseteq Replicas
    BY <1>5 DEF Commit, TypeOK
  <2>5. outbox' \subseteq Report
    <3>1. Enqueued(c) \subseteq Report
      BY <1>0, InBatches DEF Enqueued
    <3>2. outbox' \in {outbox, outbox \union Enqueued(c)}
      BY <1>5 DEF Commit
    <3> QED BY <3>1, <3>2 DEF TypeOK
  <2>4. UNCHANGED <<targetGroups, dropped, flush, scrapes, latest, lost>> /\ Rollback(c)
    BY <1>5 DEF Commit
  <2> QED BY <1>0, <2>2, <2>3, <2>4, <2>5, RolledBack DEF TypeOK
<1>6. ASSUME NEW c \in Replicas, SaveOrUpdateTargetGroups(c) PROVE TypeOK'
  <2>1. targetGroups' \subseteq Groups /\ dropped' \subseteq Groups
    BY <1>0, <1>6, GroupsSent, InBatches DEF TypeOK
  <2>2. /\ UNCHANGED <<reports, outbox, locks, written, flush, scrapes, failing, latest, lost>>
        /\ faults' \in Nat /\ next' \in [Replicas -> Nat] /\ stage' \in [Replicas -> Stages]
    BY <1>6, GroupsSent
  <2> QED BY <1>0, <2>1, <2>2 DEF TypeOK
<1>7. ASSUME NEW c \in Replicas, Crash(c) PROVE TypeOK'
  <2>1. lost' \subseteq Groups
    BY <1>0, <1>7, InBatches DEF Crash, TypeOK
  <2>2. latest' \in [Replicas -> [Groups -> Nat]]
    BY <1>7 DEF Crash, TypeOK
  <2> QED BY <1>0, <1>7, <2>1, <2>2, RolledBack DEF Crash, TypeOK
<1>8. CASE UNCHANGED vars
  BY <1>0, <1>8 DEF vars, TypeOK
<1>9. ASSUME NEW c \in Replicas, Submits(c) PROVE TypeOK'
  BY <1>0, <1>9, Submitted DEF TypeOK
<1> QED BY <1>1, <1>2, <1>3, <1>4, <1>5, <1>6, <1>7, <1>8, <1>9, NextCases

----------------------------------------------------------------------------
(* One more report keeps a batch in order. *)
LEMMA OrderedAppend ==
  ASSUME NEW b \in Seq(Report), NEW r \in Report, NEW c \in Replicas, NEW n \in Nat,
         NEW newest \in [Groups -> Nat], Ordered(b, c, n, newest), r.by = c, r.seq = n + 1
  PROVE  Ordered(Append(b, r), c, n + 1, [newest EXCEPT ![r.group] = n + 1])
<1> DEFINE a == Append(b, r)
           m == Len(b) + 1
           new == [newest EXCEPT ![r.group] = n + 1]
<1>1. /\ DOMAIN a = 1..m /\ DOMAIN b = 1..Len(b) /\ Len(b) \in Nat
      /\ \A i \in DOMAIN b : a[i] = b[i] /\ b[i] \in Report
      /\ a[m] = r
  BY AppendedReport
<1>2. r.group \in Groups /\ \A i \in DOMAIN b : b[i].seq \in Nat /\ b[i].group \in Groups
  BY <1>1, ReportFields
<1>3. new[r.group] = n + 1 /\ \A h \in Groups \ {r.group} : new[h] = newest[h]
  BY <1>2
<1> HIDE DEF a, new
<1>4. ASSUME NEW i \in DOMAIN a
      PROVE  /\ a[i].by = c /\ a[i].seq <= n + 1
             /\ \A j \in DOMAIN a : i < j => a[i].seq < a[j].seq
             /\ \E j \in DOMAIN a : a[j].group = a[i].group /\ a[j].seq = new[a[i].group]
  <2>1. CASE i = m
    BY <1>1, <1>3, <2>1
  <2>2. CASE i \in DOMAIN b
    <3>1. a[i] = b[i] /\ b[i].by = c /\ b[i].seq <= n /\ b[i].seq \in Nat
      BY <1>1, <1>2, <2>2 DEF Ordered
    <3>2. \A j \in DOMAIN b : i < j => b[i].seq < b[j].seq
      BY <2>2 DEF Ordered
    <3>3. ASSUME NEW j \in DOMAIN a, i < j PROVE a[i].seq < a[j].seq
      <4>1. CASE j = m
        BY <1>1, <3>1, <4>1
      <4>2. CASE j \in DOMAIN b
        BY <1>1, <3>1, <3>2, <3>3, <4>2
      <4> QED BY <1>1, <4>1, <4>2
    <3>4. \E j \in DOMAIN a : a[j].group = b[i].group /\ a[j].seq = new[b[i].group]
      <4>1. CASE b[i].group = r.group
        BY <1>1, <1>3, <4>1
      <4>2. CASE b[i].group # r.group
        <5>1. PICK j \in DOMAIN b : b[j].group = b[i].group /\ b[j].seq = newest[b[i].group]
          BY <2>2 DEF Ordered
        <5>2. j \in DOMAIN a /\ a[j] = b[j] /\ new[b[i].group] = newest[b[i].group]
          BY <1>1, <1>2, <1>3, <2>2, <4>2
        <5> QED BY <5>1, <5>2
      <4> QED BY <4>1, <4>2
    <3>5. b[i].seq <= n + 1
      BY <3>1
    <3> QED BY <3>1, <3>3, <3>4, <3>5
  <2> QED BY <1>1, <2>1, <2>2
<1> QED BY <1>4 DEF Ordered, a, new

(* What any other step than a new result does to a batch. *)
LEMMA BatchKept ==
  ASSUME TypeOK, [Next]_vars, ~\E c \in Replicas, g \in Groups : ReceiveResult(c, g), NEW d \in Replicas
  PROVE  \/ statBatch'[d] = <<>>
         \/ statBatch'[d] = statBatch[d] /\ scrapes'[d] = scrapes[d] /\ latest'[d] = latest[d]
<1> USE DEF batches
<1>0. DOMAIN statBatch = Replicas /\ DOMAIN latest = Replicas
  BY DEF TypeOK, BatchesTypeOK
<1>1. ASSUME NEW c \in Replicas, FlushTick(c) \/ (\E g \in Groups : Exec(c, g)) \/ ExecFails(c)
      PROVE  statBatch' = statBatch /\ scrapes' = scrapes /\ latest' = latest
  BY <1>1 DEF FlushTick, Exec, ExecFails
<1>2. ASSUME NEW c \in Replicas, Commit(c)
      PROVE  /\ statBatch' = statBatch \/ statBatch' = [statBatch EXCEPT ![c] = <<>>]
             /\ scrapes' = scrapes /\ latest' = latest
  BY <1>2 DEF Commit
<1>3. ASSUME NEW c \in Replicas, SaveOrUpdateTargetGroups(c)
      PROVE  statBatch' = statBatch /\ scrapes' = scrapes /\ latest' = latest
  BY <1>3 DEF SaveOrUpdateTargetGroups
<1>4. ASSUME NEW c \in Replicas, Crash(c)
      PROVE  /\ statBatch' = [statBatch EXCEPT ![c] = <<>>]
             /\ scrapes' = scrapes /\ \A x \in Replicas \ {c} : latest'[x] = latest[x]
  BY <1>0, <1>4 DEF Crash
<1>5. CASE UNCHANGED vars
  BY <1>5 DEF vars
<1>6. ASSUME NEW c \in Replicas, Submits(c)
      PROVE  statBatch' = statBatch /\ scrapes' = scrapes /\ latest' = latest
  BY <1>6, Submitted
<1> QED BY <1>0, <1>1, <1>2, <1>3, <1>4, <1>5, <1>6, NextCases

(* Every step keeps the order of the batches. *)
LEMMA OrderedStep ==
  ASSUME TypeOK, BatchOrdered, [Next]_vars
  PROVE  BatchOrdered'
<1>1. ASSUME NEW c \in Replicas, NEW g \in Groups, ReceiveResult(c, g), NEW d \in Replicas
      PROVE  Ordered(statBatch'[d], d, scrapes'[d], latest'[d])
  <2>1. /\ statBatch \in [Replicas -> Seq(Report)] /\ scrapes \in [Replicas -> Nat]
        /\ latest \in [Replicas -> [Groups -> Nat]] /\ Ordered(statBatch[d], d, scrapes[d], latest[d])
    BY DEF TypeOK, BatchesTypeOK, BatchOrdered
  <2>2. CASE d = c
    <3>1. Ordered(Append(statBatch[c], NewReport(c, g)), c, scrapes[c] + 1,
                  [latest[c] EXCEPT ![g] = scrapes[c] + 1])
      <4>1. /\ statBatch[c] \in Seq(Report) /\ scrapes[c] \in Nat /\ latest[c] \in [Groups -> Nat]
            /\ Ordered(statBatch[c], c, scrapes[c], latest[c])
        BY <2>1, <2>2
      <4>2. /\ NewReport(c, g) \in Report /\ NewReport(c, g).by = c
            /\ NewReport(c, g).seq = scrapes[c] + 1 /\ NewReport(c, g).group = g
        BY <1>1, Received
      <4> HIDE DEF NewReport
      <4> QED BY <4>1, <4>2, OrderedAppend, Zenon
    <3>2. /\ statBatch'[c] = Append(statBatch[c], NewReport(c, g)) /\ scrapes'[c] = scrapes[c] + 1
          /\ latest'[c] = [latest[c] EXCEPT ![g] = scrapes[c] + 1]
      BY <1>1, Received
    <3> QED BY <2>2, <3>1, <3>2
  <2>3. CASE d # c
    <3>1. d \in Replicas \ {c}
      BY <2>3
    <3>2. statBatch'[d] = statBatch[d] /\ scrapes'[d] = scrapes[d] /\ latest'[d] = latest[d]
      BY <1>1, <3>1, Received
    <3> QED BY <2>1, <3>2
  <2> QED BY <2>2, <2>3
<1>2. CASE ~\E c \in Replicas, g \in Groups : ReceiveResult(c, g)
  <2>1. ASSUME NEW d \in Replicas PROVE Ordered(statBatch'[d], d, scrapes'[d], latest'[d])
    <3>1. CASE statBatch'[d] = <<>>
      BY <3>1 DEF Ordered
    <3>2. CASE statBatch'[d] = statBatch[d] /\ scrapes'[d] = scrapes[d] /\ latest'[d] = latest[d]
      BY <3>2 DEF BatchOrdered
    <3> QED BY <1>2, <3>1, <3>2, BatchKept
  <2> QED BY <2>1 DEF BatchOrdered
<1> QED BY <1>1, <1>2 DEF BatchOrdered

(* A step of replica c leaves the loops of the others alone. *)
LEMMA OthersKept ==
  ASSUME TypeOK, NEW c \in Replicas, NEW d \in Replicas \ {c},
         \/ \E g \in Groups : ReceiveResult(c, g) \/ Exec(c, g)
         \/ FlushTick(c) \/ Submits(c) \/ ExecFails(c) \/ Commit(c) \/ SaveOrUpdateTargetGroups(c) \/ Crash(c)
  PROVE  /\ stage'[d] = stage[d] /\ next'[d] = next[d] /\ written'[d] = written[d]
         /\ statBatch'[d] = statBatch[d]
<1>0. /\ DOMAIN stage = Replicas /\ DOMAIN next = Replicas /\ DOMAIN written = Replicas
      /\ DOMAIN statBatch = Replicas
  BY DEF TypeOK, BatchesTypeOK
<1> USE DEF transaction, batches
<1>1. CASE \E g \in Groups : ReceiveResult(c, g)
  <2>1. PICK g \in Groups : ReceiveResult(c, g)
    BY <1>1
  <2>2. Flush(c, "result") /\ written' = written
    BY <2>1 DEF ReceiveResult
  <2> QED BY <2>1, <2>2, Received, Flushed
<1>2. CASE \E g \in Groups : Exec(c, g)
  BY <1>0, <1>2 DEF Exec, saveReportsSQL
<1>3. CASE FlushTick(c)
  BY <1>3, Flushed DEF FlushTick
<1>4. CASE ExecFails(c)
  BY <1>0, <1>4, RolledBack DEF ExecFails, Goto
<1>5. CASE Commit(c)
  <2>1. /\ stage' = [stage EXCEPT ![c] = "groups"] /\ Rollback(c)
        /\ statBatch' = statBatch \/ statBatch' = [statBatch EXCEPT ![c] = <<>>]
    BY <1>5 DEF Commit, Goto
  <2> QED BY <1>0, <2>1, RolledBack
<1>6. CASE SaveOrUpdateTargetGroups(c)
  BY <1>6, GroupsSent
<1>7. CASE Crash(c)
  BY <1>0, <1>7, RolledBack DEF Crash, Goto
<1>8. CASE Submits(c)
  BY <1>8, Submitted
<1> QED BY <1>1, <1>2, <1>3, <1>4, <1>5, <1>6, <1>7, <1>8

(* Outside a transaction nothing is written. *)
LEMMA NothingWritten ==
  ASSUME NEW c, NEW place, NEW n, NEW rows, NEW b, place # "tx"
  PROVE  Writing(c, place, n, rows, b) <=> \A g \in Groups : rows[g] = None
  BY DEF Writing

(* Every step keeps what the transactions have written. *)
LEMMA WritingStep ==
  ASSUME TypeOK, BatchOrdered, WrittenIsNewest, [Next]_vars
  PROVE  WrittenIsNewest'
<1> DEFINE W(d) == Writing(d, stage'[d], next'[d], written'[d], statBatch'[d])
<1> USE DEF transaction, batches
<1>0. BatchesTypeOK
  BY DEF TypeOK
<1>k. ASSUME NEW c \in Replicas, NEW d \in Replicas \ {c},
             \/ \E g \in Groups : ReceiveResult(c, g) \/ Exec(c, g)
             \/ FlushTick(c) \/ Submits(c) \/ ExecFails(c) \/ Commit(c) \/ SaveOrUpdateTargetGroups(c) \/ Crash(c)
      PROVE  W(d)
  <2>1. Writing(d, stage[d], next[d], written[d], statBatch[d])
    BY DEF WrittenIsNewest
  <2> QED BY <1>k, <2>1, OthersKept
<1>f. ASSUME NEW c \in Replicas, NEW kind \in {"result", "tick"}, stage[c] = "select", Flush(c, kind),
             written' = written, statBatch'[c] \in Seq(Report)
      PROVE  W(c)
  <2>1. \A g \in Groups : written'[c][g] = None
    BY <1>f, NothingWritten DEF WrittenIsNewest
  <2>2. stage'[c] = "tx" => next'[c] = 1
    BY <1>f, Flushed
  <2>3. Len(statBatch'[c]) \in Nat /\ DOMAIN statBatch'[c] = 1..Len(statBatch'[c])
    BY <1>f
  <2> QED BY <2>1, <2>2, <2>3 DEF Writing
<1>1. ASSUME NEW c \in Replicas, NEW g \in Groups, ReceiveResult(c, g) PROVE W(c)
  <2>1. statBatch'[c] \in Seq(Report)
    <3>1. /\ statBatch[c] \in Seq(Report) /\ NewReport(c, g) \in Report
          /\ statBatch'[c] = Append(statBatch[c], NewReport(c, g))
      BY <1>0, <1>1, Received, InBatches
    <3> QED BY <3>1, AppendedReport
  <2> QED BY <1>1, <1>f, <2>1 DEF ReceiveResult
<1>2. ASSUME NEW c \in Replicas, FlushTick(c) PROVE W(c)
  <2>1. statBatch'[c] \in Seq(Report)
    BY <1>0, <1>2, InBatches DEF FlushTick
  <2> QED BY <1>2, <1>f, <2>1 DEF FlushTick
<1>3. ASSUME NEW c \in Replicas, NEW g \in Groups, Exec(c, g) PROVE W(c)
  <2> DEFINE b == statBatch[c]
             n == next[c]
  <2>1. /\ stage[c] = "tx" /\ n \in DOMAIN b /\ Current(c) = b[n] /\ b[n].group = g
        /\ stage' = stage /\ statBatch' = statBatch
    BY <1>3 DEF Exec, InTx, Current
  <2>2. /\ next'[c] = n + 1 /\ written'[c][g] = b[n]
        /\ \A h \in Groups \ {g} : written'[c][h] = written[c][h]
    BY <1>3, <2>1 DEF Exec, saveReportsSQL, TypeOK
  <2>3. /\ DOMAIN b = 1..Len(b) /\ Len(b) \in Nat
        /\ \A i \in DOMAIN b : b[i] \in Report /\ b[i].group \in Groups /\ b[i].seq \in Nat
    BY <1>0, InBatches
  <2>4. Writing(c, "tx", n, written[c], b)
    BY <2>1 DEF WrittenIsNewest
  <2>5. b[n].by = c /\ \A j \in DOMAIN b : j < n => b[j].seq < b[n].seq
    BY <2>1 DEF BatchOrdered, Ordered
  <2>6. b[n] # None
    BY <2>1, <2>3, ReportFields
  <2> HIDE DEF b, n
  <2>7. ASSUME NEW j \in DOMAIN b, j < n + 1
        PROVE  written'[c][b[j].group] # None /\ written'[c][b[j].group].seq >= b[j].seq
    <3>1. CASE b[j].group = g
      <4>1. b[j].seq <= b[n].seq
        BY <2>1, <2>3, <2>5, <2>7
      <4> QED BY <2>1, <2>2, <2>3, <2>6, <3>1, <4>1
    <3>2. CASE b[j].group # g
      <4>1. j < n
        BY <2>1, <2>3, <2>7, <3>2
      <4> QED BY <2>2, <2>3, <2>4, <3>2, <4>1 DEF Writing
    <3> QED BY <3>1, <3>2
  <2>8. ASSUME NEW h \in Groups, written'[c][h] # None
        PROVE  written'[c][h].by = c /\ \E i \in DOMAIN b : b[i] = written'[c][h] /\ b[i].group = h
    <3>1. CASE h = g
      BY <2>1, <2>2, <2>5, <3>1
    <3>2. CASE h # g
      BY <2>2, <2>4, <2>8, <3>2 DEF Writing
    <3> QED BY <3>1, <3>2
  <2>9. n + 1 \in 1..Len(b) + 1
    BY <2>1, <2>3
  <2> QED BY <2>1, <2>2, <2>7, <2>8, <2>9 DEF Writing, b
<1>4. ASSUME NEW c \in Replicas, ExecFails(c) \/ Commit(c) \/ Crash(c) PROVE W(c)
  <2>1. Rollback(c) /\ stage'[c] # "tx"
    BY <1>4 DEF ExecFails, Commit, Crash, Goto, TypeOK
  <2>2. \A g \in Groups : written'[c][g] = None
    BY <2>1, RolledBack
  <2> QED BY <2>1, <2>2, NothingWritten
<1>5. ASSUME NEW c \in Replicas, SaveOrUpdateTargetGroups(c) PROVE W(c)
  <2>1. stage[c] = "groups" /\ stage'[c] # "tx" /\ written' = written
    BY <1>5, GroupsSent
  <2> QED BY <2>1, NothingWritten DEF WrittenIsNewest
<1>8. ASSUME NEW c \in Replicas, Submits(c) PROVE W(c)
  <2>1. stage[c] # "tx" /\ stage'[c] # "tx" /\ written' = written
    BY <1>8, Submitted
  <2> QED BY <2>1, NothingWritten DEF WrittenIsNewest
<1>6. CASE UNCHANGED vars
  BY <1>6 DEF vars, WrittenIsNewest
<1> HIDE DEF W
<1>7. (\A d \in Replicas : W(d)) => WrittenIsNewest'
  BY DEF W, WrittenIsNewest
<1> QED BY <1>k, <1>1, <1>2, <1>3, <1>4, <1>5, <1>6, <1>7, <1>8, NextCases

----------------------------------------------------------------------------
(* What a step may do to the tables and the batches.  Gone(d): replica d dies. *)
Gone(d) == statBatch'[d] = <<>> /\ groupBatch'[d] = <<>>

TablesGrow ==
  /\ \A g \in Groups : reports[g] # None => reports'[g] # None
  /\ targetGroups \subseteq targetGroups' /\ lost \subseteq lost' /\ dropped \subseteq dropped'

NothingForgotten ==
  \A d \in Replicas :
    /\ \A g \in ReportedIn(statBatch[d]) :
         reports'[g] # None \/ g \in ReportedIn(statBatch'[d]) \/ (g \in lost' /\ Gone(d))
    /\ \A g \in GroupsIn(groupBatch[d]) :
         g \in targetGroups' \union dropped' \/ g \in GroupsIn(groupBatch'[d]) \/ (g \in lost' /\ Gone(d))

ArriveTogether ==
  \A d \in Replicas :
    /\ \A g \in ReportedIn(statBatch'[d]) :
         g \in ReportedIn(statBatch[d]) \/ g \in GroupsIn(groupBatch'[d])
    /\ \A g \in GroupsIn(groupBatch'[d]) :
         g \in GroupsIn(groupBatch[d]) \/ g \in ReportedIn(statBatch'[d])

SavedFromBatches ==
  /\ \A g \in targetGroups' \ targetGroups : \E d \in Replicas :
       g \in GroupsIn(groupBatch[d]) /\ statBatch' = statBatch /\ reports' = reports
  /\ \A g \in Groups : reports[g] = None /\ reports'[g] # None => \E d \in Replicas :
       g \in ReportedIn(statBatch[d]) /\ groupBatch' = groupBatch /\ targetGroups' = targetGroups

Effects == TablesGrow /\ NothingForgotten /\ ArriveTogether /\ SavedFromBatches

(* An emptied batch holds nothing. *)
LEMMA EmptyBatch == ReportedIn(<<>>) = {} /\ GroupsIn(<<>>) = {}
  BY DEF ReportedIn, GroupsIn

(* A step that leaves tables and batches alone has no effects. *)
LEMMA NoEffects ==
  ASSUME UNCHANGED <<reports, targetGroups, dropped, lost, statBatch, groupBatch>>
  PROVE  Effects
  BY DEF Effects, TablesGrow, NothingForgotten, ArriveTogether, SavedFromBatches

(* A commit leaves no report of its batch out. *)
LEMMA CommittedAll ==
  ASSUME TypeOK, WrittenIsNewest, NEW c \in Replicas, Commit(c)
  PROVE  /\ \A g \in ReportedIn(statBatch[c]) : written[c][g] # None
         /\ \A g \in Groups : written[c][g] # None => g \in ReportedIn(statBatch[c])
<1>1. Writing(c, "tx", next[c], written[c], statBatch[c]) /\ next[c] = Len(statBatch[c]) + 1
  BY DEF WrittenIsNewest, Commit
<1>2. DOMAIN statBatch[c] = 1..Len(statBatch[c]) /\ Len(statBatch[c]) \in Nat
  BY InBatches DEF TypeOK
<1> QED BY <1>1, <1>2 DEF Writing, ReportedIn

(* Every step has these effects only. *)
LEMMA StepEffects ==
  ASSUME TypeOK, WrittenIsNewest, ChunksSent, [Next]_vars
  PROVE  Effects
<1> USE DEF tables, transaction, batches
<1>0. BatchesTypeOK
  BY DEF TypeOK
<1>d. DOMAIN statBatch = Replicas /\ DOMAIN groupBatch = Replicas /\ targetGroups \subseteq Groups
  BY DEF TypeOK, BatchesTypeOK
<1>1. ASSUME NEW c \in Replicas, NEW g \in Groups, ReceiveResult(c, g) PROVE Effects
  <2>1. reports' = reports /\ targetGroups' = targetGroups /\ lost' = lost /\ dropped' = dropped
    BY <1>1 DEF ReceiveResult
  <2>2. /\ statBatch'[c] = Append(statBatch[c], NewReport(c, g))
        /\ groupBatch'[c] = Append(groupBatch[c], g)
        /\ NewReport(c, g) \in Report /\ NewReport(c, g).group = g
        /\ \A d \in Replicas \ {c} : statBatch'[d] = statBatch[d] /\ groupBatch'[d] = groupBatch[d]
    BY <1>1, Received, ZenonT(30)
  <2>3. statBatch[c] \in Seq(Report) /\ groupBatch[c] \in Seq(Groups)
    BY <1>0, InBatches
  <2>4. ReportedIn(statBatch'[c]) = ReportedIn(statBatch[c]) \union {g}
    BY <2>2, <2>3, AppendedReport
  <2>5. GroupsIn(groupBatch'[c]) = GroupsIn(groupBatch[c]) \union {g}
    BY <2>2, <2>3, AppendedGroup
  <2>6. \A d \in Replicas \ {c} : /\ ReportedIn(statBatch'[d]) = ReportedIn(statBatch[d])
                                  /\ GroupsIn(groupBatch'[d]) = GroupsIn(groupBatch[d])
    BY <2>2
  <2>7. TablesGrow /\ SavedFromBatches
    BY <2>1 DEF TablesGrow, SavedFromBatches
  <2>8. NothingForgotten /\ ArriveTogether
    BY <2>4, <2>5, <2>6 DEF NothingForgotten, ArriveTogether
  <2> QED BY <2>7, <2>8 DEF Effects
<1>2. ASSUME NEW c \in Replicas, FlushTick(c) \/ (\E g \in Groups : Exec(c, g)) \/ ExecFails(c)
      PROVE  Effects
  BY <1>2, NoEffects DEF FlushTick, Exec, ExecFails
<1>3. ASSUME NEW c \in Replicas, Commit(c) PROVE Effects
  <2>1. /\ targetGroups' = targetGroups /\ lost' = lost /\ groupBatch' = groupBatch /\ dropped' = dropped
        /\ \/ reports' = Committed(c) /\ statBatch' = [statBatch EXCEPT ![c] = <<>>]
           \/ reports' \in {reports, Committed(c)} /\ statBatch' = statBatch
    BY <1>3 DEF Commit
  <2>2. \A g \in Groups : /\ reports[g] # None => Committed(c)[g] # None
                          /\ g \in ReportedIn(statBatch[c]) => Committed(c)[g] # None
                          /\ reports[g] = None /\ Committed(c)[g] # None => g \in ReportedIn(statBatch[c])
    BY <1>3, CommittedAll DEF Committed
  <2>3. ReportedIn(statBatch[c]) \subseteq Groups
    BY <1>0, InBatches
  <2>4. TablesGrow /\ SavedFromBatches
    BY <2>1, <2>2 DEF TablesGrow, SavedFromBatches
  <2>5. CASE statBatch' = statBatch
    BY <2>1, <2>4, <2>5 DEF Effects, NothingForgotten, ArriveTogether
  <2>6. CASE reports' = Committed(c) /\ statBatch' = [statBatch EXCEPT ![c] = <<>>]
    <3>1. /\ ReportedIn(statBatch'[c]) = {}
          /\ \A d \in Replicas \ {c} : statBatch'[d] = statBatch[d]
      BY <1>d, <2>6, EmptyBatch
    <3>2. \A g \in ReportedIn(statBatch[c]) : reports'[g] # None
      BY <2>2, <2>3, <2>6
    <3>3. NothingForgotten /\ ArriveTogether
      BY <2>1, <3>1, <3>2 DEF NothingForgotten, ArriveTogether
    <3> QED BY <2>4, <3>3 DEF Effects
  <2> QED BY <2>1, <2>5, <2>6
<1>4. ASSUME NEW c \in Replicas, SaveOrUpdateTargetGroups(c) PROVE Effects
  <2>1. reports' = reports /\ statBatch' = statBatch /\ lost' = lost
    BY <1>4, GroupsSent
  <2>3. /\ targetGroups \subseteq targetGroups' /\ dropped \subseteq dropped'
        /\ targetGroups' \subseteq targetGroups \union GroupsIn(groupBatch[c])
        /\ groupBatch' = groupBatch \/ groupBatch' = [groupBatch EXCEPT ![c] = <<>>]
    BY <1>4, GroupsSent
  <2>4. TablesGrow /\ SavedFromBatches
    BY <2>1, <2>3 DEF TablesGrow, SavedFromBatches
  <2>5. CASE groupBatch' = groupBatch
    BY <2>1, <2>4, <2>5 DEF Effects, NothingForgotten, ArriveTogether
  <2>6. CASE groupBatch' # groupBatch
    <3>1. groupBatch' = [groupBatch EXCEPT ![c] = <<>>]
      BY <2>3, <2>6
    <3>2. GroupsIn(groupBatch'[c]) = {} /\ \A d \in Replicas \ {c} : groupBatch'[d] = groupBatch[d]
      BY <1>d, <3>1, EmptyBatch
    <3>3. ASSUME NEW i \in DOMAIN groupBatch[c] PROVE groupBatch[c][i] \in targetGroups' \union dropped'
      <4>1. /\ next[c] \in Nat /\ RowsPerBatch \in Nat /\ groupBatch[c] \in Seq(Groups)
            /\ next[c] + RowsPerBatch >= Len(groupBatch[c]) /\ stage[c] = "groups"
        BY <1>0, <1>4, <2>6, GroupsSent, InBatches, ReportsAssumption DEF TypeOK
      <4>2. i \in Nat /\ i <= Len(groupBatch[c]) /\ Len(groupBatch[c]) \in Nat
        BY <4>1
      <4>3. CASE i <= next[c]
        BY <2>3, <4>1, <4>3 DEF ChunksSent
      <4>4. CASE ~(i <= next[c])
        <5>1. i \in Chunk(c)
          BY <4>1, <4>2, <4>4 DEF Chunk
        <5> QED BY <1>4, <2>6, <5>1, GroupsSent
      <4> QED BY <4>3, <4>4
    <3>4. \A g \in GroupsIn(groupBatch[c]) : g \in targetGroups' \union dropped'
      BY <3>3 DEF GroupsIn
    <3>5. NothingForgotten /\ ArriveTogether
      BY <2>1, <3>2, <3>4 DEF NothingForgotten, ArriveTogether
    <3> QED BY <2>4, <3>5 DEF Effects
  <2> QED BY <2>5, <2>6
<1>5. ASSUME NEW c \in Replicas, Crash(c) PROVE Effects
  <2>1. /\ reports' = reports /\ targetGroups' = targetGroups /\ dropped' = dropped
        /\ lost' = lost \union ReportedIn(statBatch[c]) \union GroupsIn(groupBatch[c])
    BY <1>5 DEF Crash
  <2>2. /\ statBatch'[c] = <<>> /\ groupBatch'[c] = <<>>
        /\ \A d \in Replicas \ {c} : statBatch'[d] = statBatch[d] /\ groupBatch'[d] = groupBatch[d]
    BY <1>d, <1>5 DEF Crash
  <2>3. TablesGrow /\ SavedFromBatches
    BY <2>1 DEF TablesGrow, SavedFromBatches
  <2>4. NothingForgotten /\ ArriveTogether
    BY <2>1, <2>2, EmptyBatch DEF NothingForgotten, ArriveTogether, Gone
  <2> QED BY <2>3, <2>4 DEF Effects
<1>6. CASE UNCHANGED vars
  BY <1>6, NoEffects DEF vars
<1>7. ASSUME NEW c \in Replicas, Submits(c) PROVE Effects
  BY <1>7, Submitted, NoEffects
<1> QED BY <1>1, <1>2, <1>3, <1>4, <1>5, <1>6, <1>7, NextCases

(* Every step keeps account of the rows a call has sent. *)
LEMMA SentStep ==
  ASSUME TypeOK, ChunksSent, [Next]_vars
  PROVE  ChunksSent'
<1> DEFINE S(d) == /\ stage'[d] \in {"select", "submit"} => next'[d] = 0
                   /\ stage'[d] = "groups" => \A i \in DOMAIN groupBatch'[d] :
                        i <= next'[d] => groupBatch'[d][i] \in targetGroups' \union dropped'
<1> USE DEF tables, transaction, batches
<1>0. /\ BatchesTypeOK /\ DOMAIN groupBatch = Replicas /\ DOMAIN stage = Replicas /\ DOMAIN next = Replicas
      /\ \A d \in Replicas : next[d] \in Nat /\ groupBatch[d] \in Seq(Groups)
  BY DEF TypeOK, BatchesTypeOK
<1>g. targetGroups \union dropped \subseteq targetGroups' \union dropped'
  <2>1. ASSUME NEW c \in Replicas, SaveOrUpdateTargetGroups(c)
        PROVE  targetGroups \subseteq targetGroups' /\ dropped \subseteq dropped'
    BY <2>1, GroupsSent
  <2>2. ASSUME NEW c \in Replicas, NEW g \in Groups, ReceiveResult(c, g) \/ Exec(c, g)
        PROVE  targetGroups' = targetGroups /\ dropped' = dropped
    BY <2>2 DEF ReceiveResult, Exec
  <2>3. ASSUME NEW c \in Replicas, FlushTick(c) \/ ExecFails(c) \/ Commit(c) \/ Crash(c) \/ Submits(c)
        PROVE  targetGroups' = targetGroups /\ dropped' = dropped
    BY <2>3 DEF FlushTick, ExecFails, Commit, Crash, Submits, TaskTick, SubmitReturns
  <2>4. UNCHANGED vars => targetGroups' = targetGroups /\ dropped' = dropped
    BY DEF vars
  <2> QED BY <2>1, <2>2, <2>3, <2>4, NextCases
<1>k. ASSUME NEW d \in Replicas, stage'[d] = stage[d], next'[d] = next[d], groupBatch'[d] = groupBatch[d]
      PROVE  S(d)
  BY <1>g, <1>k DEF ChunksSent
<1>e. ASSUME NEW c \in Replicas, next'[c] = 0, groupBatch'[c] \in Seq(Groups) PROVE S(c)
  <2>1. \A i \in DOMAIN groupBatch'[c] : i \in Nat /\ i >= 1
    BY <1>e
  <2> QED BY <1>e, <2>1
<1> HIDE DEF S
<1>1. ASSUME NEW c \in Replicas, NEW g \in Groups, ReceiveResult(c, g), NEW d \in Replicas PROVE S(d)
  <2>1. Flush(c, "result") /\ stage[c] = "select"
    BY <1>1 DEF ReceiveResult
  <2>2. CASE d = c
    <3>1. groupBatch'[c] \in Seq(Groups)
      <4>1. groupBatch'[c] = Append(groupBatch[c], g)
        BY <1>1, Received
      <4>2. groupBatch[c] \in Seq(Groups)
        BY <1>0
      <4>3. Append(groupBatch[c], g) \in Seq(Groups)
        BY <4>2
      <4> QED BY <4>1, <4>3, Zenon
    <3>2. next[c] = 0
      BY <2>1 DEF ChunksSent
    <3>3. CASE stage'[c] = "groups"
      BY <1>e, <2>1, <2>2, <3>1, <3>2, <3>3, Flushed
    <3>4. CASE stage'[c] = "tx"
      BY <2>2, <3>4 DEF S
    <3> QED BY <2>1, <3>3, <3>4, Flushed
  <2>3. CASE d # c
    <3>1. d \in Replicas \ {c}
      BY <2>3
    <3>2. groupBatch'[d] = groupBatch[d]
      BY <1>1, <3>1, Received
    <3> QED BY <1>k, <2>1, <3>1, <3>2, Flushed
  <2> QED BY <2>2, <2>3
<1>2. ASSUME NEW c \in Replicas, FlushTick(c), NEW d \in Replicas PROVE S(d)
  <2>1. Flush(c, "tick") /\ stage[c] = "select" /\ groupBatch' = groupBatch
    BY <1>2 DEF FlushTick
  <2>2. CASE d = c
    <3>1. groupBatch'[c] \in Seq(Groups)
      BY <1>0, <2>1
    <3>2. next[c] = 0
      BY <2>1 DEF ChunksSent
    <3>3. CASE stage'[c] = "groups"
      BY <1>e, <2>1, <2>2, <3>1, <3>2, <3>3, Flushed
    <3>4. CASE stage'[c] = "tx"
      BY <2>2, <3>4 DEF S
    <3> QED BY <2>1, <3>3, <3>4, Flushed
  <2>3. CASE d # c
    <3>1. d \in Replicas \ {c}
      BY <2>3
    <3> QED BY <1>k, <2>1, <3>1, Flushed
  <2> QED BY <2>2, <2>3
<1>3. ASSUME NEW c \in Replicas, NEW g \in Groups, Exec(c, g), NEW d \in Replicas PROVE S(d)
  <2>1. /\ stage' = stage /\ groupBatch' = groupBatch /\ stage[c] = "tx"
        /\ \A x \in Replicas \ {c} : next'[x] = next[x]
    BY <1>0, <1>3 DEF Exec, InTx
  <2>2. CASE d = c
    BY <2>1, <2>2 DEF S
  <2>3. CASE d # c
    BY <1>k, <2>1, <2>3
  <2> QED BY <2>2, <2>3
<1>4. ASSUME NEW c \in Replicas, ExecFails(c) \/ Commit(c) \/ Crash(c), NEW d \in Replicas PROVE S(d)
  <2>1. /\ next' = [next EXCEPT ![c] = 0]
        /\ stage' = [stage EXCEPT ![c] = "groups"] \/ stage' = [stage EXCEPT ![c] = "select"]
        /\ groupBatch' = groupBatch \/ groupBatch' = [groupBatch EXCEPT ![c] = <<>>]
    BY <1>4 DEF ExecFails, Commit, Crash, Rollback, Goto
  <2>2. CASE d = c
    <3>1. next'[c] = 0
      BY <1>0, <2>1
    <3>2. groupBatch'[c] \in Seq(Groups)
      <4>1. groupBatch'[c] = groupBatch[c] \/ groupBatch'[c] = <<>>
        BY <1>0, <2>1
      <4>2. groupBatch[c] \in Seq(Groups) /\ <<>> \in Seq(Groups)
        BY <1>0
      <4> QED BY <4>1, <4>2, Zenon
    <3> QED BY <1>e, <2>2, <3>1, <3>2
  <2>3. CASE d # c
    <3>1. stage'[d] = stage[d] /\ next'[d] = next[d] /\ groupBatch'[d] = groupBatch[d]
      BY <1>0, <2>1, <2>3
    <3> QED BY <1>k, <3>1
  <2> QED BY <2>2, <2>3
<1>5. ASSUME NEW c \in Replicas, SaveOrUpdateTargetGroups(c), NEW d \in Replicas PROVE S(d)
  <2>1. /\ stage[c] = "groups" /\ stage'[c] \in {"groups", "select"}
        /\ \A x \in Replicas \ {c} : stage'[x] = stage[x] /\ next'[x] = next[x]
        /\ groupBatch' = groupBatch \/ groupBatch' = [groupBatch EXCEPT ![c] = <<>>]
        /\ stage'[c] = "select" => next'[c] = 0
        /\ stage'[c] = "groups" =>
             /\ groupBatch' = groupBatch /\ next'[c] = next[c] + RowsPerBatch
             /\ \A i \in Chunk(c) : groupBatch[c][i] \in targetGroups' \union dropped'
    BY <1>5, GroupsSent
  <2>2. CASE d = c /\ stage'[c] = "select"
    BY <2>1, <2>2 DEF S
  <2>3. CASE d = c /\ stage'[c] = "groups"
    <3>1. ASSUME NEW i \in DOMAIN groupBatch[c], i <= next[c] + RowsPerBatch
          PROVE  groupBatch[c][i] \in targetGroups' \union dropped'
      <4>1. CASE i <= next[c]
        BY <1>g, <2>1, <4>1 DEF ChunksSent
      <4>2. CASE ~(i <= next[c])
        <5>1. i \in Nat /\ next[c] \in Nat
          BY <1>0
        <5>2. i \in Chunk(c)
          BY <3>1, <4>2, <5>1 DEF Chunk
        <5> QED BY <2>1, <2>3, <5>2
      <4> QED BY <4>1, <4>2
    <3> QED BY <2>1, <2>3, <3>1 DEF S
  <2>4. CASE d # c
    <3>1. d \in Replicas \ {c}
      BY <2>4
    <3>2. groupBatch'[d] = groupBatch[d]
      BY <1>0, <2>1, <3>1
    <3> QED BY <1>k, <2>1, <3>1, <3>2
  <2> QED BY <2>1, <2>2, <2>3, <2>4
<1>6. ASSUME NEW c \in Replicas, Submits(c), NEW d \in Replicas PROVE S(d)
  <2>1. UNCHANGED <<next, groupBatch>>
    BY <1>6, Submitted
  <2>2. CASE d = c
    <3>1. next'[c] = 0 /\ stage'[c] # "groups"
      BY <1>6, <2>1, Submitted DEF ChunksSent
    <3> QED BY <2>2, <3>1 DEF S
  <2>3. CASE d # c
    BY <1>6, <1>k, <2>1, <2>3, Submitted
  <2> QED BY <2>2, <2>3
<1>7. UNCHANGED vars => \A d \in Replicas : S(d)
  BY <1>k DEF vars
<1>8. (\A d \in Replicas : S(d)) => ChunksSent'
  BY DEF S, ChunksSent
<1> QED BY <1>1, <1>2, <1>3, <1>4, <1>5, <1>6, <1>7, <1>8, NextCases

(* Every step keeps the batches of a replica in agreement. *)
LEMMA PairStep ==
  ASSUME TypeOK, BatchesPair, Effects
  PROVE  BatchesPair'
<1>1. ASSUME NEW d \in Replicas, NEW g \in ReportedIn(statBatch'[d])
      PROVE  g \in targetGroups' \union dropped' \/ g \in GroupsIn(groupBatch'[d])
  <2>1. CASE g \in ReportedIn(statBatch[d])
    <3>1. g \in targetGroups' \union dropped' \/ g \in GroupsIn(groupBatch[d])
      BY <2>1 DEF BatchesPair, Effects, TablesGrow
    <3>2. ~Gone(d)
      BY EmptyBatch DEF Gone
    <3> QED BY <3>1, <3>2 DEF Effects, NothingForgotten
  <2> QED BY <2>1 DEF Effects, ArriveTogether
<1>2. ASSUME NEW d \in Replicas, NEW g \in GroupsIn(groupBatch'[d])
      PROVE  reports'[g] # None \/ g \in ReportedIn(statBatch'[d])
  <2>1. CASE g \in GroupsIn(groupBatch[d])
    <3>1. ~Gone(d)
      BY EmptyBatch DEF Gone
    <3>2. g \in Groups
      BY <2>1, InBatches DEF TypeOK
    <3>3. reports'[g] # None \/ g \in ReportedIn(statBatch[d])
      BY <2>1, <3>2 DEF BatchesPair, Effects, TablesGrow
    <3> QED BY <3>1, <3>3 DEF Effects, NothingForgotten
  <2> QED BY <2>1 DEF Effects, ArriveTogether
<1> QED BY <1>1, <1>2 DEF BatchesPair

(* ReadsAreComplete without the records that the read returns. *)
GroupsReported ==
  \A g \in targetGroups :
    reports[g] # None \/ g \in lost \/ \E c \in Replicas : g \in ReportedIn(statBatch[c])

ReportsGrouped ==
  \A g \in Groups \ targetGroups :
    reports[g] = None \/ g \in lost \union dropped \/ \E c \in Replicas : g \in GroupsIn(groupBatch[c])

LEMMA PlainReads == ReadsAreComplete <=> GroupsReported /\ ReportsGrouped
<1>1. \A g : /\ scanTargetGroupWithReport(g).name = g
             /\ scanTargetGroupWithReport(g).hasReport = (reports[g] # None)
  BY DEF scanTargetGroupWithReport
<1> HIDE DEF scanTargetGroupWithReport
<1> DEFINE R(row) == row.hasReport \/ row.name \in lost \/ \E c \in Replicas : row.name \in ReportedIn(statBatch[c])
<1>2. \A g : R(scanTargetGroupWithReport(g)) <=>
        reports[g] # None \/ g \in lost \/ \E c \in Replicas : g \in ReportedIn(statBatch[c])
  BY <1>1, Zenon
<1>3. ReadsAreComplete <=> (\A row \in ListTargetGroups : R(row)) /\ ReportsGrouped
  BY Zenon DEF ReadsAreComplete, ReportsGrouped
<1> HIDE DEF R
<1>4. (\A row \in ListTargetGroups : R(row)) <=> \A g \in targetGroups : R(scanTargetGroupWithReport(g))
  BY Zenon DEF ListTargetGroups
<1>5. (\A g \in targetGroups : R(scanTargetGroupWithReport(g))) <=> GroupsReported
  BY <1>2, Zenon DEF GroupsReported
<1> QED BY <1>3, <1>4, <1>5, Zenon

(* Every step keeps the reads complete. *)
LEMMA ReadsStep ==
  ASSUME TypeOK, BatchesPair, ReadsAreComplete, Effects
  PROVE  ReadsAreComplete'
<1>0. GroupsReported /\ ReportsGrouped /\ targetGroups \subseteq Groups
  BY PlainReads DEF TypeOK
<1>b. \A d \in Replicas : /\ ReportedIn(statBatch[d]) \subseteq Groups
                          /\ GroupsIn(groupBatch[d]) \subseteq Groups
  BY InBatches DEF TypeOK
<1>1. ASSUME NEW g \in targetGroups'
      PROVE  reports'[g] # None \/ g \in lost' \/ \E c \in Replicas : g \in ReportedIn(statBatch'[c])
  <2>1. g \in Groups
    BY <1>0, <1>b DEF Effects, SavedFromBatches
  <2>2. reports[g] # None \/ g \in lost \/ \E c \in Replicas : g \in ReportedIn(statBatch[c])
    <3>1. CASE g \in targetGroups
      BY <1>0, <3>1 DEF GroupsReported
    <3>2. CASE g \notin targetGroups
      BY <3>2 DEF Effects, SavedFromBatches, BatchesPair
    <3> QED BY <3>1, <3>2
  <2> QED BY <2>1, <2>2 DEF Effects, TablesGrow, NothingForgotten
<1>2. ASSUME NEW g \in Groups \ targetGroups'
      PROVE  reports'[g] = None \/ g \in lost' \union dropped' \/ \E c \in Replicas : g \in GroupsIn(groupBatch'[c])
  <2>0. g \notin targetGroups
    BY DEF Effects, TablesGrow
  <2>1. CASE reports[g] = None /\ reports'[g] # None
    BY <2>0, <2>1 DEF Effects, TablesGrow, SavedFromBatches, BatchesPair
  <2>2. CASE reports[g] # None
    <3>1. g \in lost \union dropped \/ \E c \in Replicas : g \in GroupsIn(groupBatch[c])
      BY <1>0, <2>0, <2>2 DEF ReportsGrouped
    <3> QED BY <3>1 DEF Effects, TablesGrow, NothingForgotten
  <2> QED BY <2>1, <2>2
<1>3. GroupsReported' /\ ReportsGrouped'
  BY <1>1, <1>2 DEF GroupsReported, ReportsGrouped
<1> QED BY <1>3, PlainReads, PTL

----------------------------------------------------------------------------
(* The row r of group g against the batch b of its replica, whose last     *)
(* scrape of g is n.                                                       *)
NewestRow(r, g, b, n) ==
  r.seq >= n \/ \E i \in DOMAIN b : b[i].group = g /\ b[i].seq = n

(* What a commit writes is the newest of its replica. *)
LEMMA CommittedNewest ==
  ASSUME TypeOK, BatchOrdered, WrittenIsNewest, NEW c \in Replicas, Commit(c),
         NEW g \in Groups, written[c][g] # None
  PROVE  written[c][g].by = c /\ written[c][g].seq >= latest[c][g]
<1> DEFINE b == statBatch[c]
<1>1. Writing(c, "tx", next[c], written[c], b) /\ next[c] = Len(b) + 1
  BY DEF WrittenIsNewest, Commit
<1>2. DOMAIN b = 1..Len(b) /\ Len(b) \in Nat
  BY InBatches DEF TypeOK
<1>3. Ordered(b, c, scrapes[c], latest[c])
  BY DEF BatchOrdered
<1> HIDE DEF b
<1>4. PICK i \in DOMAIN b : b[i].group = g
  BY <1>1 DEF Writing
<1>5. PICK j \in DOMAIN b : b[j].group = g /\ b[j].seq = latest[c][g]
  BY <1>3, <1>4 DEF Ordered
<1>6. j < next[c]
  BY <1>1, <1>2, <1>5
<1> QED BY <1>1, <1>5, <1>6 DEF Writing

(* Every step keeps the rows newest of their replicas. *)
LEMMA NewestStep ==
  ASSUME TypeOK, BatchOrdered, WrittenIsNewest, NewestOfItsReplica, [Next]_vars
  PROVE  NewestOfItsReplica'
<1> USE DEF tables, transaction, batches
<1> DEFINE N(g) == reports[g] # None =>
                     NewestRow(reports[g], g, statBatch[reports[g].by], latest[reports[g].by][g])
           M(g) == reports'[g] # None =>
                     NewestRow(reports'[g], g, statBatch'[reports'[g].by], latest'[reports'[g].by][g])
<1>0. BatchesTypeOK /\ \A g \in Groups : reports[g] # None => reports[g] \in Report /\ reports[g].by \in Replicas
  BY ReportFields DEF TypeOK
<1>n. \A g \in Groups : N(g)
  BY DEF NewestOfItsReplica, NewestRow
<1>1. ASSUME NEW c \in Replicas, NEW h \in Groups, ReceiveResult(c, h), NEW g \in Groups PROVE M(g)
  <2>1. reports' = reports
    BY <1>1 DEF ReceiveResult
  <2>2. CASE reports[g] = None
    BY <2>1, <2>2
  <2>3. CASE reports[g] # None /\ reports[g].by # c
    <3>1. reports[g].by \in Replicas \ {c}
      BY <1>0, <2>3
    <3>2. statBatch'[reports[g].by] = statBatch[reports[g].by] /\ latest'[reports[g].by] = latest[reports[g].by]
      BY <1>1, <3>1, Received
    <3> HIDE DEF NewestRow
    <3> QED BY <1>n, <2>1, <3>2
  <2>4. CASE reports[g] # None /\ reports[g].by = c
    <3>1. /\ statBatch'[c] = Append(statBatch[c], NewReport(c, h))
          /\ latest'[c] = [latest[c] EXCEPT ![h] = scrapes[c] + 1]
          /\ NewReport(c, h) \in Report /\ NewReport(c, h).group = h /\ NewReport(c, h).seq = scrapes[c] + 1
      BY <1>1, Received
    <3>2. statBatch[c] \in Seq(Report) /\ latest[c] \in [Groups -> Nat]
      BY <1>0, InBatches DEF TypeOK
    <3> DEFINE b == statBatch[c]
               a == statBatch'[c]
               r == NewReport(c, h)
    <3>3. /\ DOMAIN a = 1..Len(b) + 1 /\ DOMAIN b = 1..Len(b) /\ Len(b) \in Nat
          /\ (\A i \in DOMAIN b : a[i] = b[i]) /\ a[Len(b) + 1] = r
      BY <3>1, <3>2, AppendedReport
    <3>4. NewestRow(reports[g], g, b, latest[c][g])
      BY <1>n, <2>4
    <3>5. r.group = h /\ r.seq = scrapes[c] + 1
      BY <3>1
    <3> HIDE DEF a, b, r
    <3>6. NewestRow(reports[g], g, a, latest'[c][g])
      <4>1. CASE g = h
        <5>1. latest'[c][g] = scrapes[c] + 1
          BY <3>1, <3>2, <4>1
        <5>2. Len(b) + 1 \in DOMAIN a /\ a[Len(b) + 1].group = g /\ a[Len(b) + 1].seq = scrapes[c] + 1
          BY <3>3, <3>5, <4>1
        <5> QED BY <5>1, <5>2 DEF NewestRow
      <4>2. CASE g # h
        <5>1. latest'[c][g] = latest[c][g]
          BY <3>1, <3>2, <4>2
        <5>2. \A i \in DOMAIN b : i \in DOMAIN a /\ a[i] = b[i]
          BY <3>3
        <5> QED BY <3>4, <5>1, <5>2 DEF NewestRow
      <4> QED BY <4>1, <4>2
    <3> QED BY <2>1, <2>4, <3>6 DEF a
  <2> QED BY <2>2, <2>3, <2>4
<1>2. ASSUME NEW c \in Replicas, Commit(c), NEW g \in Groups PROVE M(g)
  <2>1. /\ latest' = latest
        /\ \/ reports' = Committed(c) /\ statBatch' = [statBatch EXCEPT ![c] = <<>>]
           \/ reports' \in {reports, Committed(c)} /\ statBatch' = statBatch
    BY <1>2 DEF Commit
  <2>2. DOMAIN statBatch = Replicas
    BY <1>0 DEF BatchesTypeOK
  <2>3. Committed(c)[g] = IF written[c][g] # None THEN written[c][g] ELSE reports[g]
    BY DEF Committed
  <2>4. CASE reports'[g] = written[c][g] /\ written[c][g] # None
    BY <1>2, <2>1, <2>4, CommittedNewest DEF NewestRow
  <2>5. CASE reports'[g] = reports[g] /\ (statBatch' = statBatch \/ reports[g] = None)
    BY <1>n, <2>1, <2>5
  <2>6. CASE /\ reports'[g] = reports[g] /\ reports[g] # None /\ written[c][g] = None
             /\ statBatch' = [statBatch EXCEPT ![c] = <<>>]
    <3>1. CASE reports[g].by = c
      <4>1. \A i \in DOMAIN statBatch[c] : statBatch[c][i].group # g
        BY <1>0, <1>2, <2>6, CommittedAll, InBatches
      <4> QED BY <1>n, <2>1, <2>6, <3>1, <4>1 DEF NewestRow
    <3>2. CASE reports[g].by # c
      <4>1. statBatch'[reports[g].by] = statBatch[reports[g].by]
        BY <1>0, <2>2, <2>6, <3>2
      <4> HIDE DEF NewestRow
      <4> QED BY <1>n, <2>1, <2>6, <4>1
    <3> QED BY <3>1, <3>2
  <2> HIDE DEF M, N
  <2> QED BY <2>1, <2>3, <2>4, <2>5, <2>6
<1>3. ASSUME NEW c \in Replicas, Crash(c), NEW g \in Groups PROVE M(g)
  <2>1. /\ reports' = reports /\ latest' = [latest EXCEPT ![c] = [k \in Groups |-> 0]]
        /\ statBatch' = [statBatch EXCEPT ![c] = <<>>]
    BY <1>3 DEF Crash
  <2>2. DOMAIN statBatch = Replicas /\ DOMAIN latest = Replicas
    BY <1>0 DEF BatchesTypeOK, TypeOK
  <2>3. CASE reports[g] # None /\ reports[g].by = c
    <3>1. reports[g].seq \in Nat /\ latest'[c][g] = 0
      BY <1>0, <2>1, <2>2, <2>3, ReportFields
    <3>2. reports[g].seq >= latest'[c][g]
      BY <3>1
    <3> QED BY <2>1, <2>3, <3>2 DEF NewestRow
  <2>4. CASE reports[g] # None /\ reports[g].by # c
    <3>1. statBatch'[reports[g].by] = statBatch[reports[g].by] /\ latest'[reports[g].by] = latest[reports[g].by]
      BY <1>0, <2>1, <2>2, <2>4
    <3> HIDE DEF NewestRow
    <3> QED BY <1>n, <2>1, <3>1
  <2> QED BY <2>1, <2>3, <2>4
<1>4. ASSUME UNCHANGED <<reports, statBatch, latest>> PROVE NewestOfItsReplica'
  BY <1>4 DEF NewestOfItsReplica
<1>5. ASSUME NEW c \in Replicas, FlushTick(c) \/ (\E g \in Groups : Exec(c, g)) \/ ExecFails(c)
                                \/ SaveOrUpdateTargetGroups(c)
      PROVE  UNCHANGED <<reports, statBatch, latest>>
  BY <1>5 DEF FlushTick, Exec, ExecFails, SaveOrUpdateTargetGroups
<1>6. UNCHANGED vars => UNCHANGED <<reports, statBatch, latest>>
  BY DEF vars
<1>8. ASSUME NEW c \in Replicas, Submits(c) PROVE UNCHANGED <<reports, statBatch, latest>>
  BY <1>8, Submitted
<1>7. (\A g \in Groups : M(g)) => NewestOfItsReplica'
  BY DEF NewestOfItsReplica, NewestRow
<1> HIDE DEF M, N
<1> QED BY <1>1, <1>2, <1>3, <1>4, <1>5, <1>6, <1>7, <1>8, NextCases

----------------------------------------------------------------------------
(* What a step does to the outbox: nothing, or a commit adds its batch. *)
LEMMA OutboxStep ==
  ASSUME TypeOK, [Next]_vars
  PROVE  \/ UNCHANGED <<reports, outbox>>
         \/ \E c \in Replicas : /\ Commit(c) /\ reports' = Committed(c)
                                /\ outbox' = outbox \union {statBatch[c][i] : i \in DOMAIN statBatch[c]}
<1> USE DEF tables
<1>1. ASSUME NEW c \in Replicas, Commit(c)
      PROVE  Enqueued(c) = {statBatch[c][i] : i \in DOMAIN statBatch[c]}
  <2>1. next[c] = Len(statBatch[c]) + 1
    BY <1>1 DEF Commit
  <2>2. DOMAIN statBatch[c] = 1..Len(statBatch[c]) /\ Len(statBatch[c]) \in Nat
    BY InBatches DEF TypeOK
  <2>3. {j \in DOMAIN statBatch[c] : j < next[c]} = DOMAIN statBatch[c]
    BY <2>1, <2>2
  <2> QED BY <2>3 DEF Enqueued
<1>2. ASSUME NEW c \in Replicas, Commit(c)
      PROVE  \/ UNCHANGED <<reports, outbox>>
             \/ reports' = Committed(c) /\ outbox' = outbox \union Enqueued(c)
  BY <1>2 DEF Commit
<1>3. ASSUME NEW c \in Replicas, NEW g \in Groups, ReceiveResult(c, g) \/ Exec(c, g)
      PROVE  UNCHANGED <<reports, outbox>>
  BY <1>3 DEF ReceiveResult, Exec
<1>4. ASSUME NEW c \in Replicas, FlushTick(c) \/ ExecFails(c) \/ SaveOrUpdateTargetGroups(c) \/ Crash(c)
      PROVE  UNCHANGED <<reports, outbox>>
  BY <1>4 DEF FlushTick, ExecFails, SaveOrUpdateTargetGroups, Crash
<1>5. UNCHANGED vars => UNCHANGED <<reports, outbox>>
  BY DEF vars
<1>6. ASSUME NEW c \in Replicas, Submits(c) PROVE UNCHANGED <<reports, outbox>>
  BY <1>6, Submitted
<1> QED BY <1>1, <1>2, <1>3, <1>4, <1>5, <1>6, NextCases

(* Every step keeps the reports of the outbox behind the batches. *)
LEMMA PastStep ==
  ASSUME TypeOK, BatchOrdered, EventsPast, [Next]_vars
  PROVE  EventsPast'
<1>0. BatchesTypeOK /\ outbox \subseteq Report /\ scrapes \in [Replicas -> Nat]
  BY DEF TypeOK
<1>f. \A r \in Report : r.by \in Replicas /\ r.seq \in Nat
  BY ReportFields
<1>1. ASSUME NEW c \in Replicas, NEW g \in Groups, ReceiveResult(c, g) PROVE EventsPast'
  <2>1. outbox' = outbox
    BY <1>1 DEF ReceiveResult, tables
  <2>2. ASSUME NEW r \in outbox PROVE Past(r, statBatch'[r.by], scrapes'[r.by])
    <3>1. r.by \in Replicas /\ r.seq \in Nat /\ Past(r, statBatch[r.by], scrapes[r.by])
      BY <1>0, <1>f DEF EventsPast
    <3>2. CASE r.by = c
      <4> DEFINE b == statBatch[c]
                 a == statBatch'[c]
                 n == scrapes[c]
                 new == NewReport(c, g)
      <4>1. /\ b \in Seq(Report) /\ new \in Report /\ new.seq = n + 1 /\ n \in Nat
            /\ a = Append(b, new) /\ scrapes'[c] = n + 1
        BY <1>0, <1>1, Received, InBatches
      <4>2. /\ DOMAIN a = 1..Len(b) + 1 /\ DOMAIN b = 1..Len(b) /\ Len(b) \in Nat
            /\ (\A i \in DOMAIN b : a[i] = b[i]) /\ a[Len(b) + 1] = new
        BY <4>1, AppendedReport
      <4>3. Past(r, b, n)
        BY <3>1, <3>2
      <4>4. new.seq = n + 1 /\ n \in Nat /\ scrapes'[c] = n + 1
        BY <4>1
      <4> HIDE DEF a, b, n, new
      <4>5. Past(r, a, n + 1)
        <5>1. r.seq <= n + 1 BY <3>1, <4>3, <4>4 DEF Past
        <5>2. CASE \E i \in DOMAIN b : b[i] = r
          <6>1. \E i \in DOMAIN a : a[i] = r BY <4>2, <5>2
          <6> QED BY <5>1, <6>1 DEF Past
        <5>3. CASE \A i \in DOMAIN b : r.seq < b[i].seq
          <6>1. r.seq < new.seq BY <3>1, <4>3, <4>4 DEF Past
          <6>2. \A i \in DOMAIN a : i \in DOMAIN b \/ i = Len(b) + 1 BY <4>2
          <6>3. \A i \in DOMAIN a : r.seq < a[i].seq BY <4>2, <5>3, <6>1, <6>2
          <6> QED BY <5>1, <6>3 DEF Past
        <5> QED BY <4>3, <5>2, <5>3 DEF Past
      <4> QED BY <3>2, <4>4, <4>5 DEF a
    <3>3. CASE r.by # c
      <4>1. r.by \in Replicas \ {c} BY <3>1, <3>3
      <4>2. statBatch'[r.by] = statBatch[r.by] /\ scrapes'[r.by] = scrapes[r.by]
        BY <1>1, <4>1, Received
      <4> QED BY <3>1, <4>2
    <3> QED BY <3>2, <3>3
  <2> QED BY <2>1, <2>2 DEF EventsPast
<1>2. CASE ~\E c \in Replicas, g \in Groups : ReceiveResult(c, g)
  <2>1. \A d \in Replicas : scrapes'[d] = scrapes[d]
    <3>1. scrapes' = scrapes
      BY <1>2, NextCases
         DEF FlushTick, Submits, TaskTick, SubmitReturns, Exec, ExecFails, Commit, SaveOrUpdateTargetGroups, Crash, vars
    <3> QED BY <3>1
  <2>2. ASSUME NEW r \in outbox'
        PROVE  r \in Report /\ r.seq <= scrapes[r.by]
               /\ (r \in outbox \/ \E i \in DOMAIN statBatch[r.by] : statBatch[r.by][i] = r)
    <3>1. CASE r \in outbox
      BY <1>0, <3>1 DEF EventsPast, Past
    <3>2. ASSUME NEW c \in Replicas, NEW i \in DOMAIN statBatch[c], r = statBatch[c][i]
          PROVE  r \in Report /\ r.seq <= scrapes[r.by] /\ r = statBatch[r.by][i] /\ r.by = c
      <4>1. statBatch[c][i] \in Report BY <1>0, InBatches
      <4>2. statBatch[c][i].by = c /\ statBatch[c][i].seq <= scrapes[c]
        BY DEF BatchOrdered, Ordered
      <4> QED BY <3>2, <4>1, <4>2
    <3>3. r \in outbox \/ \E c \in Replicas : \E i \in DOMAIN statBatch[c] : r = statBatch[c][i]
      BY OutboxStep
    <3> QED BY <3>1, <3>2, <3>3
  <2>3. ASSUME NEW r \in outbox' PROVE Past(r, statBatch'[r.by], scrapes'[r.by])
    <3>1. r.by \in Replicas /\ r.seq <= scrapes'[r.by]
      BY <1>f, <2>1, <2>2
    <3>2. CASE statBatch'[r.by] = <<>>
      BY <3>1, <3>2 DEF Past
    <3>3. CASE statBatch'[r.by] = statBatch[r.by]
      <4>1. CASE r \in outbox
        BY <3>1, <3>3, <4>1 DEF EventsPast, Past
      <4>2. CASE \E i \in DOMAIN statBatch[r.by] : statBatch[r.by][i] = r
        BY <3>1, <3>3, <4>2 DEF Past
      <4> QED BY <2>2, <4>1, <4>2
    <3> QED BY <1>2, <3>1, <3>2, <3>3, BatchKept
  <2> QED BY <2>3 DEF EventsPast
<1> QED BY <1>1, <1>2

(* Every step keeps reports and events together. *)
LEMMA EventsStep ==
  ASSUME TypeOK, BatchOrdered, WrittenIsNewest, EventsPast, EventsFollowReports, [Next]_vars
  PROVE  EventsFollowReports'
<1>0. BatchesTypeOK /\ outbox \subseteq Report
  BY DEF TypeOK
<1>1. CASE UNCHANGED <<reports, outbox>>
  BY <1>1 DEF EventsFollowReports
<1>2. ASSUME NEW c \in Replicas, Commit(c), reports' = Committed(c),
             outbox' = outbox \union {statBatch[c][i] : i \in DOMAIN statBatch[c]}
      PROVE  EventsFollowReports'
  <2> DEFINE b == statBatch[c]
             rows == written[c]
  <2>1. Writing(c, "tx", next[c], rows, b) /\ next[c] = Len(b) + 1
    BY <1>2 DEF WrittenIsNewest, Commit
  <2>2. /\ DOMAIN b = 1..Len(b) /\ Len(b) \in Nat
        /\ \A i \in DOMAIN b : b[i] \in Report /\ b[i].group \in Groups /\ b[i].seq \in Nat
    BY <1>0, InBatches
  <2>3. \A j \in DOMAIN b : rows[b[j].group] # None /\ rows[b[j].group].seq >= b[j].seq
    BY <2>1, <2>2 DEF Writing
  <2>4. \A g \in Groups : rows[g] # None =>
          rows[g].by = c /\ \E i \in DOMAIN b : b[i] = rows[g] /\ b[i].group = g
    BY <2>1 DEF Writing
  <2>5. \A g \in Groups : reports'[g] = IF rows[g] # None THEN rows[g] ELSE reports[g]
    BY <1>2 DEF Committed
  <2>6. \A r \in outbox : r.by = c => Past(r, b, scrapes[c])
    BY DEF EventsPast
  <2>7. /\ \A r \in outbox' : r \in outbox \/ \E i \in DOMAIN b : b[i] = r
        /\ outbox \subseteq outbox' /\ \A i \in DOMAIN b : b[i] \in outbox'
    BY <1>2
  <2> HIDE DEF b, rows
  <2>8. ASSUME NEW g \in Groups, reports'[g] # None PROVE reports'[g] \in outbox'
    <3>1. CASE rows[g] # None
      BY <2>4, <2>5, <2>7, <3>1
    <3>2. CASE rows[g] = None
      BY <2>5, <2>7, <2>8, <3>2 DEF EventsFollowReports
    <3> QED BY <3>1, <3>2
  <2>9. ASSUME NEW r \in outbox'
        PROVE  /\ reports'[r.group] # None
               /\ reports'[r.group].by = r.by => r.seq <= reports'[r.group].seq
    <3>1. r \in Report /\ r.group \in Groups /\ r.seq \in Nat
      <4>1. r \in Report BY <1>0, <2>2, <2>7
      <4> QED BY <4>1, ReportFields
    <3>2. CASE rows[r.group] = None
      <4>1. r \in outbox BY <2>3, <2>7, <3>2
      <4> QED BY <2>5, <3>1, <3>2, <4>1 DEF EventsFollowReports
    <3>3. CASE rows[r.group] # None
      <4>1. reports'[r.group] = rows[r.group] BY <2>5, <3>1, <3>3
      <4>2. PICK i \in DOMAIN b : b[i] = rows[r.group] /\ b[i].group = r.group
        BY <2>4, <3>1, <3>3
      <4>3. CASE \E j \in DOMAIN b : b[j] = r
        BY <2>2, <2>3, <3>1, <3>3, <4>1, <4>3
      <4>4. CASE ~\E j \in DOMAIN b : b[j] = r
        <5>1. r \in outbox BY <2>7, <4>4
        <5>2. r.by = c => r.seq < b[i].seq BY <2>6, <4>4, <5>1 DEF Past
        <5>3. rows[r.group].by = c BY <2>4, <3>1, <3>3
        <5> QED BY <2>2, <3>1, <3>3, <4>1, <4>2, <5>2, <5>3
      <4> QED BY <4>3, <4>4
    <3> QED BY <3>2, <3>3
  <2> QED BY <2>8, <2>9 DEF EventsFollowReports
<1> QED BY <1>1, <1>2, OutboxStep

(* Every step keeps a full batch, past its save, to replicas whose save has failed. *)
LEMMA FullStep ==
  ASSUME TypeOK, FullOnlyByFailure, [Next]_vars
  PROVE  FullOnlyByFailure'
<1> USE DEF transaction, batches
<1> DEFINE F(d) == stage'[d] # "tx" /\ Len(statBatch'[d]) >= BatchSize => d \in failing'
<1>0. /\ DOMAIN stage = Replicas /\ DOMAIN statBatch = Replicas
      /\ BatchSize \in Nat \ {0} /\ Len(<<>>) = 0 /\ BatchesTypeOK
  BY ReportsAssumption DEF TypeOK, BatchesTypeOK
<1>k. ASSUME NEW c \in Replicas, NEW d \in Replicas \ {c},
             \/ \E g \in Groups : ReceiveResult(c, g) \/ Exec(c, g)
             \/ FlushTick(c) \/ Submits(c) \/ ExecFails(c) \/ Commit(c) \/ SaveOrUpdateTargetGroups(c) \/ Crash(c)
      PROVE  F(d)
  <2>1. stage'[d] = stage[d] /\ statBatch'[d] = statBatch[d]
    BY <1>k, OthersKept
  <2>2. failing \ {c} \subseteq failing'
    BY <1>k DEF ReceiveResult, Exec, FlushTick, Submits, TaskTick, SubmitReturns, ExecFails, Commit,
                SaveOrUpdateTargetGroups, Crash
  <2> QED BY <2>1, <2>2 DEF FullOnlyByFailure
<1>1. ASSUME NEW c \in Replicas, NEW g \in Groups, ReceiveResult(c, g) PROVE F(c)
  <2>1. Flush(c, "result")
    BY <1>1 DEF ReceiveResult
  <2>2. Len(statBatch'[c]) \in Nat
    <3>1. /\ statBatch[c] \in Seq(Report) /\ NewReport(c, g) \in Report
          /\ statBatch'[c] = Append(statBatch[c], NewReport(c, g))
      <4>1. NewReport(c, g) \in Report /\ statBatch'[c] = Append(statBatch[c], NewReport(c, g))
        BY <1>1, Received
      <4>2. statBatch[c] \in Seq(Report)
        BY <1>0, InBatches
      <4> QED BY <4>1, <4>2
    <3> QED BY <3>1, AppendedReport
  <2>3. stage'[c] # "tx" => ~Due("result", statBatch'[c])
    BY <2>1, Flushed
  <2> QED BY <1>0, <2>2, <2>3 DEF Due
<1>2. ASSUME NEW c \in Replicas, FlushTick(c) PROVE F(c)
  <2>1. Flush(c, "tick") /\ statBatch' = statBatch
    BY <1>2 DEF FlushTick
  <2>2. Len(statBatch'[c]) \in Nat
    BY <1>0, <2>1, InBatches
  <2>3. stage'[c] # "tx" => ~Due("tick", statBatch'[c])
    BY <2>1, Flushed
  <2> QED BY <1>0, <2>2, <2>3 DEF Due
<1>3. ASSUME NEW c \in Replicas, NEW g \in Groups, Exec(c, g) PROVE F(c)
  BY <1>3 DEF Exec, InTx
<1>4. ASSUME NEW c \in Replicas, ExecFails(c) PROVE F(c)
  BY <1>4 DEF ExecFails
<1>5. ASSUME NEW c \in Replicas, Commit(c) PROVE F(c)
  <2>1. c \in failing' \/ statBatch' = [statBatch EXCEPT ![c] = <<>>]
    BY <1>5 DEF Commit
  <2>2. statBatch' = [statBatch EXCEPT ![c] = <<>>] => Len(statBatch'[c]) = 0
    BY <1>0
  <2> QED BY <1>0, <2>1, <2>2
<1>6. ASSUME NEW c \in Replicas, SaveOrUpdateTargetGroups(c) PROVE F(c)
  <2>1. stage[c] # "tx" /\ statBatch' = statBatch /\ failing' = failing
    BY <1>6, GroupsSent
  <2> QED BY <2>1 DEF FullOnlyByFailure
<1>10. ASSUME NEW c \in Replicas, Submits(c) PROVE F(c)
  <2>1. stage[c] # "tx" /\ statBatch' = statBatch /\ failing' = failing
    BY <1>10, Submitted
  <2> QED BY <2>1 DEF FullOnlyByFailure
<1>7. ASSUME NEW c \in Replicas, Crash(c) PROVE F(c)
  <2>1. Len(statBatch'[c]) = 0
    BY <1>0, <1>7 DEF Crash
  <2> QED BY <1>0, <2>1
<1>8. CASE UNCHANGED vars
  BY <1>8 DEF vars, FullOnlyByFailure
<1>9. (\A d \in Replicas : F(d)) => FullOnlyByFailure'
  BY DEF FullOnlyByFailure
<1> HIDE DEF F
<1> QED BY <1>k, <1>1, <1>2, <1>3, <1>4, <1>5, <1>6, <1>7, <1>8, <1>9, <1>10, NextCases

(* The tables and batches are empty at first. *)
LEMMA InvInit ==
  ASSUME Init
  PROVE  Inv
<1> USE ReportsAssumption DEF Init, NoRows
<1>1. BatchesTypeOK
  BY DEF BatchesTypeOK
<1>2. TypeOK
  BY <1>1 DEF TypeOK, Stages
<1>3. BatchOrdered /\ WrittenIsNewest
  BY DEF BatchOrdered, Ordered, WrittenIsNewest, Writing
<1>4. BatchesPair /\ ChunksSent
  BY EmptyBatch DEF BatchesPair, ChunksSent
<1>5. ReadsAreComplete
  BY PlainReads DEF GroupsReported, ReportsGrouped
<1>6. NewestOfItsReplica
  BY DEF NewestOfItsReplica
<1>7. FullOnlyByFailure
  <2>1. \A c \in Replicas : Len(statBatch[c]) = 0
    OBVIOUS
  <2> QED BY <2>1 DEF FullOnlyByFailure
<1>8. EventsPast /\ EventsFollowReports
  BY DEF EventsPast, EventsFollowReports
<1> QED BY <1>2, <1>3, <1>4, <1>5, <1>6, <1>7, <1>8 DEF Inv

(***************************************************************************)
(* The inductive invariant: of two replicas' saves in any interleaving,    *)
(* with faults at any statement and crashes at any moment.                 *)
(***************************************************************************)
THEOREM ReportsInvariant == Spec => []Inv
<1>1. Init => Inv
  BY InvInit
<1>2. Inv /\ [Next]_vars => Inv'
  <2> SUFFICES ASSUME Inv, [Next]_vars PROVE Inv'
    OBVIOUS
  <2>0. /\ TypeOK /\ BatchOrdered /\ WrittenIsNewest /\ BatchesPair /\ ChunksSent
        /\ ReadsAreComplete /\ NewestOfItsReplica /\ FullOnlyByFailure
        /\ EventsPast /\ EventsFollowReports
    BY DEF Inv
  <2>1. TypeOK' /\ BatchOrdered' /\ WrittenIsNewest'
    BY <2>0, TypeStep, OrderedStep, WritingStep
  <2>2. BatchesPair' /\ ReadsAreComplete' /\ ChunksSent'
    BY <2>0, StepEffects, PairStep, ReadsStep, SentStep
  <2>3. NewestOfItsReplica' /\ FullOnlyByFailure'
    BY <2>0, NewestStep, FullStep
  <2>4. EventsPast' /\ EventsFollowReports'
    BY <2>0, PastStep, EventsStep
  <2> QED BY <2>1, <2>2, <2>3, <2>4 DEF Inv
<1> QED BY <1>1, <1>2, PTL DEF Spec

(* The types of the tables, the batches and the transactions (SaveReports, Run). *)
THEOREM TypeCorrect == Spec => []TypeOK
<1>1. Inv => TypeOK
  BY DEF Inv
<1> QED BY <1>1, ReportsInvariant, PTL

(* Between the two tables, which are saved apart, nothing goes missing     *)
(* but by a crash or by an error that sendBatch does not return            *)
(* (SaveReports, SaveOrUpdateTargetGroups and the left join of             *)
(* ListTargetGroups).                                                      *)
THEOREM CompleteReads == Spec => []ReadsAreComplete
<1>1. Inv => ReadsAreComplete
  BY DEF Inv
<1> QED BY <1>1, ReportsInvariant, PTL

(* A row is the newest report of the replica it comes from, or the newest  *)
(* is still in its batch (saveReportsSQL, retried batches).                *)
THEOREM NewestReports == Spec => []NewestOfItsReplica
<1>1. Inv => NewestOfItsReplica
  BY DEF Inv
<1> QED BY <1>1, ReportsInvariant, PTL

(* A report is stored with its events, and no event tells of a report      *)
(* whose transaction was rolled back (SaveReports, enqueueOutboxEvents).   *)
THEOREM EventsAreAtomic == Spec => []EventsFollowReports
<1>1. Inv => EventsFollowReports
  BY DEF Inv
<1> QED BY <1>1, ReportsInvariant, PTL

(* A batch outgrows batchSize by failed saves only (the flush after every  *)
(* result in Run).                                                         *)
THEOREM GrowthIsFailure == Spec => []GrowsOnlyByFailure
<1>1. Inv => GrowsOnlyByFailure
  BY DEF Inv, FullOnlyByFailure, GrowsOnlyByFailure
<1> QED BY <1>1, ReportsInvariant, PTL

----------------------------------------------------------------------------
(* An open transaction has come past no report the database refuses. *)
Taken(place, n, b) == place = "tx" => \A j \in DOMAIN b : j < n => b[j] \notin Refused

PastIsTaken == \A c \in Replicas : Taken(stage[c], next[c], statBatch[c])

LEMMA TakenStep ==
  ASSUME TypeOK, PastIsTaken, [Next]_vars
  PROVE  PastIsTaken'
<1> DEFINE T(d) == Taken(stage'[d], next'[d], statBatch'[d])
<1>0. BatchesTypeOK
  BY DEF TypeOK
<1>k. ASSUME NEW c \in Replicas, NEW d \in Replicas \ {c},
             \/ \E g \in Groups : ReceiveResult(c, g) \/ Exec(c, g)
             \/ FlushTick(c) \/ Submits(c) \/ ExecFails(c) \/ Commit(c) \/ SaveOrUpdateTargetGroups(c) \/ Crash(c)
      PROVE  T(d)
  <2>1. Taken(stage[d], next[d], statBatch[d])
    BY DEF PastIsTaken
  <2> QED BY <1>k, <2>1, OthersKept
<1>f. ASSUME NEW c \in Replicas, NEW kind \in {"result", "tick"}, Flush(c, kind),
             statBatch'[c] \in Seq(Report)
      PROVE  T(c)
  <2>1. stage'[c] = "tx" => next'[c] = 1
    BY <1>f, Flushed
  <2>2. Len(statBatch'[c]) \in Nat /\ DOMAIN statBatch'[c] = 1..Len(statBatch'[c])
    BY <1>f
  <2> QED BY <2>1, <2>2 DEF Taken
<1>1. ASSUME NEW c \in Replicas, NEW g \in Groups, ReceiveResult(c, g) PROVE T(c)
  <2>1. statBatch'[c] \in Seq(Report)
    <3>1. /\ statBatch[c] \in Seq(Report) /\ NewReport(c, g) \in Report
          /\ statBatch'[c] = Append(statBatch[c], NewReport(c, g))
      BY <1>0, <1>1, Received, InBatches
    <3> QED BY <3>1, AppendedReport
  <2> QED BY <1>1, <1>f, <2>1 DEF ReceiveResult
<1>2. ASSUME NEW c \in Replicas, FlushTick(c) PROVE T(c)
  <2>1. statBatch'[c] \in Seq(Report)
    BY <1>0, <1>2, InBatches DEF FlushTick
  <2> QED BY <1>2, <1>f, <2>1 DEF FlushTick
<1>3. ASSUME NEW c \in Replicas, NEW g \in Groups, Exec(c, g) PROVE T(c)
  <2> DEFINE b == statBatch[c]
             n == next[c]
  <2>1. /\ stage[c] = "tx" /\ n \in DOMAIN b /\ b[n] \notin Refused
        /\ stage' = stage /\ statBatch' = statBatch
    BY <1>3 DEF Exec, InTx, Current, batches
  <2>2. next'[c] = n + 1
    BY <1>3 DEF Exec, TypeOK
  <2>3. DOMAIN b = 1..Len(b) /\ Len(b) \in Nat
    BY <1>0, InBatches
  <2>4. Taken("tx", n, b)
    BY <2>1 DEF PastIsTaken
  <2>6. statBatch'[c] = b /\ stage'[c] = "tx"
    BY <2>1
  <2> HIDE DEF b, n
  <2>5. ASSUME NEW j \in DOMAIN b, j < n + 1 PROVE b[j] \notin Refused
    <3>1. j < n \/ j = n
      BY <2>1, <2>3, <2>5
    <3> QED BY <2>1, <2>4, <3>1 DEF Taken
  <2> QED BY <2>2, <2>5, <2>6 DEF Taken
<1>4. ASSUME NEW c \in Replicas,
             ExecFails(c) \/ Commit(c) \/ Crash(c) \/ SaveOrUpdateTargetGroups(c) \/ Submits(c)
      PROVE  T(c)
  <2>1. stage'[c] # "tx"
    BY <1>4, GroupsSent, Submitted DEF ExecFails, Commit, Crash, Goto, TypeOK
  <2> QED BY <2>1 DEF Taken
<1>5. CASE UNCHANGED vars
  BY <1>5 DEF vars, PastIsTaken, transaction, batches
<1> HIDE DEF T
<1>6. (\A d \in Replicas : T(d)) => PastIsTaken'
  BY DEF T, PastIsTaken
<1> QED BY <1>k, <1>1, <1>2, <1>3, <1>4, <1>5, <1>6, NextCases

(* Of several reports of a group in a batch, there is one last. *)
LEMMA LastIsUnique ==
  ASSUME NEW b \in Seq(Report), NEW i \in DOMAIN b, Store!IsLast(b, i)
  PROVE  i = CHOOSE j \in DOMAIN b : b[j].group = b[i].group /\ Store!IsLast(b, j)
<1>1. DOMAIN b \subseteq Nat
  OBVIOUS
<1>2. ASSUME NEW j \in DOMAIN b, b[j].group = b[i].group, Store!IsLast(b, j)
      PROVE  i = j
  <2>1. ~(i < j) /\ ~(j < i)
    BY <1>2 DEF Store!IsLast
  <2> QED BY <1>1, <2>1
<1> QED BY <1>2

(* A transaction that commits writes what one step would have written. *)
LEMMA CommitIsWhole ==
  ASSUME TypeOK, BatchOrdered, WrittenIsNewest, PastIsTaken, NEW c \in Replicas, Commit(c)
  PROVE  /\ Committed(c) = Store!Overwritten(reports, statBatch[c])
         /\ Enqueued(c) = {statBatch[c][i] : i \in DOMAIN statBatch[c]}
         /\ \A i \in DOMAIN statBatch[c] : statBatch[c][i] \notin Refused
<1> DEFINE b == statBatch[c]
           rows == written[c]
<1>1. /\ Writing(c, "tx", next[c], rows, b) /\ Taken("tx", next[c], b)
      /\ next[c] = Len(b) + 1 /\ Ordered(b, c, scrapes[c], latest[c])
  BY DEF WrittenIsNewest, PastIsTaken, BatchOrdered, Commit
<1>2. /\ DOMAIN b = 1..Len(b) /\ Len(b) \in Nat /\ b \in Seq(Report)
      /\ \A i \in DOMAIN b : b[i] \in Report /\ b[i].seq \in Nat /\ b[i].group \in Groups
  BY InBatches DEF TypeOK
<1>3. \A i \in DOMAIN b : i < next[c]
  BY <1>1, <1>2
<1>4. Enqueued(c) = {b[i] : i \in DOMAIN b}
  BY <1>3 DEF Enqueued
<1> HIDE DEF b, rows
<1>5. \A i \in DOMAIN b : b[i] \notin Refused
  BY <1>1, <1>3 DEF Taken
<1>6. ASSUME NEW g \in Groups
      PROVE  (IF rows[g] # None THEN rows[g] ELSE reports[g]) = Store!Overwritten(reports, b)[g]
  <2>1. CASE rows[g] = None
    <3>1. \A i \in DOMAIN b : b[i].group # g
      BY <1>1, <1>3, <2>1 DEF Writing
    <3> QED BY <2>1, <3>1 DEF Store!Overwritten
  <2>2. CASE rows[g] # None
    <3>1. PICK i \in DOMAIN b : b[i] = rows[g] /\ b[i].group = g
      BY <1>1, <2>2 DEF Writing
    <3>2. ASSUME NEW j \in DOMAIN b, j > i, b[j].group = g PROVE FALSE
      <4>1. rows[g].seq >= b[j].seq
        BY <1>1, <1>3, <3>2 DEF Writing
      <4>2. b[i].seq < b[j].seq
        BY <1>1, <1>2, <3>2 DEF Ordered
      <4> QED BY <1>2, <3>1, <4>1, <4>2
    <3>3. Store!IsLast(b, i)
      BY <3>1, <3>2 DEF Store!IsLast
    <3>4. i = CHOOSE j \in DOMAIN b : b[j].group = g /\ Store!IsLast(b, j)
      BY <1>2, <3>1, <3>3, LastIsUnique
    <3> QED BY <2>2, <3>1, <3>4 DEF Store!Overwritten
  <2> QED BY <2>1, <2>2
<1>7. Committed(c) = Store!Overwritten(reports, b)
  BY <1>6 DEF Committed, Store!Overwritten, rows
<1> QED BY <1>4, <1>5, <1>7 DEF b

(***************************************************************************)
(* The transactions implement saves of one step.  Statements, waits,       *)
(* rollbacks and target groups are stutters; a commit, with or without its *)
(* reply, is a save (SaveReports).                                         *)
(***************************************************************************)
THEOREM ReportsImplementStore == Spec => ImplementsStore
<1>1. Init => Store!Init
  BY DEF Init, NoRows, Store!Init
<1>2. Init => PastIsTaken
  BY DEF Init, PastIsTaken, Taken
<1>3. TypeOK /\ PastIsTaken /\ [Next]_vars => PastIsTaken'
  BY TakenStep
<1>4. Inv /\ PastIsTaken /\ [Next]_vars => [Store!Next]_(Store!vars)
  <2> SUFFICES ASSUME Inv, PastIsTaken, [Next]_vars
               PROVE  Store!Next \/ UNCHANGED <<reports, outbox, statBatch>>
    BY DEF Store!vars
  <2>0. TypeOK /\ BatchOrdered /\ WrittenIsNewest
    BY DEF Inv
  <2> USE DEF tables, batches
  <2>1. ASSUME NEW c \in Replicas, NEW g \in Groups, ReceiveResult(c, g) PROVE Store!Next
    <3>1. scrapes[c] + 1 \in 1..MaxScrapes
      <4>1. scrapes[c] < MaxScrapes /\ scrapes[c] \in Nat
        BY <2>0, <2>1, Received DEF ReceiveResult
      <4> QED BY <4>1, ReportsAssumption
    <3>2. Store!Collect(c, g, scrapes[c] + 1)
      BY <2>0, <2>1, Received DEF ReceiveResult, NewReport, Store!Collect
    <3> QED BY <3>1, <3>2 DEF Store!Next
  <2>2. ASSUME NEW c \in Replicas, FlushTick(c) \/ ExecFails(c) \/ SaveOrUpdateTargetGroups(c)
        PROVE  UNCHANGED <<reports, outbox, statBatch>>
    BY <2>2 DEF FlushTick, ExecFails, SaveOrUpdateTargetGroups
  <2>3. ASSUME NEW c \in Replicas, NEW g \in Groups, Exec(c, g)
        PROVE  UNCHANGED <<reports, outbox, statBatch>>
    BY <2>3 DEF Exec
  <2>7. ASSUME NEW c \in Replicas, Submits(c) PROVE UNCHANGED <<reports, outbox, statBatch>>
    BY <2>0, <2>7, Submitted
  <2>4. ASSUME NEW c \in Replicas, Commit(c)
        PROVE  Store!Next \/ UNCHANGED <<reports, outbox, statBatch>>
    <3>1. \/ /\ reports' = Committed(c) /\ outbox' = outbox \union Enqueued(c)
             /\ statBatch' \in {statBatch, [statBatch EXCEPT ![c] = <<>>]}
          \/ UNCHANGED <<reports, outbox, statBatch>>
      BY <2>4 DEF Commit
    <3>2. \/ Store!Save(c)
          \/ UNCHANGED <<reports, outbox, statBatch>>
      BY <2>0, <2>4, <3>1, CommitIsWhole DEF Store!Save
    <3> QED BY <3>2 DEF Store!Next
  <2>5. ASSUME NEW c \in Replicas, Crash(c) PROVE Store!Next
    <3>1. Store!Forget(c)
      BY <2>5 DEF Crash, Store!Forget
    <3> QED BY <3>1 DEF Store!Next
  <2>6. CASE UNCHANGED vars
    BY <2>6 DEF vars
  <2> QED BY <2>1, <2>2, <2>3, <2>4, <2>5, <2>6, <2>7, NextCases
<1>5. Inv => TypeOK
  BY DEF Inv
<1> QED
  BY <1>1, <1>2, <1>3, <1>4, <1>5, ReportsInvariant, PTL DEF Spec, ImplementsStore, Store!Spec
==============================================================================
