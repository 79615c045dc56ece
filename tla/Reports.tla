------------------------------- MODULE Reports -------------------------------
(***************************************************************************)
(* The tables reports, outbox and target_groups, the flushes that fill     *)
(* them (internal/storage/postgres/reports.go, target_groups.go) and the   *)
(* reads that join them (target_groups_read.go).                           *)
(*                                                                         *)
(* Here SaveReports is what TaskConsumer takes as one step: a transaction  *)
(* of one upsert per report.  An upsert locks its row until the end of the *)
(* transaction, and waits for the row if another replica has locked it.    *)
(* The saves of two replicas interleave, may wait for each other in a      *)
(* circle, and fail at any statement.                                      *)
(***************************************************************************)
EXTENDS Naturals, Sequences, PgBatch

CONSTANTS
  Replicas,
  Groups,        \* target groups: the keys (target_group, env, cluster)
  Refused,       \* the reports the database does not take
  BatchSize,     \* batchSize
  RowsPerBatch,  \* rowsPerBatch: rows one sendBatch writes
  None,          \* no row, no lock
  MaxScrapes     \* bound: results the workers of a replica deliver

(* A report; by says which replica made it, seq which of its scrapes it is of. *)
Report == [group : Groups, seq : Nat, by : Replicas]

ASSUME ReportsAssumption ==
  /\ Refused \subseteq Report
  /\ BatchSize \in Nat \ {0} /\ RowsPerBatch \in Nat \ {0}
  /\ MaxScrapes \in Nat /\ MaxFaults \in Nat
  /\ None \notin Replicas \union Report

VARIABLES
  reports,       \* the table reports: per group its row, or None
  outbox,        \* the table outbox: the reports whose events it has
  targetGroups,  \* the table target_groups
  locks,         \* per row of reports: the replica whose transaction has locked it, or None
  stage, flush,  \* per replica: where its consumer loop is, and which flush it is in
  statBatch,     \* per replica: the reports to be saved, in the order of their arrival
  groupBatch,    \* per replica: the target groups to be saved, in that order
  next,          \* per replica: the report its transaction comes to next, or the target
                 \* groups its call has sent
  written,       \* per replica: the rows its transaction has written
  scrapes,       \* per replica: results its workers have delivered
  failing,       \* history: replicas whose last save of the batch failed
  latest,        \* history, per replica and group: its last scrape since it started, or 0
  lost,          \* history: groups of which a crash has forgotten a result
  dropped        \* history: groups that only seemed to be saved

tables == <<reports, outbox, targetGroups, dropped>>
transaction == <<locks, next, written>>
batches == <<statBatch, groupBatch>>
vars == <<tables, transaction, stage, flush, batches, scrapes, faults, failing, latest, lost>>

Stages == {"select", "submit", "tx", "groups"}

BatchesTypeOK ==
  /\ statBatch \in [Replicas -> Seq(Report)]
  /\ groupBatch \in [Replicas -> Seq(Groups)]

TypeOK ==
  /\ BatchesTypeOK
  /\ reports \in [Groups -> Report \union {None}] /\ targetGroups \subseteq Groups
  /\ dropped \subseteq Groups /\ outbox \subseteq Report
  /\ locks \in [Groups -> Replicas \union {None}]
  /\ written \in [Replicas -> [Groups -> Report \union {None}]]
  /\ stage \in [Replicas -> Stages] /\ flush \in [Replicas -> {"result", "tick"}]
  /\ next \in [Replicas -> Nat]
  /\ scrapes \in [Replicas -> Nat] /\ faults \in Nat
  /\ latest \in [Replicas -> [Groups -> Nat]]
  /\ failing \subseteq Replicas /\ lost \subseteq Groups

NoRows == [g \in Groups |-> None]

Init ==
  /\ reports = NoRows /\ outbox = {} /\ targetGroups = {} /\ dropped = {}
  /\ locks = NoRows
  /\ stage = [c \in Replicas |-> "select"] /\ flush = [c \in Replicas |-> "tick"]
  /\ statBatch = [c \in Replicas |-> <<>>] /\ groupBatch = [c \in Replicas |-> <<>>]
  /\ next = [c \in Replicas |-> 0]
  /\ written = [c \in Replicas |-> NoRows]
  /\ scrapes = [c \in Replicas |-> 0] /\ faults = 0
  /\ failing = {} /\ lost = {}
  /\ latest = [c \in Replicas |-> [g \in Groups |-> 0]]

Goto(c, place) == stage' = [stage EXCEPT ![c] = place]

----------------------------------------------------------------------------
(* Mutant: a batch is full when it has outgrown batchSize. *)
DueOffByOne(kind, batch) == Len(batch) > IF kind = "result" THEN BatchSize ELSE 0

(* len(batch) >= batchSize after a result, len(batch) > 0 otherwise. *)
Due(kind, batch) == Len(batch) >= IF kind = "result" THEN BatchSize ELSE 1

(* A flush of the given kind begins with the reports, if they are due. *)
Flush(c, kind) ==
  /\ flush' = [flush EXCEPT ![c] = kind]
  /\ IF Due(kind, statBatch'[c])
     THEN Goto(c, "tx") /\ next' = [next EXCEPT ![c] = 1]
     ELSE Goto(c, "groups") /\ UNCHANGED next

(* A result goes to the batches, and full ones are saved. *)
ReceiveResult(c, g) ==
  /\ stage[c] = "select"
  /\ scrapes[c] < MaxScrapes /\ scrapes' = [scrapes EXCEPT ![c] = @ + 1]
  /\ latest' = [latest EXCEPT ![c][g] = scrapes'[c]]
  /\ statBatch' = [statBatch EXCEPT ![c] = Append(@, [group |-> g, seq |-> scrapes'[c], by |-> c])]
  /\ groupBatch' = [groupBatch EXCEPT ![c] = Append(@, g)]
  /\ Flush(c, "result")
  /\ UNCHANGED <<tables, locks, written, faults, failing, lost>>

FlushTick(c) ==
  /\ stage[c] = "select"
  /\ statBatch[c] # <<>> \/ groupBatch[c] # <<>>
  /\ UNCHANGED statBatch
  /\ Flush(c, "tick")
  /\ UNCHANGED <<tables, locks, written, groupBatch, scrapes, faults, failing, latest, lost>>

(* case <-taskTicker.C: Run submits the tasks it has claimed ... *)
TaskTick(c) ==
  /\ stage[c] = "select" /\ Goto(c, "submit")
  /\ UNCHANGED <<tables, transaction, flush, batches, scrapes, faults, failing, latest, lost>>

(* ... and comes back from Submit, unless it blocks there for good (TaskConsumer). *)
SubmitReturns(c) ==
  /\ stage[c] = "submit" /\ Goto(c, "select")
  /\ UNCHANGED <<tables, transaction, flush, batches, scrapes, faults, failing, latest, lost>>

----------------------------------------------------------------------------
(* SaveReports *)

Unlocked(c) == [g \in Groups |-> IF locks[g] = c THEN None ELSE locks[g]]

(* Mutant: the transaction that has failed stays open. *)
RollbackNever(c) ==
  /\ UNCHANGED locks
  /\ next' = [next EXCEPT ![c] = 0]
  /\ written' = [written EXCEPT ![c] = NoRows]

(* The transaction is over: its locks and its rows go. *)
Rollback(c) ==
  /\ locks' = Unlocked(c)
  /\ next' = [next EXCEPT ![c] = 0]
  /\ written' = [written EXCEPT ![c] = NoRows]

InTx(c) == stage[c] = "tx" /\ next[c] \in DOMAIN statBatch[c]
Current(c) == statBatch[c][next[c]]

(* Mutant: of two reports of a group in one batch the first is kept. *)
saveReportsSQLDoNothing(c) ==
  written' = [written EXCEPT ![c][Current(c).group] = IF @ = None THEN Current(c) ELSE @]

(* The row becomes the current report, whatever it was before. *)
saveReportsSQL(c) == written' = [written EXCEPT ![c][Current(c).group] = Current(c)]

(* Mutant: the upsert goes through the pool, and not through the transaction. *)
ExecOutsideTx(c, g) ==
  /\ InTx(c) /\ Current(c).group = g /\ Current(c) \notin Refused
  /\ locks[g] \in {None, c} /\ locks' = [locks EXCEPT ![g] = c]
  /\ saveReportsSQL(c)
  /\ reports' = [reports EXCEPT ![g] = Current(c)]
  /\ next' = [next EXCEPT ![c] = @ + 1]
  /\ UNCHANGED <<outbox, targetGroups, dropped, stage, flush, batches, scrapes, faults, failing, latest, lost>>

(* One upsert, once its row g is free, with its events. *)
Exec(c, g) ==
  /\ InTx(c) /\ Current(c).group = g /\ Current(c) \notin Refused
  /\ locks[g] \in {None, c} /\ locks' = [locks EXCEPT ![g] = c]
  /\ saveReportsSQL(c)
  /\ next' = [next EXCEPT ![c] = @ + 1]
  /\ UNCHANGED <<tables, stage, flush, batches, scrapes, faults, failing, latest, lost>>

(* The row c waits for is in the hands of another replica. *)
WaitsFor(c) == locks[Current(c).group]
Waits(c) == InTx(c) /\ WaitsFor(c) \notin {None, c}

(* c waits in a circle: Postgres ends the transaction of one of them. *)
Deadlocked(c) ==
  \E S \in SUBSET Replicas :
    /\ c \in S /\ \A d \in S : Waits(d)
    /\ S = {WaitsFor(d) : d \in S}

(* The reports whose events the open transaction of c has inserted. *)
Enqueued(c) == {statBatch[c][i] : i \in {j \in DOMAIN statBatch[c] : j < next[c]}}

(* Mutant: the events are inserted outside the transaction, and survive it. *)
ExecFailsLeaking(c) ==
  /\ InTx(c) /\ Goto(c, "groups")
  /\ \/ Current(c) \in Refused /\ UNCHANGED faults
     \/ Deadlocked(c) /\ UNCHANGED faults
     \/ Fault
  /\ outbox' = outbox \union Enqueued(c)
  /\ Rollback(c)
  /\ failing' = failing \union {c}
  /\ UNCHANGED <<reports, targetGroups, dropped, flush, batches, scrapes, latest, lost>>

(* Acquire, Begin or a statement fails: the deferred Rollback runs, and the batch is kept. *)
ExecFails(c) ==
  /\ InTx(c) /\ Goto(c, "groups")
  /\ \/ Current(c) \in Refused /\ UNCHANGED faults
     \/ Deadlocked(c) /\ UNCHANGED faults
     \/ Fault
  /\ Rollback(c)
  /\ failing' = failing \union {c}
  /\ UNCHANGED <<tables, flush, batches, scrapes, latest, lost>>

Committed(c) == [g \in Groups |-> IF written[c][g] # None THEN written[c][g] ELSE reports[g]]

(* Mutant: the batch is dropped whatever Commit says. *)
CommitForgetful(c) ==
  /\ stage[c] = "tx" /\ next[c] = Len(statBatch[c]) + 1 /\ Goto(c, "groups")
  /\ statBatch' = [statBatch EXCEPT ![c] = <<>>]
  /\ \/ /\ reports' = Committed(c) /\ outbox' = outbox \union Enqueued(c)
        /\ failing' = failing \ {c} /\ UNCHANGED faults
     \/ /\ Fault /\ failing' = failing \union {c}
        /\ \/ reports' = Committed(c) /\ outbox' = outbox \union Enqueued(c)
           \/ UNCHANGED <<reports, outbox>>
  /\ Rollback(c)
  /\ UNCHANGED <<targetGroups, dropped, flush, groupBatch, scrapes, latest, lost>>

(* The commit succeeds, or reports an error, with or without effect. *)
Commit(c) ==
  /\ stage[c] = "tx" /\ next[c] = Len(statBatch[c]) + 1 /\ Goto(c, "groups")
  /\ \/ /\ reports' = Committed(c) /\ outbox' = outbox \union Enqueued(c)
        /\ statBatch' = [statBatch EXCEPT ![c] = <<>>]
        /\ failing' = failing \ {c}
        /\ UNCHANGED faults
     \/ /\ Fault
        /\ \/ reports' = Committed(c) /\ outbox' = outbox \union Enqueued(c)
           \/ UNCHANGED <<reports, outbox>>
        /\ failing' = failing \union {c}
        /\ UNCHANGED statBatch
  /\ Rollback(c)
  /\ UNCHANGED <<targetGroups, dropped, flush, groupBatch, scrapes, latest, lost>>

----------------------------------------------------------------------------
(* Mutant: the positions in the batch are taken for its groups. *)
GroupsInByIndex(batch) == DOMAIN batch

GroupsIn(batch) == {batch[i] : i \in DOMAIN batch}

ReportedIn(batch) == {batch[i].group : i \in DOMAIN batch}

(* The rows of the next sendBatch. *)
Chunk(c) == {i \in DOMAIN groupBatch[c] : next[c] < i /\ i <= next[c] + RowsPerBatch}

(* SaveOrUpdateTargetGroups returns. *)
GroupsSaved(c) == Goto(c, "select") /\ next' = [next EXCEPT ![c] = 0]

(***************************************************************************)
(* The upserts go in order, a sendBatch for every chunk.  An error ends    *)
(* the call, and the batch is kept; deadlocks with another replica are     *)
(* repeated within sendBatch; rows that are not committed although it      *)
(* returned nil go with the batch.                                         *)
(***************************************************************************)
SaveOrUpdateTargetGroups(c) ==
  /\ stage[c] = "groups"
  /\ \/ /\ ~Due(flush[c], groupBatch[c])
        /\ GroupsSaved(c)
        /\ UNCHANGED <<targetGroups, dropped, groupBatch, faults>>
     \/ /\ Due(flush[c], groupBatch[c])
        /\ \E err, committed \in BOOLEAN :
             LET rows == {groupBatch[c][i] : i \in Chunk(c)}
                 last == next[c] + RowsPerBatch >= Len(groupBatch[c])
             IN  /\ sendBatch(err, committed)
                 /\ targetGroups' = IF committed THEN targetGroups \union rows ELSE targetGroups
                 /\ dropped' = IF err \/ committed THEN dropped ELSE dropped \union rows
                 /\ IF err \/ last
                    THEN GroupsSaved(c)
                    ELSE next' = [next EXCEPT ![c] = @ + RowsPerBatch] /\ UNCHANGED stage
                 /\ groupBatch' = IF err \/ ~last THEN groupBatch ELSE [groupBatch EXCEPT ![c] = <<>>]
  /\ UNCHANGED <<reports, outbox, locks, written, flush, statBatch, scrapes, failing, latest, lost>>

(* The replica dies, and starts again with empty batches; its session is rolled back. *)
(* A replica that is stopped flushes as on a tick before.                            *)
Crash(c) ==
  /\ Fault
  /\ lost' = lost \union ReportedIn(statBatch[c]) \union GroupsIn(groupBatch[c])
  /\ statBatch' = [statBatch EXCEPT ![c] = <<>>]
  /\ groupBatch' = [groupBatch EXCEPT ![c] = <<>>]
  /\ Rollback(c) /\ Goto(c, "select")
  /\ failing' = failing \ {c}
  /\ latest' = [latest EXCEPT ![c] = [g \in Groups |-> 0]]
  /\ UNCHANGED <<tables, flush, scrapes>>

Save(c) == (\E g \in Groups : Exec(c, g)) \/ ExecFails(c) \/ Commit(c) \/ SaveOrUpdateTargetGroups(c)

Next ==
  \E c \in Replicas :
    \/ \E g \in Groups : ReceiveResult(c, g)
    \/ FlushTick(c) \/ TaskTick(c) \/ SubmitReturns(c) \/ Save(c) \/ Crash(c)

Spec == Init /\ [][Next]_vars

(***************************************************************************)
(* Fairness: a storage call returns, a statement that waits for a row gets *)
(* it when it is given back again and again (Postgres queues the waiters), *)
(* and the select of the loop does not pass its ticker over for ever.      *)
(* Nothing is assumed about Submit.                                        *)
(***************************************************************************)
Fairness ==
  \A c \in Replicas :
    /\ WF_vars(Save(c)) /\ SF_vars(FlushTick(c))
    /\ \A g \in Groups : SF_vars(Exec(c, g))

FairSpec == Spec /\ Fairness

----------------------------------------------------------------------------
(* target_groups LEFT JOIN reports *)
scanTargetGroupWithReport(g) == [name |-> g, hasReport |-> reports[g] # None, report |-> reports[g]]
ListTargetGroups == {scanTargetGroupWithReport(g) : g \in targetGroups}

(***************************************************************************)
(* However saves fail and retry, the API shows a group without a report    *)
(* only while the report waits in a batch or because its replica died, and *)
(* a stored report is invisible for want of its group only for the same    *)
(* reasons (ListTargetGroups, over two tables that are saved apart), or    *)
(* because the end of a sendBatch failed, which its caller is not told.    *)
(***************************************************************************)
ReadsAreComplete ==
  /\ \A row \in ListTargetGroups :
       row.hasReport \/ row.name \in lost \/ \E c \in Replicas : row.name \in ReportedIn(statBatch[c])
  /\ \A g \in Groups \ targetGroups :
       reports[g] = None \/ g \in lost \union dropped \/ \E c \in Replicas : g \in GroupsIn(groupBatch[c])

(***************************************************************************)
(* A retry never brings back an old report over a newer one of the same    *)
(* replica: the row of a group is the newest report that the replica it    *)
(* comes from has made of it, or that one is still in its batch            *)
(* (saveReportsSQL keeps the report saved last, not the one scraped last). *)
(***************************************************************************)
NewestOfItsReplica ==
  \A g \in Groups :
    reports[g] # None =>
      LET c == reports[g].by
      IN  \/ reports[g].seq >= latest[c][g]
          \/ \E i \in DOMAIN statBatch[c] :
               statBatch[c][i].group = g /\ statBatch[c][i].seq = latest[c][g]

(***************************************************************************)
(* A report and its events are committed together or not at all, however   *)
(* often the transaction fails and is retried: a stored report has its     *)
(* events in the outbox, and no event tells of a report that was never     *)
(* stored, or is newer than the stored one of its replica (SaveReports     *)
(* inserts the events within its transaction).                             *)
(***************************************************************************)
EventsFollowReports ==
  /\ \A g \in Groups : reports[g] # None => reports[g] \in outbox
  /\ \A r \in outbox :
       LET row == reports[r.group]
       IN  row # None /\ (row.by = r.by => r.seq <= row.seq)

(***************************************************************************)
(* Between two flushes a batch is full, and so grows beyond batchSize with *)
(* the next result, only while its saves fail: a refused report, a         *)
(* deadlock or a fault since it was last saved (the flush after every      *)
(* result in TaskConsumer.Run).                                            *)
(***************************************************************************)
GrowsOnlyByFailure ==
  \A c \in Replicas : stage[c] \in {"select", "submit"} /\ Len(statBatch[c]) >= BatchSize => c \in failing

Store == INSTANCE ReportStore WITH pending <- statBatch

(***************************************************************************)
(* A save of reports is one step for everybody else: though transactions   *)
(* of several replicas interleave over the same rows, fail half way and    *)
(* are repeated, the tables only ever change by a whole batch, as if it    *)
(* were written alone, and never by a batch with a refused report          *)
(* (SaveReports; TaskConsumer takes it as the one step this allows).       *)
(***************************************************************************)
ImplementsStore == Store!Spec

Poisoned(c) == \E i \in DOMAIN statBatch[c] : statBatch[c][i] \in Refused

(***************************************************************************)
(* A batch is saved in the end unless it has a report the database refuses *)
(* or its replica never comes back from Submit: rolled back transactions   *)
(* give their rows back, a deadlock is got over, and the refused batch of  *)
(* another replica is in nobody's way, nor is a replica that is blocked    *)
(* (the deferred Rollback of SaveReports, the flushTicker of Run).         *)
(***************************************************************************)
BatchesAreSaved ==
  \A c \in Replicas :
    \/ statBatch[c] # <<>> ~> (statBatch[c] = <<>> \/ Poisoned(c))
    \/ <>[](stage[c] = "submit")
=============================================================================
