------------------------------ MODULE PgClaim ------------------------------
(***************************************************************************)
(* The selection both work tables of the service share:                    *)
(*                                                                         *)
(*    SELECT id ... ORDER BY created_at LIMIT n FOR UPDATE SKIP LOCKED     *)
(*                                                                         *)
(* used inside an UPDATE (scrape_tasks in GetScrapeTasks, outbox in        *)
(* FetchPendingOutboxMessages).  The statement is one transaction; rows    *)
(* another transaction holds are skipped, which is the same outcome as     *)
(* running the two statements one after the other, so a claim is one step. *)
(***************************************************************************)
EXTENDS Naturals, FiniteSets

(***************************************************************************)
(* The sets the statement may return from the eligible rows S: `limit'     *)
(* rows, or all of them when there are fewer, and no row left out is older *)
(* than a row taken.  Rows with the same created_at come in any order.     *)
(***************************************************************************)
OldestFirst(S, limit, createdAt) ==
  {P \in SUBSET S :
     /\ Cardinality(P) = IF Cardinality(S) <= limit THEN Cardinality(S) ELSE limit
     /\ \A p \in P, q \in S \ P : createdAt[p] <= createdAt[q]}

============================================================================
