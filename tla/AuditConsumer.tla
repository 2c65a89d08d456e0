--------------------------- MODULE AuditConsumer ---------------------------
(***************************************************************************)
(* services/audit-consumer: reads the audit topic and inserts its events   *)
(* into Postgres in batches.  One partition of the topic; offsets count    *)
(* from 1.  An event is                                                    *)
(*   "ok"      a row can be inserted for it,                               *)
(*   "bad"     its JSON does not parse, and insertBatch skips it,          *)
(*   "poison"  it parses and Postgres rejects its row (no such tenant id,  *)
(*             no partition for its month), which fails the transaction.   *)
(* The reader and the topic are kafka-go's and external.                   *)
(***************************************************************************)
EXTENDS Naturals, Sequences, FiniteSets, FiniteSetsExt

CONSTANTS
  Kinds,       \* the kinds of event that occur
  BatchSize,
  MaxLog,      \* bound on the events published
  MaxFailures, \* bound on batches Postgres fails for reasons of its own
  MaxRestarts  \* bound on restarts and rebalances

ASSUME BatchSizeAssumption == BatchSize \in Nat \ {0}
ASSUME BoundsAssumption == MaxLog \in Nat /\ MaxFailures \in Nat /\ MaxRestarts \in Nat

VARIABLES
  log,        \* the topic
  position,   \* offset of the last message fetched
  batch,      \* offsets fetched and not flushed
  committed,  \* the group's committed offset
  rows,       \* how many rows of audit_log each offset has
  failures, restarts

auditVars == <<log, position, batch, committed, rows, failures, restarts>>

AuditTypeOK ==
  /\ log \in Seq(Kinds)
  /\ position \in 0..Len(log) /\ committed \in 0..position
  /\ batch \subseteq 1..position /\ Cardinality(batch) < BatchSize
  /\ rows \in [1..MaxLog -> Nat]
  /\ failures \in 0..MaxFailures /\ restarts \in 0..MaxRestarts

AuditInit ==
  /\ log = <<>>
  /\ position = 0 /\ batch = {} /\ committed = 0
  /\ rows = [i \in 1..MaxLog |-> 0]
  /\ failures = 0 /\ restarts = 0

-----------------------------------------------------------------------------
Publish ==
  /\ Len(log) < MaxLog
  /\ \E kind \in Kinds : log' = Append(log, kind)
  /\ UNCHANGED <<position, batch, committed, rows, failures, restarts>>

(* A slip: the INSERT without ON CONFLICT DO NOTHING.                      *)
InsertedAgain(b) ==
  [i \in 1..MaxLog |-> IF i \in b /\ log[i] = "ok" THEN rows[i] + 1 ELSE rows[i]]

(* The rows once the transaction for batch b has committed.                *)
Inserted(b) ==
  [i \in 1..MaxLog |-> IF i \in b /\ log[i] = "ok" /\ rows[i] = 0 THEN 1 ELSE rows[i]]

(* All of the batch is inserted, or none of it.                            *)
insertBatch(b) ==
  \/ /\ \A i \in b : log[i] # "poison"
     /\ rows' = Inserted(b)
     /\ UNCHANGED failures
  \/ /\ \E i \in b : log[i] = "poison"
     /\ UNCHANGED <<rows, failures>>
  \/ /\ failures < MaxFailures
     /\ failures' = failures + 1
     /\ UNCHANGED rows

(* The batch is emptied whether or not it could be inserted.               *)
flush(b) == insertBatch(b) /\ batch' = {}

(* A slip, and the evident intent: the batch is committed before it is     *)
(* emptied, even when it could not be inserted.                            *)
CommitFetched(b) == committed' = position'

(* Run passes the batch to CommitMessages after flush has emptied it, and  *)
(* committing no messages commits nothing.                                 *)
CommitMessages(b) == committed' = IF b = {} THEN committed ELSE Max(b)

(* One turn of the loop's default case.                                    *)
Fetch ==
  /\ position < Len(log)
  /\ position' = position + 1
  /\ LET b == batch \union {position'}
     IN  IF Cardinality(b) >= BatchSize
         THEN flush(b) /\ CommitMessages(batch')
         ELSE batch' = b /\ UNCHANGED <<rows, committed, failures>>
  /\ UNCHANGED <<log, restarts>>

(* A slip: the ticker only flushes a full batch.                           *)
TickerFull ==
  /\ Cardinality(batch) >= BatchSize
  /\ flush(batch)
  /\ UNCHANGED <<log, position, committed, restarts>>

(* The ticker's case.                                                      *)
Ticker ==
  /\ batch # {}
  /\ flush(batch)
  /\ UNCHANGED <<log, position, committed, restarts>>

(* The process stops and starts again at the committed offset.  On a clean *)
(* shutdown it returns at once, or calls flush with a cancelled context,   *)
(* so that the batch in memory is lost either way.                         *)
Restart ==
  /\ restarts < MaxRestarts
  /\ restarts' = restarts + 1
  /\ position' = committed
  /\ batch' = {}
  /\ UNCHANGED <<log, committed, rows, failures>>

Run == Fetch \/ Ticker

AuditNext == Publish \/ Run \/ Restart

AuditSpec == AuditInit /\ [][AuditNext]_auditVars

(* The loop of Run never stops: messages are fetched and the ticker fires. *)
AuditFairSpec == AuditSpec /\ WF_auditVars(Fetch) /\ WF_auditVars(Ticker)

-----------------------------------------------------------------------------
(* "Unique index on kafka_offset per partition for at-least-once           *)
(* deduplication" (003_audit_log.sql:48): replaying the topic after a      *)
(* restart adds no second row, and only parsed events have a row.          *)
StoredOnce ==
  \A i \in 1..MaxLog : rows[i] <= 1 /\ (rows[i] = 1 => i <= Len(log) /\ log[i] = "ok")

(* No event is lost to a restart: one that could be stored and was not is  *)
(* fetched again, because its offset is not committed.                     *)
UnstoredIsReplayed ==
  \A i \in 1..Len(log) : log[i] = "ok" /\ rows[i] = 0 => i > committed

(* While Postgres rejects nothing every event is stored, the last partial  *)
(* batch and events in memory at a restart included (consumer.go:73).      *)
StoredUnlessRejected ==
  \A i \in 1..MaxLog :
    (i <= Len(log) /\ log[i] = "ok")
      ~> (rows[i] = 1 \/ failures > 0 \/ \E k \in 1..Len(log) : log[k] = "poison")

(* "consumes from the audit Kafka topic and sinks events to Postgres in    *)
(* batches" (consumer.go:32): every event that can be stored is stored.    *)
EventuallyStored ==
  \A i \in 1..MaxLog : (i <= Len(log) /\ log[i] = "ok") ~> rows[i] = 1

=============================================================================
