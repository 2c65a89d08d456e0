---------------------------- MODULE OutboxWorker ----------------------------
(***************************************************************************)
(* The transactional outbox and its relay, services/outbox-worker.         *)
(*                                                                         *)
(* event_outbox is an append-only table; a row's id is its place in the    *)
(* sequence outbox, and sent is the set of ids whose sent_at is set.       *)
(* Every replica of the worker runs processBatch on each tick: in one      *)
(* transaction it locks the lowest pending rows that nobody else holds,    *)
(* writes each to Kafka, marks it sent, and commits.  log is one partition *)
(* of the topic: the ids in the order the broker appended them.  A tenant  *)
(* is the message key, so all its events are in one partition.             *)
(***************************************************************************)
EXTENDS Integers, FiniteSets, Sequences

CONSTANTS
  Payloads,      \* what a row may carry
  TenantOf,      \* the tenant a payload belongs to
  Workers,       \* replicas of the worker
  Batch,         \* rows fetched by one transaction (the LIMIT)
  MaxRows,       \* bound: rows ever inserted
  MaxRollbacks   \* bound: failed or interrupted transactions

ASSUME BatchAssumption == Batch \in Nat \ {0}
ASSUME BoundAssumption == MaxRows \in Nat /\ MaxRollbacks \in Nat

VARIABLES
  outbox,     \* the rows ever inserted
  sent,       \* ids with a committed sent_at
  log,        \* the partition: ids in append order
  pc,         \* where each worker is in processBatch
  todo,       \* rows locked by the worker and not yet marked
  marked,     \* rows marked sent in the worker's open transaction
  rollbacks   \* transactions rolled back so far

vars == <<outbox, sent, log, pc, todo, marked, rollbacks>>

Ids == 1 .. Len(outbox)
Published == {log[k] : k \in 1 .. Len(log)}
Held(w) == todo[w] \union marked[w]

TypeOK ==
  /\ outbox \in Seq(Payloads)
  /\ sent \in SUBSET Ids
  /\ log \in Seq(Ids)
  /\ pc \in [Workers -> {"idle", "publish", "mark", "commit"}]
  /\ todo \in [Workers -> SUBSET Ids]
  /\ marked \in [Workers -> SUBSET Ids]
  /\ rollbacks \in Nat

Init ==
  /\ outbox = <<>>
  /\ sent = {}
  /\ log = <<>>
  /\ pc = [w \in Workers |-> "idle"]
  /\ todo = [w \in Workers |-> {}]
  /\ marked = [w \in Workers |-> {}]
  /\ rollbacks = 0

-----------------------------------------------------------------------------
(* A transaction that changes the configuration commits its event row.     *)
Insert(p) ==
  /\ Len(outbox) < MaxRows
  /\ outbox' = Append(outbox, p)
  /\ UNCHANGED <<sent, log, pc, todo, marked, rollbacks>>

(* Slips of the query: no row locks, no test of sent_at, no ORDER BY.      *)
UnlockedWithoutLocks == Ids \ sent
UnlockedWithSent == {i \in Ids : \A v \in Workers : i \notin Held(v)}
AnyOf(S, n) == {T \in SUBSET S : Cardinality(T) <= n}

(* The rows a transaction can see as pending and lock.                     *)
Unlocked == {i \in Ids \ sent : \A v \in Workers : i \notin Held(v)}

(* The lowest n members of a set of ids.                                   *)
Lowest(S, n) ==
  {T \in SUBSET S : /\ Cardinality(T) = IF Cardinality(S) < n THEN Cardinality(S) ELSE n
                    /\ \A i \in T : \A j \in S \ T : i < j}

(* Begin, then SELECT ... WHERE sent_at IS NULL ORDER BY id LIMIT Batch    *)
(* FOR UPDATE SKIP LOCKED.  With no row to take the handler returns.       *)
Fetch(w) ==
  /\ pc[w] = "idle"
  /\ \E rows \in Lowest(Unlocked, Batch) :
       /\ rows # {}
       /\ todo' = [todo EXCEPT ![w] = rows]
  /\ pc' = [pc EXCEPT ![w] = "publish"]
  /\ UNCHANGED <<outbox, sent, log, marked, rollbacks>>

(* The row the loop is at: rows are handled in id order.                   *)
IsNext(w, i) == i \in todo[w] /\ \A j \in todo[w] : i <= j

(* A slip: a write error is ignored.                                       *)
PublishIgnoringError(w) ==
  /\ pc[w] = "publish"
  /\ \E i \in Ids : IsNext(w, i) /\ log' \in {log, Append(log, i)}
  /\ pc' = [pc EXCEPT ![w] = "mark"]
  /\ UNCHANGED <<outbox, sent, todo, marked, rollbacks>>

(* WriteMessages of that row, acknowledged by the broker.                  *)
Publish(w) ==
  /\ pc[w] = "publish"
  /\ \E i \in Ids : IsNext(w, i) /\ log' = Append(log, i)
  /\ pc' = [pc EXCEPT ![w] = "mark"]
  /\ UNCHANGED <<outbox, sent, todo, marked, rollbacks>>

(* MarkEventSent of the row just written, inside the transaction.          *)
Mark(w) ==
  /\ pc[w] = "mark"
  /\ \E i \in Ids :
       /\ IsNext(w, i)
       /\ todo' = [todo EXCEPT ![w] = @ \ {i}]
       /\ marked' = [marked EXCEPT ![w] = @ \union {i}]
  /\ pc' = [pc EXCEPT ![w] = IF todo'[w] = {} THEN "commit" ELSE "publish"]
  /\ UNCHANGED <<outbox, sent, log, rollbacks>>

(* tx.Commit: the marks become visible and the row locks are released.     *)
Commit(w) ==
  /\ pc[w] = "commit"
  /\ sent' = sent \union marked[w]
  /\ marked' = [marked EXCEPT ![w] = {}]
  /\ pc' = [pc EXCEPT ![w] = "idle"]
  /\ UNCHANGED <<outbox, log, todo, rollbacks>>

(* A slip: the deferred rollback is missing, and the locks stay.           *)
NoRollback(w) ==
  /\ pc[w] # "idle"
  /\ rollbacks < MaxRollbacks
  /\ rollbacks' = rollbacks + 1
  /\ pc' = [pc EXCEPT ![w] = "idle"]
  /\ UNCHANGED <<outbox, sent, log, todo, marked>>

(* Any error return, a cancelled context and a crash end the same way: the *)
(* transaction is rolled back, its marks are lost, its locks released, and *)
(* what reached the broker stays there.  A write whose acknowledgement is  *)
(* lost is Publish followed by Rollback.  The next tick starts over.       *)
Rollback(w) ==
  /\ pc[w] # "idle"
  /\ rollbacks < MaxRollbacks
  /\ rollbacks' = rollbacks + 1
  /\ todo' = [todo EXCEPT ![w] = {}]
  /\ marked' = [marked EXCEPT ![w] = {}]
  /\ pc' = [pc EXCEPT ![w] = "idle"]
  /\ UNCHANGED <<outbox, sent, log>>

Step(w) == Fetch(w) \/ Publish(w) \/ Mark(w) \/ Commit(w)

Next ==
  \/ \E p \in Payloads : Insert(p)
  \/ \E w \in Workers : Step(w) \/ Rollback(w)

Spec == Init /\ [][Next]_vars

(* A replica's ticker keeps firing and a crashed replica is restarted, so  *)
(* a worker that can take a step of processBatch eventually takes it.      *)
FairSpec == Spec /\ \A w \in Workers : WF_vars(Step(w))

-----------------------------------------------------------------------------
(* SKIP LOCKED: concurrent replicas never work on the same row, and a row  *)
(* already committed as sent is in nobody's hands (worker.go:68).          *)
LockExclusive ==
  \A w \in Workers :
    /\ Held(w) \cap sent = {}
    /\ \A v \in Workers \ {w} : Held(w) \cap Held(v) = {}

(* At least once: a row is committed as sent only after the broker has     *)
(* acknowledged its message, whatever fails or crashes in between, so no   *)
(* event is lost between the table and the topic (worker.go:88-103).       *)
SentIsPublished == sent \subseteq Published

(* A row committed as sent is never written to the topic again: duplicates *)
(* come only from transactions that did not commit.                        *)
NeverRepublished ==
  [][\A w \in Workers : Publish(w) => log'[Len(log')] \notin sent]_vars

(* "Partition by tenant so all events for a tenant are ordered"            *)
(* (worker.go:83): when an event is in the topic, so is every earlier      *)
(* event of its tenant.  As this holds at every step, events first appear  *)
(* in the order they were inserted.                                        *)
TenantOrder ==
  \A j \in Published : \A i \in 1 .. j :
    TenantOf[outbox[i]] = TenantOf[outbox[j]] => i \in Published

(* Every committed row is eventually committed as sent, once transactions  *)
(* stop failing: the queue drains whatever was rolled back before.         *)
EventuallySent == \A i \in 1 .. MaxRows : i \in Ids ~> i \in sent

-----------------------------------------------------------------------------
(* The relay implements at-least-once delivery of the rows: every step of  *)
(* every replica is an acceptance, a delivery of an unacknowledged event,  *)
(* an acknowledgement of delivered ones, or invisible.                     *)
Relay == INSTANCE AtLeastOnce
           WITH Events <- 1 .. MaxRows, accepted <- Ids,
                delivered <- Published, acked <- sent
ImplementsAtLeastOnce == Relay!Spec

=============================================================================
