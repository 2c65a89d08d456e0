-------------------------- MODULE SnapshotConsumer --------------------------
(***************************************************************************)
(* crates/barqium-snapshot: the process that reads config.changes, keeps   *)
(* every tenant's routes and upstreams in memory, and after each event     *)
(* replaces the tenant's snapshot in shared memory, from which the data    *)
(* plane matches requests.                                                 *)
(*                                                                         *)
(* A message is a ConfigEvent (it changes one item, a route or an upstream *)
(* of one tenant, to an entry, or to NoEntry when it deletes it), or one   *)
(* the loop commits and passes over.  The in-memory map dies with the      *)
(* process; the snapshots and the committed offset do not.                 *)
(***************************************************************************)
EXTENDS Integers, Sequences, SequencesExt

CONSTANTS
  Tenants,
  Items,             \* route ids and upstream ids
  Entries,           \* what an item may be set to
  NoEntry,           \* the item is not in the map
  NoSnapshot,        \* no snapshot was ever written for the tenant
  MaxLog,            \* bound: messages ever produced
  MaxSequence,       \* bound: largest event sequence number
  MaxRestarts,       \* bound: restarts of the process
  MaxWriteFailures   \* bound: failed snapshot writes

ASSUME SnapshotBounds ==
  /\ MaxLog \in Nat /\ MaxSequence \in Nat
  /\ MaxRestarts \in Nat /\ MaxWriteFailures \in Nat
ASSUME NoEntryAssumption == NoEntry \notin Entries

VARIABLES
  log,        \* the partition, in append order
  position,   \* messages received by this incarnation's reader
  committed,  \* the offset the broker has stored for the group
  state,      \* in-memory TenantState of every tenant
  store,      \* the snapshot in shared memory of every tenant
  restarts, writeFailures

vars == <<log, position, committed, state, store, restarts, writeFailures>>

ConfigEvent ==
  [form : {"event"}, tenant : Tenants, sequence : 1 .. MaxSequence,
   item : Items, entry : Entries \union {NoEntry}]
BareEvent == [form : {"bare"}, tenant : Tenants, sequence : 1 .. MaxSequence]
Unreadable == [form : {"empty", "garbled"}]
Messages == ConfigEvent \union BareEvent \union Unreadable

TenantState == [sequence : 0 .. MaxSequence, items : [Items -> Entries \union {NoEntry}]]
NewTenant == [sequence |-> 0, items |-> [i \in Items |-> NoEntry]]

TypeOK ==
  /\ log \in Seq(Messages)
  /\ committed \in 0 .. Len(log)
  /\ position \in committed .. Len(log)
  /\ state \in [Tenants -> TenantState]
  /\ store \in [Tenants -> TenantState \union {NoSnapshot}]
  /\ restarts \in Nat /\ writeFailures \in Nat

Init ==
  /\ log = <<>> /\ position = 0 /\ committed = 0
  /\ state = [t \in Tenants |-> NewTenant]
  /\ store = [t \in Tenants |-> NoSnapshot]
  /\ restarts = 0 /\ writeFailures = 0

-----------------------------------------------------------------------------
(* A slip: deletions are not applied.                                      *)
applyWithoutDelete(s, e) ==
  [sequence |-> IF e.sequence > s.sequence THEN e.sequence ELSE s.sequence,
   items |-> IF e.form = "event" /\ e.entry # NoEntry
               THEN [s.items EXCEPT ![e.item] = e.entry] ELSE s.items]

(* TenantState::apply.  The sequence only grows; the payload is applied    *)
(* whatever the event's sequence.                                          *)
apply(s, e) ==
  [sequence |-> IF e.sequence > s.sequence THEN e.sequence ELSE s.sequence,
   items |-> IF e.form = "event" THEN [s.items EXCEPT ![e.item] = e.entry]
                                 ELSE s.items]

(* to_snapshot copies both maps: the snapshot is the state.                *)
to_snapshot(s) == s

(* A producer appends a message.                                           *)
Produce(m) ==
  /\ Len(log) < MaxLog
  /\ log' = Append(log, m)
  /\ UNCHANGED <<position, committed, state, store, restarts, writeFailures>>

Received == log[position + 1]

(* A message with no payload bytes, or one that does not decode: passed    *)
(* over, and committed like any other.                                     *)
PassOver ==
  /\ position < Len(log)
  /\ Received.form \in {"empty", "garbled"}
  /\ position' = position + 1
  /\ UNCHANGED <<log, committed, state, store, restarts, writeFailures>>

(* An event moves the reader; states is the memory after it, and snapshot  *)
(* the tenant's new snapshot if it is written.                             *)
ApplyTo(states, snapshot, written) ==
  /\ position < Len(log)
  /\ Received.form \in {"event", "bare"}
  /\ state' = states
  /\ store' = IF written THEN [store EXCEPT ![Received.tenant] = snapshot] ELSE store
  /\ position' = position + 1
  /\ writeFailures' = IF written THEN writeFailures ELSE writeFailures + 1
  /\ UNCHANGED <<log, committed, restarts>>

Applied == apply(state[Received.tenant], Received)

(* Slips: one map for all tenants; an event dropped from memory when its   *)
(* snapshot is not written.                                                *)
ApplyToAll(written) == ApplyTo([t \in Tenants |-> Applied], Applied, written)
ApplyIfWritten(written) ==
  ApplyTo(IF written THEN [state EXCEPT ![Received.tenant] = Applied] ELSE state,
          Applied, written)

(* An event is applied to the tenant's state and its snapshot replaced.  A *)
(* failed write is logged; the event stays applied and is committed.       *)
Apply(written) ==
  ApplyTo([state EXCEPT ![Received.tenant] = Applied], to_snapshot(Applied), written)

(* commit_message is asynchronous: the broker stores the offset later, or  *)
(* never if the process dies first.                                        *)
CommitStored ==
  /\ committed < position
  /\ committed' = position
  /\ UNCHANGED <<log, position, state, store, restarts, writeFailures>>

(* main starts with an empty map and the group's committed offset.         *)
Restart ==
  /\ restarts < MaxRestarts
  /\ restarts' = restarts + 1
  /\ position' = committed
  /\ state' = [t \in Tenants |-> NewTenant]
  /\ UNCHANGED <<log, committed, store, writeFailures>>

Receive ==
  \/ PassOver
  \/ Apply(TRUE)
  \/ writeFailures < MaxWriteFailures /\ Apply(FALSE)

Next ==
  \/ \E m \in Messages : Produce(m)
  \/ Receive
  \/ CommitStored
  \/ Restart

Spec == Init /\ [][Next]_vars

-----------------------------------------------------------------------------
(* Replaying messages b+1 .. k of the topic, from an empty state.          *)
Replay(t, b, k) ==
  LET Mine(m) == m.form \in {"event", "bare"} /\ m.tenant = t
  IN  FoldLeft(apply, NewTenant, SelectSeq(SubSeq(log, b + 1, k), Mine))

(* However the process restarts, whatever messages it passes over and      *)
(* whichever writes fail, a snapshot is always the replay of one unbroken  *)
(* run of the topic's messages: no event inside the run is missed, none is *)
(* applied to another tenant, and the run starts at a committed offset     *)
(* (consumer.rs:50-84 with main.rs:23).                                    *)
SnapshotIsReplay ==
  \A t \in Tenants : store[t] # NoSnapshot =>
    \E b \in 0 .. committed : \E k \in b .. Len(log) : store[t] = Replay(t, b, k)

(* "Full snapshot of active routes for one tenant" (barqium-config         *)
(* lib.rs:14): the snapshot has the effect of every message of the topic   *)
(* up to what the process has received, or up to a later one.              *)
FullSnapshot ==
  \A t \in Tenants : store[t] # NoSnapshot =>
    \E k \in position .. Len(log) : store[t].items = Replay(t, 0, k).items

=============================================================================
