--------------------------- MODULE ConfigPipeline ---------------------------
(***************************************************************************)
(* The way of a configuration change from the control plane's database to  *)
(* the data plane: the outbox relay of OutboxWorker and the consumer of    *)
(* SnapshotConsumer around one partition of config.changes.  The topic the *)
(* consumer reads is made of the payloads of the rows the relay wrote.     *)
(***************************************************************************)
EXTENDS OutboxWorker

CONSTANTS Tenants, Items, Entries, NoEntry, NoSnapshot, MaxRestarts

VARIABLES position, committed, state, store, restarts, writeFailures

consumerVars == <<position, committed, state, store, restarts, writeFailures>>

Topic == [k \in 1 .. Len(log) |-> outbox[log[k]]]
Consumer ==
  INSTANCE SnapshotConsumer
    WITH log <- Topic, MaxLog <- MaxRows, MaxSequence <- MaxRows, MaxWriteFailures <- 0

PipelineInit ==
  /\ Init
  /\ position = 0 /\ committed = 0
  /\ state = [t \in Tenants |-> Consumer!NewTenant]
  /\ store = [t \in Tenants |-> NoSnapshot]
  /\ restarts = 0 /\ writeFailures = 0

pipelineVars == <<vars, consumerVars>>

RowsOf(t) == {i \in Ids : outbox[i].tenant = t}

(* "Monotonically increasing sequence number within the tenant"            *)
(* (config_event.proto:10): a row's event has the tenant's next number.    *)
Change(p) ==
  /\ p.sequence = Cardinality(RowsOf(p.tenant)) + 1
  /\ Insert(p)
  /\ UNCHANGED consumerVars

WorkerStep(w) == Step(w) /\ UNCHANGED consumerVars
WorkerRollback(w) == Rollback(w) /\ UNCHANGED consumerVars
ConsumerStep == UNCHANGED vars /\ Consumer!Receive
CommitStep == UNCHANGED vars /\ Consumer!CommitStored
RestartStep == UNCHANGED vars /\ Consumer!Restart

PipelineNext ==
  \/ \E p \in Payloads : Change(p)
  \/ \E w \in Workers : WorkerStep(w) \/ WorkerRollback(w)
  \/ ConsumerStep
  \/ CommitStep
  \/ RestartStep

(* Both processes run loops that an orchestrator restarts.                 *)
PipelineSpec ==
  /\ PipelineInit /\ [][PipelineNext]_pipelineVars
  /\ \A w \in Workers : WF_pipelineVars(WorkerStep(w))
  /\ WF_pipelineVars(ConsumerStep)

-----------------------------------------------------------------------------
(* What the database says an item is: the tenant's last change to it.      *)
Current(t, i) ==
  LET R == {r \in RowsOf(t) : outbox[r].item = i}
  IN  IF R = {} THEN NoEntry ELSE outbox[CHOOSE r \in R : \A q \in R : q <= r].entry

SnapshotEntry(t, i) == IF store[t] = NoSnapshot THEN NoEntry ELSE store[t].items[i]

(* Once changes stop, the data plane's snapshot of every tenant becomes    *)
(* what the database holds and stays so, through republished events, while *)
(* the consumer is not restarted (FullSnapshot is about its restarts).     *)
Converges ==
  <>[](restarts = 0 =>
         \A t \in Tenants, i \in Items : SnapshotEntry(t, i) = Current(t, i))

(* A snapshot shows only what the tenant was at some time configured to    *)
(* be: each item's entry is one of that tenant's own changes to it, even   *)
(* with restarts and replays.                                              *)
NothingInvented ==
  \A t \in Tenants, i \in Items :
    \/ SnapshotEntry(t, i) = NoEntry
    \/ \E r \in RowsOf(t) : outbox[r].item = i /\ outbox[r].entry = SnapshotEntry(t, i)

=============================================================================
