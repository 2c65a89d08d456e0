------------------------- MODULE OutboxWorkerProofs -------------------------
(***************************************************************************)
(* The outbox relay, proved for any number of replicas, rows, failures and *)
(* any batch size.                                                         *)
(***************************************************************************)
EXTENDS OutboxWorker, TLAPS

(* What the loop of processBatch knows at each point: an idle worker holds *)
(* nothing, marks follow publications, and the row between its publication *)
(* and its mark is in the topic.                                           *)
LoopInv ==
  \A w \in Workers :
    /\ marked[w] \subseteq Published
    /\ pc[w] = "idle" => Held(w) = {}
    /\ pc[w] = "commit" => todo[w] = {}
    /\ pc[w] = "mark" => \A i \in Ids : IsNext(w, i) => i \in Published

IInv == TypeOK /\ LockExclusive /\ SentIsPublished /\ LoopInv

-----------------------------------------------------------------------------
(* Appending to the partition adds exactly that id to what is published.   *)
LEMMA PublishedAppend ==
  ASSUME NEW i \in Ids, TypeOK, log' = Append(log, i)
  PROVE  Published' = Published \union {i}
  <1>1. Len(log') = Len(log) + 1 /\ Len(log) \in Nat
    BY DEF TypeOK
  <1>2. \A k \in 1 .. Len(log) : log'[k] = log[k]
    BY DEF TypeOK
  <1>3. log'[Len(log) + 1] = i
    BY DEF TypeOK
  <1>4. ASSUME NEW x \in Published'
        PROVE  x \in Published \union {i}
    <2>1. PICK k \in 1 .. Len(log') : x = log'[k]
      BY DEF Published
    <2>2. CASE k = Len(log) + 1
      BY <2>1, <2>2, <1>3
    <2>3. CASE k # Len(log) + 1
      BY <2>1, <2>3, <1>1, <1>2 DEF Published
    <2> QED BY <2>2, <2>3
  <1>5. ASSUME NEW x \in Published \union {i}
        PROVE  x \in Published'
    <2>1. CASE x = i
      BY <2>1, <1>1, <1>3 DEF Published
    <2>2. CASE x \in Published
      <3>1. PICK k \in 1 .. Len(log) : x = log[k]
        BY <2>2 DEF Published
      <3>2. k \in 1 .. Len(log') /\ x = log'[k]
        BY <3>1, <1>1, <1>2
      <3> QED BY <3>2 DEF Published
    <2> QED BY <2>1, <2>2
  <1> QED BY <1>4, <1>5

(* An insertion leaves every id in place.                                  *)
LEMMA IdsGrow ==
  ASSUME NEW p \in Payloads, TypeOK, outbox' = Append(outbox, p)
  PROVE  Ids' = Ids \union {Len(outbox) + 1} /\ Ids \subseteq Ids'
  BY DEF TypeOK, Ids

LEMMA IInvInit == Init => IInv
  <1> SUFFICES ASSUME Init PROVE IInv
    OBVIOUS
  <1>1. Len(log) = 0 /\ Published = {} /\ Len(outbox) = 0
    BY DEF Init, Published
  <1>2. TypeOK
    BY <1>1 DEF Init, TypeOK, Ids
  <1>3. LockExclusive /\ SentIsPublished /\ LoopInv
    BY <1>1 DEF Init, LockExclusive, SentIsPublished, LoopInv, Held
  <1> QED BY <1>2, <1>3 DEF IInv

(* Each action keeps the inductive invariant.                              *)
LEMMA IInvInsert ==
  ASSUME IInv, NEW p \in Payloads, Insert(p)
  PROVE  IInv'
  <1>0. Ids \subseteq Ids' /\ Published' = Published
    BY IdsGrow DEF IInv, Insert, Published
  <1>1. TypeOK'
    <2>1. log' \in Seq(Ids')
      BY <1>0 DEF IInv, TypeOK, Insert
    <2> QED BY <1>0, <2>1 DEF IInv, TypeOK, Insert
  <1>2. LockExclusive' /\ SentIsPublished'
    BY <1>0 DEF IInv, LockExclusive, SentIsPublished, Insert, Held
  <1>3. LoopInv'
    BY <1>0 DEF IInv, TypeOK, LoopInv, Insert, Held, IsNext
  <1> QED BY <1>1, <1>2, <1>3 DEF IInv

LEMMA IInvFetch ==
  ASSUME IInv, NEW w \in Workers, Fetch(w)
  PROVE  IInv'
  <1> USE DEF IInv
  <1>1. PICK rows \in SUBSET Unlocked : todo' = [todo EXCEPT ![w] = rows]
    BY DEF Fetch, Lowest
  <1>2. Ids' = Ids /\ Published' = Published
    BY DEF Fetch, Ids, Published
  <1>3. rows \subseteq Ids \ sent /\ \A v \in Workers : rows \cap Held(v) = {}
    BY <1>1 DEF Unlocked
  <1>4. TypeOK'
    BY <1>1, <1>2, <1>3 DEF TypeOK, Fetch
  <1>5. /\ Held(w)' = rows
        /\ \A v \in Workers \ {w} : Held(v)' = Held(v)
    BY <1>1 DEF TypeOK, Fetch, Held, LoopInv
  <1>6. LockExclusive'
    BY <1>3, <1>5 DEF LockExclusive, Fetch
  <1>7. SentIsPublished'
    BY <1>2 DEF SentIsPublished, Fetch
  <1>8. LoopInv'
    BY <1>1, <1>2, <1>5 DEF TypeOK, LoopInv, Fetch, IsNext
  <1> QED BY <1>4, <1>6, <1>7, <1>8

LEMMA IInvPublish ==
  ASSUME IInv, NEW w \in Workers, Publish(w)
  PROVE  IInv'
  <1> USE DEF IInv
  <1>1. PICK i \in Ids : IsNext(w, i) /\ log' = Append(log, i)
    BY DEF Publish
  <1>2. Published' = Published \union {i} /\ Ids' = Ids
    BY <1>1, PublishedAppend DEF Publish, Ids
  <1>3. TypeOK'
    BY <1>1, <1>2 DEF TypeOK, Publish
  <1>4. LockExclusive' /\ SentIsPublished'
    BY <1>2 DEF LockExclusive, SentIsPublished, Publish, Held
  <1>5. \A v \in Workers \ {w} : pc'[v] = pc[v]
    BY DEF TypeOK, Publish
  <1>6. \A j \in Ids : IsNext(w, j) => j = i
    BY <1>1 DEF IsNext, Ids, TypeOK
  <1>7. LoopInv'
    BY <1>2, <1>5, <1>6 DEF TypeOK, LoopInv, Publish, IsNext, Held
  <1> QED BY <1>3, <1>4, <1>7

LEMMA IInvMark ==
  ASSUME IInv, NEW w \in Workers, Mark(w)
  PROVE  IInv'
  <1> USE DEF IInv
  <1>1. PICK i \in Ids : /\ IsNext(w, i)
                         /\ todo' = [todo EXCEPT ![w] = @ \ {i}]
                         /\ marked' = [marked EXCEPT ![w] = @ \union {i}]
    BY DEF Mark
  <1>2. i \in Published /\ i \in todo[w]
    BY <1>1 DEF LoopInv, Mark, IsNext
  <1>3. Ids' = Ids /\ Published' = Published
    BY DEF Mark, Ids, Published
  <1>4. TypeOK'
    BY <1>1, <1>3 DEF TypeOK, Mark
  <1>5. \A v \in Workers : Held(v)' = Held(v)
    BY <1>1, <1>2 DEF TypeOK, Held
  <1>6. LockExclusive' /\ SentIsPublished'
    BY <1>3, <1>5 DEF LockExclusive, SentIsPublished, Mark
  <1>7. LoopInv'
    BY <1>1, <1>2, <1>3, <1>5 DEF TypeOK, LoopInv, Mark, IsNext
  <1> QED BY <1>4, <1>6, <1>7

LEMMA IInvCommit ==
  ASSUME IInv, NEW w \in Workers, Commit(w)
  PROVE  IInv'
  <1> USE DEF IInv
  <1>1. Ids' = Ids /\ Published' = Published
    BY DEF Commit, Ids, Published
  <1>2. TypeOK'
    BY <1>1 DEF TypeOK, Commit
  <1>3. /\ Held(w) = marked[w] /\ Held(w)' = {}
        /\ \A v \in Workers \ {w} : Held(v)' = Held(v)
    BY DEF TypeOK, Commit, Held, LoopInv
  <1>4. LockExclusive'
    BY <1>3 DEF LockExclusive, Commit
  <1>5. SentIsPublished'
    BY <1>1 DEF SentIsPublished, Commit, LoopInv
  <1>6. LoopInv'
    BY <1>1, <1>3 DEF TypeOK, LoopInv, Commit, IsNext
  <1> QED BY <1>2, <1>4, <1>5, <1>6

LEMMA IInvRollback ==
  ASSUME IInv, NEW w \in Workers, Rollback(w)
  PROVE  IInv'
  <1> USE DEF IInv
  <1>1. Ids' = Ids /\ Published' = Published
    BY DEF Rollback, Ids, Published
  <1>2. TypeOK'
    BY <1>1 DEF TypeOK, Rollback
  <1>3. /\ Held(w)' = {}
        /\ \A v \in Workers \ {w} : Held(v)' = Held(v)
    BY DEF TypeOK, Rollback, Held
  <1>4. LockExclusive' /\ SentIsPublished'
    BY <1>1, <1>3 DEF LockExclusive, SentIsPublished, Rollback
  <1>5. LoopInv'
    BY <1>1, <1>3 DEF TypeOK, LoopInv, Rollback, IsNext
  <1> QED BY <1>2, <1>4, <1>5

LEMMA IInvNext == IInv /\ [Next]_vars => IInv'
  <1> SUFFICES ASSUME IInv, [Next]_vars PROVE IInv'
    OBVIOUS
  <1>1. CASE UNCHANGED vars
    BY <1>1 DEF vars, IInv, TypeOK, LockExclusive, SentIsPublished, LoopInv,
                Ids, Published, Held, IsNext
  <1>2. ASSUME NEW p \in Payloads, Insert(p) PROVE IInv'
    BY <1>2, IInvInsert
  <1>3. ASSUME NEW w \in Workers, Step(w) \/ Rollback(w) PROVE IInv'
    BY <1>3, IInvFetch, IInvPublish, IInvMark, IInvCommit, IInvRollback DEF Step
  <1> QED BY <1>1, <1>2, <1>3 DEF Next

(* Every reachable state satisfies the inductive invariant.                *)
THEOREM Invariance == Spec => []IInv
  BY IInvInit, IInvNext, PTL DEF Spec

(* The outbox, the topic and the workers' transactions keep their types.   *)
THEOREM TypeCorrect == Spec => []TypeOK
  <1>1. IInv => TypeOK
    BY DEF IInv
  <1> QED BY <1>1, Invariance, PTL

(* SKIP LOCKED keeps concurrent replicas apart, whatever fails.            *)
THEOREM ReplicasCoexist == Spec => []LockExclusive
  <1>1. IInv => LockExclusive
    BY DEF IInv
  <1> QED BY <1>1, Invariance, PTL

(* No row is committed as sent before its message is in the topic.         *)
THEOREM NothingLost == Spec => []SentIsPublished
  <1>1. IInv => SentIsPublished
    BY DEF IInv
  <1> QED BY <1>1, Invariance, PTL

-----------------------------------------------------------------------------
(* Only transactions that did not commit are published twice.              *)
THEOREM NoRepublication == Spec => NeverRepublished
  <1>1. IInv /\ [Next]_vars =>
          [\A w \in Workers : Publish(w) => log'[Len(log')] \notin sent]_vars
    <2> SUFFICES ASSUME IInv, NEW w \in Workers, Publish(w)
                 PROVE  log'[Len(log')] \notin sent
      OBVIOUS
    <2>1. PICK i \in Ids : IsNext(w, i) /\ log' = Append(log, i)
      BY DEF Publish
    <2>2. log'[Len(log')] = i
      BY <2>1 DEF IInv, TypeOK
    <2> QED BY <2>1, <2>2 DEF IInv, LockExclusive, Held, IsNext
  <1> QED BY <1>1, Invariance, PTL DEF Spec, NeverRepublished

-----------------------------------------------------------------------------
(* With a single replica nothing below a held row is pending elsewhere, so *)
(* the topic never has a row without all the rows below it.                *)
OrderInv ==
  /\ \A w \in Workers : \A j \in Held(w) : \A i \in 1 .. (j - 1) : i \in sent \union Held(w)
  /\ \A j \in Published : \A i \in 1 .. j : i \in Published

LEMMA OrderNext ==
  ASSUME \A v, w \in Workers : v = w,
         IInv, IInv', OrderInv, [Next]_vars
  PROVE  OrderInv'
  <1> USE DEF IInv
  <1>1. CASE UNCHANGED vars
    BY <1>1 DEF vars, OrderInv, Published, Held
  <1>2. ASSUME NEW p \in Payloads, Insert(p) PROVE OrderInv'
    BY <1>2 DEF Insert, OrderInv, Published, Held
  <1>3. ASSUME NEW w \in Workers, Fetch(w) PROVE OrderInv'
    <2>1. PICK rows \in SUBSET Unlocked :
            /\ todo' = [todo EXCEPT ![w] = rows]
            /\ \A j \in rows : \A i \in Unlocked \ rows : j < i
      BY <1>3 DEF Fetch, Lowest
    <2>2. Held(w)' = rows /\ Held(w) = {} /\ sent' = sent /\ Published' = Published
      BY <1>3, <2>1 DEF Fetch, TypeOK, LoopInv, Held, Published
    <2>3. ASSUME NEW j \in rows, NEW i \in 1 .. (j - 1) PROVE i \in sent \union rows
      <3>1. j \in Ids /\ i \in Ids /\ i < j
        BY DEF Unlocked, Ids, TypeOK
      <3>2. i \notin sent => i \in Unlocked
        BY <3>1, <2>2 DEF Unlocked
      <3>3. i \in Unlocked \ rows => j < i
        BY <2>1
      <3> QED BY <3>1, <3>2, <3>3 DEF Ids
    <2> QED BY <2>2, <2>3 DEF OrderInv
  <1>4. ASSUME NEW w \in Workers, Publish(w) PROVE OrderInv'
    <2>1. PICK j \in Ids : IsNext(w, j) /\ log' = Append(log, j)
      BY <1>4 DEF Publish
    <2>2. Published' = Published \union {j}
      BY <2>1, PublishedAppend
    <2>3. ASSUME NEW i \in 1 .. (j - 1) PROVE i \in Published
      <3>1. i \in sent \union Held(w)
        BY <2>1 DEF OrderInv, Held, IsNext
      <3>2. i \notin todo[w]
        BY <2>1 DEF IsNext, Ids, TypeOK
      <3> QED BY <3>1, <3>2 DEF Held, SentIsPublished, LoopInv
    <2>4. \A i \in 1 .. j : i = j \/ i \in 1 .. (j - 1)
      BY DEF Ids, TypeOK
    <2>5. \A v \in Workers : Held(v)' = Held(v) /\ sent' = sent
      BY <1>4 DEF Publish, Held
    <2> QED BY <2>2, <2>3, <2>4, <2>5 DEF OrderInv
  <1>5. ASSUME NEW w \in Workers, Mark(w) PROVE OrderInv'
    <2>1. PICK i \in Ids : /\ IsNext(w, i)
                           /\ todo' = [todo EXCEPT ![w] = @ \ {i}]
                           /\ marked' = [marked EXCEPT ![w] = @ \union {i}]
      BY <1>5 DEF Mark
    <2>2. \A v \in Workers : Held(v)' = Held(v)
      BY <2>1 DEF TypeOK, Held, IsNext
    <2>3. sent' = sent /\ Published' = Published
      BY <1>5 DEF Mark, Published
    <2> QED BY <2>2, <2>3 DEF OrderInv
  <1>6. ASSUME NEW w \in Workers, Commit(w) PROVE OrderInv'
    <2>1. Held(w)' = {} /\ Published' = Published
      BY <1>6 DEF Commit, TypeOK, LoopInv, Held, Published
    <2> QED BY <2>1 DEF OrderInv
  <1>7. ASSUME NEW w \in Workers, Rollback(w) PROVE OrderInv'
    <2>1. Held(w)' = {} /\ Published' = Published
      BY <1>7 DEF Rollback, TypeOK, Held, Published
    <2> QED BY <2>1 DEF OrderInv
  <1> QED BY <1>1, <1>2, <1>3, <1>4, <1>5, <1>6, <1>7 DEF Next, Step

(* One replica keeps each tenant's events in order, through any number of  *)
(* failed transactions.                                                    *)
THEOREM SingleReplicaOrder ==
  ASSUME \A v, w \in Workers : v = w
  PROVE  Spec => []TenantOrder
  <1>1. Init => OrderInv
    BY DEF Init, OrderInv, Held, Published
  <1>2. IInv /\ IInv' /\ OrderInv /\ [Next]_vars => OrderInv'
    BY OrderNext
  <1>3. OrderInv => TenantOrder
    BY DEF OrderInv, TenantOrder
  <1> QED BY <1>1, <1>2, <1>3, Invariance, PTL DEF Spec

-----------------------------------------------------------------------------
(* Every step of the relay is a step of the at-least-once specification.   *)
LEMMA RelayStep ==
  ASSUME IInv, [Next]_vars
  PROVE  [Relay!Next]_(Relay!avars)
  <1> USE DEF IInv, Relay!Next, Relay!avars
  <1>1. CASE UNCHANGED vars
    BY <1>1 DEF vars, Ids, Published
  <1>2. ASSUME NEW p \in Payloads, Insert(p) PROVE [Relay!Next]_(Relay!avars)
    <2>1. Ids' = Ids \union {Len(outbox) + 1} /\ Len(outbox) + 1 \notin Ids
      BY <1>2, IdsGrow DEF Insert, Ids, TypeOK
    <2>2. Len(outbox) + 1 \in 1 .. MaxRows
      BY <1>2, BoundAssumption DEF Insert, TypeOK
    <2>3. Relay!Accept(Len(outbox) + 1)
      BY <1>2, <2>1 DEF Relay!Accept, Insert, Published
    <2> QED BY <2>2, <2>3
  <1>3. ASSUME NEW w \in Workers, Fetch(w) \/ Mark(w) \/ Rollback(w)
        PROVE  [Relay!Next]_(Relay!avars)
    BY <1>3 DEF Fetch, Mark, Rollback, Ids, Published
  <1>4. ASSUME NEW w \in Workers, Publish(w) PROVE [Relay!Next]_(Relay!avars)
    <2>1. PICK i \in Ids : IsNext(w, i) /\ log' = Append(log, i)
      BY <1>4 DEF Publish
    <2>2. Published' = Published \union {i} /\ i \notin sent
      BY <2>1, PublishedAppend DEF LockExclusive, Held, IsNext
    <2>3. Relay!Deliver(i)
      BY <1>4, <2>2 DEF Relay!Deliver, Publish, Ids
    <2> QED BY <2>3
  <1>5. ASSUME NEW w \in Workers, Commit(w) PROVE [Relay!Next]_(Relay!avars)
    <2>1. marked[w] \subseteq Published \ sent
      BY DEF LoopInv, LockExclusive, Held
    <2>2. Relay!Acknowledge(marked[w])
      BY <1>5, <2>1 DEF Relay!Acknowledge, Commit, Ids, Published
    <2> QED BY <2>1, <2>2
  <1> QED BY <1>1, <1>2, <1>3, <1>4, <1>5 DEF Next, Step

(* The outbox worker implements at-least-once delivery.                    *)
THEOREM Refinement == Spec => ImplementsAtLeastOnce
  <1>1. Init => Relay!Init
    BY DEF Init, Relay!Init, Ids, Published
  <1>2. IInv /\ [Next]_vars => [Relay!Next]_(Relay!avars)
    BY RelayStep
  <1> QED BY <1>1, <1>2, Invariance, PTL DEF Spec, Relay!Spec, ImplementsAtLeastOnce

=============================================================================
