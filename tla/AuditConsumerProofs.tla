------------------------- MODULE AuditConsumerProofs ------------------------
(***************************************************************************)
(* The safety of the audit consumer for every topic, batch size and number *)
(* of failures and restarts.  What carries it: CommitMessages is called    *)
(* with the batch that flush has emptied, so the committed offset stays    *)
(* where it was, and replaying is harmless because a row is inserted once. *)
(***************************************************************************)
EXTENDS AuditConsumer, FiniteSetTheorems, TLAPS

AuditInv ==
  /\ AuditTypeOK
  /\ committed = 0
  /\ Len(log) <= MaxLog
  /\ StoredOnce

LEMMA AuditInitially == AuditInit => AuditInv
<1> SUFFICES ASSUME AuditInit PROVE AuditInv
  OBVIOUS
<1>1. Cardinality({}) = 0
  BY FS_EmptySet
<1> QED BY <1>1, BoundsAssumption, BatchSizeAssumption DEF AuditInit, AuditInv, AuditTypeOK, StoredOnce

(* A flush leaves rows that StoredOnce allows, whatever becomes of it.     *)
LEMMA FlushStep ==
  ASSUME AuditInv, NEW b \in SUBSET (1..Len(log)), flush(b), UNCHANGED log
  PROVE  /\ rows' \in [1..MaxLog -> Nat]
         /\ failures' \in 0..MaxFailures
         /\ StoredOnce'
         /\ batch' = {}
<1> USE BoundsAssumption DEF AuditInv, AuditTypeOK
<1>1. batch' = {}
  BY DEF flush
<1>2. CASE rows' = Inserted(b) /\ failures' = failures
  <2>1. rows' \in [1..MaxLog -> Nat]
    BY <1>2 DEF Inserted
  <2>2. ASSUME NEW i \in 1..MaxLog
        PROVE  rows'[i] <= 1 /\ (rows'[i] = 1 => i <= Len(log) /\ log[i] = "ok")
    <3>1. CASE i \in b /\ log[i] = "ok" /\ rows[i] = 0
      BY <1>2, <3>1 DEF Inserted
    <3>2. CASE ~ (i \in b /\ log[i] = "ok" /\ rows[i] = 0)
      BY <1>2, <3>2 DEF Inserted, StoredOnce
    <3> QED BY <3>1, <3>2
  <2> QED BY <1>1, <1>2, <2>1, <2>2 DEF StoredOnce
<1>3. CASE rows' = rows /\ failures' \in 0..MaxFailures
  BY <1>1, <1>3 DEF StoredOnce
<1>4. \/ rows' = Inserted(b) /\ failures' = failures
      \/ rows' = rows /\ failures' \in 0..MaxFailures
  BY DEF flush, insertBatch
<1> QED BY <1>2, <1>3, <1>4

LEMMA AuditStep == AuditInv /\ [AuditNext]_auditVars => AuditInv'
<1> SUFFICES ASSUME AuditInv, [AuditNext]_auditVars PROVE AuditInv'
  OBVIOUS
<1> USE BoundsAssumption, BatchSizeAssumption DEF AuditInv, AuditTypeOK
<1>0. IsFiniteSet(batch) /\ Cardinality(batch) \in Nat
  <2>1. IsFiniteSet(1..position)
    BY FS_Interval
  <2>2. IsFiniteSet(batch)
    BY <2>1, FS_Subset
  <2> QED BY <2>2, FS_CardinalityType
<1>1. CASE Publish
  BY <1>1 DEF Publish, StoredOnce
<1>2. CASE Fetch
  <2> DEFINE b == batch \union {position'}
  <2>1. position' = position + 1 /\ position' \in 1..Len(log) /\ UNCHANGED <<log, restarts>> /\ b \in SUBSET (1..position')
    BY <1>2 DEF Fetch
  <2>2. CASE Cardinality(b) >= BatchSize
    <3>1. flush(b) /\ CommitMessages(batch')
      BY <1>2, <2>2 DEF Fetch
    <3>2. /\ rows' \in [1..MaxLog -> Nat] /\ failures' \in 0..MaxFailures
          /\ StoredOnce' /\ batch' = {}
      <4>1. b \in SUBSET (1..Len(log)) /\ UNCHANGED log
        BY <2>1
      <4> HIDE DEF b
      <4> QED BY <3>1, <4>1, FlushStep
    <3>3. committed' = 0
      BY <3>1, <3>2 DEF CommitMessages
    <3>4. Cardinality(batch') = 0
      BY <3>2, FS_EmptySet
    <3> QED BY <2>1, <3>2, <3>3, <3>4
  <2>3. CASE ~ (Cardinality(b) >= BatchSize)
    <3>1. batch' = b /\ UNCHANGED <<rows, committed, failures>>
      BY <1>2, <2>3 DEF Fetch
    <3>2. Cardinality(b) \in Nat
      BY <1>0, FS_AddElement, FS_CardinalityType
    <3> QED BY <2>1, <2>3, <3>1, <3>2 DEF StoredOnce
  <2> QED BY <2>2, <2>3
<1>3. CASE Ticker
  <2>1. flush(batch) /\ UNCHANGED <<log, position, committed, restarts>>
    BY <1>3 DEF Ticker
  <2>2. /\ rows' \in [1..MaxLog -> Nat] /\ failures' \in 0..MaxFailures
        /\ StoredOnce' /\ batch' = {}
    <3>1. batch \in SUBSET (1..Len(log)) /\ UNCHANGED log
      BY <2>1
    <3> QED BY <2>1, <3>1, FlushStep
  <2>3. Cardinality(batch') = 0
    BY <2>2, FS_EmptySet
  <2> QED BY <2>1, <2>2, <2>3
<1>4. CASE Restart
  <2>1. Cardinality({}) = 0
    BY FS_EmptySet
  <2> QED BY <1>4, <2>1 DEF Restart, StoredOnce
<1>5. CASE UNCHANGED auditVars
  BY <1>5 DEF auditVars, StoredOnce
<1> QED BY <1>1, <1>2, <1>3, <1>4, <1>5 DEF AuditNext, Run

LEMMA AuditInvariant == AuditSpec => []AuditInv
  BY AuditInitially, AuditStep, PTL DEF AuditSpec

(* A replayed event never has a second row, and only parsed events have    *)
(* one, for every topic and any number of restarts.                        *)
THEOREM NoSecondRow == AuditSpec => []StoredOnce
<1>1. AuditInv => StoredOnce
  BY DEF AuditInv
<1> QED BY <1>1, AuditInvariant, PTL

(* An event that could be stored and was not is fetched again after a      *)
(* restart, for every batch size and every order of failures.              *)
THEOREM ReplayCovers == AuditSpec => []UnstoredIsReplayed
<1>1. AuditInv => UnstoredIsReplayed
  BY DEF AuditInv, AuditTypeOK, UnstoredIsReplayed
<1> QED BY <1>1, AuditInvariant, PTL

=============================================================================
