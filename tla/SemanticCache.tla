---------------------------- MODULE SemanticCache ----------------------------
(***************************************************************************)
(* crates/barqium-ai/src/cache.rs: threads that insert into one semantic   *)
(* cache.  Three locks guard the entries, the counter and the index; none  *)
(* is held from one to the next, and the index is built with none held.    *)
(*                                                                         *)
(* Entries are known by their number, an index by how many it covers: get  *)
(* finds nothing beyond them.                                              *)
(***************************************************************************)
EXTENDS Naturals

CONSTANTS
  Inserters,     \* threads
  rebuild_every,
  MaxEntries     \* bound: insertions

ASSUME CacheAssumption == rebuild_every \in Nat /\ MaxEntries \in Nat

VARIABLES
  entries,                \* the length of the vector
  inserts_since_rebuild,
  index,                  \* entries the index covers, 0 for none
  inserters,              \* by thread, [phase, points]
  overlapped              \* two rebuilds have been under way at once

cacheVars == <<entries, inserts_since_rebuild, index, inserters, overlapped>>

Rebuilding(i) == inserters[i].phase \in {"collect", "build"}

CacheInit ==
  /\ entries = 0
  /\ inserts_since_rebuild = 0
  /\ index = 0
  /\ inserters = [i \in Inserters |-> [phase |-> "idle", points |-> 0]]
  /\ overlapped = FALSE

-----------------------------------------------------------------------------
push(i) ==
  /\ inserters[i].phase = "idle"
  /\ entries < MaxEntries
  /\ entries' = entries + 1
  /\ inserters' = [inserters EXCEPT ![i].phase = "pushed"]
  /\ UNCHANGED <<inserts_since_rebuild, index, overlapped>>

(* A slip: the rebuild comes one insertion late.                           *)
count_late(i) ==
  /\ inserters[i].phase = "pushed"
  /\ \/ /\ inserts_since_rebuild + 1 > rebuild_every
        /\ inserts_since_rebuild' = 0
        /\ inserters' = [inserters EXCEPT ![i].phase = "collect"]
        /\ overlapped' = (overlapped \/ \E j \in Inserters : Rebuilding(j))
     \/ /\ inserts_since_rebuild + 1 <= rebuild_every
        /\ inserts_since_rebuild' = inserts_since_rebuild + 1
        /\ inserters' = [inserters EXCEPT ![i].phase = "idle"]
        /\ UNCHANGED overlapped
  /\ UNCHANGED <<entries, index>>

count(i) ==
  /\ inserters[i].phase = "pushed"
  /\ \/ /\ inserts_since_rebuild + 1 >= rebuild_every
        /\ inserts_since_rebuild' = 0
        /\ inserters' = [inserters EXCEPT ![i].phase = "collect"]
        /\ overlapped' = (overlapped \/ \E j \in Inserters : Rebuilding(j))
     \/ /\ inserts_since_rebuild + 1 < rebuild_every
        /\ inserts_since_rebuild' = inserts_since_rebuild + 1
        /\ inserters' = [inserters EXCEPT ![i].phase = "idle"]
        /\ UNCHANGED overlapped
  /\ UNCHANGED <<entries, index>>

(* rebuild_index copies the entries under their lock, and builds.          *)
collect(i) ==
  /\ inserters[i].phase = "collect"
  /\ inserters' = [inserters EXCEPT ![i] = [phase |-> "build", points |-> entries]]
  /\ UNCHANGED <<entries, inserts_since_rebuild, index, overlapped>>

(* Whatever index is there by now is replaced.                             *)
install(i) ==
  /\ inserters[i].phase = "build"
  /\ index' = inserters[i].points
  /\ inserters' = [inserters EXCEPT ![i] = [phase |-> "idle", points |-> 0]]
  /\ UNCHANGED <<entries, inserts_since_rebuild, overlapped>>

CacheNext == \E i \in Inserters : push(i) \/ count(i) \/ collect(i) \/ install(i)

CacheSpec == CacheInit /\ [][CacheNext]_cacheVars

-----------------------------------------------------------------------------
(* With no thread inside insert, fewer than rebuild_every entries are      *)
(* beyond the reach of get, as long as no two rebuilds have overlapped: a  *)
(* rebuild that started first and ends last puts the smaller index back    *)
(* (cache.rs:114-115).                                                     *)
IndexCatchesUp ==
  ~ overlapped /\ (\A i \in Inserters : inserters[i].phase = "idle") =>
    entries = index \/ entries < index + rebuild_every

=============================================================================
