----------------------------- MODULE StateStore -----------------------------
(***************************************************************************)
(* The durable-knowledge side of signal-watch: which sources have had      *)
(* their silent baseline established, and which item keys of a source are  *)
(* seen.  This module is the contract of state.StateStore with every       *)
(* operation indivisible; module MemoryStateStore models the lock-level    *)
(* implementation and shows that it keeps this contract.                   *)
(***************************************************************************)

CONSTANTS Source,   \* source IDs
          Key       \* item keys

VARIABLES
  initialized,      \* sources with an established baseline
  seen              \* seen[s]: the keys of source s that are seen

storeVars == <<initialized, seen>>

StoreTypeOK ==
  /\ initialized \in SUBSET Source
  /\ seen \in [Source -> SUBSET Key]

StoreInit ==
  /\ initialized = {}
  /\ seen = [s \in Source |-> {}]

IsSourceInitialized(s) == s \in initialized

HasItem(s, k) == k \in seen[s]

(* Variant: the source's mark is not looked at. *)
EstablishAgain(s, K) ==
  /\ seen' = [seen EXCEPT ![s] = @ \cup K]
  /\ initialized' = initialized \cup {s}

(* The call that finds no baseline: it records every key and initializes   *)
(* the source.  A call that finds one answers false and changes nothing.   *)
EstablishBaseline(s, K) ==
  /\ ~IsSourceInitialized(s)
  /\ seen' = [seen EXCEPT ![s] = @ \cup K]
  /\ initialized' = initialized \cup {s}

MarkItemSeen(s, k) ==
  /\ seen' = [seen EXCEPT ![s] = @ \cup {k}]
  /\ UNCHANGED initialized
=============================================================================
