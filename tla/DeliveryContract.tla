-------------------------- MODULE DeliveryContract --------------------------
(***************************************************************************)
(* What the notification pipeline promises, without callers, runs, locks   *)
(* or loops.  A source's first successful collection is learnt silently    *)
(* and whole; then a key may be handed to the sender only while it is no   *)
(* part of that baseline, and becomes seen only once the sender has accepted*)
(* it.  An attempt may be repeated (delivery is at least once), and an     *)
(* accepted message may stay unrecorded for ever (the mark may fail).      *)
(***************************************************************************)
CONSTANTS Source, Key,
          Collection   \* the sets of keys a good collection may have

VARIABLES initialized, seen,   \* the state store
          baseline,            \* baseline[s]: keys learnt silently
          attempted,           \* attempted[s]: keys handed to the sender
          delivered            \* delivered[s]: keys the sender accepted

vars == <<initialized, seen, baseline, attempted, delivered>>

Init ==
  /\ initialized = {}
  /\ seen      = [s \in Source |-> {}]
  /\ baseline  = [s \in Source |-> {}]
  /\ attempted = [s \in Source |-> {}]
  /\ delivered = [s \in Source |-> {}]

Establish(s, K) ==
  /\ s \notin initialized
  /\ initialized' = initialized \cup {s}
  /\ baseline' = [baseline EXCEPT ![s] = K]
  /\ seen' = [seen EXCEPT ![s] = K]
  /\ UNCHANGED <<attempted, delivered>>

Attempt(s, k) ==
  /\ s \in initialized
  /\ k \notin baseline[s]
  /\ attempted' = [attempted EXCEPT ![s] = @ \cup {k}]
  /\ UNCHANGED <<initialized, seen, baseline, delivered>>

Deliver(s, k) ==
  /\ k \in attempted[s]
  /\ delivered' = [delivered EXCEPT ![s] = @ \cup {k}]
  /\ UNCHANGED <<initialized, seen, baseline, attempted>>

Complete(s, k) ==
  /\ k \in delivered[s]
  /\ seen' = [seen EXCEPT ![s] = @ \cup {k}]
  /\ UNCHANGED <<initialized, baseline, attempted, delivered>>

Next ==
  \E s \in Source :
    \/ \E K \in Collection : Establish(s, K)
    \/ \E k \in Key : Attempt(s, k) \/ Deliver(s, k) \/ Complete(s, k)

Spec == Init /\ [][Next]_vars
=============================================================================
