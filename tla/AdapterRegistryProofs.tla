----------------------- MODULE AdapterRegistryProofs -----------------------
(***************************************************************************)
(* What the registry guarantees for every number of clients, types and     *)
(* adapters: its inductive invariant, and that it implements the           *)
(* indivisible, write-once registry of module AtomicRegistry.              *)
(***************************************************************************)
EXTENDS AdapterRegistry, TLAPS

(* Requests, adapters and answers stay of their kinds (registry.go:10-68). *)
LEMMA TypeStep ==
  ASSUME IInv, [RegistryNext]_registryVars
  PROVE  TypeInv'
PROOF
<1> USE RegistryAssumption, ClientAssumption
        DEF TypeInv, At, GoTo, Type, Decide, lockVars, vars
<1>0. TypeInv /\ CallInv
  BY DEF IInv
<1>1. CASE UNCHANGED registryVars
  BY <1>0, <1>1 DEF registryVars
<1>2. ASSUME NEW c \in Client, NEW r \in Request, Begin(c, r) PROVE TypeInv'
  BY <1>0, <1>2 DEF Begin, Call
<1>3. ASSUME NEW c \in Client,
             RefuseNil(c) \/ Lock(c) \/ Exists(c) \/ Absent(c) \/ Unlock(c)
      PROVE  TypeInv'
  BY <1>0, <1>3 DEF RefuseNil, Lock, Exists, Absent, Unlock
<1>4. ASSUME NEW c \in Client, Write(c) PROVE TypeInv'
  <2>1. request[c] # NoRequest
    BY <1>0, <1>4 DEF Write, CallInv
  <2>2. request[c] \in Request
    BY <1>0, <2>1
  <2>. QED
    BY <1>0, <1>4, <2>2 DEF Write
<1>5. ASSUME NEW c \in Client, RLock(c) \/ RUnlock(c) PROVE TypeInv'
  BY <1>0, <1>5 DEF RLock, RUnlock
<1>6. ASSUME NEW c \in Client, Read(c) PROVE TypeInv'
  <2>1. request[c] \in Request
    BY <1>0, <1>6 DEF Read, CallInv
  <2>2. adapters[request[c].type] \in Adapter \cup {Nil}
    BY <1>0, <2>1
  <2>. QED
    BY <1>0, <1>6, <2>1, <2>2 DEF Read, Use, Asks
<1>7. ASSUME NEW c \in Client, Collect(c) PROVE TypeInv'
  <2>1. answer[c] = "none" /\ adapter[c] \in Adapter
    BY <1>0, <1>7 DEF Collect, CallInv
  <2>. QED
    BY <1>0, <1>7, <2>1 DEF Collect
<1>8. ASSUME NEW c \in Client, End(c) PROVE TypeInv'
  BY <1>0, <1>8 DEF End, Return
<1>. QED
  BY <1>1, <1>2, <1>3, <1>4, <1>5, <1>6, <1>7, <1>8 DEF RegistryNext

(* A writer is alone with the map (registry.go:44-45, 60-62).              *)
LEMMA LockStep ==
  ASSUME IInv, [RegistryNext]_registryVars
  PROVE  LockInv'
PROOF
<1> USE ClientAssumption DEF TypeInv, LockInv, At, GoTo
<1>0. TypeInv /\ LockInv
  BY DEF IInv
<1>1. CASE UNCHANGED registryVars
  BY <1>0, <1>1 DEF registryVars, vars, lockVars
<1>2. ASSUME NEW c \in Client, NEW r \in Request, Begin(c, r) PROVE LockInv'
  BY <1>0, <1>2 DEF Begin, lockVars
<1>3. ASSUME NEW c \in Client, RefuseNil(c) PROVE LockInv'
  BY <1>0, <1>3 DEF RefuseNil, lockVars
<1>4. ASSUME NEW c \in Client, Lock(c) PROVE LockInv'
  BY <1>0, <1>4 DEF Lock
<1>5. ASSUME NEW c \in Client, Exists(c) \/ Absent(c) \/ Write(c)
      PROVE  LockInv'
  BY <1>0, <1>5 DEF Exists, Absent, Write, lockVars
<1>6. ASSUME NEW c \in Client, Unlock(c) PROVE LockInv'
  BY <1>0, <1>6 DEF Unlock
<1>7. ASSUME NEW c \in Client, RLock(c) PROVE LockInv'
  BY <1>0, <1>7 DEF RLock
<1>8. ASSUME NEW c \in Client, Read(c) PROVE LockInv'
  BY <1>0, <1>8 DEF Read, lockVars
<1>9. ASSUME NEW c \in Client, RUnlock(c) PROVE LockInv'
  BY <1>0, <1>9 DEF RUnlock
<1>10. ASSUME NEW c \in Client, Collect(c) \/ End(c) PROVE LockInv'
  BY <1>0, <1>10 DEF Collect, End, lockVars
<1>. QED
  BY <1>1, <1>2, <1>3, <1>4, <1>5, <1>6, <1>7, <1>8, <1>9, <1>10
     DEF RegistryNext

(* Entries are written once, under the lock, so that what a writer has     *)
(* found absent is absent and what a run has found stays (registry.go:50,  *)
(* runner.go:28-33).                                                       *)
LEMMA CallStep ==
  ASSUME IInv, [RegistryNext]_registryVars
  PROVE  CallInv'
PROOF
<1> USE RegistryAssumption, ClientAssumption DEF At, GoTo, Type, Decide
<1>0. TypeInv /\ LockInv /\ CallInv
  BY DEF IInv
<1>1. CASE UNCHANGED registryVars
  BY <1>0, <1>1 DEF CallInv, registryVars, vars, lockVars
<1>2. ASSUME NEW c \in Client, NEW r \in Request, Begin(c, r) PROVE CallInv'
  BY <1>0, <1>2 DEF TypeInv, CallInv, Begin, Call
<1>3. ASSUME NEW c \in Client, RefuseNil(c) PROVE CallInv'
  BY <1>0, <1>3 DEF TypeInv, CallInv, RefuseNil
<1>4. ASSUME NEW c \in Client, Lock(c) \/ Exists(c) \/ Absent(c) \/ Unlock(c)
      PROVE  CallInv'
  BY <1>0, <1>4 DEF TypeInv, CallInv, Lock, Exists, Absent, Unlock, vars
<1>5. ASSUME NEW c \in Client, Write(c) PROVE CallInv'
  <2>1. /\ writer = c
        /\ request[c] \in Request /\ request[c].adapter # Nil
        /\ adapters[request[c].type] = Nil
    BY <1>0, <1>5 DEF TypeInv, LockInv, CallInv, Write
  <2>2. \A d \in Client \ {c} : pc[d] # "absent"
    BY <1>0, <2>1 DEF LockInv
  <2>3. \A d \in Client : adapter[d] # Nil /\ adapter[d] = adapters[request[d].type]
          => request[d].type # request[c].type
    BY <2>1
  <2>4. \A d \in Client \ {c} : pc'[d] = pc[d] /\ answer'[d] = answer[d]
    BY <1>0, <1>5 DEF TypeInv, Write
  <2>5. pc'[c] = "unlock" /\ answer'[c] = "done" /\ pc[c] = "absent"
    BY <1>0, <1>5 DEF TypeInv, Write
  <2>6. \A d \in Client : request[d].type # request[c].type =>
          adapters'[request[d].type] = adapters[request[d].type]
    BY <1>0, <1>5 DEF TypeInv, Write
  <2>. QED
    BY <1>0, <1>5, <2>1, <2>2, <2>3, <2>4, <2>5, <2>6 DEF CallInv, Write
<1>6. ASSUME NEW c \in Client, RLock(c) \/ RUnlock(c) PROVE CallInv'
  BY <1>0, <1>6 DEF TypeInv, CallInv, RLock, RUnlock, vars
<1>7. ASSUME NEW c \in Client, Read(c) PROVE CallInv'
  <2>1. request[c] \in Request /\ answer[c] = "none"
        /\ request[c].name \in {"lookup", "run"}
    BY <1>0, <1>7 DEF TypeInv, CallInv, Read
  <2>2. adapters[request[c].type] \in Adapter \cup {Nil}
    BY <1>0, <2>1 DEF TypeInv
  <2>. QED
    BY <1>0, <1>7, <2>1, <2>2 DEF TypeInv, CallInv, Read, Use, Asks, vars
<1>8. ASSUME NEW c \in Client, Collect(c) PROVE CallInv'
  <2>1. adapter[c] \in Adapter
    BY <1>0, <1>8 DEF TypeInv, CallInv, Collect
  <2>. QED
    BY <1>0, <1>8, <2>1 DEF TypeInv, CallInv, Collect
<1>9. ASSUME NEW c \in Client, End(c) PROVE CallInv'
  BY <1>0, <1>9 DEF TypeInv, CallInv, End, Return
<1>. QED
  BY <1>1, <1>2, <1>3, <1>4, <1>5, <1>6, <1>7, <1>8, <1>9 DEF RegistryNext

(* The invariant of the registry, in every reachable state: a writer is    *)
(* alone under the lock, and what a writer or a run has found stays true   *)
(* until it is used (registry.go:39-68, runner.go:23-34).                  *)
THEOREM Invariance == RegistrySpec => []IInv
PROOF
<1>1. RegistryInit => IInv
  BY RegistryAssumption, ClientAssumption
     DEF RegistryInit, Init, IInv, TypeInv, LockInv, CallInv
<1>2. IInv /\ [RegistryNext]_registryVars => IInv'
  BY TypeStep, LockStep, CallStep DEF IInv
<1>. QED
  BY <1>1, <1>2, PTL DEF RegistrySpec

(* Every step under the registry's lock is a step of the indivisible,      *)
(* write-once registry, or changes nothing in it.                          *)
LEMMA Refines ==
  ASSUME IInv, [RegistryNext]_registryVars
  PROVE  [Next]_vars
PROOF
<1>0. TypeInv /\ CallInv
  BY DEF IInv
<1>1. CASE UNCHANGED registryVars
  BY <1>1 DEF registryVars
<1>2. ASSUME NEW c \in Client, NEW r \in Request, Begin(c, r) PROVE Next
  BY <1>2 DEF Begin, Next
<1>3. ASSUME NEW c \in Client, RefuseNil(c) \/ Exists(c) PROVE Refuse(c)
  BY <1>0, <1>3
     DEF RefuseNil, Exists, Refuse, Asks, CallInv, At, Type
<1>4. ASSUME NEW c \in Client, Write(c) PROVE Register(c)
  BY <1>0, <1>4 DEF Write, Register, Asks, CallInv, At, Type
<1>5. ASSUME NEW c \in Client,
             Lock(c) \/ Absent(c) \/ Unlock(c) \/ RLock(c) \/ RUnlock(c)
      PROVE  UNCHANGED vars
  BY <1>5 DEF Lock, Absent, Unlock, RLock, RUnlock
<1>6. ASSUME NEW c \in Client, Read(c) PROVE Use(c) \/ UNCHANGED vars
  BY <1>6 DEF Read
<1>7. ASSUME NEW c \in Client, Collect(c) PROVE Use(c)
  <2>1. /\ request[c].name = "run" /\ answer[c] = "none"
        /\ request[c] # NoRequest
        /\ adapter[c] # Nil /\ adapter[c] = adapters[request[c].type]
    BY <1>0, <1>7 DEF Collect, CallInv, At
  <2>. QED
    BY <1>7, <2>1 DEF Collect, Use, Asks
<1>8. ASSUME NEW c \in Client, End(c) PROVE Return(c)
  BY <1>8 DEF End
<1>. QED
  BY <1>1, <1>2, <1>3, <1>4, <1>5, <1>6, <1>7, <1>8 DEF RegistryNext, Next

(* Concurrent registrations, lookups and runs are those of an indivisible  *)
(* registry whose entries are never replaced (registry.go:37-68).          *)
THEOREM Implementation == RegistrySpec => ImplementsAtomicRegistry
PROOF
<1>1. RegistryInit => Init
  BY DEF RegistryInit
<1>2. IInv /\ [RegistryNext]_registryVars => [Next]_vars
  BY Refines
<1>. QED
  BY <1>1, <1>2, Invariance, PTL
     DEF RegistrySpec, ImplementsAtomicRegistry, Spec
=============================================================================
