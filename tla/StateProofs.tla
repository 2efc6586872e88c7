---------------------------- MODULE StateProofs ----------------------------
(***************************************************************************)
(* What monitoring remembers of the past, and by what.  The store, for     *)
(* every number of clients and every set of operations: its inductive      *)
(* invariant, one winner for a baseline, and that it implements the        *)
(* indivisible store of module AtomicStore.  The keys it holds, for every  *)
(* set of texts, instants and zones: a key is the identity of an item, no  *)
(* more and no less.                                                       *)
(***************************************************************************)
EXTENDS MemoryStateStore, ItemRevisions, TLAPS

(* An empty store that nobody has called satisfies the invariant           *)
(* (memory.go:13-24).                                                      *)
LEMMA InitEstablishes == Init => IInv
PROOF
<1> SUFFICES ASSUME Init PROVE IInv
  OBVIOUS
<1> USE MemoryStateStoreAssumption DEF Init, StoreInit
<1>1. TypeOK
  BY DEF TypeOK, StoreTypeOK, PC
<1>2. LockInv
  BY DEF LockInv, Inside
<1>3. \A c \in Client : CallInv(c)
  BY DEF CallInv, Inside
<1>4. WinsInv
  BY DEF WinsInv, Winning
<1>. QED
  BY <1>1, <1>2, <1>3, <1>4 DEF IInv

(* Every variable keeps its type (memory.go:30-149).                       *)
LEMMA TypeStep ==
  ASSUME IInv, [Next]_vars
  PROVE  TypeOK'
PROOF
<1> USE MemoryStateStoreAssumption
<1>0. TypeOK
  BY DEF IInv
<1>1. CASE UNCHANGED vars
  BY <1>0, <1>1 DEF TypeOK, StoreTypeOK, vars
<1>2. ASSUME NEW c \in Client, Acquire(c) \/ Cancel(c) \/
                               \E o \in Op : Call(c, o)
      PROVE  TypeOK'
  <2> USE DEF TypeOK, StoreTypeOK, GoTo, PC, storeVars, callVars, lockVars
  <2>1. CASE \E o \in Op : Call(c, o)
    BY <1>0, <2>1 DEF Call
  <2>2. CASE Cancel(c)
    BY <1>0, <2>2 DEF Cancel
  <2>3. CASE RLock(c) \/ Announce(c)
    BY <1>0, <2>3 DEF RLock, Announce
  <2>. QED
    BY <1>2, <2>1, <2>2, <2>3 DEF Acquire
<1>3. ASSUME NEW c \in Client, Work(c) PROVE TypeOK'
  <2> USE DEF TypeOK, StoreTypeOK, GoTo, PC, Answer, storeVars, callVars,
       lockVars
  <2>1. CASE Reject(c) \/ Accept(c) \/ Lock(c) \/ FailLate(c) \/ Look(c)
    BY <1>0, <2>1 DEF Reject, Accept, Lock, FailLate, Look
  <2>2. CASE StartWrite(c)
    <3>1. op[c].keys \subseteq Key
      BY <2>2 DEF IInv, CallInv, Inside, Valid, StartWrite, Deciding
    <3>2. wins' \in [Source -> Nat]
      BY <1>0, <2>2 DEF StartWrite
    <3>. QED
      BY <1>0, <2>2, <3>1, <3>2 DEF StartWrite
  <2>3. CASE WriteKey(c)
    <3>1. PICK k \in todo[c] : /\ MarkItemSeen(op[c].source, k)
                              /\ todo' = [todo EXCEPT ![c] = @ \ {k}]
      BY <2>3 DEF WriteKey
    <3>2. k \in Key
      BY <1>0
    <3>3. todo' \in [Client -> SUBSET Key]
      BY <1>0, <3>1
    <3>4. /\ seen' \in [Source -> SUBSET Key]
          /\ initialized' \in SUBSET Source
      BY <1>0, <3>1, <3>2 DEF MarkItemSeen
    <3>. QED
      BY <1>0, <2>3, <3>3, <3>4 DEF WriteKey
  <2>4. CASE EndWrite(c)
    <3>1. op[c].source \in Source
      BY <2>4 DEF IInv, CallInv, Inside, Valid, EndWrite
    <3>. QED
      BY <1>0, <2>4, <3>1 DEF EndWrite
  <2>5. CASE Unlock(c) \/ Return(c)
    BY <1>0, <2>5 DEF Unlock, Return
  <2>. QED
    BY <1>3, <2>1, <2>2, <2>3, <2>4, <2>5 DEF Work
<1>. QED
  BY <1>1, <1>2, <1>3 DEF Next

(* A step of one client leaves the other clients' calls as they were.      *)
LEMMA OthersKept ==
  ASSUME IInv, NEW c \in Client,
         \/ \E o \in Op : Call(c, o)
         \/ Cancel(c) \/ Acquire(c) \/ Work(c)
  PROVE  \A d \in Client \ {c} :
           /\ pc'[d] = pc[d] /\ op'[d] = op[d] /\ canceled'[d] = canceled[d]
           /\ answer'[d] = answer[d] /\ todo'[d] = todo[d]
PROOF
<1> USE DEF IInv, TypeOK, GoTo, Answer, storeVars, callVars, lockVars
<1>1. CASE (\E o \in Op : Call(c, o)) \/ Cancel(c) \/ Acquire(c)
  BY <1>1 DEF Call, Cancel, Acquire, RLock, Announce
<1>2. CASE Reject(c) \/ Accept(c) \/ Lock(c) \/ FailLate(c) \/ Look(c)
  BY <1>2 DEF Reject, Accept, Lock, FailLate, Look
<1>3. CASE StartWrite(c) \/ WriteKey(c) \/ EndWrite(c)
  BY <1>3 DEF StartWrite, WriteKey, EndWrite
<1>4. CASE Unlock(c) \/ Return(c)
  BY <1>4 DEF Unlock, Return
<1>. QED
  BY <1>1, <1>2, <1>3, <1>4 DEF Work

(* Readers and the one writer stay apart (memory.go:35, 55, 83, 100).      *)
LEMMA LockStep ==
  ASSUME IInv, NEW c \in Client,
         \/ \E o \in Op : Call(c, o)
         \/ Cancel(c) \/ Acquire(c) \/ Work(c)
  PROVE  LockInv'
PROOF
<1> USE MemoryStateStoreAssumption
        DEF IInv, TypeOK, LockInv, Inside, Writes, GoTo, Answer, storeVars,
            callVars, lockVars
<1>0. \A d \in Client \ {c} : pc'[d] = pc[d] /\ op'[d] = op[d]
  BY OthersKept
<1>1. ASSUME NEW o \in Op, Call(c, o) PROVE LockInv'
  BY <1>0, <1>1 DEF Call
<1>2. CASE Cancel(c)
  BY <1>2 DEF Cancel
<1>3. CASE RLock(c)
  BY <1>0, <1>3 DEF RLock
<1>4. CASE Announce(c)
  BY <1>0, <1>4 DEF Announce
<1>5. CASE Reject(c)
  BY <1>0, <1>5 DEF Reject
<1>6. CASE Accept(c)
  BY <1>0, <1>6 DEF Accept
<1>7. CASE Lock(c)
  BY <1>0, <1>7 DEF Lock, CallInv
<1>8. CASE FailLate(c) \/ Look(c)
  BY <1>0, <1>8 DEF FailLate, Look, Deciding
<1>9. CASE StartWrite(c)
  BY <1>0, <1>9 DEF StartWrite, Deciding
<1>10. CASE WriteKey(c)
  BY <1>0, <1>10 DEF WriteKey
<1>11. CASE EndWrite(c)
  BY <1>0, <1>11 DEF EndWrite
<1>12. CASE Unlock(c)
  BY <1>0, <1>12 DEF Unlock
<1>13. CASE Return(c)
  BY <1>0, <1>13 DEF Return
<1>. QED
  BY <1>1, <1>2, <1>3, <1>4, <1>5, <1>6, <1>7, <1>8, <1>9, <1>10, <1>11,
     <1>12, <1>13 DEF Acquire, Work

(* A call goes from its arguments to its answer (memory.go:30-108).        *)
LEMMA CallStep ==
  ASSUME IInv, NEW c \in Client,
         \/ \E o \in Op : Call(c, o)
         \/ Cancel(c) \/ Acquire(c) \/ Work(c)
  PROVE  \A d \in Client : CallInv(d)'
PROOF
<1> USE MemoryStateStoreAssumption
        DEF IInv, TypeOK, CallInv, Inside, Writes, Valid, GoTo, Answer,
            storeVars, callVars, lockVars
<1>1. ASSUME NEW d \in Client, d # c PROVE CallInv(d)'
  <2>1. /\ pc'[d] = pc[d] /\ op'[d] = op[d]
        /\ answer'[d] = answer[d] /\ todo'[d] = todo[d]
    BY <1>1, OthersKept
  <2>2. CallInv(d)
    BY DEF IInv
  <2>. QED
    BY <2>1, <2>2
<1>2. CallInv(c)'
  <2>1. CASE (\E o \in Op : Call(c, o)) \/ Cancel(c)
    BY <2>1 DEF Call, Cancel
  <2>2. CASE RLock(c)
    BY <2>2 DEF RLock
  <2>3. CASE Announce(c)
    BY <2>3 DEF Announce
  <2>4. CASE Reject(c) \/ Accept(c) \/ Lock(c)
    BY <2>4 DEF Reject, Accept, Lock
  <2>5. CASE FailLate(c)
    BY <2>5 DEF FailLate
  <2>6. CASE Look(c)
    BY <2>6 DEF Look, Deciding
  <2>7. CASE StartWrite(c)
    BY <2>7 DEF StartWrite, Deciding
  <2>8. CASE WriteKey(c)
    BY <2>8 DEF WriteKey
  <2>9. CASE EndWrite(c)
    BY <2>9 DEF EndWrite
  <2>10. CASE Unlock(c)
    BY <2>10 DEF Unlock
  <2>11. CASE Return(c)
    BY <2>11 DEF Return
  <2>. QED
    BY <2>1, <2>2, <2>3, <2>4, <2>5, <2>6, <2>7, <2>8, <2>9, <2>10, <2>11
       DEF Acquire, Work
<1>. QED
  BY <1>1, <1>2

(* Whoever has decided and not yet left the lock as a writer is the only   *)
(* one to write (memory.go:55, 100).                                       *)
LEMMA OneWriter ==
  ASSUME IInv, NEW c \in Client, NEW d \in Client, c # d,
         pc[c] = "decide" \/ pc[c] = "write"
  PROVE  pc[d] # "write"
  BY MemoryStateStoreAssumption DEF IInv, LockInv, CallInv, Inside

(* A baseline is won by the call that finds none, and only by it           *)
(* (memory.go:60-72).                                                      *)
LEMMA WinsStep ==
  ASSUME IInv, NEW c \in Client,
         \/ \E o \in Op : Call(c, o)
         \/ Cancel(c) \/ Acquire(c) \/ Work(c)
  PROVE  WinsInv'
PROOF
<1> USE MemoryStateStoreAssumption
        DEF TypeOK, GoTo, Answer, storeVars, callVars, lockVars
<1>0. \A d \in Client \ {c} : pc'[d] = pc[d] /\ op'[d] = op[d]
  BY OthersKept
<1>t. TypeOK
  BY DEF IInv
<1>w. WinsInv
  BY DEF IInv
<1>1. ASSUME /\ UNCHANGED <<initialized, wins>>
             /\ \A s \in Source : Winning(c, s)' <=> Winning(c, s)
      PROVE  WinsInv'
  BY <1>0, <1>1, <1>w DEF WinsInv, Winning
<1>2. CASE (\E o \in Op : Call(c, o)) \/ Cancel(c) \/ Acquire(c)
  BY <1>t, <1>1, <1>2 DEF Call, Cancel, Acquire, RLock, Announce, Winning
<1>3. CASE Reject(c) \/ Accept(c) \/ Lock(c) \/ FailLate(c) \/ Look(c)
  BY <1>t, <1>1, <1>3 DEF Reject, Accept, Lock, FailLate, Look, Deciding,
     Winning
<1>4. CASE WriteKey(c)
  BY <1>t, <1>1, <1>4 DEF WriteKey, MarkItemSeen, Winning
<1>5. CASE Unlock(c) \/ Return(c)
  BY <1>t, <1>1, <1>5 DEF Unlock, Return, Winning
<1>6. CASE StartWrite(c)
  <2>1. \A d \in Client : \A s \in Source : ~Winning(d, s)
    BY <1>6, OneWriter DEF Winning, StartWrite, Deciding
  <2>2. CASE op[c].name = "mark"
    BY <1>t, <1>1, <1>6, <2>2 DEF StartWrite, Deciding, Winning
  <2>3. CASE op[c].name = "baseline"
    <3>1. /\ op[c].source \in Source /\ op[c].source \notin initialized
          /\ wins' = [wins EXCEPT ![op[c].source] = @ + 1]
          /\ UNCHANGED <<initialized, op>> /\ pc' = [pc EXCEPT ![c] = "write"]
      BY <1>6, <2>3 DEF StartWrite, Deciding, IsSourceInitialized, IInv,
         CallInv, Inside, Valid
    <3>2. \A s \in Source : Winning(c, s)' <=> s = op[c].source
      BY <1>t, <2>3, <3>1 DEF Winning
    <3>3. \A d \in Client \ {c} : \A s \in Source : ~Winning(d, s)'
      BY <1>0, <2>1 DEF Winning
    <3>4. \A s \in Source : wins'[s] = IF s = op[c].source THEN wins[s] + 1
                                                          ELSE wins[s]
      BY <1>t, <3>1
    <3>. QED
      BY <1>t, <1>w, <2>1, <3>1, <3>2, <3>3, <3>4 DEF WinsInv
  <2>. QED
    BY <1>6, <2>2, <2>3 DEF StartWrite, Deciding
<1>7. CASE EndWrite(c)
  <2>1. \A d \in Client \ {c} : \A s \in Source : ~Winning(d, s)
    BY <1>7, OneWriter DEF Winning, EndWrite
  <2>2. \A d \in Client : \A s \in Source : ~Winning(d, s)'
    BY <1>0, <1>t, <1>7, <2>1 DEF Winning, EndWrite
  <2>3. CASE op[c].name = "mark"
    BY <1>w, <1>7, <2>1, <2>2, <2>3 DEF EndWrite, WinsInv, Winning
  <2>4. CASE op[c].name = "baseline"
    <3>1. /\ op[c].source \in Source /\ wins' = wins
          /\ initialized' = initialized \cup {op[c].source}
      BY <1>7, <2>4 DEF EndWrite, IInv, CallInv, Inside, Valid
    <3>2. Winning(c, op[c].source)
      BY <1>7, <2>4 DEF EndWrite, Winning
    <3>3. \A s \in Source \ {op[c].source} :
            \A d \in Client : ~Winning(d, s)
      BY <2>1 DEF Winning
    <3>. QED
      BY <1>w, <2>2, <3>1, <3>2, <3>3 DEF WinsInv
  <2>. QED
    BY <1>7, <2>3, <2>4 DEF EndWrite
<1>. QED
  BY <1>2, <1>3, <1>4, <1>5, <1>6, <1>7 DEF Work

(* Every step of the store keeps its invariant (memory.go:30-108).         *)
LEMMA StepPreserves == IInv /\ [Next]_vars => IInv'
PROOF
<1> SUFFICES ASSUME IInv, [Next]_vars PROVE IInv'
  OBVIOUS
<1>1. TypeOK'
  BY TypeStep
<1>2. CASE UNCHANGED vars
  <2> USE <1>2 DEF vars, IInv
  <2>1. LockInv'
    BY DEF LockInv, Inside, Writes
  <2>2. \A c \in Client : CallInv(c)'
    BY DEF CallInv, Inside, Writes, Valid
  <2>3. WinsInv'
    BY DEF WinsInv, Winning
  <2>. QED
    BY <1>1, <2>1, <2>2, <2>3
<1>3. ASSUME NEW c \in Client,
             \/ \E o \in Op : Call(c, o)
             \/ Cancel(c) \/ Acquire(c) \/ Work(c)
      PROVE  IInv'
  <2>1. LockInv' /\ WinsInv' /\ \A d \in Client : CallInv(d)'
    BY <1>3, LockStep, WinsStep, CallStep
  <2>. QED
    BY <1>1, <2>1 DEF IInv
<1>. QED
  BY <1>2, <1>3 DEF Next

(* The lock excludes, a call is answered once, and a baseline is decided   *)
(* under the lock, in every reachable state (memory.go:30-108).            *)
THEOREM Invariance == Spec => []IInv
PROOF
<1>. QED
  BY InitEstablishes, StepPreserves, PTL DEF Spec

(* However many collections race to be a source's first, one of them wins  *)
(* the baseline (memory.go:54-73).                                         *)
THEOREM OneWinner == Spec => []BaselineWonOnce
PROOF
<1>1. IInv => BaselineWonOnce
  <2> SUFFICES ASSUME WinsInv, NEW s \in Source PROVE wins[s] <= 1
    BY DEF IInv, BaselineWonOnce
  <2>. QED
    BY DEF WinsInv
<1>. QED
  BY <1>1, Invariance, PTL
-----------------------------------------------------------------------------
(* What the abstract store is: the store while nobody writes, and all that *)
(* it will have written while a call does.                                 *)
BarsFit ==
  /\ (\A d \in Client : pc[d] # "write") =>
       seenBar = seen /\ initializedBar = initialized
  /\ \A c \in Client : pc[c] = "write" =>
       /\ seenBar = [seen EXCEPT ![op[c].source] = @ \cup todo[c]]
       /\ initializedBar = IF op[c].name = "baseline"
                           THEN initialized \cup {op[c].source}
                           ELSE initialized

(* The keys still to be written to a source, by whoever writes.            *)
Unwritten(s) ==
  UNION {todo[c] : c \in {d \in Client : pc[d] = "write" /\ op[d].source = s}}

(* Before the first write and after the last one the store is the one the  *)
(* callers know (memory.go:64-72, 103-107).                                *)
LEMMA BarsNow == IInv => BarsFit
PROOF
<1> SUFFICES ASSUME IInv PROVE BarsFit
  OBVIOUS
<1>1. /\ seen \in [Source -> SUBSET Key]
      /\ seenBar = [s \in Source |-> seen[s] \cup Unwritten(s)]
  BY DEF IInv, TypeOK, StoreTypeOK, seenBar, Unwritten
<1>2. ASSUME \A d \in Client : pc[d] # "write"
      PROVE  seenBar = seen /\ initializedBar = initialized
  <2>1. \A s \in Source : Unwritten(s) = {}
    BY <1>2 DEF Unwritten
  <2>2. initializedBar = initialized
    BY <1>2 DEF initializedBar
  <2>. QED
    BY <1>1, <2>1, <2>2
<1>3. ASSUME NEW c \in Client, pc[c] = "write"
      PROVE  /\ seenBar = [seen EXCEPT ![op[c].source] = @ \cup todo[c]]
             /\ initializedBar = IF op[c].name = "baseline"
                                 THEN initialized \cup {op[c].source}
                                 ELSE initialized
  <2>0. \A d \in Client : pc[d] = "write" <=> d = c
    BY <1>3, OneWriter
  <2>1. \A s \in Source :
          Unwritten(s) = IF s = op[c].source THEN todo[c] ELSE {}
    BY <2>0 DEF Unwritten
  <2>2. seenBar = [seen EXCEPT ![op[c].source] = @ \cup todo[c]]
    BY <1>1, <2>1
  <2>3. initializedBar = IF op[c].name = "baseline"
                         THEN initialized \cup {op[c].source} ELSE initialized
    BY <2>0 DEF initializedBar
  <2>. QED
    BY <2>2, <2>3
<1>. QED
  BY <1>2, <1>3 DEF BarsFit

(* The same of the state after a step.                                     *)
LEMMA BarsAfter == IInv' => BarsFit'
  BY BarsNow, PTL

(* A step that writes nothing leaves the abstract store alone.             *)
LEMMA BarsKept ==
  ASSUME IInv, IInv', NEW c \in Client,
         \/ \E o \in Op : Call(c, o)
         \/ Cancel(c) \/ Acquire(c) \/ Work(c),
         UNCHANGED <<initialized, seen, todo>>,
         pc'[c] = "write" <=> pc[c] = "write",
         pc[c] = "write" => op'[c] = op[c]
  PROVE  UNCHANGED <<initializedBar, seenBar>>
PROOF
<1>1. BarsFit /\ BarsFit'
  BY BarsNow, BarsAfter
<1>2. \A d \in Client :
        /\ pc'[d] = "write" <=> pc[d] = "write"
        /\ pc[d] = "write" => op'[d] = op[d]
  <2>1. \A d \in Client \ {c} : pc'[d] = pc[d] /\ op'[d] = op[d]
    BY OthersKept
  <2>. QED
    BY <2>1
<1>3. CASE \A d \in Client : pc[d] # "write"
  <2>1. \A d \in Client : pc'[d] # "write"
    BY <1>2, <1>3
  <2>2. seenBar = seen /\ initializedBar = initialized
    BY <1>1, <1>3 DEF BarsFit
  <2>3. seenBar' = seen' /\ initializedBar' = initialized'
    BY <1>1, <2>1 DEF BarsFit
  <2>. QED
    BY <2>2, <2>3
<1>4. ASSUME NEW d \in Client, pc[d] = "write"
      PROVE  UNCHANGED <<initializedBar, seenBar>>
  <2>1. pc'[d] = "write" /\ op'[d] = op[d]
    BY <1>2, <1>4
  <2>2. /\ seenBar = [seen EXCEPT ![op[d].source] = @ \cup todo[d]]
        /\ initializedBar = IF op[d].name = "baseline"
                            THEN initialized \cup {op[d].source}
                            ELSE initialized
    BY <1>1, <1>4 DEF BarsFit
  <2>3. /\ seenBar' = [seen' EXCEPT ![op'[d].source] = @ \cup todo'[d]]
        /\ initializedBar' = IF op'[d].name = "baseline"
                             THEN initialized' \cup {op'[d].source}
                             ELSE initialized'
    BY <1>1, <2>1 DEF BarsFit
  <2>. QED
    BY <2>1, <2>2, <2>3
<1>. QED
  BY <1>3, <1>4

(* Writing the keys one by one, and the mark of the source after them, is  *)
(* nothing new to the abstract store (memory.go:64-72, 103-107).           *)
LEMMA WritingKept ==
  ASSUME IInv, IInv', NEW c \in Client, WriteKey(c) \/ EndWrite(c)
  PROVE  UNCHANGED <<initializedBar, seenBar>>
PROOF
<1>1. BarsFit /\ BarsFit'
  BY BarsNow, BarsAfter
<1>2. pc[c] = "write" /\ op' = op
  BY DEF WriteKey, EndWrite, callVars
<1>t. /\ seen \in [Source -> SUBSET Key]
      /\ todo \in [Client -> SUBSET Key]
      /\ pc \in [Client -> PC]
  BY DEF IInv, TypeOK, StoreTypeOK
<1>3. /\ seenBar = [seen EXCEPT ![op[c].source] = @ \cup todo[c]]
      /\ initializedBar = IF op[c].name = "baseline"
                          THEN initialized \cup {op[c].source}
                          ELSE initialized
  BY <1>1, <1>2 DEF BarsFit
<1>4. CASE WriteKey(c)
  <2>1. PICK k \in todo[c] : /\ MarkItemSeen(op[c].source, k)
                             /\ todo' = [todo EXCEPT ![c] = @ \ {k}]
    BY <1>4 DEF WriteKey
  <2>2. /\ seenBar' = [seen' EXCEPT ![op[c].source] = @ \cup todo'[c]]
        /\ initializedBar' = IF op[c].name = "baseline"
                             THEN initialized' \cup {op[c].source}
                             ELSE initialized'
    BY <1>1, <1>2, <1>4 DEF BarsFit, WriteKey
  <2>3. /\ seen' = [seen EXCEPT ![op[c].source] = @ \cup {k}]
        /\ initialized' = initialized
        /\ todo'[c] = todo[c] \ {k}
    BY <1>t, <2>1 DEF MarkItemSeen
  <2>4. seenBar' = seenBar
    <3> DEFINE s == op[c].source
    <3>1. CASE s \in Source
      <4>1. (seen[s] \cup {k}) \cup (todo[c] \ {k}) = seen[s] \cup todo[c]
        BY <2>1
      <4>2. /\ seenBar' = [seen EXCEPT
                            ![s] = (@ \cup {k}) \cup (todo[c] \ {k})]
            /\ seenBar = [seen EXCEPT ![s] = @ \cup todo[c]]
        BY <1>3, <1>t, <2>2, <2>3, <3>1
      <4>. QED
        BY <1>t, <3>1, <4>1, <4>2
    <3>2. CASE s \notin Source
      BY <1>3, <1>t, <2>2, <2>3, <3>2
    <3>. QED
      BY <3>1, <3>2
  <2>. QED
    BY <1>3, <2>2, <2>3, <2>4
<1>5. CASE EndWrite(c)
  <2>1. \A d \in Client : pc'[d] # "write"
    BY <1>2, <1>5, <1>t, OneWriter DEF EndWrite, GoTo
  <2>2. seenBar' = seen' /\ initializedBar' = initialized'
    BY <1>1, <2>1 DEF BarsFit
  <2>3. seenBar' = seenBar
    <3>1. seenBar = [seen EXCEPT ![op[c].source] = @ \cup {}] /\ seen' = seen
      BY <1>3, <1>5 DEF EndWrite
    <3>2. \A s \in Source : seen[s] \cup {} = seen[s]
      OBVIOUS
    <3>. QED
      BY <1>t, <2>2, <3>1, <3>2
  <2>4. initializedBar' = initializedBar
    <3>1. /\ op[c].name = "baseline" =>
               initialized' = initialized \cup {op[c].source}
          /\ op[c].name # "baseline" => initialized' = initialized
      BY <1>5 DEF EndWrite
    <3>. QED
      BY <1>3, <2>2, <3>1
  <2>. QED
    BY <2>3, <2>4
<1>. QED
  BY <1>4, <1>5

(* A call is decided while nobody writes, with valid arguments.            *)
LEMMA DecidedAlone ==
  ASSUME IInv, NEW c \in Client, pc[c] = "decide"
  PROVE  /\ seenBar = seen /\ initializedBar = initialized
         /\ op[c] # NoOp /\ answer[c] = "none"
         /\ Valid(c)
PROOF
<1>1. \A d \in Client : pc[d] # "write"
  BY OneWriter
<1>2. seenBar = seen /\ initializedBar = initialized
  BY <1>1, BarsNow DEF BarsFit
<1>. QED
  BY <1>2 DEF IInv, CallInv, Inside

(* The write of a call, as the abstract store sees it: all at once, when   *)
(* the call is decided (memory.go:60-72, 103-107).                         *)
LEMMA WriteDecided ==
  ASSUME IInv, IInv', NEW c \in Client, StartWrite(c)
  PROVE  Atomic!Establish(c) \/ Atomic!MarkItem(c)
PROOF
<1> USE DEF IInv, TypeOK, StoreTypeOK, callVars, lockVars, storeVars
<1>1. /\ seenBar = seen /\ initializedBar = initialized
      /\ op[c] # NoOp /\ answer[c] = "none" /\ Valid(c) /\ ~canceled[c]
  BY DecidedAlone DEF StartWrite, Deciding
<1>2. /\ pc'[c] = "write" /\ todo'[c] = op[c].keys
      /\ UNCHANGED <<op, canceled, seen, initialized>>
  BY DEF StartWrite, GoTo
<1>3. /\ seenBar' = [seenBar EXCEPT ![op[c].source] = @ \cup op[c].keys]
      /\ initializedBar' = IF op[c].name = "baseline"
                           THEN initializedBar \cup {op[c].source}
                           ELSE initializedBar
  BY <1>1, <1>2, BarsAfter DEF BarsFit
<1>4. CASE Deciding(c, "baseline")
  <2>1. /\ op[c].name = "baseline" /\ op[c].source \notin initializedBar
        /\ answer' = [answer EXCEPT ![c] = "yes"]
    BY <1>1, <1>4 DEF StartWrite, Deciding, Answer, IsSourceInitialized
  <2>. QED
    BY <1>1, <1>2, <1>3, <2>1 DEF Atomic!Establish, Atomic!EstablishBaseline,
       Atomic!Allowed, Atomic!Pending, Atomic!Valid, Atomic!Decide,
       Atomic!IsSourceInitialized, Valid
<1>5. CASE Deciding(c, "mark")
  <2>1. op[c].name = "mark" /\ answer' = [answer EXCEPT ![c] = "done"]
    BY <1>5 DEF StartWrite, Deciding, Answer
  <2>2. PICK k \in op[c].keys : op[c].keys = {k}
    BY <1>1, <2>1, MemoryStateStoreAssumption
  <2>. QED
    BY <1>1, <1>2, <1>3, <2>1, <2>2 DEF Atomic!MarkItem, Atomic!MarkItemSeen,
       Atomic!Allowed, Atomic!Pending, Atomic!Valid, Atomic!Decide, Valid
<1>. QED
  BY <1>4, <1>5 DEF StartWrite

(* What a call finds under the lock is what the abstract store holds       *)
(* (memory.go:40-51, 60-63, 87-93).                                        *)
LEMMA LookDecided ==
  ASSUME IInv, IInv', NEW c \in Client, Look(c)
  PROVE  \/ Atomic!AskInitialized(c) \/ Atomic!AskItem(c)
         \/ Atomic!Establish(c)
PROOF
<1> USE DEF callVars, lockVars, storeVars
<1>1. /\ seenBar = seen /\ initializedBar = initialized
      /\ op[c] # NoOp /\ answer[c] = "none" /\ Valid(c) /\ ~canceled[c]
  BY DecidedAlone DEF Look, Deciding
<1>2. UNCHANGED <<initializedBar, seenBar, op, canceled>>
  <2>1. pc[c] = "decide" /\ pc'[c] = "unlock"
    BY DEF Look, Deciding, GoTo, IInv, TypeOK
  <2>2. UNCHANGED <<initialized, seen, todo, op, canceled>>
    BY DEF Look
  <2>. QED
    BY <2>1, <2>2, BarsKept DEF Work
<1> USE DEF Atomic!Allowed, Atomic!Pending, Atomic!Valid, Atomic!Decide,
     Atomic!storeVars, Valid, Deciding, Answer
<1>3. CASE Deciding(c, "initialized")
  BY <1>1, <1>2, <1>3 DEF Look, Atomic!AskInitialized, IsSourceInitialized,
     Atomic!IsSourceInitialized
<1>4. CASE Deciding(c, "has")
  BY <1>1, <1>2, <1>4 DEF Look, Atomic!AskItem, HasItem, Atomic!HasItem
<1>5. CASE Deciding(c, "baseline")
  BY <1>1, <1>2, <1>5 DEF Look, Atomic!Establish, IsSourceInitialized,
     Atomic!IsSourceInitialized
<1>. QED
  BY <1>3, <1>4, <1>5 DEF Look

(* Every step of the store is a step of the abstract one, or none.         *)
LEMMA StepImplements ==
  ASSUME IInv, IInv', [Next]_vars
  PROVE  [Atomic!Next]_(Atomic!vars)
PROOF
<1> USE DEF callVars, lockVars, storeVars
<1>1. CASE UNCHANGED vars
  BY <1>1 DEF vars, Atomic!vars, seenBar, initializedBar
<1>2. ASSUME NEW c \in Client,
             \/ \E o \in Op : Call(c, o)
             \/ Cancel(c) \/ Acquire(c) \/ Work(c)
      PROVE  Atomic!Next \/ UNCHANGED Atomic!vars
  <2>t. TypeOK /\ CallInv(c)
    BY DEF IInv
  <2>k. ASSUME UNCHANGED <<initialized, seen, todo>>,
               pc[c] # "write", pc'[c] # "write"
        PROVE  UNCHANGED <<initializedBar, seenBar>>
    BY <1>2, <2>k, BarsKept
  <2>1. ASSUME NEW o \in Op, Call(c, o) PROVE Atomic!Call(c, o)
    <3>1. /\ op[c] = NoOp /\ op' = [op EXCEPT ![c] = o]
          /\ UNCHANGED <<initialized, seen, todo, canceled, answer>>
          /\ pc[c] # "write" /\ pc'[c] # "write"
      BY <2>1, <2>t DEF Call, CallInv, GoTo, TypeOK
    <3>. QED
      BY <2>k, <3>1 DEF Atomic!Call, Atomic!storeVars
  <2>2. CASE Cancel(c)
    <3>1. /\ op[c] # NoOp /\ canceled' = [canceled EXCEPT ![c] = TRUE]
          /\ UNCHANGED <<initialized, seen, todo, op, answer, pc>>
      BY <2>2, <2>t DEF Cancel, CallInv
    <3>2. UNCHANGED <<initializedBar, seenBar>>
      BY <1>2, <3>1, BarsKept
    <3>. QED
      BY <3>1, <3>2 DEF Atomic!Cancel, Atomic!storeVars, Atomic!Next
  <2>3. CASE Reject(c) \/ FailLate(c)
    <3>1. /\ op[c] # NoOp /\ answer[c] = "none"
          /\ canceled[c] \/ ~Valid(c)
          /\ answer' = [answer EXCEPT ![c] = "error"]
          /\ UNCHANGED <<initialized, seen, todo, op, canceled>>
          /\ pc[c] # "write" /\ pc'[c] # "write"
      BY <2>3, <2>t DEF Reject, FailLate, CallInv, GoTo, Answer, TypeOK
    <3>2. UNCHANGED <<initializedBar, seenBar>>
      BY <2>k, <3>1
    <3>. QED
      BY <3>1, <3>2 DEF Atomic!Fail, Atomic!Pending, Atomic!Valid, Valid,
         Atomic!Decide, Atomic!storeVars, Atomic!Next
  <2>4. CASE Accept(c) \/ Acquire(c) \/ Lock(c) \/ Unlock(c)
    <3>1. /\ UNCHANGED <<initialized, seen, todo, op, canceled, answer>>
          /\ pc[c] # "write" /\ pc'[c] # "write"
      BY <2>4, <2>t DEF Accept, Acquire, RLock, Announce, Lock, Unlock, GoTo,
         TypeOK
    <3>. QED
      BY <2>k, <3>1 DEF Atomic!vars
  <2>5. CASE WriteKey(c) \/ EndWrite(c)
    BY <2>5, WritingKept DEF Atomic!vars, WriteKey, EndWrite
  <2>6. CASE Return(c)
    <3>1. /\ op[c] # NoOp /\ answer[c] # "none"
          /\ op' = [op EXCEPT ![c] = NoOp]
          /\ canceled' = [canceled EXCEPT ![c] = FALSE]
          /\ answer' = [answer EXCEPT ![c] = "none"]
          /\ UNCHANGED <<initialized, seen, todo>>
          /\ pc[c] # "write" /\ pc'[c] # "write"
      BY <2>6, <2>t DEF Return, CallInv, GoTo, TypeOK
    <3>2. UNCHANGED <<initializedBar, seenBar>>
      BY <2>k, <3>1
    <3>. QED
      BY <3>1, <3>2 DEF Atomic!Return, Atomic!storeVars, Atomic!Next
  <2>. QED
    BY <1>2, <2>1, <2>2, <2>3, <2>4, <2>5, <2>6, LookDecided, WriteDecided
       DEF Work, Atomic!Next
<1>. QED
  BY <1>1, <1>2 DEF Next

(* The store is linearizable: every call takes effect at one point between *)
(* its call and its return, a failed one not at all, and no reader meets a *)
(* half-written baseline (store.go:7-17, memory.go:30-108).                *)
THEOREM Linearizable == Spec => ImplementsAtomicStore
PROOF
<1>1. Init => Atomic!Init
  <2> SUFFICES ASSUME Init PROVE Atomic!Init
    OBVIOUS
  <2>1. seenBar = seen /\ initializedBar = initialized
    <3>1. \A d \in Client : pc[d] # "write"
      BY DEF Init
    <3>. QED
      BY <3>1, InitEstablishes, BarsNow DEF BarsFit
  <2>. QED
    BY <2>1 DEF Init, StoreInit, Atomic!Init, Atomic!StoreInit
<1>2. IInv /\ IInv' /\ [Next]_vars => [Atomic!Next]_(Atomic!vars)
  BY StepImplements
<1>. QED
  BY <1>1, <1>2, Invariance, PTL DEF Spec, ImplementsAtomicStore, Atomic!Spec
-----------------------------------------------------------------------------
(* An item has an identity when one of its four texts is usable            *)
(* (builder.go:22-37).                                                     *)
LEMMA IdentifiedBy ==
  ASSUME NEW i
  PROVE  Identified(i) <=> \/ usable(i.ExternalID) \/ usable(i.URL)
                           \/ usable(i.Title) \/ usable(i.Content)
PROOF
<1>1. \A f \in {"ExternalID", "URL", "Title", "Content"} :
        \/ f = "ExternalID" \/ f = "URL" \/ f = "Title" \/ f = "Content"
  OBVIOUS
<1>. QED
  BY <1>1 DEF Identified

(* The timestamp identifies an item only together with a title.            *)
Dateable(i) == Dated(i) /\ usable(i.Title)

(* The four ways a key comes about, and when there is none                 *)
(* (builder.go:22-42).                                                     *)
LEMMA BuildCases ==
  ASSUME NEW i \in MonitorItem
  PROVE  /\ usable(i.ExternalID) => Build(i) = <<"external", i.ExternalID>>
         /\ ~usable(i.ExternalID) /\ usable(i.URL) =>
              Build(i) = <<"url", i.URL>>
         /\ ~usable(i.ExternalID) /\ ~usable(i.URL) =>
              /\ Dateable(i) => Build(i) =
                   <<"published", i.PublishedAt.instant, i.Title>>
              /\ ~Dateable(i) /\ (usable(i.Title) \/ usable(i.Content)) =>
                   Build(i) = <<"content", i.Title, i.Content>>
              /\ ~usable(i.Title) /\ ~usable(i.Content) => Build(i) = NoKey
  BY DEF Build, Dateable, UTC, Hashable

(* Tags tell the kinds of keys apart, and a key determines its fields.     *)
LEMMA KeysDiffer ==
  ASSUME NEW a, NEW b, NEW c, NEW d
  PROVE  /\ <<"external", a>> # <<"url", b>>
         /\ <<"external", a>> # <<"published", b, c>>
         /\ <<"external", a>> # <<"content", b, c>>
         /\ <<"url", a>> # <<"published", b, c>>
         /\ <<"url", a>> # <<"content", b, c>>
         /\ <<"published", a, b>> # <<"content", c, d>>
         /\ <<"external", a>> = <<"external", b>> => a = b
         /\ <<"url", a>> = <<"url", b>> => a = b
         /\ <<"published", a, b>> = <<"published", c, d>> => a = c /\ b = d
         /\ <<"content", a, b>> = <<"content", c, d>> => a = c /\ b = d
  OBVIOUS

(* For all revisions of an item that have an identity: the keys are equal  *)
(* if and only if the identities are (builder.go:22-42).                   *)
THEOREM BuildIsInjectiveOnIdentity ==
  ASSUME NEW i \in MonitorItem, NEW j \in MonitorItem,
         Identified(i), Identified(j)
  PROVE  Build(i) = Build(j) <=> SameIdentity(i, j)
PROOF
<1> USE KeysDiffer, BuildCases DEF SameIdentity
<1>1. CASE usable(i.ExternalID) \/ usable(j.ExternalID)
  BY <1>1, IdentifiedBy
<1>2. CASE /\ ~usable(i.ExternalID) /\ ~usable(j.ExternalID)
           /\ usable(i.URL) \/ usable(j.URL)
  BY <1>2, IdentifiedBy
<1>3. CASE /\ ~usable(i.ExternalID) /\ ~usable(j.ExternalID)
           /\ ~usable(i.URL) /\ ~usable(j.URL)
  BY <1>3, IdentifiedBy DEF Dateable, SameInstant
<1>. QED
  BY <1>1, <1>2, <1>3
-----------------------------------------------------------------------------
(* Both revisions stay items of their type.                                *)
THEOREM RevisionsTyped == RevisionSpec => []RevisionTypeOK
PROOF
<1>1. RevisionInit => RevisionTypeOK
  BY DEF RevisionInit, RevisionTypeOK
<1>2. ASSUME RevisionTypeOK, [RevisionNext]_revisions PROVE RevisionTypeOK'
  <2>1. ASSUME NEW f \in {"ExternalID", "URL", "Title", "Content"},
               NEW t \in Text
        PROVE  [item EXCEPT ![f] = t] \in MonitorItem
    BY <1>2 DEF RevisionTypeOK, MonitorItem
  <2>2. ASSUME NEW d \in Timestamp
        PROVE  [item EXCEPT !.PublishedAt = d] \in MonitorItem
    BY <1>2 DEF RevisionTypeOK, MonitorItem
  <2>. QED
    BY <1>2, <2>1, <2>2 DEF RevisionTypeOK, RevisionNext, Revise, revisions
<1>. QED
  BY <1>1, <1>2, PTL DEF RevisionSpec

(* Whatever the publisher revises, an item keeps its key exactly while it  *)
(* keeps its identity (builder.go:22-42).                                  *)
THEOREM KeyIsAlwaysIdentity == RevisionSpec => []KeyIsIdentity
<1>1. RevisionTypeOK => KeyIsIdentity
  BY BuildIsInjectiveOnIdentity DEF RevisionTypeOK, KeyIsIdentity
<1>. QED BY RevisionsTyped, <1>1, PTL

(* A key is missing only when no text of the item is usable                *)
(* (builder.go:35-37).                                                     *)
THEOREM KeyExists == RevisionSpec => []KeyExistsIffIdentified
<1>1. RevisionTypeOK => KeyExistsIffIdentified
  <2> SUFFICES ASSUME RevisionTypeOK PROVE KeyExistsIffIdentified
    OBVIOUS
  <2>1. item \in MonitorItem BY DEF RevisionTypeOK
  <2>2. /\ item.ExternalID \in Text /\ item.URL \in Text
        /\ item.Title \in Text /\ item.Content \in Text
    BY <2>1 DEF MonitorItem
  <2>3. Dateable(item) => /\ usable(item.Title)
                          /\ item.PublishedAt.instant \in Instant
    BY <2>1 DEF Dateable, Dated, MonitorItem, Timestamp
  <2>. QED
    BY <2>1, <2>2, <2>3, ItemKeyAssumption, BuildCases, IdentifiedBy
       DEF KeyExistsIffIdentified
<1>. QED BY RevisionsTyped, <1>1, PTL
=============================================================================
