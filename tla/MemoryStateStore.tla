-------------------------- MODULE MemoryStateStore --------------------------
(***************************************************************************)
(* MemoryStateStore (internal/state/memory.go) step by step: the checks in *)
(* front of the lock, the read-write lock, the second look at the context  *)
(* under it, and the writes, one map entry at a time.  A missing map or a  *)
(* missing entry is the empty set, as reading a nil map is in Go, so that  *)
(* the zero value and NewMemoryStateStore() are one initial state.         *)
(***************************************************************************)
EXTENDS StateStore, Naturals

CONSTANTS Client, Op, NoOp, NoClient

ASSUME MemoryStateStoreAssumption ==
  /\ NoOp \notin Op
  /\ NoClient \notin Client
  /\ \A o \in Op :
       /\ o.name \in {"initialized", "baseline", "has", "mark"}
       /\ o.name \in {"has", "mark"} => \E k \in o.keys : o.keys = {k}

VARIABLES
  pc,                \* where client c stands in its operation
  op,                \* op[c]: the operation and its arguments
  canceled,          \* canceled[c]: the context of the call is done
  answer,            \* answer[c]: what the call will return
  readers, writer,   \* who holds mu, or has announced itself
  todo,              \* todo[c]: keys c has still to write
  wins               \* history: how often a source's baseline was won

lockVars == <<readers, writer>>
callVars == <<op, canceled>>
vars == <<initialized, seen, pc, op, canceled, answer, readers, writer, todo,
          wins>>

PC == {"idle", "validate", "lock", "drain", "decide", "write",
       "unlock", "return"}

TypeOK ==
  /\ StoreTypeOK
  /\ pc \in [Client -> PC]
  /\ op \in [Client -> Op \cup {NoOp}]
  /\ canceled \in [Client -> BOOLEAN]
  /\ answer \in [Client -> {"none", "yes", "no", "done", "error"}]
  /\ readers \in SUBSET Client
  /\ writer \in Client \cup {NoClient}
  /\ todo \in [Client -> SUBSET Key]
  /\ wins \in [Source -> Nat]

Init ==
  /\ StoreInit
  /\ pc = [c \in Client |-> "idle"]
  /\ op = [c \in Client |-> NoOp]
  /\ canceled = [c \in Client |-> FALSE]
  /\ answer = [c \in Client |-> "none"]
  /\ readers = {} /\ writer = NoClient
  /\ todo = [c \in Client |-> {}]
  /\ wins = [s \in Source |-> 0]

GoTo(c, l) == pc' = [pc EXCEPT ![c] = l]
Answer(c, a) == answer' = [answer EXCEPT ![c] = a]

Writes(c) == op[c].name \in {"baseline", "mark"}
(* Variant: only the source is validated. *)
ValidSource(c) == op[c].source \in Source

Valid(c) == op[c].source \in Source /\ op[c].keys \subseteq Key
-----------------------------------------------------------------------------
Call(c, o) ==
  /\ pc[c] = "idle"
  /\ op' = [op EXCEPT ![c] = o]
  /\ GoTo(c, "validate")
  /\ UNCHANGED <<storeVars, canceled, answer, lockVars, todo, wins>>

Cancel(c) ==
  /\ pc[c] # "idle"
  /\ ~canceled[c]
  /\ canceled' = [canceled EXCEPT ![c] = TRUE]
  /\ UNCHANGED <<storeVars, pc, op, answer, lockVars, todo, wins>>

(* validateContextAndSource, validateContextSourceAndKey, and the loop     *)
(* over itemKeys: all before the lock.                                     *)
Reject(c) ==
  /\ pc[c] = "validate"
  /\ canceled[c] \/ ~Valid(c)
  /\ Answer(c, "error")
  /\ GoTo(c, "return")
  /\ UNCHANGED <<storeVars, callVars, lockVars, todo, wins>>

Accept(c) ==
  /\ pc[c] = "validate"
  /\ ~canceled[c] /\ Valid(c)
  /\ GoTo(c, "lock")
  /\ UNCHANGED <<storeVars, callVars, answer, lockVars, todo, wins>>

(* Variant: a reader enters beside a writer. *)
RLockAnyway(c) ==
  /\ pc[c] = "lock"
  /\ ~Writes(c)
  /\ readers' = readers \cup {c}
  /\ GoTo(c, "decide")
  /\ UNCHANGED <<storeVars, callVars, answer, writer, todo, wins>>

(* sync.RWMutex: a writer announces itself, which keeps new readers and    *)
(* other writers out, and then waits until the readers inside have left.   *)
RLock(c) ==
  /\ pc[c] = "lock"
  /\ ~Writes(c)
  /\ writer = NoClient
  /\ readers' = readers \cup {c}
  /\ GoTo(c, "decide")
  /\ UNCHANGED <<storeVars, callVars, answer, writer, todo, wins>>

(* Variant: a writer enters beside a writer; a writer waits for the readers
   without keeping new ones out. *)
AnnounceAnyway(c) ==
  /\ pc[c] = "lock"
  /\ Writes(c)
  /\ writer' = c
  /\ GoTo(c, "drain")
  /\ UNCHANGED <<storeVars, callVars, answer, readers, todo, wins>>
AnnounceLate(c) ==
  /\ pc[c] = "lock"
  /\ Writes(c)
  /\ writer = NoClient /\ readers = {}
  /\ writer' = c
  /\ GoTo(c, "drain")
  /\ UNCHANGED <<storeVars, callVars, answer, readers, todo, wins>>

Announce(c) ==
  /\ pc[c] = "lock"
  /\ Writes(c)
  /\ writer = NoClient
  /\ writer' = c
  /\ GoTo(c, "drain")
  /\ UNCHANGED <<storeVars, callVars, answer, readers, todo, wins>>

Lock(c) ==
  /\ pc[c] = "drain"
  /\ readers = {}
  /\ GoTo(c, "decide")
  /\ UNCHANGED <<storeVars, callVars, answer, lockVars, todo, wins>>
-----------------------------------------------------------------------------
(* Under the lock: the context again, then what the operation finds.       *)
FailLate(c) ==
  /\ pc[c] = "decide"
  /\ canceled[c]
  /\ Answer(c, "error")
  /\ GoTo(c, "unlock")
  /\ UNCHANGED <<storeVars, callVars, lockVars, todo, wins>>

Deciding(c, n) == pc[c] = "decide" /\ ~canceled[c] /\ op[c].name = n

(* IsSourceInitialized and HasItem; and EstablishBaseline when another     *)
(* call was first.                                                         *)
Look(c) ==
  /\ \/ /\ Deciding(c, "initialized")
        /\ Answer(c, IF IsSourceInitialized(op[c].source) THEN "yes" ELSE "no")
     \/ /\ Deciding(c, "has")
        /\ \E k \in op[c].keys :
             Answer(c, IF HasItem(op[c].source, k) THEN "yes" ELSE "no")
     \/ /\ Deciding(c, "baseline")
        /\ IsSourceInitialized(op[c].source)
        /\ Answer(c, "no")
  /\ GoTo(c, "unlock")
  /\ UNCHANGED <<storeVars, callVars, lockVars, todo, wins>>

StartWrite(c) ==
  /\ \/ /\ Deciding(c, "mark")
        /\ Answer(c, "done")
        /\ UNCHANGED wins
     \/ /\ Deciding(c, "baseline")
        /\ ~IsSourceInitialized(op[c].source)
        /\ Answer(c, "yes")
        /\ wins' = [wins EXCEPT ![op[c].source] = @ + 1]
  /\ todo' = [todo EXCEPT ![c] = op[c].keys]
  /\ GoTo(c, "write")
  /\ UNCHANGED <<storeVars, callVars, lockVars>>

WriteKey(c) ==
  /\ pc[c] = "write"
  /\ \E k \in todo[c] :
       /\ MarkItemSeen(op[c].source, k)
       /\ todo' = [todo EXCEPT ![c] = @ \ {k}]
  /\ UNCHANGED <<pc, callVars, answer, lockVars, wins>>

EndWrite(c) ==
  /\ pc[c] = "write"
  /\ todo[c] = {}
  /\ \/ /\ op[c].name = "baseline"
        /\ initialized' = initialized \cup {op[c].source}
     \/ /\ op[c].name = "mark"
        /\ UNCHANGED initialized
  /\ GoTo(c, "unlock")
  /\ UNCHANGED <<seen, callVars, answer, lockVars, todo, wins>>

Unlock(c) ==
  /\ pc[c] = "unlock"
  /\ readers' = readers \ {c}
  /\ writer' = IF writer = c THEN NoClient ELSE writer
  /\ GoTo(c, "return")
  /\ UNCHANGED <<storeVars, callVars, answer, todo, wins>>

Return(c) ==
  /\ pc[c] = "return"
  /\ GoTo(c, "idle")
  /\ op' = [op EXCEPT ![c] = NoOp]
  /\ canceled' = [canceled EXCEPT ![c] = FALSE]
  /\ answer' = [answer EXCEPT ![c] = "none"]
  /\ UNCHANGED <<storeVars, lockVars, todo, wins>>
-----------------------------------------------------------------------------
Acquire(c) == RLock(c) \/ Announce(c)

Work(c) == \/ Reject(c) \/ Accept(c) \/ Lock(c)
           \/ FailLate(c) \/ Look(c) \/ StartWrite(c) \/ WriteKey(c)
           \/ EndWrite(c) \/ Unlock(c) \/ Return(c)

Next == \E c \in Client :
          \/ \E o \in Op : Call(c, o)
          \/ Cancel(c) \/ Acquire(c) \/ Work(c)

Spec == Init /\ [][Next]_vars

(* Running code goes on.  A waiting writer's mutex is granted in turn, and  *)
(* an unlocking writer lets the waiting readers in: nobody is passed over  *)
(* for ever.                                                               *)
Fairness == \A c \in Client : WF_vars(Work(c)) /\ SF_vars(Acquire(c))

FairSpec == Spec /\ Fairness
-----------------------------------------------------------------------------
(* Who is inside: readers, or the one writer once they have left.          *)
Inside(c) == pc[c] \in {"decide", "write", "unlock"}

LockInv ==
  /\ \A c \in Client : c \in readers <=> Inside(c) /\ ~Writes(c)
  /\ \A c \in Client :
       writer = c <=> (Inside(c) \/ pc[c] = "drain") /\ Writes(c)
  /\ \A c \in Client : Inside(c) /\ Writes(c) => readers = {}

(* A call, from its arguments to its answer.                               *)
CallInv(c) ==
  /\ pc[c] = "idle" <=> op[c] = NoOp
  /\ pc[c] \in {"lock", "drain"} \/ Inside(c) => Valid(c)
  /\ answer[c] = "none" <=>
       pc[c] \in {"idle", "validate", "lock", "drain", "decide"}
  /\ pc[c] \in {"drain", "write"} => Writes(c)
  /\ IF pc[c] = "write" THEN todo[c] \subseteq op[c].keys ELSE todo[c] = {}

(* A baseline is under way for c's source, or established: it was won once.*)
Winning(c, s) == /\ pc[c] = "write" /\ op[c].name = "baseline"
                 /\ op[c].source = s

WinsInv ==
  \A s \in Source :
    IF s \in initialized
    THEN wins[s] = 1 /\ \A c \in Client : ~Winning(c, s)
    ELSE wins[s] = IF \E c \in Client : Winning(c, s) THEN 1 ELSE 0

(* The inductive invariant of the store: the lock keeps readers and the    *)
(* one writer apart, and a baseline is decided under it                    *)
(* (memory.go:30-108).                                                     *)
IInv == /\ TypeOK
        /\ LockInv
        /\ \A c \in Client : CallInv(c)
        /\ WinsInv

(* However many collections race to be a source's first, one of them wins  *)
(* the baseline (memory.go:54-73).                                         *)
BaselineWonOnce == \A s \in Source : wins[s] <= 1

(* An operation is decided under the lock; the writes still to come belong *)
(* to the store as everyone else will see it.                              *)
seenBar == [s \in Source |-> seen[s] \cup
             UNION {todo[c] : c \in {d \in Client : pc[d] = "write" /\
                                                    op[d].source = s}}]

initializedBar == initialized \cup
  {op[c].source : c \in {d \in Client : pc[d] = "write" /\
                                        op[d].name = "baseline"}}

Atomic == INSTANCE AtomicStore
            WITH seen <- seenBar, initialized <- initializedBar

(* The store is linearizable: every call takes effect at one point between *)
(* its call and its return, a failed one not at all, and no reader meets a *)
(* half-written baseline (store.go:7-17, memory.go:30-108).                *)
ImplementsAtomicStore == Atomic!Spec

(* Every call returns: nobody waits for the lock for ever.                 *)
CallReturns == \A c \in Client : pc[c] # "idle" ~> pc[c] = "idle"
=============================================================================
