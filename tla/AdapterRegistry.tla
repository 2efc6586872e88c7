-------------------------- MODULE AdapterRegistry --------------------------
(***************************************************************************)
(* SourceAdapterRegistry and SourceRunner (internal/source) at the level   *)
(* of the registry's lock: goroutines register adapters, look them up, and *)
(* run the adapter of a type.                                              *)
(***************************************************************************)
EXTENDS AtomicRegistry

CONSTANT NoClient

ASSUME ClientAssumption == NoClient \notin Client

VARIABLES
  pc,        \* "idle", "called", then "locked", "absent", "unlock" for a
             \* writer, "reading", "runlock" for a reader, "collect", "return"
  writer,    \* the client that holds mu for writing, or NoClient
  readers,   \* the clients that hold it for reading
  adapter    \* adapter[c]: what the lookup of a run returned

lockVars == <<writer, readers>>
registryVars == <<vars, pc, lockVars, adapter>>

RegistryInit ==
  /\ Init
  /\ pc = [c \in Client |-> "idle"]
  /\ writer = NoClient /\ readers = {}
  /\ adapter = [c \in Client |-> Nil]

At(c, l) == pc[c] = l
GoTo(c, l) == pc' = [pc EXCEPT ![c] = l]
Type(c) == request[c].type

Begin(c, r) ==
  /\ At(c, "idle")
  /\ Call(c, r)
  /\ GoTo(c, "called")
  /\ UNCHANGED <<lockVars, adapter>>

(* Register: ErrNilSourceAdapter, before the lock.                         *)
RefuseNil(c) ==
  /\ At(c, "called")
  /\ request[c].name = "register" /\ request[c].adapter = Nil
  /\ Decide(c, "error")
  /\ GoTo(c, "return")
  /\ UNCHANGED <<adapters, lockVars, adapter>>

(* Variant: Register holds the lock as a reader does. *)
LockShared(c) ==
  /\ At(c, "called")
  /\ request[c].name = "register" /\ request[c].adapter # Nil
  /\ writer = NoClient \/ writer \in Client
  /\ writer' = c
  /\ GoTo(c, "locked")
  /\ UNCHANGED <<vars, readers, adapter>>

(* External: sync.RWMutex lets a writer in alone, and readers without one. *)
Lock(c) ==
  /\ At(c, "called")
  /\ request[c].name = "register" /\ request[c].adapter # Nil
  /\ writer = NoClient /\ readers = {}
  /\ writer' = c
  /\ GoTo(c, "locked")
  /\ UNCHANGED <<vars, readers, adapter>>

(* The map is made when it is nil, which no client can tell from empty.    *)
Exists(c) ==
  /\ At(c, "locked")
  /\ adapters[Type(c)] # Nil
  /\ Decide(c, "error")
  /\ GoTo(c, "unlock")
  /\ UNCHANGED <<adapters, lockVars, adapter>>

Absent(c) ==
  /\ At(c, "locked")
  /\ adapters[Type(c)] = Nil
  /\ GoTo(c, "absent")
  /\ UNCHANGED <<vars, lockVars, adapter>>

Write(c) ==
  /\ At(c, "absent")
  /\ adapters' = [adapters EXCEPT ![Type(c)] = request[c].adapter]
  /\ Decide(c, "done")
  /\ GoTo(c, "unlock")
  /\ UNCHANGED <<lockVars, adapter>>

Unlock(c) ==
  /\ At(c, "unlock")
  /\ writer' = NoClient
  /\ GoTo(c, "return")
  /\ UNCHANGED <<vars, readers, adapter>>

RLock(c) ==
  /\ At(c, "called")
  /\ request[c].name \in {"lookup", "run"}
  /\ writer = NoClient
  /\ readers' = readers \cup {c}
  /\ GoTo(c, "reading")
  /\ UNCHANGED <<vars, writer, adapter>>

(* Lookup reads the map; a run keeps what it found for its own use.        *)
Read(c) ==
  /\ At(c, "reading")
  /\ IF request[c].name = "run" /\ adapters[Type(c)] # Nil
     THEN /\ adapter' = [adapter EXCEPT ![c] = adapters[Type(c)]]
          /\ UNCHANGED vars
     ELSE Use(c) /\ UNCHANGED adapter
  /\ GoTo(c, "runlock")
  /\ UNCHANGED lockVars

RUnlock(c) ==
  /\ At(c, "runlock")
  /\ readers' = readers \ {c}
  /\ GoTo(c, IF answer[c] = "none" THEN "collect" ELSE "return")
  /\ UNCHANGED <<vars, writer, adapter>>

(* Run: adapter.Collect, without the lock and some time later.             *)
Collect(c) ==
  /\ At(c, "collect")
  /\ Decide(c, adapter[c])
  /\ GoTo(c, "return")
  /\ UNCHANGED <<adapters, lockVars, adapter>>

End(c) ==
  /\ At(c, "return")
  /\ Return(c)
  /\ GoTo(c, "idle")
  /\ adapter' = [adapter EXCEPT ![c] = Nil]
  /\ UNCHANGED lockVars

RegistryNext ==
  \E c \in Client :
    \/ \E r \in Request : Begin(c, r)
    \/ RefuseNil(c) \/ Lock(c) \/ Exists(c) \/ Absent(c) \/ Write(c) \/ Unlock(c)
    \/ RLock(c) \/ Read(c) \/ RUnlock(c) \/ Collect(c)
    \/ End(c)

RegistrySpec == RegistryInit /\ [][RegistryNext]_registryVars
-----------------------------------------------------------------------------
(* The inductive invariant of the proofs: who holds the lock where, and    *)
(* that what a writer or a run found stays true.                           *)
TypeInv ==
  /\ adapters \in [SourceType -> Adapter \cup {Nil}]
  /\ request \in [Client -> Request \cup {NoRequest}]
  /\ answer \in [Client -> {"none", "done", "error"} \cup Adapter]
  /\ pc \in [Client -> {"idle", "called", "locked", "absent", "unlock",
                        "reading", "runlock", "collect", "return"}]
  /\ writer \in Client \cup {NoClient}
  /\ readers \subseteq Client
  /\ adapter \in [Client -> Adapter \cup {Nil}]

LockInv ==
  /\ \A c \in Client :
       /\ pc[c] \in {"locked", "absent", "unlock"} <=> writer = c
       /\ pc[c] \in {"reading", "runlock"} <=> c \in readers
  /\ writer # NoClient => readers = {}

CallInv ==
  \A c \in Client :
    /\ pc[c] = "idle" <=> request[c] = NoRequest
    /\ pc[c] \in {"idle", "called", "locked", "absent", "reading", "collect"} =>
         answer[c] = "none"
    /\ pc[c] \in {"unlock", "return"} => answer[c] # "none"
    /\ pc[c] \in {"locked", "absent"} =>
         request[c].name = "register" /\ request[c].adapter # Nil
    /\ pc[c] = "reading" => request[c].name \in {"lookup", "run"}
    /\ pc[c] = "absent" => adapters[request[c].type] = Nil
    /\ answer[c] = "none" /\ pc[c] \in {"runlock", "collect"} =>
         /\ request[c].name = "run"
         /\ adapter[c] # Nil
         /\ adapter[c] = adapters[request[c].type]

IInv == TypeInv /\ LockInv /\ CallInv

(* Rival registrations, lookups and runs, in any interleaving, are those   *)
(* of an indivisible registry whose entries are never replaced: one        *)
(* registration of a type wins, nobody sees another adapter afterwards,    *)
(* and a run collects with the one its type has, although it lets go of    *)
(* the lock before (registry.go:39-67, runner.go:23-34).                   *)
ImplementsAtomicRegistry == Spec
=============================================================================
