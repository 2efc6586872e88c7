--------------------------- MODULE AtomicRegistry ---------------------------
(***************************************************************************)
(* What source.SourceAdapterRegistry promises its concurrent clients: a    *)
(* type has at most one adapter, for good; a registration or a lookup      *)
(* takes effect at one instant between call and return; and a run collects *)
(* with the adapter its type has.                                          *)
(***************************************************************************)
CONSTANTS Client, SourceType, Adapter,
          Nil,       \* no adapter
          Request,   \* calls: records of name, type and adapter
          NoRequest

ASSUME RegistryAssumption ==
  /\ Nil \notin Adapter
  /\ \A r \in Request :
       /\ r.name \in {"register", "lookup", "run"}
       /\ r.type \in SourceType /\ r.adapter \in Adapter \cup {Nil}
  /\ NoRequest \notin Request
  /\ {"none", "done", "error"} \cap Adapter = {}

VARIABLES adapters,  \* adapters[t]: the adapter of type t, or Nil
          request,   \* request[c]: the call c is in, or NoRequest
          answer     \* answer[c]: "none" until the call is decided

vars == <<adapters, request, answer>>

Init == /\ adapters = [t \in SourceType |-> Nil]
        /\ request = [c \in Client |-> NoRequest]
        /\ answer = [c \in Client |-> "none"]

Call(c, r) ==
  /\ request[c] = NoRequest
  /\ request' = [request EXCEPT ![c] = r]
  /\ UNCHANGED <<adapters, answer>>

Asks(c, names) ==
  request[c] # NoRequest /\ answer[c] = "none" /\ request[c].name \in names

Decide(c, a) == answer' = [answer EXCEPT ![c] = a] /\ UNCHANGED request

Register(c) ==
  /\ Asks(c, {"register"})
  /\ request[c].adapter # Nil
  /\ adapters[request[c].type] = Nil
  /\ adapters' = [adapters EXCEPT ![request[c].type] = request[c].adapter]
  /\ Decide(c, "done")

Refuse(c) ==
  /\ Asks(c, {"register"})
  /\ request[c].adapter = Nil \/ adapters[request[c].type] # Nil
  /\ Decide(c, "error")
  /\ UNCHANGED adapters

Use(c) ==
  /\ Asks(c, {"lookup", "run"})
  /\ Decide(c, IF adapters[request[c].type] = Nil THEN "error"
               ELSE adapters[request[c].type])
  /\ UNCHANGED adapters

Return(c) ==
  /\ request[c] # NoRequest /\ answer[c] # "none"
  /\ request' = [request EXCEPT ![c] = NoRequest]
  /\ answer' = [answer EXCEPT ![c] = "none"]
  /\ UNCHANGED adapters

Next ==
  \E c \in Client :
    \/ \E r \in Request : Call(c, r)
    \/ Register(c) \/ Refuse(c) \/ Use(c) \/ Return(c)

Spec == Init /\ [][Next]_vars
=============================================================================
