----------------------------- MODULE AtomicStore -----------------------------
(***************************************************************************)
(* A state store shared by concurrent clients, as state.StateStore         *)
(* promises it: between its call and its return an operation takes effect  *)
(* once and indivisibly, or answers an error and changes nothing.          *)
(***************************************************************************)
EXTENDS StateStore

CONSTANTS Client, Op, NoOp

(* Op: what a client may ask for, blank arguments included.  An operation  *)
(* is a record of its name, its source and the keys it names.              *)
Name == {"initialized", "baseline", "has", "mark"}
Answer == {"none", "yes", "no", "done", "error"}

VARIABLES op,        \* op[c]: the operation c is in, or NoOp
          canceled,  \* canceled[c]: the context of that call is done
          answer     \* answer[c]: "none" until the operation is decided

vars == <<initialized, seen, op, canceled, answer>>

Init == /\ StoreInit
        /\ op = [c \in Client |-> NoOp]
        /\ canceled = [c \in Client |-> FALSE]
        /\ answer = [c \in Client |-> "none"]

Valid(o) == o.source \in Source /\ o.keys \subseteq Key

Call(c, o) ==
  /\ op[c] = NoOp
  /\ op' = [op EXCEPT ![c] = o]
  /\ UNCHANGED <<storeVars, canceled, answer>>

Cancel(c) ==
  /\ op[c] # NoOp
  /\ canceled' = [canceled EXCEPT ![c] = TRUE]
  /\ UNCHANGED <<storeVars, op, answer>>

Pending(c) == op[c] # NoOp /\ answer[c] = "none"

Decide(c, a) == /\ answer' = [answer EXCEPT ![c] = a]
                /\ UNCHANGED <<op, canceled>>

Fail(c) ==
  /\ Pending(c)
  /\ canceled[c] \/ ~Valid(op[c])
  /\ Decide(c, "error")
  /\ UNCHANGED storeVars

Allowed(c, n) == /\ Pending(c) /\ ~canceled[c]
                 /\ Valid(op[c]) /\ op[c].name = n

AskInitialized(c) ==
  /\ Allowed(c, "initialized")
  /\ Decide(c, IF IsSourceInitialized(op[c].source) THEN "yes" ELSE "no")
  /\ UNCHANGED storeVars

AskItem(c) ==
  /\ Allowed(c, "has")
  /\ \E k \in op[c].keys :
       Decide(c, IF HasItem(op[c].source, k) THEN "yes" ELSE "no")
  /\ UNCHANGED storeVars

Establish(c) ==
  /\ Allowed(c, "baseline")
  /\ \/ /\ EstablishBaseline(op[c].source, op[c].keys)
        /\ Decide(c, "yes")
     \/ /\ IsSourceInitialized(op[c].source)
        /\ Decide(c, "no")
        /\ UNCHANGED storeVars

MarkItem(c) ==
  /\ Allowed(c, "mark")
  /\ \E k \in op[c].keys : MarkItemSeen(op[c].source, k)
  /\ Decide(c, "done")

Return(c) ==
  /\ op[c] # NoOp /\ answer[c] # "none"
  /\ op' = [op EXCEPT ![c] = NoOp]
  /\ canceled' = [canceled EXCEPT ![c] = FALSE]
  /\ answer' = [answer EXCEPT ![c] = "none"]
  /\ UNCHANGED storeVars

Next ==
  \E c \in Client :
    \/ \E o \in Op : Call(c, o)
    \/ Cancel(c) \/ Fail(c)
    \/ AskInitialized(c) \/ AskItem(c) \/ Establish(c) \/ MarkItem(c)
    \/ Return(c)

Spec == Init /\ [][Next]_vars
=============================================================================
