----------------------------- MODULE QueryServer -----------------------------
(***************************************************************************)
(* The tools list_sources and collect_source (internal/querymcp) over the  *)
(* catalog and the query service: concurrent calls, each with its own      *)
(* deadline, ask the collector once and map its result to a snapshot.      *)
(* Nothing is shared but the catalog, which never changes once it serves.  *)
(***************************************************************************)
EXTENDS QueryService

CONSTANTS
  Client,
  Requested,      \* source IDs clients ask for, unknown ones included
  MaxItems,       \* values of the max_items argument, bad ones and the default
                  \* included
  MaxChars        \* values of the max_content_chars argument

VARIABLES
  pc, call,       \* call[c]: the request c has made
  done,           \* done[c]: the call's context has ended
  items,          \* items[c]: what the collector returned
  answer          \* answer[c]: the result of c's latest call

callVars == <<pc, call, done, items, answer>>
vars == <<catalogVars, callVars>>

NoCall == [id |-> "none", items |-> 0, chars |-> 0]
Error == [status |-> "error"]
-----------------------------------------------------------------------------
CallInit ==
  /\ pc = [c \in Client |-> "idle"]
  /\ call = [c \in Client |-> NoCall]
  /\ done = [c \in Client |-> FALSE]
  /\ items = [c \in Client |-> <<>>]
  /\ answer = [c \in Client |-> Error]

Init == CatalogInit /\ CallInit

GoTo(c, l) == pc' = [pc EXCEPT ![c] = l]

CollectSource(c, id, maxItems, maxChars) ==
  /\ phase = "serving"
  /\ pc[c] = "idle"
  /\ call' = [call EXCEPT ![c] = [id |-> id, items |-> maxItems,
                                  chars |-> maxChars]]
  /\ answer' = [answer EXCEPT ![c] = Error]
  /\ GoTo(c, "called")
  /\ UNCHANGED <<catalogVars, done, items>>

ListSources(c) ==
  /\ phase = "serving"
  /\ pc[c] = "idle"
  /\ answer' = [answer EXCEPT ![c] = CatalogResult]
  /\ UNCHANGED <<catalogVars, pc, call, done, items>>

(* Variant: the deadline does not reach the collector. *)
EndOutside(c) ==
  /\ pc[c] \in {"called", "collected"}
  /\ ~done[c]
  /\ done' = [done EXCEPT ![c] = TRUE]
  /\ UNCHANGED <<catalogVars, pc, call, items, answer>>

(* The client cancels its request, or the deadline of the call passes.     *)
End(c) ==
  /\ pc[c] \in {"called", "collecting", "collected"}
  /\ ~done[c]
  /\ done' = [done EXCEPT ![c] = TRUE]
  /\ UNCHANGED <<catalogVars, pc, call, items, answer>>

Finish(c, result) ==
  /\ answer' = [answer EXCEPT ![c] = result]
  /\ GoTo(c, "idle")
  /\ call' = [call EXCEPT ![c] = NoCall]
  /\ done' = [done EXCEPT ![c] = FALSE]
  /\ items' = [items EXCEPT ![c] = <<>>]
  /\ UNCHANGED catalogVars

Refuse(c) ==
  /\ pc[c] = "called"
  /\ call[c].id \notin Loaded \/ ~GoodLimits(call[c]) \/ done[c]
  /\ Finish(c, Error)

StartCollector(c) ==
  /\ pc[c] = "called"
  /\ call[c].id \in Loaded /\ GoodLimits(call[c]) /\ ~done[c]
  /\ GoTo(c, "collecting")
  /\ UNCHANGED <<catalogVars, call, done, items, answer>>

(* External: the adapter may return before or after the context has ended. *)
CollectorReturns(c, collected) ==
  /\ pc[c] = "collecting"
  /\ items' = [items EXCEPT ![c] = collected]
  /\ GoTo(c, "collected")
  /\ UNCHANGED <<catalogVars, call, done, answer>>

CollectorFails(c) ==
  /\ pc[c] = "collecting"
  /\ Finish(c, Error)

(* A result that comes after the end of the context is dropped.            *)
Discard(c) ==
  /\ pc[c] = "collected"
  /\ done[c]
  /\ Finish(c, Error)

(* Variant: a result is taken whenever it comes. *)
ReplyLate(c) ==
  /\ pc[c] = "collected"
  /\ Finish(c, Snapshot(Lookup(call[c].id), items[c], call[c]))

Reply(c) ==
  /\ pc[c] = "collected"
  /\ ~done[c]
  /\ Finish(c, Snapshot(Lookup(call[c].id), items[c], call[c]))

Serving(c) ==
  \/ \E id \in Requested, n \in MaxItems, m \in MaxChars :
       CollectSource(c, id, n, m)
  \/ ListSources(c)
  \/ End(c)
  \/ \E collected \in Collected : CollectorReturns(c, collected)
  \/ CollectorFails(c)

Handle(c) == Refuse(c) \/ StartCollector(c) \/ Discard(c) \/ Reply(c)

Next ==
  \/ CatalogNext /\ UNCHANGED callVars
  \/ \E c \in Client : Serving(c) \/ Handle(c)

Spec == Init /\ [][Next]_vars

(* The handler runs on; the timer of context.WithTimeout fires; and a      *)
(* collector gives up when its context has ended, though until then it may *)
(* hang for as long as it likes.                                           *)
Fairness ==
  /\ WF_vars(LoadStep /\ UNCHANGED callVars)
  /\ \A c \in Client : /\ WF_vars(Handle(c))
                       /\ WF_vars(End(c))
                       /\ WF_vars(done[c] /\ CollectorFails(c))

FairSpec == Spec /\ Fairness
-----------------------------------------------------------------------------
(* A snapshot never hides a loss: the items are the first of the           *)
(* collection in its order, each content a prefix, and whatever is missing *)
(* is flagged; "empty" without the truncation flag means that there was    *)
(* nothing (service.go:140-182).                                           *)
SnapshotTellsLoss ==
  [][\A c \in Client : pc[c] # "idle" /\ pc'[c] = "idle"
                       /\ answer'[c].status = "ok" =>
       TellsLoss(items[c], call[c], answer'[c])]_vars

(* A snapshot comes before its call is over, within limits that were       *)
(* checked, and is of the source the call asked for, as the catalog has it:*)
(* what the collector returns after the deadline, and what another call    *)
(* collects meanwhile, goes nowhere (server.go:44-67, service.go:121-137). *)
SnapshotAnswersCall ==
  [][\A c \in Client : pc[c] # "idle" /\ pc'[c] = "idle"
                       /\ answer'[c].status = "ok" =>
       /\ ~done[c] /\ GoodLimits(call[c])
       /\ answer'[c].Source.ID = call[c].id
       /\ \E k \in DOMAIN definitions :
            answer'[c].Source = Descriptor(definitions[k])]_vars

(* What list_sources tells is every definition of the catalog, once and in *)
(* the order of IDs whatever the order of the files, each under an ID that *)
(* collect_source finds, and with the revision its snapshots carry         *)
(* (service.go:107-117, catalog.go:108-132).                               *)
ListingIsTheCatalog ==
  \A c \in Client : answer[c].status = "list" =>
    LET sources == answer[c].Sources
    IN  /\ Len(sources) = Len(documents)
        /\ \A i, j \in DOMAIN sources : i < j =>
             IDBefore(sources[i].ID, sources[j].ID)
        /\ \A i \in DOMAIN sources :
             \E j \in DOMAIN documents :
               /\ sources[i].DefinitionRevision = documents[j].Revision
               /\ \E config \in ParseSourceConfig(documents[j].Content) :
                    config.ID = sources[i].ID
        /\ \A other \in Client : answer[other].status = "ok" =>
             \E i \in DOMAIN sources : sources[i] = answer[other].Source

(* Every call is answered, also when its collector hangs: the deadline of  *)
(* the call is what ends it (server.go:64-67, service.go:131-137).         *)
CallEnds == \A c \in Client : pc[c] # "idle" ~> pc[c] = "idle"
=============================================================================
