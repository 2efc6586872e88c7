------------------------------ MODULE Pipeline ------------------------------
(***************************************************************************)
(* Pipeline.RunOnce (internal/application/pipeline.go) together with       *)
(* Processor.ProcessSuccessfulCollection (internal/monitoring), run by     *)
(* concurrent callers on pipelines that may share one state store.         *)
(*                                                                         *)
(* One action is the code between two points where another goroutine can   *)
(* be seen: a call of the collector, of the store or of the sender, or a   *)
(* look at the caller's context.  Store operations are indivisible here    *)
(* (module MemoryStateStore refines them).  The collector and the sender   *)
(* are the caller's: they may succeed or fail at any time, whatever the    *)
(* state of the context.                                                   *)
(***************************************************************************)
EXTENDS StateStore, Naturals, Sequences

CONSTANTS
  Caller,         \* goroutines that call RunOnce
  Pipe,           \* Pipeline values; all of them share the one store
  Item,           \* collected items
  Batch,          \* what one successful collection may return
  KeyOf,          \* KeyOf[i]: the key itemkey.Build gives item i, or NoKey
  Mappable,       \* items whose title mapNotification accepts
  WellFormed,     \* sources whose ID and name RunOnce accepts
  NoKey, NoCaller,
  CallerCancels,  \* whether a caller may cancel its context
  StoreFails      \* whether a store call may fail with a live context

ASSUME PipelineAssumption ==
  /\ Batch \subseteq Seq(Item)
  /\ KeyOf \in [Item -> Key \cup {NoKey}]
  /\ NoKey \notin Key
  /\ NoCaller \notin Caller
  /\ Mappable \subseteq Item
  /\ WellFormed \subseteq Source
  /\ Pipe # {} /\ Source # {}
  /\ CallerCancels \in BOOLEAN
  /\ StoreFails \in BOOLEAN

VARIABLES
  guard,          \* guard[p]: the caller holding p.run, or NoCaller
  pc,             \* where caller c stands in RunOnce
  pipe, src,      \* pipe[c], src[c]: the receiver and the source of c's run
  canceled,       \* canceled[c]: c's context is done
  items,          \* items[c]: the collection
  unseen,         \* unseen[c]: the candidates the processor kept, in order
  pos,            \* pos[c]: index of the loop c is in
  errs,           \* errs[c]: the stages whose errors c's result joins
  (* History, read by no guard. *)
  tried,          \* tried[c]: keys handed to the sender in this run
  late,           \* late[c]: sends of this run begun on a done context
  baseline,       \* baseline[s]: keys learnt silently
  attempted,      \* attempted[s]: keys ever handed to the sender
  delivered,      \* delivered[s]: keys the sender accepted
  confirmed       \* confirmed[p][s]: keys p has sent and marked

runVars  == <<pipe, src>>
loopVars == <<items, unseen>>
ctxVars  == <<canceled, late>>
histVars == <<baseline, attempted, delivered, confirmed>>
vars == <<initialized, seen, guard, pc, pipe, src, canceled, items, unseen,
          pos, errs, tried, late, baseline, attempted, delivered, confirmed>>

PC == {"idle", "collect", "process", "check", "deliver", "send", "sending",
       "mark", "return"}
Stage == {"caller", "config", "overlap", "collect", "process", "map", "send",
          "mark"}

TypeOK ==
  /\ StoreTypeOK
  /\ guard \in [Pipe -> Caller \cup {NoCaller}]
  /\ pc \in [Caller -> PC]
  /\ pipe \in [Caller -> Pipe]
  /\ src \in [Caller -> Source]
  /\ canceled \in [Caller -> BOOLEAN]
  /\ items \in [Caller -> Seq(Item)]
  /\ unseen \in [Caller -> Seq(Item)]
  /\ pos \in [Caller -> Nat \ {0}]
  /\ errs \in [Caller -> SUBSET Stage]
  /\ tried \in [Caller -> SUBSET Key]
  /\ late \in [Caller -> Nat]
  /\ baseline \in [Source -> SUBSET Key]
  /\ attempted \in [Source -> SUBSET Key]
  /\ delivered \in [Source -> SUBSET Key]
  /\ confirmed \in [Pipe -> [Source -> SUBSET Key]]

(* The arguments of a caller that makes no call.                           *)
AnyPipe == CHOOSE p \in Pipe : TRUE
AnySource == CHOOSE s \in Source : TRUE

(* NewPipeline and NewMemoryStateStore: the processor uses the same store. *)
Init ==
  /\ StoreInit
  /\ guard = [p \in Pipe |-> NoCaller]
  /\ pc = [c \in Caller |-> "idle"]
  /\ pipe = [c \in Caller |-> AnyPipe]
  /\ src = [c \in Caller |-> AnySource]
  /\ canceled = [c \in Caller |-> FALSE]
  /\ items = [c \in Caller |-> <<>>]
  /\ unseen = [c \in Caller |-> <<>>]
  /\ pos = [c \in Caller |-> 1]
  /\ errs = [c \in Caller |-> {}]
  /\ tried = [c \in Caller |-> {}]
  /\ late = [c \in Caller |-> 0]
  /\ baseline = [s \in Source |-> {}]
  /\ attempted = [s \in Source |-> {}]
  /\ delivered = [s \in Source |-> {}]
  /\ confirmed = [p \in Pipe |-> [s \in Source |-> {}]]

KeysOf(q) == {KeyOf[q[i]] : i \in DOMAIN q}
Candidate(c) == unseen[c][pos[c]]           \* of the delivery loop
CandidateKey(c) == KeyOf[Candidate(c)]
CollectedKey(c) == KeyOf[items[c][pos[c]]]  \* of the checking loop

GoTo(c, l) == pc' = [pc EXCEPT ![c] = l]
Advance(c) == pos' = [pos EXCEPT ![c] = @ + 1]
AddError(c, stage) == errs' = [errs EXCEPT ![c] = @ \cup {stage}]
(* A store call answers an error when the context is done, and whenever    *)
(* the store itself fails.                                                 *)
StoreErrs(c) == canceled[c] \/ StoreFails
-----------------------------------------------------------------------------
(* RunOnce returns before it takes the guard: pipeline.go:78-92.           *)
Reject(c, stage) ==
  /\ pc[c] = "idle"
  /\ errs' = [errs EXCEPT ![c] = {stage}]
  /\ UNCHANGED <<storeVars, guard, pc, runVars, ctxVars, loopVars, pos, tried,
                 histVars>>

RejectCanceled(c) == CallerCancels /\ Reject(c, "caller")
RejectConfig(c) == WellFormed # Source /\ Reject(c, "config")
RejectOverlap(c) == /\ WellFormed # {}
                    /\ \E p \in Pipe : guard[p] # NoCaller
                    /\ Reject(c, "overlap")

(* Variant: TryLock's answer is not looked at. *)
BeginUnguarded(c, p, s) ==
  /\ pc[c] = "idle"
  /\ s \in WellFormed
  /\ guard' = [guard EXCEPT ![p] = c]
  /\ pipe' = [pipe EXCEPT ![c] = p]
  /\ src' = [src EXCEPT ![c] = s]
  /\ errs' = [errs EXCEPT ![c] = {}]
  /\ GoTo(c, "collect")
  /\ UNCHANGED <<storeVars, ctxVars, loopVars, pos, tried, histVars>>

(* TryLock succeeds: the run's locals are fresh.                           *)
Begin(c, p, s) ==
  /\ pc[c] = "idle"
  /\ s \in WellFormed
  /\ guard[p] = NoCaller
  /\ guard' = [guard EXCEPT ![p] = c]
  /\ pipe' = [pipe EXCEPT ![c] = p]
  /\ src' = [src EXCEPT ![c] = s]
  /\ errs' = [errs EXCEPT ![c] = {}]
  /\ GoTo(c, "collect")
  /\ UNCHANGED <<storeVars, ctxVars, loopVars, pos, tried, histVars>>

(* The caller's context is cancelled or times out, at any moment of a run. *)
Cancel(c) ==
  /\ CallerCancels
  /\ pc[c] # "idle"
  /\ ~canceled[c]
  /\ canceled' = [canceled EXCEPT ![c] = TRUE]
  /\ UNCHANGED <<storeVars, guard, pc, runVars, loopVars, pos, errs, tried,
                 late, histVars>>
-----------------------------------------------------------------------------
CollectOk(c, batch) ==
  /\ pc[c] = "collect"
  /\ items' = [items EXCEPT ![c] = batch]
  /\ GoTo(c, "process")
  /\ UNCHANGED <<storeVars, guard, runVars, ctxVars, unseen, pos, errs, tried,
                 histVars>>

CollectFail(c) ==
  /\ pc[c] = "collect"
  /\ AddError(c, "collect")
  /\ GoTo(c, "return")
  /\ UNCHANGED <<storeVars, guard, runVars, ctxVars, loopVars, pos, tried,
                 histVars>>

(* processor.go:46-67: the context, every key of the batch and the store   *)
(* call must be good before anything of the batch is recorded.             *)
ProcessFail(c) ==
  /\ pc[c] = "process"
  /\ NoKey \in KeysOf(items[c]) \/ StoreErrs(c)
  /\ AddError(c, "process")
  /\ GoTo(c, "return")
  /\ UNCHANGED <<storeVars, guard, runVars, ctxVars, loopVars, pos, tried,
                 histVars>>

Identified(c) ==
  /\ pc[c] = "process"
  /\ NoKey \notin KeysOf(items[c])
  /\ ~canceled[c]

(* Variant: what can be identified of a batch is learnt all the same. *)
EstablishIdentified(c) ==
  /\ pc[c] = "process" /\ ~canceled[c]
  /\ EstablishBaseline(src[c], KeysOf(items[c]) \ {NoKey})
  /\ baseline' = [baseline EXCEPT ![src[c]] = KeysOf(items[c]) \ {NoKey}]
  /\ GoTo(c, "return")
  /\ UNCHANGED <<guard, runVars, ctxVars, loopVars, pos, errs, tried,
                 attempted, delivered, confirmed>>

EstablishFirst(c) ==
  /\ Identified(c)
  /\ EstablishBaseline(src[c], KeysOf(items[c]))
  /\ baseline' = [baseline EXCEPT ![src[c]] = KeysOf(items[c])]
  /\ GoTo(c, "return")
  /\ UNCHANGED <<guard, runVars, ctxVars, loopVars, pos, errs, tried,
                 attempted, delivered, confirmed>>

BaselineKnown(c) ==
  /\ Identified(c)
  /\ IsSourceInitialized(src[c])
  /\ GoTo(c, "check")
  /\ UNCHANGED <<storeVars, guard, runVars, ctxVars, loopVars, pos, errs,
                 tried, histVars>>
-----------------------------------------------------------------------------
Checking(c) == pc[c] = "check" /\ pos[c] <= Len(items[c])

(* Variant: the store is not asked; repeats are not noticed; a key is
   offered once. *)
FreshUnlessQueued(c) == CollectedKey(c) \notin KeysOf(unseen[c])
FreshUnlessSeen(c) == ~HasItem(src[c], CollectedKey(c))
FreshOnce(c) == /\ CollectedKey(c) \notin attempted[src[c]]
                /\ FreshUnlessSeen(c) /\ FreshUnlessQueued(c)

(* processor.go:74-87: a key that is neither seen nor queued is kept.      *)
Fresh(c) == /\ ~HasItem(src[c], CollectedKey(c))
            /\ CollectedKey(c) \notin KeysOf(unseen[c])

Check(c) ==
  /\ Checking(c)
  /\ ~canceled[c]
  /\ \/ /\ Fresh(c)
        /\ unseen' = [unseen EXCEPT ![c] = Append(@, items[c][pos[c]])]
     \/ /\ ~Fresh(c)
        /\ UNCHANGED unseen
  /\ Advance(c)
  /\ UNCHANGED <<storeVars, guard, pc, runVars, ctxVars, items, errs, tried,
                 histVars>>

(* A failed lookup discards the candidates gathered so far.                *)
CheckFail(c) ==
  /\ Checking(c)
  /\ StoreErrs(c)
  /\ unseen' = [unseen EXCEPT ![c] = <<>>]
  /\ AddError(c, "process")
  /\ GoTo(c, "return")
  /\ UNCHANGED <<storeVars, guard, runVars, ctxVars, items, pos, tried,
                 histVars>>

CheckDone(c) ==
  /\ pc[c] = "check"
  /\ pos[c] > Len(items[c])
  /\ pos' = [pos EXCEPT ![c] = 1]
  /\ GoTo(c, "deliver")
  /\ UNCHANGED <<storeVars, guard, runVars, ctxVars, loopVars, errs, tried,
                 histVars>>
-----------------------------------------------------------------------------
(* The loop of pipeline.go:111-127.  Its head breaks on a done context.    *)
Delivering(c) == pc[c] = "deliver" /\ pos[c] <= Len(unseen[c])

StopDelivery(c) ==
  /\ pc[c] = "deliver"
  /\ canceled[c] \/ pos[c] > Len(unseen[c])
  /\ GoTo(c, "return")
  /\ UNCHANGED <<storeVars, guard, runVars, ctxVars, loopVars, pos, errs,
                 tried, histVars>>

(* Variant: the loop head does not look at the context. *)
MapCanceled(c) ==
  /\ Delivering(c)
  /\ Candidate(c) \in Mappable
  /\ GoTo(c, "send")
  /\ UNCHANGED <<storeVars, guard, runVars, ctxVars, loopVars, pos, errs,
                 tried, histVars>>

Map(c) ==
  /\ Delivering(c)
  /\ ~canceled[c]
  /\ Candidate(c) \in Mappable
  /\ GoTo(c, "send")
  /\ UNCHANGED <<storeVars, guard, runVars, ctxVars, loopVars, pos, errs,
                 tried, histVars>>

(* Variant: the loop stays at the item it cannot map. *)
MapFailStays(c) ==
  /\ Delivering(c)
  /\ ~canceled[c]
  /\ Candidate(c) \notin Mappable
  /\ AddError(c, "map")
  /\ UNCHANGED <<storeVars, guard, pc, runVars, ctxVars, loopVars, pos, tried,
                 histVars>>

MapFail(c) ==
  /\ Delivering(c)
  /\ ~canceled[c]
  /\ Candidate(c) \notin Mappable
  /\ AddError(c, "map")
  /\ Advance(c)
  /\ UNCHANGED <<storeVars, guard, pc, runVars, ctxVars, loopVars, tried,
                 histVars>>

(* The context may have been cancelled since the loop head looked at it.   *)
BeginSend(c) ==
  /\ pc[c] = "send"
  /\ attempted' = [attempted EXCEPT ![src[c]] = @ \cup {CandidateKey(c)}]
  /\ tried' = [tried EXCEPT ![c] = @ \cup {CandidateKey(c)}]
  /\ late' = [late EXCEPT ![c] = IF canceled[c] THEN @ + 1 ELSE @]
  /\ GoTo(c, "sending")
  /\ UNCHANGED <<storeVars, guard, runVars, canceled, loopVars, pos, errs,
                 baseline, delivered, confirmed>>

SendOk(c) ==
  /\ pc[c] = "sending"
  /\ delivered' = [delivered EXCEPT ![src[c]] = @ \cup {CandidateKey(c)}]
  /\ GoTo(c, "mark")
  /\ UNCHANGED <<storeVars, guard, runVars, ctxVars, loopVars, pos, errs,
                 tried, baseline, attempted, confirmed>>

(* Variant: a failed send is marked; a failed send ends the run. *)
SendFailMarks(c) ==
  /\ pc[c] = "sending"
  /\ AddError(c, "send")
  /\ GoTo(c, "mark")
  /\ UNCHANGED <<storeVars, guard, runVars, ctxVars, loopVars, pos, tried,
                 histVars>>
SendFailStops(c) ==
  /\ pc[c] = "sending"
  /\ AddError(c, "send")
  /\ GoTo(c, "return")
  /\ UNCHANGED <<storeVars, guard, runVars, ctxVars, loopVars, pos, tried,
                 histVars>>

(* The message may have arrived all the same; the pipeline cannot know.    *)
SendFail(c) ==
  /\ pc[c] = "sending"
  /\ AddError(c, "send")
  /\ Advance(c)
  /\ GoTo(c, "deliver")
  /\ UNCHANGED <<storeVars, guard, runVars, ctxVars, loopVars, tried,
                 histVars>>

Mark(c) ==
  /\ pc[c] = "mark"
  /\ ~canceled[c]
  /\ MarkItemSeen(src[c], CandidateKey(c))
  /\ confirmed' = [confirmed EXCEPT
                     ![pipe[c]][src[c]] = @ \cup {CandidateKey(c)}]
  /\ Advance(c)
  /\ GoTo(c, "deliver")
  /\ UNCHANGED <<guard, runVars, ctxVars, loopVars, errs, tried, baseline,
                 attempted, delivered>>

(* Variant: the error of the store is dropped. *)
MarkFailSilently(c) ==
  /\ pc[c] = "mark"
  /\ StoreErrs(c)
  /\ Advance(c)
  /\ GoTo(c, "deliver")
  /\ UNCHANGED <<storeVars, guard, runVars, ctxVars, loopVars, errs, tried,
                 histVars>>

MarkFail(c) ==
  /\ pc[c] = "mark"
  /\ StoreErrs(c)
  /\ AddError(c, "mark")
  /\ Advance(c)
  /\ GoTo(c, "deliver")
  /\ UNCHANGED <<storeVars, guard, runVars, ctxVars, loopVars, tried,
                 histVars>>

(* The deferred functions, last first: join the caller's own cancellation  *)
(* to the result, then Unlock.  Arguments and locals go with the call.     *)
Result(c) == errs[c] \cup (IF canceled[c] THEN {"caller"} ELSE {})

(* Variant: a run that failed keeps its guard. *)
ReturnLocked(c) ==
  /\ pc[c] = "return"
  /\ errs' = [errs EXCEPT ![c] = Result(c)]
  /\ guard' = [guard EXCEPT ![pipe[c]] =
                 IF Result(c) = {} THEN NoCaller ELSE @]
  /\ GoTo(c, "idle")
  /\ pipe' = [pipe EXCEPT ![c] = AnyPipe]
  /\ src' = [src EXCEPT ![c] = AnySource]
  /\ canceled' = [canceled EXCEPT ![c] = FALSE]
  /\ items' = [items EXCEPT ![c] = <<>>]
  /\ unseen' = [unseen EXCEPT ![c] = <<>>]
  /\ pos' = [pos EXCEPT ![c] = 1]
  /\ tried' = [tried EXCEPT ![c] = {}]
  /\ late' = [late EXCEPT ![c] = 0]
  /\ UNCHANGED <<storeVars, histVars>>

Return(c) ==
  /\ pc[c] = "return"
  /\ errs' = [errs EXCEPT ![c] = Result(c)]
  /\ guard' = [guard EXCEPT ![pipe[c]] = NoCaller]
  /\ GoTo(c, "idle")
  /\ pipe' = [pipe EXCEPT ![c] = AnyPipe]
  /\ src' = [src EXCEPT ![c] = AnySource]
  /\ canceled' = [canceled EXCEPT ![c] = FALSE]
  /\ items' = [items EXCEPT ![c] = <<>>]
  /\ unseen' = [unseen EXCEPT ![c] = <<>>]
  /\ pos' = [pos EXCEPT ![c] = 1]
  /\ tried' = [tried EXCEPT ![c] = {}]
  /\ late' = [late EXCEPT ![c] = 0]
  /\ UNCHANGED <<storeVars, histVars>>
-----------------------------------------------------------------------------
Step(c) ==
  \/ \E batch \in Batch : CollectOk(c, batch)
  \/ CollectFail(c)
  \/ ProcessFail(c) \/ EstablishFirst(c) \/ BaselineKnown(c)
  \/ Check(c) \/ CheckFail(c) \/ CheckDone(c)
  \/ StopDelivery(c) \/ Map(c) \/ MapFail(c)
  \/ BeginSend(c) \/ SendOk(c) \/ SendFail(c)
  \/ Mark(c) \/ MarkFail(c)
  \/ Return(c)

CallerStep(c) ==
  \/ RejectCanceled(c) \/ RejectConfig(c) \/ RejectOverlap(c)
  \/ \E p \in Pipe, s \in Source : Begin(c, p, s)
  \/ Cancel(c)

Next == \E c \in Caller : Step(c) \/ CallerStep(c)

Spec == Init /\ [][Next]_vars

(* A started run takes its next step.  That the collector and the sender   *)
(* return at last is an assumption about them: RunOnce passes them its     *)
(* context, and does not time them itself.  Nobody must call.              *)
Fairness == \A c \in Caller : WF_vars(Step(c))

FairSpec == Spec /\ Fairness
-----------------------------------------------------------------------------
(* The strengthening of the properties below that every step preserves,    *)
(* in named parts.                                                         *)
InDelivery(c) == pc[c] \in {"deliver", "send", "sending", "mark"}

MutexInv ==
  /\ \A c \in Caller : pc[c] # "idle" => guard[pipe[c]] = c
  /\ \A p \in Pipe : guard[p] # NoCaller =>
       pc[guard[p]] # "idle" /\ pipe[guard[p]] = p

HistoryInv ==
  \A s \in Source :
    /\ s \notin initialized => seen[s] = {} /\ attempted[s] = {}
    /\ baseline[s] \subseteq seen[s]
    /\ attempted[s] \cap baseline[s] = {}
    /\ delivered[s] \subseteq attempted[s]
    /\ seen[s] \subseteq baseline[s] \cup delivered[s]
    /\ \A p \in Pipe : confirmed[p][s] \subseteq seen[s]

(* The candidates: known identities outside the baseline, each key once,   *)
(* and those still to be sent not confirmed by this pipeline.              *)
CandidatesInv(c) ==
  /\ pc[c] \in {"idle", "collect", "process"} =>
       unseen[c] = <<>> /\ pos[c] = 1
  /\ pc[c] = "process" => items[c] \in Batch
  /\ pc[c] = "check" \/ InDelivery(c) =>
       src[c] \in initialized /\ KeysOf(items[c]) \subseteq Key
  /\ pc[c] = "check" => Len(unseen[c]) < pos[c]
  /\ \A i \in DOMAIN unseen[c] :
       /\ src[c] \in initialized
       /\ KeyOf[unseen[c][i]] \in Key \ baseline[src[c]]
       /\ pc[c] = "check" \/ i >= pos[c] =>
            KeyOf[unseen[c][i]] \notin confirmed[pipe[c]][src[c]]
       /\ \A j \in DOMAIN unseen[c] :
            KeyOf[unseen[c][i]] = KeyOf[unseen[c][j]] => i = j

(* The candidate in the sender's or the store's hands, and late sends.     *)
SendInv(c) ==
  /\ pc[c] \in {"send", "sending", "mark"} => pos[c] \in DOMAIN unseen[c]
  /\ pc[c] = "mark" => CandidateKey(c) \in delivered[src[c]]
  /\ pc[c] = "sending" => CandidateKey(c) \in attempted[src[c]]
  /\ late[c] \in {0, 1}
  /\ late[c] = 1 =>
       canceled[c] /\ pc[c] \in {"sending", "mark", "deliver", "return"}

(* Whatever was collected is seen, still queued, or accounted for by an    *)
(* error.                                                                  *)
CompletionInv(c) ==
  /\ pc[c] = "check" => \A i \in DOMAIN items[c] : i < pos[c] =>
       KeyOf[items[c][i]] \in seen[src[c]] \cup KeysOf(unseen[c])
  /\ InDelivery(c) =>
       /\ KeysOf(items[c]) \subseteq seen[src[c]] \cup KeysOf(unseen[c])
       /\ \A i \in DOMAIN unseen[c] : i < pos[c] =>
            KeyOf[unseen[c][i]] \in seen[src[c]] \/ errs[c] # {}
  /\ pc[c] = "return" =>
       Result(c) # {} \/ KeysOf(items[c]) \subseteq seen[src[c]]

(* The delivery loop has passed this candidate.                            *)
Passed(c, i) ==
  \/ InDelivery(c) /\ i < pos[c]
  \/ pc[c] \in {"sending", "mark"} /\ i = pos[c]
  \/ pc[c] = "return" /\ ~canceled[c]

TriedInv(c) ==
  \A i \in DOMAIN unseen[c] :
    unseen[c][i] \in Mappable /\ Passed(c, i) => KeyOf[unseen[c][i]] \in tried[c]

(* The inductive invariant of RunOnce: who holds which guard, how the      *)
(* store relates to what was sent, and how far each run has come with what *)
(* it collected (pipeline.go:77-129, processor.go:38-89).                  *)
IInv == /\ TypeOK
        /\ MutexInv
        /\ HistoryInv
        /\ \A c \in Caller : /\ CandidatesInv(c)
                              /\ SendInv(c)
                              /\ CompletionInv(c)
                              /\ TriedInv(c)
-----------------------------------------------------------------------------
(* A key learnt in a source's silent baseline is never handed to the       *)
(* sender, whichever run established it and whichever run comes later      *)
(* (processor.go:64-87 with memory.go:54-73).                              *)
BaselineSilent == \A s \in Source : attempted[s] \cap baseline[s] = {}

(* Every seen key was learnt silently or was accepted by the sender: no    *)
(* failed, abandoned or unsendable item is ever recorded as handled        *)
(* (pipeline.go:115-126, processor.go:53-70).                              *)
SeenWasDeliveredOrBaseline ==
  \A s \in Source : seen[s] \subseteq baseline[s] \cup delivered[s]

(* A pipeline never hands the sender a key it has itself already sent and  *)
(* marked, in this run or an earlier one, also when a batch repeats the    *)
(* key (pipeline.go:90, processor.go:74-87).  The guard is per pipeline:   *)
(* another pipeline on the same store may repeat the key.                  *)
NoResendAfterConfirm ==
  \A c \in Caller : pc[c] \in {"send", "sending"} =>
    CandidateKey(c) \notin confirmed[pipe[c]][src[c]]

(* The sender is never working on one key of one source twice at a time    *)
(* for the same pipeline, although callers overlap (pipeline.go:90-93).    *)
OneRunPerPipe ==
  \A c, d \in Caller :
    pc[c] # "idle" /\ pc[d] # "idle" /\ pipe[c] = pipe[d] => c = d

(* Between the look at the context at pipeline.go:112 and the send at :120 *)
(* the caller may cancel once: at most one send of a run begins late.      *)
AtMostOneLateSend == \A c \in Caller : late[c] <= 1

Returns(c) == pc[c] = "return" /\ pc'[c] = "idle"

(* A nil result means that everything collected is now seen: established   *)
(* as baseline, seen before, or delivered and marked (pipeline.go:96-128). *)
NilMeansComplete ==
  [][\A c \in Caller : Returns(c) /\ errs'[c] = {} =>
       KeysOf(items[c]) \subseteq seen[src[c]]]_vars

(* An item that cannot be mapped, sent or marked never keeps the run from  *)
(* the items after it: unless the caller cancels, every sendable candidate *)
(* is handed to the sender (pipeline.go:111-127).                          *)
FailuresNeverBlock ==
  [][\A c \in Caller : Returns(c) /\ "caller" \notin errs'[c] =>
       \A i \in DOMAIN unseen[c] : unseen[c][i] \in Mappable =>
         KeyOf[unseen[c][i]] \in tried[c]]_vars

(* A batch with one item that cannot be identified is refused whole: no    *)
(* item of it, before or behind that one, is learnt, sent or marked        *)
(* (processor.go:53-62).                                                   *)
RefusedBatchesLeaveNoTrace ==
  [][\A c \in Caller : NoKey \in KeysOf(items[c]) /\ pc'[c] # pc[c] =>
       UNCHANGED <<storeVars, histVars>>]_vars

(* The pipeline implements the delivery contract, where a baseline is all  *)
(* of one batch whose items can all be identified.                         *)
Identifiable == {batch \in Batch : NoKey \notin KeysOf(batch)}
Contract == INSTANCE DeliveryContract
              WITH Collection <- {KeysOf(batch) : batch \in Identifiable}
ImplementsContract == Contract!Spec

(* Every run ends, and gives its pipeline back.                            *)
RunReturns == \A c \in Caller : pc[c] # "idle" ~> pc[c] = "idle"

Offered(s, k) ==
  \E c \in Caller : pc[c] = "check" /\ src[c] = s /\ k \in KeysOf(items[c])
BeingSent(s, k) ==
  \E c \in Caller : pc[c] = "sending" /\ src[c] = s /\ CandidateKey(c) = k

StoreFailed(s, k) ==
  \E c \in Caller : /\ pc[c] = "return" /\ "process" \in errs[c]
                     /\ src[c] = s /\ k \in KeysOf(items[c])

(* An item that keeps being collected is retried until it is seen, also    *)
(* when a lookup or a mark fails in between: it is marked, or sends of it  *)
(* go on for ever, or lookups of what was collected with it keep failing   *)
(* (processor.go:74-87, pipeline.go:116-126).  Stated for callers that do  *)
(* not cancel and for keys whose items can all be mapped.                  *)
RetriedUntilSeen ==
  \A s \in WellFormed :
    \A k \in Key \ {KeyOf[i] : i \in Item \ Mappable} :
      []<>Offered(s, k) =>
        <>(k \in seen[s]) \/ []<>BeingSent(s, k) \/ []<>StoreFailed(s, k)
=============================================================================
