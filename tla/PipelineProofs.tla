--------------------------- MODULE PipelineProofs ---------------------------
(***************************************************************************)
(* What Pipeline guarantees for every number of callers, pipelines,        *)
(* sources, keys and items.  One lemma per part of IInv says that a step   *)
(* preserves it; the theorems at the end follow from the whole.            *)
(***************************************************************************)
EXTENDS Pipeline, TLAPS

(* The zero receiver and source of a caller that makes no call are of      *)
(* their type (pipeline.go:77).                                            *)
LEMMA AnyTyped == AnyPipe \in Pipe /\ AnySource \in Source
  BY PipelineAssumption DEF AnyPipe, AnySource

(* A batch in which every item has an identity yields item keys only       *)
(* (processor.go:53-62).                                                   *)
LEMMA KeysTyped ==
  ASSUME NEW q \in Seq(Item), NoKey \notin KeysOf(q)
  PROVE  KeysOf(q) \in SUBSET Key
  BY PipelineAssumption DEF KeysOf

(* Keeping one more candidate adds its key to the kept keys, and nothing   *)
(* else (processor.go:82-87).                                              *)
LEMMA KeysAppend ==
  ASSUME NEW q \in Seq(Item), NEW x \in Item
  PROVE  KeysOf(Append(q, x)) = KeysOf(q) \cup {KeyOf[x]}
PROOF
<1>1. /\ DOMAIN Append(q, x) = DOMAIN q \cup {Len(q) + 1}
      /\ Append(q, x)[Len(q) + 1] = x
      /\ \A i \in DOMAIN q : Append(q, x)[i] = q[i]
  OBVIOUS
<1>. QED
  BY <1>1 DEF KeysOf

(* A stage that fails makes the result of the run an error                 *)
(* (pipeline.go:102-126).                                                  *)
LEMMA ErrorAdded ==
  ASSUME TypeOK, NEW c \in Caller, NEW stage, AddError(c, stage)
  PROVE  errs'[c] # {}
  BY DEF AddError, TypeOK

(* Every variable keeps its type, whatever the caller or the run does next *)
(* (all of RunOnce and ProcessSuccessfulCollection).                       *)
LEMMA TypeStep ==
  ASSUME IInv, [Next]_vars
  PROVE  TypeOK'
PROOF
<1> USE PipelineAssumption
<1>0. TypeOK BY DEF IInv
<1>1. CASE UNCHANGED vars
  BY <1>0, <1>1 DEF TypeOK, StoreTypeOK, vars
<1>2. ASSUME NEW c \in Caller, CallerStep(c) PROVE TypeOK'
  <2>1. ASSUME NEW stage \in Stage, Reject(c, stage) PROVE TypeOK'
    BY <1>0, <2>1 DEF TypeOK, StoreTypeOK, Reject, storeVars, runVars,
       ctxVars, loopVars, histVars
  <2>2. ASSUME NEW p \in Pipe, NEW s \in Source, Begin(c, p, s) PROVE TypeOK'
    BY <1>0, <2>2 DEF TypeOK, StoreTypeOK, Begin, GoTo, PC, storeVars,
       ctxVars, loopVars, histVars
  <2>3. CASE Cancel(c)
    BY <1>0, <2>3 DEF TypeOK, StoreTypeOK, Cancel, storeVars, runVars,
       loopVars, histVars
  <2>. QED
    BY <1>2, <2>1, <2>2, <2>3 DEF CallerStep, RejectCanceled, RejectConfig,
       RejectOverlap, Stage
<1>3. ASSUME NEW c \in Caller, Step(c) PROVE TypeOK'
  <2> USE DEF TypeOK, StoreTypeOK, GoTo, Advance, AddError, PC, Stage,
       storeVars, runVars, ctxVars, loopVars, histVars
  <2>1. ASSUME NEW batch \in Batch, CollectOk(c, batch) PROVE TypeOK'
    BY <1>0, <2>1 DEF CollectOk
  <2>2. CASE CollectFail(c)
    BY <1>0, <2>2 DEF CollectFail
  <2>3. CASE ProcessFail(c)
    BY <1>0, <2>3 DEF ProcessFail
  <2>4. CASE EstablishFirst(c)
    <3>1. KeysOf(items[c]) \in SUBSET Key
      BY <1>0, <2>4, KeysTyped DEF EstablishFirst, Identified
    <3>. QED
      BY <1>0, <2>4, <3>1 DEF EstablishFirst, EstablishBaseline
  <2>5. CASE BaselineKnown(c)
    BY <1>0, <2>5 DEF BaselineKnown
  <2>6. CASE Check(c)
    <3>1. items[c][pos[c]] \in Item
      BY <1>0, <2>6 DEF Check, Checking
    <3>2. unseen' \in [Caller -> Seq(Item)]
      <4>1. Append(unseen[c], items[c][pos[c]]) \in Seq(Item)
        BY <1>0, <3>1
      <4>2. \/ unseen' = unseen
            \/ unseen' = [unseen EXCEPT
                            ![c] = Append(unseen[c], items[c][pos[c]])]
        BY <2>6 DEF Check
      <4>. QED
        BY <1>0, <4>1, <4>2
    <3>3. /\ Advance(c)
          /\ UNCHANGED <<storeVars, guard, pc, runVars, canceled, late, items,
                         errs, tried, histVars>>
      BY <2>6 DEF Check
    <3>. QED
      BY <1>0, <3>2, <3>3
  <2>7. CASE CheckFail(c)
    BY <1>0, <2>7 DEF CheckFail
  <2>8. CASE CheckDone(c)
    BY <1>0, <2>8 DEF CheckDone
  <2>9. CASE StopDelivery(c)
    BY <1>0, <2>9 DEF StopDelivery
  <2>10. CASE Map(c)
    BY <1>0, <2>10 DEF Map
  <2>11. CASE MapFail(c)
    BY <1>0, <2>11 DEF MapFail
  <2>12. CASE BeginSend(c) \/ SendOk(c) \/ Mark(c)
    <3>1. CandidateKey(c) \in Key
      BY <1>0, <2>12 DEF IInv, SendInv, CandidatesInv, CandidateKey,
         Candidate, BeginSend, SendOk, Mark
    <3>2. CASE BeginSend(c)
      BY <1>0, <3>1, <3>2 DEF BeginSend
    <3>3. CASE SendOk(c)
      BY <1>0, <3>1, <3>3 DEF SendOk
    <3>4. CASE Mark(c)
      BY <1>0, <3>1, <3>4 DEF Mark, MarkItemSeen
    <3>. QED
      BY <2>12, <3>2, <3>3, <3>4
  <2>13. CASE SendFail(c)
    BY <1>0, <2>13 DEF SendFail
  <2>14. CASE MarkFail(c)
    BY <1>0, <2>14 DEF MarkFail
  <2>15. CASE Return(c)
    BY <1>0, <2>15, AnyTyped DEF Return, Result
  <2>. QED
    BY <1>3, <2>1, <2>2, <2>3, <2>4, <2>5, <2>6, <2>7, <2>8, <2>9, <2>10,
       <2>11, <2>12, <2>13, <2>14, <2>15 DEF Step
<1>. QED
  BY <1>1, <1>2, <1>3 DEF Next

(* At most one run holds a pipeline's guard, the one that took it, and a   *)
(* held guard has a run to give it back (pipeline.go:90-93).               *)
LEMMA MutexStep ==
  ASSUME IInv, [Next]_vars
  PROVE  MutexInv'
PROOF
<1> USE PipelineAssumption
<1>0. TypeOK /\ MutexInv BY DEF IInv
<1> USE DEF TypeOK, MutexInv, PC
<1>1. CASE UNCHANGED <<pc, guard, pipe>>
  BY <1>0, <1>1
<1>2. ASSUME NEW c \in Caller, NEW p \in Pipe, NEW s \in Source,
             Begin(c, p, s)
      PROVE MutexInv'
  BY <1>0, <1>2 DEF Begin, GoTo
<1>3. ASSUME NEW c \in Caller, Return(c)
      PROVE MutexInv'
  BY <1>0, <1>3 DEF Return, GoTo
<1>4. ASSUME NEW c \in Caller, NEW l \in PC \ {"idle"},
             pc[c] # "idle", GoTo(c, l), UNCHANGED <<guard, pipe>>
      PROVE MutexInv'
  BY <1>0, <1>4 DEF GoTo
<1>5. ASSUME NEW c \in Caller, CallerStep(c) PROVE MutexInv'
  <2>1. ASSUME NEW stage, Reject(c, stage) PROVE MutexInv'
    BY <1>1, <2>1 DEF Reject, runVars
  <2>2. CASE Cancel(c)
    BY <1>1, <2>2 DEF Cancel, runVars
  <2>. QED
    BY <1>2, <1>5, <2>1, <2>2 DEF CallerStep, RejectCanceled, RejectConfig,
       RejectOverlap
<1>6. ASSUME NEW c \in Caller, Step(c) PROVE MutexInv'
  <2> USE <1>4, <1>6 DEF runVars
  <2>1. ASSUME NEW batch \in Batch, CollectOk(c, batch) PROVE MutexInv'
    BY <2>1 DEF CollectOk
  <2>2. CASE CollectFail(c) \/ ProcessFail(c) \/ EstablishFirst(c)
    BY <2>2 DEF CollectFail, ProcessFail, EstablishFirst, Identified
  <2>3. CASE BaselineKnown(c) \/ CheckFail(c) \/ CheckDone(c)
    BY <2>3 DEF BaselineKnown, Identified, CheckFail, Checking, CheckDone
  <2>4. CASE Check(c) \/ MapFail(c)
    BY <1>1, <2>4 DEF Check, MapFail
  <2>5. CASE StopDelivery(c) \/ Map(c)
    BY <2>5 DEF StopDelivery, Map, Delivering
  <2>6. CASE BeginSend(c) \/ SendOk(c) \/ SendFail(c)
    BY <2>6 DEF BeginSend, SendOk, SendFail
  <2>7. CASE Mark(c) \/ MarkFail(c)
    BY <2>7 DEF Mark, MarkFail
  <2>. QED
    BY <1>3, <1>6, <2>1, <2>2, <2>3, <2>4, <2>5, <2>6, <2>7 DEF Step
<1>. QED
  BY <1>1, <1>5, <1>6 DEF Next, vars

(* What the store knows stays what was learnt silently or delivered, step  *)
(* by step (processor.go:64-70, pipeline.go:120-126, memory.go:59-73).     *)
LEMMA HistoryStep ==
  ASSUME IInv, [Next]_vars
  PROVE  HistoryInv'
PROOF
<1> USE PipelineAssumption
<1>0. /\ TypeOK /\ HistoryInv
      /\ \A c \in Caller : CandidatesInv(c) /\ SendInv(c)
  BY DEF IInv
<1> USE DEF TypeOK, StoreTypeOK, HistoryInv
<1>1. CASE UNCHANGED <<storeVars, histVars>>
  BY <1>0, <1>1 DEF storeVars, histVars
<1>2. ASSUME NEW c \in Caller, EstablishFirst(c) PROVE HistoryInv'
  <2>1. KeysOf(items[c]) \in SUBSET Key
    BY <1>0, <1>2, KeysTyped DEF EstablishFirst, Identified
  <2>2. seen[src[c]] = {} /\ attempted[src[c]] = {} /\ src[c] \notin initialized
    BY <1>0, <1>2 DEF EstablishFirst, EstablishBaseline, IsSourceInitialized
  <2>. QED
    BY <1>0, <1>2, <2>1, <2>2 DEF EstablishFirst, EstablishBaseline
<1>3. ASSUME NEW c \in Caller, BeginSend(c) PROVE HistoryInv'
  <2>1. /\ src[c] \in initialized
        /\ CandidateKey(c) \in Key \ baseline[src[c]]
    BY <1>0, <1>3 DEF CandidatesInv, SendInv, BeginSend, CandidateKey,
       Candidate
  <2>. QED
    BY <1>0, <1>3, <2>1 DEF BeginSend, storeVars
<1>4. ASSUME NEW c \in Caller, SendOk(c) PROVE HistoryInv'
  <2>1. CandidateKey(c) \in attempted[src[c]]
    BY <1>0, <1>4 DEF SendInv, SendOk
  <2>. QED
    BY <1>0, <1>4, <2>1 DEF SendOk, storeVars
<1>5. ASSUME NEW c \in Caller, Mark(c) PROVE HistoryInv'
  <2>1. /\ CandidateKey(c) \in delivered[src[c]]
        /\ src[c] \in initialized
    BY <1>0, <1>5 DEF CandidatesInv, SendInv, Mark
  <2>. QED
    BY <1>0, <1>5, <2>1 DEF Mark, MarkItemSeen
<1>6. ASSUME NEW c \in Caller, CallerStep(c) PROVE HistoryInv'
  BY <1>1, <1>6 DEF CallerStep, RejectCanceled, RejectConfig, RejectOverlap,
     Reject, Begin, Cancel
<1>7. ASSUME NEW c \in Caller, Step(c) PROVE HistoryInv'
  BY <1>1, <1>2, <1>3, <1>4, <1>5, <1>7 DEF Step, CollectOk, CollectFail,
     ProcessFail, BaselineKnown, Check, CheckFail, CheckDone, StopDelivery,
     Map, MapFail, SendFail, MarkFail, Return
<1>. QED
  BY <1>1, <1>6, <1>7 DEF Next, vars, storeVars, histVars

(* A step of one caller leaves the runs of the others alone, and only the  *)
(* run on a pipeline confirms keys for it.                                 *)
LEMMA OthersFrame ==
  ASSUME IInv, NEW c \in Caller, Step(c) \/ CallerStep(c),
         NEW d \in Caller, d # c
  PROVE  /\ pc'[d] = pc[d] /\ pipe'[d] = pipe[d] /\ src'[d] = src[d]
         /\ canceled'[d] = canceled[d] /\ late'[d] = late[d]
         /\ items'[d] = items[d] /\ unseen'[d] = unseen[d]
         /\ pos'[d] = pos[d] /\ errs'[d] = errs[d] /\ tried'[d] = tried[d]
         /\ pc[d] # "idle" => confirmed'[pipe[d]] = confirmed[pipe[d]]
PROOF
<1>0. TypeOK /\ MutexInv BY DEF IInv
<1>1. /\ pc'[d] = pc[d] /\ pipe'[d] = pipe[d] /\ src'[d] = src[d]
      /\ canceled'[d] = canceled[d] /\ late'[d] = late[d]
  BY <1>0 DEF TypeOK, Step, CallerStep, RejectCanceled, RejectConfig,
     RejectOverlap, Reject, Begin, Cancel, CollectOk, CollectFail,
     ProcessFail, EstablishFirst, BaselineKnown, Check, CheckFail, CheckDone,
     StopDelivery, Map, MapFail, BeginSend, SendOk, SendFail, Mark, MarkFail,
     Return, GoTo, runVars, ctxVars
<1>2. /\ items'[d] = items[d] /\ unseen'[d] = unseen[d]
      /\ pos'[d] = pos[d] /\ errs'[d] = errs[d] /\ tried'[d] = tried[d]
  BY <1>0 DEF TypeOK, Step, CallerStep, RejectCanceled, RejectConfig,
     RejectOverlap, Reject, Begin, Cancel, CollectOk, CollectFail,
     ProcessFail, EstablishFirst, BaselineKnown, Check, CheckFail, CheckDone,
     StopDelivery, Map, MapFail, BeginSend, SendOk, SendFail, Mark, MarkFail,
     Return, Advance, AddError, loopVars
<1>3. confirmed' = confirmed \/ Mark(c)
  BY DEF Step, CallerStep, RejectCanceled, RejectConfig,
     RejectOverlap, Reject, Begin, Cancel, CollectOk, CollectFail,
     ProcessFail, EstablishFirst, BaselineKnown, Check, CheckFail, CheckDone,
     StopDelivery, Map, MapFail, BeginSend, SendOk, SendFail, MarkFail,
     Return, histVars
<1>4. Mark(c) /\ pc[d] # "idle" => pipe[d] # pipe[c]
  BY <1>0 DEF MutexInv, Mark
<1>. QED
  BY <1>0, <1>1, <1>2, <1>3, <1>4 DEF TypeOK, Mark

(* The shared knowledge only grows, and a baseline is never rewritten.     *)
LEMMA KnowledgeGrows ==
  ASSUME IInv, NEW c \in Caller, Step(c) \/ CallerStep(c), NEW s \in Source
  PROVE  /\ initialized \subseteq initialized'
         /\ seen[s] \subseteq seen'[s]
         /\ attempted[s] \subseteq attempted'[s]
         /\ delivered[s] \subseteq delivered'[s]
         /\ s \in initialized => baseline'[s] = baseline[s]
PROOF
<1>0. TypeOK BY DEF IInv
<1> USE DEF TypeOK, StoreTypeOK
<1>1. CASE UNCHANGED <<storeVars, histVars>>
  BY <1>1 DEF storeVars, histVars
<1>2. CASE EstablishFirst(c)
  BY <1>0, <1>2 DEF EstablishFirst, EstablishBaseline, IsSourceInitialized
<1>3. CASE BeginSend(c)
  BY <1>0, <1>3 DEF BeginSend, storeVars
<1>4. CASE SendOk(c)
  BY <1>0, <1>4 DEF SendOk, storeVars
<1>5. CASE Mark(c)
  BY <1>0, <1>5 DEF Mark, MarkItemSeen
<1>. QED
  BY <1>1, <1>2, <1>3, <1>4, <1>5 DEF Step, CallerStep, RejectCanceled,
     RejectConfig, RejectOverlap, Reject, Begin, Cancel, CollectOk,
     CollectFail, ProcessFail, BaselineKnown, Check, CheckFail, CheckDone,
     StopDelivery, Map, MapFail, SendFail, MarkFail, Return

(* The candidates stay outside the baseline, distinct and unconfirmed      *)
(* until they are sent and marked (processor.go:72-88).                    *)
LEMMA CandidatesStep ==
  ASSUME IInv, NEW c \in Caller, Step(c) \/ CallerStep(c), NEW d \in Caller
  PROVE  CandidatesInv(d)'
PROOF
<1> USE PipelineAssumption
<1>0. TypeOK /\ HistoryInv /\ CandidatesInv(d) /\ SendInv(d) BY DEF IInv
<1> USE DEF TypeOK, StoreTypeOK, CandidatesInv, InDelivery
<1>1. CASE d # c
  BY <1>0, <1>1, OthersFrame, KnowledgeGrows DEF KeysOf
<1>2. CASE d = c
  <2> USE <1>2
  <2> USE DEF GoTo, Advance, AddError, storeVars, runVars, ctxVars, loopVars,
       histVars
  <2>1. ASSUME NEW stage, Reject(c, stage) PROVE CandidatesInv(d)'
    BY <1>0, <2>1 DEF Reject, KeysOf
  <2>2. ASSUME NEW p \in Pipe, NEW s \in Source, Begin(c, p, s)
        PROVE CandidatesInv(d)'
    BY <1>0, <2>2 DEF Begin
  <2>3. CASE Cancel(c)
    BY <1>0, <2>3 DEF Cancel, KeysOf
  <2>4. ASSUME NEW batch \in Batch, CollectOk(c, batch) PROVE CandidatesInv(d)'
    BY <1>0, <2>4 DEF CollectOk
  <2>5. CASE CollectFail(c) \/ ProcessFail(c)
    BY <1>0, <2>5 DEF CollectFail, ProcessFail
  <2>6. CASE EstablishFirst(c)
    BY <1>0, <2>6 DEF EstablishFirst, Identified
  <2>7. CASE BaselineKnown(c)
    <3>1. KeysOf(items[c]) \in SUBSET Key /\ src[c] \in initialized
      BY <1>0, <2>7, KeysTyped DEF BaselineKnown, Identified,
         IsSourceInitialized
    <3>. QED
      BY <1>0, <2>7, <3>1 DEF BaselineKnown, Identified, KeysOf
  <2>8. CASE Check(c)
    <3> DEFINE x == items[c][pos[c]]
    <3>1. /\ x \in Item /\ KeyOf[x] \in Key
          /\ pc[c] = "check" /\ pc'[c] = "check"
          /\ items' = items /\ src' = src /\ pipe' = pipe
          /\ baseline' = baseline /\ confirmed' = confirmed
          /\ initialized' = initialized
          /\ pos'[c] = pos[c] + 1
      BY <1>0, <2>8 DEF Check, Checking, KeysOf
    <3>2. CASE ~Fresh(c)
      BY <1>0, <2>8, <3>1, <3>2 DEF Check, KeysOf
    <3>3. CASE Fresh(c)
      <4>1. unseen'[c] = Append(unseen[c], x)
        BY <1>0, <2>8, <3>3 DEF Check
      <4>2. KeyOf[x] \notin seen[src[c]] /\ KeyOf[x] \notin KeysOf(unseen[c])
        BY <3>3 DEF Fresh, HasItem, CollectedKey
      <4>3. /\ KeyOf[x] \notin baseline[src[c]]
            /\ KeyOf[x] \notin confirmed[pipe[c]][src[c]]
        BY <1>0, <4>2 DEF HistoryInv
      <4>4. \A i \in DOMAIN unseen'[c] :
              \/ i \in DOMAIN unseen[c] /\ unseen'[c][i] = unseen[c][i]
              \/ i = Len(unseen[c]) + 1 /\ unseen'[c][i] = x
        BY <1>0, <3>1, <4>1
      <4>5. \A i \in DOMAIN unseen[c] : KeyOf[unseen[c][i]] # KeyOf[x]
        BY <4>2 DEF KeysOf
      <4>6. Len(unseen'[c]) < pos'[c]
        BY <1>0, <3>1, <4>1
      <4>7. src[c] \in initialized /\ KeysOf(items'[c]) \subseteq Key
        BY <1>0, <3>1 DEF KeysOf
      <4>8. \A i, j \in DOMAIN unseen'[c] :
              KeyOf[unseen'[c][i]] = KeyOf[unseen'[c][j]] => i = j
        <5>1. \A i, j \in DOMAIN unseen[c] :
                KeyOf[unseen[c][i]] = KeyOf[unseen[c][j]] => i = j
          BY <1>0
        <5>. QED
          BY <4>4, <4>5, <5>1
      <4>9. \A i \in DOMAIN unseen'[c] :
              /\ KeyOf[unseen'[c][i]] \in Key \ baseline[src[c]]
              /\ KeyOf[unseen'[c][i]] \notin confirmed[pipe[c]][src[c]]
        BY <1>0, <3>1, <4>3, <4>4
      <4>. QED
        BY <3>1, <4>6, <4>7, <4>8, <4>9 DEF KeysOf
    <3>. QED
      BY <3>2, <3>3
  <2>9. CASE CheckFail(c)
    BY <1>0, <2>9 DEF CheckFail
  <2>10. CASE CheckDone(c)
    BY <1>0, <2>10 DEF CheckDone, KeysOf
  <2>11. CASE StopDelivery(c) \/ Map(c) \/ MapFail(c)
    <3>1. CASE StopDelivery(c)
      BY <1>0, <3>1 DEF StopDelivery, KeysOf
    <3>2. CASE Map(c)
      BY <1>0, <3>2 DEF Map, Delivering, KeysOf
    <3>3. CASE MapFail(c)
      BY <1>0, <3>3 DEF MapFail, Delivering, KeysOf
    <3>. QED
      BY <2>11, <3>1, <3>2, <3>3
  <2>12. CASE BeginSend(c) \/ SendOk(c) \/ SendFail(c) \/ MarkFail(c)
    <3>1. CASE BeginSend(c) \/ SendOk(c)
      BY <1>0, <3>1 DEF BeginSend, SendOk, KeysOf
    <3>2. CASE SendFail(c)
      BY <1>0, <3>2 DEF SendFail, KeysOf
    <3>3. CASE MarkFail(c)
      BY <1>0, <3>3 DEF MarkFail, KeysOf
    <3>. QED
      BY <2>12, <3>1, <3>2, <3>3
  <2>13. CASE Mark(c)
    <3>1. /\ pc[c] = "mark" /\ pc'[c] = "deliver"
          /\ items' = items /\ src' = src /\ pipe' = pipe
          /\ unseen' = unseen /\ baseline' = baseline
          /\ initialized' = initialized
          /\ pos'[c] = pos[c] + 1 /\ pos[c] \in DOMAIN unseen[c]
      BY <1>0, <2>13 DEF Mark, MarkItemSeen, SendInv
    <3>2. confirmed'[pipe[c]][src[c]] =
            confirmed[pipe[c]][src[c]] \cup {KeyOf[unseen[c][pos[c]]]}
      BY <1>0, <2>13 DEF Mark, CandidateKey, Candidate
    <3>3. \A i \in DOMAIN unseen[c] : i >= pos[c] + 1 =>
            KeyOf[unseen[c][i]] \notin confirmed'[pipe[c]][src[c]]
      <4> SUFFICES ASSUME NEW i \in DOMAIN unseen[c], i >= pos[c] + 1
                   PROVE  KeyOf[unseen[c][i]] \notin
                            confirmed'[pipe[c]][src[c]]
        OBVIOUS
      <4>1. pos[c] \in Nat /\ i \in Nat /\ i >= pos[c] /\ i # pos[c]
        BY <1>0
      <4>2. KeyOf[unseen[c][i]] # KeyOf[unseen[c][pos[c]]]
        BY <1>0, <3>1, <4>1
      <4>3. KeyOf[unseen[c][i]] \notin confirmed[pipe[c]][src[c]]
        BY <1>0, <4>1
      <4>. QED
        BY <3>2, <4>2, <4>3
    <3>4. KeysOf(items'[c]) \subseteq Key
      BY <1>0, <3>1 DEF KeysOf
    <3>5. /\ src[c] \in initialized
          /\ \A i \in DOMAIN unseen[c] :
               /\ KeyOf[unseen[c][i]] \in Key \ baseline[src[c]]
               /\ \A j \in DOMAIN unseen[c] :
                    KeyOf[unseen[c][i]] = KeyOf[unseen[c][j]] => i = j
      BY <1>0, <3>1
    <3>. QED
      BY <3>1, <3>3, <3>4, <3>5 DEF KeysOf
  <2>14. CASE Return(c)
    BY <1>0, <2>14 DEF Return
  <2>. QED
    BY <2>1, <2>2, <2>3, <2>4, <2>5, <2>6, <2>7, <2>8, <2>9, <2>10, <2>11,
       <2>12, <2>13, <2>14 DEF Step, CallerStep, RejectCanceled,
       RejectConfig, RejectOverlap
<1>. QED
  BY <1>1, <1>2

(* The message in the sender's hands is the current candidate's, a mark    *)
(* follows an accepted send, and a late send is the last of its run        *)
(* (pipeline.go:112-126).                                                  *)
LEMMA SendStep ==
  ASSUME IInv, NEW c \in Caller, Step(c) \/ CallerStep(c), NEW d \in Caller
  PROVE  SendInv(d)'
PROOF
<1> USE PipelineAssumption
<1>0. TypeOK /\ CandidatesInv(d) /\ SendInv(d) BY DEF IInv
<1> USE DEF TypeOK, StoreTypeOK, SendInv, CandidateKey, Candidate
<1>1. CASE d # c
  BY <1>0, <1>1, OthersFrame, KnowledgeGrows
<1>2. CASE d = c
  <2> USE <1>2
  <2> USE DEF GoTo, Advance, AddError, storeVars, runVars, ctxVars, loopVars,
       histVars
  <2>1. ASSUME NEW stage, Reject(c, stage) PROVE SendInv(d)'
    BY <1>0, <2>1 DEF Reject
  <2>2. ASSUME NEW p \in Pipe, NEW s \in Source, Begin(c, p, s)
        PROVE SendInv(d)'
    BY <1>0, <2>2 DEF Begin
  <2>3. CASE Cancel(c)
    BY <1>0, <2>3 DEF Cancel
  <2>4. ASSUME NEW batch \in Batch, CollectOk(c, batch) PROVE SendInv(d)'
    BY <1>0, <2>4 DEF CollectOk
  <2>5. CASE CollectFail(c) \/ ProcessFail(c) \/ EstablishFirst(c)
    BY <1>0, <2>5 DEF CollectFail, ProcessFail, EstablishFirst, Identified
  <2>6. CASE BaselineKnown(c) \/ Check(c) \/ CheckFail(c) \/ CheckDone(c)
    BY <1>0, <2>6 DEF BaselineKnown, Identified, Check, Checking, CheckFail,
       CheckDone
  <2>7. CASE StopDelivery(c) \/ Map(c) \/ MapFail(c)
    BY <1>0, <2>7 DEF StopDelivery, Map, MapFail, Delivering
  <2>8. CASE BeginSend(c)
    <3>1. CandidateKey(c) \in Key
      BY <1>0, <2>8 DEF BeginSend, CandidatesInv
    <3>. QED
      BY <1>0, <2>8, <3>1 DEF BeginSend
  <2>9. CASE SendOk(c)
    <3>1. CandidateKey(c) \in Key
      BY <1>0, <2>9 DEF SendOk, CandidatesInv
    <3>. QED
      BY <1>0, <2>9, <3>1 DEF SendOk
  <2>10. CASE SendFail(c) \/ MarkFail(c)
    BY <1>0, <2>10 DEF SendFail, MarkFail
  <2>11. CASE Mark(c)
    BY <1>0, <2>11 DEF Mark
  <2>12. CASE Return(c)
    BY <1>0, <2>12 DEF Return
  <2>. QED
    BY <2>1, <2>2, <2>3, <2>4, <2>5, <2>6, <2>7, <2>8, <2>9, <2>10, <2>11,
       <2>12 DEF Step, CallerStep, RejectCanceled, RejectConfig,
       RejectOverlap
<1>. QED
  BY <1>1, <1>2

(* Whatever was collected is seen, queued or accounted for by an error at  *)
(* every point of a run (processor.go:64-88, pipeline.go:96-128).          *)
LEMMA CompletionStep ==
  ASSUME IInv, NEW c \in Caller, Step(c) \/ CallerStep(c), NEW d \in Caller
  PROVE  CompletionInv(d)'
PROOF
<1> USE PipelineAssumption
<1>0. TypeOK /\ CandidatesInv(d) /\ SendInv(d) /\ CompletionInv(d) BY DEF IInv
<1> USE DEF CompletionInv, InDelivery, Result
<1>1. CASE d # c
  <2>1. /\ pc'[d] = pc[d] /\ src'[d] = src[d] /\ canceled'[d] = canceled[d]
        /\ items'[d] = items[d] /\ unseen'[d] = unseen[d]
        /\ pos'[d] = pos[d] /\ errs'[d] = errs[d]
    BY <1>1, OthersFrame
  <2>2. seen[src[d]] \subseteq seen'[src[d]]
    BY <1>0, KnowledgeGrows DEF TypeOK
  <2>3. KeysOf(items[d])' = KeysOf(items[d]) /\ KeysOf(unseen[d])' = KeysOf(unseen[d])
    BY <2>1
  <2>4. Result(d)' = Result(d)
    BY <2>1
  <2>. QED
    BY <1>0, <2>1, <2>2, <2>3, <2>4
<1>2. ASSUME NEW stage, Reject(c, stage) PROVE CompletionInv(c)'
  <2>1. pc[c] = "idle" /\ pc' = pc
    BY <1>2 DEF Reject
  <2>. QED
    BY <2>1
<1>3. ASSUME pc'[c] \in {"idle", "collect", "process"}
      PROVE CompletionInv(c)'
  BY <1>3
<1>4. ASSUME pc'[c] = "return", Result(c)' # {}
      PROVE CompletionInv(c)'
  BY <1>4
<1>5. ASSUME CompletionInv(c), Cancel(c) PROVE CompletionInv(c)'
  <2>1. /\ pc' = pc /\ src' = src /\ seen' = seen /\ errs' = errs
        /\ items' = items /\ unseen' = unseen /\ pos' = pos
        /\ canceled'[c]
    BY <1>0, <1>5 DEF Cancel, TypeOK, storeVars, runVars, loopVars
  <2>2. Result(c)' # {}
    BY <2>1
  <2>3. /\ KeysOf(items[c])' = KeysOf(items[c])
        /\ KeysOf(unseen[c])' = KeysOf(unseen[c])
    BY <2>1
  <2>. QED
    BY <1>5, <2>1, <2>2, <2>3
<1>6. CASE d = c
  <2> USE <1>6
  <2> USE DEF GoTo
  <2>1. ASSUME NEW p \in Pipe, NEW s \in Source, Begin(c, p, s)
        PROVE CompletionInv(c)'
    BY <1>0, <1>3, <2>1 DEF Begin, TypeOK
  <2>2. ASSUME NEW batch \in Batch, CollectOk(c, batch) PROVE CompletionInv(c)'
    BY <1>0, <1>3, <2>2 DEF CollectOk, TypeOK
  <2>3. CASE CollectFail(c) \/ ProcessFail(c) \/ CheckFail(c)
    <3>1. errs'[c] # {}
      BY <1>0, <2>3, ErrorAdded DEF CollectFail, ProcessFail, CheckFail
    <3>2. pc'[c] = "return"
      BY <1>0, <2>3 DEF CollectFail, ProcessFail, CheckFail, TypeOK
    <3>. QED
      BY <1>4, <3>1, <3>2
  <2>4. CASE EstablishFirst(c)
    <3>1. /\ pc'[c] = "return" /\ items' = items /\ src' = src
          /\ KeysOf(items[c]) \subseteq seen'[src[c]]
      BY <1>0, <2>4 DEF EstablishFirst, EstablishBaseline, TypeOK,
         StoreTypeOK, loopVars, runVars
    <3>. QED
      BY <3>1
  <2>5. CASE BaselineKnown(c)
    <3>1. /\ pc'[c] = "check" /\ pos'[c] = 1
          /\ items'[c] \in Seq(Item)
      BY <1>0, <2>5 DEF BaselineKnown, Identified, TypeOK, loopVars,
         CandidatesInv
    <3>. QED
      BY <3>1
  <2>6. CASE Check(c)
    <3> DEFINE x == items[c][pos[c]]
    <3>1. /\ pc'[c] = "check" /\ items' = items /\ src' = src /\ seen' = seen
          /\ pos'[c] = pos[c] + 1 /\ pos[c] \in Nat
          /\ items[c] \in Seq(Item)
          /\ \A i \in DOMAIN items[c] : i < pos[c] =>
               KeyOf[items[c][i]] \in seen[src[c]] \cup KeysOf(unseen[c])
      BY <1>0, <2>6 DEF Check, Checking, Advance, TypeOK, storeVars, runVars
    <3>2. KeysOf(unseen'[c]) = KeysOf(unseen[c]) \cup {KeyOf[x]}
          \/ /\ KeyOf[x] \in seen[src[c]] \cup KeysOf(unseen[c])
             /\ unseen' = unseen
      <4>1. CASE ~Fresh(c)
        BY <2>6, <4>1 DEF Check, Fresh, HasItem, CollectedKey
      <4>2. CASE Fresh(c)
        <5>1. /\ unseen'[c] = Append(unseen[c], x)
              /\ unseen[c] \in Seq(Item) /\ x \in Item
          BY <1>0, <2>6, <4>2 DEF Check, Checking, TypeOK
        <5>. QED
          BY <5>1, KeysAppend
      <4>. QED
        BY <4>1, <4>2
    <3>3. \A i \in DOMAIN items[c] : i < pos[c] + 1 =>
            KeyOf[items[c][i]] \in seen[src[c]] \cup KeysOf(unseen'[c])
      BY <3>1, <3>2
    <3>. QED
      BY <3>1, <3>3
  <2>7. CASE CheckDone(c)
    <3>1. /\ pc'[c] = "deliver" /\ pos'[c] = 1 /\ items' = items
          /\ unseen' = unseen /\ src' = src /\ seen' = seen
          /\ unseen[c] \in Seq(Item)
      BY <1>0, <2>7 DEF CheckDone, TypeOK, loopVars, runVars, storeVars
    <3>2. KeysOf(items[c]) \subseteq seen[src[c]] \cup KeysOf(unseen[c])
      <4>1. /\ items[c] \in Seq(Item) /\ pos[c] \in Nat
            /\ pos[c] > Len(items[c]) /\ pc[c] = "check"
        BY <1>0, <2>7 DEF CheckDone, TypeOK
      <4>2. \A i \in DOMAIN items[c] :
              KeyOf[items[c][i]] \in seen[src[c]] \cup KeysOf(unseen[c])
        BY <1>0, <4>1
      <4>. QED
        BY <4>2 DEF KeysOf
    <3>. QED
      BY <3>1, <3>2
  <2>8. CASE StopDelivery(c)
    <3>1. /\ InDelivery(c) /\ pc'[c] = "return" /\ items' = items
          /\ src' = src /\ seen' = seen /\ errs' = errs /\ canceled' = canceled
      BY <1>0, <2>8 DEF StopDelivery, TypeOK, loopVars, runVars, storeVars,
         ctxVars
    <3>2. CASE canceled[c]
      BY <1>4, <3>1, <3>2
    <3>3. CASE ~canceled[c]
      <4>1. \A i \in DOMAIN unseen[c] : i < pos[c]
        BY <1>0, <2>8, <3>3 DEF StopDelivery, TypeOK
      <4>2. errs[c] # {} \/ KeysOf(unseen[c]) \subseteq seen[src[c]]
        BY <1>0, <3>1, <4>1 DEF KeysOf
      <4>3. KeysOf(items[c]) \subseteq seen[src[c]] \cup KeysOf(unseen[c])
        BY <1>0, <3>1
      <4>. QED
        BY <3>1, <4>2, <4>3
    <3>. QED
      BY <3>2, <3>3
  <2>9. CASE Map(c) \/ BeginSend(c) \/ SendOk(c)
    <3>1. /\ InDelivery(c) /\ InDelivery(c)' /\ items' = items
          /\ unseen' = unseen /\ src' = src /\ seen' = seen /\ errs' = errs
          /\ pos' = pos
      BY <1>0, <2>9 DEF Map, BeginSend, SendOk, Delivering, TypeOK, loopVars,
         runVars, storeVars
    <3>. QED
      BY <1>0, <3>1
  <2>10. CASE MapFail(c) \/ SendFail(c) \/ MarkFail(c)
    <3>1. InDelivery(c) /\ errs'[c] # {} /\ pc'[c] = "deliver"
      <4>1. errs'[c] # {}
        BY <1>0, <2>10, ErrorAdded DEF MapFail, SendFail, MarkFail
      <4>2. InDelivery(c) /\ pc'[c] = "deliver"
        BY <1>0, <2>10 DEF MapFail, SendFail, MarkFail, Delivering, TypeOK
      <4>. QED
        BY <4>1, <4>2
    <3>2. items' = items /\ unseen' = unseen /\ src' = src /\ seen' = seen
      BY <2>10 DEF MapFail, SendFail, MarkFail, loopVars, runVars, storeVars
    <3>3. KeysOf(items[c]) \subseteq seen[src[c]] \cup KeysOf(unseen[c])
      BY <1>0, <3>1
    <3>. QED
      BY <3>1, <3>2, <3>3
  <2>11. CASE Mark(c)
    <3>1. /\ InDelivery(c) /\ pc'[c] = "deliver" /\ errs' = errs
          /\ items' = items /\ unseen' = unseen /\ src' = src
          /\ pos[c] \in Nat /\ pos'[c] = pos[c] + 1
          /\ unseen[c] \in Seq(Item)
      BY <1>0, <2>11 DEF Mark, Advance, TypeOK, loopVars, runVars
    <3>2. seen'[src[c]] = seen[src[c]] \cup {KeyOf[unseen[c][pos[c]]]}
      BY <1>0, <2>11 DEF Mark, MarkItemSeen, CandidateKey, Candidate, TypeOK,
         StoreTypeOK
    <3>3. \A i \in DOMAIN unseen[c] : i < pos[c] + 1 =>
            KeyOf[unseen[c][i]] \in seen'[src[c]] \/ errs[c] # {}
      <4>1. \A i \in DOMAIN unseen[c] : i < pos[c] + 1 =>
              i < pos[c] \/ i = pos[c]
        BY <3>1
      <4>. QED
        BY <1>0, <3>1, <3>2, <4>1
    <3>4. KeysOf(items[c]) \subseteq seen'[src[c]] \cup KeysOf(unseen[c])
      BY <1>0, <3>1, <3>2
    <3>. QED
      BY <3>1, <3>3, <3>4
  <2>12. CASE Return(c)
    BY <1>0, <1>3, <2>12 DEF Return, TypeOK
  <2>. QED
    BY <1>0, <1>2, <1>5, <2>1, <2>2, <2>3, <2>4, <2>5, <2>6, <2>7, <2>8,
       <2>9, <2>10, <2>11, <2>12 DEF Step, CallerStep, RejectCanceled,
       RejectConfig, RejectOverlap
<1>. QED
  BY <1>1, <1>6

(* Every sendable candidate the loop has passed was handed to the sender   *)
(* (pipeline.go:111-127).                                                  *)
LEMMA TriedStep ==
  ASSUME IInv, NEW c \in Caller, Step(c) \/ CallerStep(c), NEW d \in Caller
  PROVE  TriedInv(d)'
PROOF
<1> USE PipelineAssumption
<1>0. TypeOK /\ CandidatesInv(d) /\ SendInv(d) /\ TriedInv(d) BY DEF IInv
<1> USE DEF TypeOK, TriedInv, Passed, InDelivery
<1>1. CASE d # c
  BY <1>0, <1>1, OthersFrame
<1>2. CASE d = c
  <2> USE <1>2
  <2> USE DEF GoTo, Advance, AddError, runVars, ctxVars, loopVars
  <2>1. ASSUME NEW stage, Reject(c, stage) PROVE TriedInv(d)'
    BY <1>0, <2>1 DEF Reject
  <2>2. ASSUME NEW p \in Pipe, NEW s \in Source, Begin(c, p, s)
        PROVE TriedInv(d)'
    BY <1>0, <2>2 DEF Begin
  <2>3. CASE Cancel(c)
    BY <1>0, <2>3 DEF Cancel
  <2>4. ASSUME NEW batch \in Batch, CollectOk(c, batch) PROVE TriedInv(d)'
    BY <1>0, <2>4 DEF CollectOk
  <2>5. CASE \/ CollectFail(c) \/ ProcessFail(c) \/ EstablishFirst(c)
             \/ BaselineKnown(c)
    BY <1>0, <2>5 DEF CollectFail, ProcessFail, EstablishFirst, Identified,
       BaselineKnown, CandidatesInv
  <2>6. CASE Check(c) \/ CheckFail(c) \/ CheckDone(c)
    BY <1>0, <2>6 DEF Check, CheckFail, CheckDone, Checking
  <2>7. CASE StopDelivery(c)
    BY <1>0, <2>7 DEF StopDelivery
  <2>8. CASE Map(c) \/ MapFail(c)
    BY <1>0, <2>8 DEF Map, MapFail, Delivering, Candidate
  <2>9. CASE BeginSend(c)
    BY <1>0, <2>9 DEF BeginSend, CandidateKey, Candidate
  <2>10. CASE SendOk(c) \/ SendFail(c) \/ Mark(c) \/ MarkFail(c)
    BY <1>0, <2>10 DEF SendOk, SendFail, Mark, MarkFail
  <2>11. CASE Return(c)
    BY <1>0, <2>11 DEF Return
  <2>. QED
    BY <2>1, <2>2, <2>3, <2>4, <2>5, <2>6, <2>7, <2>8, <2>9, <2>10, <2>11
       DEF Step, CallerStep, RejectCanceled, RejectConfig, RejectOverlap
<1>. QED
  BY <1>1, <1>2

(* A run ends in Return only, and in its own step.                         *)
LEMMA ReturnOnly ==
  ASSUME IInv, Next, NEW c \in Caller, Returns(c)
  PROVE  Return(c)
PROOF
<1>0. TypeOK BY DEF IInv
<1>1. PICK b \in Caller : Step(b) \/ CallerStep(b)
  BY DEF Next
<1>2. b = c
  BY <1>1, OthersFrame DEF Returns
<1>. QED
  BY <1>0, <1>1, <1>2 DEF Returns, TypeOK, Step, CallerStep, RejectCanceled,
     RejectConfig, RejectOverlap, Reject, Begin, Cancel, CollectOk,
     CollectFail, ProcessFail, EstablishFirst, Identified, BaselineKnown,
     Check, Checking, CheckFail, CheckDone, StopDelivery, Map, MapFail,
     Delivering, BeginSend, SendOk, SendFail, Mark, MarkFail
-----------------------------------------------------------------------------
(* New pipelines over a new store satisfy the inductive invariant          *)
(* (pipeline.go:52-71, memory.go:23-28).                                   *)
THEOREM InitEstablishes == Init => IInv
PROOF
<1> SUFFICES ASSUME Init PROVE IInv
  OBVIOUS
<1> USE PipelineAssumption, AnyTyped DEF Init, StoreInit
<1>1. TypeOK BY DEF TypeOK, StoreTypeOK, PC
<1>2. MutexInv /\ HistoryInv BY DEF MutexInv, HistoryInv
<1>3. ASSUME NEW c \in Caller
      PROVE  /\ CandidatesInv(c) /\ SendInv(c) /\ CompletionInv(c)
             /\ TriedInv(c)
  BY <1>3 DEF CandidatesInv, SendInv, CompletionInv, TriedInv, InDelivery
<1>. QED
  BY <1>1, <1>2, <1>3 DEF IInv

(* IInv is inductive: no step of RunOnce, of another run or of a caller    *)
(* breaks it (pipeline.go:77-129, processor.go:38-89).                     *)
THEOREM StepPreserves == IInv /\ [Next]_vars => IInv'
PROOF
<1> SUFFICES ASSUME IInv, [Next]_vars PROVE IInv'
  OBVIOUS
<1>1. TypeOK' /\ MutexInv' /\ HistoryInv'
  BY TypeStep, MutexStep, HistoryStep
<1>2. ASSUME NEW d \in Caller
      PROVE  (/\ CandidatesInv(d) /\ SendInv(d) /\ CompletionInv(d)
              /\ TriedInv(d))'
  <2>1. CASE UNCHANGED vars
    <3>1. CandidatesInv(d)'
      BY <2>1 DEF IInv, vars, CandidatesInv, InDelivery, KeysOf
    <3>2. SendInv(d)'
      BY <2>1 DEF IInv, vars, SendInv, CandidateKey, Candidate
    <3>3. CompletionInv(d)'
      <4>1. /\ KeysOf(items[d])' = KeysOf(items[d])
            /\ KeysOf(unseen[d])' = KeysOf(unseen[d])
        BY <2>1 DEF vars
      <4>. QED
        BY <2>1, <4>1 DEF IInv, vars, CompletionInv, InDelivery, Result
    <3>4. TriedInv(d)'
      BY <2>1 DEF IInv, vars, TriedInv, InDelivery, Passed
    <3>. QED
      BY <3>1, <3>2, <3>3, <3>4
  <2>2. CASE Next
    BY <2>2, CandidatesStep, SendStep, CompletionStep, TriedStep DEF Next
  <2>. QED
    BY <2>1, <2>2
<1>. QED
  BY <1>1, <1>2 DEF IInv

(* The inductive invariant of RunOnce holds in every reachable state.      *)
THEOREM Invariance == Spec => []IInv
  BY InitEstablishes, StepPreserves, PTL DEF Spec

(* Every variable of the model keeps its type.                             *)
THEOREM TypeCorrect == Spec => []TypeOK
<1>1. IInv => TypeOK BY DEF IInv
<1>. QED BY Invariance, <1>1, PTL

(* The silent baseline is never announced, by any run of any pipeline      *)
(* (processor.go:64-87).                                                   *)
THEOREM BaselineStaysSilent == Spec => []BaselineSilent
<1>1. IInv => BaselineSilent BY DEF IInv, HistoryInv, BaselineSilent
<1>. QED BY Invariance, <1>1, PTL

(* Nothing is recorded as seen that was neither learnt silently nor        *)
(* accepted by the sender (pipeline.go:115-126).                           *)
THEOREM SeenIsJustified == Spec => []SeenWasDeliveredOrBaseline
<1>1. IInv => SeenWasDeliveredOrBaseline
  BY DEF IInv, HistoryInv, SeenWasDeliveredOrBaseline
<1>. QED BY Invariance, <1>1, PTL

(* A pipeline does not repeat a key it has sent and marked                 *)
(* (pipeline.go:90, processor.go:74-87).                                   *)
THEOREM ConfirmedIsFinal == Spec => []NoResendAfterConfirm
<1>1. IInv => NoResendAfterConfirm
  <2> SUFFICES ASSUME IInv, NEW c \in Caller, pc[c] \in {"send", "sending"}
               PROVE  CandidateKey(c) \notin confirmed[pipe[c]][src[c]]
    BY DEF NoResendAfterConfirm
  <2>1. pos[c] \in DOMAIN unseen[c] /\ pos[c] >= pos[c]
    BY DEF IInv, SendInv, TypeOK
  <2>. QED
    BY <2>1 DEF IInv, CandidatesInv, CandidateKey, Candidate
<1>. QED BY Invariance, <1>1, PTL

(* A pipeline never has two runs at a time (pipeline.go:90-93).            *)
THEOREM RunsExclude == Spec => []OneRunPerPipe
<1>1. IInv => OneRunPerPipe BY DEF IInv, MutexInv, OneRunPerPipe
<1>. QED BY Invariance, <1>1, PTL

(* At most one send of a run begins after the caller's cancellation        *)
(* (pipeline.go:112-120).                                                  *)
THEOREM LateSendsBounded == Spec => []AtMostOneLateSend
<1>1. IInv => AtMostOneLateSend BY DEF IInv, SendInv, AtMostOneLateSend
<1>. QED BY Invariance, <1>1, PTL

(* A nil result of RunOnce leaves nothing of the collection unseen         *)
(* (pipeline.go:96-128).                                                   *)
THEOREM NilIsComplete == Spec => NilMeansComplete
<1> DEFINE Complete == \A c \in Caller : Returns(c) /\ errs'[c] = {} =>
                         KeysOf(items[c]) \subseteq seen[src[c]]
<1>1. ASSUME IInv, [Next]_vars PROVE [Complete]_vars
  <2>1. CASE UNCHANGED vars BY <2>1
  <2>2. ASSUME Next, NEW c \in Caller, Returns(c), errs'[c] = {}
        PROVE  KeysOf(items[c]) \subseteq seen[src[c]]
    <3>1. Return(c)
      BY <1>1, <2>2, ReturnOnly
    <3>2. Result(c) = {} /\ pc[c] = "return"
      BY <1>1, <2>2, <3>1 DEF Return, Returns, IInv, TypeOK
    <3>. QED
      BY <1>1, <3>2 DEF IInv, CompletionInv
  <2>. QED BY <1>1, <2>1, <2>2
<1>. QED BY Invariance, <1>1, PTL DEF Spec, NilMeansComplete

(* A failure of one item keeps no later item from the sender               *)
(* (pipeline.go:111-127).                                                  *)
THEOREM FailuresAreIsolated == Spec => FailuresNeverBlock
<1> DEFINE Unblocked == \A c \in Caller : Returns(c) /\ "caller" \notin errs'[c] =>
                          \A i \in DOMAIN unseen[c] : unseen[c][i] \in Mappable =>
                            KeyOf[unseen[c][i]] \in tried[c]
<1>1. ASSUME IInv, [Next]_vars PROVE [Unblocked]_vars
  <2>1. CASE UNCHANGED vars BY <2>1
  <2>2. ASSUME Next, NEW c \in Caller, Returns(c), "caller" \notin errs'[c],
               NEW i \in DOMAIN unseen[c], unseen[c][i] \in Mappable
        PROVE  KeyOf[unseen[c][i]] \in tried[c]
    <3>1. Return(c)
      BY <1>1, <2>2, ReturnOnly
    <3>2. ~canceled[c] /\ pc[c] = "return"
      BY <1>1, <2>2, <3>1 DEF Return, Returns, Result, IInv, TypeOK
    <3>. QED
      BY <1>1, <2>2, <3>2 DEF IInv, TriedInv, Passed
  <2>. QED BY <1>1, <2>1, <2>2
<1>. QED BY Invariance, <1>1, PTL DEF Spec, FailuresNeverBlock

(* A batch that is refused leaves nothing in the store and nothing with    *)
(* the sender (processor.go:53-62).                                        *)
THEOREM RefusalsLeaveNoTrace == Spec => RefusedBatchesLeaveNoTrace
PROOF
<1>1. ASSUME IInv, Next, NEW c \in Caller, NoKey \in KeysOf(items[c]),
             pc'[c] # pc[c]
      PROVE  UNCHANGED <<storeVars, histVars>>
  <2>1. PICK b \in Caller : Step(b) \/ CallerStep(b)
    BY <1>1 DEF Next
  <2>2. b = c
    BY <1>1, <2>1, OthersFrame
  <2>3. pc[c] # "check" /\ ~InDelivery(c)
    BY <1>1, PipelineAssumption DEF IInv, CandidatesInv
  <2>4. ~Identified(c)
    BY <1>1 DEF Identified
  <2>. QED
    BY <2>1, <2>2, <2>3, <2>4 DEF InDelivery, CallerStep, RejectCanceled,
       RejectConfig, RejectOverlap, Reject, Begin, Cancel, Step, CollectOk,
       CollectFail, ProcessFail, EstablishFirst, BaselineKnown, Check,
       Checking, CheckFail, CheckDone, StopDelivery, Map, MapFail, Delivering,
       BeginSend, SendOk, SendFail, Mark, MarkFail, Return
<1>2. IInv /\ [Next]_vars =>
        [\A c \in Caller : NoKey \in KeysOf(items[c]) /\ pc'[c] # pc[c] =>
           UNCHANGED <<storeVars, histVars>>]_vars
  BY <1>1
<1>. QED
  BY <1>2, Invariance, PTL DEF Spec, RefusedBatchesLeaveNoTrace

(* The pipeline implements the delivery contract: every step of a run is a *)
(* step of the contract or leaves its state unchanged.                     *)
THEOREM Implementation == Spec => ImplementsContract
PROOF
<1>1. Init => Contract!Init
  BY DEF Init, StoreInit, Contract!Init
<1>2. ASSUME IInv, [Next]_vars
      PROVE  [Contract!Next]_Contract!vars
  <2>0. /\ TypeOK /\ StoreTypeOK /\ HistoryInv
        /\ \A c \in Caller : CandidatesInv(c) /\ SendInv(c)
    BY <1>2 DEF IInv, TypeOK
  <2>1. CASE UNCHANGED <<storeVars, histVars>>
    BY <2>1 DEF storeVars, histVars, Contract!vars
  <2>2. ASSUME NEW c \in Caller, EstablishFirst(c) PROVE Contract!Next
    <3>1. KeysOf(items[c]) \in SUBSET Key /\ src[c] \in Source
      BY <2>0, <2>2, KeysTyped DEF EstablishFirst, Identified, TypeOK
    <3>2. seen[src[c]] = {} /\ src[c] \notin initialized
      BY <2>0, <2>2, <3>1 DEF EstablishFirst, EstablishBaseline,
         IsSourceInitialized, HistoryInv
    <3>3. KeysOf(items[c]) \in {KeysOf(batch) : batch \in Identifiable}
      BY <2>0, <2>2 DEF EstablishFirst, Identified, CandidatesInv,
         Identifiable
    <3>4. Contract!Establish(src[c], KeysOf(items[c]))
      BY <2>0, <2>2, <3>1, <3>2 DEF EstablishFirst, EstablishBaseline,
         Contract!Establish, StoreTypeOK
    <3>. QED
      BY <3>1, <3>3, <3>4 DEF Contract!Next
  <2>3. ASSUME NEW c \in Caller, BeginSend(c) \/ SendOk(c) \/ Mark(c)
        PROVE Contract!Next
    <3>1. CandidateKey(c) \in Key /\ src[c] \in Source
      BY <2>0, <2>3 DEF BeginSend, SendOk, Mark, CandidatesInv, SendInv,
         CandidateKey, Candidate, TypeOK
    <3>2. CASE BeginSend(c)
      BY <2>0, <3>1, <3>2 DEF BeginSend, CandidatesInv, SendInv, CandidateKey,
         Candidate, storeVars, Contract!Next, Contract!Attempt
    <3>3. CASE SendOk(c)
      BY <2>0, <3>1, <3>3 DEF SendOk, SendInv, storeVars, Contract!Next,
         Contract!Deliver
    <3>4. CASE Mark(c)
      BY <2>0, <3>1, <3>4 DEF Mark, MarkItemSeen, SendInv, Contract!Next,
         Contract!Complete
    <3>. QED
      BY <2>3, <3>2, <3>3, <3>4
  <2>4. ASSUME NEW c \in Caller, CallerStep(c)
        PROVE UNCHANGED <<storeVars, histVars>>
    BY <2>4 DEF CallerStep, RejectCanceled, RejectConfig, RejectOverlap,
       Reject, Begin, Cancel
  <2>5. ASSUME NEW c \in Caller, Step(c)
        PROVE  Contract!Next \/ UNCHANGED <<storeVars, histVars>>
    BY <2>2, <2>3, <2>5 DEF Step, CollectOk, CollectFail, ProcessFail,
       BaselineKnown, Check, CheckFail, CheckDone, StopDelivery, Map, MapFail,
       SendFail, MarkFail, Return
  <2>. QED
    BY <1>2, <2>1, <2>4, <2>5 DEF Next, vars, storeVars, histVars
<1>. QED
  BY Invariance, <1>1, <1>2, PTL DEF Spec, Contract!Spec, ImplementsContract
=============================================================================
