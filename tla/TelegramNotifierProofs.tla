----------------------- MODULE TelegramNotifierProofs -----------------------
(***************************************************************************)
(* What Send guarantees for every message and every limit: the text it     *)
(* submits fits, a summary is cut only where it must be and visibly, and   *)
(* Telegram is asked once.                                                 *)
(***************************************************************************)
EXTENDS TelegramNotifier, WellFoundedInduction, TLAPS

Text == Seq({1, 2})

(* Induction over the runes of a text (renderer.go:81) is done by looking  *)
(* at the first number that is an exception.                               *)
LEMMA Least ==
  ASSUME NEW T \in SUBSET Nat, T # {}
  PROVE  \E n \in T : \A m \in T : n <= m
PROOF
<1> DEFINE R == {pair \in Nat \X Nat : pair[1] < pair[2]}
<1>1. IsWellFoundedOn(R, Nat)
  BY NatLessThanWellFounded DEF OpToRel
<1> HIDE DEF R
<1>2. PICK n \in T : \A m \in T : <<m, n>> \notin R
  BY <1>1, WFMin
<1>3. \A m \in T : ~ m < n
  BY <1>2 DEF R
<1>. QED
  BY <1>3

(* The units of the first k runes, as a function that counts them.         *)
Counts(text, k, units) ==
  units = [n \in 0..k |-> IF n = 0 THEN 0 ELSE units[n - 1] + text[n]]

(* There is such a function, so that Units is what its definition says     *)
(* (renderer.go:79-85).                                                    *)
LEMMA UnitsCount ==
  ASSUME NEW text \in Text
  PROVE  Counts(text, Len(text), Units(text))
PROOF
<1> DEFINE T == {k \in Nat : ~ \E units : Counts(text, k, units)}
<1>1. T = {}
  <2> SUFFICES ASSUME T # {} PROVE FALSE
    OBVIOUS
  <2>1. PICK k \in T : \A m \in T : k <= m
    BY Least
  <2>2. k # 0
    <3>1. Counts(text, 0, [n \in 0..0 |-> 0])
      BY DEF Counts
    <3>. QED
      BY <3>1
  <2>3. k - 1 \in Nat /\ k - 1 \notin T
    BY <2>1, <2>2
  <2>4. PICK units : Counts(text, k - 1, units)
    BY <2>3
  <2> DEFINE more == [n \in 0..k |-> IF n = k THEN units[k - 1] + text[k]
                                     ELSE units[n]]
  <2>5. \A n \in 0..k : more[n] = IF n = 0 THEN 0 ELSE more[n - 1] + text[n]
    BY <2>1, <2>2, <2>4 DEF Counts
  <2>6. Counts(text, k, more)
    BY <2>1, <2>5 DEF Counts
  <2>. QED
    BY <2>1, <2>6
<1>2. Len(text) \in Nat
  BY DEF Text
<1>3. \E units : Counts(text, Len(text), units)
  BY <1>1, <1>2
<1>. QED
  BY <1>3 DEF Counts, Units

(* A unit more or two for every rune (renderer.go:81-83).                  *)
LEMMA UnitsStep ==
  ASSUME NEW text \in Text
  PROVE  /\ Units(text)[0] = 0
         /\ \A n \in 1..Len(text) :
              Units(text)[n] = Units(text)[n - 1] + text[n]
         /\ \A n \in 0..Len(text) : Units(text)[n] \in Nat
PROOF
<1> DEFINE units == Units(text)
           T == {n \in 0..Len(text) : units[n] \notin Nat}
<1>0. Len(text) \in Nat /\ \A n \in 1..Len(text) : text[n] \in Nat
  BY DEF Text
<1>1. /\ units[0] = 0
      /\ \A n \in 1..Len(text) : units[n] = units[n - 1] + text[n]
  <2>1. units = [n \in 0..Len(text) |-> IF n = 0 THEN 0
                                        ELSE units[n - 1] + text[n]]
    BY UnitsCount DEF Counts
  <2> HIDE DEF units
  <2>. QED
    BY <1>0, <2>1
<1> HIDE DEF units
<1>2. T = {}
  <2> SUFFICES ASSUME T # {} PROVE FALSE
    OBVIOUS
  <2>1. T \in SUBSET Nat
    BY <1>0
  <2>2. PICK n \in T : \A m \in T : n <= m
    BY <2>1, Least
  <2>3. n \in 1..Len(text)
    BY <1>0, <1>1, <2>2
  <2>4. n - 1 \notin T
    BY <2>2, <2>3
  <2>5. units[n - 1] \in Nat
    BY <1>0, <2>3, <2>4
  <2>. QED
    BY <1>0, <1>1, <2>2, <2>3, <2>5
<1>. QED
  BY <1>1, <1>2 DEF units

(* The length of a beginning of a text is what the loop has counted there  *)
(* (renderer.go:91-95).                                                    *)
LEMMA UnitsOfPrefix ==
  ASSUME NEW text \in Text, NEW k \in 0..Len(text)
  PROVE  /\ SubSeq(text, 1, k) \in Text
         /\ textLength(SubSeq(text, 1, k)) = Units(text)[k]
PROOF
<1> DEFINE prefix == SubSeq(text, 1, k)
           T == {n \in 0..k : Units(prefix)[n] # Units(text)[n]}
<1>0. Len(text) \in Nat /\ k \in Nat /\ k <= Len(text)
  BY DEF Text
<1>1. /\ prefix \in Text /\ Len(prefix) = k
      /\ \A n \in 1..k : prefix[n] = text[n]
  BY <1>0 DEF Text
<1> HIDE DEF prefix
<1>2. T = {}
  <2> SUFFICES ASSUME T # {} PROVE FALSE
    OBVIOUS
  <2>1. T \in SUBSET Nat
    BY <1>0
  <2>2. PICK n \in T : \A m \in T : n <= m
    BY <2>1, Least
  <2>3. n \in 1..k
    BY <1>0, <1>1, <2>2, UnitsStep
  <2>4. n - 1 \in 0..k /\ n - 1 \notin T
    BY <1>0, <2>2, <2>3
  <2>5. Units(prefix)[n - 1] = Units(text)[n - 1]
    BY <2>4
  <2>6. /\ Units(prefix)[n] = Units(prefix)[n - 1] + prefix[n]
        /\ Units(text)[n] = Units(text)[n - 1] + text[n]
    BY <1>0, <1>1, <2>3, UnitsStep
  <2>. QED
    BY <1>1, <2>2, <2>3, <2>5, <2>6
<1>. QED
  BY <1>0, <1>1, <1>2 DEF textLength, prefix

(* Lengths are numbers, and the budget is one.                             *)
LEMMA Numbers ==
  ASSUME NEW m \in Message
  PROVE  /\ m.summary \in Text /\ m.published \in Nat
         /\ Title(m) \in Nat /\ Footer(m) \in Nat /\ SummaryBudget(m) \in Int
         /\ textLength(m.summary) \in Nat
         /\ textLength(m.summary) = Units(m.summary)[Len(m.summary)]
         /\ m.summary = <<>> => m.blank
         /\ m.blank \in BOOLEAN
PROOF
<1>1. /\ m.summary \in Text /\ m.blank \in BOOLEAN
      /\ m.summary = <<>> => m.blank
      /\ m.title \in Nat /\ m.source \in Nat /\ m.published \in Nat
      /\ m.link \in BOOLEAN
  BY TelegramAssumption DEF Text
<1>2. Len(m.summary) \in 0..Len(m.summary)
  BY <1>1 DEF Text
<1>3. textLength(m.summary) = Units(m.summary)[Len(m.summary)]
  BY DEF textLength
<1>4. Units(m.summary)[Len(m.summary)] \in Nat
  BY <1>1, <1>2, UnitsStep
<1>5. /\ TitleMark \in Nat /\ SourceMark \in Nat
      /\ PublishedMark \in Nat /\ LinkMark \in Nat
      /\ MaxMessageLength \in Nat
  BY TelegramAssumption
<1>6. Title(m) \in Nat /\ Footer(m) \in Nat
  <2> DEFINE published == IF m.published > 0 THEN PublishedMark + m.published
                          ELSE 0
             link == IF m.link THEN LinkMark ELSE 0
  <2>1. link \in Nat
    BY <1>5
  <2>2. published \in Nat
    BY <1>1, <1>5
  <2>3. Footer(m) = SourceMark + m.source + published + link
    BY DEF Footer
  <2> HIDE DEF published, link
  <2>4. Footer(m) \in Nat
    BY <1>1, <1>5, <2>1, <2>2, <2>3
  <2>. QED
    BY <1>1, <1>5, <2>4 DEF Title
<1>7. SummaryBudget(m) \in Int
  BY <1>5, <1>6 DEF SummaryBudget
<1>. QED
  BY <1>1, <1>3, <1>4, <1>6, <1>7

(* At a rune, the loop goes on by its units (renderer.go:92-93).           *)
LEMMA RuneAt ==
  ASSUME NEW m \in Message, NEW n \in 1..Len(m.summary)
  PROVE  /\ Units(m.summary)[n] = Units(m.summary)[n - 1] + m.summary[n]
         /\ Units(m.summary)[n] \in Nat /\ Units(m.summary)[n - 1] \in Nat
         /\ m.summary[n] \in Nat /\ Len(m.summary) \in Nat
PROOF
<1>1. m.summary \in Text
  BY Numbers
<1>2. m.summary[n] \in Nat /\ Len(m.summary) \in Nat
  BY <1>1 DEF Text
<1>3. n \in 0..Len(m.summary) /\ n - 1 \in 0..Len(m.summary)
  BY <1>2
<1>. QED
  BY <1>1, <1>2, <1>3, UnitsStep

(* The loop starts with a budget that has a unit for the ellipsis, over a  *)
(* summary that is too long for it (renderer.go:72-75, 88-92).             *)
LEMMA StartCutKeeps ==
  ASSUME IInv, StartCut
  PROVE  LoopInv'
PROOF
<1>1. /\ pc = "render" /\ pc' = "cut" /\ message' = message
      /\ kept' = kept /\ ellipsis' = ellipsis /\ index' = 1
      /\ remaining' = SummaryBudget(message) - 1
      /\ ~RenderFails(message) /\ ~Whole(message)
  BY DEF StartCut, StartCutWith
<1>2. message \in Message /\ kept = <<>> /\ ~ellipsis
  BY <1>1 DEF IInv, TypeOK, LoopInv
<1>3. /\ message.summary # <<>> /\ ~message.blank
      /\ SummaryBudget(message) >= 1
  BY <1>1, <1>2, Numbers DEF Whole, RenderFails, NoRoom
<1>4. 1 \in 1..Len(message.summary) /\ Units(message.summary)[0] = 0
  BY <1>2, <1>3, Numbers, UnitsStep DEF Text
<1>. QED
  BY <1>1, <1>2, <1>3, <1>4, Numbers DEF LoopInv

(* As the whole summary is over the budget, the loop does not run off its  *)
(* end (renderer.go:92-98).                                                *)
LEMMA CutNextKeeps ==
  ASSUME IInv, CutNext
  PROVE  LoopInv'
PROOF
<1> DEFINE units == Units(message.summary)
<1>1. /\ pc = "cut" /\ message' = message
      /\ ellipsis' = ellipsis /\ index' = index + 1
      /\ remaining' = remaining - message.summary[index]
      /\ remaining - message.summary[index] >= 0
      /\ index # Len(message.summary) => pc' = "cut" /\ kept' = kept
  BY DEF CutNext, Width
<1>2. /\ message \in Message /\ ~RenderFails(message) /\ ~Whole(message)
      /\ kept = <<>> /\ ~ellipsis
      /\ index \in 1..Len(message.summary)
      /\ remaining = SummaryBudget(message) - 1 - units[index - 1]
  BY <1>1 DEF IInv, TypeOK, LoopInv
<1>3. /\ units[index] = units[index - 1] + message.summary[index]
      /\ units[index] \in Nat /\ units[index - 1] \in Nat
      /\ message.summary[index] \in Nat /\ Len(message.summary) \in Nat
  BY <1>2, RuneAt
<1>4. units[Len(message.summary)] > SummaryBudget(message)
  BY <1>2, Numbers DEF Whole
<1> DEFINE budget == SummaryBudget(message)
           width == message.summary[index]
<1>b. budget \in Int
  BY <1>2, Numbers
<1> HIDE DEF units, budget, width
<1>5. remaining' = budget - 1 - units[index]
  <2>1. remaining' = (budget - 1 - units[index - 1]) - width
    BY <1>1, <1>2 DEF budget, width
  <2>2. units[index] = units[index - 1] + width /\ width \in Nat
    BY <1>3 DEF width
  <2>. QED
    BY <1>3, <1>b, <2>1, <2>2
<1>6. index # Len(message.summary)
  <2>1. units[Len(message.summary)] > budget
    BY <1>4 DEF budget
  <2>2. units[index] <= budget - 1
    BY <1>1, <1>3, <1>b, <1>5
  <2>. QED
    BY <1>3, <1>b, <2>1, <2>2
<1>7. index' \in 1..Len(message.summary) /\ index' - 1 = index
  <2> DEFINE length == Len(message.summary)
  <2>1. index' = index + 1
    BY <1>1
  <2>2. index \in 1..length /\ length \in Nat /\ index # length
    BY <1>2, <1>3, <1>6
  <2> HIDE DEF length
  <2>3. index' \in 1..length /\ index' - 1 = index
    BY <2>1, <2>2
  <2>. QED
    BY <2>3 DEF length
<1>. QED
  BY <1>1, <1>2, <1>5, <1>7 DEF LoopInv, units, budget

(* What is kept has room for the ellipsis, and with the next rune it would *)
(* not have (renderer.go:93-95).                                           *)
LEMMA CutHereKeeps ==
  ASSUME IInv, CutHere
  PROVE  LoopInv'
PROOF
<1> DEFINE units == Units(message.summary)
<1>1. /\ pc = "cut" /\ pc' = "submit" /\ message' = message /\ ellipsis' = TRUE
      /\ kept' = SubSeq(message.summary, 1, index - 1)
      /\ remaining - message.summary[index] < 0
  BY DEF CutHere, Width
<1>2. /\ message \in Message /\ ~RenderFails(message) /\ ~Whole(message)
      /\ index \in 1..Len(message.summary)
      /\ remaining = SummaryBudget(message) - 1 - units[index - 1]
      /\ remaining >= 0
  BY <1>1 DEF IInv, TypeOK, LoopInv
<1>3. /\ units[index] = units[index - 1] + message.summary[index]
      /\ units[index] \in Nat /\ units[index - 1] \in Nat
      /\ message.summary[index] \in Nat /\ Len(message.summary) \in Nat
  BY <1>2, RuneAt
<1> DEFINE budget == SummaryBudget(message)
           width == message.summary[index]
<1>b. budget \in Int
  BY <1>2, Numbers
<1> HIDE DEF units, budget, width
<1>4. units[index - 1] < budget /\ budget <= units[index]
  <2>1. /\ remaining - width < 0 /\ remaining >= 0
        /\ remaining = budget - 1 - units[index - 1]
    BY <1>1, <1>2 DEF budget, width
  <2>2. units[index] = units[index - 1] + width /\ width \in Nat
    BY <1>3 DEF width
  <2>. QED
    BY <1>3, <1>b, <2>1, <2>2
<1>5. index - 1 \in 0..Len(message.summary) - 1 /\ (index - 1) + 1 = index
  BY <1>2, <1>3
<1>. QED
  BY <1>1, <1>2, <1>4, <1>5 DEF LoopInv, units, budget

(* Every step of a call keeps what its rendering and its submission rest   *)
(* on (notifier.go:46-75).                                                 *)
LEMMA StepKeeps ==
  ASSUME IInv, [Next]_vars
  PROVE  IInv'
PROOF
<1> USE DEF IInv, renderVars
<1>1. CASE UNCHANGED vars
  BY <1>1 DEF vars, TypeOK, LoopInv, SentOnce
<1>2. CASE Cancel \/ Refuse \/ Start \/ RenderFail
  <2>1. TypeOK' /\ SentOnce'
    BY <1>2 DEF Cancel, Refuse, Start, RenderFail, TypeOK, SentOnce
  <2>2. /\ UNCHANGED <<message, index, remaining, kept, ellipsis>>
        /\ pc' = pc \/ pc' = "failed" \/ (pc = "ready" /\ pc' = "render")
    BY <1>2 DEF Cancel, Refuse, Start, RenderFail
  <2>3. LoopInv'
    BY <2>2 DEF LoopInv
  <2>. QED
    BY <2>1, <2>3
<1>3. CASE RenderWhole
  <2>1. message.summary \in Text
    BY Numbers DEF TypeOK
  <2>. QED
    BY <1>3, <2>1 DEF RenderWhole, TypeOK, LoopInv, SentOnce, Text
<1>4. CASE StartCut
  <2>1. SummaryBudget(message) \in Int
    BY Numbers DEF TypeOK
  <2>2. TypeOK' /\ SentOnce'
    BY <1>4, <2>1 DEF StartCut, StartCutWith, TypeOK, SentOnce
  <2>. QED
    BY <1>4, <2>2, StartCutKeeps
<1>5. CASE CutNext \/ CutHere
  <2>1. /\ index \in 1..Len(message.summary) /\ pc = "cut"
        /\ message.summary \in Text
    BY <1>5, Numbers DEF CutNext, CutHere, LoopInv, TypeOK
  <2>2. Width \in Int /\ index - 1 \in 0..Len(message.summary)
    BY <2>1 DEF Width, Text
  <2>3. SubSeq(message.summary, 1, index - 1) \in Seq({1, 2})
    BY <2>1, <2>2, UnitsOfPrefix DEF Text
  <2>4. TypeOK' /\ SentOnce'
    <3>1. CASE CutNext
      <4>1. index' \in Nat \ {0} /\ remaining' \in Int
        BY <2>1, <2>2, <3>1 DEF CutNext, TypeOK
      <4>2. kept' \in Seq({1, 2}) /\ pc' \in {"cut", "submit"}
        BY <2>1, <3>1 DEF CutNext, TypeOK, Text
      <4>. QED
        BY <2>1, <3>1, <4>1, <4>2 DEF CutNext, TypeOK, SentOnce
    <3>2. CASE CutHere
      <4>1. remaining' \in Int /\ kept' \in Seq({1, 2})
        BY <2>2, <2>3, <3>2 DEF CutHere, TypeOK
      <4>. QED
        BY <3>2, <4>1 DEF CutHere, TypeOK, SentOnce
    <3>. QED
      BY <1>5, <3>1, <3>2
  <2>. QED
    BY <1>5, <2>4, CutNextKeeps, CutHereKeeps
<1>6. CASE SubmitOk \/ SubmitFail
  BY <1>6 DEF SubmitOk, SubmitFail, TypeOK, LoopInv, SentOnce
<1>. QED
  BY <1>1, <1>2, <1>3, <1>4, <1>5, <1>6 DEF Next, Send

(* The inductive invariant: what the cutting loop knows, and what was cut  *)
(* or left whole (renderer.go:64-99).                                      *)
THEOREM Invariance == Spec => []IInv
PROOF
<1>1. Init => IInv
  <2>1. Init => TypeOK /\ SentOnce
    <3> SUFFICES ASSUME Init PROVE TypeOK /\ SentOnce
      OBVIOUS
    <3>1. /\ kept \in Seq({1, 2}) /\ index \in Nat \ {0}
          /\ remaining \in Int /\ accepted \in Nat /\ accepted <= 1
      BY DEF Init
    <3>2. /\ pc = "ready" /\ message \in Message /\ accepted = 0
          /\ canceled \in BOOLEAN /\ ellipsis = FALSE
      BY DEF Init
    <3>. QED
      BY <3>1, <3>2 DEF TypeOK, SentOnce
  <2>2. Init => LoopInv
    BY DEF Init, LoopInv
  <2>. QED
    BY <2>1, <2>2 DEF IInv
<1>2. IInv /\ [Next]_vars => IInv'
  BY StepKeeps
<1>. QED
  BY <1>1, <1>2, PTL DEF Spec

(* The units of what is submitted, with the ellipsis of a cut summary.     *)
LEMMA RenderedUnits ==
  ASSUME IInv, pc \in {"submit", "sent"}
  PROVE  /\ ellipsis =>
              \E n \in 0..Len(message.summary) - 1 :
                /\ kept = SubSeq(message.summary, 1, n)
                /\ Rendered <= MaxMessageLength
                /\ Rendered + message.summary[n + 1] > MaxMessageLength
                /\ textLength(kept) \in Nat
                /\ Rendered = Title(message) + Footer(message) + 3
                              + textLength(kept)
         /\ ~ellipsis => Rendered <= MaxMessageLength
PROOF
<1> DEFINE units == Units(message.summary)
<1>1. /\ message \in Message /\ ~RenderFails(message)
      /\ ellipsis \in BOOLEAN /\ MaxMessageLength \in Nat
  BY TelegramAssumption DEF IInv, TypeOK, LoopInv
<1>2. ASSUME ellipsis
      PROVE  \E n \in 0..Len(message.summary) - 1 :
                /\ kept = SubSeq(message.summary, 1, n)
                /\ Rendered <= MaxMessageLength
                /\ Rendered + message.summary[n + 1] > MaxMessageLength
                /\ textLength(kept) \in Nat
                /\ Rendered = Title(message) + Footer(message) + 3
                              + textLength(kept)
  <2>1. PICK n \in 0..Len(message.summary) - 1 :
          /\ kept = SubSeq(message.summary, 1, n)
          /\ units[n] < SummaryBudget(message)
          /\ SummaryBudget(message) <= units[n + 1]
    BY <1>2 DEF IInv, LoopInv
  <2>2. ~message.blank /\ message.summary \in Text
    BY <1>1, <1>2, Numbers DEF IInv, LoopInv, Whole
  <2>3. n \in 0..Len(message.summary) /\ n + 1 \in 1..Len(message.summary)
        /\ (n + 1) - 1 = n
    BY <2>2 DEF Text
  <2>4. /\ textLength(kept) = units[n] /\ units[n] \in Nat
        /\ units[n + 1] = units[n] + message.summary[n + 1]
        /\ message.summary[n + 1] \in Nat
    BY <2>1, <2>2, <2>3, UnitsStep, UnitsOfPrefix DEF Text
  <2> HIDE DEF units
  <2>5. Rendered = Title(message) + Footer(message) + 3 + units[n]
    <3>1. Rendered = Title(message) + Footer(message) + (2 + units[n]) + 1
      BY <1>2, <2>2, <2>4 DEF Rendered
    <3>2. Title(message) \in Nat /\ Footer(message) \in Nat
      BY <1>1, Numbers
    <3>. QED
      BY <2>4, <3>1, <3>2
  <2>6. SummaryBudget(message) = MaxMessageLength
                                   - (Title(message) + 2 + Footer(message))
    BY DEF SummaryBudget
  <2>7. /\ Rendered <= MaxMessageLength
        /\ Rendered + message.summary[n + 1] > MaxMessageLength
    <3> DEFINE rest == Title(message) + Footer(message)
               width == message.summary[n + 1]
    <3>0. Title(message) \in Nat /\ Footer(message) \in Nat
      BY <1>1, Numbers
    <3>1. rest \in Int /\ width \in Int /\ units[n] \in Int
      BY <2>4, <3>0
    <3>2. /\ Rendered = rest + 3 + units[n]
          /\ units[n] < MaxMessageLength - (rest + 2)
          /\ MaxMessageLength - (rest + 2) <= units[n] + width
      <4>1. SummaryBudget(message) = MaxMessageLength - (rest + 2)
        BY <1>1, <2>6, <3>0
      <4>. QED
        BY <2>1, <2>4, <2>5, <4>1
    <3> HIDE DEF rest, width
    <3>3. /\ Rendered <= MaxMessageLength
          /\ Rendered + width > MaxMessageLength
      BY <1>1, <3>1, <3>2
    <3>. QED
      BY <3>3 DEF width
  <2>. QED
    BY <2>1, <2>4, <2>5, <2>7
<1>3. ASSUME ~ellipsis PROVE Rendered <= MaxMessageLength
  <2>1. /\ Whole(message)
        /\ kept = IF message.blank THEN <<>> ELSE message.summary
    BY <1>3 DEF IInv, LoopInv
  <2>. QED
    BY <1>1, <1>3, <2>1, Numbers
       DEF Rendered, RenderFails, NoRoom, Whole, SummaryBudget
<1>. QED
  BY <1>2, <1>3

(* What is submitted fits the limit (renderer.go:64-76, 87-99).            *)
THEOREM SubmittedFits == Spec => []FitsLimit
PROOF
<1>1. IInv => FitsLimit
  BY RenderedUnits DEF FitsLimit, IInv, TypeOK
<1>. QED
  BY <1>1, Invariance, PTL

(* A cut keeps as much as fits (renderer.go:91-97).                        *)
THEOREM CutsAreTight == Spec => []CutIsTight
PROOF
<1>1. IInv => CutIsTight
  BY RenderedUnits DEF CutIsTight
<1>. QED
  BY <1>1, Invariance, PTL

(* A summary is cut only if it must be, and visibly (renderer.go:88-98).   *)
THEOREM CutsAreVisible == Spec => []EllipsisMeansLoss
PROOF
<1>1. ASSUME IInv, pc \in {"submit", "sent"}, ~message.blank, ellipsis
      PROVE  Rendered - 1 - textLength(kept) + textLength(message.summary)
               > MaxMessageLength
  <2>1. /\ textLength(kept) \in Nat
        /\ Rendered = Title(message) + Footer(message) + 3 + textLength(kept)
    BY <1>1, RenderedUnits
  <2>2. message \in Message /\ ~Whole(message) /\ MaxMessageLength \in Nat
    BY <1>1, TelegramAssumption DEF IInv, TypeOK, LoopInv
  <2>. QED
    <3>1. /\ Title(message) \in Nat /\ Footer(message) \in Nat
          /\ textLength(message.summary) \in Nat
      BY <2>2, Numbers
    <3>2. ~ textLength(message.summary) <=
              MaxMessageLength - (Title(message) + 2 + Footer(message))
      BY <2>2 DEF Whole, SummaryBudget
    <3>. QED
      BY <2>1, <2>2, <3>1, <3>2
<1>2. IInv => EllipsisMeansLoss
  BY <1>1 DEF EllipsisMeansLoss, IInv, LoopInv
<1>. QED
  BY <1>2, Invariance, PTL

(* One call asks Telegram at most once (notifier.go:59-74).                *)
THEOREM SubmittedOnce == Spec => []SentOnce
PROOF
<1>. QED
  BY Invariance, PTL DEF IInv
=============================================================================
