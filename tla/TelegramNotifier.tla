-------------------------- MODULE TelegramNotifier --------------------------
(***************************************************************************)
(* Notifier.Send with Renderer.Render (internal/notification/telegram): a  *)
(* message is rendered within Telegram's limit, counted in UTF-16 units of *)
(* the visible text, and submitted once.  A text is the sequence of the    *)
(* widths of its runes, 1 or 2 units; of title, source name and timestamp  *)
(* only the length matters, and HTML escaping adds nothing that is counted.*)
(***************************************************************************)
EXTENDS Integers, Sequences

CONSTANTS
  MaxMessageLength,
  TitleMark, SourceMark, PublishedMark, LinkMark,  \* units of the fixed texts
  Message      \* what Send may be given: records, see below

(* addressed: the destination has an ID and a chat; valid: title, source   *)
(* name, summary and URL pass Render's checks; title, source, published:   *)
(* lengths; link: there is a URL; blank: the summary is white space only.  *)
ASSUME TelegramAssumption ==
  /\ MaxMessageLength \in Nat
  /\ {TitleMark, SourceMark, PublishedMark, LinkMark} \subseteq Nat
  /\ \A m \in Message :
       /\ {m.addressed, m.valid, m.link, m.blank} \subseteq BOOLEAN
       /\ m.title \in Nat \ {0} /\ m.source \in Nat \ {0}
       /\ m.published \in Nat   \* 0: no timestamp
       /\ m.summary \in Seq({1, 2})
       /\ m.summary = <<>> => m.blank

VARIABLES
  pc,          \* "ready", "render", "cut", "submit", "sent", "failed"
  message,     \* the message of this call
  canceled,    \* the caller's context is done
  index,       \* rune of the summary the cutting loop stands at
  remaining,   \* units the cutting loop has left
  kept,        \* the summary as rendered
  ellipsis,    \* whether an ellipsis follows it
  accepted     \* how many messages of this call Telegram has accepted

vars == <<pc, message, canceled, index, remaining, kept, ellipsis, accepted>>

(* Units(text)[n]: the units of the first n runes.                         *)
Units(text) ==
  LET units[n \in 0..Len(text)] == IF n = 0 THEN 0
                                   ELSE units[n - 1] + text[n]
  IN  units

textLength(text) == Units(text)[Len(text)]

Footer(m) == SourceMark + m.source
             + (IF m.published > 0 THEN PublishedMark + m.published ELSE 0)
             + (IF m.link THEN LinkMark ELSE 0)
Title(m) == TitleMark + m.title

(* The visible text, as Render's result shows it.                          *)
Rendered == Title(message) + Footer(message)
            + (IF message.blank THEN 0 ELSE 2 + textLength(kept))
            + (IF ellipsis THEN 1 ELSE 0)

(* Two line feeds part the title from the summary.                         *)
SummaryBudget(m) == MaxMessageLength - (Title(m) + 2 + Footer(m))

TypeOK ==
  /\ pc \in {"ready", "render", "cut", "submit", "sent", "failed"}
  /\ message \in Message
  /\ canceled \in BOOLEAN
  /\ index \in Nat \ {0}
  /\ remaining \in Int
  /\ kept \in Seq({1, 2})
  /\ ellipsis \in BOOLEAN
  /\ accepted \in Nat

Init ==
  /\ pc = "ready"
  /\ message \in Message
  /\ canceled \in BOOLEAN
  /\ index = 1
  /\ remaining = 0
  /\ kept = <<>>
  /\ ellipsis = FALSE
  /\ accepted = 0

renderVars == <<index, remaining, kept, ellipsis>>

Cancel ==
  /\ pc \in {"render", "cut", "submit"}
  /\ ~canceled
  /\ canceled' = TRUE
  /\ UNCHANGED <<pc, message, renderVars, accepted>>

Refuse ==
  /\ pc = "ready"
  /\ canceled \/ ~message.addressed
  /\ pc' = "failed"
  /\ UNCHANGED <<message, canceled, renderVars, accepted>>

Start ==
  /\ pc = "ready"
  /\ ~canceled /\ message.addressed
  /\ pc' = "render"
  /\ UNCHANGED <<message, canceled, renderVars, accepted>>

NoRoom(m) ==
  \/ m.blank /\ Title(m) + Footer(m) > MaxMessageLength
  \/ ~m.blank /\ SummaryBudget(m) < 1

RenderFails(m) == ~m.valid \/ NoRoom(m)

RenderFail ==
  /\ pc = "render"
  /\ RenderFails(message)
  /\ pc' = "failed"
  /\ UNCHANGED <<message, canceled, renderVars, accepted>>

(* Variant: a summary that just fits is cut. *)
WholeWithRoom(m) == m.blank \/ textLength(m.summary) < SummaryBudget(m)

Whole(m) == m.blank \/ textLength(m.summary) <= SummaryBudget(m)

RenderWhole ==
  /\ pc = "render"
  /\ ~RenderFails(message) /\ Whole(message)
  /\ kept' = IF message.blank THEN <<>> ELSE message.summary
  /\ pc' = "submit"
  /\ UNCHANGED <<message, canceled, index, remaining, ellipsis, accepted>>

(* Variant: no unit is reserved. *)
StartCutWith(units) ==
  /\ pc = "render"
  /\ ~RenderFails(message) /\ ~Whole(message)
  /\ remaining' = units
  /\ index' = 1
  /\ pc' = "cut"
  /\ UNCHANGED <<message, canceled, kept, ellipsis, accepted>>
StartCutUnreserved == StartCutWith(SummaryBudget(message))

(* One unit is reserved for the ellipsis.                                  *)
StartCut == StartCutWith(SummaryBudget(message) - 1)

Width == message.summary[index]

(* After the last rune the loop ends, and the summary is returned whole.   *)
CutNext ==
  /\ pc = "cut"
  /\ remaining - Width >= 0
  /\ remaining' = remaining - Width
  /\ index' = index + 1
  /\ IF index = Len(message.summary)
     THEN kept' = message.summary /\ pc' = "submit"
     ELSE UNCHANGED <<kept, pc>>
  /\ UNCHANGED <<message, canceled, ellipsis, accepted>>

(* Variant: one rune too many is dropped. *)
CutShort ==
  /\ pc = "cut"
  /\ remaining - Width < 0
  /\ remaining' = remaining - Width
  /\ kept' = SubSeq(message.summary, 1, index - 2)
  /\ ellipsis' = TRUE
  /\ pc' = "submit"
  /\ UNCHANGED <<message, canceled, index, accepted>>

CutHere ==
  /\ pc = "cut"
  /\ remaining - Width < 0
  /\ remaining' = remaining - Width
  /\ kept' = SubSeq(message.summary, 1, index - 1)
  /\ ellipsis' = TRUE
  /\ pc' = "submit"
  /\ UNCHANGED <<message, canceled, index, accepted>>

(* Variant: a failed call is repeated. *)
SubmitRetry ==
  /\ pc = "submit"
  /\ accepted' \in {accepted, accepted + 1}
  /\ UNCHANGED <<pc, message, canceled, renderVars>>

(* SendMessage: Telegram may take the message although the answer is lost; *)
(* a call that returns nil has its answer.                                 *)
SubmitOk ==
  /\ pc = "submit"
  /\ accepted' = accepted + 1
  /\ pc' = "sent"
  /\ UNCHANGED <<message, canceled, renderVars>>

SubmitFail ==
  /\ pc = "submit"
  /\ accepted' \in {accepted, accepted + 1}
  /\ pc' = "failed"
  /\ UNCHANGED <<message, canceled, renderVars>>

Send == \/ Refuse \/ Start \/ RenderFail \/ RenderWhole
        \/ StartCut \/ CutNext \/ CutHere
        \/ SubmitOk \/ SubmitFail

Next == Send \/ Cancel

Spec == Init /\ [][Next]_vars
-----------------------------------------------------------------------------
(* What is submitted fits Telegram's limit to the unit, whatever the width *)
(* of the rune at the edge (renderer.go:64-76, 87-99).                     *)
FitsLimit == pc \in {"submit", "sent"} => Rendered <= MaxMessageLength

(* A cut summary is the longest prefix that leaves room for the ellipsis:  *)
(* one more rune would not fit (renderer.go:91-97).                        *)
CutIsTight ==
  pc \in {"submit", "sent"} /\ ellipsis =>
    \E n \in 0..Len(message.summary) - 1 :
      /\ kept = SubSeq(message.summary, 1, n)
      /\ Rendered + message.summary[n + 1] > MaxMessageLength

(* Loss is visible and needless loss does not occur: a summary without     *)
(* ellipsis is whole, and one with ellipsis did not fit whole              *)
(* (renderer.go:88-98).                                                    *)
EllipsisMeansLoss ==
  pc \in {"submit", "sent"} /\ ~message.blank =>
    IF ellipsis
    THEN Rendered - 1 - textLength(kept) + textLength(message.summary)
           > MaxMessageLength
    ELSE kept = message.summary

(* Telegram takes a message of a call at most once, a call that succeeds    *)
(* has had it taken, and one that fails before it submits has not          *)
(* (notifier.go:59-74).                                                    *)
SentOnce == /\ accepted <= 1
            /\ pc = "sent" => accepted = 1
            /\ pc \notin {"sent", "failed"} => accepted = 0

(* For the proofs: the cutting loop knows the units it has passed, and     *)
(* what it has cut, or left whole, is what it then submits.                *)
LoopInv ==
  LET units == Units(message.summary)
      budget == SummaryBudget(message) IN
  /\ pc \in {"cut", "submit", "sent"} => ~RenderFails(message)
  /\ pc \in {"ready", "render", "cut"} => kept = <<>> /\ ~ellipsis
  /\ pc = "cut" => /\ ~Whole(message)
                   /\ index \in 1..Len(message.summary)
                   /\ remaining = budget - 1 - units[index - 1]
                   /\ remaining >= 0
  /\ pc \in {"submit", "sent"} =>
       IF ellipsis
       THEN /\ ~Whole(message)
            /\ \E n \in 0..Len(message.summary) - 1 :
                 /\ kept = SubSeq(message.summary, 1, n)
                 /\ units[n] < budget /\ budget <= units[n + 1]
       ELSE /\ Whole(message)
            /\ kept = IF message.blank THEN <<>> ELSE message.summary

IInv == TypeOK /\ LoopInv /\ SentOnce
=============================================================================
