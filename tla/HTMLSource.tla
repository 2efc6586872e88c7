----------------------------- MODULE HTMLSource -----------------------------
(***************************************************************************)
(* The html source (internal/source/html): Adapter.Collect with the        *)
(* fetcher and the extractor it is built from.  Adapter, fetcher and       *)
(* extractor keep no state between calls, so one caller that collects      *)
(* again and again stands for all.                                         *)
(***************************************************************************)
EXTENDS Naturals, Sequences

CONSTANTS
  Text,           \* texts, addresses and references of pages and settings
  Empty,          \* the empty text
  Trimmed,        \* Trimmed[t]: t without white space around it
  Normalized,     \* Normalized[t]: the words of t, one blank between them
  InvalidUTF8,    \* texts whose bytes are not valid UTF-8
  Missing,        \* a field of a configuration that is not there
  Configured,     \* configurations: records url, item, title, link, content
  HTTPAddress,    \* addresses parseHTTPURL accepts
  Selector,       \* texts that compile as CSS selectors
  Page,           \* what a body may hold: sequences of matching nodes
  Base,           \* addresses a response may come from at last
  NoBase,         \* a fetcher that does not tell
  Absolute,       \* references that are addresses by themselves
  Malformed,      \* references url.Parse refuses
  ResolveReference(_, _),  \* net/url: an address and a reference
  ForeignFetcher, \* whether the fetcher may be another than HTTPFetcher
  NoTime, NoKey   \* of module ItemKey

Node == [title : Text, href : Text, content : Text]

ASSUME HTMLAssumption ==
  /\ Empty \in Text
  /\ Normalized \in [Text -> Text]
  /\ Trimmed \in [Text -> Text] /\ Trimmed[Empty] = Empty
  /\ \A t \in Text : Normalized[t] = Empty <=> Trimmed[t] = Empty
  /\ \A t \in Text : Normalized[Normalized[t]] = Normalized[t]
  (* A rune of white space is never cut out of the middle of another rune. *)
  /\ InvalidUTF8 \subseteq Text \ {Empty}
  /\ \A t \in Text : Normalized[t] \in InvalidUTF8 <=> t \in InvalidUTF8
  /\ Missing \notin Text
  /\ Page \subseteq Seq(Node)
  /\ Empty \notin HTTPAddress \cup Selector
  /\ NoBase \notin Base
  /\ Absolute \subseteq Text \ {Empty}
  /\ \A b \in Base, t \in Text : ResolveReference(b, t) \in Absolute
  /\ ForeignFetcher \in BOOLEAN
  /\ \A s, t \in Text :
       NoKey \notin {<<"external", s>>, <<"url", s>>, <<"content", s, t>>}

VARIABLES
  pc,        \* "idle", "fetch", "drain", "read" or "extract"
  settings,  \* the configuration of the call
  ended,     \* the context of the call is done
  body,      \* the response body: "none", "open" or "closed"
  base,      \* where the response came from
  page,      \* the nodes the item selector matches
  items,     \* the items extracted so far
  result,    \* what the latest call returned
  (* History, read by no guard. *)
  before     \* where an earlier collection came from, and what it found

pageVars == <<page, items>>
vars == <<pc, settings, ended, body, base, page, items, result, before>>

NoSettings == [url |-> Missing, item |-> Missing, title |-> Missing,
               link |-> Missing, content |-> Missing]

Failed(index, field) ==
  [status |-> "error", index |-> index, field |-> field, items |-> <<>>]
Succeeded(found) ==
  [status |-> "ok", index |-> 0, field |-> "none", items |-> found]
Error == Failed(0, "none")

NoCollection == [from |-> NoBase, page |-> <<>>, link |-> Missing,
                 content |-> Missing, items |-> <<>>]
Collection == [from |-> base, page |-> page, link |-> settings.link,
               content |-> settings.content, items |-> items]

Init ==
  /\ pc = "idle"
  /\ settings = NoSettings
  /\ ended = FALSE
  /\ body = "none"
  /\ base = NoBase
  /\ page = <<>>
  /\ items = <<>>
  /\ result = Error
  /\ before = NoCollection
-----------------------------------------------------------------------------
normalizedText(text) == Normalized[text]

(* settings.go: the required texts, the optional ones, and the selectors.  *)
(* White space around them is trimmed.                                     *)
Required(field, legal) == field # Missing /\ Trimmed[field] \in legal

Optional(field) == field = Missing \/ Required(field, Selector \cup {Empty})

ParseSettings(raw) ==
  /\ Required(raw.url, HTTPAddress)
  /\ Required(raw.item, Selector) /\ Required(raw.title, Selector)
  /\ Optional(raw.link) /\ Optional(raw.content)

Asked(field) == Required(field, Selector)

(* extractItemURL: no link asked for or none there; else the reference     *)
(* must parse, and a relative one needs a base.                            *)
LinkOf(node) == IF Asked(settings.link) THEN Trimmed[node.href] ELSE Empty

(* Variant: links are resolved against the configured address. *)
URLBeforeRedirect(node) ==
  IF LinkOf(node) = Empty \/ base = NoBase
  THEN LinkOf(node)
  ELSE ResolveReference(settings.url, LinkOf(node))

(* Variant: a relative link is taken as it stands where there is no base. *)
LinkMalformed(node) == LinkOf(node) \in Malformed

LinkFails(node) ==
  /\ LinkOf(node) # Empty
  /\ \/ LinkOf(node) \in Malformed
     \/ base = NoBase /\ LinkOf(node) \notin Absolute

URLOf(node) ==
  IF LinkOf(node) = Empty \/ base = NoBase
  THEN LinkOf(node)
  ELSE ResolveReference(base, LinkOf(node))

(* pipeline.go: what mapNotification asks of a title. *)
validateText(text) == Trimmed[text] # Empty /\ text \notin InvalidUTF8

(* Variant: a title of layout only is taken for a title. *)
TitleEmpty(node) == node.title = Empty

TitleMissing(node) == normalizedText(node.title) = Empty

ItemOf(node) ==
  [ExternalID |-> Empty,
   Title |-> normalizedText(node.title),
   URL |-> URLOf(node),
   Content |-> IF Asked(settings.content) THEN normalizedText(node.content)
               ELSE Empty,
   PublishedAt |-> NoTime]
-----------------------------------------------------------------------------
(* A return, with the deferred Close of a body that is still open.         *)
ReturnWith(answer) ==
  /\ result' = answer
  /\ pc' = "idle"
  /\ body' = IF body = "open" THEN "closed" ELSE body
  /\ settings' = NoSettings
  /\ ended' = FALSE
  /\ base' = NoBase
  /\ page' = <<>>
  /\ items' = <<>>

Reject(raw) ==
  /\ pc = "idle"
  /\ ~ParseSettings(raw)
  /\ result' = Error
  /\ UNCHANGED <<pc, settings, ended, body, base, pageVars, before>>

Collect(raw) ==
  /\ pc = "idle"
  /\ ParseSettings(raw)
  /\ settings' = raw
  /\ body' = "none"
  /\ pc' = "fetch"
  /\ UNCHANGED <<ended, base, pageVars, result, before>>

(* Variant: the deadline covers the answer, and not its body. *)
EndOfFetch ==
  /\ pc = "fetch"
  /\ ~ended
  /\ ended' = TRUE
  /\ UNCHANGED <<pc, settings, body, base, pageVars, result, before>>

(* The caller cancels, or its deadline passes.                             *)
End ==
  /\ pc # "idle"
  /\ ~ended
  /\ ended' = TRUE
  /\ UNCHANGED <<pc, settings, body, base, pageVars, result, before>>

(* client.Do: no answer, a redirect too many, or the context is done.      *)
FetchFails ==
  /\ pc = "fetch"
  /\ UNCHANGED before
  /\ ReturnWith(Error)

(* A response of status 200 to 299, after redirects or not.                *)
Responds(from) ==
  /\ pc = "fetch"
  /\ base' = from
  /\ body' = "open"
  /\ pc' = "read"
  /\ UNCHANGED <<settings, ended, pageVars, result, before>>

(* Another status: some of the body is read, for the connection's sake.    *)
RespondsBadly ==
  /\ pc = "fetch"
  /\ body' = "open"
  /\ pc' = "drain"
  /\ UNCHANGED <<settings, ended, base, pageVars, result, before>>

(* Another fetcher may answer without a body.                              *)
RespondsEmpty ==
  /\ ForeignFetcher
  /\ pc = "fetch"
  /\ UNCHANGED before
  /\ ReturnWith(Error)

(* Variant: a bad status returns without the close. *)
DrainedOpen ==
  /\ pc = "drain"
  /\ pc' = "idle"
  /\ result' = Error
  /\ settings' = NoSettings /\ ended' = FALSE /\ base' = NoBase
  /\ UNCHANGED <<body, pageVars, before>>

Drained ==
  /\ pc = "drain"
  /\ UNCHANGED before
  /\ ReturnWith(Error)

(* The connection breaks or the context ends while the body is read.       *)
ReadFails ==
  /\ pc = "read"
  /\ UNCHANGED before
  /\ ReturnWith(Error)

Read(nodes) ==
  /\ pc = "read"
  /\ page' = nodes
  /\ pc' = "extract"
  /\ UNCHANGED <<settings, ended, body, base, items, result, before>>

(* EachWithBreak: the node at hand, by its zero-based index.               *)
Index == Len(items)
Here == page[Index + 1]
Extracting == pc = "extract" /\ Index < Len(page)

ExtractNode ==
  /\ Extracting
  /\ ~TitleMissing(Here) /\ ~LinkFails(Here)
  /\ items' = Append(items, ItemOf(Here))
  /\ UNCHANGED <<pc, settings, ended, body, base, page, result, before>>

(* Variant: the loop breaks, and its error is forgotten. *)
NoTitlePartial ==
  /\ Extracting
  /\ TitleMissing(Here)
  /\ UNCHANGED before
  /\ ReturnWith(Succeeded(items))

NoTitle ==
  /\ Extracting
  /\ TitleMissing(Here)
  /\ UNCHANGED before
  /\ ReturnWith(Failed(Index, "title"))

BadLink ==
  /\ Extracting
  /\ ~TitleMissing(Here) /\ LinkFails(Here)
  /\ UNCHANGED before
  /\ ReturnWith(Failed(Index, "url"))

Extracted ==
  /\ pc = "extract"
  /\ Index = Len(page)
  /\ before' = Collection
  /\ ReturnWith(Succeeded(items))

Answered == \/ FetchFails \/ RespondsEmpty \/ RespondsBadly \/ Drained
            \/ \E from \in Base : Responds(from)
            \/ ForeignFetcher /\ Responds(NoBase)
            \/ ReadFails \/ \E nodes \in Page : Read(nodes)

Extract == ExtractNode \/ NoTitle \/ BadLink \/ Extracted

Next ==
  \/ \E raw \in Configured : Collect(raw) \/ Reject(raw)
  \/ End \/ Answered \/ Extract

Spec == Init /\ [][Next]_vars

(* The extractor runs on, the deadline of the call passes, and net/http    *)
(* gives up once the context is done; until then the other side may hang.  *)
Fairness == /\ WF_vars(Extract)
            /\ WF_vars(End)
            /\ WF_vars(ended /\ (FetchFails \/ Drained \/ ReadFails))

FairSpec == Spec /\ Fairness
-----------------------------------------------------------------------------
Item == [ExternalID : {Empty}, Title : Text, URL : Text, Content : Text,
         PublishedAt : {NoTime}]

TypeOK ==
  /\ pc \in {"idle", "fetch", "drain", "read", "extract"}
  /\ pc # "idle" => settings \in Configured
  /\ ended \in BOOLEAN
  /\ body \in {"none", "open", "closed"}
  /\ base \in Base \cup {NoBase}
  /\ page \in Seq(Node)
  /\ items \in Seq(Item)
  /\ result.status \in {"ok", "error"}
  /\ result.index \in Nat
  /\ result.items \in Seq(Item)

(* The body is open while it is read, and the items found so far are those *)
(* of the nodes before the one at hand.                                    *)
BodyInv ==
  /\ pc \in {"drain", "read", "extract"} => body = "open"
  /\ pc \in {"idle", "fetch"} => body # "open"

ExtractInv ==
  /\ pc # "extract" => items = <<>>
  /\ Len(items) <= Len(page)
  /\ \A i \in 1..Len(items) : /\ ~TitleMissing(page[i]) /\ ~LinkFails(page[i])
                              /\ items[i] = ItemOf(page[i])

Proper(item) == /\ normalizedText(item.Title) # Empty
                /\ item.URL \in Absolute \cup {Empty}

ResultInv == \A i \in 1..Len(result.items) : Proper(result.items[i])

(* The inductive invariant of Adapter.Collect.                             *)
IInv == TypeOK /\ BodyInv /\ ExtractInv /\ ResultInv

(* However a call ends, the response body it was given has been closed     *)
(* (adapter.go:45-53, fetcher.go:70-78).                                   *)
BodyClosed == pc = "idle" => body # "open"

Bad(node) == TitleMissing(node) \/ LinkFails(node)

(* A page is taken whole or not at all: the items of all matching nodes in *)
(* document order, or the error of the first bad one and no items          *)
(* (extractor.go:53-84).                                                   *)
WholePageOrError ==
  [][pc = "extract" /\ pc' = "idle" =>
       LET bad == {i \in DOMAIN page : Bad(page[i])} IN
       IF bad = {}
       THEN result' = Succeeded([i \in DOMAIN page |-> ItemOf(page[i])])
       ELSE /\ result'.status = "error" /\ result'.items = <<>>
            /\ result'.index + 1 \in bad
            /\ \A i \in bad : result'.index + 1 <= i]_vars

Keys == INSTANCE ItemKey WITH
          Blank <- {t \in Text : Trimmed[t] = Empty},
          Instant <- {0}, ZeroInstant <- 0, Zone <- {0}

(* No page makes itemkey.Build refuse a collection, and mapNotification    *)
(* takes the title of an item just if the page's bytes there are UTF-8: the*)
(* extractor passes them on undecoded, and an item of a page in another    *)
(* encoding is refused at every run (extractor.go:54-58,86-91,             *)
(* builder.go:35-37, application/pipeline.go:146-154).                     *)
ItemsPassIfUTF8 ==
  [][pc = "extract" /\ pc' = "idle" /\ result'.status = "ok" =>
       \A i \in DOMAIN page :
         /\ Keys!Build(result'.items[i]) # NoKey
         /\ validateText(result'.items[i].Title)
              <=> page[i].title \notin InvalidUTF8]_vars

(* No relative link leaves the source, whatever the fetcher tells of the   *)
(* response: the renderer would refuse it at every retry                   *)
(* (extractor.go:108-115, renderer.go:43-49).                              *)
LinksAbsolute ==
  \A i \in DOMAIN result.items : result.items[i].URL \in Absolute \cup {Empty}

(* The keys of a page are about the address that answered, not about the   *)
(* configured one: to configure the target of a redirect makes no item new *)
(* (fetcher.go:65-68, extractor.go:115).                                   *)
KeysOutliveConfiguredURL ==
  [][pc = "extract" /\ pc' = "idle" /\ result'.status = "ok"
     /\ before # NoCollection /\ before.from = base /\ before.page = page
     /\ before.link = settings.link /\ before.content = settings.content =>
       \A i \in DOMAIN page :
         Keys!Build(result'.items[i]) = Keys!Build(before.items[i])]_vars

(* Every call returns, also when the other side hangs in the middle of a   *)
(* body, good or bad (fetcher.go:55-71, extractor.go:44).                  *)
CollectEnds == pc # "idle" ~> pc = "idle"
=============================================================================
