-------------------------- MODULE HTMLSourceProofs --------------------------
(***************************************************************************)
(* What a collection of an html source guarantees for every page, every    *)
(* configuration and every way a response may come to its end.             *)
(***************************************************************************)
EXTENDS HTMLSource, TLAPS

(* What becomes of a node that has a title and a link that parses: an item *)
(* with a title and an absolute address or none (extractor.go:54-76).      *)
LEMMA NodeMakesItem ==
  ASSUME TypeOK, NEW node \in Node, ~TitleMissing(node), ~LinkFails(node)
  PROVE  ItemOf(node) \in Item /\ Proper(ItemOf(node))
PROOF
<1> USE HTMLAssumption
<1>1. /\ Normalized[node.title] \in Text /\ Trimmed[node.href] \in Text
      /\ Normalized[node.content] \in Text
  BY DEF Node
<1>2. LinkOf(node) \in Text
  BY <1>1 DEF LinkOf
<1>3. URLOf(node) \in Text /\ URLOf(node) \in Absolute \cup {Empty}
  BY <1>2 DEF URLOf, LinkFails, TypeOK
<1>4. /\ Normalized[node.title] # Empty
      /\ Normalized[Normalized[node.title]] = Normalized[node.title]
  BY DEF TitleMissing, normalizedText, Node
<1>5. ItemOf(node) \in Item
  BY <1>1, <1>3 DEF ItemOf, Item, normalizedText
<1>6. Proper(ItemOf(node))
  BY <1>3, <1>4 DEF ItemOf, Proper, normalizedText
<1>. QED
  BY <1>5, <1>6

(* The empty sequence is a page and a list of items (adapter.go:36-50).    *)
LEMMA EmptyTyped == <<>> \in Seq(Node) /\ <<>> \in Seq(Item) /\ Len(<<>>) = 0
  OBVIOUS

(* A call that returns leaves no body open and no item behind              *)
(* (adapter.go:45-54).                                                     *)
LEMMA ReturnKeepsInv ==
  ASSUME IInv, NEW answer, ReturnWith(answer), pc # "idle",
         answer.status \in {"ok", "error"}, answer.index \in Nat,
         answer.items \in Seq(Item),
         \A i \in 1..Len(answer.items) : Proper(answer.items[i])
  PROVE  IInv'
PROOF
<1>0. /\ result' = answer /\ pc' = "idle" /\ ended' = FALSE
      /\ base' = NoBase /\ page' = <<>> /\ items' = <<>>
      /\ body' = IF body = "open" THEN "closed" ELSE body
  BY DEF ReturnWith
<1>1. TypeOK'
  <2>1. body' \in {"none", "open", "closed"}
    BY <1>0 DEF IInv, TypeOK
  <2>. QED
    BY <1>0, <2>1, EmptyTyped DEF TypeOK
<1>2. BodyInv' /\ ExtractInv' /\ ResultInv'
  BY DEF ReturnWith, IInv, TypeOK, BodyInv, ExtractInv, ResultInv, Proper
<1>. QED
  BY <1>1, <1>2 DEF IInv

(* A failed call returns no items (extractor.go:80-82, adapter.go:49-52).  *)
LEMMA FailureKeepsInv ==
  ASSUME IInv, NEW index \in Nat, NEW field,
         ReturnWith(Failed(index, field)), pc # "idle"
  PROVE  IInv'
PROOF
<1> DEFINE answer == Failed(index, field)
<1>1. /\ answer.status = "error" /\ answer.index = index
      /\ answer.items = <<>>
  BY DEF Failed
<1> HIDE DEF answer
<1>2. ReturnWith(answer)
  BY DEF answer
<1>3. /\ answer.status \in {"ok", "error"} /\ answer.index \in Nat
      /\ answer.items \in Seq(Item)
      /\ \A i \in 1..Len(answer.items) : Proper(answer.items[i])
  BY <1>1, EmptyTyped
<1>. QED
  BY <1>2, <1>3, ReturnKeepsInv

(* A new adapter satisfies the inductive invariant (adapter.go:22-33).     *)
THEOREM InitEstablishes == Init => IInv
PROOF
<1>0. /\ Error.status = "error" /\ Error.index = 0 /\ Error.items = <<>>
  BY DEF Error, Failed
<1>1. ASSUME Init PROVE TypeOK
  <2>1. /\ pc = "idle" /\ ended = FALSE /\ body = "none" /\ base = NoBase
        /\ page = <<>> /\ items = <<>> /\ result = Error
    BY <1>1 DEF Init
  <2>2. /\ result.status = "error" /\ result.index = 0 /\ result.items = <<>>
    BY <1>0, <2>1
  <2>3. page \in Seq(Node) /\ items \in Seq(Item)
    BY <2>1, EmptyTyped
  <2>. QED
    <3>1. result.items \in Seq(Item)
      BY <2>2, EmptyTyped
    <3>2. result.status \in {"ok", "error"} /\ result.index \in Nat
      BY <2>2
    <3>. QED
      BY <2>1, <2>3, <3>1, <3>2 DEF TypeOK
<1>2. Init => BodyInv /\ ExtractInv /\ ResultInv
  BY <1>0, EmptyTyped DEF Init, BodyInv, ExtractInv, ResultInv
<1>. QED
  BY <1>1, <1>2 DEF IInv

(* No step of a collection breaks it (adapter.go:36-54, fetcher.go:49-81,  *)
(* extractor.go:43-85).                                                    *)
THEOREM StepPreserves == IInv /\ [Next]_vars => IInv'
PROOF
<1> SUFFICES ASSUME IInv, [Next]_vars PROVE IInv'
  OBVIOUS
<1> USE HTMLAssumption
<1>0. TypeOK /\ BodyInv /\ ExtractInv /\ ResultInv BY DEF IInv
<1>1. ASSUME NEW raw \in Configured, Collect(raw) PROVE IInv'
  BY <1>0, <1>1 DEF Collect, IInv, TypeOK, BodyInv, ExtractInv, ResultInv,
     pageVars, Proper
<1>2. ASSUME NEW raw \in Configured, Reject(raw) PROVE IInv'
  BY <1>0, <1>2 DEF Reject, IInv, TypeOK, BodyInv, ExtractInv, ResultInv,
     pageVars, Error, Failed, Proper
<1>3. CASE End
  <2>1. TypeOK' /\ BodyInv' /\ ResultInv'
    BY <1>0, <1>3 DEF End, TypeOK, BodyInv, ResultInv, pageVars, Proper
  <2>2. ExtractInv'
    BY <1>0, <1>3 DEF End, ExtractInv, pageVars, ItemOf, URLOf, LinkOf,
       LinkFails, TitleMissing
  <2>. QED BY <2>1, <2>2 DEF IInv
<1>4. ASSUME NEW from \in Base \cup {NoBase}, Responds(from) PROVE IInv'
  BY <1>0, <1>4 DEF Responds, IInv, TypeOK, BodyInv, ExtractInv, ResultInv,
     pageVars, Proper
<1>5. CASE RespondsBadly
  BY <1>0, <1>5 DEF RespondsBadly, IInv, TypeOK, BodyInv, ExtractInv,
     ResultInv, pageVars, Proper
<1>6. CASE FetchFails \/ RespondsEmpty \/ Drained \/ ReadFails
  BY <1>6, FailureKeepsInv DEF FetchFails, RespondsEmpty, Drained, ReadFails,
     Error
<1>7. ASSUME NEW nodes \in Page, Read(nodes) PROVE IInv'
  BY <1>0, <1>7 DEF Read, IInv, TypeOK, BodyInv, ExtractInv, ResultInv, Proper
<1>8. CASE ExtractNode
  <2>1. /\ Index \in Nat /\ Index < Len(page) /\ Len(page) \in Nat
        /\ Here \in Node /\ Here = page[Len(items) + 1]
        /\ ~TitleMissing(Here) /\ ~LinkFails(Here)
    BY <1>0, <1>8 DEF ExtractNode, Extracting, Index, Here, TypeOK
  <2>2. ItemOf(Here) \in Item
    BY <1>0, <2>1, NodeMakesItem
  <2>3. TypeOK' /\ BodyInv' /\ ResultInv'
    BY <1>0, <1>8, <2>2 DEF ExtractNode, TypeOK, BodyInv, ResultInv, Proper
  <2>4. /\ items' = Append(items, ItemOf(Here)) /\ items \in Seq(Item)
        /\ pc' = "extract"
        /\ UNCHANGED <<page, settings, base>>
    BY <1>0, <1>8 DEF ExtractNode, Extracting, TypeOK
  <2>5. /\ Len(items') = Len(items) + 1
        /\ items'[Len(items) + 1] = ItemOf(Here)
        /\ \A i \in 1..Len(items) : items'[i] = items[i]
    BY <2>2, <2>4
  <2>6. ASSUME NEW i \in 1..Len(items')
        PROVE  /\ ~TitleMissing(page[i]) /\ ~LinkFails(page[i])
               /\ items'[i] = ItemOf(page[i])
    <3>1. CASE i \in 1..Len(items)
      BY <1>0, <2>5, <3>1 DEF ExtractInv
    <3>2. CASE i = Len(items) + 1
      BY <2>1, <2>5, <3>2
    <3>. QED
      BY <2>1, <2>5, <3>1, <3>2 DEF Index
  <2>7. Len(items') <= Len(page)
    BY <2>1, <2>5 DEF Index
  <2>8. \A node : /\ TitleMissing(node)' <=> TitleMissing(node)
                  /\ LinkFails(node)' <=> LinkFails(node)
                  /\ ItemOf(node)' = ItemOf(node)
    BY <2>4 DEF ItemOf, URLOf, LinkOf, LinkFails, TitleMissing
  <2>9. ExtractInv'
    BY <2>4, <2>6, <2>7, <2>8 DEF ExtractInv
  <2>. QED BY <2>3, <2>9 DEF IInv
<1>9. CASE NoTitle \/ BadLink
  BY <1>0, <1>9, FailureKeepsInv DEF NoTitle, BadLink, Extracting, Index, TypeOK
<1>10. CASE Extracted
  <2>1. ASSUME NEW i \in 1..Len(items) PROVE Proper(items[i])
    BY <1>0, NodeMakesItem DEF ExtractInv, TypeOK
  <2>. QED
    BY <1>0, <1>10, <2>1, ReturnKeepsInv DEF Extracted, Succeeded, TypeOK
<1>11. CASE UNCHANGED vars
  <2>1. TypeOK' /\ BodyInv' /\ ResultInv'
    BY <1>0, <1>11 DEF vars, pageVars, TypeOK, BodyInv, ResultInv, Proper
  <2>2. ExtractInv'
    BY <1>0, <1>11 DEF vars, pageVars, ExtractInv, ItemOf, URLOf, LinkOf,
       LinkFails, TitleMissing
  <2>. QED BY <2>1, <2>2 DEF IInv
<1>. QED
  BY <1>1, <1>2, <1>3, <1>4, <1>5, <1>6, <1>7, <1>8, <1>9, <1>10, <1>11
     DEF Next, Answered, Extract

(* The inductive invariant holds throughout.                               *)
THEOREM Invariance == Spec => []IInv
  BY InitEstablishes, StepPreserves, PTL DEF Spec

(* Whatever ends a collection, no response body stays open                 *)
(* (adapter.go:49, fetcher.go:72).                                         *)
THEOREM BodiesAreClosed == Spec => []BodyClosed
<1>1. IInv => BodyClosed BY DEF IInv, BodyInv, BodyClosed
<1>. QED BY Invariance, <1>1, PTL

(* No relative link leaves the source (extractor.go:108-115).              *)
THEOREM LinksAreAbsolute == Spec => []LinksAbsolute
<1>1. IInv => LinksAbsolute
  BY DEF IInv, TypeOK, ResultInv, Proper, LinksAbsolute
<1>. QED BY Invariance, <1>1, PTL

(* A page comes whole or not at all (extractor.go:53-84).                  *)
THEOREM PagesAreWhole == Spec => WholePageOrError
PROOF
<1> DEFINE bad == {i \in DOMAIN page : Bad(page[i])}
           Whole == IF bad = {}
                    THEN result' = Succeeded([i \in DOMAIN page |-> ItemOf(page[i])])
                    ELSE /\ result'.status = "error" /\ result'.items = <<>>
                         /\ result'.index + 1 \in bad
                         /\ \A i \in bad : result'.index + 1 <= i
<1>1. ASSUME IInv, [Next]_vars, pc = "extract", pc' = "idle"
      PROVE  Whole
  <2>0. /\ items \in Seq(Item) /\ page \in Seq(Node) /\ Len(items) <= Len(page)
        /\ \A i \in 1..Len(items) : ~Bad(page[i]) /\ items[i] = ItemOf(page[i])
    BY <1>1 DEF IInv, TypeOK, ExtractInv, Bad
  <2>1. NoTitle \/ BadLink \/ Extracted
    BY <1>1 DEF Next, vars, Answered, Extract, Collect, Reject, End, FetchFails,
       RespondsEmpty, RespondsBadly, Drained, Responds, ReadFails, Read,
       ExtractNode
  <2>2. CASE NoTitle \/ BadLink
    <3>1. /\ result'.status = "error" /\ result'.items = <<>>
          /\ result'.index = Len(items)
      BY <2>2 DEF NoTitle, BadLink, ReturnWith, Failed, Index
    <3>2. Len(items) + 1 \in DOMAIN page /\ Bad(page[Len(items) + 1])
      BY <2>0, <2>2 DEF NoTitle, BadLink, Extracting, Index, Here, Bad
    <3>3. \A i \in bad : Len(items) + 1 <= i
      BY <2>0
    <3>. QED
      BY <3>1, <3>2, <3>3
  <2>3. CASE Extracted
    <3>1. result' = Succeeded(items) /\ Len(items) = Len(page)
      BY <2>3 DEF Extracted, ReturnWith, Index
    <3>2. bad = {}
      BY <2>0, <3>1
    <3>3. items = [i \in DOMAIN page |-> ItemOf(page[i])]
      BY <2>0, <3>1
    <3>. QED
      BY <3>1, <3>2, <3>3
  <2>. QED BY <2>1, <2>2, <2>3
<1>. QED BY Invariance, <1>1, PTL DEF Spec, WholePageOrError

(* An item depends on its node, on where the page came from and on two     *)
(* selectors, and on nothing else (extractor.go:60-76).                    *)
ItemAs(node, link, content, from) ==
  LET reference == IF Asked(link) THEN Trimmed[node.href] ELSE Empty IN
  [ExternalID |-> Empty,
   Title |-> normalizedText(node.title),
   URL |-> IF reference = Empty \/ from = NoBase THEN reference
           ELSE ResolveReference(from, reference),
   Content |-> IF Asked(content) THEN normalizedText(node.content) ELSE Empty,
   PublishedAt |-> NoTime]

(* That is how the items of the page at hand are made.                     *)
LEMMA ItemOfIsItemAs ==
  ASSUME NEW node
  PROVE  ItemOf(node) = ItemAs(node, settings.link, settings.content, base)
  BY DEF ItemOf, ItemAs, URLOf, LinkOf

(* What an earlier collection found is what its page says.                 *)
FoundInv ==
  \A i \in DOMAIN before.page :
    before.items[i] = ItemAs(before.page[i], before.link, before.content,
                             before.from)

(* A collection is remembered with the items of all its nodes              *)
(* (extractor.go:53-84).                                                   *)
LEMMA ExtractedFinds ==
  ASSUME IInv, Extracted
  PROVE  /\ before'.page = page /\ before'.from = base
         /\ before'.link = settings.link /\ before'.content = settings.content
         /\ result'.items = items
         /\ \A i \in DOMAIN page :
              items[i] = ItemAs(page[i], settings.link, settings.content, base)
         /\ FoundInv'
PROOF
<1>1. /\ before' = Collection /\ result' = Succeeded(items)
      /\ Len(items) = Len(page)
  BY DEF Extracted, ReturnWith, Index
<1>2. /\ before'.page = page /\ before'.from = base /\ before'.items = items
      /\ before'.link = settings.link /\ before'.content = settings.content
      /\ result'.items = items
  BY <1>1 DEF Collection, Succeeded
<1>3. \A i \in DOMAIN page : items[i] = ItemOf(page[i])
  BY <1>1 DEF IInv, TypeOK, ExtractInv
<1>4. \A i \in DOMAIN page :
        items[i] = ItemAs(page[i], settings.link, settings.content, base)
  BY <1>3, ItemOfIsItemAs
<1>. QED
  BY <1>2, <1>4 DEF FoundInv

(* A collection that succeeds is the step Extracted (extractor.go:80-84).  *)
LEMMA SuccessExtracts ==
  ASSUME [Next]_vars, pc = "extract", pc' = "idle", result'.status = "ok"
  PROVE  Extracted
PROOF
<1>1. NoTitle \/ BadLink \/ Extracted
  BY DEF Next, vars, Answered, Extract, Collect, Reject, End, FetchFails,
     RespondsEmpty, RespondsBadly, Drained, Responds, ReadFails, Read,
     ExtractNode
<1>2. NoTitle \/ BadLink => result'.status = "error"
  BY DEF NoTitle, BadLink, ReturnWith, Failed
<1>. QED
  BY <1>1, <1>2

(* Every html item has a key, and a title that mapNotification takes just  *)
(* if the page's bytes are UTF-8 there (extractor.go:54-58,86-91,          *)
(* builder.go:35-37, application/pipeline.go:146-154).                     *)
THEOREM HTMLItemsPassIfUTF8 == Spec => ItemsPassIfUTF8
PROOF
<1>1. ASSUME IInv, [Next]_vars,
             pc = "extract", pc' = "idle", result'.status = "ok",
             NEW i \in DOMAIN page
      PROVE  /\ Keys!Build(result'.items[i]) # NoKey
             /\ validateText(result'.items[i].Title)
                  <=> page[i].title \notin InvalidUTF8
  <2> DEFINE item == result'.items[i]
  <2>1. /\ result'.items = items /\ Len(items) = Len(page)
        /\ items \in Seq(Item) /\ page \in Seq(Node)
    BY <1>1, SuccessExtracts, ExtractedFinds
       DEF Extracted, Index, IInv, TypeOK
  <2>2. /\ item \in Item /\ page[i] \in Node
        /\ item = ItemOf(page[i]) /\ ~TitleMissing(page[i])
    BY <1>1, <2>1 DEF IInv, ExtractInv
  <2>3. /\ item.Title = Normalized[page[i].title] /\ page[i].title \in Text
        /\ Normalized[page[i].title] # Empty
    BY <2>2 DEF ItemOf, Node, TitleMissing, normalizedText
  <2>4. validateText(item.Title) <=> page[i].title \notin InvalidUTF8
    BY <2>3, HTMLAssumption DEF validateText, normalizedText
  <2>5. /\ item.ExternalID = Empty /\ item.PublishedAt = NoTime
        /\ item.Title \in Text /\ Normalized[item.Title] # Empty
        /\ item.URL \in Text /\ item.Content \in Text
    BY <2>2, <2>3, HTMLAssumption DEF Item
  <2>6. Keys!usable(item.Title) /\ ~Keys!usable(item.ExternalID)
    BY <2>5, HTMLAssumption DEF Keys!usable
  <2>7. Keys!Build(item) \in {<<"url", item.URL>>,
                             <<"content", item.Title, item.Content>>}
    BY <2>5, <2>6 DEF Keys!Build, Keys!Dated, Keys!Hashable
  <2>. QED
    BY <2>4, <2>5, <2>7, HTMLAssumption
<1>2. IInv /\ [Next]_vars =>
        [pc = "extract" /\ pc' = "idle" /\ result'.status = "ok" =>
           \A i \in DOMAIN page :
             /\ Keys!Build(result'.items[i]) # NoKey
             /\ validateText(result'.items[i].Title)
                  <=> page[i].title \notin InvalidUTF8]_vars
  BY <1>1
<1>. QED
  BY <1>2, Invariance, PTL DEF Spec, ItemsPassIfUTF8

(* Invariance of what was found (extractor.go:53-84).                      *)
LEMMA FoundStep == IInv /\ FoundInv /\ [Next]_vars => FoundInv'
PROOF
<1> SUFFICES ASSUME IInv, FoundInv, [Next]_vars PROVE FoundInv'
  OBVIOUS
<1>1. Extracted \/ before' = before
  BY DEF Next, vars, Answered, Extract, Collect, Reject, End, FetchFails,
     RespondsEmpty, RespondsBadly, Drained, Responds, ReadFails, Read,
     ExtractNode, NoTitle, BadLink
<1>2. CASE Extracted
  BY <1>2, ExtractedFinds
<1>3. CASE before' = before
  BY <1>3 DEF FoundInv
<1>. QED
  BY <1>1, <1>2, <1>3

(* A page keeps its keys when the configured address is changed to one     *)
(* that answers from the same place (fetcher.go:65-68, extractor.go:115).  *)
THEOREM KeysOutliveTheConfiguration == Spec => KeysOutliveConfiguredURL
PROOF
<1>1. Init => FoundInv
  BY DEF Init, NoCollection, FoundInv
<1>2. ASSUME IInv, FoundInv, [Next]_vars,
             pc = "extract", pc' = "idle", result'.status = "ok",
             before.from = base, before.page = page,
             before.link = settings.link, before.content = settings.content,
             NEW i \in DOMAIN page
      PROVE  Keys!Build(result'.items[i]) = Keys!Build(before.items[i])
  <2>1. Extracted
    BY <1>2, SuccessExtracts
  <2>2. result'.items[i] = before.items[i]
    BY <1>2, <2>1, ExtractedFinds DEF FoundInv
  <2>. QED
    BY <2>2
<1>3. IInv /\ FoundInv /\ [Next]_vars =>
        [pc = "extract" /\ pc' = "idle" /\ result'.status = "ok"
         /\ before # NoCollection /\ before.from = base /\ before.page = page
         /\ before.link = settings.link /\ before.content = settings.content =>
           \A i \in DOMAIN page :
             Keys!Build(result'.items[i]) = Keys!Build(before.items[i])]_vars
  BY <1>2
<1>. QED
  BY <1>1, <1>3, FoundStep, Invariance, PTL DEF Spec, KeysOutliveConfiguredURL
=============================================================================
