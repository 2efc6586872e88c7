---------------------------- MODULE QueryService ----------------------------
(***************************************************************************)
(* What the two ways to ask a query share: the limits of a request, the    *)
(* snapshot Service.Collect makes of a collection, and the list of a       *)
(* catalog's sources.  No state of its own.                                *)
(***************************************************************************)
EXTENDS QueryCatalog

CONSTANTS
  Rune,
  WhiteRune,      \* those strings.TrimSpace takes away
  GoodItems,      \* the values Limits.Validate accepts for max_items
  GoodChars,      \* and for max_content_chars
  Collected       \* what a collector may return: sequences of contents

ASSUME ServiceAssumption ==
  /\ GoodItems \subseteq Nat /\ GoodChars \subseteq Nat \ {0}
  /\ WhiteRune \subseteq Rune
  /\ \A items \in Collected : items \in Seq(Seq(Rune))

(* What both answers say of a source.                                      *)
Descriptor(definition) ==
  [ID |-> definition.Config.ID, Type |-> definition.Config.Type,
   DefinitionRevision |-> definition.DefinitionRevision]

CatalogResult ==
  [status |-> "list",
   Sources |-> [i \in DOMAIN Definitions |-> Descriptor(Definitions[i])]]

(* strings.TrimSpace(content) == ""                                        *)
BlankContent(content) == \A i \in DOMAIN content : content[i] \in WhiteRune

truncateRunes(content, limit) ==
  SubSeq(content, 1, IF Len(content) <= limit THEN Len(content) ELSE limit)

(* Variant: a content that just fits is flagged. *)
ItemFlaggedEarly(content, limit) ==
  LET kept == truncateRunes(content, limit)
  IN  [Content |-> kept,
       ContentTruncated |-> Len(content) >= limit,
       ContentStatus |-> IF BlankContent(kept) THEN "empty" ELSE "present"]

ItemOf(content, limit) ==
  LET kept == truncateRunes(content, limit)
  IN  [Content |-> kept,
       ContentTruncated |-> Len(content) > limit,
       ContentStatus |-> IF BlankContent(kept) THEN "empty" ELSE "present"]

(* Limits.Validate                                                         *)
GoodLimits(request) == request.items \in GoodItems /\ request.chars \in GoodChars

(* Service.Collect's mapping of what the collector returned; started and   *)
(* completed times are left out.                                           *)
Snapshot(definition, collected, request) ==
  LET returned == IF Len(collected) > request.items THEN request.items
                  ELSE Len(collected)
  IN  [status |-> "ok",
       Source |-> Descriptor(definition),
       ConfiguredSourceURL |-> definition.ConfiguredSourceURL,
       TotalItems |-> Len(collected),
       ReturnedItems |-> returned,
       Truncated |-> Len(collected) > returned,
       Items |-> [i \in 1..returned |-> ItemOf(collected[i], request.chars)]]
-----------------------------------------------------------------------------
(* What a snapshot says of what was collected.                             *)
TellsLoss(collected, request, snapshot) ==
  LET shown == snapshot.Items IN
  /\ Len(shown) = snapshot.ReturnedItems /\ Len(shown) <= request.items
  /\ snapshot.TotalItems = Len(collected)
  /\ ~snapshot.Truncated => Len(shown) = Len(collected)
  /\ \A i \in DOMAIN shown :
       LET text == shown[i].Content IN
       /\ Len(text) <= request.chars
       /\ text = SubSeq(collected[i], 1, Len(text))
       /\ shown[i].ContentTruncated <=> text # collected[i]
       /\ shown[i].ContentTruncated => Len(text) = request.chars
       /\ CASE shown[i].ContentStatus = "present" -> ~BlankContent(collected[i])
            [] OTHER -> \/ shown[i].ContentTruncated
                        \/ BlankContent(collected[i])
=============================================================================
