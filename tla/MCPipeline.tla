----------------------------- MODULE MCPipeline -----------------------------
(***************************************************************************)
(* Instances of Pipeline for TLC, over items whose keys ItemKey builds.    *)
(***************************************************************************)
EXTENDS Pipeline, TLC

CONSTANTS c1, c2, p1, p2, s1, s2, NoTime

Callers == Permutations({c1, c2})

Keys == INSTANCE ItemKey WITH
          Text <- {"", "first", "second", "news", "edited", "more"},
          Blank <- {""},
          Instant <- {"zero"}, ZeroInstant <- "zero", Zone <- {"UTC"}

Entry(id, title) == [ExternalID |-> id, URL |-> "", Title |-> title,
                     Content |-> "", PublishedAt |-> NoTime]

a     == Entry("first", "news")
twin  == Entry("first", "edited")   \* a again, with another title
b     == Entry("second", "more")
blank == Entry("second", "")        \* identified, yet mapNotification fails
anon  == Entry("", "")              \* no identity

MCItem == {a, twin, b, blank, anon}
MCKeyOf == [i \in Item |-> Keys!Build(i)]
MCKey == {Keys!Build(a), Keys!Build(b)}
MCMappable == {i \in Item : Keys!usable(i.Title)}

(* Two pipelines: a batch that repeats a key, one that grows, an empty one,*)
(* and one that is refused for its second item.                            *)
SharedBatches == {<<>>, <<a, twin>>, <<a, b>>, <<b, anon>>}

(* One pipeline: an unsendable item ahead of a good one, a duplicate       *)
(* around a good one, an unidentifiable item behind a good one.            *)
SingleBatches == {<<>>, <<blank, a>>, <<a, b, twin>>, <<a, anon>>}

(* Liveness: nothing (so that the baseline may be empty), and an item that *)
(* comes alone and behind an unsendable one.                               *)
LiveItem == {a, blank}
LiveBatches == {<<>>, <<a>>, <<blank, a>>}
=============================================================================
