--------------------------- MODULE MCDefinitions ---------------------------
(***************************************************************************)
(* Contents of definition files for TLC.  A file is a sequence of blocks,  *)
(* each the name of some lines: a head (version, id, name, type,           *)
(* interval), the block "config", or the "---" between two documents.      *)
(***************************************************************************)
EXTENDS Naturals, Sequences, FiniteSets, SequencesExt

Entries(v, f) == [go |-> v, text |-> "", number |-> 0, entries |-> f]
NoEntries == [k \in {} |-> ""]
Scalar(go, text, n) == [go |-> go, text |-> text, number |-> n,
                        entries |-> NoEntries]
Str(t) == Scalar("string", t, 0)
Num(n) == Scalar("int", "", n)
Nil == Scalar("nil", "", 0)
Broken == Scalar("error", "", 0)
Map(f) == Entries("DecodedConfig", f)
OddMap(f) == Entries("map[any]any", f)

(* The scheme is put in small letters. *)
MCURLString(t) == IF t = "HTTPS" THEN "https" ELSE t

MCTrim(t) == CASE t = " b " -> "b" [] t = "  " -> "" [] OTHER -> t

Item == Str(".css")
Selectors(link) == Map([item |-> Item, title |-> Item, url |-> link])
Config(url, selectors) == Map([url |-> url, selectors |-> selectors])

HeadOf(version, id, type, interval) ==
  [version |-> version, id |-> id, name |-> Str("n"), type |-> type,
   interval_seconds |-> interval]
Good(id) == HeadOf(Num(1), Str(id), Str("html"), Num(300))

(* What the lines of a block say; equal names say equal things.            *)
Lines ==
  [a       |-> Good("a"),
   b       |-> Good("b"),
   wide    |-> Good(" b "),
   blank   |-> Good("  "),
   v2      |-> HeadOf(Num(2), Str("b"), Str("html"), Num(300)),
   quoted  |-> HeadOf(Str("1"), Str("b"), Str("html"), Num(300)),
   zero    |-> HeadOf(Num(1), Str("b"), Str("html"), Num(0)),
   rss     |-> HeadOf(Num(1), Str("b"), Str("rss"), Num(300)),
   json    |-> HeadOf(Num(1), Str("b"), Str("json"), Num(300)),
   config  |-> [config |-> Config(Str("http"), Selectors(Nil))],
   moved   |-> [config |-> Config(Str("HTTPS"), Selectors(Item))],
   ftp     |-> [config |-> Config(Str("ftp"), Selectors(Item))],
   text    |-> [config |-> Str("x")],
   bare    |-> [config |-> Config(Str("http"), Str("x"))],
   badcss  |-> [config |-> Config(Str("http"), Selectors(Str("]")))],
   deepkey |-> [config |-> Map([url |-> Str("http"),
                                selectors |-> Selectors(Nil),
                                extra |-> OddMap([key7 |-> Item])])],
   odd     |-> [extra |-> Nil]]

MCBlock == DOMAIN Lines \cup {"---", "junk"}

(* yaml.v3: the documents between the "---"; lines that are no YAML break  *)
(* their document; what says nothing is nil.                               *)
Merge(f, g) == [k \in DOMAIN f \cup DOMAIN g |->
                  IF k \in DOMAIN g THEN g[k] ELSE f[k]]
Join(lines, block) ==
  IF lines = Broken \/ block = "junk" THEN Broken
  ELSE IF lines = Nil THEN Map(Lines[block])
  ELSE Map(Merge(lines.entries, Lines[block]))

YAMLOf(bytes) ==
  IF bytes = <<>> THEN <<>>
  ELSE FoldLeft(LAMBDA docs, block :
         IF block = "---" THEN Append(docs, Nil)
         ELSE Append(Front(docs), Join(Last(docs), block)),
         <<Nil>>, bytes)

RECURSIVE Closure(_)
Closure(S) ==
  LET more == S \cup UNION {{v.entries[k] : k \in DOMAIN v.entries} : v \in S}
  IN  IF more = S THEN S ELSE Closure(more)

ValuesOf(Contents) ==
  Closure(UNION {{YAMLOf(c)[i] : i \in DOMAIN YAMLOf(c)} : c \in Contents})
=============================================================================
