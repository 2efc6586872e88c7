---------------------------- MODULE MCHTMLSource ----------------------------
(***************************************************************************)
(* Instances of HTMLSource for TLC.  A text is a sequence of words, with   *)
(* " " for white space.                                                    *)
(***************************************************************************)
EXTENDS HTMLSource

old == <<"old.org">>        \* redirects to new
new == <<"new.org">>
mirror == <<"mirror.org">>
path == <<"/big", " ", "news">>
padded == <<" ">> \o path
full == <<"new.org">> \o path
broken == <<"%">>
css == <<".css">>
blank == <<" ">>
title == <<"News", " ", "today">>
latin == <<"caf\\xe9">>     \* a byte of Latin-1, no UTF-8

MCEmpty == <<>>
MCBase == {new, mirror}
MCHTTPAddress == {old, new}
MCSelector == {css}
MCMalformed == {broken}

Words(t) == SelectSeq(t, LAMBDA word : word # " ")

MCAbsolute == {old, new, mirror, full, mirror \o path, old \o path}

Written == {<<>>, blank, title, latin, path, padded, broken, css} \cup MCAbsolute

MCText == Written \cup {Words(t) : t \in Written}

(* White space is before the first word at most, or all there is.          *)
MCTrimmed ==
  [t \in MCText |-> IF t # <<>> /\ Head(t) = " " THEN Tail(t) ELSE t]

MCNormalized == [t \in MCText |-> Words(t)]

MCInvalidUTF8 == {latin}

MCResolve(b, t) == IF t \in MCAbsolute THEN t
                   ELSE IF t = path THEN b \o t ELSE b

Config(url, item, link, content) ==
  [url |-> url, item |-> item, title |-> css, link |-> link,
   content |-> content]

(* Two good ones for the same page, one without link and content, one with *)
(* a blank content field, and two with a bad field each.                   *)
MCConfigured ==
  {Config(old, css, css, css), Config(new, css, css, css),
   Config(new, css, Missing, <<>>), Config(new, css, css, blank),
   Config(path, css, css, css), Config(new, Missing, css, css)}

Entry(t, href) == [title |-> t, href |-> href, content |-> blank]

MCNode == {Entry(title, path), Entry(title, full), Entry(title, <<>>),
           Entry(title, broken), Entry(blank, path), Entry(latin, padded)}

(* Nothing, each node by itself, each before and after a good one.         *)
MCPage == {<<>>} \cup [1..1 -> MCNode]
            \cup {<<Entry(title, full), node>> : node \in MCNode}
            \cup {<<node, Entry(title, path)>> : node \in MCNode}
=============================================================================
