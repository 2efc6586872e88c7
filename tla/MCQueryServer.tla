--------------------------- MODULE MCQueryServer ---------------------------
(***************************************************************************)
(* Instances of QueryServer for TLC.                                       *)
(***************************************************************************)
EXTENDS QueryServer, MCDefinitions

MCNameOrder == <<"1.yml", "2.yaml">>
MCExtension == [f \in Filename |-> IF f = "1.yml" THEN ".yml" ELSE ".yaml"]
MCIDOrder == <<"a", "b">>
MCIntended == [c \in {<<"a", "config">>, <<"b", "moved">>, <<"wide", "config">>}
                 |-> IF c[1] = "a" THEN "a" ELSE "b"]

(* Three good contents and one bad one for each way to be bad.             *)
MCContent ==
  DOMAIN MCIntended \cup
  {<<h, "config">> : h \in {"blank", "v2", "quoted", "zero", "rss", "json", "odd"}}
  \cup {<<"a", c>> : c \in {"ftp", "text", "bare", "badcss", "deepkey", "odd"}}
  \cup {<<>>, <<"a">>, <<"a", "config", "---">>, <<"junk", "config">>,
        <<"a", "config", "---", "b", "config">>, <<"a", "config", "odd">>,
        <<"a", "config", "---", "junk">>}

MCValue == ValuesOf(MCContent)
MCYAML == [c \in MCContent |-> YAMLOf(c)]

File(c) == [kind |-> "file", bytes |-> c]

(* Every content by itself, each good one before and after every content.  *)
MCDirectory ==
  {("1.yml" :> e @@ "2.yaml" :> File(c)) :
     e \in {Nothing, File(<<"b", "moved">>), File(<<"a", "config">>)},
     c \in MCContent}
  \cup {("1.yml" :> File(c) @@ "2.yaml" :> e) :
     e \in {[kind |-> "link", bytes |-> <<"a", "config">>], File(<<"b", "moved">>)},
     c \in MCContent}

(* Contents around a limit of two characters, blank in the part kept or in *)
(* all of it.                                                              *)
MCCollected ==
  {<<>>} \cup {<<c>> : c \in {<<>>, <<"x", " ">>, <<" ", " ">>, <<" ", " ", "x">>}}
   \cup {<< <<"x">>, <<"x", "x", "x">> >>, << <<"x">>, <<>>, <<" ">> >>}
=============================================================================
