--------------------------- MODULE MCSourceQuery ---------------------------
(***************************************************************************)
(* Instances of SourceQuery for TLC.                                       *)
(***************************************************************************)
EXTENDS SourceQuery, MCDefinitions

MCNameOrder == <<"1.yaml", "2.yml", "3.txt">>
MCExtension == "1.yaml" :> ".yaml" @@ "2.yml" :> ".yml" @@ "3.txt" :> ".txt"
MCIDOrder == <<"a", "b">>
MCHead == {"a", "b"}
MCBody == {"config", "moved"}
MCIntended == [c \in (MCHead \X MCBody) \cup (MCBody \X MCHead) |->
                 IF c[1] \in MCHead THEN c[1] ELSE c[2]]

File(c) == [kind |-> "file", bytes |-> c]
Link(c) == [kind |-> "link", bytes |-> c]
Folder == [kind |-> "dir", bytes |-> <<>>]

(* One file and a name to be taken, two files, and a file beside a link or *)
(* a directory; and always one whose name is not that of a YAML file.      *)
MCDirectory ==
  {("1.yaml" :> File(<<"a", "config">>) @@ "2.yml" :> e
      @@ "3.txt" :> File(<<"b", "config">>)) :
     e \in {Nothing, File(<<"b", "moved">>), Link(<<"b", "moved">>), Folder}}

(* A new version of the first file that is a good one, one that takes the  *)
(* other's ID, and a link.                                                 *)
MCVersion == {File(<<"a", "moved">>), File(<<"b", "config">>)}
LinkVersion == MCVersion \cup {Link(<<"b", "moved">>)}

(* Every way the blocks of two versions of a file may come together.       *)
MCContent == {<<>>} \cup [1..1 -> MCHead \cup MCBody]
               \cup [1..2 -> MCHead \cup MCBody]
MCValue == ValuesOf(MCContent)
MCYAML == [c \in MCContent |-> YAMLOf(c)]

(* What CatalogsFitIfContentsDo asks of the contents.                      *)
ASSUME ContentsOfRun == ContentsFit

Asking(id) == [parse |-> TRUE, dir |-> "sources", id |-> id, timeout |-> 15,
               items |-> 1, chars |-> 2]

MCArguments ==
  {Asking(id) : id \in {"a", "b", " b ", "  "}}
  \cup {[Asking("a") EXCEPT !.parse = FALSE], [Asking("a") EXCEPT !.dir = "  "],
        [Asking("a") EXCEPT !.timeout = 0], [Asking("a") EXCEPT !.items = 0],
        [Asking("a") EXCEPT !.chars = 4]}
LinkArguments == {Asking("a")}

MCCollected == {<<>>, << <<"x">> >>, << <<"x", "x", "x">>, <<" ">> >>}
=============================================================================
