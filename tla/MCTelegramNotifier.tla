------------------------- MODULE MCTelegramNotifier -------------------------
(***************************************************************************)
(* Messages around the limit: titles that fill it up to the last units,    *)
(* with and without timestamp and link, and summaries of narrow and wide   *)
(* runes.                                                                  *)
(***************************************************************************)
EXTENDS TelegramNotifier, FiniteSets

Summaries == UNION {[1..n -> {1, 2}] : n \in 0..5}

MCMessage ==
  {m \in [addressed : {TRUE}, valid : {TRUE}, title : 1..30, source : {1},
          published : {0, 20}, link : BOOLEAN, summary : Summaries,
          blank : BOOLEAN] :
     /\ m.summary = <<>> => m.blank
     /\ m.blank => m.summary \in {<<>>, <<1, 1>>}
     /\ Title(m) + Footer(m) \in MaxMessageLength - 10 .. MaxMessageLength + 2}
  \cup {m \in [addressed : BOOLEAN, valid : BOOLEAN, title : {1}, source : {1},
                published : {0}, link : {FALSE}, summary : {<<>>},
                blank : {TRUE}] : ~m.addressed \/ ~m.valid}
=============================================================================
