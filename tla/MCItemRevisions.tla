--------------------------- MODULE MCItemRevisions ---------------------------
(***************************************************************************)
(* Two blank texts and two usable ones; the zero time and another instant, *)
(* each in two zones.  Nothing tells the members of a pair apart.          *)
(***************************************************************************)
EXTENDS ItemRevisions, TLC

CONSTANTS empty, space, t1, t2, zero, noon, utc, cet

Pairs == Permutations({empty, space}) \cup Permutations({t1, t2})
           \cup Permutations({utc, cet})
=============================================================================
