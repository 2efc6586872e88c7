------------------------- MODULE MCAdapterRegistry -------------------------
(***************************************************************************)
(* Instances of AdapterRegistry for TLC.                                   *)
(***************************************************************************)
EXTENDS AdapterRegistry, TLC

CONSTANTS c1, c2, c3, html, rss, old, new

Clients == Permutations({c1, c2, c3})

Asking(n, t, a) == [name |-> n, type |-> t, adapter |-> a]

(* Rivals for one type, one for another, none at all, and every way to     *)
(* look.                                                                   *)
MCRequest ==
  {Asking("register", html, old), Asking("register", html, new),
   Asking("register", rss, old), Asking("register", rss, Nil),
   Asking("lookup", html, Nil), Asking("run", html, Nil), Asking("run", rss, Nil)}
=============================================================================
