------------------------- MODULE MCMemoryStateStore -------------------------
(***************************************************************************)
(* Instances of MemoryStateStore for TLC.                                  *)
(***************************************************************************)
EXTENDS MemoryStateStore, TLC

CONSTANTS c1, c2, c3, s1, k1, k2, BlankSource, BlankKey

Clients == Permutations({c1, c2, c3})

Operation(n, s, K) == [name |-> n, source |-> s, keys |-> K]

(* Two rival baselines, a late one, reads, a mark, and blank arguments.    *)
Operations ==
  {Operation("baseline", s1, {k1, k2}), Operation("baseline", s1, {}),
   Operation("baseline", s1, {k2, BlankKey}), Operation("has", s1, {k2}),
   Operation("has", BlankSource, {k2}), Operation("initialized", s1, {}),
   Operation("mark", s1, {k1}), Operation("mark", s1, {BlankKey})}

(* Liveness: one reader and one writer.                                    *)
FewOperations == {Operation("baseline", s1, {k1}), Operation("has", s1, {k1})}
=============================================================================
