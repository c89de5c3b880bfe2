---------------------------- MODULE MCCommandQueue ----------------------------
(* TLC instances of CommandQueue. *)
EXTENDS CommandQueue, TLC

CONSTANTS main, nested, a, b, c, d

MCLanes == {main, nested}
MCEntries == {a, b, c, d}
MCLaneOf == (a :> main) @@ (b :> main) @@ (c :> main) @@ (d :> nested)

(* a, b and c are enqueued in the same lane: renaming them changes nothing. *)
Symmetry == Permutations({a, b, c})
=============================================================================
