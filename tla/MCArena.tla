------------------------------ MODULE MCArena ------------------------------
(* The two arenas with two semispaces each, anywhere among four hyperblocks, *)
(* and the third arena, which is never swapped, in one of its own.           *)
EXTENDS Arena

MCSlots == [a \in Used |-> IF a = "always" THEN {5} ELSE 1..4]
=============================================================================
