--------------------------- MODULE MCClientBlocks ----------------------------
(* A small instance of ClientBlocks for TLC: two blocks, of which one is    *)
(* twice as big; the budget of the run holds either of them, not both.      *)
EXTENDS ClientBlocks, TLC

CONSTANTS b1, b2

TwoSizes == b1 :> 1 @@ b2 :> 2
==============================================================================
