--------------------------- MODULE MCBlockManager ---------------------------
(***************************************************************************)
(* Instances of BlockManager for TLC.                                      *)
(***************************************************************************)
EXTENDS BlockManager, TLC

CONSTANTS r1, r2, r3, b1, b2, b3, b4, b5, b6

(* r1 and r2 share their first block; r3 shares nothing, so that admitting  *)
(* it evicts whole unreferenced paths, and ends in half a block.            *)
MCPrompt == r1 :> <<1, 1, 2, 2>> @@ r2 :> <<1, 1, 3, 3>> @@ r3 :> <<4, 4, 5>>

BlockSymmetry == Permutations(Blocks)
=============================================================================
