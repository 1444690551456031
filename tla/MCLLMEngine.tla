---------------------------- MODULE MCLLMEngine ----------------------------
(***************************************************************************)
(* Instances of LLMEngine for TLC.                                         *)
(***************************************************************************)
EXTENDS LLMEngine

CONSTANTS r1, r2, r3, b1, b2, b3, b4, b5

(* Prompts of two blocks and of one and a half that share their first       *)
(* block, and a prompt that shares nothing and so forces evictions.         *)
SharedPrompts ==
  r1 :> <<1, 1, 2, 2>> @@ r2 :> <<1, 1, 3>> @@ r3 :> <<4, 4, 5>>

(* Prompts of one block whose output needs a second one.                    *)
ShortPrompts == r1 :> <<1, 1>> @@ r2 :> <<1>> @@ r3 :> <<4, 4>>

(* A short prompt whose cached block a long one begins with, and one that   *)
(* shares nothing: its last chunk leaves room for the short one to begin in *)
(* the same step, and the long one needs all that is left of the cache.     *)
NestedPrompts == r1 :> <<1, 1>> @@ r2 :> <<1, 1, 4, 4, 4, 4, 4>> @@ r3 :> <<3, 3, 3, 3>>

ThreeTokens == [r \in Requests |-> 3]

DraftLimits == r1 :> 4 @@ r2 :> 2 @@ r3 :> 4

BlockSymmetry == Permutations(Blocks)
=============================================================================
