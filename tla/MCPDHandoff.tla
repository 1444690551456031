---------------------------- MODULE MCPDHandoff ----------------------------
(***************************************************************************)
(* Instances of PDHandoff for TLC.                                         *)
(***************************************************************************)
EXTENDS PDHandoff

CONSTANTS r1, r2, r3, b1, b2, b3, b4

(* Prompts of one block, of half a block and of one and a half.             *)
Prompts == r1 :> <<1, 1>> @@ r2 :> <<2>> @@ r3 :> <<3, 3, 3>>

(* One request that ends on the prefill node, two that grow past a block.   *)
Limits == r1 :> 3 @@ r2 :> 4 @@ r3 :> 1
=============================================================================
