--------------------------- MODULE EngineContract ---------------------------
(***************************************************************************)
(* What an engine promises whoever submits requests to it, whatever it     *)
(* batches, preempts, recomputes or moves to another node in between: a    *)
(* request that is live gains tokens, never loses one, and ends for good   *)
(* at its limit, at an eos, or when it is aborted.                         *)
(***************************************************************************)
EXTENDS Naturals, FiniteSets

CONSTANTS
  Requests,
  MaxTokens             \* MaxTokens[r]: sampling_params.max_tokens

VARIABLES
  live,                 \* the requests submitted and not ended
  tokens                \* tokens[r]: the number of output tokens of r

contractVars == <<live, tokens>>

ContractInit == live = {} /\ tokens = [r \in Requests |-> 0]

(* A fresh request, or a new one under the id of one that has ended.        *)
Enter(r) ==
  /\ r \notin live
  /\ live' = live \cup {r}
  /\ tokens' = [tokens EXCEPT ![r] = 0]

(* A forward pass: some live requests gain tokens, and whoever reaches the  *)
(* limit ends with it.                                                      *)
Produce ==
  /\ DOMAIN tokens' = Requests
  /\ \A r \in Requests :
       \/ tokens'[r] = tokens[r] /\ (r \in live <=> r \in live')
       \/ /\ r \in live
          /\ tokens'[r] \in (tokens[r] + 1)..MaxTokens[r]
          /\ tokens'[r] = MaxTokens[r] => r \notin live'
  /\ live' \subseteq live

Leave(r) ==
  /\ r \in live
  /\ live' = live \ {r}
  /\ UNCHANGED tokens

ContractNext == Produce \/ \E r \in Requests : Enter(r) \/ Leave(r)

ContractSpec == ContractInit /\ [][ContractNext]_contractVars
=============================================================================
