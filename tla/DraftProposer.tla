--------------------------- MODULE DraftProposer ---------------------------
(***************************************************************************)
(* model/draft_proposer.py: the draft model of speculative decoding keeps  *)
(* a shadow of each request, with blocks and a KV cache of its own.        *)
(*                                                                         *)
(* A shadow is what the proposer keeps between calls: the positions it     *)
(* counts as computed, its blocks (only their number: they are private and *)
(* there is no prefix cache), and, as a history, how many of its leading   *)
(* positions hold the draft KV of the request's own tokens.  The shadow's  *)
(* output is overwritten from the request at the start of every call.      *)
(*                                                                         *)
(* LLMEngine says when the operations happen.                              *)
(***************************************************************************)
EXTENDS Integers, FiniteSetsExt

CONSTANTS
  Requests,             \* the request ids
  BlockSize,            \* the draft cache has the target's block size
  NumSpecTokens,        \* num_speculative_tokens, K
  NumDraftBlocks        \* SpeculativeConfig.draft_num_gpu_blocks

(* SpeculativeConfig.__post_init__.                                         *)
SpeculativeConfig ==
  /\ NumSpecTokens \in Nat \ {0}
  /\ NumDraftBlocks \in Nat \ {0}

VARIABLE
  shadows               \* _shadow_requests: id -> [computed, blocks, right]

NoShadows == <<>>

HasShadow(r) == r \in DOMAIN shadows

Shadow(r) == IF HasShadow(r) THEN shadows[r] ELSE [computed |-> 0, blocks |-> 0, right |-> 0]

SetShadow(r, s) == shadows' = [q \in DOMAIN shadows \cup {r} |-> IF q = r THEN s ELSE shadows[q]]

(* What is left of the pool: no operation returns a block to it.            *)
FreeDraftBlocks == NumDraftBlocks - MapThenSumSet(LAMBDA r : shadows[r].blocks, DOMAIN shadows)

DraftBlocksNeeded(len) == (len + BlockSize - 1) \div BlockSize

(* The tokens the first of the K decode steps computes: all that are new    *)
(* since the last call.                                                     *)
ResyncDelta(r, len) == len - Shadow(r).computed

(* Every decode step has a row to sample from, and the pool covers the      *)
(* sequence with all but the last proposal (_get_or_create_shadow allocates *)
(* and _ensure_capacity appends without asking first).                      *)
CanPropose(r, len) ==
  /\ ResyncDelta(r, len) > 0
  /\ DraftBlocksNeeded(len + NumSpecTokens - 1) <= Shadow(r).blocks + FreeDraftBlocks

(* propose() for a request of len committed tokens: one step over the       *)
(* resync delta, then one over each proposal but the last.                  *)
Propose(r, len) ==
  LET s == Shadow(r)
      end == len + NumSpecTokens - 1
  IN SetShadow(r, [computed |-> end,
                   blocks |-> Max({s.blocks, DraftBlocksNeeded(end)}),
                   right |-> IF s.computed <= s.right THEN len ELSE s.right])

(* Faulty variant: the shadow keeps the rejected positions.                 *)
KeepsRejected(accepted) == 0

(* Faulty variant: no clamp, so that a bonus token is counted as computed.  *)
UnclampedRollback(accepted) == NumSpecTokens - accepted

Overshoot(accepted) == Max({0, NumSpecTokens - accepted})

(* rollback() after accepted tokens were committed; the proposals among     *)
(* them that the draft model has seen are now the request's own tokens.     *)
Rollback(r, accepted) ==
  IF ~HasShadow(r) THEN UNCHANGED shadows
  ELSE LET s == shadows[r]
           verified == s.right = s.computed - NumSpecTokens + 1
       IN SetShadow(r, [s EXCEPT
            !.computed = @ - Overshoot(accepted),
            !.right = IF verified THEN @ + Min({accepted, NumSpecTokens}) - 1 ELSE @])
=============================================================================
