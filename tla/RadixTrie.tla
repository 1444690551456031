------------------------------ MODULE RadixTrie ------------------------------
(***************************************************************************)
(* engine/prefix_cache.py: the tree of cached KV blocks that lets a new    *)
(* request reuse the prompt prefix an earlier one computed.                *)
(*                                                                         *)
(* A TrieNode is identified by the tokens on its path from the root: the   *)
(* i-th node of request r's prompt is Node(r, i), its first i full blocks  *)
(* of tokens.  The hash chain of the code is an index on that identity;    *)
(* a hash collision only makes a lookup miss (hash_block's docstring) and  *)
(* is not modelled.  The hit-rate counters are not modelled either.        *)
(*                                                                         *)
(* This module holds the state and the operations; BlockManager is the     *)
(* only caller and says when each of them happens.                         *)
(***************************************************************************)
EXTENDS Naturals, Sequences, FiniteSets

CONSTANTS
  Requests,             \* the Request objects
  Prompt,               \* Prompt[r]: prompt_token_ids of request r
  BlockSize,            \* CacheConfig.block_size
  Blocks                \* the physical block ids

(* Prompts are not empty: a request without tokens has no row to sample     *)
(* from, and the engine reads position len(prompt) - 1.                     *)
ASSUME PromptAssumption ==
  /\ IsFiniteSet(Requests)
  /\ IsFiniteSet(Blocks)
  /\ BlockSize \in Nat \ {0}
  /\ DOMAIN Prompt = Requests
  /\ \A r \in Requests : Prompt[r] \in Seq(Nat) /\ Prompt[r] # <<>>

VARIABLES
  trie,                 \* the nodes: path -> [phys, ref]
  lastUsed              \* TrieNode.last_used, path -> rank (see Stamp)

trieVars == <<trie, lastUsed>>

-----------------------------------------------------------------------------
(* Paths *)

FullBlocks(r) == Len(Prompt[r]) \div BlockSize

Node(r, i) == SubSeq(Prompt[r], 1, i * BlockSize)

Chain(r, k) == { Node(r, i) : i \in 1..k }

Nodes == UNION { Chain(r, FullBlocks(r)) : r \in Requests }

Children(n) ==
  { m \in DOMAIN trie : /\ Len(m) = Len(n) + BlockSize
                        /\ SubSeq(m, 1, Len(n)) = n }

TrieBlocks == { trie[n].phys : n \in DOMAIN trie }

-----------------------------------------------------------------------------
(* Lookup *)

(* match(): the number of leading full blocks of r's prompt in the tree.    *)
MatchLen(r) ==
  CHOOSE k \in 0..FullBlocks(r) :
    /\ Chain(r, k) \subseteq DOMAIN trie
    /\ k < FullBlocks(r) => Node(r, k + 1) \notin DOMAIN trie

(* last_used is only ever compared, so the clock is kept as a rank: the     *)
(* nodes of one call share the newest rank and the others keep their order. *)
Stamp(dom, touched) ==
  [n \in dom |->
     IF n \in touched THEN Cardinality(dom)
     ELSE Cardinality({m \in dom \ touched : lastUsed[m] < lastUsed[n]})]

(* acquire(): hold the first k nodes of r's prompt.                         *)
Acquire(r, k) ==
  /\ trie' = [n \in DOMAIN trie |->
                IF n \in Chain(r, k) THEN [trie[n] EXCEPT !.ref = @ + 1]
                                     ELSE trie[n]]
  /\ lastUsed' = Stamp(DOMAIN trie, Chain(r, k))

(* Faulty variant: the last node is not released.                           *)
ReleaseForgetsLast(r, k) ==
  /\ trie' = [n \in DOMAIN trie |->
                IF n \in Chain(r, k - 1) THEN [trie[n] EXCEPT !.ref = @ - 1]
                                         ELSE trie[n]]
  /\ UNCHANGED lastUsed

(* release(): drop the hold on the first k nodes of r's prompt.  The        *)
(* ValueError of the code is a ref count that would become negative.        *)
Release(r, k) ==
  /\ trie' = [n \in DOMAIN trie |->
                IF n \in Chain(r, k) THEN [trie[n] EXCEPT !.ref = @ - 1]
                                     ELSE trie[n]]
  /\ UNCHANGED lastUsed

-----------------------------------------------------------------------------
(* Insertion *)

(* insert(): walk the blocks of r's prompt after the held ones up to the    *)
(* n-th; a node that is already there keeps its physical block, a new one   *)
(* takes the block of r's table; every node walked gains a hold.            *)
Insert(r, held, n, table) ==
  LET walked == Chain(r, n) \ Chain(r, held)
      dom == DOMAIN trie \cup walked
  IN
  /\ trie' = [m \in dom |->
                CASE m \notin walked -> trie[m]
                  [] m \in walked \cap DOMAIN trie -> [trie[m] EXCEPT !.ref = @ + 1]
                  [] OTHER -> [phys |-> table[Len(m) \div BlockSize], ref |-> 1]]
  /\ lastUsed' = Stamp(dom, walked)

-----------------------------------------------------------------------------
(* Eviction *)

(* Faulty variant: an inner node counts as evictable.                       *)
EvictableIgnoresChildren == { n \in DOMAIN trie : trie[n].ref = 0 }

(* The nodes that can be reclaimed now: unreferenced leaves.                *)
Evictable == { n \in DOMAIN trie : trie[n].ref = 0 /\ Children(n) = {} }

(* evict_one_lru() and _remove() of the victim n.                           *)
EvictOneLRU(n) ==
  /\ n \in Evictable
  /\ \A m \in Evictable : lastUsed[n] <= lastUsed[m]
  /\ trie' = [m \in DOMAIN trie \ {n} |-> trie[m]]
  /\ lastUsed' = Stamp(DOMAIN trie \ {n}, {})
=============================================================================
