---------------------------- MODULE BlockManager ----------------------------
(***************************************************************************)
(* engine/block_manager.py: the physical KV-cache blocks, the block table  *)
(* of each request, and the blocks shared through the RadixTrie.           *)
(*                                                                         *)
(* Every operation takes what it reads from the Request as a parameter     *)
(* (get_len(), num_computed_tokens).  Spec is the manager under any caller *)
(* that keeps the documented protocol: can_x before x, and one operation   *)
(* at a time.  LLMEngine composes the same operations with the scheduler   *)
(* and is checked to be such a caller.                                     *)
(*                                                                         *)
(* allocate() loops over evictions, so it is a sequence of steps:          *)
(* AllocateBegin (take the match), DrainEviction*, then AllocateFinish or  *)
(* AllocateFail.  No other operation runs in between.                      *)
(***************************************************************************)
EXTENDS RadixTrie

CONSTANTS
  Watermark,            \* CacheConfig.watermark_blocks
  EnablePrefixCaching,  \* CacheConfig.enable_prefix_caching
  MaxLen                \* bound on the sequence lengths a caller passes

(* CacheConfig.__post_init__; num_gpu_blocks is the number of Blocks.        *)
CacheConfig ==
  /\ BlockSize > 0
  /\ Watermark \in 0..Cardinality(Blocks)
  /\ EnablePrefixCaching \in BOOLEAN

ASSUME ConfigAssumption == CacheConfig /\ MaxLen \in Nat

VARIABLES
  free,                 \* _free_block_ids; which id a pop returns is left open
  tables,               \* block_tables[r], <<>> when r has none
  ncached,              \* len(cached_prefix_nodes): r holds Chain(r, ncached[r])
  allocating,           \* the request inside allocate(), or {}
  need,                 \* its needed_fresh
  oom                   \* allocate() raised OutOfMemoryError

bmVars == <<trie, lastUsed, free, tables, ncached, allocating, need, oom>>

-----------------------------------------------------------------------------
(* State functions *)

(* ceil(len / block_size), Request.num_blocks_needed.                       *)
NumBlocksNeeded(len) == (len + BlockSize - 1) \div BlockSize

TableBlocks(r) == { tables[r][i] : i \in DOMAIN tables[r] }

HeldBlocks(r) == { trie[n].phys : n \in Chain(r, ncached[r]) }

(* The blocks of r that free() returns to the pool.                         *)
PrivateBlocks(r) == TableBlocks(r) \ HeldBlocks(r)

Capacity(r) == Len(tables[r]) * BlockSize

MatchPrefix(r) == IF EnablePrefixCaching THEN MatchLen(r) ELSE 0

Idle == allocating = {} /\ ~oom

-----------------------------------------------------------------------------
(* Admission *)

(* Faulty variant: no reserve for the admission.                            *)
CanAllocateIgnoresWatermark(r, len) ==
  Cardinality(free) + Cardinality(Evictable)
    >= NumBlocksNeeded(len) - MatchPrefix(r)

CanAllocate(r, len) ==
  Cardinality(free) + Cardinality(Evictable)
    >= (NumBlocksNeeded(len) - MatchPrefix(r)) + Watermark

(* allocate(), up to the evictions: hold the match, so that the evictions   *)
(* cannot reclaim it.                                                       *)
AllocateBegin(r, len) ==
  /\ Idle /\ tables[r] = <<>>
  /\ Acquire(r, MatchPrefix(r))
  /\ ncached' = [ncached EXCEPT ![r] = MatchPrefix(r)]
  /\ need' = NumBlocksNeeded(len) - MatchPrefix(r)
  /\ allocating' = {r}
  /\ UNCHANGED <<free, tables, oom>>

(* One iteration of _drain_evictions.                                       *)
DrainEviction ==
  /\ allocating # {} /\ ~oom
  /\ Cardinality(free) < need
  /\ \E n \in Evictable :
       /\ EvictOneLRU(n)
       /\ free' = free \cup {trie[n].phys}
  /\ UNCHANGED <<tables, ncached, allocating, need, oom>>

(* Faulty variant: the fresh blocks come before the matched ones.           *)
AllocateFreshFirst(r) ==
  /\ r \in allocating /\ ~oom
  /\ Cardinality(free) >= need
  /\ \E fresh \in [1..need -> free] :
       /\ \A i, j \in 1..need : fresh[i] = fresh[j] => i = j
       /\ free' = free \ { fresh[i] : i \in 1..need }
       /\ tables' = [tables EXCEPT ![r] =
            [i \in 1..(ncached[r] + need) |->
               IF i <= need THEN fresh[i] ELSE trie[Node(r, i - need)].phys]]
  /\ allocating' = {} /\ need' = 0
  /\ UNCHANGED <<trie, lastUsed, ncached, oom>>

(* allocate(), the rest: pop the fresh blocks and store the table.          *)
AllocateFinish(r) ==
  /\ r \in allocating /\ ~oom
  /\ Cardinality(free) >= need
  /\ \E fresh \in [1..need -> free] :
       /\ \A i, j \in 1..need : fresh[i] = fresh[j] => i = j
       /\ free' = free \ { fresh[i] : i \in 1..need }
       /\ tables' = [tables EXCEPT ![r] =
            [i \in 1..(ncached[r] + need) |->
               IF i <= ncached[r] THEN trie[Node(r, i)].phys
                                  ELSE fresh[i - ncached[r]]]]
  /\ allocating' = {} /\ need' = 0
  /\ UNCHANGED <<trie, lastUsed, ncached, oom>>

(* allocate() raises: nothing left to evict and too few free blocks.        *)
AllocateFail ==
  /\ allocating # {} /\ ~oom
  /\ Cardinality(free) < need
  /\ Evictable = {}
  /\ oom' = TRUE
  /\ UNCHANGED <<trie, lastUsed, free, tables, ncached, allocating, need>>

(* Faulty variant: registers the whole prompt, computed or not.             *)
InsertWholePrompt(r, computed) ==
  /\ Idle /\ tables[r] # <<>>
  /\ ncached' = [ncached EXCEPT ![r] = FullBlocks(r)]
  /\ Insert(r, ncached[r], FullBlocks(r), tables[r])
  /\ UNCHANGED <<free, tables, allocating, need, oom>>

(* insert_computed_prefix().                                                *)
InsertComputedPrefix(r, computed) ==
  LET n == (IF computed < Len(Prompt[r]) THEN computed ELSE Len(Prompt[r]))
             \div BlockSize
  IN
  /\ Idle /\ tables[r] # <<>>
  /\ IF ~EnablePrefixCaching \/ n = 0 THEN UNCHANGED <<trie, lastUsed, ncached>>
     ELSE /\ ncached' = [ncached EXCEPT ![r] = n]
          /\ IF n <= ncached[r] THEN UNCHANGED trieVars
             ELSE Insert(r, ncached[r], n, tables[r])
  /\ UNCHANGED <<free, tables, allocating, need, oom>>

-----------------------------------------------------------------------------
(* Growth of a running request *)

NeedsNewBlock(r, len) == len > Capacity(r)

CanAppendSlot(r, len) == NeedsNewBlock(r, len) => free # {}

(* Faulty variant: the block stays in the pool.                             *)
GrowLeavesFree(r) ==
  \E b \in free :
    /\ tables' = [tables EXCEPT ![r] = Append(@, b)]
    /\ UNCHANGED free

(* Give r's table one more block.                                           *)
Grow(r) ==
  \E b \in free :
    /\ tables' = [tables EXCEPT ![r] = Append(@, b)]
    /\ free' = free \ {b}

AppendSlot(r, len) ==
  /\ Idle /\ tables[r] # <<>>
  /\ IF NeedsNewBlock(r, len) THEN Grow(r) ELSE UNCHANGED <<tables, free>>
  /\ UNCHANGED <<trie, lastUsed, ncached, allocating, need, oom>>

CanEnsureCapacity(r, len) ==
  NumBlocksNeeded(len) <= Len(tables[r]) + Cardinality(free)

(* ensure_capacity(): grow by as many blocks as the target length needs.    *)
EnsureCapacity(r, len) ==
  LET old == Len(tables[r])
      more == IF NumBlocksNeeded(len) > old THEN NumBlocksNeeded(len) - old ELSE 0
  IN
  /\ Idle /\ tables[r] # <<>>
  /\ \E fresh \in [1..more -> free] :
       /\ \A i, j \in 1..more : fresh[i] = fresh[j] => i = j
       /\ free' = free \ { fresh[i] : i \in 1..more }
       /\ tables' = [tables EXCEPT ![r] =
            [i \in 1..(old + more) |->
               IF i <= old THEN tables[r][i] ELSE fresh[i - old]]]
  /\ UNCHANGED <<trie, lastUsed, ncached, allocating, need, oom>>

-----------------------------------------------------------------------------
(* Teardown *)

(* Faulty variant: the first ncached[r] blocks all count as shared, also    *)
(* the duplicate of a node that another request registered first.           *)
FreeKeepsDuplicates(r) ==
  /\ Idle
  /\ free' = free \cup { tables[r][i] : i \in {j \in DOMAIN tables[r] : j > ncached[r]} }
  /\ Release(r, ncached[r])
  /\ tables' = [tables EXCEPT ![r] = <<>>]
  /\ ncached' = [ncached EXCEPT ![r] = 0]
  /\ UNCHANGED <<allocating, need, oom>>

(* Faulty variant: the request still lists the nodes it has released.       *)
FreeKeepsNodes(r) ==
  /\ Idle
  /\ free' = free \cup PrivateBlocks(r)
  /\ Release(r, ncached[r])
  /\ tables' = [tables EXCEPT ![r] = <<>>]
  /\ UNCHANGED <<ncached, allocating, need, oom>>

(* free(): release the held nodes and return the other blocks to the pool;  *)
(* a no-op for a request without a table.                                   *)
Free(r) ==
  /\ Idle
  /\ IF tables[r] = <<>> THEN UNCHANGED <<trie, lastUsed, free, tables, ncached>>
     ELSE /\ free' = free \cup PrivateBlocks(r)
          /\ Release(r, ncached[r])
          /\ tables' = [tables EXCEPT ![r] = <<>>]
          /\ ncached' = [ncached EXCEPT ![r] = 0]
  /\ UNCHANGED <<allocating, need, oom>>

-----------------------------------------------------------------------------
(* The manager under a caller that keeps the protocol *)

BMInit ==
  /\ trie = <<>> /\ lastUsed = <<>>
  /\ free = Blocks
  /\ tables = [r \in Requests |-> <<>>]
  /\ ncached = [r \in Requests |-> 0]
  /\ allocating = {} /\ need = 0 /\ oom = FALSE

(* The scheduler allocates for the whole sequence (prompt and output).      *)
CallAllocate(r) ==
  \E len \in Len(Prompt[r])..MaxLen :
    CanAllocate(r, len) /\ AllocateBegin(r, len)

CallAppendSlot(r) ==
  \E len \in 1..MaxLen : CanAppendSlot(r, len) /\ AppendSlot(r, len)

CallEnsureCapacity(r) ==
  \E len \in 1..MaxLen : CanEnsureCapacity(r, len) /\ EnsureCapacity(r, len)

(* What is registered has been computed, in blocks of the table, and covers *)
(* the nodes already held.                                                  *)
CallInsert(r) ==
  \E computed \in 1..Capacity(r) :
    /\ ncached[r] * BlockSize <= computed
    /\ InsertComputedPrefix(r, computed)

BMNext ==
  \/ DrainEviction
  \/ AllocateFail
  \/ \E r \in Requests :
       \/ CallAllocate(r)
       \/ AllocateFinish(r)
       \/ CallAppendSlot(r)
       \/ CallEnsureCapacity(r)
       \/ CallInsert(r)
       \/ Free(r)

BMSpec == BMInit /\ [][BMNext]_bmVars

-----------------------------------------------------------------------------
(* Properties *)

(* The types of the manager's state; the trie only holds paths of prompts.  *)
BMTypeOK ==
  /\ DOMAIN trie \subseteq Nodes
  /\ trie \in [DOMAIN trie -> [phys : Blocks, ref : Nat]]
  /\ lastUsed \in [DOMAIN trie -> Nat]
  /\ free \subseteq Blocks
  /\ tables \in [Requests -> Seq(Blocks)]
  /\ ncached \in [Requests -> Nat]
  /\ \A r \in Requests : ncached[r] <= FullBlocks(r)
  /\ allocating \subseteq Requests
  /\ need \in Nat
  /\ oom \in BOOLEAN

(* free()'s docstring: no block is claimed twice.  A block of the pool is   *)
(* in no table and no node, a node's block is that node's alone, and two    *)
(* requests share a block only through the trie.                            *)
NoBlockClaimedTwice ==
  /\ free \cap TrieBlocks = {}
  /\ \A m, n \in DOMAIN trie : trie[m].phys = trie[n].phys => m = n
  /\ \A r \in Requests :
       /\ free \cap TableBlocks(r) = {}
       /\ \A i, j \in DOMAIN tables[r] : tables[r][i] = tables[r][j] => i = j
       /\ \A s \in Requests \ {r} :
            TableBlocks(r) \cap TableBlocks(s) \subseteq TrieBlocks

(* No block is lost: after any history of admissions, growth, registration, *)
(* eviction and teardown, each one is free, cached or in a table.           *)
NoBlockLost ==
  \A b \in Blocks :
    b \in free \/ b \in TrieBlocks \/ \E r \in Requests : b \in TableBlocks(r)

(* The requests that hold node n.                                           *)
Holders(n) == { r \in Requests : n \in Chain(r, ncached[r]) }

(* release()'s ValueError never happens and a node in use is never evicted: *)
(* each ref count is the number of requests that hold the node.             *)
RefCountsExact ==
  /\ \A r \in Requests : Chain(r, ncached[r]) \subseteq DOMAIN trie
  /\ \A n \in DOMAIN trie : trie[n].ref = Cardinality(Holders(n))

(* A table entry that is a trie block is the block of r's own i-th node, at *)
(* index i, and r holds it; so r's other blocks are written by r alone.     *)
SharedBlocksInPlace ==
  \A r \in Requests : \A i \in DOMAIN tables[r] : \A n \in DOMAIN trie :
    tables[r][i] = trie[n].phys => i <= ncached[r] /\ n = Node(r, i)

(* free() is a no-op for a request without a table, so a hold that outlives *)
(* its table would pin a node for ever: outside allocate(), what a request  *)
(* holds is covered by its table.                                           *)
HoldsEndWithTheTable ==
  /\ \A r, s \in allocating : r = s
  /\ \A r \in allocating : tables[r] = <<>>
  /\ \A r \in Requests \ allocating : ncached[r] <= Len(tables[r])

(* evict_one_lru()'s docstring: a node is never evicted before the nodes    *)
(* below it, so every cached path can be walked from the root.              *)
TrieIsPrefixClosed ==
  \A n \in DOMAIN trie :
    Len(n) > BlockSize => SubSeq(n, 1, Len(n) - BlockSize) \in DOMAIN trie

(* OutOfMemoryError's docstring: can_allocate() has been checked, so        *)
(* allocate() does not run out of blocks.                                   *)
CheckedAllocationSucceeds == ~oom

(* Why it does not: at every point of the eviction loop the free blocks and *)
(* the leaves that can be reclaimed at once cover what is still needed.     *)
ReserveCoversNeed ==
  allocating # {} => Cardinality(free) + Cardinality(Evictable) >= need

(* The inductive invariant of the accounting (see BlockManagerProofs).      *)
Accounting ==
  /\ BMTypeOK
  /\ NoBlockClaimedTwice
  /\ NoBlockLost
  /\ RefCountsExact
  /\ SharedBlocksInPlace
  /\ HoldsEndWithTheTable
=============================================================================
