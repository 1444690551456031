------------------------- MODULE EngineOutputProofs -------------------------
(***************************************************************************)
(* Proofs about what the engine computes without speculation.  First the   *)
(* contents of the KV cache: whatever the block tables share, duplicate,   *)
(* evict and reuse, a slot that counts as computed holds the KV of its     *)
(* owner's tokens.  Then the tokens: every running request advances in     *)
(* every step, samples each token from the row of the token before it, and *)
(* ends at its first stop condition; so the engine implements              *)
(* EngineContract.                                                         *)
(***************************************************************************)
EXTENDS EngineProofs


-----------------------------------------------------------------------------
(* The KV cache: the invariant *)

KVTypes == kv \in [Blocks -> [Offsets -> {Blank} \cup (Seq(Nat) \X Seq(Token))]]

(* The first n positions of r hold the KV of r's own tokens.                *)
Filled(r, n) == \A p \in 0..(n - 1) : Slot(r, p) = Content(r, p, out[r])

(* Before the forward pass, a scheduled request has its KV up to where its  *)
(* chunk starts; the others, and later all, up to what counts as computed.  *)
FilledInv ==
  /\ \A r \in Active \ Entered : Filled(r, computed[r])
  /\ Scheduling => \A e \in ToSet(Batch) : Filled(e.req, Start(e))

KVInv == KVTypes /\ CachedKVIsWhatItClaims /\ FilledInv

-----------------------------------------------------------------------------
(* Positions, slots and what they hold *)

LEMMA Position ==
  ASSUME NEW b \in Nat \ {0}, NEW p \in Nat
  PROVE  /\ p \div b \in Nat /\ p % b \in 0..(b - 1)
         /\ p = (p \div b) * b + (p % b)
  BY Z3

LEMMA PositionBelow ==
  ASSUME NEW b \in Nat \ {0}, NEW p \in Nat, NEW k \in Nat, p < k * b
  PROVE  p \div b < k
  BY Z3

LEMMA PositionOf ==
  ASSUME NEW b \in Nat \ {0}, NEW i \in Nat, NEW o \in 0..(b - 1)
  PROVE  /\ i * b + o \in Nat
         /\ (i * b + o) \div b = i /\ (i * b + o) % b = o
         /\ i * b + o + 1 <= (i + 1) * b
  BY Z3

(* What a trie node promises of the slot at offset o of its block.          *)
Claim(n, o) == << SubSeq(n, 1, Len(n) - BlockSize + o + 1), <<>> >>

(* A position in a full block of the prompt holds what the block's node     *)
(* claims, whatever has been generated.                                     *)
LEMMA NodeContent ==
  ASSUME NEW r \in Requests, NEW i \in Nat, i + 1 <= FullBlocks(r), NEW o \in Offsets,
         NEW p, p = i * BlockSize + o
  PROVE  /\ p \in Nat /\ p < Len(Prompt[r])
         /\ \A u : Content(r, p, u) = Claim(Node(r, i + 1), o)
<1>1. /\ BlockSize \in Nat \ {0} /\ Prompt[r] \in Seq(Nat) /\ Len(Prompt[r]) \in Nat
      /\ FullBlocks(r) \in Nat /\ i + 1 \in 0..FullBlocks(r) /\ o \in 0..(BlockSize - 1)
  BY PromptAssumption, FullBlocksType DEF Offsets
<1>2. /\ (i + 1) * BlockSize \in 0..Len(Prompt[r])
      /\ Len(Node(r, i + 1)) = (i + 1) * BlockSize
      /\ Node(r, i + 1) \in Seq(Nat)
  BY <1>1, NodeLen
<1>3. p \in Nat /\ p + 1 <= (i + 1) * BlockSize
  BY <1>1, PositionOf
<1>4. (i + 1) * BlockSize = i * BlockSize + BlockSize /\ i * BlockSize \in Nat
  BY <1>1, MulType, Z3
<1>5. PICK l \in Nat, m \in Nat :
        l = Len(Prompt[r]) /\ m = (i + 1) * BlockSize /\ p + 1 <= m /\ m <= l
  BY <1>1, <1>2, <1>3
<1>6. Len(Node(r, i + 1)) - BlockSize + o + 1 = p + 1
  <2>1. PICK k \in Nat : k = i * BlockSize /\ (i + 1) * BlockSize = k + BlockSize
    BY <1>4
  <2>2. o \in Nat /\ BlockSize \in Nat
    BY <1>1
  <2>3. PICK c \in Nat : c = Len(Node(r, i + 1)) /\ c = k + BlockSize
    BY <1>2, <2>1, <2>2
  <2>4. p = k + o
    BY <2>1
  <2>5. c - BlockSize + o + 1 = p + 1
    BY <2>2, <2>3, <2>4
  <2>6. QED
    BY <2>3, <2>5
<1>7. SubSeq(Node(r, i + 1), 1, p + 1) = SubSeq(Prompt[r], 1, p + 1)
  <2>1. 1 \in 1..l /\ m \in 1..l /\ 1 \in 1..(m - 1 + 1) /\ p + 1 \in 1..(m - 1 + 1)
    BY <1>3, <1>5
  <2>2. PICK s \in Seq(Nat) : s = Prompt[r] /\ l = Len(s)
    BY <1>1, <1>5
  <2>3. SubSeq(SubSeq(s, 1, m), 1, p + 1) = SubSeq(s, 1 + 1 - 1, 1 + (p + 1) - 1)
    BY <2>1, <2>2, SubSeqOfSubSeq
  <2>4. 1 + 1 - 1 = 1 /\ 1 + (p + 1) - 1 = p + 1
    BY <1>3
  <2>5. QED
    BY <1>5, <2>2, <2>3, <2>4 DEF Node
<1>8. Least(p + 1, l) = p + 1 /\ p < l
  BY <1>3, <1>5 DEF Least
<1>9. \A u : SubSeq(u, 1, 0) = <<>>
  BY SubSeqEmpty
<1>10. \A u : Content(r, p, u) = << SubSeq(Prompt[r], 1, p + 1), <<>> >>
  BY <1>5, <1>8, <1>9 DEF Content
<1>11. QED
  BY <1>3, <1>5, <1>6, <1>7, <1>8, <1>10 DEF Claim

(* The slot of a position that the table covers.                            *)
LEMMA SlotPlace ==
  ASSUME Accounting, NEW r \in Requests, NEW p \in Nat, p < Capacity(r)
  PROVE  /\ p \div BlockSize \in Nat /\ p \div BlockSize + 1 \in DOMAIN tables[r]
         /\ Block(r, p) = tables[r][p \div BlockSize + 1]
         /\ Block(r, p) \in Blocks /\ Block(r, p) \in TableBlocks(r)
         /\ p % BlockSize \in Offsets
         /\ p = (p \div BlockSize) * BlockSize + (p % BlockSize)
<1>1. /\ BlockSize \in Nat \ {0} /\ tables[r] \in Seq(Blocks) /\ Len(tables[r]) \in Nat
      /\ DOMAIN tables[r] = 1..Len(tables[r])
      /\ p < Len(tables[r]) * BlockSize
  BY PromptAssumption, LenProperties DEF Accounting, BMTypeOK, Capacity
<1>2. /\ p \div BlockSize \in Nat /\ p % BlockSize \in 0..(BlockSize - 1)
      /\ p = (p \div BlockSize) * BlockSize + (p % BlockSize)
  BY <1>1, Position
<1>3. p \div BlockSize < Len(tables[r])
  BY <1>1, PositionBelow
<1>4. PICK i \in Nat : i = p \div BlockSize /\ i + 1 \in 1..Len(tables[r])
  BY <1>1, <1>2, <1>3
<1>5. tables[r][i + 1] \in Blocks
  BY <1>1, <1>4, ElementOfSeq
<1>6. QED
  BY <1>1, <1>2, <1>4, <1>5 DEF Block, TableBlocks, Offsets

(* A slot in a block of the trie holds what the node claims.                *)
LEMMA SharedSlot ==
  ASSUME Accounting, NEW r \in Requests, NEW p \in Nat, p < Capacity(r),
         NEW n \in DOMAIN trie, Block(r, p) = trie[n].phys
  PROVE  /\ n = Node(r, p \div BlockSize + 1)
         /\ p \div BlockSize + 1 \in 0..FullBlocks(r)
         /\ \A u : Content(r, p, u) = Claim(n, p % BlockSize)
<1>1. PICK i \in Nat : /\ i = p \div BlockSize /\ i + 1 \in DOMAIN tables[r]
                       /\ Block(r, p) = tables[r][i + 1]
                       /\ p % BlockSize \in Offsets /\ p = i * BlockSize + (p % BlockSize)
  BY SlotPlace
<1>2. i + 1 <= ncached[r] /\ n = Node(r, i + 1)
  BY <1>1 DEF Accounting, SharedBlocksInPlace
<1>3. ncached[r] \in Nat /\ ncached[r] <= FullBlocks(r) /\ FullBlocks(r) \in Nat
  BY FullBlocksType DEF Accounting, BMTypeOK
<1>4. i + 1 <= FullBlocks(r) /\ i + 1 \in 0..FullBlocks(r)
  BY <1>2, <1>3
<1>5. \A u : Content(r, p, u) = Claim(Node(r, i + 1), p % BlockSize)
  BY <1>1, <1>4, NodeContent
<1>6. QED
  BY <1>1, <1>2, <1>4, <1>5

(* Two positions in one slot are the same position: of one request, or of   *)
(* two that share the block and claim the same of it.                       *)
LEMMA SameSlot ==
  ASSUME Accounting, NEW q \in Requests, NEW p \in Nat, p < Capacity(q),
         NEW r \in Requests, NEW x \in Nat, x < Capacity(r),
         Block(q, p) = Block(r, x), p % BlockSize = x % BlockSize
  PROVE  /\ q = r => p = x
         /\ q # r => \A u, v : Content(q, p, u) = Content(r, x, v)
<1>1. /\ p \div BlockSize + 1 \in DOMAIN tables[q] /\ p \div BlockSize \in Nat
      /\ Block(q, p) = tables[q][p \div BlockSize + 1] /\ Block(q, p) \in TableBlocks(q)
      /\ p = (p \div BlockSize) * BlockSize + (p % BlockSize)
  BY SlotPlace
<1>2. /\ x \div BlockSize + 1 \in DOMAIN tables[r] /\ x \div BlockSize \in Nat
      /\ Block(r, x) = tables[r][x \div BlockSize + 1] /\ Block(r, x) \in TableBlocks(r)
      /\ x = (x \div BlockSize) * BlockSize + (x % BlockSize)
  BY SlotPlace
<1>3. ASSUME q = r PROVE p = x
  <2>1. p \div BlockSize + 1 = x \div BlockSize + 1
    BY <1>1, <1>2, <1>3 DEF Accounting, NoBlockClaimedTwice
  <2>2. p \div BlockSize = x \div BlockSize
    BY <1>1, <1>2, <2>1
  <2>3. QED
    BY <1>1, <1>2, <2>2
<1>4. ASSUME q # r PROVE \A u, v : Content(q, p, u) = Content(r, x, v)
  <2>1. Block(q, p) \in TrieBlocks
    BY <1>1, <1>2, <1>4 DEF Accounting, NoBlockClaimedTwice
  <2>2. PICK n \in DOMAIN trie : Block(q, p) = trie[n].phys
    BY <2>1 DEF TrieBlocks
  <2>3. \A u : Content(q, p, u) = Claim(n, p % BlockSize)
    BY <2>2, SharedSlot
  <2>4. \A u : Content(r, x, u) = Claim(n, x % BlockSize)
    BY <2>2, SharedSlot
  <2>5. QED
    BY <2>3, <2>4
<1>5. QED
  BY <1>3, <1>4

-----------------------------------------------------------------------------
(* What an action leaves in place *)

LEMMA FrameKeeps ==
  ASSUME KVTypes, Accounting', Frame
  PROVE  /\ KVTypes'
         /\ \A r \in Requests : \A i \in DOMAIN tables'[r] :
              kv'[tables'[r][i]] = kv[tables'[r][i]]
         /\ \A n \in DOMAIN trie' : kv'[trie'[n].phys] = kv[trie'[n].phys]
<1>1. /\ kv' = [b \in Blocks |-> IF b \in free' THEN [o \in Offsets |-> Blank] ELSE kv[b]]
      /\ kv \in [Blocks -> [Offsets -> {Blank} \cup (Seq(Nat) \X Seq(Token))]]
  BY DEF Frame, KVTypes
<1>2. KVTypes'
  BY <1>1 DEF KVTypes
<1>3. \A b \in Blocks \ free' : kv'[b] = kv[b]
  BY <1>1
<1>4. ASSUME NEW r \in Requests, NEW i \in DOMAIN tables'[r]
      PROVE  tables'[r][i] \in Blocks \ free'
  <2>1. tables'[r] \in Seq(Blocks) /\ free' \cap TableBlocks(r)' = {}
    BY DEF Accounting, BMTypeOK, NoBlockClaimedTwice
  <2>2. tables'[r][i] \in TableBlocks(r)'
    BY DEF TableBlocks
  <2>3. i \in 1..Len(tables'[r])
    BY <2>1, LenProperties
  <2>4. tables'[r][i] \in Blocks
    BY <2>1, <2>3, ElementOfSeq
  <2>5. QED
    BY <2>1, <2>2, <2>4
<1>5. ASSUME NEW n \in DOMAIN trie' PROVE trie'[n].phys \in Blocks \ free'
  <2>1. trie' \in [DOMAIN trie' -> [phys : Blocks, ref : Nat]] /\ free' \cap TrieBlocks' = {}
    BY DEF Accounting, BMTypeOK, NoBlockClaimedTwice
  <2>2. trie'[n].phys \in TrieBlocks'
    BY DEF TrieBlocks
  <2>3. QED
    BY <2>1, <2>2
<1>6. QED
  BY <1>2, <1>3, <1>4, <1>5

LEMMA FilledKept ==
  ASSUME Accounting, NEW r \in Requests, NEW n \in Nat, n <= Capacity(r), Filled(r, n),
         \A i \in DOMAIN tables[r] : /\ tables'[r][i] = tables[r][i]
                                     /\ kv'[tables[r][i]] = kv[tables[r][i]],
         \A p \in 0..(n - 1) : Content(r, p, out'[r]) = Content(r, p, out[r])
  PROVE  Filled(r, n)'
<1>1. SUFFICES ASSUME NEW p \in 0..(n - 1) PROVE Slot(r, p)' = Content(r, p, out'[r])
  BY DEF Filled
<1>2. Slot(r, p) = Content(r, p, out'[r])
  BY <1>1 DEF Filled
<1>3. p \in Nat /\ p < Capacity(r)
  <2>1. Capacity(r) \in Nat
    <3>1. tables[r] \in Seq(Blocks) /\ Len(tables[r]) \in Nat /\ BlockSize \in Nat
      BY PromptAssumption, LenProperties DEF Accounting, BMTypeOK
    <3>2. QED
      BY <3>1, MulType DEF Capacity
  <2>2. \A c \in Nat : n <= c => p \in Nat /\ p < c
    BY <1>1
  <2>3. QED
    BY <2>1, <2>2
<1>4. PICK i \in DOMAIN tables[r] :
        i = (p \div BlockSize) + 1 /\ Block(r, p) = tables[r][i]
  BY <1>3, SlotPlace
<1>5. Block(r, p)' = Block(r, p)
  BY <1>4 DEF Block
<1>6. QED
  BY <1>2, <1>4, <1>5 DEF Slot

LEMMA CachedKept ==
  ASSUME CachedKVIsWhatItClaims,
         \A n \in DOMAIN trie' : /\ n \in DOMAIN trie /\ trie'[n].phys = trie[n].phys
                                 /\ kv'[trie'[n].phys] = kv[trie'[n].phys]
  PROVE  CachedKVIsWhatItClaims'
  BY DEF CachedKVIsWhatItClaims

(* The capacity of a running request is enough for what it has computed.    *)
LEMMA ActiveFacts ==
  ASSUME EngineInv, NEW r \in Requests
  PROVE  /\ computed[r] \in Nat /\ Capacity(r) \in Nat
         /\ r \in Active <=> tables[r] # <<>>
         /\ r \in Active => computed[r] <= Capacity(r) /\ computed[r] <= GetLen(r)
<1>1. EngineTypes /\ Accounting /\ HoldsFor(r)
  BY DEF EngineInv, RequestInv
<1>2. computed[r] \in Nat /\ Capacity(r) \in Nat /\ GetLen(r) \in Nat
  BY <1>1, LenFacts
<1>3. r \in Active => TableCovers(r)
  BY <1>1 DEF HoldsFor
<1>4. r \in Active => computed[r] <= Capacity(r) /\ computed[r] <= GetLen(r)
  BY <1>2, <1>3 DEF TableCovers
<1>5. QED
  BY <1>1, <1>2, <1>4 DEF HoldsFor

LEMMA EntryFacts ==
  ASSUME EngineInv, Scheduling, pc # "raised", NEW e \in ToSet(Batch)
  PROVE  /\ e.req \in Requests /\ e.req \in Active /\ e.req \in Entered
         /\ e.n \in Nat \ {0} /\ Start(e) \in Nat
         /\ Start(e) + e.n = computed[e.req] /\ computed[e.req] <= Capacity(e.req)
<1>1. OrderInv /\ EngineTypes /\ BatchInv
  BY DEF EngineInv, RequestInv
<1>2. e.req \in Entered
  BY DEF Entered
<1>3. e.req \in Active /\ e.req \in Requests
  BY <1>1, <1>2, Members
<1>4. e \in BatchEntry
  <2>1. Batch \in Seq(BatchEntry)
    BY <1>1, ConcatProperties DEF EngineTypes, Batch
  <2>2. QED
    BY <2>1, ToSetType
<1>5. e.n \in Nat \ {0} /\ e.n <= computed[e.req]
  BY <1>1, <1>4 DEF BatchEntry, BatchInv
<1>6. computed[e.req] \in Nat /\ computed[e.req] <= Capacity(e.req)
  BY <1>3, ActiveFacts
<1>7. Start(e) \in Nat /\ Start(e) + e.n = computed[e.req]
  BY <1>5, <1>6 DEF Start
<1>8. QED
  BY <1>2, <1>3, <1>5, <1>6, <1>7

LEMMA StartCovered ==
  ASSUME EngineInv, Scheduling, pc # "raised", NEW e \in ToSet(Batch)
  PROVE  Start(e) \in Nat /\ Start(e) <= Capacity(e.req)
<1>1. PICK q \in Requests : q = e.req
  BY EntryFacts
<1>2. /\ Start(e) \in Nat /\ e.n \in Nat /\ Start(e) + e.n = computed[q]
      /\ computed[q] <= Capacity(q)
  BY <1>1, EntryFacts
<1>3. \A s, m, c, k \in Nat : s + m = c /\ c <= k => s <= k
  OBVIOUS
<1>4. computed[q] \in Nat /\ Capacity(q) \in Nat
  BY ActiveFacts
<1>5. Start(e) <= Capacity(q)
  BY <1>2, <1>3, <1>4, Zenon
<1>6. QED
  BY <1>1, <1>2, <1>5

LEMMA ActiveAfter ==
  ASSUME EngineInv' PROVE Active' \subseteq Requests
<1>1. running' \in Seq(Requests) /\ kept' \in Seq(Requests) /\ pending' \in Seq(Requests)
  BY DEF EngineInv, OrderInv, QueueShapes
<1>2. \A s \in Seq(Requests) : ToSet(s) \subseteq Requests
  BY ToSetType
<1>3. QED
  BY <1>1, <1>2 DEF Active

(* A request that keeps its table, its tokens and what it has computed.     *)
Keeps(q) ==
  tables'[q] = tables[q] /\ computed'[q] = computed[q] /\ out'[q] = out[q]

LEMMA KeepsFilled ==
  ASSUME EngineInv, KVTypes, Accounting', Frame, NEW q \in Requests, Keeps(q),
         NEW n \in Nat, n <= Capacity(q), Filled(q, n)
  PROVE  Filled(q, n)'
<1>1. \A i \in DOMAIN tables[q] : /\ tables'[q][i] = tables[q][i]
                                  /\ kv'[tables[q][i]] = kv[tables[q][i]]
  BY FrameKeeps DEF Keeps
<1>2. \A p \in 0..(n - 1) : Content(q, p, out'[q]) = Content(q, p, out[q])
  BY DEF Keeps
<1>3. QED
  BY <1>1, <1>2, FilledKept DEF EngineInv

(* An action that schedules nothing, and takes tables away at most.         *)
LEMMA QuietKV ==
  ASSUME EngineInv, EngineInv', KVInv, Frame, pc # "raised",
         UNCHANGED <<scheduledNew, scheduledRunning>>,
         Scheduling' => (Scheduling \/ ToSet(Batch) = {}),
         Scheduling => Scheduling',
         \A q \in Requests : Keeps(q) \/ (tables'[q] = <<>> /\ q \notin Entered),
         \A n \in DOMAIN trie' : n \in DOMAIN trie /\ trie'[n].phys = trie[n].phys
  PROVE  KVInv'
<1>1. KVTypes /\ CachedKVIsWhatItClaims /\ FilledInv /\ Accounting'
  BY DEF KVInv, EngineInv
<1>2. KVTypes' /\ CachedKVIsWhatItClaims'
  BY <1>1, FrameKeeps, CachedKept
<1>3. Batch' = Batch
  BY DEF Batch
<1>4. ASSUME NEW q \in Requests, q \in Active', q \notin Entered' PROVE Filled(q, computed[q])'
  <2>1. tables'[q] # <<>>
    BY <1>4 DEF EngineInv, RequestInv, HoldsFor
  <2>2. Keeps(q)
    BY <2>1
  <2>3. q \in Active
    BY <2>1, <2>2, ActiveFacts DEF Keeps
  <2>4. q \notin Entered
    BY <1>3, <1>4 DEF Entered
  <2>5. PICK n \in Nat : n = computed[q] /\ n <= Capacity(q)
    BY <2>3, ActiveFacts
  <2>6. Filled(q, n)
    BY <1>1, <2>3, <2>4, <2>5 DEF FilledInv
  <2>7. Filled(q, n)'
    BY <1>1, <2>2, <2>5, <2>6, KeepsFilled
  <2>8. n = computed'[q]
    BY <2>2, <2>5 DEF Keeps
  <2>9. QED
    BY <2>7, <2>8
<1>5. ASSUME Scheduling', NEW e, e \in ToSet(Batch)' PROVE Filled(e.req, Start(e))'
  <2>1. e \in ToSet(Batch) /\ Scheduling
    BY <1>3, <1>5
  <2>2. PICK q \in Requests : q = e.req /\ q \in Active /\ q \in Entered
    BY <2>1, EntryFacts
  <2>3. Keeps(q)
    BY <2>2
  <2>4. PICK n \in Nat : n = Start(e) /\ n <= Capacity(q)
    BY <2>1, <2>2, StartCovered
  <2>5. Filled(q, n)
    BY <1>1, <2>1, <2>2, <2>4 DEF FilledInv
  <2>6. Filled(q, n)'
    BY <1>1, <2>3, <2>4, <2>5, KeepsFilled
  <2>7. n = Start(e)'
    BY <2>2, <2>3, <2>4 DEF Start, Keeps
  <2>8. QED
    BY <2>2, <2>6, <2>7
<1>6. Active' \subseteq Requests
  BY ActiveAfter
<1>7. FilledInv'
  BY <1>4, <1>5, <1>6 DEF FilledInv
<1>8. QED
  BY <1>2, <1>7 DEF KVInv

-----------------------------------------------------------------------------
(* The actions that schedule nothing *)

(* None of them changes a table, the tokens or the trie's blocks.           *)
LEMMA IdleKV ==
  ASSUME EngineInv, EngineInv', KVInv, Frame, pc # "raised",
         UNCHANGED <<tables, computed, out, trie, scheduledNew, scheduledRunning>>,
         Scheduling' => (Scheduling \/ ToSet(Batch) = {}),
         Scheduling => Scheduling'
  PROVE  KVInv'
<1>1. \A q \in Requests : Keeps(q)
  BY DEF Keeps
<1>2. QED
  BY <1>1, QuietKV

LEMMA ScheduleBeginKV ==
  ASSUME EngineInv, EngineInv', KVInv, ScheduleBegin, Frame PROVE KVInv'
<1>1. /\ pc = "idle" /\ pc' = "running"
      /\ UNCHANGED <<tables, computed, out, trie, scheduledNew, scheduledRunning>>
  BY DEF ScheduleBegin, bmVars, requestVars
<1>2. ToSet(Batch) = {}
  BY <1>1, BatchSet, EmptyIsSeq DEF EngineInv, OrderInv, EntriesRun
<1>3. ~Scheduling
  BY <1>1 DEF Scheduling
<1>4. QED
  BY <1>1, <1>2, <1>3, IdleKV

LEMMA LoopKV ==
  ASSUME EngineInv, EngineInv', KVInv, SkipRunning \/ RunningDone \/ WaitingDone, Frame
  PROVE  KVInv'
<1>1. /\ pc \in {"running", "waiting"} /\ pc' \in {"running", "waiting", "execute"}
      /\ UNCHANGED <<tables, computed, out, trie, scheduledNew, scheduledRunning>>
  BY DEF SkipRunning, RunningDone, WaitingDone, bmVars, requestVars
<1>2. Scheduling /\ Scheduling'
  BY <1>1 DEF Scheduling
<1>3. QED
  BY <1>1, <1>2, IdleKV

LEMMA AllocateRaisesKV ==
  ASSUME EngineInv, EngineInv', KVInv, AllocateRaises, Frame PROVE KVInv'
<1>1. /\ pc = "allocate" /\ pc' = "raised"
      /\ UNCHANGED <<tables, computed, out, trie, scheduledNew, scheduledRunning>>
  BY DEF AllocateRaises, AllocateFail, requestVars
<1>2. Scheduling /\ Scheduling'
  BY <1>1 DEF Scheduling
<1>3. QED
  BY <1>1, <1>2, IdleKV

(* allocate() takes holds on the matched nodes and evicts others.           *)
LEMMA AllocateKV ==
  ASSUME EngineInv, EngineInv', KVInv, AdmitWaiting \/ AllocateEvicts, Frame
  PROVE  KVInv'
<1>1. /\ pc \in {"waiting", "allocate"} /\ pc' = "allocate"
      /\ UNCHANGED <<tables, computed, out, scheduledNew, scheduledRunning>>
  BY DEF AdmitWaiting, AllocateBegin, AllocateEvicts, DrainEviction, requestVars, stepVars
<1>2. Scheduling /\ Scheduling'
  BY <1>1 DEF Scheduling
<1>3. trie \in [DOMAIN trie -> [phys : Blocks, ref : Nat]]
  BY DEF EngineInv, Accounting, BMTypeOK
<1>4. \A n \in DOMAIN trie' : n \in DOMAIN trie /\ trie'[n].phys = trie[n].phys
  <2>1. CASE AdmitWaiting
    <3>1. PICK r, k : Acquire(r, k)
      BY <2>1 DEF AdmitWaiting, AllocateBegin
    <3>2. QED
      BY <1>3, <3>1 DEF Acquire
  <2>2. CASE AllocateEvicts
    BY <2>2 DEF AllocateEvicts, DrainEviction, EvictOneLRU
  <2>3. QED
    BY <2>1, <2>2
<1>5. \A q \in Requests : Keeps(q)
  BY <1>1 DEF Keeps
<1>6. QED
  BY <1>1, <1>2, <1>4, <1>5, QuietKV

LEMMA AddRequestKV ==
  ASSUME EngineInv, EngineInv', KVInv, NEW r \in Requests, AddRequest(r), Frame
  PROVE  KVInv'
<1>1. /\ pc = "idle" /\ pc' = "idle" /\ status[r] \in {"NEW"} \cup FINISHED
      /\ out' = [out EXCEPT ![r] = <<>>] /\ computed' = [computed EXCEPT ![r] = 0]
      /\ UNCHANGED <<tables, trie, scheduledNew, scheduledRunning>>
  BY DEF AddRequest, bmVars, stepVars
<1>2. r \notin Active
  BY <1>1, Members DEF EngineInv, OrderInv, QueuesAreLive, Live, FINISHED
<1>3. tables[r] = <<>> /\ r \notin Entered
  BY <1>1, <1>2, ActiveFacts DEF Entered, Scheduling
<1>4. ~Scheduling /\ ~Scheduling'
  BY <1>1 DEF Scheduling
<1>5. \A q \in Requests : Keeps(q) \/ (tables'[q] = <<>> /\ q \notin Entered)
  BY <1>1, <1>3 DEF Keeps, EngineInv, RequestInv, EngineTypes
<1>6. QED
  BY <1>1, <1>4, <1>5, QuietKV

(* free() takes one table away.                                             *)
LEMMA FreeKV ==
  ASSUME EngineInv, EngineInv', KVInv, Frame, NEW r \in Requests, Free(r), r \notin Entered,
         pc # "raised", Scheduling <=> Scheduling',
         UNCHANGED <<out, scheduledNew, scheduledRunning>>,
         \A q \in Requests \ {r} : computed'[q] = computed[q]
  PROVE  KVInv'
<1>1. /\ tables \in [Requests -> Seq(Blocks)]
      /\ trie \in [DOMAIN trie -> [phys : Blocks, ref : Nat]]
  BY DEF EngineInv, Accounting, BMTypeOK
<1>2. tables'[r] = <<>> /\ \A q \in Requests \ {r} : tables'[q] = tables[q]
  BY <1>1 DEF Free
<1>3. \A n \in DOMAIN trie' : n \in DOMAIN trie /\ trie'[n].phys = trie[n].phys
  <2>1. trie' = trie \/ \E k : Release(r, k)
    BY DEF Free
  <2>2. QED
    BY <1>1, <2>1 DEF Release
<1>4. \A q \in Requests : Keeps(q) \/ (tables'[q] = <<>> /\ q \notin Entered)
  BY <1>2 DEF Keeps
<1>5. QED
  BY <1>3, <1>4, QuietKV

LEMMA AbortRequestKV ==
  ASSUME EngineInv, EngineInv', KVInv, NEW r \in Requests, AbortRequest(r), Frame
  PROVE  KVInv'
<1>1. /\ pc = "idle" /\ pc' = "idle"
      /\ UNCHANGED <<computed, out, scheduledNew, scheduledRunning>>
      /\ UNCHANGED <<tables, trie>> \/ Free(r)
  BY DEF AbortRequest, bmVars, stepVars
<1>2. ~Scheduling /\ ~Scheduling' /\ r \notin Entered
  BY <1>1 DEF Scheduling, Entered
<1>3. QED
  BY <1>1, <1>2, IdleKV, FreeKV

LEMMA FreeFinishedKV ==
  ASSUME EngineInv, EngineInv', KVInv, FreeFinished, Frame PROVE KVInv'
<1>1. PICK r \in Requests :
        /\ pc = "sweep" /\ pc' = "sweep" /\ Free(r)
        /\ UNCHANGED <<computed, out, scheduledNew, scheduledRunning>>
  BY DEF FreeFinished, requestVars, stepVars
<1>2. ~Scheduling /\ ~Scheduling' /\ r \notin Entered
  BY <1>1 DEF Scheduling, Entered
<1>3. QED
  BY <1>1, <1>2, FreeKV

LEMMA PreemptForRunningKV ==
  ASSUME EngineInv, EngineInv', KVInv, PreemptForRunning, Frame PROVE KVInv'
<1>1. pending \in Seq(Requests) /\ pending # <<>>
  BY DEF PreemptForRunning, Deciding, EngineInv, OrderInv, QueueShapes
<1>2. PICK v \in Requests : v = Last(pending) /\ v \in ToSet(pending)
  <2>1. PICK s \in Seq(Requests) : s = pending /\ s # <<>>
    BY <1>1
  <2>2. Last(s) \in Requests /\ ToSet(s) = ToSet(Front(s)) \cup {Last(s)}
    BY <2>1, FrontLast, Zenon
  <2>3. QED
    BY <2>1, <2>2
<1>3. /\ pc = "running" /\ pc' = "running" /\ Free(v)
      /\ computed' = [computed EXCEPT ![v] = 0]
      /\ UNCHANGED <<out, scheduledNew, scheduledRunning>>
  BY <1>2 DEF PreemptForRunning, Deciding, Victim, ResetComputed
<1>4. v \notin Entered
  BY <1>2, <1>3, Members DEF EngineInv
<1>5. Scheduling /\ Scheduling'
  BY <1>3 DEF Scheduling
<1>6. \A q \in Requests \ {v} : computed'[q] = computed[q]
  BY <1>3 DEF EngineInv, RequestInv, EngineTypes
<1>7. QED
  BY <1>3, <1>4, <1>5, <1>6, FreeKV

-----------------------------------------------------------------------------
(* The actions that schedule a request *)

LEMMA EnterKV ==
  ASSUME EngineInv, EngineInv', KVInv, Frame, pc # "raised",
         NEW r, NEW s, NEW e, Enters(r, s, e), Filled(r, s)',
         \A n \in DOMAIN trie' : n \in DOMAIN trie /\ trie'[n].phys = trie[n].phys
  PROVE  KVInv'
<1>1. KVTypes /\ CachedKVIsWhatItClaims /\ FilledInv /\ Accounting'
  BY DEF KVInv, EngineInv
<1>2. KVTypes' /\ CachedKVIsWhatItClaims'
  BY <1>1, FrameKeeps, CachedKept
<1>3. /\ Scheduling /\ r \in Requests /\ r \notin Entered /\ Entered' = Entered \cup {r}
      /\ e.req = r /\ e.n \in Nat /\ ToSet(Batch') = ToSet(Batch) \cup {e}
      /\ s \in Nat /\ computed'[r] = s + e.n
      /\ \A q \in Requests \ {r} : Keeps(q)
  BY DEF Enters, BatchEntry, Keeps
<1>4. ASSUME NEW q \in Requests, q \in Active', q \notin Entered' PROVE Filled(q, computed[q])'
  <2>1. tables'[q] # <<>> /\ Keeps(q) /\ q \notin Entered
    BY <1>3, <1>4 DEF EngineInv, RequestInv, HoldsFor
  <2>2. q \in Active
    BY <2>1, ActiveFacts DEF Keeps
  <2>3. PICK n \in Nat : n = computed[q] /\ n <= Capacity(q)
    BY <2>2, ActiveFacts
  <2>4. Filled(q, n)
    BY <1>1, <2>1, <2>2, <2>3 DEF FilledInv
  <2>5. Filled(q, n)'
    BY <1>1, <2>1, <2>3, <2>4, KeepsFilled
  <2>6. n = computed'[q]
    BY <2>1, <2>3 DEF Keeps
  <2>7. QED
    BY <2>5, <2>6
<1>5. ASSUME NEW f \in ToSet(Batch) PROVE Filled(f.req, Start(f))'
  <2>1. PICK q \in Requests : q = f.req /\ q \in Active /\ q \in Entered
    BY <1>3, EntryFacts
  <2>2. Keeps(q)
    BY <1>3, <2>1
  <2>3. PICK n \in Nat : n = Start(f) /\ n <= Capacity(q)
    BY <1>3, <2>1, StartCovered
  <2>4. Filled(q, n)
    BY <1>1, <1>3, <2>1, <2>3 DEF FilledInv
  <2>5. Filled(q, n)'
    BY <1>1, <2>2, <2>3, <2>4, KeepsFilled
  <2>6. n = Start(f)'
    BY <2>1, <2>2, <2>3 DEF Start, Keeps
  <2>7. QED
    BY <2>1, <2>5, <2>6
<1>6. Filled(e.req, Start(e))'
  <2>1. Start(e)' = s
    <3>1. PICK m \in Nat : m = e.n /\ computed'[r] = s + m
      BY <1>3
    <3>2. s + m - m = s
      BY <1>3
    <3>3. QED
      BY <1>3, <3>1, <3>2 DEF Start
  <2>2. QED
    BY <1>3, <2>1
<1>7. Active' \subseteq Requests
  BY ActiveAfter
<1>8. FilledInv'
  BY <1>3, <1>4, <1>5, <1>6, <1>7 DEF FilledInv
<1>9. QED
  BY <1>2, <1>8 DEF KVInv

(* append_slot() adds at most one block, at the end of the table.           *)
LEMMA ScheduleRunningKV ==
  ASSUME NoSpeculation, EngineInv, EngineInv', KVInv, ScheduleRunning, Frame PROVE KVInv'
<1>1. PICK r, e : Enters(r, computed[r], e) /\ r \in Active /\ AppendSlot(r, GetLen(r))
  BY ScheduleRunningHolds
<1>2. /\ pc = "running" /\ r \in Requests /\ r \notin Entered /\ out' = out /\ trie' = trie
      /\ Accounting /\ Accounting' /\ KVTypes
  BY <1>1 DEF ScheduleRunning, Deciding, Enters, AppendSlot, EngineInv, KVInv
<1>3. PICK s \in Nat : s = computed[r] /\ s <= Capacity(r)
  BY <1>1, <1>2, ActiveFacts
<1>4. \A i \in DOMAIN tables[r] : i \in DOMAIN tables'[r] /\ tables'[r][i] = tables[r][i]
  <2>1. tables \in [Requests -> Seq(Blocks)] /\ tables[r] \in Seq(Blocks)
    BY <1>2 DEF Accounting, BMTypeOK
  <2>2. \/ tables' = tables
        \/ \E b \in Blocks : tables' = [tables EXCEPT ![r] = Append(@, b)]
    BY <1>1, <1>2 DEF AppendSlot, Grow, Accounting, BMTypeOK
  <2>3. \A b \in Blocks : \A i \in DOMAIN tables[r] :
          /\ i \in DOMAIN Append(tables[r], b)
          /\ Append(tables[r], b)[i] = tables[r][i]
    BY <2>1, AppendProperties, LenProperties
  <2>4. QED
    BY <1>2, <2>1, <2>2, <2>3
<1>5. Filled(r, s)
  BY <1>1, <1>2, <1>3 DEF KVInv, FilledInv
<1>6. \A i \in DOMAIN tables[r] : /\ tables'[r][i] = tables[r][i]
                                  /\ kv'[tables[r][i]] = kv[tables[r][i]]
  BY <1>2, <1>4, FrameKeeps
<1>7. \A p \in 0..(s - 1) : Content(r, p, out'[r]) = Content(r, p, out[r])
  BY <1>2
<1>8. Filled(r, s)'
  BY <1>2, <1>3, <1>5, <1>6, <1>7, FilledKept
<1>9. Enters(r, s, e) /\ \A n \in DOMAIN trie' : n \in DOMAIN trie /\ trie'[n].phys = trie[n].phys
  BY <1>1, <1>2, <1>3
<1>10. QED
  BY <1>2, <1>8, <1>9, EnterKV

(* allocate() puts the matched nodes' blocks first, and the chunk starts    *)
(* within what they hold.                                                   *)
LEMMA AdmitDoneKV ==
  ASSUME NoSpeculation, EngineInv, EngineInv', KVInv, AdmitDone, Frame PROVE KVInv'
<1>1. PICK r, e, s : Enters(r, s, e) /\ AllocateFinish(r) /\ s <= ncached[r] * BlockSize
  BY AdmitDoneHolds
<1>2. /\ pc = "allocate" /\ r \in Requests /\ out' = out /\ trie' = trie /\ s \in Nat
      /\ Accounting /\ Accounting' /\ KVTypes /\ CachedKVIsWhatItClaims
      /\ CachedKVIsWhatItClaims'
  <2>1. /\ pc = "allocate" /\ r \in Requests /\ out' = out /\ trie' = trie /\ s \in Nat
        /\ Accounting /\ Accounting' /\ KVTypes /\ CachedKVIsWhatItClaims
    BY <1>1 DEF AdmitDone, Enters, AllocateFinish, EngineInv, KVInv
  <2>2. QED
    BY <2>1, FrameKeeps, CachedKept
<1>3. /\ BlockSize \in Nat \ {0}
      /\ ncached[r] \in Nat /\ ncached[r] <= FullBlocks(r) /\ FullBlocks(r) \in Nat
      /\ need \in Nat /\ DOMAIN tables = Requests
      /\ Chain(r, ncached[r]) \subseteq DOMAIN trie
  BY <1>2, PromptAssumption, FullBlocksType DEF Accounting, BMTypeOK, RefCountsExact
<1>4. \A i \in 1..ncached[r] : tables'[r][i] = trie[Node(r, i)].phys
  <2>1. PICK fresh \in [1..need -> free] :
          tables' = [tables EXCEPT ![r] =
                       [i \in 1..(ncached[r] + need) |->
                          IF i <= ncached[r] THEN trie[Node(r, i)].phys
                                             ELSE fresh[i - ncached[r]]]]
    BY <1>1 DEF AllocateFinish
  <2>2. \A i \in 1..ncached[r] : i \in 1..(ncached[r] + need) /\ i <= ncached[r]
    BY <1>3
  <2>3. QED
    BY <1>2, <1>3, <2>1, <2>2
<1>5. ASSUME NEW p \in 0..(s - 1) PROVE Slot(r, p)' = Content(r, p, out'[r])
  <2>1. p \in Nat /\ p < ncached[r] * BlockSize
    <3>1. \A h \in Nat : s <= h => p < h
      BY <1>2
    <3>2. ncached[r] * BlockSize \in Nat
      BY <1>3, MulType
    <3>3. QED
      BY <1>1, <1>2, <3>1, <3>2
  <2>2. PICK i \in Nat, o \in Offsets :
          i = p \div BlockSize /\ o = p % BlockSize /\ p = i * BlockSize + o /\ i < ncached[r]
    BY <1>3, <2>1, Position, PositionBelow DEF Offsets
  <2>3. i + 1 \in 1..ncached[r] /\ i + 1 <= FullBlocks(r)
    BY <1>3, <2>2
  <2>4. Node(r, i + 1) \in DOMAIN trie
    BY <1>3, <2>3 DEF Chain
  <2>5. \A u : Content(r, p, u) = Claim(Node(r, i + 1), o)
    BY <1>2, <2>2, <2>3, NodeContent
  <2>6. kv'[trie[Node(r, i + 1)].phys][o] = Claim(Node(r, i + 1), o)
    BY <1>2, <2>4 DEF CachedKVIsWhatItClaims, Claim
  <2>7. Slot(r, p)' = kv'[trie[Node(r, i + 1)].phys][o]
    BY <1>4, <2>2, <2>3 DEF Slot, Block
  <2>8. QED
    BY <2>5, <2>6, <2>7
<1>6. Filled(r, s)'
  BY <1>5 DEF Filled
<1>7. Enters(r, s, e) /\ \A n \in DOMAIN trie' : n \in DOMAIN trie /\ trie'[n].phys = trie[n].phys
  BY <1>1, <1>2
<1>8. QED
  BY <1>2, <1>6, <1>7, EnterKV

-----------------------------------------------------------------------------
(* The forward pass *)

(* The content of a slot does not depend on the tokens after its position.  *)
LEMMA ContentExtended ==
  ASSUME NEW r \in Requests, NEW u \in Seq(Token), NEW t \in Seq(Token), NEW p \in Nat,
         p < Len(Prompt[r]) + Len(u)
  PROVE  Content(r, p, u \o t) = Content(r, p, u)
<1>1. PICK n \in Nat, m \in Nat : n = Len(Prompt[r]) /\ m = Len(u) /\ p < n + m
  <2>1. Prompt[r] \in Seq(Nat)
    BY PromptAssumption
  <2>2. Len(Prompt[r]) \in Nat /\ Len(u) \in Nat
    BY <2>1, LenProperties
  <2>3. QED
    BY <2>2
<1>2. CASE p < n
  <2>1. SubSeq(u \o t, 1, 0) = <<>> /\ SubSeq(u, 1, 0) = <<>>
    BY SubSeqEmpty
  <2>2. QED
    BY <1>1, <1>2, <2>1 DEF Content
<1>3. CASE ~(p < n)
  <2>0. p + 1 - n \in 1..m
    <3>1. \A i, j, k \in Nat : i < j + k /\ ~(i < j) => i + 1 - j \in 1..k
      OBVIOUS
    <3>2. QED
      BY <1>1, <1>3, <3>1
  <2>1. PICK k \in 1..m : k = p + 1 - n
    BY <2>0
  <2>2. SubSeq(u \o t, 1, k) = SubSeq(u, 1, k)
    <3>1. 1 \in 1..Len(u) /\ k \in 1..Len(u)
      BY <1>1, <2>1
    <3>2. QED
      BY <3>1, SubSeqOfConcat1
  <2>3. QED
    BY <1>1, <1>3, <2>1, <2>2 DEF Content
<1>4. QED
  BY <1>2, <1>3

LEMMA ContentType ==
  ASSUME NEW r \in Requests, NEW u \in Seq(Token), NEW p \in Nat,
         p < Len(Prompt[r]) + Len(u)
  PROVE  Content(r, p, u) \in Seq(Nat) \X Seq(Token)
<1>1. PICK s \in Seq(Nat), n \in Nat, m \in Nat :
        s = Prompt[r] /\ n = Len(s) /\ m = Len(u) /\ p < n + m
  <2>1. Prompt[r] \in Seq(Nat)
    BY PromptAssumption
  <2>2. Len(Prompt[r]) \in Nat /\ Len(u) \in Nat
    BY <2>1, LenProperties
  <2>3. QED
    BY <2>1, <2>2
<1>2. ASSUME NEW S, NEW v \in Seq(S), NEW k \in Nat, k <= Len(v) PROVE SubSeq(v, 1, k) \in Seq(S)
  <2>1. Len(v) \in Nat /\ \A i \in 1..Len(v) : v[i] \in S
    BY LenProperties, ElementOfSeq
  <2>2. \A i \in 1..k : v[i] \in S
    BY <1>2, <2>1
  <2>3. QED
    BY <2>2, SubSeqProperties
<1>3. PICK k \in Nat : k = Least(p + 1, n) /\ k <= n
  <2>1. Least(p + 1, n) \in Nat /\ Least(p + 1, n) <= n
    BY <1>1 DEF Least
  <2>2. QED
    BY <2>1
<1>4. PICK j \in Nat : j = (IF p < n THEN 0 ELSE p + 1 - n) /\ j <= m
  <2>1. CASE p < n
    BY <1>1, <2>1
  <2>2. CASE ~(p < n)
    <3>1. p + 1 - n \in Nat /\ p + 1 - n <= m
      BY <1>1, <2>2
    <3>2. QED
      BY <2>2, <3>1
  <2>3. QED
    BY <2>1, <2>2
<1>5. SubSeq(s, 1, k) \in Seq(Nat) /\ SubSeq(u, 1, j) \in Seq(Token)
  BY <1>1, <1>2, <1>3, <1>4
<1>6. Content(r, p, u) = << SubSeq(s, 1, k), SubSeq(u, 1, j) >>
  BY <1>1, <1>3, <1>4 DEF Content
<1>7. \A x \in Seq(Nat), y \in Seq(Token) : <<x, y>> \in Seq(Nat) \X Seq(Token)
  OBVIOUS
<1>8. QED
  BY <1>5, <1>6, <1>7, Zenon

(* Without drafts every row is computed from its request's own tokens.      *)
LEMMA WrittenRows ==
  ASSUME NoSpeculation, EngineInv, pc = "execute", NEW newOut
  PROVE  /\ \A w \in Written(newOut) : \E r \in Active, x \in Nat :
              /\ x < computed[r]
              /\ w[1] = Block(r, x) /\ w[2] = x % BlockSize
              /\ w[3] = Content(r, x, newOut[r])
         /\ \A e \in ToSet(Batch) : \A p \in Start(e)..(computed[e.req] - 1) :
              \E w \in Written(newOut) : w[1] = Block(e.req, p) /\ w[2] = p % BlockSize
<1>1. Scheduling /\ pc # "raised" /\ draft = [r \in Requests |-> 0]
  BY DEF Scheduling, EngineInv, RequestInv, EngineTypes
<1>2. ASSUME NEW w \in Written(newOut)
      PROVE  \E r \in Active, x \in Nat :
              /\ x < computed[r]
              /\ w[1] = Block(r, x) /\ w[2] = x % BlockSize
              /\ w[3] = Content(r, x, newOut[r])
  <2>1. PICK e \in ToSet(Batch) : \E p \in Start(e)..(computed[e.req] - 1) :
          w = <<Block(e.req, p), p % BlockSize, RowContent(e, p, newOut[e.req])>>
    BY DEF Written
  <2>2. PICK r \in Requests : r = e.req /\ r \in Active
    BY <1>1, EntryFacts
  <2>3. Start(e) \in Nat /\ computed[r] \in Nat
    BY <1>1, <2>2, EntryFacts, ActiveFacts
  <2>4. PICK x \in Start(e)..(computed[r] - 1) :
          w = <<Block(r, x), x % BlockSize, RowContent(e, x, newOut[r])>>
    BY <2>1, <2>2
  <2>5. x \in Nat /\ x < computed[r]
    BY <2>3, <2>4
  <2>6. RowContent(e, x, newOut[r]) = Content(r, x, newOut[r])
    <3>1. ~(draft[r] > 0)
      BY <1>1
    <3>2. QED
      BY <2>2, <3>1, Zenon DEF RowContent
  <2>7. QED
    BY <2>2, <2>4, <2>5, <2>6
<1>3. ASSUME NEW e \in ToSet(Batch), NEW p \in Start(e)..(computed[e.req] - 1)
      PROVE  \E w \in Written(newOut) : w[1] = Block(e.req, p) /\ w[2] = p % BlockSize
  <2>1. <<Block(e.req, p), p % BlockSize, RowContent(e, p, newOut[e.req])>> \in Written(newOut)
    BY DEF Written
  <2>2. QED
    BY <2>1
<1>4. QED
  BY <1>2, <1>3

(* After the pass a slot holds what some row wrote, or what it held.        *)
LEMMA SlotsAfterPass ==
  ASSUME ExecuteModel, NEW b \in Blocks, NEW o \in Offsets
  PROVE  \/ \E w \in Written(out') : w[1] = b /\ w[2] = o /\ kv'[b][o] = w[3]
         \/ /\ ~ \E w \in Written(out') : w[1] = b /\ w[2] = o
            /\ kv'[b][o] = kv[b][o]
<1>1. PICK W : W = Written(out')
  OBVIOUS
<1>2. kv'[b][o] = IF \E w \in W : w[1] = b /\ w[2] = o
                  THEN (CHOOSE w \in W : w[1] = b /\ w[2] = o)[3]
                  ELSE kv[b][o]
  BY <1>1 DEF ExecuteModel
<1>3. CASE \E w \in W : w[1] = b /\ w[2] = o
  <2>1. PICK v : v = CHOOSE w \in W : w[1] = b /\ w[2] = o
    OBVIOUS
  <2>2. v \in W /\ v[1] = b /\ v[2] = o
    BY <1>3, <2>1
  <2>3. kv'[b][o] = v[3]
    BY <1>2, <1>3, <2>1
  <2>4. QED
    BY <1>1, <2>2, <2>3
<1>4. CASE ~ \E w \in W : w[1] = b /\ w[2] = o
  BY <1>1, <1>2, <1>4
<1>5. QED
  BY <1>3, <1>4

LEMMA ExecuteModelKV ==
  ASSUME NoSpeculation, EngineInv, EngineInv', KVInv, ExecuteModel PROVE KVInv'
<1>1. /\ pc = "execute" /\ pc' = "register" /\ Scheduling /\ ~Scheduling' /\ Active' = Active
      /\ UNCHANGED <<tables, trie, computed>>
  BY DEF ExecuteModel, Scheduling, Active, bmVars, queueVars
<1>2. /\ EngineTypes /\ Accounting /\ OrderInv /\ BlockSize \in Nat \ {0}
      /\ KVTypes /\ CachedKVIsWhatItClaims /\ FilledInv
      /\ Active \subseteq Requests
  BY PromptAssumption, Members DEF EngineInv, RequestInv, KVInv
<1>3. PICK W : W = Written(out')
  OBVIOUS
<1>4. /\ \A w \in W : \E r \in Active, x \in Nat :
           /\ x < computed[r]
           /\ w[1] = Block(r, x) /\ w[2] = x % BlockSize
           /\ w[3] = Content(r, x, out'[r])
      /\ \A e \in ToSet(Batch) : \A p \in Start(e)..(computed[e.req] - 1) :
           \E w \in W : w[1] = Block(e.req, p) /\ w[2] = p % BlockSize
  BY <1>1, <1>3, WrittenRows
<1>5. \A b \in Blocks, o \in Offsets :
        \/ \E w \in W : w[1] = b /\ w[2] = o /\ kv'[b][o] = w[3]
        \/ /\ ~ \E w \in W : w[1] = b /\ w[2] = o
           /\ kv'[b][o] = kv[b][o]
  BY <1>3, SlotsAfterPass
<1>6. ASSUME NEW r \in Active
      PROVE  /\ computed[r] \in Nat /\ Capacity(r) \in Nat
             /\ \A p \in Nat : p < computed[r] =>
                  /\ p < Capacity(r)
                  /\ Content(r, p, out'[r]) = Content(r, p, out[r])
                  /\ Content(r, p, out'[r]) \in Seq(Nat) \X Seq(Token)
  <2>1. /\ computed[r] \in Nat /\ Capacity(r) \in Nat /\ r \in Requests
        /\ computed[r] <= Capacity(r) /\ computed[r] <= GetLen(r)
    BY <1>2, ActiveFacts
  <2>2. /\ out[r] \in Seq(Token) /\ Len(Prompt[r]) \in Nat /\ Len(out[r]) \in Nat
        /\ GetLen(r) = Len(Prompt[r]) + Len(out[r])
    BY <1>2, <2>1, LenFacts DEF EngineTypes
  <2>3. PICK t \in Seq(Token) : out'[r] = out[r] \o t
    <3>1. CASE r \in Sampling
      <4>1. PICK t \in Token : out'[r] = out[r] \o <<t>>
        BY <2>1, <3>1, PassSamples
      <4>2. <<t>> \in Seq(Token)
        OBVIOUS
      <4>3. QED
        BY <4>1, <4>2
    <3>2. CASE r \notin Sampling
      <4>1. out'[r] = out[r] /\ out[r] \o <<>> = out[r] /\ <<>> \in Seq(Token)
        BY <2>1, <2>2, <3>2, PassSamples, ConcatEmptySeq
      <4>2. QED
        BY <4>1
    <3>3. QED
      BY <3>1, <3>2
  <2>4. ASSUME NEW p \in Nat, p < computed[r]
        PROVE  /\ p < Capacity(r)
               /\ Content(r, p, out'[r]) = Content(r, p, out[r])
               /\ Content(r, p, out'[r]) \in Seq(Nat) \X Seq(Token)
    <3>1. p < Capacity(r) /\ p < Len(Prompt[r]) + Len(out[r])
      <4>1. \A c, k, g \in Nat : p < c /\ c <= k /\ c <= g => p < k /\ p < g
        OBVIOUS
      <4>2. PICK g \in Nat : g = GetLen(r) /\ g = Len(Prompt[r]) + Len(out[r])
        <5>1. \A i, j \in Nat : i + j \in Nat
          OBVIOUS
        <5>2. QED
          BY <2>2, <5>1
      <4>3. p < Capacity(r) /\ p < g
        BY <2>1, <2>4, <4>1, <4>2
      <4>4. QED
        BY <4>2, <4>3
    <3>2. Content(r, p, out'[r]) = Content(r, p, out[r])
      <4>1. PICK u \in Seq(Token) : u = out[r] /\ out'[r] = u \o t
        BY <2>2, <2>3
      <4>2. p < Len(Prompt[r]) + Len(u)
        BY <3>1, <4>1
      <4>3. Content(r, p, u \o t) = Content(r, p, u)
        BY <2>1, <4>2, ContentExtended
      <4>4. QED
        BY <4>1, <4>3
    <3>3. Content(r, p, out[r]) \in Seq(Nat) \X Seq(Token)
      BY <2>1, <2>2, <3>1, ContentType
    <3>4. QED
      BY <3>1, <3>2, <3>3
  <2>5. QED
    BY <2>1, <2>4
<1>7. KVTypes'
  <2>1. ASSUME NEW b \in Blocks, NEW o \in Offsets
        PROVE  kv'[b][o] \in {Blank} \cup (Seq(Nat) \X Seq(Token))
    <3>1. CASE \E w \in W : w[1] = b /\ w[2] = o /\ kv'[b][o] = w[3]
      BY <1>4, <1>6, <3>1
    <3>2. CASE kv'[b][o] = kv[b][o]
      BY <1>2, <3>2 DEF KVTypes
    <3>3. QED
      BY <1>5, <3>1, <3>2
  <2> DEFINE slot(b, o) == IF \E w \in Written(out') : w[1] = b /\ w[2] = o
                          THEN (CHOOSE w \in Written(out') : w[1] = b /\ w[2] = o)[3]
                          ELSE kv[b][o]
  <2>2. kv' = [b \in Blocks |-> [o \in Offsets |-> slot(b, o)]]
    BY DEF ExecuteModel
  <2> HIDE DEF slot
  <2>3. QED
    BY <2>1, <2>2 DEF KVTypes
<1>8. CachedKVIsWhatItClaims'
  <2>1. ASSUME NEW n \in DOMAIN trie, NEW o \in Offsets
        PROVE  kv'[trie[n].phys][o] = Claim(n, o)
    <3>1. PICK b \in Blocks : b = trie[n].phys
      BY <1>2 DEF Accounting, BMTypeOK
    <3>2. CASE \E w \in W : w[1] = b /\ w[2] = o /\ kv'[b][o] = w[3]
      <4>1. PICK r \in Active, x \in Nat :
              /\ x < computed[r] /\ b = Block(r, x) /\ o = x % BlockSize
              /\ kv'[b][o] = Content(r, x, out'[r])
        BY <1>4, <3>2
      <4>2. x < Capacity(r) /\ r \in Requests
        BY <1>2, <1>6, <4>1
      <4>3. \A u : Content(r, x, u) = Claim(n, x % BlockSize)
        BY <1>2, <3>1, <4>1, <4>2, SharedSlot
      <4>4. QED
        BY <3>1, <4>1, <4>3
    <3>3. CASE kv'[b][o] = kv[b][o]
      BY <1>2, <3>1, <3>3 DEF CachedKVIsWhatItClaims, Claim
    <3>4. QED
      BY <1>5, <3>1, <3>2, <3>3
  <2>2. QED
    BY <1>1, <2>1 DEF CachedKVIsWhatItClaims, Claim
<1>9. ASSUME NEW q \in Active, NEW p \in 0..(computed[q] - 1)
      PROVE  kv'[Block(q, p)][p % BlockSize] = Content(q, p, out'[q])
  <2>1. p \in Nat /\ p < computed[q] /\ p < Capacity(q) /\ q \in Requests
    <3>1. computed[q] \in Nat
      BY <1>6
    <3>2. p \in Nat /\ p < computed[q]
      BY <1>9, <3>1
    <3>3. QED
      BY <1>2, <1>6, <3>2
  <2>2. PICK b \in Blocks, o \in Offsets : b = Block(q, p) /\ o = p % BlockSize
    BY <1>2, <2>1, SlotPlace
  <2>3. CASE \E w \in W : w[1] = b /\ w[2] = o /\ kv'[b][o] = w[3]
    <3>1. PICK r \in Active, x \in Nat :
            /\ x < computed[r] /\ b = Block(r, x) /\ o = x % BlockSize
            /\ kv'[b][o] = Content(r, x, out'[r])
      BY <1>4, <2>3
    <3>2. x < Capacity(r) /\ r \in Requests
      BY <1>2, <1>6, <3>1
    <3>3. Block(q, p) = Block(r, x) /\ p % BlockSize = x % BlockSize
      BY <2>2, <3>1
    <3>4. /\ q = r => p = x
          /\ q # r => \A u, v : Content(q, p, u) = Content(r, x, v)
      BY <1>2, <2>1, <3>2, <3>3, SameSlot
    <3>5. Content(q, p, out'[q]) = Content(r, x, out'[r])
      BY <3>4
    <3>6. QED
      BY <2>2, <3>1, <3>5
  <2>4. CASE /\ ~ \E w \in W : w[1] = b /\ w[2] = o
             /\ kv'[b][o] = kv[b][o]
    <3>1. Slot(q, p) = Content(q, p, out[q])
      <4>1. CASE q \notin Entered
        BY <1>2, <1>9, <4>1 DEF FilledInv, Filled
      <4>2. CASE q \in Entered
        <5>1. PICK e \in ToSet(Batch) : e.req = q
          BY <1>1, <4>2 DEF Entered
        <5>2. Start(e) \in Nat
          BY <1>1, EntryFacts
        <5>3. p \notin Start(e)..(computed[q] - 1)
          BY <1>4, <2>2, <2>4, <5>1
        <5>4. p \in 0..(Start(e) - 1)
          <6>1. \A s, c \in Nat : p < c /\ p \notin s..(c - 1) => p \in 0..(s - 1)
            BY <2>1
          <6>2. computed[q] \in Nat
            BY <1>6
          <6>3. QED
            BY <2>1, <5>2, <5>3, <6>1, <6>2
        <5>5. Filled(q, Start(e))
          BY <1>1, <1>2, <5>1 DEF FilledInv
        <5>6. QED
          BY <5>4, <5>5 DEF Filled
      <4>3. QED
        BY <4>1, <4>2
    <3>2. Content(q, p, out'[q]) = Content(q, p, out[q])
      BY <1>6, <2>1
    <3>3. QED
      BY <2>2, <2>4, <3>1, <3>2 DEF Slot
  <2>5. QED
    BY <1>5, <2>2, <2>3, <2>4
<1>10. FilledInv'
  <2>1. \A q, p : Block(q, p)' = Block(q, p)
    BY <1>1 DEF Block
  <2>2. \A q \in Active : Filled(q, computed[q])'
    BY <1>1, <1>9, <2>1 DEF Filled, Slot
  <2>3. QED
    BY <1>1, <2>2 DEF FilledInv
<1>11. QED
  BY <1>7, <1>8, <1>10 DEF KVInv

-----------------------------------------------------------------------------
(* The step after the forward pass *)

(* An action that changes neither the cache nor what is computed, outside   *)
(* schedule().                                                              *)
LEMMA AfterPassKV ==
  ASSUME EngineInv, EngineInv', KVTypes, FilledInv, ~Scheduling, ~Scheduling',
         Active' \subseteq Active,
         UNCHANGED <<kv, tables, computed, out>>
  PROVE  KVTypes' /\ FilledInv'
<1>1. KVTypes'
  BY DEF KVTypes
<1>2. Entered = {}
  BY DEF Entered
<1>3. \A r, n : Filled(r, n)' <=> Filled(r, n)
  BY DEF Filled, Slot, Block
<1>4. FilledInv'
  BY <1>2, <1>3 DEF FilledInv
<1>5. QED
  BY <1>1, <1>4

LEMMA LoopDoneKV ==
  ASSUME EngineInv, EngineInv', KVInv, RegisterDone \/ CorrectDone \/ StepDone
  PROVE  KVInv'
<1>1. /\ pc \in {"register", "correct", "sweep"} /\ pc' \in {"correct", "sweep", "idle"}
      /\ UNCHANGED <<kv, tables, computed, out, trie, running>>
  BY DEF RegisterDone, CorrectDone, StepDone, Swept, bmVars, requestVars, queueVars
<1>2. ~Scheduling /\ ~Scheduling' /\ Active' = Active
  BY <1>1 DEF Scheduling, Active
<1>3. CachedKVIsWhatItClaims'
  BY <1>1 DEF KVInv, CachedKVIsWhatItClaims
<1>4. QED
  BY <1>1, <1>2, <1>3, AfterPassKV DEF KVInv

(* A new node takes a block of the table whose slots are all computed.      *)
LEMMA RegisterPrefixKV ==
  ASSUME EngineInv, EngineInv', KVInv, RegisterPrefix PROVE KVInv'
<1>1. /\ pc = "register" /\ pc' = "register"
      /\ UNCHANGED <<kv, tables, computed, out, running>>
  BY DEF RegisterPrefix, InsertComputedPrefix, bmVars, requestVars, queueVars, stepVars
<1>2. ~Scheduling /\ ~Scheduling' /\ Active' = Active /\ Entered = {}
  BY <1>1 DEF Scheduling, Active, Entered
<1>3. KVTypes' /\ FilledInv'
  BY <1>1, <1>2, AfterPassKV DEF KVInv
<1>4. CASE trie' = trie
  BY <1>1, <1>3, <1>4 DEF KVInv, CachedKVIsWhatItClaims
<1>5. CASE trie' # trie
  <2>1. PICK r \in Requests, k \in Nat :
          /\ tables[r] # <<>> /\ Insert(r, ncached[r], k, tables[r])
          /\ k = (IF computed[r] < Len(Prompt[r]) THEN computed[r] ELSE Len(Prompt[r]))
                   \div BlockSize
    <3>1. PICK r : /\ r = Head(todo).req /\ todo # <<>>
                   /\ InsertComputedPrefix(r, computed[r])
      BY <1>5 DEF RegisterPrefix, bmVars
    <3>2. r \in Requests
      <4>1. todo \in Seq(BatchEntry)
        BY DEF EngineInv, RequestInv, EngineTypes
      <4>2. Head(todo) \in BatchEntry
        BY <3>1, <4>1, HeadTail
      <4>3. QED
        BY <3>1, <4>2 DEF BatchEntry
    <3>3. PICK c \in Nat : c = IF computed[r] < Len(Prompt[r]) THEN computed[r] ELSE Len(Prompt[r])
      BY <3>2, LenFacts DEF EngineInv, RequestInv
    <3>4. c \div BlockSize \in Nat
      BY PromptAssumption, Position
    <3>5. tables[r] # <<>> /\ Insert(r, ncached[r], c \div BlockSize, tables[r])
      BY <1>5, <3>1, <3>3 DEF InsertComputedPrefix, trieVars
    <3>6. QED
      BY <3>2, <3>3, <3>4, <3>5
  <2>2. /\ Accounting /\ EngineTypes /\ BlockSize \in Nat \ {0}
        /\ trie \in [DOMAIN trie -> [phys : Blocks, ref : Nat]]
        /\ CachedKVIsWhatItClaims /\ FilledInv
    BY PromptAssumption DEF EngineInv, RequestInv, Accounting, BMTypeOK, KVInv
  <2>3. /\ r \in Active /\ computed[r] \in Nat /\ Capacity(r) \in Nat
        /\ computed[r] <= Capacity(r)
        /\ Len(Prompt[r]) \in Nat
    BY <2>1, <2>2, ActiveFacts, LenFacts
  <2>4. k * BlockSize <= computed[r] /\ k * BlockSize <= Len(Prompt[r]) /\ k * BlockSize \in Nat
    <3>1. PICK c \in Nat : c = IF computed[r] < Len(Prompt[r]) THEN computed[r] ELSE Len(Prompt[r])
      BY <2>3
    <3>2. c <= computed[r] /\ c <= Len(Prompt[r])
      BY <2>3, <3>1
    <3>3. k * BlockSize <= c /\ k * BlockSize \in Nat
      BY <2>1, <2>2, <3>1, DivBound, MulType
    <3>4. QED
      BY <2>3, <3>2, <3>3
  <2>5. ASSUME NEW m \in DOMAIN trie', NEW o \in Offsets
        PROVE  kv'[trie'[m].phys][o] = Claim(m, o)
    <3>1. CASE m \in DOMAIN trie
      <4>1. trie'[m].phys = trie[m].phys
        BY <2>1, <2>2, <2>5, <3>1 DEF Insert
      <4>2. QED
        BY <1>1, <2>2, <3>1, <4>1 DEF CachedKVIsWhatItClaims, Claim
    <3>2. CASE m \notin DOMAIN trie
      <4>1. /\ m \in Chain(r, k)
            /\ trie'[m].phys = tables[r][Len(m) \div BlockSize]
        BY <2>1, <2>5, <3>2 DEF Insert
      <4>2. PICK j \in 1..k : m = Node(r, j)
        BY <4>1 DEF Chain
      <4>3. PICK i \in Nat : j = i + 1 /\ i < k
        <5>1. j - 1 \in Nat /\ j = (j - 1) + 1 /\ j - 1 < k
          BY <2>1, <4>2
        <5>2. QED
          BY <5>1
      <4>4. i + 1 <= FullBlocks(r) /\ i + 1 \in 0..FullBlocks(r) /\ FullBlocks(r) \in Nat
        <5>1. k <= FullBlocks(r) /\ FullBlocks(r) \in Nat
          BY <2>1, <2>2, <2>3, <2>4, FullBlocksType, DivBound DEF FullBlocks
        <5>2. QED
          BY <4>3, <5>1
      <4>5. Len(m) = (i + 1) * BlockSize
        BY <2>1, <4>2, <4>3, <4>4, NodeLen
      <4>6. Len(m) \div BlockSize = i + 1
        <5>1. \A b \in Nat \ {0}, h \in Nat : (h * b) \div b = h
          BY Z3
        <5>2. i + 1 \in Nat
          BY <4>3
        <5>3. QED
          BY <2>2, <4>5, <5>1, <5>2
      <4>7. PICK p \in Nat : /\ p = i * BlockSize + o
                             /\ p \div BlockSize = i /\ p % BlockSize = o
                             /\ p + 1 <= (i + 1) * BlockSize
        BY <2>2, <4>3, PositionOf DEF Offsets
      <4>8. p \in 0..(computed[r] - 1)
        <5>1. (i + 1) * BlockSize <= k * BlockSize /\ (i + 1) * BlockSize \in Nat
          BY <2>1, <2>2, <4>3, MulMono, MulType
        <5>2. \A a, b, c \in Nat : p + 1 <= a /\ a <= b /\ b <= c => p \in 0..(c - 1)
          OBVIOUS
        <5>3. QED
          BY <2>3, <2>4, <4>7, <5>1, <5>2
      <4>9. Slot(r, p) = Content(r, p, out[r])
        BY <1>2, <2>2, <2>3, <4>8 DEF FilledInv, Filled
      <4>10. Content(r, p, out[r]) = Claim(m, o)
        BY <2>1, <4>2, <4>3, <4>4, <4>7, NodeContent
      <4>11. Slot(r, p) = kv[tables[r][i + 1]][o]
        BY <4>7 DEF Slot, Block
      <4>12. QED
        BY <1>1, <4>1, <4>6, <4>9, <4>10, <4>11
    <3>3. QED
      BY <3>1, <3>2
  <2>6. QED
    BY <1>3, <2>5 DEF KVInv, CachedKVIsWhatItClaims, Claim
<1>6. QED
  BY <1>4, <1>5

-----------------------------------------------------------------------------
(* The engine keeps the invariant *)

LEMMA InitKV == NoSpeculation /\ Init => KVInv
<1> SUFFICES ASSUME NoSpeculation, Init PROVE KVInv
  OBVIOUS
<1>1. KVTypes
  BY DEF Init, KVTypes
<1>2. DOMAIN trie = {}
  BY DEF Init, SchedulerInit, BMInit
<1>3. Active = {} /\ ~Scheduling
  BY EmptyIsSeq DEF Init, SchedulerInit, Active, Scheduling
<1>4. QED
  BY <1>1, <1>2, <1>3 DEF KVInv, CachedKVIsWhatItClaims, FilledInv

LEMMA NextKV == NoSpeculation /\ EngineInv /\ EngineInv' /\ KVInv /\ [Next]_vars => KVInv'
<1> SUFFICES ASSUME NoSpeculation, EngineInv, EngineInv', KVInv, [Next]_vars PROVE KVInv'
  OBVIOUS
<1>1. CASE ScheduleStep
  BY <1>1, ScheduleBeginKV, LoopKV, PreemptForRunningKV, ScheduleRunningKV, AllocateKV,
     AllocateRaisesKV, AdmitDoneKV, FreeFinishedKV DEF ScheduleStep
<1>2. CASE ForwardStep
  BY <1>2, ExecuteModelKV, NoDraftSteps, RegisterPrefixKV, LoopDoneKV DEF ForwardStep
<1>3. CASE DraftStep
  BY <1>3, NoDraftSteps, LoopDoneKV DEF DraftStep
<1>4. ASSUME NEW r \in Requests, Submit(r) \/ Cancel(r) PROVE KVInv'
  BY <1>4, AddRequestKV, AbortRequestKV DEF Submit, Cancel
<1>5. CASE UNCHANGED vars
  <2>1. UNCHANGED <<kv, trie, tables, computed, out, pc, running, kept, pending,
                    scheduledNew, scheduledRunning>>
    BY <1>5 DEF vars, schedVars, bmVars, requestVars, queueVars, stepVars
  <2>2. /\ Active' = Active /\ (Scheduling' <=> Scheduling) /\ Entered' = Entered
        /\ Batch' = Batch
    BY <2>1, SameEntered DEF Active, Scheduling
  <2>3. KVTypes' /\ CachedKVIsWhatItClaims'
    BY <2>1 DEF KVInv, KVTypes, CachedKVIsWhatItClaims
  <2>4. \A r, n : Filled(r, n)' <=> Filled(r, n)
    BY <2>1 DEF Filled, Slot, Block
  <2>5. \A e : Start(e)' = Start(e)
    BY <2>1 DEF Start
  <2>6. FilledInv'
    BY <2>1, <2>2, <2>4, <2>5 DEF KVInv, FilledInv
  <2>7. QED
    BY <2>3, <2>6 DEF KVInv
<1>6. QED
  BY <1>1, <1>2, <1>3, <1>4, <1>5 DEF Next, EngineStep

(* What is in the cache is right, whoever wrote it and whoever reads it:    *)
(* through shared, duplicated, evicted and reused blocks, preemption,       *)
(* chunked prefill and aborts, the KV that model/model_runner.py finds      *)
(* through a block table is the KV of that request's own tokens.            *)
THEOREM CacheIsCorrect ==
  ASSUME NoSpeculation
  PROVE  Spec => []KVIsCorrect
<1>1. Init => EngineInv /\ KVInv
  BY InitHolds, InitKV
<1>2. EngineInv /\ KVInv /\ [Next]_vars => EngineInv' /\ KVInv'
  BY NextHolds, NextKV
<1>3. EngineInv /\ KVInv => KVIsCorrect
  <2> SUFFICES ASSUME EngineInv, KVInv PROVE KVIsCorrect
    OBVIOUS
  <2>1. ASSUME pc \in {"sweep", "idle"}, NEW r \in ToSet(running), NEW p \in 0..(computed[r] - 1)
        PROVE  Slot(r, p) = Content(r, p, out[r])
    <3>1. r \in Active \ Entered
      BY <2>1 DEF Active, Entered, Scheduling
    <3>2. QED
      BY <2>1, <3>1 DEF KVInv, FilledInv, Filled
  <2>2. QED
    BY <2>1 DEF KVIsCorrect, KVBelongsToRequest, KVInv
<1>4. QED
  BY <1>1, <1>2, <1>3, PTL DEF Spec

(* What the forward pass relies on holds at every step, under any load: the *)
(* batch is within the token budget, names running requests once each, and  *)
(* their tables cover every position it touches.                            *)
THEOREM StepAlwaysConsistent ==
  ASSUME NoSpeculation
  PROVE  Spec => []StepIsConsistent
<1>1. Init => EngineInv /\ KVInv
  BY InitHolds, InitKV
<1>2. EngineInv /\ KVInv /\ [Next]_vars => EngineInv' /\ KVInv'
  BY NextHolds, NextKV
<1>3. EngineInv /\ KVInv => StepIsConsistent
  <2> SUFFICES ASSUME EngineInv, KVInv PROVE StepIsConsistent
    OBVIOUS
  <2>1. WaitingHoldsNothing /\ BatchIsExecutable
    BY DecisionsAreExecutable
  <2>2. EngineTypes /\ QueueShapes /\ BMTypeOK
    BY DEF EngineInv, RequestInv, OrderInv, Accounting
  <2>3. /\ draft \in [Requests -> Nat] /\ budget \in Int /\ hitBudget \in Nat
        /\ DOMAIN shadows \subseteq Requests /\ proposed \subseteq Requests
    BY <2>2 DEF EngineTypes
  <2>4. status \in [Requests -> {"NEW", "WAITING", "RUNNING", "PREEMPTED"} \cup FINISHED]
    BY <2>2 DEF QueueShapes, Statuses, FINISHED
  <2>5. TypeOK
    BY <2>2, <2>3, <2>4 DEF TypeOK, EngineTypes, QueueShapes, KVInv, KVTypes
  <2>6. QED
    BY <2>1, <2>5 DEF StepIsConsistent
<1>4. QED
  BY <1>1, <1>2, <1>3, PTL DEF Spec

-----------------------------------------------------------------------------
(* The tokens: the invariants *)

(* Nothing follows an eos or the limit, and whoever got there has finished. *)
StopInv ==
  \A r \in Requests : \A i \in 1..Len(out[r]) :
    out[r][i].eos \/ i >= MaxTokens[r] => i = Len(out[r]) /\ IsFinished(r)

(* A request that was not preempted has computed all but its last token,    *)
(* and that one too once it is scheduled; it waits only before its first.   *)
DenseInv ==
  /\ \A r \in Requests \ resumed : Dense(r)
  /\ \A r \in (ToSet(waiting) \cup allocating) \ resumed : out[r] = <<>>
  /\ \A r \in Active \ resumed :
       out[r] # <<>> => /\ computed[r] + 1 >= GetLen(r)
                        /\ r \in Entered => computed[r] = GetLen(r)

OneBehind(r) == computed[r] + 1 = GetLen(r)

CaughtUp(r) == computed[r] = GetLen(r)

(* Only the last running request can be in the middle of its prefill, since *)
(* it then exhausts the budget and nobody is admitted after it; and as the  *)
(* running requests never outnumber the budget, each gets its token.        *)
InRunningLoop ==
  /\ Len(kept) + budget <= MaxNumBatchedTokens
  /\ pending # <<>> => Len(pending) <= budget
  /\ \A r \in ToSet(pending) : OneBehind(r) \/ r = Last(pending)
  /\ \A r \in ToSet(kept) :
       /\ r \in Entered
       /\ CaughtUp(r) \/ (pending = <<>> /\ r = Last(kept) /\ budget = 0)

AfterRunningLoop ==
  /\ Len(running) + budget <= MaxNumBatchedTokens
  /\ \A r \in ToSet(running) :
       r \in Entered /\ (CaughtUp(r) \/ (r = Last(running) /\ budget = 0))

OutsideSchedule ==
  /\ Len(running) <= MaxNumBatchedTokens
  /\ \A r \in ToSet(running) : OneBehind(r) \/ r = Last(running)

ProgressInv ==
  /\ pc = "running" => InRunningLoop
  /\ pc \in {"waiting", "allocate", "execute"} => AfterRunningLoop
  /\ pc \in {"register", "correct", "sweep", "idle"} => OutsideSchedule

-----------------------------------------------------------------------------
(* What a step may do to the outputs *)

(* No output changes, and who is live stays live.                           *)
KeepsOutputs ==
  /\ out' = out
  /\ \A r \in Requests :
       status'[r] = status[r] \/ (status[r] \in Live /\ status'[r] \in Live)

LEMMA PreemptKeepsOutputs ==
  ASSUME EngineInv, PreemptForRunning
  PROVE  KeepsOutputs
<1>1. /\ pc = "running" /\ pending # <<>> /\ out' = out
      /\ status' = [status EXCEPT ![Last(pending)] = "PREEMPTED"]
  BY DEF PreemptForRunning, Deciding, Victim
<1>2. PICK v \in Requests : v = Last(pending) /\ v \in ToSet(pending)
  <2>1. pending \in Seq(Requests)
    BY DEF EngineInv, OrderInv, QueueShapes
  <2>2. /\ Last(pending) \in Requests
        /\ ToSet(pending) = ToSet(Front(pending)) \cup {Last(pending)}
    BY <1>1, <2>1, FrontLast
  <2>3. QED
    BY <2>2
<1>3. v \in Active /\ status \in [Requests -> Statuses]
  BY <1>1, <1>2 DEF Active, EngineInv, OrderInv, QueueShapes
<1>4. status[v] \in Live
  BY <1>1, <1>3, Members DEF EngineInv, OrderInv, QueuesAreLive
<1>5. QED
  BY <1>1, <1>2, <1>3, <1>4 DEF KeepsOutputs, Live

LEMMA AdmitKeepsOutputs ==
  ASSUME EngineInv, AdmitDone
  PROVE  KeepsOutputs
<1>1. PICK r \in allocating :
        /\ pc = "allocate" /\ out' = out /\ status' = [status EXCEPT ![r] = "RUNNING"]
  BY DEF AdmitDone
<1>2. r \in ToSet(arrivals) /\ status \in [Requests -> Statuses]
  BY <1>1, Members DEF EngineInv, OrderInv, QueueShapes
<1>3. status[r] \in Live
  BY <1>1, <1>2 DEF EngineInv, OrderInv, QueuesAreLive
<1>4. QED
  BY <1>1, <1>2, <1>3 DEF KeepsOutputs, Live

LEMMA EngineOutputs ==
  ASSUME NoSpeculation, EngineInv, EngineStep
  PROVE  KeepsOutputs \/ ExecuteModel
<1>1. CASE ScheduleStep
  <2>1. CASE PreemptForRunning
    BY <2>1, PreemptKeepsOutputs
  <2>2. CASE AdmitDone
    BY <2>2, AdmitKeepsOutputs
  <2>3. CASE UNCHANGED requestVars
    BY <2>3 DEF KeepsOutputs, requestVars
  <2>4. CASE ScheduleRunning
    BY <2>4 DEF KeepsOutputs, ScheduleRunning
  <2>5. QED
    BY <1>1, <2>1, <2>2, <2>3, <2>4
       DEF ScheduleStep, ScheduleBegin, SkipRunning, RunningDone, AdmitWaiting,
           AllocateEvicts, AllocateRaises, WaitingDone, FreeFinished
<1>2. CASE ForwardStep
  <2>1. CASE UNCHANGED requestVars
    BY <2>1 DEF KeepsOutputs, requestVars
  <2>2. QED
    BY <1>2, <2>1 DEF ForwardStep, ExecuteRaises, RegisterPrefix, RegisterDone, CorrectDone
<1>3. CASE DraftStep
  BY <1>3, NoDraftSteps DEF DraftStep, StepDone, KeepsOutputs, requestVars
<1>4. QED
  BY <1>1, <1>2, <1>3 DEF EngineStep

LEMMA OutputSteps ==
  ASSUME NoSpeculation, EngineInv, Next
  PROVE  \/ KeepsOutputs
         \/ ExecuteModel
         \/ \E r \in Requests : (AddRequest(r) \/ AbortRequest(r)) /\ Frame
  BY EngineOutputs DEF Next, Submit, Cancel

(* The forward pass appends one token to the output of some live requests,  *)
(* and who then meets a stop condition is finished.                         *)
LEMMA PassAppends ==
  ASSUME NoSpeculation, EngineInv, EngineInv', ExecuteModel, NEW r \in Requests
  PROVE  \/ out'[r] = out[r] /\ status'[r] = status[r]
         \/ /\ status[r] \in Live /\ Len(out[r]) < MaxTokens[r]
            /\ out[r] \in Seq(Token) /\ Len(out'[r]) = Len(out[r]) + 1
            /\ \E t \in Token : /\ out'[r] = out[r] \o <<t>>
                                /\ \/ /\ ~t.eos /\ Len(out'[r]) < MaxTokens[r]
                                      /\ status'[r] = status[r]
                                   \/ status'[r] \in FINISHED
<1>1. CASE r \notin Sampling
  BY <1>1, PassSamples
<1>2. CASE r \in Sampling
  <2>1. PICK t \in Token : out'[r] = out[r] \o <<t>>
    BY <1>2, PassSamples
  <2>2. pc = "execute" /\ status' = [q \in Requests |-> IF q \in Sampling
                                      THEN MaybeFinish(q, out'[q]) ELSE status[q]]
    BY DEF ExecuteModel
  <2>3. r \in Active /\ r \in ToSet(arrivals)
    BY <1>2, <2>2, PassSamples, Members DEF EngineInv
  <2>4. status[r] \in Live /\ Len(out[r]) < MaxTokens[r]
    BY <2>2, <2>3 DEF EngineInv, OrderInv, QueuesAreLive, RequestInv, HoldsFor
  <2>5. /\ out[r] \in Seq(Token) /\ Len(out'[r]) = Len(out[r]) + 1
        /\ out'[r][Len(out'[r])] = t /\ Len(out[r]) \in Nat
    <3>1. out[r] \in Seq(Token) /\ <<t>> \in Seq(Token) /\ Len(<<t>>) = 1 /\ <<t>>[1] = t
      BY DEF EngineInv, RequestInv, EngineTypes
    <3>2. Append(out[r], t) = out[r] \o <<t>>
      BY <3>1, AppendIsConcat
    <3>3. Len(Append(out[r], t)) = Len(out[r]) + 1 /\ Append(out[r], t)[Len(out[r]) + 1] = t
      BY <3>1, AppendProperties
    <3>4. QED
      BY <2>1, <3>1, <3>2, <3>3, LenProperties
  <2>6. Last(out'[r]) = t
    BY <2>5 DEF Last
  <2>7. status'[r] = MaybeFinish(r, out'[r]) /\ MaxTokens[r] \in Nat
    BY <1>2, <2>2, SchedulerAssumption
  <2>8. t.eos \in BOOLEAN
    BY DEF Token
  <2>9. \/ ~t.eos /\ Len(out'[r]) < MaxTokens[r] /\ status'[r] = status[r]
        \/ status'[r] \in FINISHED
    BY <2>5, <2>6, <2>7, <2>8 DEF MaybeFinish, FINISHED
  <2>10. QED
    BY <2>1, <2>4, <2>5, <2>9
<1>3. QED
  BY <1>1, <1>2

-----------------------------------------------------------------------------
(* The engine implements its contract *)

LiveRequests == { r \in Requests : status[r] \in {"WAITING", "RUNNING", "PREEMPTED"} }

OutputLengths == [r \in Requests |-> Len(out[r])]

LEMMA ProducesByContract ==
  ASSUME NoSpeculation, EngineInv, EngineInv', ExecuteModel
  PROVE  Contract!Produce
<1>1. DOMAIN OutputLengths' = Requests
  BY DEF OutputLengths
<1>2. ASSUME NEW r \in Requests
      PROVE  /\ \/ OutputLengths'[r] = OutputLengths[r]
                   /\ (r \in LiveRequests <=> r \in LiveRequests')
                \/ /\ r \in LiveRequests
                   /\ OutputLengths'[r] \in (OutputLengths[r] + 1)..MaxTokens[r]
                   /\ OutputLengths'[r] = MaxTokens[r] => r \notin LiveRequests'
             /\ r \in LiveRequests' => r \in LiveRequests
  <2>1. OutputLengths[r] = Len(out[r]) /\ OutputLengths'[r] = Len(out'[r])
    BY DEF OutputLengths
  <2>2. /\ r \in LiveRequests <=> status[r] \in Live
        /\ r \in LiveRequests' <=> status'[r] \in Live
    BY DEF LiveRequests, Live
  <2>3. CASE out'[r] = out[r] /\ status'[r] = status[r]
    BY <2>1, <2>2, <2>3
  <2>4. CASE ~(out'[r] = out[r] /\ status'[r] = status[r])
    <3>1. /\ status[r] \in Live /\ Len(out[r]) < MaxTokens[r]
          /\ Len(out'[r]) = Len(out[r]) + 1
          /\ Len(out'[r]) < MaxTokens[r] \/ status'[r] \in FINISHED
      BY <2>4, PassAppends
    <3>2. Len(out[r]) \in Nat /\ MaxTokens[r] \in Nat
      BY LenFacts DEF EngineInv, RequestInv
    <3>3. /\ Len(out'[r]) \in (Len(out[r]) + 1)..MaxTokens[r]
          /\ Len(out'[r]) = MaxTokens[r] => status'[r] \in FINISHED
      BY <3>1, <3>2
    <3>4. QED
      BY <2>1, <2>2, <3>1, <3>3 DEF FINISHED, Live
  <2>5. QED
    BY <2>3, <2>4
<1>3. LiveRequests' \subseteq LiveRequests
  BY <1>2 DEF LiveRequests
<1>4. QED
  BY <1>1, <1>2, <1>3 DEF Contract!Produce, LiveRequests, OutputLengths

LEMMA NextByContract ==
  NoSpeculation /\ EngineInv /\ EngineInv' /\ [Next]_vars
    => [Contract!ContractNext]_(Contract!contractVars)
<1> SUFFICES ASSUME NoSpeculation, EngineInv, EngineInv', [Next]_vars
             PROVE  Contract!ContractNext \/ UNCHANGED <<LiveRequests, OutputLengths>>
  BY DEF Contract!contractVars, LiveRequests, OutputLengths
<1>1. CASE UNCHANGED vars
  BY <1>1 DEF vars, schedVars, requestVars, LiveRequests, OutputLengths
<1>2. CASE KeepsOutputs
  <2>1. LiveRequests' = LiveRequests
    BY <1>2 DEF KeepsOutputs, LiveRequests, Live
  <2>2. QED
    BY <1>2, <2>1 DEF KeepsOutputs, OutputLengths
<1>3. CASE ExecuteModel
  BY <1>3, ProducesByContract DEF Contract!ContractNext
<1>4. ASSUME NEW r \in Requests, AddRequest(r)
      PROVE  Contract!ContractNext
  <2>1. /\ status[r] \in {"NEW"} \cup FINISHED
        /\ status' = [status EXCEPT ![r] = "WAITING"]
        /\ out' = [out EXCEPT ![r] = <<>>]
    BY <1>4 DEF AddRequest
  <2>2. DOMAIN status = Requests /\ DOMAIN out = Requests
    BY DEF EngineInv, OrderInv, QueueShapes, RequestInv, EngineTypes
  <2>3. r \notin LiveRequests /\ LiveRequests' = LiveRequests \cup {r}
    BY <2>1, <2>2 DEF LiveRequests, FINISHED
  <2>4. OutputLengths' = [OutputLengths EXCEPT ![r] = 0]
    <3>1. Len(<<>>) = 0
      BY EmptySeq
    <3>2. ASSUME NEW q \in Requests
          PROVE  Len(out'[q]) = IF q = r THEN 0 ELSE Len(out[q])
      BY <2>1, <2>2, <3>1
    <3>3. QED
      BY <3>2 DEF OutputLengths
  <2>5. Contract!Enter(r)
    BY <2>3, <2>4 DEF Contract!Enter, LiveRequests, OutputLengths
  <2>6. QED
    BY <2>5 DEF Contract!ContractNext
<1>5. ASSUME NEW r \in Requests, AbortRequest(r)
      PROVE  Contract!ContractNext
  <2>1. /\ pc = "idle" /\ out' = out
        /\ status' = [status EXCEPT ![r] = "ABORTED"]
        /\ r \in ToSet(waiting) \/ r \in ToSet(running)
    BY <1>5 DEF AbortRequest, Contains, ToSet
  <2>2. r \in ToSet(arrivals)
    BY <2>1, Members DEF Active, EngineInv
  <2>3. status[r] \in Live /\ DOMAIN status = Requests
    BY <2>1, <2>2 DEF EngineInv, OrderInv, QueueShapes, QueuesAreLive
  <2>4. r \in LiveRequests /\ LiveRequests' = LiveRequests \ {r}
    BY <2>1, <2>3 DEF LiveRequests, Live
  <2>5. OutputLengths' = OutputLengths
    BY <2>1 DEF OutputLengths
  <2>6. Contract!Leave(r)
    BY <2>4, <2>5 DEF Contract!Leave, LiveRequests, OutputLengths
  <2>7. QED
    BY <2>6 DEF Contract!ContractNext
<1>6. QED
  BY <1>1, <1>2, <1>3, <1>4, <1>5, OutputSteps

LEMMA InitByContract == Init => Contract!ContractInit
<1> SUFFICES ASSUME Init PROVE Contract!ContractInit
  OBVIOUS
<1>1. status = [r \in Requests |-> "NEW"] /\ out = [r \in Requests |-> <<>>]
  BY DEF Init, SchedulerInit
<1>2. LiveRequests = {} /\ OutputLengths = [r \in Requests |-> 0]
  <2>1. Len(<<>>) = 0
    BY EmptySeq
  <2>2. QED
    BY <1>1, <2>1 DEF LiveRequests, OutputLengths
<1>3. QED
  BY <1>2 DEF Contract!ContractInit, LiveRequests, OutputLengths

(* Refinement: whatever the scheduler batches, chunks, preempts and         *)
(* recomputes, a request that was submitted only gains tokens, never        *)
(* exceeds max_tokens, and ends for good at its limit, at an eos or when    *)
(* it is aborted.                                                           *)
THEOREM EngineImplementsContract ==
  ASSUME NoSpeculation
  PROVE  Spec => KeepsEngineContract
<1>1. Init => Contract!ContractInit
  BY InitByContract
<1>2. EngineInv /\ EngineInv' /\ [Next]_vars
        => [Contract!ContractNext]_(Contract!contractVars)
  BY NextByContract
<1>3. QED
  BY <1>1, <1>2, EngineInvariant, PTL DEF Spec, KeepsEngineContract, Contract!ContractSpec

-----------------------------------------------------------------------------
(* Nothing follows a stop condition *)

(* The index of the token that a pass appends.                              *)
LEMMA Appended ==
  ASSUME NEW s \in Seq(Token), NEW t \in Token
  PROVE  /\ Len(s) \in Nat /\ Len(s \o <<t>>) = Len(s) + 1
         /\ \A i \in 1..Len(s) : (s \o <<t>>)[i] = s[i]
         /\ (s \o <<t>>)[Len(s) + 1] = t
<1>1. <<t>> \in Seq(Token)
  OBVIOUS
<1>2. Append(s, t) = s \o <<t>>
  BY <1>1, AppendIsConcat
<1>3. /\ Len(Append(s, t)) = Len(s) + 1
      /\ \A i \in 1..Len(s) : Append(s, t)[i] = s[i]
      /\ Append(s, t)[Len(s) + 1] = t
  BY AppendProperties
<1>4. QED
  BY <1>2, <1>3, LenProperties

StopsFor(r) ==
  \A i \in 1..Len(out[r]) :
    out[r][i].eos \/ i >= MaxTokens[r] => i = Len(out[r]) /\ IsFinished(r)

LEMMA NextStop ==
  NoSpeculation /\ EngineInv /\ EngineInv' /\ StopInv /\ [Next]_vars => StopInv'
<1> SUFFICES ASSUME NoSpeculation, EngineInv, EngineInv', StopInv, [Next]_vars,
                    NEW r \in Requests
             PROVE  StopsFor(r)'
  BY DEF StopInv, StopsFor
<1>1. StopsFor(r)
  BY DEF StopInv, StopsFor
<1>2. CASE UNCHANGED vars
  BY <1>1, <1>2 DEF vars, schedVars, requestVars, StopsFor, IsFinished
<1>3. CASE KeepsOutputs
  <2>1. out' = out /\ (IsFinished(r) => status'[r] = status[r])
    BY <1>3 DEF KeepsOutputs, IsFinished, FINISHED, Live
  <2>2. QED
    BY <1>1, <2>1 DEF StopsFor, IsFinished
<1>4. CASE ExecuteModel
  <2>1. CASE out'[r] = out[r] /\ status'[r] = status[r]
    BY <1>1, <2>1 DEF StopsFor, IsFinished
  <2>2. CASE ~(out'[r] = out[r] /\ status'[r] = status[r])
    <3>1. /\ status[r] \in Live /\ Len(out[r]) < MaxTokens[r] /\ out[r] \in Seq(Token)
          /\ Len(out'[r]) = Len(out[r]) + 1
      BY <1>4, <2>2, PassAppends
    <3>2. PICK t \in Token :
            /\ out'[r] = out[r] \o <<t>>
            /\ \/ ~t.eos /\ Len(out'[r]) < MaxTokens[r]
               \/ status'[r] \in FINISHED
      BY <1>4, <2>2, PassAppends
    <3>3. /\ Len(out[r]) \in Nat /\ MaxTokens[r] \in Nat
          /\ \A i \in 1..Len(out[r]) : out'[r][i] = out[r][i]
          /\ out'[r][Len(out[r]) + 1] = t
      BY <3>1, <3>2, Appended, SchedulerAssumption
    <3>4. ASSUME NEW i \in 1..Len(out'[r]), out'[r][i].eos \/ i >= MaxTokens[r]
          PROVE  i = Len(out'[r]) /\ status'[r] \in FINISHED
      <4>1. i \in 1..Len(out[r]) \/ i = Len(out[r]) + 1
        BY <3>1, <3>3
      <4>2. i \notin 1..Len(out[r])
        <5>1. ~IsFinished(r)
          BY <3>1 DEF IsFinished, FINISHED, Live
        <5>2. ASSUME i \in 1..Len(out[r]) PROVE FALSE
          <6>1. out[r][i].eos \/ i >= MaxTokens[r]
            BY <3>3, <3>4, <5>2
          <6>2. QED
            BY <1>1, <5>1, <5>2, <6>1 DEF StopsFor
        <5>3. QED
          BY <5>2
      <4>3. i = Len(out[r]) + 1 /\ out'[r][i] = t
        BY <3>3, <4>1, <4>2
      <4>4. QED
        BY <3>1, <3>2, <3>3, <3>4, <4>3
    <3>5. QED
      BY <3>4 DEF StopsFor, IsFinished
  <2>3. QED
    BY <2>1, <2>2
<1>5. ASSUME NEW q \in Requests, AddRequest(q)
      PROVE  StopsFor(r)'
  <2>1. /\ status' = [status EXCEPT ![q] = "WAITING"]
        /\ out' = [out EXCEPT ![q] = <<>>]
    BY <1>5 DEF AddRequest
  <2>2. DOMAIN status = Requests /\ DOMAIN out = Requests
    BY DEF EngineInv, OrderInv, QueueShapes, RequestInv, EngineTypes
  <2>3. CASE r = q
    <3>1. Len(out'[r]) = 0
      BY <2>1, <2>2, <2>3, EmptySeq
    <3>2. QED
      BY <3>1 DEF StopsFor
  <2>4. CASE r # q
    <3>1. out'[r] = out[r] /\ status'[r] = status[r]
      BY <2>1, <2>2, <2>4
    <3>2. QED
      BY <1>1, <3>1 DEF StopsFor, IsFinished
  <2>5. QED
    BY <2>3, <2>4
<1>6. ASSUME NEW q \in Requests, AbortRequest(q)
      PROVE  StopsFor(r)'
  <2>1. out' = out /\ status' = [status EXCEPT ![q] = "ABORTED"]
    BY <1>6 DEF AbortRequest
  <2>2. DOMAIN status = Requests
    BY DEF EngineInv, OrderInv, QueueShapes
  <2>3. IsFinished(r) => IsFinished(r)'
    BY <2>1, <2>2 DEF IsFinished, FINISHED
  <2>4. QED
    BY <1>1, <2>1, <2>3 DEF StopsFor
<1>7. QED
  BY <1>2, <1>3, <1>4, <1>5, <1>6, OutputSteps

-----------------------------------------------------------------------------
(* Each token is sampled from the row of the token before it *)

DenseFor(r) ==
  /\ Dense(r)
  /\ r \in ToSet(waiting) \cup allocating => out[r] = <<>>
  /\ r \in Active /\ out[r] # <<>> =>
       /\ computed[r] + 1 >= GetLen(r)
       /\ r \in Entered => computed[r] = GetLen(r)

LEMMA DenseSplit ==
  ASSUME EngineInv
  PROVE  DenseInv <=> \A r \in Requests \ resumed : DenseFor(r)
<1>1. /\ ToSet(waiting) \subseteq Requests /\ Active \subseteq Requests
      /\ allocating \subseteq Requests
  BY Members DEF EngineInv, Accounting, BMTypeOK
<1>2. QED
  BY <1>1 DEF DenseInv, DenseFor

LEMMA DenseNext ==
  ASSUME EngineInv', \A r \in Requests \ resumed' : DenseFor(r)'
  PROVE  DenseInv'
<1>1. /\ waiting' \in Seq(Requests) /\ running' \in Seq(Requests)
      /\ kept' \in Seq(Requests) /\ pending' \in Seq(Requests)
  BY DEF EngineInv, OrderInv, QueueShapes
<1>2. /\ ToSet(waiting') \subseteq Requests /\ ToSet(running') \subseteq Requests
      /\ ToSet(kept') \subseteq Requests /\ ToSet(pending') \subseteq Requests
  BY <1>1, ToSetType
<1>3. Active' \subseteq Requests
  BY <1>2 DEF Active
<1>4. allocating' \subseteq Requests
  BY DEF EngineInv, Accounting, BMTypeOK
<1>5. QED
  BY <1>2, <1>3, <1>4 DEF DenseInv, DenseFor

CaughtFor(r) ==
  r \in Active /\ out[r] # <<>> =>
    /\ computed[r] + 1 >= GetLen(r)
    /\ r \in Entered => computed[r] = GetLen(r)

(* r has its output after the step, and is where it was or was caught up.   *)
StaysDense(r) ==
  /\ r \in ToSet(waiting') \cup allocating' => r \in ToSet(waiting) \cup allocating
  /\ r \in Active' =>
       /\ r \in Active
       /\ \/ computed'[r] = computed[r] /\ (r \in Entered' => r \in Entered)
          \/ computed'[r] = GetLen(r)

LEMMA StaysDenseFor ==
  ASSUME EngineInv, NEW r \in Requests, DenseFor(r), out'[r] = out[r], StaysDense(r)
  PROVE  DenseFor(r)'
<1>1. Dense(r)' /\ GetLen(r)' = GetLen(r) /\ GetLen(r) \in Nat
  BY LenFacts DEF DenseFor, Dense, GetLen, EngineInv, RequestInv
<1>2. QED
  BY <1>1 DEF DenseFor, StaysDense

(* A step of the scheduler: the requests that were not preempted stay put.  *)
LEMMA FrameDense ==
  ASSUME EngineInv, EngineInv', DenseInv, Frame,
         \A r \in Requests : out'[r] = out[r] \/ out'[r] = <<>>,
         \A r \in Requests \ resumed :
           out[r] # <<>> /\ out'[r] = out[r] /\ status'[r] # "PREEMPTED" => StaysDense(r)
  PROVE  DenseInv'
<1> SUFFICES ASSUME NEW r \in Requests, r \notin resumed' PROVE DenseFor(r)'
  <2>1. \A r \in Requests \ resumed' : DenseFor(r)'
    OBVIOUS
  <2>2. QED
    BY <2>1, DenseNext
<1>1. CASE out'[r] = <<>>
  <2>1. Len(out'[r]) = 0
    BY <1>1, EmptySeq
  <2>2. QED
    BY <1>1, <2>1 DEF DenseFor, Dense
<1>2. CASE out'[r] # <<>>
  <2>1. out'[r] = out[r] /\ out[r] # <<>> /\ r \notin resumed /\ status'[r] # "PREEMPTED"
    BY <1>2 DEF Frame
  <2>2. DenseFor(r) /\ StaysDense(r)
    BY <2>1, DenseSplit
  <2>3. QED
    BY <2>1, <2>2, StaysDenseFor
<1>3. QED
  BY <1>1, <1>2

(* The steps that move nobody into a queue or into the batch.               *)
Settled ==
  /\ computed' = computed
  /\ ToSet(waiting') \cup allocating' \subseteq ToSet(waiting) \cup allocating
  /\ Active' \subseteq Active /\ Entered' \subseteq Entered

LEMMA SettledDense ==
  ASSUME NEW r, Settled
  PROVE  StaysDense(r)
BY DEF Settled, StaysDense

LEMMA BatchStays ==
  ASSUME UNCHANGED <<scheduledNew, scheduledRunning>>, Scheduling' => Scheduling
  PROVE  Entered' \subseteq Entered
BY DEF Entered, Batch

LEMMA QuietScheduleSettled ==
  ASSUME EngineInv,
         \/ ScheduleBegin \/ SkipRunning \/ RunningDone \/ WaitingDone
         \/ AllocateEvicts \/ AllocateRaises
  PROVE  Settled
<1>1. /\ waiting \in Seq(Requests) /\ kept \in Seq(Requests) /\ pending \in Seq(Requests)
      /\ running \in Seq(Requests)
  BY DEF EngineInv, OrderInv, QueueShapes
<1>2. UNCHANGED <<computed, waiting, allocating, scheduledNew, scheduledRunning>>
  BY DEF ScheduleBegin, SkipRunning, RunningDone, WaitingDone, AllocateEvicts, AllocateRaises,
         DrainEviction, AllocateFail, bmVars, requestVars, queueVars, stepVars
<1>3. CASE ScheduleBegin
  <2>1. /\ pc = "idle" /\ pc' = "running" /\ pending' = running /\ kept' = <<>>
    BY <1>3 DEF ScheduleBegin
  <2>2. Active' = Active
    BY <2>1, EmptyIsSeq DEF Active
  <2>3. ToSet(Batch) = {}
    BY <2>1, BatchSet, EmptyIsSeq DEF EngineInv, OrderInv, EntriesRun
  <2>4. Entered' = {}
    BY <1>2, <2>3 DEF Entered, Batch
  <2>5. QED
    BY <1>2, <2>2, <2>4 DEF Settled
<1>4. CASE SkipRunning
  <2>1. /\ pc = "running" /\ pc' = "running" /\ pending # <<>>
        /\ kept' = Append(kept, Head(pending)) /\ pending' = Tail(pending)
    BY <1>4 DEF SkipRunning
  <2>2. Head(pending) \in Requests /\ ToSet(pending) = {Head(pending)} \cup ToSet(Tail(pending))
    BY <1>1, <2>1, HeadTail
  <2>3. ToSet(kept') = ToSet(kept) \cup {Head(pending)}
    BY <1>1, <2>1, <2>2, AppendSet
  <2>4. Active' = Active /\ Scheduling
    BY <2>1, <2>2, <2>3 DEF Active, Scheduling
  <2>5. QED
    BY <1>2, <2>4, BatchStays DEF Settled
<1>5. CASE RunningDone
  <2>1. /\ pc = "running" /\ pc' \in {"waiting", "execute"} /\ pending = <<>> /\ running' = kept
    BY <1>5 DEF RunningDone
  <2>2. Active' = Active /\ Scheduling
    BY <2>1, EmptyIsSeq DEF Active, Scheduling
  <2>3. QED
    BY <1>2, <2>2, BatchStays DEF Settled
<1>6. CASE WaitingDone \/ AllocateEvicts \/ AllocateRaises
  <2>1. Active' = Active /\ Scheduling
    BY <1>6 DEF Active, Scheduling, WaitingDone, AllocateEvicts, AllocateRaises,
                DrainEviction, AllocateFail, queueVars, stepVars
  <2>2. QED
    BY <1>2, <2>1, BatchStays DEF Settled
<1>7. QED
  BY <1>3, <1>4, <1>5, <1>6

LEMMA AdmitWaitingSettled ==
  ASSUME EngineInv, AdmitWaiting
  PROVE  Settled
<1>1. /\ pc = "waiting" /\ pc' = "allocate" /\ waiting # <<>>
      /\ waiting' = Tail(waiting) /\ allocating' = {Head(waiting)}
      /\ UNCHANGED <<computed, running, scheduledNew, scheduledRunning>>
  BY DEF AdmitWaiting, HeadAdmissible, AllocateBegin, requestVars
<1>2. waiting \in Seq(Requests)
  BY DEF EngineInv, OrderInv, QueueShapes
<1>3. ToSet(waiting) = {Head(waiting)} \cup ToSet(Tail(waiting))
  BY <1>1, <1>2, HeadTail
<1>4. Active' = Active /\ Scheduling
  BY <1>1 DEF Active, Scheduling
<1>5. QED
  BY <1>1, <1>3, <1>4, BatchStays DEF Settled

LEMMA FreeFinishedSettled ==
  ASSUME EngineInv, FreeFinished
  PROVE  Settled
<1>1. PICK r \in Requests : r \in ToSet(running) /\ running' = Without(running, r) /\ Free(r)
  BY DEF FreeFinished, Contains, ToSet
<1>2. /\ pc = "sweep" /\ pc' = "sweep"
      /\ UNCHANGED <<computed, waiting, allocating, scheduledNew, scheduledRunning>>
  BY <1>1 DEF FreeFinished, requestVars, stepVars, Free
<1>3. running \in Seq(Requests) /\ NoDup(running)
  BY <1>2, Members DEF EngineInv, OrderInv, QueueShapes
<1>4. ToSet(running') = ToSet(running) \ {r}
  BY <1>1, <1>3, WithoutSet
<1>5. Active' \subseteq Active /\ ~Scheduling'
  BY <1>2, <1>4 DEF Active, Scheduling
<1>6. QED
  BY <1>2, <1>5, BatchStays DEF Settled

LEMMA AbortSettled ==
  ASSUME EngineInv, NEW r \in Requests, AbortRequest(r)
  PROVE  Settled
<1>1. /\ pc = "idle" /\ pc' = "idle"
      /\ UNCHANGED <<computed, allocating, scheduledNew, scheduledRunning>>
      /\ \/ r \in ToSet(waiting) /\ waiting' = Without(waiting, r) /\ running' = running
         \/ r \in ToSet(running) /\ running' = Without(running, r) /\ waiting' = waiting
  BY DEF AbortRequest, Contains, ToSet, bmVars, stepVars, Free
<1>2. /\ running \in Seq(Requests) /\ NoDup(running)
      /\ waiting \in Seq(Requests) /\ NoDup(waiting)
  BY <1>1, Members DEF EngineInv, OrderInv, QueueShapes
<1>3. ToSet(running') \subseteq ToSet(running) /\ ToSet(waiting') \subseteq ToSet(waiting)
  <2>1. CASE r \in ToSet(waiting) /\ waiting' = Without(waiting, r) /\ running' = running
    <3>1. ToSet(waiting') = ToSet(waiting) \ {r}
      BY <1>2, <2>1, WithoutSet
    <3>2. QED
      BY <2>1, <3>1
  <2>2. CASE r \in ToSet(running) /\ running' = Without(running, r) /\ waiting' = waiting
    <3>1. ToSet(running') = ToSet(running) \ {r}
      BY <1>2, <2>2, WithoutSet
    <3>2. QED
      BY <2>2, <3>1
  <2>3. QED
    BY <1>1, <2>1, <2>2
<1>4. Active' \subseteq Active /\ ~Scheduling'
  BY <1>1, <1>3 DEF Active, Scheduling
<1>5. QED
  BY <1>1, <1>3, <1>4, BatchStays DEF Settled

LEMMA AddRequestDense ==
  ASSUME EngineInv, NEW q \in Requests, AddRequest(q), NEW r \in Requests, r # q
  PROVE  out'[r] = out[r] /\ StaysDense(r)
<1>1. /\ pc = "idle" /\ pc' = "idle"
      /\ waiting' = Append(waiting, q)
      /\ out' = [out EXCEPT ![q] = <<>>] /\ computed' = [computed EXCEPT ![q] = 0]
      /\ UNCHANGED <<running, allocating>>
  BY DEF AddRequest, bmVars, stepVars
<1>2. waiting \in Seq(Requests) /\ DOMAIN out = Requests /\ DOMAIN computed = Requests
  BY DEF EngineInv, OrderInv, QueueShapes, RequestInv, EngineTypes
<1>3. ToSet(waiting') = ToSet(waiting) \cup {q}
  BY <1>1, <1>2, AppendSet
<1>4. Active' = Active /\ Entered' = {}
  BY <1>1 DEF Active, Entered, Scheduling
<1>5. QED
  BY <1>1, <1>2, <1>3, <1>4 DEF StaysDense

LEMMA PreemptDense ==
  ASSUME EngineInv, PreemptForRunning, NEW r \in Requests, status'[r] # "PREEMPTED"
  PROVE  StaysDense(r)
<1>1. /\ pc = "running" /\ pc' = "running" /\ pending # <<>>
      /\ computed' = [computed EXCEPT ![Last(pending)] = 0]
      /\ status' = [status EXCEPT ![Last(pending)] = "PREEMPTED"]
      /\ waiting' = <<Last(pending)>> \o waiting /\ pending' = Front(pending)
      /\ UNCHANGED <<kept, allocating, scheduledNew, scheduledRunning>>
  BY DEF PreemptForRunning, Deciding, Victim, Requeue, ResetComputed, Free
<1>2. /\ pending \in Seq(Requests) /\ waiting \in Seq(Requests)
      /\ DOMAIN status = Requests /\ DOMAIN computed = Requests
  BY DEF EngineInv, OrderInv, QueueShapes, RequestInv, EngineTypes
<1>3. PICK v \in Requests : v = Last(pending) /\ ToSet(pending') \subseteq ToSet(pending)
  BY <1>1, <1>2, FrontLast
<1>4. ToSet(waiting') = {v} \cup ToSet(waiting)
  <2>1. <<v>> \in Seq(Requests) /\ ToSet(<<v>>) = {v}
    BY DEF ToSet
  <2>2. ToSet(<<v>> \o waiting) = ToSet(<<v>>) \cup ToSet(waiting)
    BY <1>2, <2>1, ConcatSet
  <2>3. QED
    BY <1>1, <1>3, <2>1, <2>2
<1>5. Active' \subseteq Active /\ Entered' \subseteq Entered
  BY <1>1, <1>3, BatchStays DEF Active, Scheduling
<1>6. r # v /\ computed'[r] = computed[r]
  BY <1>1, <1>2, <1>3
<1>7. QED
  BY <1>1, <1>4, <1>5, <1>6 DEF StaysDense

(* A scheduled request that has output has one token to compute.            *)
LEMMA ScheduleRunningDense ==
  ASSUME NoSpeculation, EngineInv, EngineInv', ScheduleRunning, Frame,
         NEW r \in Requests, CaughtFor(r), out[r] # <<>>
  PROVE  StaysDense(r)
<1>1. PICK q, e : Enters(q, computed[q], e) /\ q \in Active
  BY ScheduleRunningHolds
<1>2. /\ pc = "running" /\ pc' = "running" /\ pending # <<>> /\ UNCHANGED <<waiting, out>>
      /\ kept' = Append(kept, Head(pending)) /\ pending' = Tail(pending)
      /\ allocating = {} /\ allocating' = {}
  <2>1. AllocationInv /\ AllocationInv'
    BY DEF EngineInv, RequestInv
  <2>2. QED
    BY <2>1 DEF ScheduleRunning, Deciding, queueVars, AllocationInv
<1>3. kept \in Seq(Requests) /\ pending \in Seq(Requests)
  BY DEF EngineInv, OrderInv, QueueShapes
<1>4. Active' = Active
  <2>1. Head(pending) \in Requests /\ ToSet(pending) = {Head(pending)} \cup ToSet(Tail(pending))
    BY <1>2, <1>3, HeadTail
  <2>2. ToSet(kept') = ToSet(kept) \cup {Head(pending)}
    BY <1>2, <1>3, <2>1, AppendSet
  <2>3. QED
    BY <1>2, <2>1, <2>2 DEF Active
<1>5. CASE r # q
  BY <1>1, <1>2, <1>4, <1>5 DEF Enters, StaysDense
<1>6. CASE r = q
  <2>1. r \in Active /\ computed[r] + 1 >= GetLen(r)
    BY <1>1, <1>6 DEF CaughtFor
  <2>2. e.n \in Nat \ {0} /\ computed'[r] = computed[r] + e.n /\ r \in Entered'
    BY <1>1, <1>6 DEF Enters, BatchEntry
  <2>3. TableCovers(r)'
    BY <1>4, <2>1 DEF EngineInv, RequestInv, HoldsFor
  <2>4. computed'[r] <= GetLen(r)
    BY <1>2, <2>2, <2>3 DEF TableCovers, GetLen
  <2>5. computed[r] \in Nat /\ GetLen(r) \in Nat
    BY LenFacts DEF EngineInv, RequestInv
  <2>6. computed'[r] = GetLen(r)
    BY <2>1, <2>2, <2>4, <2>5
  <2>7. QED
    BY <1>2, <1>4, <2>1, <2>6 DEF StaysDense
<1>7. QED
  BY <1>5, <1>6

LEMMA AdmitDoneDense ==
  ASSUME NoSpeculation, EngineInv, EngineInv', AdmitDone, Frame,
         NEW r \in Requests, DenseFor(r), out[r] # <<>>
  PROVE  StaysDense(r)
<1>1. PICK q \in Requests : allocating = {q}
  BY Members DEF AdmitDone, EngineInv
<1>2. /\ pc = "allocate" /\ pc' = "waiting" /\ waiting' = waiting /\ allocating' = {}
      /\ running' = Append(running, q) /\ out' = out
      /\ \E s : computed' = [computed EXCEPT ![q] = s]
      /\ scheduledRunning' = scheduledRunning
      /\ \E n : scheduledNew' = Append(scheduledNew, Scheduled(q, n))
  BY <1>1 DEF AdmitDone, AllocateFinish
<1>3. /\ running \in Seq(Requests) /\ DOMAIN computed = Requests
  BY DEF EngineInv, OrderInv, QueueShapes, RequestInv, EngineTypes
<1>4. r # q
  BY <1>1 DEF DenseFor
<1>5. computed'[r] = computed[r]
  BY <1>2, <1>3, <1>4
<1>6. ToSet(running') = ToSet(running) \cup {q}
  BY <1>2, <1>3, AppendSet
<1>7. r \in Active' => r \in Active
  BY <1>2, <1>4, <1>6 DEF Active
<1>8. r \in Entered' => r \in Entered
  <2>1. PICK p, e, s : Enters(p, s, e) /\ AllocateFinish(p)
    BY AdmitDoneHolds
  <2>2. p = q
    BY <1>1, <2>1 DEF AllocateFinish
  <2>3. QED
    BY <1>4, <2>1, <2>2 DEF Enters
<1>9. QED
  BY <1>2, <1>5, <1>7, <1>8 DEF StaysDense

(* A request is sampled with all its tokens computed when a recompute is    *)
(* not split; then it lacks the KV of the sampled token only.               *)
LEMMA SampleCatchesUp ==
  ASSUME NoSpeculation, EngineInv, ExecuteModel, NEW r \in Requests, r \in Sampling,
         out[r] # <<>> => computed[r] = GetLen(r)
  PROVE  /\ computed[r] = Len(Prompt[r]) + Len(out[r])
         /\ computed[r] + 1 >= GetLen(r)'
<1>1. pc = "execute" /\ Entered \subseteq Active
  BY Members DEF ExecuteModel, EngineInv
<1>2. r \in Entered /\ r \in Active /\ ~IsPrefill(r)
  BY <1>1, PassSamples
<1>3. PICK t \in Token : out'[r] = out[r] \o <<t>>
  BY PassSamples
<1>4. /\ out[r] \in Seq(Token) /\ Len(out[r]) \in Nat /\ Len(Prompt[r]) \in Nat
      /\ computed[r] \in Nat /\ GetLen(r) = Len(Prompt[r]) + Len(out[r])
  BY LenFacts DEF EngineInv, RequestInv, EngineTypes
<1>5. computed[r] = Len(Prompt[r]) + Len(out[r])
  <2>1. PICK p \in Nat, o \in Nat, g \in Nat, c \in Nat :
          /\ p = Len(Prompt[r]) /\ o = Len(out[r]) /\ g = GetLen(r) /\ c = computed[r]
    BY <1>4, LenFacts DEF EngineInv, RequestInv
  <2>2. g = p + o
    BY <1>4, <2>1
  <2>3. CASE out[r] = <<>>
    <3>1. c <= g /\ o = 0
      BY <1>2, <2>1, <2>3, EmptySeq DEF EngineInv, RequestInv, HoldsFor, TableCovers
    <3>2. c >= p
      BY <1>2, <2>1 DEF IsPrefill
    <3>3. c = p + o
      BY <2>2, <3>1, <3>2
    <3>4. QED
      BY <2>1, <3>3
  <2>4. CASE out[r] # <<>>
    BY <2>1, <2>2, <2>4
  <2>5. QED
    BY <2>3, <2>4
<1>6. GetLen(r)' = Len(Prompt[r]) + (Len(out[r]) + 1)
  BY <1>3, <1>4, Appended DEF GetLen
<1>7. \A c, p, o \in Nat : c = p + o => c + 1 >= p + (o + 1)
  OBVIOUS
<1>8. computed[r] + 1 >= Len(Prompt[r]) + (Len(out[r]) + 1)
  BY <1>4, <1>5, <1>7, Zenon
<1>9. QED
  BY <1>5, <1>6, <1>8

LEMMA SampleIsDense ==
  ASSUME NoSpeculation, EngineInv, ExecuteModel, NEW r \in Requests, Dense(r),
         r \in Sampling /\ out[r] # <<>> => computed[r] = GetLen(r)
  PROVE  Dense(r)'
<1>1. CASE r \notin Sampling
  <2>1. out'[r] = out[r]
    BY <1>1, PassSamples
  <2>2. QED
    BY <2>1 DEF Dense
<1>2. CASE r \in Sampling
  <2>1. PICK t \in Token : out'[r] = out[r] \o <<t>> /\ t.by = computed[r] - 1
    BY <1>2, PassSamples
  <2>2. PICK p \in Nat, o \in Nat : p = Len(Prompt[r]) /\ o = Len(out[r])
    BY LenFacts DEF EngineInv, RequestInv
  <2>3. out[r] \in Seq(Token)
    BY DEF EngineInv, RequestInv, EngineTypes
  <2>4. /\ Len(out'[r]) = o + 1 /\ out'[r][o + 1] = t
        /\ \A i \in 1..o : out'[r][i] = out[r][i]
    BY <2>1, <2>2, <2>3, Appended
  <2>5. t.by = p + (o + 1) - 2
    <3>1. computed[r] = p + o
      BY <1>2, <2>2, SampleCatchesUp
    <3>2. QED
      BY <2>1, <3>1
  <2>6. \A i \in 1..o : out[r][i].by = p + i - 2
    BY <2>2 DEF Dense
  <2>7. \A i \in 1..(o + 1) : out'[r][i].by = p + i - 2
    <3>1. \A i \in 1..(o + 1) : i \in 1..o \/ i = o + 1
      OBVIOUS
    <3>2. QED
      BY <2>4, <2>5, <2>6, <3>1
  <2>8. QED
    BY <2>2, <2>4, <2>7 DEF Dense
<1>3. QED
  BY <1>1, <1>2

LEMMA ExecuteModelDense ==
  ASSUME NoSpeculation, EngineInv, ExecuteModel, NEW r \in Requests, DenseFor(r)
  PROVE  DenseFor(r)'
<1>1. /\ pc = "execute" /\ pc' = "register" /\ Scheduling
      /\ UNCHANGED <<computed, waiting, running, allocating>>
  BY DEF ExecuteModel, Scheduling, bmVars, queueVars
<1>2. Active' = Active /\ Entered' = {} /\ Entered \subseteq Active
  BY <1>1, Members DEF Active, Entered, Scheduling, EngineInv
<1>3. CASE r \notin Sampling
  <2>1. out'[r] = out[r]
    BY <1>3, PassSamples
  <2>2. StaysDense(r)
    BY <1>1, <1>2 DEF StaysDense
  <2>3. QED
    BY <2>1, <2>2, StaysDenseFor
<1>4. CASE r \in Sampling
  <2>1. r \in Entered /\ r \in Active
    BY <1>2, <1>4, PassSamples
  <2>2. Dense(r)' /\ computed'[r] + 1 >= GetLen(r)'
    BY <1>1, <1>4, <2>1, SampleIsDense, SampleCatchesUp DEF DenseFor
  <2>3. r \notin ToSet(waiting') \cup allocating'
    <3>1. Active \cap ToSet(waiting) = {} /\ allocating = {}
      BY <1>1, Members DEF EngineInv, RequestInv, AllocationInv
    <3>2. QED
      BY <1>1, <2>1, <3>1
  <2>4. QED
    BY <1>2, <2>2, <2>3 DEF DenseFor
<1>5. QED
  BY <1>3, <1>4

LEMMA NextDense ==
  NoSpeculation /\ EngineInv /\ EngineInv' /\ DenseInv /\ [Next]_vars => DenseInv'
<1> SUFFICES ASSUME NoSpeculation, EngineInv, EngineInv', DenseInv, [Next]_vars
             PROVE  DenseInv'
  OBVIOUS
<1>1. \A r \in Requests \ resumed : DenseFor(r)
  BY DenseSplit
<1>2. ASSUME UNCHANGED <<out, resumed>>,
             \A r \in Requests \ resumed : StaysDense(r) \/ DenseFor(r)'
      PROVE  DenseInv'
  <2>1. \A r \in Requests \ resumed' : DenseFor(r)'
    BY <1>1, <1>2, StaysDenseFor
  <2>2. QED
    BY <2>1, DenseNext
<1>3. CASE UNCHANGED vars
  <2>1. Active' = Active /\ Entered' = Entered
    BY <1>3 DEF vars, schedVars, queueVars, stepVars, Active, Entered, Batch, Scheduling
  <2>2. UNCHANGED <<out, resumed>> /\ \A r : StaysDense(r)
    BY <1>3, <2>1 DEF vars, schedVars, bmVars, requestVars, queueVars, StaysDense
  <2>3. QED
    BY <1>2, <2>2
<1>4. CASE RegisterPrefix \/ RegisterDone \/ CorrectDone \/ StepDone
  <2>1. /\ UNCHANGED <<out, computed, resumed, waiting, running, allocating>>
        /\ pc \in {"register", "correct", "sweep"}
        /\ pc' \in {"register", "correct", "sweep", "idle"}
    BY <1>4 DEF RegisterPrefix, RegisterDone, CorrectDone, StepDone, Swept,
                InsertComputedPrefix, bmVars, requestVars, queueVars, stepVars
  <2>2. Active' = Active /\ Entered' = {}
    BY <2>1 DEF Active, Entered, Scheduling
  <2>3. QED
    BY <1>2, <2>1, <2>2 DEF StaysDense
<1>5. CASE ExecuteModel
  <2>1. resumed' = resumed
    BY <1>5 DEF ExecuteModel
  <2>2. QED
    BY <1>1, <1>5, <2>1, ExecuteModelDense, DenseNext
<1>6. CASE ScheduleStep
  <2>1. Frame
    BY <1>6 DEF ScheduleStep
  <2>2. out' = out
    BY <1>6 DEF ScheduleStep, ScheduleBegin, SkipRunning, PreemptForRunning, ScheduleRunning,
                RunningDone, AdmitWaiting, AllocateEvicts, AllocateRaises, AdmitDone,
                WaitingDone, FreeFinished, requestVars
  <2>3. ASSUME NEW r \in Requests \ resumed, out[r] # <<>>, status'[r] # "PREEMPTED"
        PROVE  StaysDense(r)
    <3>1. DenseFor(r)
      BY <1>1, <2>3
    <3>2. CASE PreemptForRunning
      BY <2>3, <3>2, PreemptDense
    <3>3. CASE ScheduleRunning
      <4>1. CaughtFor(r)
        BY <3>1 DEF DenseFor, CaughtFor
      <4>2. QED
        BY <2>1, <2>3, <3>3, <4>1, ScheduleRunningDense
    <3>4. CASE AdmitDone
      BY <2>1, <2>3, <3>1, <3>4, AdmitDoneDense
    <3>5. CASE \/ ScheduleBegin \/ SkipRunning \/ RunningDone \/ WaitingDone
               \/ AllocateEvicts \/ AllocateRaises
      BY <3>5, QuietScheduleSettled, SettledDense
    <3>6. CASE AdmitWaiting \/ FreeFinished
      BY <3>6, AdmitWaitingSettled, FreeFinishedSettled, SettledDense
    <3>7. QED
      BY <1>6, <3>2, <3>3, <3>4, <3>5, <3>6 DEF ScheduleStep
  <2>4. QED
    BY <2>1, <2>2, <2>3, FrameDense
<1>7. ASSUME NEW q \in Requests, AddRequest(q), Frame
      PROVE  DenseInv'
  <2>1. out' = [out EXCEPT ![q] = <<>>] /\ DOMAIN out = Requests
    BY <1>7 DEF AddRequest, EngineInv, RequestInv, EngineTypes
  <2>2. \A r \in Requests : out'[r] = out[r] \/ out'[r] = <<>>
    BY <2>1
  <2>3. \A r \in Requests \ resumed :
          out[r] # <<>> /\ out'[r] = out[r] /\ status'[r] # "PREEMPTED" => StaysDense(r)
    BY <1>7, <2>1, AddRequestDense
  <2>4. QED
    BY <1>7, <2>2, <2>3, FrameDense
<1>8. ASSUME NEW q \in Requests, AbortRequest(q), Frame
      PROVE  DenseInv'
  <2>1. out' = out /\ \A r : StaysDense(r)
    BY <1>8, AbortSettled, SettledDense DEF AbortRequest
  <2>2. QED
    BY <1>8, <2>1, FrameDense
<1>9. QED
  BY <1>3, <1>4, <1>5, <1>6, <1>7, <1>8, NoDraftSteps
     DEF Next, EngineStep, ForwardStep, DraftStep, Submit, Cancel

(* Batching, chunked prefill and prefix reuse do not change what a request  *)
(* generates that was not preempted after its first token: each token is    *)
(* sampled from the row of the token before it.                             *)
THEOREM OutputsMatchDense ==
  ASSUME NoSpeculation
  PROVE  Spec => []UnpreemptedOutputsAreDense
<1>1. Init => DenseInv
  <2> SUFFICES ASSUME Init PROVE DenseInv
    OBVIOUS
  <2>1. /\ out = [r \in Requests |-> <<>>] /\ ToSet(waiting) = {} /\ allocating = {}
        /\ Active = {}
    BY EmptyIsSeq DEF Init, SchedulerInit, BMInit, Active
  <2>2. \A r \in Requests : Len(out[r]) = 0
    BY <2>1, EmptySeq
  <2>3. QED
    BY <2>1, <2>2 DEF DenseInv, Dense
<1>2. NoSpeculation /\ EngineInv /\ EngineInv' /\ DenseInv /\ [Next]_vars => DenseInv'
  BY NextDense
<1>3. DenseInv => UnpreemptedOutputsAreDense
  BY DEF DenseInv, UnpreemptedOutputsAreDense
<1>4. NoSpeculation
  OBVIOUS
<1>5. QED
  BY <1>1, <1>2, <1>3, <1>4, EngineInvariant, PTL DEF Spec

(* Between steps a decoding request lacks the KV of its last token and of   *)
(* no other, no output goes beyond an eos or max_tokens, and the KV that    *)
(* counts is the request's own.                                             *)
THEOREM StepEndsExactly ==
  ASSUME NoSpeculation
  PROVE  Spec => []CorrectionIsExact
<1>1. Init => StopInv /\ DenseInv
  <2> SUFFICES ASSUME Init PROVE StopInv /\ DenseInv
    OBVIOUS
  <2>1. /\ out = [r \in Requests |-> <<>>] /\ ToSet(waiting) = {} /\ allocating = {}
        /\ Active = {}
    BY EmptyIsSeq DEF Init, SchedulerInit, BMInit, Active
  <2>2. \A r \in Requests : Len(out[r]) = 0
    BY <2>1, EmptySeq
  <2>3. QED
    BY <2>1, <2>2 DEF StopInv, DenseInv, Dense
<1>2. /\ NoSpeculation /\ EngineInv /\ EngineInv' /\ StopInv /\ [Next]_vars => StopInv'
      /\ NoSpeculation /\ EngineInv /\ EngineInv' /\ DenseInv /\ [Next]_vars => DenseInv'
  BY NextStop, NextDense
<1>3. EngineInv /\ StopInv /\ DenseInv /\ KVIsCorrect => CorrectionIsExact
  <2> SUFFICES ASSUME EngineInv, StopInv, DenseInv, KVIsCorrect PROVE CorrectionIsExact
    OBVIOUS
  <2>1. OutputsEndAtStop
    BY DEF StopInv, OutputsEndAtStop
  <2>2. ASSUME pc = "idle", NEW r \in ToSet(running) \ resumed, out[r] # <<>>
        PROVE  computed[r] = GetLen(r) - 1
    <3>1. r \in Active /\ r \in Requests /\ Entered = {}
      BY <2>2, Members DEF Active, Entered, Scheduling, EngineInv
    <3>2. computed[r] + 1 >= GetLen(r)
      BY <2>2, <3>1 DEF DenseInv
    <3>3. computed[r] < GetLen(r) /\ computed[r] \in Nat /\ GetLen(r) \in Nat
      BY <3>1, LenFacts DEF EngineInv, RequestInv, HoldsFor, TableCovers
    <3>4. QED
      BY <3>2, <3>3
  <2>3. VerifiedKVIsOwn
    BY DEF KVIsCorrect, KVBelongsToRequest, VerifiedKVIsOwn
  <2>4. QED
    BY <2>1, <2>2, <2>3 DEF OneTokenBehind, CorrectionIsExact
<1>4. NoSpeculation
  OBVIOUS
<1>5. QED
  BY <1>1, <1>2, <1>3, <1>4, EngineInvariant, CacheIsCorrect, PTL DEF Spec

-----------------------------------------------------------------------------
(* Recompute after a preemption *)

(* No chunk of a recompute ends between the prompt and the last token.      *)
RecomputeIsWhole ==
  pc = "execute" =>
    \A e \in ToSet(Batch) :
      out[e.req] # <<>> /\ ~IsPrefill(e.req) => computed[e.req] = GetLen(e.req)

LEMMA NextAllDense ==
  /\ NoSpeculation /\ EngineInv /\ RecomputeIsWhole /\ OutputsAreDense /\ [Next]_vars
  => OutputsAreDense'
<1> SUFFICES ASSUME NoSpeculation, EngineInv, RecomputeIsWhole, OutputsAreDense, [Next]_vars,
                    NEW r \in Requests
             PROVE  Dense(r)'
  BY DEF OutputsAreDense
<1>1. Dense(r)
  BY DEF OutputsAreDense
<1>2. CASE out'[r] = out[r]
  BY <1>1, <1>2 DEF Dense
<1>3. CASE ExecuteModel
  <2>1. r \in Sampling => r \in Entered /\ ~IsPrefill(r) /\ pc = "execute"
    BY <1>3, PassSamples DEF ExecuteModel
  <2>2. r \in Sampling /\ out[r] # <<>> => computed[r] = GetLen(r)
    BY <2>1 DEF RecomputeIsWhole, Entered, Scheduling
  <2>3. QED
    BY <1>1, <1>3, <2>2, SampleIsDense
<1>4. ASSUME NEW q \in Requests, AddRequest(q)
      PROVE  Dense(r)'
  <2>1. out' = [out EXCEPT ![q] = <<>>] /\ DOMAIN out = Requests
    BY <1>4 DEF AddRequest, EngineInv, RequestInv, EngineTypes
  <2>2. CASE r = q
    <3>1. Len(out'[r]) = 0
      BY <2>1, <2>2, EmptySeq
    <3>2. QED
      BY <3>1 DEF Dense
  <2>3. QED
    BY <1>2, <2>1, <2>2
<1>5. CASE out' = out
  BY <1>2, <1>5
<1>6. QED
  BY <1>3, <1>4, <1>5, OutputSteps DEF KeepsOutputs, vars, schedVars, requestVars, AbortRequest

(* What keeps outputs equal to dense decoding through preemption: only a    *)
(* recompute that the token budget splits after the prompt can make         *)
(* execute_model record a token sampled from an old position.               *)
THEOREM OnlySplitRecomputesDiffer ==
  ASSUME NoSpeculation
  PROVE  Spec /\ []RecomputeIsWhole => []OutputsAreDense
<1>1. Init => OutputsAreDense
  <2> SUFFICES ASSUME Init PROVE OutputsAreDense
    OBVIOUS
  <2>1. \A r \in Requests : Len(out[r]) = 0
    BY EmptySeq DEF Init, SchedulerInit
  <2>2. QED
    BY <2>1 DEF OutputsAreDense, Dense
<1>2. NoSpeculation
  OBVIOUS
<1>3. QED
  BY <1>1, <1>2, NextAllDense, EngineInvariant, PTL DEF Spec

(* A budget in which every seat's recompute fits at once.                   *)
BudgetFitsEveryone == MaxNumSeqs * MaxLen <= MaxNumBatchedTokens

(* A seat is free while a request is admitted, and every running request    *)
(* with output lacks the KV of one token, or of none once scheduled.        *)
WholeInv ==
  /\ pc = "allocate" => Len(running) < MaxNumSeqs
  /\ \A r \in Requests : CaughtFor(r)

LEMMA LengthBound ==
  ASSUME EngineInv, NEW r \in Requests
  PROVE  GetLen(r) <= MaxLen /\ MaxLen \in Nat \ {0}
<1>1. /\ Len(Prompt[r]) \in Nat \ {0} /\ Len(out[r]) \in Nat /\ MaxTokens[r] \in Nat
      /\ GetLen(r) = Len(Prompt[r]) + Len(out[r])
  BY LenFacts DEF EngineInv, RequestInv
<1>2. /\ Len(out[r]) <= MaxTokens[r] /\ NumSpecTokens \in Nat /\ MaxLen \in Nat
      /\ Len(Prompt[r]) + MaxTokens[r] + NumSpecTokens <= MaxLen
  BY SchedulerAssumption, ConfigAssumption DEF EngineInv, RequestInv, HoldsFor
<1>3. \A p \in Nat \ {0}, o, t, k, m, g \in Nat :
        g = p + o /\ o <= t /\ p + t + k <= m => g <= m /\ m # 0
  OBVIOUS
<1>4. GetLen(r) \in Nat
  BY LenFacts DEF EngineInv, RequestInv
<1>5. QED
  BY <1>1, <1>2, <1>3, <1>4, Zenon

LEMMA QueueSize ==
  ASSUME NEW S, NEW s \in Seq(S)
  PROVE  IsFiniteSet(ToSet(s)) /\ Cardinality(ToSet(s)) <= Len(s)
<1> DEFINE n == Len(s)
           f == [i \in 1..n |-> s[i]]
<1>1. n \in Nat /\ DOMAIN s = 1..n
  BY LenProperties
<1>2. f \in Surjection(1..n, ToSet(s))
  BY <1>1 DEF Surjection, ToSet
<1>3. IsFiniteSet(1..n) /\ Cardinality(1..n) = n
  <2>1. PICK m \in Nat : m = n
    BY <1>1
  <2>2. IsFiniteSet(1..m) /\ Cardinality(1..m) = m
    BY FS_Interval
  <2>3. QED
    BY <2>1, <2>2
<1>4. QED
  BY <1>2, <1>3, FS_Surjection

(* As long as a seat is free, the budget that is left fits any request.     *)
LEMMA RoomForOne ==
  ASSUME EngineInv, BudgetFitsEveryone, pc = "allocate", Len(running) < MaxNumSeqs
  PROVE  \A r \in Requests : GetLen(r) <= budget
<1> DEFINE Wide == ToSet(running) \X (0..(MaxLen - 1))
<1>1. SUFFICES ASSUME NEW x \in Requests PROVE GetLen(x) <= budget
  OBVIOUS
<1>2. GetLen(x) <= MaxLen /\ MaxLen \in Nat \ {0}
  BY LengthBound
<1>3. running \in Seq(Requests) /\ Len(running) \in Nat
  BY LenProperties DEF EngineInv, OrderInv, QueueShapes
<1>4. /\ IsFiniteSet(Rows) /\ Cardinality(Rows) + budget = MaxNumBatchedTokens
      /\ \A e \in ToSet(Batch) : e.n <= computed[e.req]
  BY DEF EngineInv, RequestInv, BatchInv, Scheduling
<1>5. Rows \subseteq Wide
  <2> SUFFICES ASSUME NEW e \in ToSet(Batch), NEW p \in Start(e)..(computed[e.req] - 1)
               PROVE  <<e.req, p>> \in Wide
    BY DEF Rows
  <2>1. e.req \in Entered /\ e.req \in Active /\ Active = ToSet(running)
    BY Members DEF EngineInv, Entered, Scheduling, Active
  <2>2. PICK r \in Requests : r = e.req
    BY <2>1, Members DEF EngineInv
  <2>3. computed[r] <= GetLen(r)
    BY <2>1, <2>2 DEF EngineInv, RequestInv, HoldsFor, TableCovers
  <2>4. computed[r] \in Nat /\ GetLen(r) \in Nat /\ GetLen(r) <= MaxLen
    BY LenFacts, LengthBound DEF EngineInv, RequestInv
  <2>5. e.n \in Nat /\ e.n <= computed[r]
    <3>1. Batch \in Seq(BatchEntry)
      BY ConcatProperties DEF EngineInv, RequestInv, EngineTypes, Batch
    <3>2. e \in BatchEntry
      BY <3>1, ToSetType
    <3>3. QED
      BY <1>4, <2>2, <3>2 DEF BatchEntry
  <2>6. p \in 0..(MaxLen - 1)
    <3>1. p \in (computed[r] - e.n)..(computed[r] - 1)
      BY <2>2 DEF Start
    <3>2. QED
      BY <1>2, <2>3, <2>4, <2>5, <3>1
  <2>7. QED
    BY <2>1, <2>6
<1>6. /\ IsFiniteSet(ToSet(running)) /\ Cardinality(ToSet(running)) <= Len(running)
      /\ IsFiniteSet(0..(MaxLen - 1)) /\ Cardinality(0..(MaxLen - 1)) = MaxLen
  <2>1. IsFiniteSet(0..(MaxLen - 1)) /\ Cardinality(0..(MaxLen - 1)) = MaxLen
    <3>1. 0 \in Int /\ MaxLen - 1 \in Int /\ ~(0 > MaxLen - 1) /\ (MaxLen - 1) - 0 + 1 = MaxLen
      BY <1>2
    <3>2. QED
      BY <3>1, FS_Interval
  <2>2. QED
    BY <1>3, <2>1, QueueSize
<1>7. IsFiniteSet(Wide) /\ Cardinality(Wide) = Cardinality(ToSet(running)) * MaxLen
  BY <1>6, FS_Product
<1>8. Cardinality(Rows) <= Cardinality(Wide)
  BY <1>5, <1>7, FS_Subset
<1>9. PICK k \in Nat : k = Cardinality(ToSet(running))
  BY <1>6, FS_CardinalityType
<1>10. MaxNumSeqs \in Nat /\ MaxNumBatchedTokens \in Nat /\ budget \in Nat
  BY SchedulerAssumption DEF SchedulerConfig, EngineInv, RequestInv, EngineTypes
<1>11. k < MaxNumSeqs
  BY <1>3, <1>6, <1>9, <1>10
<1>12. k * MaxLen + MaxLen <= MaxNumSeqs * MaxLen
  BY <1>2, <1>9, <1>10, <1>11, MulMono
<1>13. PICK m \in Nat, t \in Nat, c \in Nat :
         m = k * MaxLen /\ t = MaxNumSeqs * MaxLen /\ c = Cardinality(Rows)
  BY <1>2, <1>4, <1>9, <1>10, MulType, FS_CardinalityType
<1>14. c <= m /\ m + MaxLen <= t /\ t <= MaxNumBatchedTokens /\ c + budget = MaxNumBatchedTokens
  BY <1>4, <1>7, <1>8, <1>9, <1>12, <1>13 DEF BudgetFitsEveryone
<1>15. MaxLen <= budget
  BY <1>2, <1>10, <1>13, <1>14
<1>16. GetLen(x) \in Nat
  BY LenFacts DEF EngineInv, RequestInv
<1>17. QED
  BY <1>2, <1>10, <1>15, <1>16

LEMMA StaysCaught ==
  ASSUME EngineInv, NEW r \in Requests, CaughtFor(r), out'[r] = out[r], StaysDense(r)
  PROVE  CaughtFor(r)'
<1>1. GetLen(r)' = GetLen(r) /\ GetLen(r) \in Nat
  BY LenFacts DEF GetLen, EngineInv, RequestInv
<1>2. QED
  BY <1>1 DEF CaughtFor, StaysDense

LEMMA AdmitDoneWhole ==
  ASSUME NoSpeculation, BudgetFitsEveryone, EngineInv, EngineInv', WholeInv, AdmitDone, Frame,
         NEW r \in Requests
  PROVE  CaughtFor(r)'
<1>1. PICK q, e, s : Enters(q, s, e) /\ AllocateFinish(q)
  BY AdmitDoneHolds
<1>2. PICK h \in Requests : allocating = {h} /\ h \notin Active
  BY Members DEF AdmitDone, EngineInv
<1>3. q = h /\ q \in Requests
  BY <1>1, <1>2 DEF AllocateFinish
<1>4. /\ pc = "allocate" /\ pc' = "waiting" /\ running' = Append(running, q) /\ out' = out
      /\ running \in Seq(Requests)
  BY <1>2, <1>3 DEF AdmitDone, EngineInv, OrderInv, QueueShapes
<1>5. Active' = Active \cup {q}
  <2>1. ToSet(running') = ToSet(running) \cup {q}
    BY <1>3, <1>4, AppendSet
  <2>2. QED
    BY <1>4, <2>1 DEF Active
<1>6. GetLen(r)' = GetLen(r)
  BY <1>4 DEF GetLen
<1>7. CASE r # q
  BY <1>1, <1>4, <1>5, <1>6, <1>7 DEF Enters, WholeInv, CaughtFor
<1>8. CASE r = q
  <2>1. /\ r \in Active' /\ r \in Entered' /\ s \in Nat /\ e.n \in Nat
        /\ computed'[r] = s + e.n /\ budget' = budget - e.n
        /\ computed'[r] = GetLen(r) \/ budget' = 0
    BY <1>1, <1>5, <1>8 DEF Enters, BatchEntry
  <2>2. computed'[r] <= GetLen(r)
    BY <1>6, <2>1 DEF EngineInv, RequestInv, HoldsFor, TableCovers
  <2>3. GetLen(r) <= budget /\ GetLen(r) \in Nat /\ budget \in Nat
    BY <1>4, RoomForOne, LenFacts DEF WholeInv, EngineInv, RequestInv, EngineTypes
  <2>4. computed'[r] = GetLen(r)
    <3>1. PICK g \in Nat, b \in Nat, n \in Nat : g = GetLen(r) /\ b = budget /\ n = e.n
      BY <2>1, <2>3
    <3>2. CASE budget' = 0
      <4>1. 0 = b - n
        BY <2>1, <3>1, <3>2
      <4>2. s + n <= g /\ g <= b
        BY <2>1, <2>2, <2>3, <3>1
      <4>3. s + n = g
        BY <2>1, <4>1, <4>2
      <4>4. QED
        BY <2>1, <3>1, <4>3
    <3>3. QED
      BY <2>1, <3>2
  <2>5. QED
    BY <1>6, <2>1, <2>3, <2>4 DEF CaughtFor
<1>9. QED
  BY <1>7, <1>8

LEMMA ExecuteModelWhole ==
  ASSUME NoSpeculation, EngineInv, ExecuteModel, NEW r \in Requests, CaughtFor(r)
  PROVE  CaughtFor(r)'
<1>1. /\ pc = "execute" /\ pc' = "register" /\ Scheduling
      /\ UNCHANGED <<computed, waiting, running, allocating>>
  BY DEF ExecuteModel, Scheduling, bmVars, queueVars
<1>2. Active' = Active /\ Entered' = {} /\ Entered \subseteq Active
  BY <1>1, Members DEF Active, Entered, Scheduling, EngineInv
<1>3. CASE r \notin Sampling
  <2>1. out'[r] = out[r]
    BY <1>3, PassSamples
  <2>2. QED
    BY <1>1, <1>2, <2>1 DEF CaughtFor, GetLen
<1>4. CASE r \in Sampling
  <2>1. r \in Entered /\ r \in Active
    BY <1>2, <1>4, PassSamples
  <2>2. computed[r] + 1 >= GetLen(r)'
    BY <1>1, <1>4, <2>1, SampleCatchesUp DEF CaughtFor
  <2>3. QED
    BY <1>1, <1>2, <2>2 DEF CaughtFor
<1>5. QED
  BY <1>3, <1>4

LEMMA PreemptWhole ==
  ASSUME EngineInv, EngineInv', PreemptForRunning, NEW r \in Requests, CaughtFor(r)
  PROVE  CaughtFor(r)'
<1>1. /\ pc = "running" /\ pc' = "running" /\ pending # <<>> /\ out' = out
      /\ status' = [status EXCEPT ![Last(pending)] = "PREEMPTED"]
      /\ waiting' = <<Last(pending)>> \o waiting
  BY DEF PreemptForRunning, Deciding, Victim, Requeue
<1>2. /\ pending \in Seq(Requests) /\ waiting \in Seq(Requests) /\ DOMAIN status = Requests
  BY DEF EngineInv, OrderInv, QueueShapes
<1>3. PICK v \in Requests : v = Last(pending)
  BY <1>1, <1>2, FrontLast
<1>4. CASE r = v
  <2>1. status'[r] = "PREEMPTED"
    BY <1>1, <1>2, <1>3, <1>4
  <2>2. r \notin Active'
    BY <2>1 DEF EngineInv, RequestInv, HoldsFor, FINISHED
  <2>3. QED
    BY <2>2 DEF CaughtFor
<1>5. CASE r # v /\ status[r] # "PREEMPTED"
  <2>1. status'[r] # "PREEMPTED"
    BY <1>1, <1>2, <1>3, <1>5
  <2>2. QED
    BY <1>1, <2>1, PreemptDense, StaysCaught
<1>6. CASE r # v /\ status[r] = "PREEMPTED"
  <2>1. status'[r] = "PREEMPTED"
    BY <1>1, <1>2, <1>3, <1>6
  <2>2. r \notin Active'
    BY <2>1 DEF EngineInv, RequestInv, HoldsFor, FINISHED
  <2>3. QED
    BY <2>2 DEF CaughtFor
<1>7. QED
  BY <1>4, <1>5, <1>6

LEMMA NextWhole ==
  /\ NoSpeculation /\ BudgetFitsEveryone /\ EngineInv /\ EngineInv' /\ WholeInv /\ [Next]_vars
  => WholeInv'
<1> SUFFICES ASSUME NoSpeculation, BudgetFitsEveryone, EngineInv, EngineInv', WholeInv,
                    [Next]_vars
             PROVE  WholeInv'
  OBVIOUS
<1>1. (pc = "allocate" => Len(running) < MaxNumSeqs)'
  <2>1. CASE UNCHANGED <<pc, running>>
    BY <2>1 DEF WholeInv
  <2>2. CASE AdmitWaiting
    BY <2>2 DEF AdmitWaiting, HeadAdmissible, Admissible
  <2>3. CASE pc' # "allocate"
    BY <2>3
  <2>4. QED
    BY <2>1, <2>2, <2>3, NoDraftSteps
       DEF vars, schedVars, queueVars, stepVars, Next, EngineStep, ScheduleStep, ForwardStep,
           DraftStep, Submit, Cancel, AddRequest, AbortRequest, ScheduleBegin, SkipRunning,
           PreemptForRunning, Deciding, ScheduleRunning, RunningDone, AllocateEvicts,
           AllocateRaises, AdmitDone, WaitingDone, FreeFinished, ExecuteModel,
           RegisterPrefix, RegisterDone, CorrectDone, StepDone
<1>2. ASSUME NEW r \in Requests PROVE CaughtFor(r)'
  <2>1. CaughtFor(r)
    BY DEF WholeInv
  <2>2. CASE out'[r] = out[r] /\ StaysDense(r)
    BY <2>1, <2>2, StaysCaught
  <2>3. CASE out'[r] = <<>>
    BY <2>3 DEF CaughtFor
  <2>4. CASE UNCHANGED vars
    <3>1. Active' = Active /\ Entered' = Entered
      BY <2>4 DEF vars, schedVars, queueVars, stepVars, Active, Entered, Batch, Scheduling
    <3>2. QED
      BY <2>2, <2>4, <3>1 DEF vars, schedVars, bmVars, requestVars, queueVars, StaysDense
  <2>5. CASE RegisterPrefix \/ RegisterDone \/ CorrectDone \/ StepDone
    <3>1. /\ UNCHANGED <<out, computed, resumed, waiting, running, allocating>>
          /\ pc \in {"register", "correct", "sweep"}
          /\ pc' \in {"register", "correct", "sweep", "idle"}
      BY <2>5 DEF RegisterPrefix, RegisterDone, CorrectDone, StepDone, Swept,
                  InsertComputedPrefix, bmVars, requestVars, queueVars, stepVars
    <3>2. Active' = Active /\ Entered' = {}
      BY <3>1 DEF Active, Entered, Scheduling
    <3>3. QED
      BY <2>2, <3>1, <3>2 DEF StaysDense
  <2>6. CASE ExecuteModel
    BY <2>1, <2>6, ExecuteModelWhole
  <2>7. CASE PreemptForRunning
    BY <2>1, <2>7, PreemptWhole
  <2>8. CASE ScheduleRunning /\ Frame
    <3>1. out' = out
      BY <2>8 DEF ScheduleRunning
    <3>2. QED
      BY <2>1, <2>2, <2>3, <2>8, <3>1, ScheduleRunningDense
  <2>9. CASE AdmitDone /\ Frame
    BY <2>9, AdmitDoneWhole
  <2>10. CASE \/ ScheduleBegin \/ SkipRunning \/ RunningDone \/ WaitingDone
              \/ AllocateEvicts \/ AllocateRaises
    <3>1. out' = out
      BY <2>10 DEF ScheduleBegin, SkipRunning, RunningDone, WaitingDone, AllocateEvicts,
                   AllocateRaises, requestVars
    <3>2. QED
      BY <2>2, <2>10, <3>1, QuietScheduleSettled, SettledDense
  <2>11. CASE AdmitWaiting \/ FreeFinished
    <3>1. out' = out
      BY <2>11 DEF AdmitWaiting, FreeFinished, requestVars
    <3>2. QED
      BY <2>2, <2>11, <3>1, AdmitWaitingSettled, FreeFinishedSettled, SettledDense
  <2>12. ASSUME NEW q \in Requests, AddRequest(q)
         PROVE  CaughtFor(r)'
    <3>1. out' = [out EXCEPT ![q] = <<>>] /\ DOMAIN out = Requests
      BY <2>12 DEF AddRequest, EngineInv, RequestInv, EngineTypes
    <3>2. CASE r = q
      BY <2>3, <3>1, <3>2
    <3>3. CASE r # q
      BY <2>2, <2>12, <3>1, <3>3, AddRequestDense
    <3>4. QED
      BY <3>2, <3>3
  <2>13. ASSUME NEW q \in Requests, AbortRequest(q)
         PROVE  CaughtFor(r)'
    BY <2>2, <2>13, AbortSettled, SettledDense DEF AbortRequest
  <2>14. QED
    BY <2>4, <2>5, <2>6, <2>7, <2>8, <2>9, <2>10, <2>11, <2>12, <2>13, NoDraftSteps
       DEF Next, EngineStep, ScheduleStep, ForwardStep, DraftStep, Submit, Cancel
<1>3. QED
  BY <1>1, <1>2 DEF WholeInv

LEMMA WholeRecompute == EngineInv /\ WholeInv => RecomputeIsWhole
<1> SUFFICES ASSUME EngineInv, WholeInv, pc = "execute", NEW e \in ToSet(Batch),
                    out[e.req] # <<>>
             PROVE  computed[e.req] = GetLen(e.req)
  BY DEF RecomputeIsWhole
<1>1. e.req \in Entered /\ e.req \in Active /\ e.req \in Requests
  BY Members DEF Entered, Scheduling, EngineInv
<1>2. QED
  BY <1>1 DEF WholeInv, CaughtFor

(* model/tests/test_llm_engine.py compares with dense decoding: batching,   *)
(* chunked prefill, prefix reuse and preemption do not change what is       *)
(* generated when max_num_batched_tokens fits every seat's recompute.       *)
THEOREM OutputsAlwaysDense ==
  ASSUME NoSpeculation, BudgetFitsEveryone
  PROVE  Spec => []OutputsAreDense
<1>1. Init => WholeInv
  BY DEF Init, SchedulerInit, WholeInv, CaughtFor
<1>2. EngineInv /\ WholeInv => RecomputeIsWhole
  BY WholeRecompute
<1>3. NoSpeculation /\ BudgetFitsEveryone
  OBVIOUS
<1>4. Spec => []RecomputeIsWhole
  BY <1>1, <1>2, <1>3, NextWhole, EngineInvariant, PTL DEF Spec
<1>5. QED
  BY <1>3, <1>4, OnlySplitRecomputesDiffer, PTL

-----------------------------------------------------------------------------
(* Every running request advances *)

LEMMA ProgressTypes ==
  ASSUME EngineInv
  PROVE  /\ MaxNumBatchedTokens \in Nat /\ budget \in Nat
         /\ kept \in Seq(Requests) /\ pending \in Seq(Requests) /\ running \in Seq(Requests)
         /\ Len(kept) \in Nat /\ Len(pending) \in Nat /\ Len(running) \in Nat
         /\ ToSet(kept) \subseteq Requests /\ ToSet(pending) \subseteq Requests
         /\ ToSet(running) \subseteq Requests
         /\ DOMAIN computed = Requests /\ DOMAIN out = Requests
<1>1. kept \in Seq(Requests) /\ pending \in Seq(Requests) /\ running \in Seq(Requests)
  BY DEF EngineInv, OrderInv, QueueShapes
<1>2. budget \in Nat /\ DOMAIN computed = Requests /\ DOMAIN out = Requests
  BY DEF EngineInv, RequestInv, EngineTypes
<1>3. MaxNumBatchedTokens \in Nat
  BY SchedulerAssumption DEF SchedulerConfig
<1>4. QED
  BY <1>1, <1>2, <1>3, ToSetType, LenProperties

LEMMA SameProgress ==
  ASSUME NEW r, computed'[r] = computed[r], out'[r] = out[r]
  PROVE  (OneBehind(r)' <=> OneBehind(r)) /\ (CaughtUp(r)' <=> CaughtUp(r))
BY DEF OneBehind, CaughtUp, GetLen

LEMMA ScheduleBeginProgress ==
  ASSUME EngineInv, ProgressInv, ScheduleBegin
  PROVE  ProgressInv'
<1>1. /\ pc = "idle" /\ pc' = "running" /\ pending' = running /\ kept' = <<>>
      /\ budget' = MaxNumBatchedTokens /\ UNCHANGED <<computed, out>>
  BY DEF ScheduleBegin, requestVars
<1>2. OutsideSchedule
  BY <1>1 DEF ProgressInv
<1>3. Len(kept') = 0 /\ ToSet(kept') = {}
  BY <1>1, EmptySeq, EmptyIsSeq
<1>4. InRunningLoop'
  BY <1>1, <1>2, <1>3, ProgressTypes, SameProgress DEF InRunningLoop, OutsideSchedule
<1>5. QED
  BY <1>1, <1>4 DEF ProgressInv

(* The first of the pending requests has a token to compute.                *)
LEMMA HeadHasWork ==
  ASSUME EngineInv, pc = "running", pending # <<>>
  PROVE  /\ Head(pending) \in ToSet(pending) /\ Head(pending) \notin ToSet(kept)
         /\ Head(pending) \notin Entered
         /\ computed[Head(pending)] < GetLen(Head(pending))
<1>1. PICK r \in Requests : r = Head(pending) /\ r \in ToSet(pending)
  <2>1. pending \in Seq(Requests)
    BY ProgressTypes
  <2>2. Head(pending) \in Requests /\ ToSet(pending) = {Head(pending)} \cup ToSet(Tail(pending))
    BY <2>1, HeadTail
  <2>3. QED
    BY <2>2
<1>2. r \notin ToSet(kept) /\ r \notin Entered /\ r \in Active
  BY <1>1, Members DEF EngineInv, Active
<1>3. TableCovers(r)
  BY <1>2 DEF EngineInv, RequestInv, HoldsFor
<1>4. QED
  BY <1>1, <1>2, <1>3 DEF TableCovers

LEMMA NobodyIsSkipped ==
  ASSUME NoSpeculation, EngineInv, ProgressInv
  PROVE  ~SkipRunning
<1> SUFFICES ASSUME SkipRunning PROVE FALSE
  OBVIOUS
<1>1. /\ pc = "running" /\ pending # <<>>
      /\ NumNew(Head(pending)) <= 0 \/ budget <= 0
  BY DEF SkipRunning
<1>2. Len(pending) <= budget
  BY <1>1 DEF ProgressInv, InRunningLoop
<1>3. budget \in Nat /\ budget > 0
  <2>1. Len(pending) \in Nat /\ Len(pending) # 0 /\ budget \in Nat
    BY <1>1, ProgressTypes, EmptySeq
  <2>2. QED
    BY <1>2, <2>1
<1>4. PICK r \in Requests : r = Head(pending) /\ computed[r] < GetLen(r)
  BY <1>1, HeadHasWork, ProgressTypes
<1>5. computed[r] \in Nat /\ GetLen(r) \in Nat /\ draft[r] = 0
  BY LenFacts DEF EngineInv, RequestInv
<1>6. NumNew(r) > 0
  BY <1>4, <1>5 DEF NumNew, GetNumNewTokens
<1>7. NumNew(r) \in Int
  BY <1>5 DEF NumNew, GetNumNewTokens
<1>8. QED
  BY <1>1, <1>3, <1>4, <1>6, <1>7

LEMMA ScheduleRunningProgress ==
  ASSUME NoSpeculation, EngineInv, EngineInv', ProgressInv, ScheduleRunning, Frame
  PROVE  ProgressInv'
<1>1. PICK r \in Requests, e \in BatchEntry :
        Enters(r, computed[r], e) /\ r = Head(pending)
  <2>1. PICK q, e : Enters(q, computed[q], e)
    BY ScheduleRunningHolds
  <2>2. computed'[q] # computed[q] /\ q \in Requests /\ e \in BatchEntry
    <3>1. /\ q \in Requests /\ e \in BatchEntry /\ computed'[q] = computed[q] + e.n
          /\ computed[q] \in Nat /\ e.n \in Nat \ {0}
      BY <2>1 DEF Enters, BatchEntry
    <3>2. QED
      BY <3>1
  <2>3. \E p \in Requests : /\ p = Head(pending)
                            /\ \E k : computed' = [computed EXCEPT ![p] = k]
    BY DEF ScheduleRunning, Deciding
  <2>4. q = Head(pending)
    BY <2>2, <2>3, ProgressTypes
  <2>5. QED
    BY <2>1, <2>2, <2>4
<1>2. /\ pc = "running" /\ pc' = "running" /\ pending # <<>>
      /\ kept' = Append(kept, r) /\ pending' = Tail(pending)
  BY <1>1 DEF ScheduleRunning, Deciding
<1>3. InRunningLoop
  BY <1>2 DEF ProgressInv
<1>4. /\ kept \in Seq(Requests) /\ pending \in Seq(Requests) /\ NoDup(pending)
      /\ ToSet(kept) \cap ToSet(pending) = {}
  BY <1>2, Members, ProgressTypes DEF EngineInv
<1>5. /\ ToSet(pending) = {r} \cup ToSet(pending') /\ r \notin ToSet(pending')
      /\ ToSet(kept') = ToSet(kept) \cup {r}
      /\ Len(kept') = Len(kept) + 1 /\ Last(kept') = r
  <2>1. ToSet(pending) = {r} \cup ToSet(pending')
    BY <1>1, <1>2, <1>4, HeadTail
  <2>2. PICK t \in Seq(Requests) : t = Tail(pending) /\ pending = <<r>> \o t
    BY <1>1, <1>2, <1>4, HeadTail
  <2>3. <<r>> \in Seq(Requests) /\ ToSet(<<r>>) = {r}
    BY DEF ToSet
  <2>4. ToSet(<<r>>) \cap ToSet(t) = {}
    <3>1. PICK h \in Seq(Requests) : h = <<r>>
      BY <2>3
    <3>2. NoDup(h \o t)
      BY <1>4, <2>2, <3>1
    <3>3. QED
      BY <3>1, <3>2, ConcatSet
  <2>5. QED
    BY <1>2, <1>4, <2>1, <2>2, <2>3, <2>4, AppendSet, LastOfAppend
<1>6. /\ Len(pending') = Len(pending) - 1 /\ Len(pending) \in Nat \ {0}
      /\ pending' # <<>> => Last(pending') = Last(pending) /\ r # Last(pending)
  BY <1>1, <1>2, <1>4, LastOfTail
<1>7. /\ e.n \in Nat \ {0} /\ budget' = budget - e.n /\ budget \in Nat /\ budget' \in Nat
      /\ Len(kept) \in Nat /\ MaxNumBatchedTokens \in Nat
      /\ computed'[r] = computed[r] + e.n /\ r \in Entered' /\ Entered \subseteq Entered'
      /\ computed'[r] = GetLen(r) \/ budget' = 0
      /\ out' = out
      /\ computed[r] \in Nat /\ GetLen(r) \in Nat
      /\ \A q \in Requests \ {r} : computed'[q] = computed[q]
  BY <1>1, ProgressTypes, LenFacts DEF Enters, BatchEntry, EngineInv, RequestInv, EngineTypes
<1>8. GetLen(r)' = GetLen(r)
  BY <1>7 DEF GetLen
<1>9. pending' # <<>> => e.n = 1
  <2>1. SUFFICES ASSUME pending' # <<>> PROVE e.n = 1
    OBVIOUS
  <2>2. computed[r] + 1 = GetLen(r)
    BY <1>3, <1>5, <1>6, <2>1 DEF InRunningLoop, OneBehind
  <2>3. computed'[r] <= GetLen(r)
    <3>1. r \in Active'
      BY <1>2, <1>5 DEF Active
    <3>2. TableCovers(r)'
      BY <3>1 DEF EngineInv, RequestInv, HoldsFor
    <3>3. QED
      BY <1>7, <1>8, <3>2 DEF TableCovers
  <2>4. QED
    BY <1>7, <2>2, <2>3
<1>10. Len(kept') + budget' <= MaxNumBatchedTokens
  BY <1>3, <1>5, <1>7 DEF InRunningLoop
<1>11. pending' # <<>> => Len(pending') <= budget'
  BY <1>2, <1>3, <1>6, <1>7, <1>9 DEF InRunningLoop
<1>12. ASSUME NEW q \in ToSet(pending')
       PROVE  OneBehind(q)' \/ q = Last(pending')
  <2>1. pending' # <<>>
    BY <1>12, EmptyIsSeq
  <2>2. q \in Requests /\ q # r /\ q \in ToSet(pending)
    BY <1>5, <1>12, ProgressTypes
  <2>3. OneBehind(q)' <=> OneBehind(q)
    BY <1>7, <2>2, SameProgress
  <2>4. QED
    BY <1>3, <1>6, <2>1, <2>2, <2>3 DEF InRunningLoop
<1>13. ASSUME NEW q \in ToSet(kept')
       PROVE  /\ q \in Entered'
              /\ CaughtUp(q)' \/ (pending' = <<>> /\ q = Last(kept') /\ budget' = 0)
  <2>1. CASE q = r
    <3>1. CaughtUp(r)' \/ budget' = 0
      BY <1>7, <1>8 DEF CaughtUp
    <3>2. pending' # <<>> => CaughtUp(r)'
      <4>1. SUFFICES ASSUME pending' # <<>> PROVE CaughtUp(r)'
        OBVIOUS
      <4>2. OneBehind(r)
        BY <1>3, <1>5, <1>6, <4>1 DEF InRunningLoop
      <4>3. QED
        BY <1>7, <1>8, <1>9, <4>1, <4>2 DEF OneBehind, CaughtUp
    <3>3. QED
      BY <1>5, <1>7, <2>1, <3>1, <3>2
  <2>2. CASE q # r
    <3>1. q \in ToSet(kept) /\ q \in Requests
      BY <1>5, <1>13, <2>2, ProgressTypes
    <3>2. q \in Entered /\ CaughtUp(q)
      BY <1>2, <1>3, <3>1 DEF InRunningLoop
    <3>3. CaughtUp(q)'
      BY <1>7, <2>2, <3>1, <3>2, SameProgress
    <3>4. QED
      BY <1>7, <3>2, <3>3
  <2>3. QED
    BY <2>1, <2>2
<1>14. QED
  BY <1>2, <1>10, <1>11, <1>12, <1>13 DEF ProgressInv, InRunningLoop

(* A victim had nothing scheduled, and the others keep what they have.      *)
LEMMA PreemptForRunningProgress ==
  ASSUME EngineInv, ProgressInv, PreemptForRunning
  PROVE  ProgressInv'
<1>1. /\ pc = "running" /\ pc' = "running" /\ pending # <<>> /\ pending' = Front(pending)
      /\ computed' = [computed EXCEPT ![Last(pending)] = 0]
      /\ UNCHANGED <<out, kept, budget, scheduledNew, scheduledRunning>>
  BY DEF PreemptForRunning, Deciding, Victim, ResetComputed
<1>2. InRunningLoop
  BY <1>1 DEF ProgressInv
<1>3. /\ pending \in Seq(Requests) /\ kept \in Seq(Requests) /\ NoDup(pending)
      /\ ToSet(kept) \cap ToSet(pending) = {}
      /\ budget \in Nat /\ DOMAIN computed = Requests
  BY <1>1, Members, ProgressTypes DEF EngineInv
<1>4. PICK v \in Requests :
        /\ v = Last(pending) /\ v \notin ToSet(pending')
        /\ ToSet(pending) = ToSet(pending') \cup {v}
        /\ Len(pending') = Len(pending) - 1 /\ Len(pending) \in Nat \ {0}
  BY <1>1, <1>3, FrontLast, LastLeaves
<1>5. Entered' = Entered
  BY <1>1, SameEntered DEF Scheduling
<1>6. \A q \in (ToSet(pending') \cup ToSet(kept)) :
        (OneBehind(q)' <=> OneBehind(q)) /\ (CaughtUp(q)' <=> CaughtUp(q))
  <2>1. \A q \in (ToSet(pending') \cup ToSet(kept)) : q \in Requests /\ q # v
    BY <1>3, <1>4, ProgressTypes
  <2>2. QED
    BY <1>1, <1>3, <1>4, <2>1, SameProgress
<1>7. \A q \in ToSet(pending') : OneBehind(q)'
  BY <1>2, <1>4, <1>6 DEF InRunningLoop
<1>8. \A q \in ToSet(kept') : q \in Entered' /\ CaughtUp(q)'
  BY <1>1, <1>2, <1>5, <1>6 DEF InRunningLoop
<1>9. pending' # <<>> => Len(pending') <= budget'
  BY <1>1, <1>2, <1>3, <1>4 DEF InRunningLoop
<1>10. Len(kept') + budget' <= MaxNumBatchedTokens
  BY <1>1, <1>2 DEF InRunningLoop
<1>11. QED
  BY <1>1, <1>7, <1>8, <1>9, <1>10 DEF ProgressInv, InRunningLoop

LEMMA RunningDoneProgress ==
  ASSUME EngineInv, ProgressInv, RunningDone
  PROVE  ProgressInv'
<1>1. /\ pc = "running" /\ pc' \in {"waiting", "execute"} /\ pending = <<>> /\ running' = kept
      /\ UNCHANGED <<computed, out, budget, scheduledNew, scheduledRunning>>
  BY DEF RunningDone, requestVars
<1>2. InRunningLoop
  BY <1>1 DEF ProgressInv
<1>3. Entered' = Entered
  BY <1>1, SameEntered DEF Scheduling
<1>4. AfterRunningLoop'
  BY <1>1, <1>2, <1>3, SameProgress DEF InRunningLoop, AfterRunningLoop
<1>5. QED
  BY <1>1, <1>4 DEF ProgressInv

(* The steps that leave the running requests and the batch alone.           *)
LEMMA QuietProgress ==
  ASSUME ProgressInv, UNCHANGED <<computed, out, running, budget, scheduledNew, scheduledRunning>>,
         pc \in {"waiting", "allocate"}, pc' \in {"waiting", "allocate", "execute", "raised"}
  PROVE  ProgressInv'
<1>1. Entered' = Entered
  BY SameEntered DEF Scheduling
<1>2. AfterRunningLoop'
  BY <1>1, SameProgress DEF ProgressInv, AfterRunningLoop
<1>3. QED
  BY <1>2 DEF ProgressInv

LEMMA AdmitDoneProgress ==
  ASSUME NoSpeculation, EngineInv, EngineInv', ProgressInv, AdmitDone, Frame
  PROVE  ProgressInv'
<1>1. PICK r \in Requests :
        allocating = {r} /\ r \notin ToSet(running) /\ pc = "allocate"
  BY Members DEF AdmitDone, EngineInv, Active
<1>2. pc' = "waiting" /\ running' = Append(running, r)
  BY <1>1 DEF AdmitDone
<1>3. PICK e, s : Enters(r, s, e)
  <2>1. PICK p, e, s : Enters(p, s, e) /\ AllocateFinish(p)
    BY AdmitDoneHolds
  <2>2. p = r
    BY <1>1, <2>1 DEF AllocateFinish
  <2>3. QED
    BY <2>1, <2>2
<1>4. AfterRunningLoop /\ budget > 0
  BY <1>1 DEF ProgressInv, EngineInv, RequestInv, AllocationInv
<1>5. /\ e.n \in Nat \ {0} /\ budget' = budget - e.n /\ budget \in Nat /\ budget' \in Nat
      /\ r \in Entered' /\ Entered \subseteq Entered'
      /\ computed'[r] = GetLen(r) \/ budget' = 0
      /\ out' = out
      /\ \A q \in Requests \ {r} : computed'[q] = computed[q]
      /\ Len(running) \in Nat /\ MaxNumBatchedTokens \in Nat /\ running \in Seq(Requests)
  BY <1>3, ProgressTypes DEF Enters, BatchEntry, EngineInv, RequestInv, EngineTypes
<1>6. /\ ToSet(running') = ToSet(running) \cup {r}
      /\ Len(running') = Len(running) + 1 /\ Last(running') = r
  BY <1>2, <1>5, AppendSet, LastOfAppend
<1>7. Len(running') + budget' <= MaxNumBatchedTokens
  BY <1>4, <1>5, <1>6 DEF AfterRunningLoop
<1>8. CaughtUp(r)' \/ budget' = 0
  BY <1>5 DEF CaughtUp, GetLen
<1>9. ASSUME NEW q \in ToSet(running) PROVE q \in Entered' /\ CaughtUp(q)'
  <2>1. q \in Entered /\ CaughtUp(q)
    BY <1>4 DEF AfterRunningLoop
  <2>2. q \in Requests /\ q # r
    BY <1>1, ProgressTypes
  <2>3. CaughtUp(q)'
    BY <1>5, <2>1, <2>2, SameProgress
  <2>4. QED
    BY <1>5, <2>1, <2>3
<1>10. AfterRunningLoop'
  BY <1>5, <1>6, <1>7, <1>8, <1>9 DEF AfterRunningLoop
<1>11. QED
  BY <1>2, <1>10 DEF ProgressInv

LEMMA ExecuteModelProgress ==
  ASSUME NoSpeculation, EngineInv, EngineInv', ProgressInv, ExecuteModel
  PROVE  ProgressInv'
<1>1. pc = "execute" /\ pc' = "register" /\ UNCHANGED <<computed, running>>
  BY DEF ExecuteModel, queueVars
<1>2. AfterRunningLoop
  BY <1>1 DEF ProgressInv
<1>3. Len(running') <= MaxNumBatchedTokens
  BY <1>1, <1>2, ProgressTypes DEF AfterRunningLoop
<1>4. ASSUME NEW r \in ToSet(running), r # Last(running) PROVE OneBehind(r)'
  <2>1. r \in Requests /\ r \in Entered /\ CaughtUp(r)
    BY <1>2, <1>4, ProgressTypes DEF AfterRunningLoop
  <2>2. /\ out[r] \in Seq(Token) /\ Len(out[r]) \in Nat /\ Len(Prompt[r]) \in Nat
        /\ computed[r] = Len(Prompt[r]) + Len(out[r])
    BY <2>1, LenFacts DEF CaughtUp, EngineInv, RequestInv, EngineTypes
  <2>3. r \in Sampling
    <3>1. ~IsPrefill(r)
      <4>1. \A p, o \in Nat : ~(p + o < p)
        OBVIOUS
      <4>2. ~(Len(Prompt[r]) + Len(out[r]) < Len(Prompt[r]))
        BY <2>2, <4>1, Zenon
      <4>3. QED
        BY <2>2, <4>2 DEF IsPrefill
    <3>2. QED
      BY <2>1, <3>1, PassSamples
  <2>4. Len(out'[r]) = Len(out[r]) + 1
    <3>1. PICK t \in Token : out'[r] = out[r] \o <<t>>
      BY <2>1, <2>3, PassSamples
    <3>2. QED
      BY <2>2, <3>1, Appended
  <2>5. GetLen(r)' = Len(Prompt[r]) + (Len(out[r]) + 1)
    BY <2>4 DEF GetLen
  <2>6. \A c, p, o \in Nat : c = p + o => c + 1 = p + (o + 1)
    OBVIOUS
  <2>7. computed[r] + 1 = Len(Prompt[r]) + (Len(out[r]) + 1)
    <3>1. computed[r] \in Nat
      BY <2>1, LenFacts DEF EngineInv, RequestInv
    <3>2. QED
      BY <2>2, <2>6, <3>1, Zenon
  <2>8. QED
    BY <1>1, <2>5, <2>7 DEF OneBehind
<1>5. OutsideSchedule'
  BY <1>1, <1>3, <1>4 DEF OutsideSchedule
<1>6. QED
  BY <1>1, <1>5 DEF ProgressInv

(* Outside schedule(), requests join or leave and nobody computes.          *)
LEMMA OutsideProgress ==
  ASSUME EngineInv, OutsideSchedule,
         pc' \in {"register", "correct", "sweep", "idle"},
         \A q \in ToSet(running) : computed'[q] = computed[q] /\ out'[q] = out[q],
         \/ running' = running
         \/ NoDup(running) /\ \E r \in ToSet(running) : running' = Without(running, r)
  PROVE  ProgressInv'
<1>1. \A q \in ToSet(running) : OneBehind(q)' <=> OneBehind(q)
  BY SameProgress
<1>2. running \in Seq(Requests) /\ Len(running) \in Nat /\ MaxNumBatchedTokens \in Nat
  BY ProgressTypes
<1>3. OutsideSchedule'
  <2>1. CASE running' = running
    BY <1>1, <2>1 DEF OutsideSchedule
  <2>2. CASE NoDup(running) /\ \E r \in ToSet(running) : running' = Without(running, r)
    <3>1. PICK r \in ToSet(running) : NoDup(running) /\ running' = Without(running, r)
      BY <2>2
    <3>2. /\ ToSet(running') = ToSet(running) \ {r}
          /\ Len(running') = Len(running) - 1
          /\ Last(running) # r => Last(running') = Last(running)
      BY <1>2, <3>1, WithoutSet, LastOfWithout
    <3>3. Len(running') <= MaxNumBatchedTokens
      BY <1>2, <3>2 DEF OutsideSchedule
    <3>4. \A q \in ToSet(running') : OneBehind(q)' \/ q = Last(running')
      BY <1>1, <3>2 DEF OutsideSchedule
    <3>5. QED
      BY <3>3, <3>4 DEF OutsideSchedule
  <2>3. QED
    BY <2>1, <2>2
<1>4. QED
  BY <1>3 DEF ProgressInv

LEMMA NextProgress ==
  NoSpeculation /\ EngineInv /\ EngineInv' /\ ProgressInv /\ [Next]_vars => ProgressInv'
<1> SUFFICES ASSUME NoSpeculation, EngineInv, EngineInv', ProgressInv, [Next]_vars
             PROVE  ProgressInv'
  OBVIOUS
<1>1. CASE UNCHANGED vars
  <2>1. Entered' = Entered
    BY <1>1, SameEntered DEF vars, schedVars, stepVars, Scheduling
  <2>2. UNCHANGED <<pc, computed, out, running, kept, pending, budget>>
    BY <1>1 DEF vars, schedVars, requestVars, queueVars, stepVars
  <2>3. (InRunningLoop' <=> InRunningLoop) /\ (AfterRunningLoop' <=> AfterRunningLoop)
        /\ (OutsideSchedule' <=> OutsideSchedule)
    BY <2>1, <2>2, SameProgress DEF InRunningLoop, AfterRunningLoop, OutsideSchedule
  <2>4. QED
    BY <2>2, <2>3 DEF ProgressInv
<1>2. CASE WaitingDone \/ AllocateEvicts \/ AllocateRaises \/ AdmitWaiting
  <2>1. /\ pc \in {"waiting", "allocate"} /\ pc' \in {"waiting", "allocate", "execute", "raised"}
        /\ UNCHANGED <<computed, out, running, budget, scheduledNew, scheduledRunning>>
    BY <1>2 DEF WaitingDone, AllocateEvicts, AllocateRaises, AdmitWaiting,
                requestVars, queueVars, stepVars
  <2>2. QED
    BY <2>1, QuietProgress
<1>3. CASE FreeFinished
  <2>1. /\ pc = "sweep" /\ pc' = "sweep" /\ UNCHANGED <<computed, out>>
        /\ \E r \in ToSet(running) : running' = Without(running, r)
    BY <1>3 DEF FreeFinished, requestVars, stepVars, Contains, ToSet
  <2>2. NoDup(running) /\ OutsideSchedule
    BY <2>1, Members DEF ProgressInv, EngineInv
  <2>3. QED
    BY <2>1, <2>2, OutsideProgress
<1>4. CASE RegisterPrefix \/ RegisterDone \/ CorrectDone \/ StepDone
  <2>1. /\ pc \in {"register", "correct", "sweep"}
        /\ pc' \in {"register", "correct", "sweep", "idle"}
        /\ UNCHANGED <<computed, out, running>>
    BY <1>4 DEF RegisterPrefix, RegisterDone, CorrectDone, StepDone, Swept,
                requestVars, queueVars, stepVars
  <2>2. OutsideSchedule
    BY <2>1 DEF ProgressInv
  <2>3. QED
    BY <2>1, <2>2, OutsideProgress
<1>5. ASSUME NEW r \in Requests, AddRequest(r) PROVE ProgressInv'
  <2>1. /\ pc = "idle" /\ pc' = "idle" /\ running' = running
        /\ computed' = [computed EXCEPT ![r] = 0] /\ out' = [out EXCEPT ![r] = <<>>]
        /\ status[r] \in {"NEW"} \cup FINISHED
    BY <1>5 DEF AddRequest, stepVars
  <2>2. r \notin ToSet(running)
    <3>1. r \notin ToSet(arrivals)
      BY <2>1 DEF EngineInv, OrderInv, QueuesAreLive, Live, FINISHED
    <3>2. QED
      BY <2>1, <3>1, Members DEF EngineInv, Active
  <2>3. \A q \in ToSet(running) : computed'[q] = computed[q] /\ out'[q] = out[q]
    BY <2>1, <2>2, ProgressTypes
  <2>4. OutsideSchedule
    BY <2>1 DEF ProgressInv
  <2>5. QED
    BY <2>1, <2>3, <2>4, OutsideProgress
<1>6. ASSUME NEW r \in Requests, AbortRequest(r) PROVE ProgressInv'
  <2>1. /\ pc = "idle" /\ pc' = "idle" /\ UNCHANGED <<computed, out>>
        /\ running' = running \/ (r \in ToSet(running) /\ running' = Without(running, r))
    BY <1>6 DEF AbortRequest, stepVars, Contains, ToSet
  <2>2. NoDup(running) /\ OutsideSchedule
    BY <2>1, Members DEF ProgressInv, EngineInv
  <2>3. QED
    BY <2>1, <2>2, OutsideProgress
<1>7. CASE ScheduleStep
  BY <1>2, <1>3, <1>7, ScheduleBeginProgress, NobodyIsSkipped, PreemptForRunningProgress,
     ScheduleRunningProgress, RunningDoneProgress, AdmitDoneProgress DEF ScheduleStep
<1>8. CASE ForwardStep
  BY <1>4, <1>8, ExecuteModelProgress, NoDraftSteps DEF ForwardStep
<1>9. CASE DraftStep
  BY <1>4, <1>9, NoDraftSteps DEF DraftStep
<1>10. QED
  BY <1>1, <1>5, <1>6, <1>7, <1>8, <1>9 DEF Next, EngineStep, Submit, Cancel

(* _schedule_running never leaves a running request out of the batch: the   *)
(* "num_new <= 0" and "no budget left" branches are dead without drafts,    *)
(* because whoever exhausts the budget is the last one and blocks later     *)
(* admissions instead.                                                      *)
THEOREM NobodyIsLeftOut ==
  ASSUME NoSpeculation
  PROVE  Spec => []EveryRunningRequestAdvances
<1>1. Init => ProgressInv
  <2> SUFFICES ASSUME Init PROVE ProgressInv
    OBVIOUS
  <2>1. pc = "idle" /\ ToSet(running) = {} /\ Len(running) = 0
    BY EmptySeq, EmptyIsSeq DEF Init, SchedulerInit
  <2>2. MaxNumBatchedTokens \in Nat
    BY SchedulerAssumption DEF SchedulerConfig
  <2>3. QED
    BY <2>1, <2>2 DEF ProgressInv, OutsideSchedule
<1>2. NoSpeculation /\ EngineInv /\ EngineInv' /\ ProgressInv /\ [Next]_vars => ProgressInv'
  BY NextProgress
<1>3. ProgressInv => EveryRunningRequestAdvances
  BY DEF ProgressInv, AfterRunningLoop, EveryRunningRequestAdvances, Entered, Scheduling
<1>4. NoSpeculation
  OBVIOUS
<1>5. QED
  BY <1>1, <1>2, <1>3, <1>4, EngineInvariant, PTL DEF Spec
=============================================================================
