------------------------- MODULE BlockManagerProofs -------------------------
(***************************************************************************)
(* Proofs about BlockManager, for every set of requests, every prompt,     *)
(* block size, number of blocks and watermark.                             *)
(***************************************************************************)
EXTENDS BlockManager, TLAPS, FiniteSetTheorems, SequenceTheorems

-----------------------------------------------------------------------------
(* Arithmetic and paths *)

LEMMA MulMono ==
  ASSUME NEW b \in Nat \ {0}, NEW i \in Nat, NEW j \in Nat, i < j
  PROVE  i * b + b <= j * b
  BY Z3

LEMMA MulCancel ==
  ASSUME NEW b \in Nat \ {0}, NEW i \in Nat, NEW j \in Nat, i * b <= j * b
  PROVE  i <= j
  BY Z3

LEMMA MulType ==
  ASSUME NEW b \in Nat \ {0}, NEW i \in Nat
  PROVE  i * b \in Nat /\ (i > 0 => i * b > 0)
  BY Z3

(* The quotient is the greatest number of whole blocks.                     *)
LEMMA DivBound ==
  ASSUME NEW b \in Nat \ {0}, NEW a \in Nat
  PROVE  /\ a \div b \in Nat
         /\ (a \div b) * b <= a
         /\ \A k \in Nat : k * b <= a => k <= a \div b
  BY Z3

(* The least number of blocks that covers a sequence is at least the        *)
(* number of full blocks of a shorter one.                                  *)
LEMMA NeededCoversFull ==
  ASSUME NEW b \in Nat \ {0}, NEW a \in Nat, NEW c \in Nat, a <= c
  PROVE  /\ (c + b - 1) \div b \in Nat
         /\ a \div b <= (c + b - 1) \div b
  BY Z3

LEMMA NumBlocksNeededType ==
  ASSUME NEW len \in Nat
  PROVE  NumBlocksNeeded(len) \in Nat
<1>1. BlockSize \in Nat \ {0} /\ 0 \in Nat /\ 0 <= len
  BY PromptAssumption
<1>2. QED
  BY <1>1, NeededCoversFull DEF NumBlocksNeeded

LEMMA FullBlocksType ==
  ASSUME NEW r \in Requests
  PROVE  /\ Len(Prompt[r]) \in Nat
         /\ FullBlocks(r) \in Nat
         /\ FullBlocks(r) * BlockSize <= Len(Prompt[r])
<1>1. Prompt[r] \in Seq(Nat) /\ BlockSize \in Nat \ {0}
  BY PromptAssumption
<1>2. Len(Prompt[r]) \in Nat
  BY <1>1, LenProperties
<1>3. QED
  BY <1>1, <1>2, DivBound DEF FullBlocks

LEMMA NodeLen ==
  ASSUME NEW r \in Requests, NEW i \in 0..FullBlocks(r)
  PROVE  /\ i * BlockSize \in 0..Len(Prompt[r])
         /\ Node(r, i) \in Seq(Nat)
         /\ Len(Node(r, i)) = i * BlockSize
         /\ \A j \in 1..(i * BlockSize) : Node(r, i)[j] = Prompt[r][j]
<1>1. Prompt[r] \in Seq(Nat) /\ BlockSize \in Nat \ {0} /\ i \in Nat
  BY PromptAssumption, FullBlocksType
<1>2. i * BlockSize \in Nat /\ (i > 0 => i * BlockSize > 0)
  BY <1>1, MulType
<1>3. i * BlockSize <= FullBlocks(r) * BlockSize
  <2>1. CASE i = FullBlocks(r)
    BY <2>1, <1>2
  <2>2. CASE i < FullBlocks(r)
    <3>1. i * BlockSize + BlockSize <= FullBlocks(r) * BlockSize
      BY <2>2, <1>1, FullBlocksType, MulMono
    <3>2. FullBlocks(r) * BlockSize \in Nat
      BY <1>1, FullBlocksType, MulType
    <3>3. QED
      BY <3>1, <3>2, <1>1, <1>2
  <2>3. QED
    BY <2>1, <2>2, <1>1, FullBlocksType
<1>4. i * BlockSize \in 0..Len(Prompt[r])
  <2>1. FullBlocks(r) * BlockSize \in Nat
    BY <1>1, FullBlocksType, MulType
  <2>2. QED
    BY <1>2, <1>3, <2>1, FullBlocksType
<1>5. \A j \in 1..(i * BlockSize) : Prompt[r][j] \in Nat
  BY <1>1, <1>4, FullBlocksType, ElementOfSeq
<1>6. QED
  BY <1>2, <1>4, <1>5, SubSeqProperties DEF Node

(* Different indices are different nodes, of any two prompts.               *)
LEMMA NodeInjective ==
  ASSUME NEW r \in Requests, NEW i \in 0..FullBlocks(r),
         NEW s \in Requests, NEW j \in 0..FullBlocks(s),
         Node(r, i) = Node(s, j)
  PROVE  i = j
<1>1. i * BlockSize = j * BlockSize
  BY NodeLen
<1>2. i \in Nat /\ j \in Nat /\ BlockSize \in Nat \ {0}
  BY PromptAssumption, FullBlocksType
<1>3. ~(i < j) /\ ~(j < i)
  BY <1>1, <1>2, MulMono, MulType
<1>4. QED
  BY <1>2, <1>3

(* The first i blocks of a node of i + 1 blocks are its parent.             *)
LEMMA ParentNode ==
  ASSUME NEW r \in Requests, NEW i \in 0..FullBlocks(r), i + 1 <= FullBlocks(r)
  PROVE  /\ Node(r, i) \in Seq(Nat) /\ Len(Node(r, i)) = i * BlockSize
         /\ Len(Node(r, i + 1)) = Len(Node(r, i)) + BlockSize
         /\ SubSeq(Node(r, i + 1), 1, i * BlockSize) = Node(r, i)
<1>1. i \in 0..FullBlocks(r) /\ i + 1 \in 0..FullBlocks(r) /\ FullBlocks(r) \in Nat
  BY FullBlocksType
<1>2. /\ Node(r, i) \in Seq(Nat) /\ Len(Node(r, i)) = i * BlockSize
      /\ \A j \in 1..(i * BlockSize) : Node(r, i)[j] = Prompt[r][j]
      /\ i * BlockSize \in Nat
  BY <1>1, NodeLen
<1>3. /\ Node(r, i + 1) \in Seq(Nat) /\ Len(Node(r, i + 1)) = (i + 1) * BlockSize
      /\ \A j \in 1..((i + 1) * BlockSize) : Node(r, i + 1)[j] = Prompt[r][j]
      /\ (i + 1) * BlockSize \in Nat
  BY <1>1, NodeLen
<1>4. BlockSize \in Nat \ {0} /\ (i + 1) * BlockSize = i * BlockSize + BlockSize
  <2>1. BlockSize \in Nat \ {0} /\ i \in Nat
    BY PromptAssumption
  <2>2. QED
    BY <2>1, Z3
<1>5. SubSeq(Node(r, i + 1), 1, i * BlockSize) = Node(r, i)
  <2> DEFINE p == SubSeq(Node(r, i + 1), 1, i * BlockSize)
  <2>1. \A j \in 1..(i * BlockSize) : /\ j \in 1..((i + 1) * BlockSize)
                                      /\ Node(r, i + 1)[j] \in Nat
    <3>1. PICK a, b : a = i * BlockSize /\ b = (i + 1) * BlockSize
      OBVIOUS
    <3>2. a \in Nat /\ b \in Nat /\ a <= b
      BY <3>1, <1>2, <1>3, <1>4
    <3>3. \A j \in 1..a : j \in 1..b
      BY <3>2
    <3>4. \A j \in 1..b : Node(r, i + 1)[j] \in Nat
      BY <3>1, <1>3, ElementOfSeq
    <3>5. QED
      BY <3>1, <3>3, <3>4
  <2>2. /\ p \in Seq(Nat) /\ Len(p) = i * BlockSize
        /\ \A j \in 1..(i * BlockSize) : p[j] = Node(r, i + 1)[j]
    BY <2>1, <1>2, SubSeqProperties
  <2> HIDE DEF p
  <2>3. \A j \in 1..Len(p) : p[j] = Node(r, i)[j]
    BY <2>1, <2>2, <1>2, <1>3
  <2>4. p = Node(r, i)
    BY <2>2, <2>3, <1>2, SeqEqual
  <2>5. QED
    BY <2>4 DEF p
<1>6. QED
  BY <1>2, <1>3, <1>4, <1>5

(* The next node of a prompt is a child of the one before it.               *)
LEMMA NextNodeIsChild ==
  ASSUME NEW r \in Requests, NEW i \in 0..FullBlocks(r), i + 1 <= FullBlocks(r),
         Node(r, i + 1) \in DOMAIN trie
  PROVE  Node(r, i + 1) \in Children(Node(r, i))
<1>1. QED
  BY ParentNode DEF Children

LEMMA ChainFinite ==
  ASSUME NEW r \in Requests, NEW k \in Nat
  PROVE  IsFiniteSet(Chain(r, k))
<1> DEFINE f == [i \in 1..k |-> Node(r, i)]
<1>1. f \in Surjection(1..k, Chain(r, k))
  BY DEF Surjection, Chain
<1>2. IsFiniteSet(1..k)
  BY FS_Interval
<1>3. QED
  BY <1>1, <1>2, FS_Surjection

(* A nonempty bounded set of naturals has a greatest element.               *)
LEMMA Greatest ==
  ASSUME NEW n \in Nat, NEW S \in SUBSET (0..n), S # {}
  PROVE  \E k \in S : \A j \in S : j <= k
<1> DEFINE T == { n - k : k \in S }
<1>1. T \subseteq Nat /\ T # {}
  <2>1. PICK e \in S : TRUE
    OBVIOUS
  <2>2. n - e \in T
    OBVIOUS
  <2>3. \A k \in S : n - k \in Nat
    OBVIOUS
  <2>4. QED
    BY <2>2, <2>3
<1> DEFINE R == OpToRel(<, Nat)
<1>2. PICK x \in T : \A y \in T : ~(<<y, x>> \in R)
  BY <1>1, NatLessThanWellFounded, WFMin
<1>3. PICK k \in S : x = n - k
  OBVIOUS
<1>4. ASSUME NEW j \in S PROVE j <= k
  <2>1. n - j \in T
    OBVIOUS
  <2>2. ~(<<n - j, x>> \in R)
    BY <1>2, <2>1
  <2>3. n - j \in Nat /\ x \in Nat
    BY <1>1, <2>1
  <2>4. ~(n - j < x)
    BY <2>2, <2>3 DEF OpToRel
  <2>5. QED
    BY <2>4, <1>3
<1>5. QED
  BY <1>4

(* match(): what it returns is in the tree, and cannot be extended.         *)
LEMMA MatchLenProperty ==
  ASSUME NEW r \in Requests
  PROVE  /\ MatchLen(r) \in 0..FullBlocks(r)
         /\ Chain(r, MatchLen(r)) \subseteq DOMAIN trie
<1> DEFINE P(k) == /\ Chain(r, k) \subseteq DOMAIN trie
                   /\ k < FullBlocks(r) => Node(r, k + 1) \notin DOMAIN trie
           S == { k \in 0..FullBlocks(r) : Chain(r, k) \subseteq DOMAIN trie }
<1>1. FullBlocks(r) \in Nat
  BY FullBlocksType
<1>2. Chain(r, 0) = {}
  BY DEF Chain
<1>3. S # {} /\ S \in SUBSET (0..FullBlocks(r))
  BY <1>1, <1>2
<1>4. PICK k \in S : \A j \in S : j <= k
  BY <1>1, <1>3, Greatest
<1>5. P(k)
  <2>1. SUFFICES ASSUME k < FullBlocks(r), Node(r, k + 1) \in DOMAIN trie
                 PROVE  FALSE
    OBVIOUS
  <2>2. Chain(r, k + 1) = Chain(r, k) \cup {Node(r, k + 1)}
    BY <1>1 DEF Chain
  <2>3. k + 1 \in S
    BY <2>1, <2>2, <1>1
  <2>4. QED
    BY <2>3, <1>4, <1>1
<1>6. \E j \in 0..FullBlocks(r) : P(j)
  BY <1>5
<1>7. MatchLen(r) = CHOOSE j \in 0..FullBlocks(r) : P(j)
  BY DEF MatchLen
<1> HIDE DEF P
<1>8. MatchLen(r) \in 0..FullBlocks(r) /\ P(MatchLen(r))
  BY <1>6, <1>7
<1>9. QED
  BY <1>8 DEF P

-----------------------------------------------------------------------------
(* Finiteness and ref counts *)

LEMMA NodesFinite == IsFiniteSet(Nodes)
<1> DEFINE f == [r \in Requests |-> Chain(r, FullBlocks(r))]
           CS == { Chain(r, FullBlocks(r)) : r \in Requests }
<1>1. f \in Surjection(Requests, CS)
  BY DEF Surjection
<1>2. IsFiniteSet(CS)
  BY <1>1, PromptAssumption, FS_Surjection
<1>3. \A c \in CS : IsFiniteSet(c)
  BY ChainFinite, FullBlocksType
<1>4. QED
  BY <1>2, <1>3, FS_UNION DEF Nodes

LEMMA TrieFinite == BMTypeOK => IsFiniteSet(DOMAIN trie)
  BY NodesFinite, FS_Subset DEF BMTypeOK

LEMMA FreeFinite == BMTypeOK => IsFiniteSet(free) /\ Cardinality(free) \in Nat
  BY PromptAssumption, FS_Subset, FS_CardinalityType DEF BMTypeOK

LEMMA StampType ==
  ASSUME NEW dom, IsFiniteSet(dom), NEW touched
  PROVE  Stamp(dom, touched) \in [dom -> Nat]
<1> DEFINE older(n) == {m \in dom \ touched : lastUsed[m] < lastUsed[n]}
<1>1. Cardinality(dom) \in Nat
  BY FS_CardinalityType
<1>2. ASSUME NEW n \in dom PROVE Cardinality(older(n)) \in Nat
  <2>1. older(n) \in SUBSET dom
    OBVIOUS
  <2>2. QED
    BY <2>1, FS_Subset, FS_CardinalityType
<1>3. QED
  BY <1>1, <1>2 DEF Stamp

LEMMA HoldersFinite ==
  ASSUME NEW n
  PROVE  /\ IsFiniteSet(Holders(n))
         /\ Cardinality(Holders(n)) \in Nat
         /\ Cardinality(Holders(n)) = 0 <=> Holders(n) = {}
<1>1. IsFiniteSet(Holders(n))
  BY PromptAssumption, FS_Subset DEF Holders
<1>2. QED
  BY <1>1, FS_CardinalityType, FS_EmptySet

(* An unreferenced node is held by nobody.                                  *)
LEMMA UnreferencedIsUnheld ==
  ASSUME RefCountsExact, NEW n \in DOMAIN trie, trie[n].ref = 0,
         NEW r \in Requests
  PROVE  n \notin Chain(r, ncached[r])
<1>1. Holders(n) = {}
  BY HoldersFinite DEF RefCountsExact
<1>2. QED
  BY <1>1 DEF Holders

-----------------------------------------------------------------------------
(* Each operation preserves the accounting *)

LEMMA InitAccounting == BMInit => Accounting
<1> SUFFICES ASSUME BMInit PROVE Accounting
  OBVIOUS
<1> USE DEF BMInit
<1>1. \A r \in Requests : Chain(r, 0) = {}
  BY DEF Chain
<1>2. DOMAIN trie = {}
  OBVIOUS
<1>3. BMTypeOK
  <2>1. trie \in [DOMAIN trie -> [phys : Blocks, ref : Nat]] /\ lastUsed \in [DOMAIN trie -> Nat]
    BY <1>2
  <2>2. tables \in [Requests -> Seq(Blocks)]
    BY EmptySeq
  <2>3. ncached \in [Requests -> Nat] /\ \A r \in Requests : ncached[r] <= FullBlocks(r)
    BY FullBlocksType
  <2>4. oom \in BOOLEAN
    OBVIOUS
  <2>5. DOMAIN trie \subseteq Nodes /\ free \subseteq Blocks
    BY <1>2
  <2>6. allocating \subseteq Requests /\ need \in Nat
    OBVIOUS
  <2> HIDE DEF BMInit
  <2>7. QED
    BY <2>1, <2>2, <2>3, <2>4, <2>5, <2>6 DEF BMTypeOK
<1>4. NoBlockClaimedTwice /\ NoBlockLost
  BY <1>2 DEF NoBlockClaimedTwice, NoBlockLost, TrieBlocks, TableBlocks
<1>5. RefCountsExact
  BY <1>1, <1>2 DEF RefCountsExact
<1>6. SharedBlocksInPlace
  BY <1>2 DEF SharedBlocksInPlace
<1>7. HoldsEndWithTheTable
  BY DEF HoldsEndWithTheTable
<1>8. QED
  BY <1>3, <1>4, <1>5, <1>6, <1>7 DEF Accounting

LEMMA DrainEvictionAccounting ==
  ASSUME Accounting, DrainEviction
  PROVE  Accounting'
<1>1. PICK n \in Evictable : EvictOneLRU(n) /\ free' = free \cup {trie[n].phys}
  BY DEF DrainEviction
<1>2. /\ n \in DOMAIN trie
      /\ trie[n].ref = 0
      /\ trie' = [m \in DOMAIN trie \ {n} |-> trie[m]]
      /\ DOMAIN trie' = DOMAIN trie \ {n}
      /\ \A m \in DOMAIN trie' : trie'[m] = trie[m]
  BY <1>1 DEF EvictOneLRU, Evictable
<1>3. UNCHANGED <<tables, ncached, allocating, need, oom>>
  BY DEF DrainEviction
<1>4. \A r \in Requests : n \notin Chain(r, ncached[r])
  BY <1>2, UnreferencedIsUnheld DEF Accounting
<1>5. \A r \in Requests : trie[n].phys \notin TableBlocks(r)
  <2>1. SUFFICES ASSUME NEW r \in Requests, NEW i \in DOMAIN tables[r],
                        tables[r][i] = trie[n].phys
                 PROVE  FALSE
    BY DEF TableBlocks
  <2>2. i <= ncached[r] /\ n = Node(r, i)
    BY <2>1, <1>2 DEF Accounting, SharedBlocksInPlace
  <2>3. i \in Nat \ {0} /\ ncached[r] \in Nat
    <3>1. tables[r] \in Seq(Blocks) /\ ncached[r] \in Nat
      BY DEF Accounting, BMTypeOK
    <3>2. QED
      BY <3>1, LenProperties
  <2>4. n \in Chain(r, ncached[r])
    BY <2>2, <2>3 DEF Chain
  <2>5. QED
    BY <2>4, <1>4
<1>6. \A m \in DOMAIN trie' : trie[m].phys # trie[n].phys
  BY <1>2 DEF Accounting, NoBlockClaimedTwice
<1>7. trie[n].phys \in Blocks
  BY <1>2 DEF Accounting, BMTypeOK
<1>8. BMTypeOK'
  <2>1. lastUsed' \in [DOMAIN trie' -> Nat]
    <3>1. IsFiniteSet(DOMAIN trie \ {n})
      BY TrieFinite, FS_RemoveElement DEF Accounting
    <3>2. lastUsed' = Stamp(DOMAIN trie \ {n}, {})
      BY <1>1 DEF EvictOneLRU
    <3>3. QED
      BY <3>1, <3>2, <1>2, StampType
  <2>2. trie' \in [DOMAIN trie' -> [phys : Blocks, ref : Nat]]
    BY <1>2 DEF Accounting, BMTypeOK
  <2>3. QED
    BY <1>1, <1>2, <1>3, <1>7, <2>1, <2>2 DEF Accounting, BMTypeOK
<1>9. NoBlockClaimedTwice'
  <2>1. free' \cap TrieBlocks' = {}
    BY <1>1, <1>2, <1>6 DEF Accounting, NoBlockClaimedTwice, TrieBlocks
  <2>2. \A l, m \in DOMAIN trie' : trie'[l].phys = trie'[m].phys => l = m
    BY <1>2 DEF Accounting, NoBlockClaimedTwice
  <2>3. ASSUME NEW r \in Requests
        PROVE  /\ free' \cap TableBlocks(r)' = {}
               /\ \A i, j \in DOMAIN tables'[r] : tables'[r][i] = tables'[r][j] => i = j
               /\ \A s \in Requests \ {r} :
                    TableBlocks(r)' \cap TableBlocks(s)' \subseteq TrieBlocks'
    <3>1. \A s \in Requests : TableBlocks(s)' = TableBlocks(s)
      BY <1>3 DEF TableBlocks
    <3>2. free' \cap TableBlocks(r)' = {}
      BY <3>1, <1>1, <1>5 DEF Accounting, NoBlockClaimedTwice
    <3>3. \A i, j \in DOMAIN tables'[r] : tables'[r][i] = tables'[r][j] => i = j
      BY <1>3 DEF Accounting, NoBlockClaimedTwice
    <3>4. TrieBlocks \subseteq TrieBlocks' \cup {trie[n].phys}
      BY <1>2 DEF TrieBlocks
    <3>5. QED
      BY <3>1, <3>2, <3>3, <3>4, <1>5 DEF Accounting, NoBlockClaimedTwice
  <2>4. QED
    BY <2>1, <2>2, <2>3 DEF NoBlockClaimedTwice
<1>10. NoBlockLost'
  <2>1. \A s \in Requests : TableBlocks(s)' = TableBlocks(s)
    BY <1>3 DEF TableBlocks
  <2>2. TrieBlocks = TrieBlocks' \cup {trie[n].phys}
    BY <1>2 DEF TrieBlocks
  <2>3. QED
    BY <2>1, <2>2, <1>1 DEF Accounting, NoBlockLost
<1>11. RefCountsExact'
  BY <1>2, <1>3, <1>4 DEF Accounting, RefCountsExact, Holders
<1>12. SharedBlocksInPlace'
  BY <1>2, <1>3 DEF Accounting, SharedBlocksInPlace
<1>13. HoldsEndWithTheTable'
  BY <1>3 DEF Accounting, HoldsEndWithTheTable
<1>14. QED
  BY <1>8, <1>9, <1>10, <1>11, <1>12, <1>13 DEF Accounting

(* Growing a table, as allocate(), append_slot() and ensure_capacity() do:  *)
(* the new table t of r is a base that keeps the accounting, followed by m  *)
(* distinct blocks of the pool.                                             *)
SoundBase(r, base) ==
  /\ base \in Seq(Blocks)
  /\ \A i, j \in 1..Len(base) : base[i] = base[j] => i = j
  /\ \A i \in 1..Len(base) : base[i] \notin free
  /\ \A b \in TableBlocks(r) : \E i \in 1..Len(base) : b = base[i]
  /\ \A s \in Requests \ {r} : \A i \in 1..Len(base) :
       base[i] \in TableBlocks(s) => base[i] \in TrieBlocks
  /\ \A i \in 1..Len(base) : \A n \in DOMAIN trie :
       base[i] = trie[n].phys => i <= ncached[r] /\ n = Node(r, i)

FreshBlocks(m, fresh) ==
  /\ fresh \in [1..m -> free]
  /\ \A i, j \in 1..m : fresh[i] = fresh[j] => i = j

Grown(t, base, m, fresh) ==
  /\ t \in Seq(Blocks)
  /\ Len(t) = Len(base) + m
  /\ \A i \in 1..Len(t) : t[i] = IF i <= Len(base) THEN base[i]
                                                   ELSE fresh[i - Len(base)]

LEMMA ExtendTable ==
  ASSUME Accounting, NEW r \in Requests, NEW base, NEW m \in Nat, NEW fresh, NEW t,
         SoundBase(r, base), FreshBlocks(m, fresh), Grown(t, base, m, fresh),
         tables' = [tables EXCEPT ![r] = t],
         free' = free \ { fresh[i] : i \in 1..m },
         UNCHANGED <<trie, ncached>>
  PROVE  /\ tables' \in [Requests -> Seq(Blocks)]
         /\ free' \subseteq Blocks
         /\ NoBlockClaimedTwice'
         /\ NoBlockLost'
         /\ RefCountsExact'
         /\ SharedBlocksInPlace'
<1>1. /\ tables \in [Requests -> Seq(Blocks)]
      /\ free \subseteq Blocks
  BY DEF Accounting, BMTypeOK
<1>2. /\ tables'[r] = t
      /\ \A s \in Requests \ {r} : tables'[s] = tables[s]
      /\ tables' \in [Requests -> Seq(Blocks)]
  BY <1>1 DEF Grown
<1> USE DEF SoundBase, FreshBlocks, Grown
<1>3. /\ Len(base) \in Nat
      /\ DOMAIN t = 1..(Len(base) + m)
      /\ DOMAIN base = 1..Len(base)
  BY LenProperties
<1>4. \A i \in 1..Len(base) : i \in DOMAIN t /\ t[i] = base[i]
  BY <1>3
<1>5. \A i \in 1..m : Len(base) + i \in DOMAIN t /\ t[Len(base) + i] = fresh[i]
  <2>1. PICK l \in Nat : l = Len(base)
    BY <1>3
  <2>2. \A i \in 1..m : l + i \in 1..(l + m) /\ l + i > l /\ (l + i) - l = i
    OBVIOUS
  <2>3. QED
    BY <1>3, <2>1, <2>2
<1>6. \A i \in DOMAIN t : \/ i \in 1..Len(base) /\ t[i] = base[i]
                          \/ /\ i - Len(base) \in 1..m
                             /\ t[i] = fresh[i - Len(base)]
                             /\ t[i] \in free
  BY <1>3
<1>7. TableBlocks(r)' = { t[i] : i \in DOMAIN t }
  BY <1>2 DEF TableBlocks
<1>8. \A s \in Requests \ {r} : TableBlocks(s)' = TableBlocks(s)
  BY <1>2 DEF TableBlocks
<1>9. TrieBlocks' = TrieBlocks
  BY DEF TrieBlocks
<1>10. /\ \A s \in Requests : free \cap TableBlocks(s) = {}
       /\ free \cap TrieBlocks = {}
  BY DEF Accounting, NoBlockClaimedTwice
<1>11. NoBlockClaimedTwice'
  <2>1. free' \cap TrieBlocks' = {}
    BY <1>9, <1>10
  <2>2. \A l, n \in DOMAIN trie' : trie'[l].phys = trie'[n].phys => l = n
    BY DEF Accounting, NoBlockClaimedTwice
  <2>3. \A i \in DOMAIN t : t[i] \notin free'
    BY <1>6
  <2>4. \A i, j \in DOMAIN t : t[i] = t[j] => i = j
    <3>1. SUFFICES ASSUME NEW i \in DOMAIN t, NEW j \in DOMAIN t, t[i] = t[j]
                   PROVE  i = j
      OBVIOUS
    <3>2. CASE i \in 1..Len(base) /\ j \in 1..Len(base)
      BY <3>1, <3>2, <1>4
    <3>3. CASE i - Len(base) \in 1..m /\ j - Len(base) \in 1..m
      BY <3>1, <3>3, <1>3, <1>6
    <3>4. QED
      BY <3>1, <3>2, <3>3, <1>3, <1>6
  <2>5. \A s \in Requests \ {r} : TableBlocks(r)' \cap TableBlocks(s)' \subseteq TrieBlocks'
    <3>1. SUFFICES ASSUME NEW s \in Requests \ {r}, NEW i \in DOMAIN t,
                          t[i] \in TableBlocks(s)
                   PROVE  t[i] \in TrieBlocks
      BY <1>7, <1>8, <1>9
    <3>2. i \in 1..Len(base) /\ t[i] = base[i]
      BY <3>1, <1>6, <1>10
    <3>3. QED
      BY <3>1, <3>2
  <2>6. ASSUME NEW s \in Requests \ {r}
        PROVE  /\ free' \cap TableBlocks(s)' = {}
               /\ \A i, j \in DOMAIN tables'[s] : tables'[s][i] = tables'[s][j] => i = j
    BY <1>2, <1>8, <1>10 DEF Accounting, NoBlockClaimedTwice
  <2>7. ASSUME NEW s \in Requests \ {r}, NEW u \in Requests \ {s}
        PROVE  TableBlocks(s)' \cap TableBlocks(u)' \subseteq TrieBlocks'
    <3>1. CASE u = r
      BY <3>1, <2>5
    <3>2. CASE u # r
      BY <3>2, <1>8, <1>9 DEF Accounting, NoBlockClaimedTwice
    <3>3. QED
      BY <3>1, <3>2
  <2>8. QED
    BY <2>1, <2>2, <2>3, <2>4, <2>5, <2>6, <2>7, <1>2, <1>7 DEF NoBlockClaimedTwice
<1>12. NoBlockLost'
  <2>1. TableBlocks(r) \subseteq TableBlocks(r)'
    BY <1>4, <1>7
  <2>2. free \subseteq free' \cup TableBlocks(r)'
    BY <1>5, <1>7
  <2>3. QED
    BY <2>1, <2>2, <1>8, <1>9 DEF Accounting, NoBlockLost
<1>13. RefCountsExact'
  BY DEF Accounting, RefCountsExact, Holders
<1>14. SharedBlocksInPlace'
  <2>1. ASSUME NEW i \in DOMAIN t, NEW n \in DOMAIN trie, t[i] = trie[n].phys
        PROVE  i <= ncached[r] /\ n = Node(r, i)
    <3>1. trie[n].phys \notin free
      BY <1>10 DEF TrieBlocks
    <3>2. i \in 1..Len(base) /\ t[i] = base[i]
      BY <3>1, <2>1, <1>6
    <3>3. QED
      BY <3>2, <2>1
  <2>2. QED
    BY <2>1, <1>2 DEF Accounting, SharedBlocksInPlace
<1>15. QED
  BY <1>1, <1>2, <1>11, <1>12, <1>13, <1>14

LEMMA MatchPrefixProperty ==
  ASSUME NEW r \in Requests
  PROVE  /\ MatchPrefix(r) \in 0..FullBlocks(r)
         /\ Chain(r, MatchPrefix(r)) \subseteq DOMAIN trie
<1>1. CASE EnablePrefixCaching
  BY <1>1, MatchLenProperty DEF MatchPrefix
<1>2. CASE ~EnablePrefixCaching
  <2>1. MatchPrefix(r) = 0
    BY <1>2 DEF MatchPrefix
  <2>2. Chain(r, 0) = {}
    BY DEF Chain
  <2>3. QED
    BY <2>1, <2>2, FullBlocksType
<1>3. QED
  BY <1>1, <1>2, ConfigAssumption DEF CacheConfig

(* What changes in the trie is one hold: every node keeps its block, and    *)
(* the ref counts follow the holders.                                       *)
LEMMA RehungTrie ==
  ASSUME Accounting, UNCHANGED <<free, tables>>,
         DOMAIN trie' = DOMAIN trie,
         \A n \in DOMAIN trie : trie'[n].phys = trie[n].phys
  PROVE  NoBlockClaimedTwice' /\ NoBlockLost'
<1>1. TrieBlocks' = TrieBlocks
  BY DEF TrieBlocks
<1>2. \A r \in Requests : TableBlocks(r)' = TableBlocks(r)
  BY DEF TableBlocks
<1>3. NoBlockClaimedTwice'
  BY <1>1, <1>2 DEF Accounting, NoBlockClaimedTwice
<1>4. NoBlockLost'
  BY <1>1, <1>2 DEF Accounting, NoBlockLost
<1>5. QED
  BY <1>3, <1>4

LEMMA StutterAccounting ==
  ASSUME Accounting, UNCHANGED <<trie, lastUsed, free, tables, ncached, allocating, need, oom>>
  PROVE  Accounting'
<1>1. BMTypeOK'
  BY DEF Accounting, BMTypeOK
<1>2. NoBlockClaimedTwice' /\ NoBlockLost'
  BY RehungTrie
<1>3. RefCountsExact'
  BY DEF Accounting, RefCountsExact, Holders
<1>4. SharedBlocksInPlace' /\ HoldsEndWithTheTable'
  BY DEF Accounting, SharedBlocksInPlace, HoldsEndWithTheTable
<1>5. QED
  BY <1>1, <1>2, <1>3, <1>4 DEF Accounting

LEMMA AllocateBeginAccounting ==
  ASSUME Accounting, NEW r \in Requests, NEW len \in Nat, Len(Prompt[r]) <= len,
         AllocateBegin(r, len)
  PROVE  Accounting'
<1> DEFINE k == MatchPrefix(r)
<1>1. /\ k \in 0..FullBlocks(r)
      /\ Chain(r, k) \subseteq DOMAIN trie
      /\ k \in Nat
  BY MatchPrefixProperty, FullBlocksType
<1> HIDE DEF k
<1>2. /\ allocating = {} /\ oom = FALSE /\ tables[r] = <<>>
      /\ ncached' = [ncached EXCEPT ![r] = k]
      /\ need' = NumBlocksNeeded(len) - k
      /\ allocating' = {r}
      /\ UNCHANGED <<free, tables, oom>>
      /\ Acquire(r, k)
  BY DEF AllocateBegin, Idle, k, Accounting, BMTypeOK
<1>3. /\ DOMAIN trie' = DOMAIN trie
      /\ trie' = [n \in DOMAIN trie |->
                IF n \in Chain(r, k) THEN [trie[n] EXCEPT !.ref = @ + 1] ELSE trie[n]]
      /\ lastUsed' = Stamp(DOMAIN trie, Chain(r, k))
  BY <1>2 DEF Acquire
<1>4. trie \in [DOMAIN trie -> [phys : Blocks, ref : Nat]]
  BY DEF Accounting, BMTypeOK
<1>5. \A n \in DOMAIN trie :
        /\ trie'[n].phys = trie[n].phys
        /\ trie'[n].ref = IF n \in Chain(r, k) THEN trie[n].ref + 1 ELSE trie[n].ref
        /\ trie'[n] \in [phys : Blocks, ref : Nat]
  BY <1>3, <1>4
<1>6. ncached[r] = 0
  <2>1. ncached[r] \in Nat /\ ncached[r] <= Len(tables[r])
    BY <1>2 DEF Accounting, HoldsEndWithTheTable, BMTypeOK
  <2>2. QED
    BY <1>2, <2>1, EmptySeq
<1>7. /\ ncached'[r] = k
      /\ \A s \in Requests \ {r} : ncached'[s] = ncached[s]
      /\ ncached' \in [Requests -> Nat]
  BY <1>1, <1>2 DEF Accounting, BMTypeOK
<1>8. BMTypeOK'
  <2>1. trie' \in [DOMAIN trie' -> [phys : Blocks, ref : Nat]]
    BY <1>3, <1>5
  <2>2. lastUsed' \in [DOMAIN trie' -> Nat]
    BY <1>3, TrieFinite, StampType DEF Accounting
  <2>3. need' \in Nat
    <3>1. BlockSize \in Nat \ {0}
      BY PromptAssumption
    <3>2. /\ NumBlocksNeeded(len) \in Nat
          /\ FullBlocks(r) <= NumBlocksNeeded(len)
      BY <3>1, FullBlocksType, NeededCoversFull DEF NumBlocksNeeded, FullBlocks
    <3>3. QED
      BY <3>2, <1>1, <1>2, FullBlocksType
  <2>4. \A s \in Requests : ncached'[s] <= FullBlocks(s)
    <3>1. k <= FullBlocks(r)
      BY <1>1, FullBlocksType
    <3>2. \A s \in Requests : ncached[s] <= FullBlocks(s)
      BY DEF Accounting, BMTypeOK
    <3>3. QED
      BY <1>7, <3>1, <3>2
  <2>5. oom' \in BOOLEAN /\ allocating' \subseteq Requests
    BY <1>2
  <2>6. DOMAIN trie' \subseteq Nodes /\ free' \subseteq Blocks /\ tables' \in [Requests -> Seq(Blocks)]
    BY <1>2, <1>3 DEF Accounting, BMTypeOK
  <2>7. QED
    BY <1>7, <2>1, <2>2, <2>3, <2>4, <2>5, <2>6 DEF BMTypeOK
<1>9. NoBlockClaimedTwice' /\ NoBlockLost'
  BY <1>2, <1>3, <1>5, RehungTrie
<1>10. RefCountsExact'
  <2>1. Chain(r, 0) = {}
    BY DEF Chain
  <2>2. \A s \in Requests : Chain(s, ncached'[s]) \subseteq DOMAIN trie'
    BY <1>1, <1>3, <1>7 DEF Accounting, RefCountsExact
  <2>3. ASSUME NEW n \in DOMAIN trie
        PROVE  trie'[n].ref = Cardinality(Holders(n)')
    <3>1. r \notin Holders(n)
      BY <2>1, <1>6 DEF Holders
    <3>2. Holders(n)' = IF n \in Chain(r, k) THEN Holders(n) \cup {r} ELSE Holders(n)
      BY <1>7, <3>1 DEF Holders
    <3>3. trie[n].ref = Cardinality(Holders(n))
      BY DEF Accounting, RefCountsExact
    <3>4. Cardinality(Holders(n) \cup {r}) = Cardinality(Holders(n)) + 1
      BY <3>1, HoldersFinite, FS_AddElement
    <3>5. QED
      BY <3>2, <3>3, <3>4, <1>5
  <2>4. QED
    BY <2>2, <2>3, <1>3 DEF RefCountsExact
<1>11. SharedBlocksInPlace'
  BY <1>2, <1>3, <1>5, <1>7 DEF Accounting, SharedBlocksInPlace
<1>12. HoldsEndWithTheTable'
  BY <1>2, <1>7 DEF Accounting, HoldsEndWithTheTable
<1>13. QED
  BY <1>8, <1>9, <1>10, <1>11, <1>12 DEF Accounting

LEMMA AllocateFailAccounting ==
  ASSUME Accounting, AllocateFail
  PROVE  Accounting'
<1>1. UNCHANGED <<trie, lastUsed, free, tables, ncached, allocating, need>> /\ oom' = TRUE
  BY DEF AllocateFail
<1>2. BMTypeOK'
  <2>1. oom' \in BOOLEAN
    BY <1>1
  <2>2. QED
    BY <1>1, <2>1 DEF Accounting, BMTypeOK
<1>3. NoBlockClaimedTwice' /\ NoBlockLost'
  BY <1>1, RehungTrie
<1>4. RefCountsExact'
  BY <1>1 DEF Accounting, RefCountsExact, Holders
<1>5. SharedBlocksInPlace' /\ HoldsEndWithTheTable'
  BY <1>1 DEF Accounting, SharedBlocksInPlace, HoldsEndWithTheTable
<1>6. QED
  BY <1>2, <1>3, <1>4, <1>5 DEF Accounting

LEMMA AllocateFinishAccounting ==
  ASSUME Accounting, NEW r \in Requests, AllocateFinish(r)
  PROVE  Accounting'
<1>1. PICK fresh \in [1..need -> free] :
        /\ \A i, j \in 1..need : fresh[i] = fresh[j] => i = j
        /\ free' = free \ { fresh[i] : i \in 1..need }
        /\ tables' = [tables EXCEPT ![r] =
             [i \in 1..(ncached[r] + need) |->
                IF i <= ncached[r] THEN trie[Node(r, i)].phys
                                   ELSE fresh[i - ncached[r]]]]
  BY DEF AllocateFinish
<1>2. /\ r \in allocating /\ allocating' = {} /\ need' = 0
      /\ UNCHANGED <<trie, lastUsed, ncached, oom>>
  BY DEF AllocateFinish
<1>3. PICK k : k = ncached[r]
  OBVIOUS
<1>4. PICK m : m = need
  OBVIOUS
<1>5. /\ k \in Nat /\ m \in Nat /\ k <= FullBlocks(r)
      /\ trie \in [DOMAIN trie -> [phys : Blocks, ref : Nat]]
      /\ free \subseteq Blocks
  BY <1>3, <1>4 DEF Accounting, BMTypeOK
<1>6. \A i \in 1..k : Node(r, i) \in DOMAIN trie
  BY <1>3 DEF Accounting, RefCountsExact, Chain
<1>7. PICK base : base = [i \in 1..k |-> trie[Node(r, i)].phys]
  OBVIOUS
<1>8. /\ base \in [1..k -> Blocks]
      /\ base \in Seq(Blocks) /\ Len(base) = k
  <2>1. base \in [1..k -> Blocks]
    BY <1>5, <1>6, <1>7
  <2>2. base \in Seq(Blocks)
    BY <2>1, <1>5, SeqDef
  <2>3. DOMAIN base = 1..Len(base) /\ DOMAIN base = 1..k /\ Len(base) \in Nat
    BY <2>1, <2>2, LenProperties
  <2>4. QED
    BY <2>1, <2>2, <2>3, <1>5
<1>9. PICK t : t = [i \in 1..(k + m) |-> IF i <= k THEN trie[Node(r, i)].phys
                                                    ELSE fresh[i - k]]
  OBVIOUS
<1>10. /\ t \in Seq(Blocks) /\ Len(t) = k + m
       /\ \A i \in 1..Len(t) : t[i] = IF i <= k THEN base[i] ELSE fresh[i - k]
  <2>1. t \in [1..(k + m) -> Blocks]
    BY <1>1, <1>4, <1>5, <1>6, <1>9
  <2>2. t \in Seq(Blocks)
    BY <2>1, <1>5, SeqDef
  <2>3. DOMAIN t = 1..Len(t) /\ DOMAIN t = 1..(k + m) /\ Len(t) \in Nat
    BY <2>1, <2>2, LenProperties
  <2>4. Len(t) = k + m
    BY <2>3, <1>5
  <2>5. QED
    BY <2>2, <2>4, <1>5, <1>7, <1>9
<1>11. tables' = [tables EXCEPT ![r] = t]
  BY <1>1, <1>3, <1>4, <1>9
<1>12. \A i, j \in 1..k : base[i] = base[j] => i = j
  <2>1. SUFFICES ASSUME NEW i \in 1..k, NEW j \in 1..k, base[i] = base[j]
                 PROVE  i = j
    OBVIOUS
  <2>2. Node(r, i) = Node(r, j)
    BY <2>1, <1>6, <1>7 DEF Accounting, NoBlockClaimedTwice
  <2>3. QED
    BY <2>2, <1>5, NodeInjective, FullBlocksType
<1>13. \A i \in 1..k : base[i] \in TrieBlocks
  BY <1>6, <1>7 DEF TrieBlocks
<1>14. \A i \in 1..k : base[i] \notin free
  BY <1>13 DEF Accounting, NoBlockClaimedTwice
<1>15. TableBlocks(r) = {}
  <2>1. tables[r] = <<>>
    BY <1>2 DEF Accounting, HoldsEndWithTheTable
  <2>2. QED
    BY <2>1 DEF TableBlocks
<1>16. \A i \in 1..k : \A n \in DOMAIN trie :
         base[i] = trie[n].phys => i <= ncached[r] /\ n = Node(r, i)
  BY <1>3, <1>5, <1>6, <1>7 DEF Accounting, NoBlockClaimedTwice
<1>17. FreshBlocks(m, fresh) /\ free' = free \ { fresh[i] : i \in 1..m }
  BY <1>1, <1>4 DEF FreshBlocks
<1>18. SoundBase(r, base) /\ Grown(t, base, m, fresh)
  BY <1>8, <1>10, <1>12, <1>13, <1>14, <1>15, <1>16 DEF SoundBase, Grown
<1>19. /\ tables' \in [Requests -> Seq(Blocks)]
       /\ free' \subseteq Blocks
       /\ NoBlockClaimedTwice'
       /\ NoBlockLost'
       /\ RefCountsExact'
       /\ SharedBlocksInPlace'
  BY <1>2, <1>5, <1>11, <1>17, <1>18, ExtendTable
<1>20. BMTypeOK'
  BY <1>2, <1>19 DEF Accounting, BMTypeOK
<1>21. HoldsEndWithTheTable'
  <2>1. tables'[r] = t /\ \A s \in Requests \ {r} : tables'[s] = tables[s]
    BY <1>11 DEF Accounting, BMTypeOK
  <2>2. ncached'[r] <= Len(tables'[r])
    BY <2>1, <1>2, <1>3, <1>5, <1>10
  <2>3. \A s \in Requests \ {r} : s \notin allocating
    BY <1>2 DEF Accounting, HoldsEndWithTheTable
  <2>4. QED
    BY <2>1, <2>2, <2>3, <1>2 DEF Accounting, HoldsEndWithTheTable
<1>22. QED
  BY <1>19, <1>20, <1>21 DEF Accounting

LEMMA OwnTableIsSoundBase ==
  ASSUME Accounting, NEW r \in Requests, NEW base, base = tables[r]
  PROVE  SoundBase(r, base)
<1>1. base \in Seq(Blocks) /\ DOMAIN base = 1..Len(base)
  BY LenProperties DEF Accounting, BMTypeOK
<1>2. /\ free \cap TableBlocks(r) = {}
      /\ \A i, j \in DOMAIN base : base[i] = base[j] => i = j
      /\ \A s \in Requests \ {r} : TableBlocks(r) \cap TableBlocks(s) \subseteq TrieBlocks
  BY DEF Accounting, NoBlockClaimedTwice
<1>3. TableBlocks(r) = { base[i] : i \in 1..Len(base) }
  BY <1>1 DEF TableBlocks
<1>4. \A i \in 1..Len(base) : \A n \in DOMAIN trie :
        base[i] = trie[n].phys => i <= ncached[r] /\ n = Node(r, i)
  BY <1>1 DEF Accounting, SharedBlocksInPlace
<1>5. QED
  BY <1>1, <1>2, <1>3, <1>4 DEF SoundBase

(* r's own table grows by m blocks of the pool; nothing else changes.       *)
LEMMA GrowOwnTable ==
  ASSUME Accounting, NEW r \in Requests, allocating = {},
         NEW m \in Nat, NEW fresh, NEW t,
         FreshBlocks(m, fresh), Grown(t, tables[r], m, fresh),
         tables' = [tables EXCEPT ![r] = t],
         free' = free \ { fresh[i] : i \in 1..m },
         UNCHANGED <<trie, lastUsed, ncached, allocating, need, oom>>
  PROVE  Accounting'
<1>1. PICK base : base = tables[r]
  OBVIOUS
<1>2. SoundBase(r, base)
  BY <1>1, OwnTableIsSoundBase
<1>3. Grown(t, base, m, fresh)
  BY <1>1
<1>4. /\ tables' \in [Requests -> Seq(Blocks)]
      /\ free' \subseteq Blocks
      /\ NoBlockClaimedTwice'
      /\ NoBlockLost'
      /\ RefCountsExact'
      /\ SharedBlocksInPlace'
  BY <1>2, <1>3, ExtendTable
<1>5. BMTypeOK'
  BY <1>4 DEF Accounting, BMTypeOK
<1>6. HoldsEndWithTheTable'
  <2>1. tables'[r] = t /\ \A s \in Requests \ {r} : tables'[s] = tables[s]
    BY DEF Accounting, BMTypeOK
  <2>2. Len(t) = Len(base) + m /\ Len(base) \in Nat
    BY <1>2, <1>3, LenProperties DEF Grown, SoundBase
  <2>3. ncached'[r] <= Len(tables'[r])
    <3>1. ncached[r] <= Len(base) /\ ncached[r] \in Nat
      BY <1>1 DEF Accounting, HoldsEndWithTheTable, BMTypeOK
    <3>2. QED
      BY <3>1, <2>1, <2>2
  <2>4. QED
    BY <2>1, <2>3 DEF Accounting, HoldsEndWithTheTable
<1>7. QED
  BY <1>4, <1>5, <1>6 DEF Accounting

LEMMA AppendSlotAccounting ==
  ASSUME Accounting, NEW r \in Requests, NEW len \in Nat, AppendSlot(r, len)
  PROVE  Accounting'
<1>1. /\ allocating = {}
      /\ UNCHANGED <<trie, lastUsed, ncached, allocating, need, oom>>
  BY DEF AppendSlot, Idle
<1>2. CASE NeedsNewBlock(r, len)
  <2>1. PICK b \in free : /\ tables' = [tables EXCEPT ![r] = Append(tables[r], b)]
                          /\ free' = free \ {b}
    BY <1>2 DEF AppendSlot, Grow
  <2>2. PICK t : t = Append(tables[r], b)
    OBVIOUS
  <2>3. PICK fresh : fresh = [i \in 1..1 |-> b]
    OBVIOUS
  <2>4. FreshBlocks(1, fresh) /\ { fresh[i] : i \in 1..1 } = {b}
    BY <2>3 DEF FreshBlocks
  <2>5. Grown(t, tables[r], 1, fresh)
    <3>1. tables[r] \in Seq(Blocks) /\ b \in Blocks
      BY DEF Accounting, BMTypeOK
    <3>2. QED
      BY <3>1, <2>2, <2>3, LenProperties DEF Grown
  <2>6. tables' = [tables EXCEPT ![r] = t] /\ free' = free \ { fresh[i] : i \in 1..1 }
    BY <2>1, <2>2, <2>4
  <2>7. QED
    BY <2>4, <2>5, <2>6, <1>1, GrowOwnTable
<1>3. CASE ~NeedsNewBlock(r, len)
  <2>1. UNCHANGED <<tables, free>>
    BY <1>3 DEF AppendSlot
  <2>2. QED
    BY <2>1, <1>1, StutterAccounting
<1>4. QED
  BY <1>2, <1>3

LEMMA EnsureCapacityAccounting ==
  ASSUME Accounting, NEW r \in Requests, NEW len \in Nat \ {0}, EnsureCapacity(r, len)
  PROVE  Accounting'
<1> DEFINE old == Len(tables[r])
           more == IF NumBlocksNeeded(len) > old THEN NumBlocksNeeded(len) - old ELSE 0
<1>1. PICK fresh \in [1..more -> free] :
        /\ \A i, j \in 1..more : fresh[i] = fresh[j] => i = j
        /\ free' = free \ { fresh[i] : i \in 1..more }
        /\ tables' = [tables EXCEPT ![r] =
             [i \in 1..(old + more) |->
                IF i <= old THEN tables[r][i] ELSE fresh[i - old]]]
  BY DEF EnsureCapacity
<1>2. /\ allocating = {}
      /\ UNCHANGED <<trie, lastUsed, ncached, allocating, need, oom>>
  BY DEF EnsureCapacity, Idle
<1>3. tables[r] \in Seq(Blocks) /\ free \subseteq Blocks /\ old \in Nat
  BY LenProperties DEF Accounting, BMTypeOK
<1>4. more \in Nat
  <2>1. NumBlocksNeeded(len) \in Nat
    BY NumBlocksNeededType
  <2>2. QED
    BY <2>1, <1>3
<1> HIDE DEF old, more
<1>5. PICK m : m = more
  OBVIOUS
<1>6. PICK t : t = [i \in 1..(old + more) |-> IF i <= old THEN tables[r][i]
                                                         ELSE fresh[i - old]]
  OBVIOUS
<1>7. Grown(t, tables[r], m, fresh)
  <2>1. \A i \in 1..old : tables[r][i] \in Blocks
    BY <1>3, ElementOfSeq DEF old
  <2>2. t \in [1..(old + m) -> Blocks]
    BY <2>1, <1>1, <1>3, <1>4, <1>5, <1>6
  <2>3. t \in Seq(Blocks)
    BY <2>2, <1>3, <1>4, <1>5, SeqDef
  <2>4. DOMAIN t = 1..Len(t) /\ DOMAIN t = 1..(old + m) /\ Len(t) \in Nat
    BY <2>2, <2>3, LenProperties
  <2>5. Len(t) = old + m
    <3>1. old + m \in Nat
      BY <1>3, <1>4, <1>5
    <3>2. QED
      BY <3>1, <2>4
  <2>6. QED
    BY <2>3, <2>5, <1>3, <1>4, <1>5, <1>6 DEF Grown, old
<1>8. FreshBlocks(m, fresh) /\ free' = free \ { fresh[i] : i \in 1..m }
  BY <1>1, <1>5 DEF FreshBlocks
<1>9. tables' = [tables EXCEPT ![r] = t]
  BY <1>1, <1>6
<1>10. QED
  BY <1>2, <1>4, <1>5, <1>7, <1>8, <1>9, GrowOwnTable

LEMMA FreeAccounting ==
  ASSUME Accounting, NEW r \in Requests, Free(r)
  PROVE  Accounting'
<1>1. CASE tables[r] = <<>>
  <2>1. UNCHANGED <<trie, lastUsed, free, tables, ncached, allocating, need, oom>>
    BY <1>1 DEF Free
  <2>2. QED
    BY <2>1, StutterAccounting
<1>2. CASE tables[r] # <<>>
  <2>1. /\ allocating = {}
        /\ free' = free \cup PrivateBlocks(r)
        /\ tables' = [tables EXCEPT ![r] = <<>>]
        /\ ncached' = [ncached EXCEPT ![r] = 0]
        /\ Release(r, ncached[r])
        /\ UNCHANGED <<allocating, need, oom>>
    BY <1>2 DEF Free, Idle
  <2>2. /\ DOMAIN trie' = DOMAIN trie
        /\ trie' = [n \in DOMAIN trie |->
                      IF n \in Chain(r, ncached[r]) THEN [trie[n] EXCEPT !.ref = @ - 1]
                                                    ELSE trie[n]]
        /\ lastUsed' = lastUsed
    BY <2>1 DEF Release
  <2>3. /\ trie \in [DOMAIN trie -> [phys : Blocks, ref : Nat]]
        /\ tables \in [Requests -> Seq(Blocks)]
        /\ ncached \in [Requests -> Nat]
        /\ tables[r] \in Seq(Blocks) /\ ncached[r] \in Nat
    BY DEF Accounting, BMTypeOK
  <2>4. /\ tables'[r] = <<>> /\ ncached'[r] = 0
        /\ \A s \in Requests \ {r} : tables'[s] = tables[s] /\ ncached'[s] = ncached[s]
    BY <2>1, <2>3
  <2>5. \A n \in Chain(r, ncached[r]) : n \in DOMAIN trie /\ trie[n].ref > 0
    <3>1. SUFFICES ASSUME NEW n \in Chain(r, ncached[r])
                   PROVE  n \in DOMAIN trie /\ trie[n].ref > 0
      OBVIOUS
    <3>2. n \in DOMAIN trie
      BY <3>1 DEF Accounting, RefCountsExact
    <3>3. Holders(n) # {}
      BY <3>1 DEF Holders
    <3>4. trie[n].ref = Cardinality(Holders(n))
      BY <3>2 DEF Accounting, RefCountsExact
    <3>5. QED
      BY <3>2, <3>3, <3>4, HoldersFinite
  <2>6. \A n \in DOMAIN trie :
          /\ trie'[n].phys = trie[n].phys
          /\ trie'[n].ref = IF n \in Chain(r, ncached[r]) THEN trie[n].ref - 1 ELSE trie[n].ref
          /\ trie'[n] \in [phys : Blocks, ref : Nat]
    <3>1. SUFFICES ASSUME NEW n \in DOMAIN trie
                   PROVE  /\ trie'[n].phys = trie[n].phys
                          /\ trie'[n].ref = IF n \in Chain(r, ncached[r]) THEN trie[n].ref - 1
                                                                          ELSE trie[n].ref
                          /\ trie'[n] \in [phys : Blocks, ref : Nat]
      OBVIOUS
    <3>2. trie[n] \in [phys : Blocks, ref : Nat]
      BY <2>3
    <3>3. CASE n \in Chain(r, ncached[r])
      <4>1. trie'[n] = [trie[n] EXCEPT !.ref = @ - 1]
        BY <2>2, <3>3
      <4>2. trie[n].ref - 1 \in Nat
        BY <3>2, <3>3, <2>5
      <4>3. QED
        BY <4>1, <4>2, <3>2, <3>3
    <3>4. CASE n \notin Chain(r, ncached[r])
      BY <2>2, <3>2, <3>4
    <3>5. QED
      BY <3>3, <3>4
  <2>7. TrieBlocks' = TrieBlocks
    BY <2>2, <2>6 DEF TrieBlocks
  <2>8. /\ TableBlocks(r)' = {}
        /\ \A s \in Requests \ {r} : TableBlocks(s)' = TableBlocks(s)
    BY <2>4 DEF TableBlocks
  <2>9. /\ PrivateBlocks(r) \cap TrieBlocks = {}
        /\ TableBlocks(r) \subseteq PrivateBlocks(r) \cup TrieBlocks
    <3>1. ASSUME NEW i \in DOMAIN tables[r], NEW n \in DOMAIN trie, tables[r][i] = trie[n].phys
          PROVE  tables[r][i] \in HeldBlocks(r)
      <4>1. i <= ncached[r] /\ n = Node(r, i)
        BY <3>1 DEF Accounting, SharedBlocksInPlace
      <4>2. i \in Nat \ {0}
        BY <2>3, LenProperties
      <4>3. n \in Chain(r, ncached[r])
        BY <4>1, <4>2, <2>3 DEF Chain
      <4>4. QED
        BY <4>3, <3>1 DEF HeldBlocks
    <3>2. HeldBlocks(r) \subseteq TrieBlocks
      BY <2>5 DEF HeldBlocks, TrieBlocks
    <3>3. QED
      BY <3>1, <3>2 DEF PrivateBlocks, TableBlocks, TrieBlocks
  <2>10. PrivateBlocks(r) \subseteq TableBlocks(r)
    BY DEF PrivateBlocks
  <2>11. TableBlocks(r) \subseteq Blocks
    BY <2>3, LenProperties, ElementOfSeq DEF TableBlocks
  <2>12. BMTypeOK'
    <3>1. trie' \in [DOMAIN trie' -> [phys : Blocks, ref : Nat]] /\ lastUsed' \in [DOMAIN trie' -> Nat]
      BY <2>2, <2>6 DEF Accounting, BMTypeOK
    <3>2. tables' \in [Requests -> Seq(Blocks)]
      BY <2>1, <2>3, EmptySeq
    <3>3. ncached' \in [Requests -> Nat] /\ \A s \in Requests : ncached'[s] <= FullBlocks(s)
      BY <2>1, <2>3, FullBlocksType DEF Accounting, BMTypeOK
    <3>4. free' \subseteq Blocks
      BY <2>1, <2>10, <2>11 DEF Accounting, BMTypeOK
    <3>5. QED
      BY <2>1, <2>2, <3>1, <3>2, <3>3, <3>4 DEF Accounting, BMTypeOK
  <2>13. NoBlockClaimedTwice'
    <3>1. free' \cap TrieBlocks' = {}
      BY <2>1, <2>7, <2>9 DEF Accounting, NoBlockClaimedTwice
    <3>2. \A m, n \in DOMAIN trie' : trie'[m].phys = trie'[n].phys => m = n
      BY <2>2, <2>6 DEF Accounting, NoBlockClaimedTwice
    <3>3. ASSUME NEW s \in Requests \ {r} PROVE free' \cap TableBlocks(s)' = {}
      <4>1. TableBlocks(r) \cap TableBlocks(s) \subseteq TrieBlocks /\ free \cap TableBlocks(s) = {}
        BY DEF Accounting, NoBlockClaimedTwice
      <4>2. QED
        BY <4>1, <2>1, <2>8, <2>9, <2>10
    <3>4. \A s \in Requests : free' \cap TableBlocks(s)' = {}
      BY <3>3, <2>8
    <3>5. \A s \in Requests : \A i, j \in DOMAIN tables'[s] : tables'[s][i] = tables'[s][j] => i = j
      BY <2>4 DEF Accounting, NoBlockClaimedTwice
    <3>6. \A s \in Requests : \A u \in Requests \ {s} :
            TableBlocks(s)' \cap TableBlocks(u)' \subseteq TrieBlocks'
      BY <2>7, <2>8 DEF Accounting, NoBlockClaimedTwice
    <3>7. QED
      BY <3>1, <3>2, <3>4, <3>5, <3>6 DEF NoBlockClaimedTwice
  <2>14. NoBlockLost'
    BY <2>1, <2>7, <2>8, <2>9 DEF Accounting, NoBlockLost
  <2>15. RefCountsExact'
    <3>1. Chain(r, 0) = {}
      BY DEF Chain
    <3>2. \A s \in Requests : Chain(s, ncached'[s]) \subseteq DOMAIN trie'
      BY <3>1, <2>2, <2>4 DEF Accounting, RefCountsExact
    <3>3. ASSUME NEW n \in DOMAIN trie PROVE trie'[n].ref = Cardinality(Holders(n)')
      <4>1. Holders(n)' = Holders(n) \ {r}
        BY <3>1, <2>4 DEF Holders
      <4>2. r \in Holders(n) <=> n \in Chain(r, ncached[r])
        BY DEF Holders
      <4>3. trie[n].ref = Cardinality(Holders(n))
        BY DEF Accounting, RefCountsExact
      <4>4. Cardinality(Holders(n) \ {r}) =
              IF r \in Holders(n) THEN Cardinality(Holders(n)) - 1 ELSE Cardinality(Holders(n))
        BY HoldersFinite, FS_RemoveElement
      <4>5. QED
        BY <4>1, <4>2, <4>3, <4>4, <2>6
    <3>4. QED
      BY <3>2, <3>3, <2>2 DEF RefCountsExact
  <2>16. SharedBlocksInPlace'
    BY <2>2, <2>4, <2>6 DEF Accounting, SharedBlocksInPlace
  <2>17. HoldsEndWithTheTable'
    <3>1. ncached'[r] <= Len(tables'[r])
      BY <2>4, EmptySeq
    <3>2. QED
      BY <3>1, <2>1, <2>4 DEF Accounting, HoldsEndWithTheTable
  <2>18. QED
    BY <2>12, <2>13, <2>14, <2>15, <2>16, <2>17 DEF Accounting
<1>3. QED
  BY <1>1, <1>2

(* insert() of the blocks ncached[r] + 1 .. k of r's prompt.                *)
LEMMA InsertAccounting ==
  ASSUME Accounting, NEW r \in Requests, NEW k \in Nat, ncached[r] < k,
         allocating = {}, k <= FullBlocks(r), k <= Len(tables[r]),
         Insert(r, ncached[r], k, tables[r]),
         ncached' = [ncached EXCEPT ![r] = k],
         UNCHANGED <<free, tables, allocating, need, oom>>
  PROVE  Accounting'
<1> DEFINE walked == Chain(r, k) \ Chain(r, ncached[r])
           new == walked \ DOMAIN trie
<1>1. /\ trie \in [DOMAIN trie -> [phys : Blocks, ref : Nat]]
      /\ tables \in [Requests -> Seq(Blocks)]
      /\ ncached \in [Requests -> Nat] /\ ncached[r] \in Nat
      /\ tables[r] \in Seq(Blocks) /\ Len(tables[r]) \in Nat
      /\ DOMAIN tables[r] = 1..Len(tables[r])
  BY LenProperties DEF Accounting, BMTypeOK
<1>2. /\ DOMAIN trie' = DOMAIN trie \cup walked
      /\ trie' = [m \in DOMAIN trie \cup walked |->
                CASE m \notin walked -> trie[m]
                  [] m \in walked \cap DOMAIN trie -> [trie[m] EXCEPT !.ref = @ + 1]
                  [] OTHER -> [phys |-> tables[r][Len(m) \div BlockSize], ref |-> 1]]
      /\ lastUsed' = Stamp(DOMAIN trie \cup walked, walked)
  BY DEF Insert
<1>3. \A n \in walked : \E i \in (ncached[r] + 1)..k : n = Node(r, i)
  BY <1>1 DEF Chain
<1>4. \A i \in 1..k : /\ i \in 0..FullBlocks(r)
                      /\ i \in DOMAIN tables[r]
                      /\ Len(Node(r, i)) \div BlockSize = i
  <2>1. SUFFICES ASSUME NEW i \in 1..k
                 PROVE  /\ i \in 0..FullBlocks(r)
                        /\ i \in DOMAIN tables[r]
                        /\ Len(Node(r, i)) \div BlockSize = i
    OBVIOUS
  <2>2. i \in 0..FullBlocks(r) /\ i \in DOMAIN tables[r]
    BY <1>1, FullBlocksType
  <2>3. Len(Node(r, i)) = i * BlockSize
    BY <2>2, NodeLen
  <2>4. BlockSize \in Nat \ {0} /\ i \in Nat
    BY PromptAssumption
  <2>5. (i * BlockSize) \div BlockSize = i
    BY <2>4, Z3
  <2>6. QED
    BY <2>2, <2>3, <2>5
<1>5. \A i \in 1..k : Node(r, i) \in new =>
        trie'[Node(r, i)] = [phys |-> tables[r][i], ref |-> 1]
  BY <1>2, <1>4
<1>6. \A n \in walked \cap DOMAIN trie : /\ trie'[n].phys = trie[n].phys
                                         /\ trie'[n].ref = trie[n].ref + 1
                                         /\ trie'[n] \in [phys : Blocks, ref : Nat]
  <2>1. SUFFICES ASSUME NEW n \in walked \cap DOMAIN trie
                 PROVE  /\ trie'[n].phys = trie[n].phys
                        /\ trie'[n].ref = trie[n].ref + 1
                        /\ trie'[n] \in [phys : Blocks, ref : Nat]
    OBVIOUS
  <2>2. trie'[n] = [trie[n] EXCEPT !.ref = @ + 1]
    BY <1>2
  <2>3. trie[n] \in [phys : Blocks, ref : Nat]
    BY <1>1
  <2>4. QED
    BY <2>2, <2>3
<1>7. \A n \in DOMAIN trie \ walked : trie'[n] = trie[n]
  BY <1>2
<1>8. \A n \in new : \E i \in (ncached[r] + 1)..k :
        /\ i \in DOMAIN tables[r] /\ i > ncached[r]
        /\ n = Node(r, i)
        /\ trie'[n].phys = tables[r][i] /\ trie'[n].ref = 1
        /\ trie'[n] \in [phys : Blocks, ref : Nat]
  <2>1. SUFFICES ASSUME NEW n \in new
                 PROVE  \E i \in (ncached[r] + 1)..k :
                          /\ i \in DOMAIN tables[r] /\ i > ncached[r]
                          /\ n = Node(r, i)
                          /\ trie'[n].phys = tables[r][i] /\ trie'[n].ref = 1
                          /\ trie'[n] \in [phys : Blocks, ref : Nat]
    OBVIOUS
  <2>2. PICK i \in (ncached[r] + 1)..k : n = Node(r, i)
    BY <1>3
  <2>3. i \in 1..k /\ i > ncached[r]
    BY <1>1
  <2>4. i \in DOMAIN tables[r] /\ tables[r][i] \in Blocks
    BY <2>3, <1>1, <1>4, ElementOfSeq
  <2>5. trie'[n] = [phys |-> tables[r][i], ref |-> 1]
    BY <2>2, <2>3, <1>5
  <2>6. /\ trie'[n].phys = tables[r][i] /\ trie'[n].ref = 1
        /\ trie'[n] \in [phys : Blocks, ref : Nat]
    BY <2>4, <2>5
  <2>7. QED
    BY <2>2, <2>3, <2>4, <2>6
<1>9. \A n \in DOMAIN trie : trie'[n].phys = trie[n].phys
  BY <1>6, <1>7
<1> HIDE DEF walked, new
<1>10. DOMAIN trie' = DOMAIN trie \cup new /\ DOMAIN trie \cap new = {}
  BY <1>2 DEF new
<1>11. \A i \in DOMAIN tables[r] : i > ncached[r] => tables[r][i] \notin TrieBlocks
  <2>1. SUFFICES ASSUME NEW i \in DOMAIN tables[r], i > ncached[r], NEW n \in DOMAIN trie,
                        tables[r][i] = trie[n].phys
                 PROVE  FALSE
    BY DEF TrieBlocks
  <2>2. i <= ncached[r]
    BY <2>1 DEF Accounting, SharedBlocksInPlace
  <2>3. QED
    BY <2>1, <2>2, <1>1
<1>12. \A s \in Requests : TableBlocks(s)' = TableBlocks(s)
  BY DEF TableBlocks
<1>13. TrieBlocks \subseteq TrieBlocks' /\ TrieBlocks' \subseteq TrieBlocks \cup TableBlocks(r)
  BY <1>8, <1>9, <1>10 DEF TrieBlocks, TableBlocks
<1>14. /\ ncached'[r] = k
       /\ \A s \in Requests \ {r} : ncached'[s] = ncached[s]
       /\ ncached' \in [Requests -> Nat]
  BY <1>1
<1>15. BMTypeOK'
  <2>1. trie' \in [DOMAIN trie' -> [phys : Blocks, ref : Nat]]
    <3>1. \A n \in new : trie'[n] \in [phys : Blocks, ref : Nat]
      BY <1>8
    <3>2. \A n \in DOMAIN trie : trie'[n] \in [phys : Blocks, ref : Nat]
      BY <1>1, <1>6, <1>7
    <3>3. \A n \in DOMAIN trie' : trie'[n] \in [phys : Blocks, ref : Nat]
      BY <3>1, <3>2, <1>10
    <3>4. trie' = [n \in DOMAIN trie' |-> trie'[n]]
      BY <1>2
    <3>5. QED
      BY <3>3, <3>4
  <2>2. lastUsed' \in [DOMAIN trie' -> Nat]
    <3>1. IsFiniteSet(walked)
      BY ChainFinite, FS_Subset DEF walked
    <3>2. IsFiniteSet(DOMAIN trie \cup walked)
      BY <3>1, TrieFinite, FS_Union DEF Accounting
    <3>3. QED
      BY <3>2, <1>2, StampType
  <2>3. DOMAIN trie' \subseteq Nodes
    <3>1. Chain(r, k) \subseteq Chain(r, FullBlocks(r))
      BY FullBlocksType DEF Chain
    <3>2. walked \subseteq Nodes
      BY <3>1 DEF walked, Nodes
    <3>3. QED
      BY <3>2, <1>2 DEF Accounting, BMTypeOK
  <2>4. \A s \in Requests : ncached'[s] <= FullBlocks(s)
    BY <1>14 DEF Accounting, BMTypeOK
  <2>5. QED
    BY <1>14, <2>1, <2>2, <2>3, <2>4 DEF Accounting, BMTypeOK
<1>16. NoBlockClaimedTwice'
  <2>1. free \cap TableBlocks(r) = {} /\ free \cap TrieBlocks = {}
    BY DEF Accounting, NoBlockClaimedTwice
  <2>2. free' \cap TrieBlocks' = {}
    BY <2>1, <1>13
  <2>3. ASSUME NEW m \in new, NEW n \in DOMAIN trie, trie'[m].phys = trie'[n].phys
        PROVE  FALSE
    <3>1. PICK i \in DOMAIN tables[r] : i > ncached[r] /\ trie'[m].phys = tables[r][i]
      BY <1>1, <1>8
    <3>2. trie'[n].phys \in TrieBlocks
      BY <1>9 DEF TrieBlocks
    <3>3. QED
      BY <3>1, <3>2, <2>3, <1>11
  <2>4. ASSUME NEW m \in new, NEW n \in new, trie'[m].phys = trie'[n].phys
        PROVE  m = n
    <3>1. PICK i \in DOMAIN tables[r] : m = Node(r, i) /\ trie'[m].phys = tables[r][i]
      BY <1>8
    <3>2. PICK j \in DOMAIN tables[r] : n = Node(r, j) /\ trie'[n].phys = tables[r][j]
      BY <1>8
    <3>3. i = j
      BY <3>1, <3>2, <2>4 DEF Accounting, NoBlockClaimedTwice
    <3>4. QED
      BY <3>1, <3>2, <3>3
  <2>5. ASSUME NEW m \in DOMAIN trie, NEW n \in DOMAIN trie, trie'[m].phys = trie'[n].phys
        PROVE  m = n
    BY <2>5, <1>9 DEF Accounting, NoBlockClaimedTwice
  <2>6. \A m, n \in DOMAIN trie' : trie'[m].phys = trie'[n].phys => m = n
    BY <2>3, <2>4, <2>5, <1>10
  <2>7. QED
    BY <2>2, <2>6, <1>12, <1>13 DEF Accounting, NoBlockClaimedTwice
<1>17. NoBlockLost'
  BY <1>12, <1>13 DEF Accounting, NoBlockLost
<1>18. RefCountsExact'
  <2>1. Chain(r, ncached[r]) \subseteq Chain(r, k)
    BY <1>1 DEF Chain
  <2>2. Chain(r, k) \subseteq DOMAIN trie'
    BY <1>2 DEF Accounting, RefCountsExact, walked
  <2>3. \A s \in Requests : Chain(s, ncached'[s]) \subseteq DOMAIN trie'
    BY <2>2, <1>10, <1>14 DEF Accounting, RefCountsExact
  <2>4. ASSUME NEW n
        PROVE  Holders(n)' = IF n \in walked THEN Holders(n) \cup {r} ELSE Holders(n)
    BY <2>1, <1>14 DEF Holders, walked
  <2>5. ASSUME NEW n \in walked PROVE r \notin Holders(n)
    BY DEF Holders, walked
  <2>6. ASSUME NEW n \in DOMAIN trie PROVE trie[n].ref = Cardinality(Holders(n))
    BY DEF Accounting, RefCountsExact
  <2>7. ASSUME NEW n \in walked
        PROVE  Cardinality(Holders(n)') = Cardinality(Holders(n)) + 1
    BY <2>4, <2>5, HoldersFinite, FS_AddElement
  <2>8. ASSUME NEW n \in walked \cap DOMAIN trie PROVE trie'[n].ref = Cardinality(Holders(n)')
    BY <2>6, <2>7, <1>6
  <2>9. ASSUME NEW n \in DOMAIN trie \ walked PROVE trie'[n].ref = Cardinality(Holders(n)')
    BY <2>4, <2>6, <1>7
  <2>10. ASSUME NEW n \in new PROVE trie'[n].ref = Cardinality(Holders(n)')
    <3>1. Holders(n) = {}
      BY <1>10 DEF Accounting, RefCountsExact, Holders
    <3>2. Cardinality(Holders(n)) = 0
      BY <3>1, FS_EmptySet
    <3>3. n \in walked
      BY DEF new
    <3>4. trie'[n].ref = 1
      BY <1>8
    <3>5. QED
      BY <3>2, <3>3, <3>4, <2>7
  <2>11. QED
    BY <2>3, <2>8, <2>9, <2>10, <1>10 DEF RefCountsExact
<1>19. SharedBlocksInPlace'
  <2>1. SUFFICES ASSUME NEW s \in Requests, NEW i \in DOMAIN tables[s], NEW n \in DOMAIN trie',
                        tables[s][i] = trie'[n].phys
                 PROVE  i <= ncached'[s] /\ n = Node(s, i)
    BY DEF SharedBlocksInPlace
  <2>2. CASE n \in DOMAIN trie
    <3>1. i <= ncached[s] /\ n = Node(s, i)
      BY <2>1, <2>2, <1>9 DEF Accounting, SharedBlocksInPlace
    <3>2. i \in Nat
      BY <1>1, LenProperties
    <3>3. QED
      BY <3>1, <3>2, <1>1, <1>14
  <2>3. CASE n \in new
    <3>1. PICK j \in (ncached[r] + 1)..k : /\ j \in DOMAIN tables[r]
                                           /\ n = Node(r, j)
                                           /\ trie'[n].phys = tables[r][j]
      BY <2>3, <1>8
    <3>2. tables[r][j] \notin TrieBlocks
      BY <3>1, <1>1, <1>11
    <3>3. s = r
      <4>1. SUFFICES ASSUME s # r PROVE FALSE
        OBVIOUS
      <4>2. tables[r][j] \in TableBlocks(r) \cap TableBlocks(s)
        BY <2>1, <3>1 DEF TableBlocks
      <4>3. QED
        BY <4>1, <4>2, <3>2 DEF Accounting, NoBlockClaimedTwice
    <3>4. i = j
      BY <2>1, <3>1, <3>3 DEF Accounting, NoBlockClaimedTwice
    <3>5. QED
      BY <3>1, <3>3, <3>4, <1>14
  <2>4. QED
    BY <2>2, <2>3, <1>10
<1>20. HoldsEndWithTheTable'
  BY <1>14 DEF Accounting, HoldsEndWithTheTable
<1>21. QED
  BY <1>15, <1>16, <1>17, <1>18, <1>19, <1>20 DEF Accounting

LEMMA CallInsertAccounting ==
  ASSUME Accounting, NEW r \in Requests, NEW computed \in 1..Capacity(r),
         ncached[r] * BlockSize <= computed, InsertComputedPrefix(r, computed)
  PROVE  Accounting'
<1> DEFINE c == IF computed < Len(Prompt[r]) THEN computed ELSE Len(Prompt[r])
           k == c \div BlockSize
<1>1. /\ BlockSize \in Nat \ {0} /\ Len(Prompt[r]) \in Nat
      /\ tables[r] \in Seq(Blocks) /\ Len(tables[r]) \in Nat
      /\ ncached[r] \in Nat /\ ncached[r] <= FullBlocks(r)
  BY PromptAssumption, FullBlocksType, LenProperties DEF Accounting, BMTypeOK
<1>2. Len(tables[r]) * BlockSize \in Nat /\ ncached[r] * BlockSize \in Nat
  BY <1>1, MulType
<1>3. computed \in Nat /\ computed <= Len(tables[r]) * BlockSize
  BY <1>2 DEF Capacity
<1>4. /\ c \in Nat /\ c <= computed /\ c <= Len(Prompt[r])
      /\ ncached[r] * BlockSize <= c
  <2>1. ncached[r] * BlockSize <= Len(Prompt[r])
    BY <1>1, NodeLen, FullBlocksType
  <2>2. QED
    BY <2>1, <1>1, <1>2, <1>3
<1>5. /\ allocating = {}
      /\ IF ~EnablePrefixCaching \/ k = 0 THEN UNCHANGED <<trie, lastUsed, ncached>>
         ELSE /\ ncached' = [ncached EXCEPT ![r] = k]
              /\ IF k <= ncached[r] THEN UNCHANGED trieVars
                 ELSE Insert(r, ncached[r], k, tables[r])
      /\ UNCHANGED <<free, tables, allocating, need, oom>>
  BY DEF InsertComputedPrefix, Idle
<1> HIDE DEF c
<1>6. /\ k \in Nat /\ k * BlockSize \in Nat
      /\ k * BlockSize <= c /\ ncached[r] <= k
  BY <1>1, <1>4, DivBound, MulType
<1> HIDE DEF k
<1>7. k <= FullBlocks(r) /\ k <= Len(tables[r])
  <2>1. k * BlockSize <= Len(Prompt[r]) /\ k * BlockSize <= Len(tables[r]) * BlockSize
    BY <1>1, <1>2, <1>3, <1>4, <1>6
  <2>2. k <= FullBlocks(r)
    BY <2>1, <1>1, <1>6, DivBound DEF FullBlocks
  <2>3. k <= Len(tables[r])
    BY <2>1, <1>1, <1>6, MulCancel
  <2>4. QED
    BY <2>2, <2>3
<1>8. CASE EnablePrefixCaching /\ k # 0 /\ ncached[r] < k
  <2>1. PICK n : n = k
    OBVIOUS
  <2>2. /\ n \in Nat /\ ncached[r] < n /\ n <= FullBlocks(r) /\ n <= Len(tables[r])
        /\ Insert(r, ncached[r], n, tables[r])
        /\ ncached' = [ncached EXCEPT ![r] = n]
    BY <2>1, <1>1, <1>5, <1>6, <1>7, <1>8
  <2>3. QED
    BY <2>2, <1>5, InsertAccounting
<1>9. CASE ~EnablePrefixCaching \/ k = 0 \/ ~(ncached[r] < k)
  <2>1. UNCHANGED ncached
    <3>1. CASE ~EnablePrefixCaching \/ k = 0
      BY <3>1, <1>5
    <3>2. CASE EnablePrefixCaching /\ k # 0
      <4>1. k = ncached[r]
        BY <3>2, <1>9, <1>1, <1>6
      <4>2. ncached' = [ncached EXCEPT ![r] = k]
        BY <3>2, <1>5
      <4>3. QED
        BY <4>1, <4>2 DEF Accounting, BMTypeOK
    <3>3. QED
      BY <3>1, <3>2, ConfigAssumption DEF CacheConfig
  <2>2. UNCHANGED <<trie, lastUsed>>
    BY <1>1, <1>5, <1>6, <1>9 DEF trieVars
  <2>3. QED
    BY <2>1, <2>2, <1>5, StutterAccounting
<1>10. QED
  BY <1>8, <1>9, ConfigAssumption DEF CacheConfig

LEMMA NextAccounting == Accounting /\ [BMNext]_bmVars => Accounting'
<1> SUFFICES ASSUME Accounting, [BMNext]_bmVars PROVE Accounting'
  OBVIOUS
<1>1. CASE DrainEviction
  BY <1>1, DrainEvictionAccounting
<1>2. CASE AllocateFail
  BY <1>2, AllocateFailAccounting
<1>3. ASSUME NEW r \in Requests, CallAllocate(r) PROVE Accounting'
  <2>1. PICK len \in Len(Prompt[r])..MaxLen : AllocateBegin(r, len)
    BY <1>3 DEF CallAllocate
  <2>2. len \in Nat /\ Len(Prompt[r]) <= len
    BY FullBlocksType, ConfigAssumption DEF CacheConfig
  <2>3. QED
    BY <2>1, <2>2, AllocateBeginAccounting
<1>4. ASSUME NEW r \in Requests, AllocateFinish(r) PROVE Accounting'
  BY <1>4, AllocateFinishAccounting
<1>5. ASSUME NEW r \in Requests, CallAppendSlot(r) PROVE Accounting'
  <2>1. PICK len \in 1..MaxLen : AppendSlot(r, len)
    BY <1>5 DEF CallAppendSlot
  <2>2. len \in Nat
    BY ConfigAssumption DEF CacheConfig
  <2>3. QED
    BY <2>1, <2>2, AppendSlotAccounting
<1>6. ASSUME NEW r \in Requests, CallEnsureCapacity(r) PROVE Accounting'
  <2>1. PICK len \in 1..MaxLen : EnsureCapacity(r, len)
    BY <1>6 DEF CallEnsureCapacity
  <2>2. len \in Nat \ {0}
    BY ConfigAssumption DEF CacheConfig
  <2>3. QED
    BY <2>1, <2>2, EnsureCapacityAccounting
<1>7. ASSUME NEW r \in Requests, CallInsert(r) PROVE Accounting'
  BY <1>7, CallInsertAccounting DEF CallInsert
<1>8. ASSUME NEW r \in Requests, Free(r) PROVE Accounting'
  BY <1>8, FreeAccounting
<1>9. CASE UNCHANGED bmVars
  BY <1>9, StutterAccounting DEF bmVars
<1>10. QED
  BY <1>1, <1>2, <1>3, <1>4, <1>5, <1>6, <1>7, <1>8, <1>9 DEF BMNext

(* Whatever sequence of admissions, growth, registration, eviction and      *)
(* teardown a caller that keeps the protocol makes, the accounting of       *)
(* block_manager.py and prefix_cache.py holds, for every configuration.     *)
THEOREM AccountingInvariant == BMSpec => []Accounting
<1>1. QED
  BY InitAccounting, NextAccounting, PTL DEF BMSpec

(* block_manager.py's state keeps its types.                                *)
THEOREM TypeCorrect == BMSpec => []BMTypeOK
<1>1. Accounting => BMTypeOK
  BY DEF Accounting
<1>2. QED
  BY <1>1, AccountingInvariant, PTL

(* free()'s docstring: no block is ever claimed twice.                      *)
THEOREM NeverClaimedTwice == BMSpec => []NoBlockClaimedTwice
<1>1. Accounting => NoBlockClaimedTwice
  BY DEF Accounting
<1>2. QED
  BY <1>1, AccountingInvariant, PTL

(* No block of the pool is ever lost.                                       *)
THEOREM NeverLost == BMSpec => []NoBlockLost
<1>1. Accounting => NoBlockLost
  BY DEF Accounting
<1>2. QED
  BY <1>1, AccountingInvariant, PTL

(* The ref counts of prefix_cache.py are exact, so release() never raises   *)
(* and evict_one_lru() never reclaims a node in use.                        *)
THEOREM RefCountsAlwaysExact == BMSpec => []RefCountsExact
<1>1. Accounting => RefCountsExact
  BY DEF Accounting
<1>2. QED
  BY <1>1, AccountingInvariant, PTL

(* A request's table and its own path in the trie agree on shared blocks.   *)
THEOREM SharedAlwaysInPlace == BMSpec => []SharedBlocksInPlace
<1>1. Accounting => SharedBlocksInPlace
  BY DEF Accounting
<1>2. QED
  BY <1>1, AccountingInvariant, PTL

-----------------------------------------------------------------------------
(* Every cached path can be walked from the root *)

(* TrieIsPrefixClosed along the blocks of a prompt.                         *)
Linked ==
  \A r \in Requests : \A i \in 1..FullBlocks(r) :
    i + 1 <= FullBlocks(r) /\ Node(r, i + 1) \in DOMAIN trie => Node(r, i) \in DOMAIN trie

LEMMA LinkedIsPrefixClosed ==
  ASSUME BMTypeOK, Linked
  PROVE  TrieIsPrefixClosed
<1> SUFFICES ASSUME NEW n \in DOMAIN trie, Len(n) > BlockSize
             PROVE  SubSeq(n, 1, Len(n) - BlockSize) \in DOMAIN trie
  BY DEF TrieIsPrefixClosed
<1>1. PICK r \in Requests : n \in Chain(r, FullBlocks(r))
  BY DEF BMTypeOK, Nodes
<1>2. PICK k \in 1..FullBlocks(r) : n = Node(r, k)
  BY <1>1 DEF Chain
<1>3. /\ BlockSize \in Nat \ {0} /\ FullBlocks(r) \in Nat
      /\ k \in Nat /\ k \in 0..FullBlocks(r) /\ Len(n) = k * BlockSize
  BY <1>2, PromptAssumption, FullBlocksType, NodeLen
<1>4. k # 1
  BY <1>3
<1>5. PICK i \in 1..FullBlocks(r) : k = i + 1 /\ i \in 0..FullBlocks(r)
  <2>1. k - 1 \in 1..FullBlocks(r) /\ k = (k - 1) + 1
    BY <1>3, <1>4
  <2>2. QED
    BY <2>1
<1>6. SubSeq(n, 1, i * BlockSize) = Node(r, i) /\ Len(n) = i * BlockSize + BlockSize
      /\ i * BlockSize \in Nat
  BY <1>2, <1>3, <1>5, ParentNode, MulType
<1>7. Len(n) - BlockSize = i * BlockSize
  BY <1>3, <1>6
<1>8. i + 1 <= FullBlocks(r) /\ Node(r, i + 1) = n
  BY <1>2, <1>5
<1>9. Node(r, i) \in DOMAIN trie
  BY <1>8 DEF Linked
<1>10. QED
  BY <1>6, <1>7, <1>9

(* evict_one_lru() takes a leaf, so no path loses an inner node.            *)
LEMMA DrainEvictionLinked ==
  ASSUME Linked, DrainEviction
  PROVE  Linked'
<1>1. PICK n \in Evictable : EvictOneLRU(n)
  BY DEF DrainEviction
<1>2. DOMAIN trie' = DOMAIN trie \ {n} /\ Children(n) = {}
  BY <1>1 DEF EvictOneLRU, Evictable
<1>3. SUFFICES ASSUME NEW r \in Requests, NEW i \in 1..FullBlocks(r), i + 1 <= FullBlocks(r),
                      Node(r, i + 1) \in DOMAIN trie'
               PROVE  Node(r, i) \in DOMAIN trie'
  BY DEF Linked
<1>4. Node(r, i) \in DOMAIN trie /\ Node(r, i + 1) \in DOMAIN trie
  BY <1>2, <1>3 DEF Linked
<1>5. i \in 0..FullBlocks(r)
  BY FullBlocksType
<1>6. Node(r, i) # n
  BY <1>2, <1>3, <1>4, <1>5, NextNodeIsChild
<1>7. QED
  BY <1>2, <1>4, <1>6

(* insert() walks the blocks in order, from the held ones on.               *)
LEMMA InsertLinked ==
  ASSUME Accounting, Accounting', Linked, NEW r \in Requests, NEW computed,
         InsertComputedPrefix(r, computed)
  PROVE  Linked'
<1>1. CASE UNCHANGED trie
  BY <1>1 DEF Linked
<1>2. CASE ~(UNCHANGED trie)
  <2>1. PICK n : /\ ncached' = [ncached EXCEPT ![r] = n]
                 /\ Insert(r, ncached[r], n, tables[r])
    BY <1>2 DEF InsertComputedPrefix, trieVars
  <2>2. n \in Nat /\ n <= FullBlocks(r) /\ FullBlocks(r) \in Nat
    BY <2>1, FullBlocksType DEF Accounting, BMTypeOK
  <2>3. DOMAIN trie' = DOMAIN trie \cup (Chain(r, n) \ Chain(r, ncached[r]))
    BY <2>1 DEF Insert
  <2>4. Chain(r, n) \subseteq DOMAIN trie'
    BY <2>3 DEF Accounting, RefCountsExact
  <2>5. SUFFICES ASSUME NEW s \in Requests, NEW i \in 1..FullBlocks(s), i + 1 <= FullBlocks(s),
                        Node(s, i + 1) \in DOMAIN trie'
                 PROVE  Node(s, i) \in DOMAIN trie'
    BY DEF Linked
  <2>6. CASE Node(s, i + 1) \in DOMAIN trie
    BY <2>3, <2>5, <2>6 DEF Linked
  <2>7. CASE Node(s, i + 1) \in Chain(r, n)
    <3>1. PICK j \in 1..n : Node(s, i + 1) = Node(r, j)
      BY <2>7 DEF Chain
    <3>2. i + 1 \in 0..FullBlocks(s) /\ i \in 0..FullBlocks(s) /\ j \in 0..FullBlocks(r)
      BY <2>2, <2>5, FullBlocksType
    <3>3. i + 1 = j
      BY <3>1, <3>2, NodeInjective
    <3>4. i \in 1..n /\ i \in 0..FullBlocks(r) /\ i + 1 <= FullBlocks(r)
      BY <2>2, <3>2, <3>3
    <3>5. Node(s, i) = Node(r, i)
      BY <2>5, <3>1, <3>2, <3>3, <3>4, ParentNode
    <3>6. QED
      BY <2>4, <3>4, <3>5 DEF Chain
  <2>8. QED
    BY <2>3, <2>5, <2>6, <2>7
<1>3. QED
  BY <1>1, <1>2

LEMMA NextLinked == Accounting /\ Accounting' /\ Linked /\ [BMNext]_bmVars => Linked'
<1> SUFFICES ASSUME Accounting, Accounting', Linked, [BMNext]_bmVars PROVE Linked'
  OBVIOUS
<1>1. CASE DrainEviction
  BY <1>1, DrainEvictionLinked
<1>2. ASSUME DOMAIN trie' = DOMAIN trie PROVE Linked'
  BY <1>2 DEF Linked
<1>3. CASE AllocateFail
  BY <1>2, <1>3 DEF AllocateFail
<1>4. ASSUME NEW r \in Requests, CallAllocate(r) PROVE Linked'
  BY <1>2, <1>4 DEF CallAllocate, AllocateBegin, Acquire
<1>5. ASSUME NEW r \in Requests, AllocateFinish(r) PROVE Linked'
  BY <1>2, <1>5 DEF AllocateFinish
<1>6. ASSUME NEW r \in Requests, CallAppendSlot(r) PROVE Linked'
  BY <1>2, <1>6 DEF CallAppendSlot, AppendSlot
<1>7. ASSUME NEW r \in Requests, CallEnsureCapacity(r) PROVE Linked'
  BY <1>2, <1>7 DEF CallEnsureCapacity, EnsureCapacity
<1>8. ASSUME NEW r \in Requests, CallInsert(r) PROVE Linked'
  BY <1>8, InsertLinked DEF CallInsert
<1>9. ASSUME NEW r \in Requests, Free(r) PROVE Linked'
  BY <1>2, <1>9 DEF Free, Release
<1>10. CASE UNCHANGED bmVars
  BY <1>2, <1>10 DEF bmVars
<1>11. QED
  BY <1>1, <1>3, <1>4, <1>5, <1>6, <1>7, <1>8, <1>9, <1>10 DEF BMNext

(* evict_one_lru()'s docstring: leaf-first eviction and registration in     *)
(* prompt order leave no node without its parent, so that match() can walk  *)
(* to whatever is cached.                                                   *)
THEOREM PathsStayWalkable == BMSpec => []TrieIsPrefixClosed
<1>1. BMInit => Linked
  BY DEF BMInit, Linked
<1>2. Accounting /\ Accounting' /\ Linked /\ [BMNext]_bmVars => Linked'
  BY NextLinked
<1>3. Accounting /\ Linked => TrieIsPrefixClosed
  BY LinkedIsPrefixClosed DEF Accounting
<1>4. QED
  BY <1>1, <1>2, <1>3, AccountingInvariant, PTL DEF BMSpec

-----------------------------------------------------------------------------
(* With a watermark of at least one block, an allocation that               *)
(* can_allocate() has approved does not run out of blocks.                  *)
(*                                                                          *)
(* can_allocate() counts every unreferenced leaf of the trie, and then      *)
(* allocate() takes the match and so pins one of them: the last matched     *)
(* node, the only one of its chain that can be a leaf.  The count is off    *)
(* by at most one, and the watermark pays for it.                           *)

LEMMA EvictableFinite ==
  ASSUME BMTypeOK
  PROVE  IsFiniteSet(Evictable) /\ Cardinality(Evictable) \in Nat
<1>1. IsFiniteSet(Evictable)
  BY TrieFinite, FS_Subset DEF Evictable
<1>2. QED
  BY <1>1, FS_CardinalityType

LEMMA EvictableFiniteAfter ==
  ASSUME BMTypeOK'
  PROVE  IsFiniteSet(Evictable') /\ Cardinality(Evictable') \in Nat
<1>1. DOMAIN trie' \subseteq Nodes
  BY DEF BMTypeOK
<1>2. Evictable' \subseteq Nodes
  BY <1>1 DEF Evictable
<1>3. IsFiniteSet(Evictable')
  BY <1>2, NodesFinite, FS_Subset
<1>4. QED
  BY <1>3, FS_CardinalityType

(* Taking the match pins at most one node that was evictable.               *)
LEMMA AcquirePinsOneLeaf ==
  ASSUME Accounting, NEW r \in Requests, NEW k \in 0..FullBlocks(r),
         Chain(r, k) \subseteq DOMAIN trie, Acquire(r, k)
  PROVE  Evictable \ {Node(r, k)} \subseteq Evictable'
<1>1. DOMAIN trie' = DOMAIN trie /\ \A n \in DOMAIN trie \ Chain(r, k) : trie'[n] = trie[n]
  BY DEF Acquire
<1>2. \A n : Children(n)' = Children(n)
  BY <1>1 DEF Children
<1>3. ASSUME NEW n \in Evictable \ {Node(r, k)} PROVE n \notin Chain(r, k)
  <2>1. SUFFICES ASSUME NEW i \in 1..k, n = Node(r, i) PROVE FALSE
    BY DEF Chain
  <2>2. i + 1 \in 1..k /\ i \in 1..FullBlocks(r) /\ i + 1 <= FullBlocks(r)
    BY <1>3, <2>1, FullBlocksType
  <2>3. Node(r, i + 1) \in DOMAIN trie
    BY <2>2 DEF Chain
  <2>4. Node(r, i + 1) \in Children(n)
    BY <2>1, <2>2, <2>3, NextNodeIsChild
  <2>5. QED
    BY <2>4 DEF Evictable
<1>4. QED
  BY <1>1, <1>2, <1>3 DEF Evictable

(* Removing one leaf leaves the other leaves evictable.                     *)
LEMMA EvictionKeepsLeaves ==
  ASSUME NEW n, EvictOneLRU(n)
  PROVE  Evictable \ {n} \subseteq Evictable'
<1>1. DOMAIN trie' = DOMAIN trie \ {n} /\ \A m \in DOMAIN trie' : trie'[m] = trie[m]
  BY DEF EvictOneLRU
<1>2. \A m : Children(m)' \subseteq Children(m)
  BY <1>1 DEF Children
<1>3. QED
  BY <1>1, <1>2 DEF Evictable

(* A set that keeps all but one element of another has at most one less.    *)
LEMMA AllButOne ==
  ASSUME NEW S, NEW T, IsFiniteSet(S), IsFiniteSet(T), NEW x, S \ {x} \subseteq T
  PROVE  Cardinality(S) - 1 <= Cardinality(T)
<1>1. Cardinality(S) \in Nat /\ Cardinality(T) \in Nat
  BY FS_CardinalityType
<1>2. Cardinality(S \ {x}) <= Cardinality(T)
  BY FS_Subset
<1>3. Cardinality(S \ {x}) = IF x \in S THEN Cardinality(S) - 1 ELSE Cardinality(S)
  BY FS_RemoveElement
<1>4. QED
  BY <1>1, <1>2, <1>3

-----------------------------------------------------------------------------

Covered == CheckedAllocationSucceeds /\ ReserveCoversNeed

LEMMA BeginCovered ==
  ASSUME Watermark >= 1, Accounting, Accounting', Covered, NEW r \in Requests, CallAllocate(r)
  PROVE  Covered'
<1> DEFINE k == MatchPrefix(r)
<1>1. PICK len \in Len(Prompt[r])..MaxLen : CanAllocate(r, len) /\ AllocateBegin(r, len)
  BY DEF CallAllocate
<1>2. k \in 0..FullBlocks(r) /\ Chain(r, k) \subseteq DOMAIN trie /\ k \in Nat
  BY MatchPrefixProperty, FullBlocksType
<1>3. /\ Cardinality(free) + Cardinality(Evictable) >= (NumBlocksNeeded(len) - k) + Watermark
      /\ Acquire(r, k)
      /\ need' = NumBlocksNeeded(len) - k
      /\ UNCHANGED <<free, oom>>
  BY <1>1 DEF CanAllocate, AllocateBegin
<1>4. PICK x : x = k
  OBVIOUS
<1>5. PICK y : y = Node(r, x)
  OBVIOUS
<1>6. Evictable \ {y} \subseteq Evictable'
  BY <1>2, <1>3, <1>4, <1>5, AcquirePinsOneLeaf
<1>7. /\ IsFiniteSet(Evictable) /\ Cardinality(Evictable) \in Nat
      /\ IsFiniteSet(Evictable') /\ Cardinality(Evictable') \in Nat
      /\ Cardinality(free) \in Nat
  <2>1. BMTypeOK /\ BMTypeOK'
    BY DEF Accounting
  <2>2. /\ IsFiniteSet(Evictable) /\ Cardinality(Evictable) \in Nat
        /\ Cardinality(free) \in Nat
    BY <2>1, EvictableFinite, FreeFinite
  <2>3. QED
    BY <2>1, <2>2, EvictableFiniteAfter
<1>8. Cardinality(Evictable) - 1 <= Cardinality(Evictable')
  BY <1>6, <1>7, AllButOne
<1>9. NumBlocksNeeded(len) \in Nat /\ Watermark \in Nat
  <2>1. len \in Nat
    BY FullBlocksType, ConfigAssumption DEF CacheConfig
  <2>2. Cardinality(Blocks) \in Nat
    BY PromptAssumption, FS_CardinalityType
  <2>3. QED
    BY <2>1, <2>2, ConfigAssumption, NumBlocksNeededType DEF CacheConfig
<1> HIDE DEF k
<1>10. Cardinality(free) + Cardinality(Evictable') >= need'
  BY <1>2, <1>3, <1>7, <1>8, <1>9
<1>11. QED
  BY <1>3, <1>10 DEF Covered, CheckedAllocationSucceeds, ReserveCoversNeed

LEMMA DrainCovered ==
  ASSUME Accounting, Accounting', Covered, DrainEviction
  PROVE  Covered'
<1>1. PICK n \in Evictable : EvictOneLRU(n) /\ free' = free \cup {trie[n].phys}
  BY DEF DrainEviction
<1>2. UNCHANGED <<allocating, need, oom>>
  BY DEF DrainEviction
<1>3. trie[n].phys \notin free
  BY DEF Accounting, NoBlockClaimedTwice, TrieBlocks, Evictable
<1>4. IsFiniteSet(free) /\ Cardinality(free) \in Nat
  BY FreeFinite DEF Accounting
<1>5. Cardinality(free') = Cardinality(free) + 1
  BY <1>1, <1>3, <1>4, FS_AddElement
<1>6. /\ IsFiniteSet(Evictable) /\ Cardinality(Evictable) \in Nat
      /\ IsFiniteSet(Evictable') /\ Cardinality(Evictable') \in Nat
  <2>1. BMTypeOK /\ BMTypeOK'
    BY DEF Accounting
  <2>2. QED
    BY <2>1, EvictableFinite, EvictableFiniteAfter
<1>7. Cardinality(Evictable) - 1 <= Cardinality(Evictable')
  BY <1>1, <1>6, EvictionKeepsLeaves, AllButOne
<1>8. need \in Nat
  BY DEF Accounting, BMTypeOK
<1>9. allocating' # {} => Cardinality(free') + Cardinality(Evictable') >= need'
  BY <1>2, <1>4, <1>5, <1>6, <1>7, <1>8 DEF Covered, ReserveCoversNeed
<1>10. QED
  BY <1>2, <1>9 DEF Covered, CheckedAllocationSucceeds, ReserveCoversNeed

LEMMA CoveredNeverFails ==
  ASSUME Accounting, Covered
  PROVE  ~AllocateFail
<1>1. SUFFICES ASSUME AllocateFail PROVE FALSE
  OBVIOUS
<1>2. Cardinality(free) < need /\ Evictable = {} /\ allocating # {}
  BY <1>1 DEF AllocateFail
<1>3. Cardinality(Evictable) = 0
  BY <1>2, FS_EmptySet
<1>4. Cardinality(free) \in Nat /\ need \in Nat
  BY FreeFinite DEF Accounting, BMTypeOK
<1>5. QED
  BY <1>2, <1>3, <1>4 DEF Covered, ReserveCoversNeed

LEMMA NextCovered ==
  ASSUME Watermark >= 1
  PROVE  Accounting /\ Accounting' /\ Covered /\ [BMNext]_bmVars => Covered'
<1> SUFFICES ASSUME Accounting, Accounting', Covered, [BMNext]_bmVars PROVE Covered'
  OBVIOUS
<1>1. CASE DrainEviction
  BY <1>1, DrainCovered
<1>2. CASE AllocateFail
  BY <1>2, CoveredNeverFails
<1>3. ASSUME NEW r \in Requests, CallAllocate(r) PROVE Covered'
  BY <1>3, BeginCovered
<1>4. ASSUME allocating' = {}, UNCHANGED oom PROVE Covered'
  BY <1>4 DEF Covered, CheckedAllocationSucceeds, ReserveCoversNeed
<1>5. ASSUME NEW r \in Requests, AllocateFinish(r) PROVE Covered'
  BY <1>4, <1>5 DEF AllocateFinish
<1>6. ASSUME NEW r \in Requests, CallAppendSlot(r) PROVE Covered'
  BY <1>4, <1>6 DEF CallAppendSlot, AppendSlot, Idle
<1>7. ASSUME NEW r \in Requests, CallEnsureCapacity(r) PROVE Covered'
  BY <1>4, <1>7 DEF CallEnsureCapacity, EnsureCapacity, Idle
<1>8. ASSUME NEW r \in Requests, CallInsert(r) PROVE Covered'
  BY <1>4, <1>8 DEF CallInsert, InsertComputedPrefix, Idle
<1>9. ASSUME NEW r \in Requests, Free(r) PROVE Covered'
  BY <1>4, <1>9 DEF Free, Idle
<1>10. CASE UNCHANGED bmVars
  BY <1>10 DEF bmVars, Covered, CheckedAllocationSucceeds, ReserveCoversNeed, Evictable, Children
<1>11. QED
  BY <1>1, <1>2, <1>3, <1>5, <1>6, <1>7, <1>8, <1>9, <1>10 DEF BMNext

(* With watermark_blocks >= 1, allocate() never raises OutOfMemoryError     *)
(* after can_allocate() has returned True, whatever the cache holds; with   *)
(* watermark_blocks = 0 it can.                                              *)
THEOREM ReserveSuffices ==
  ASSUME Watermark >= 1
  PROVE  BMSpec => []CheckedAllocationSucceeds
<1>1. BMInit => Covered
  BY DEF BMInit, Covered, CheckedAllocationSucceeds, ReserveCoversNeed
<1>2. Accounting /\ Accounting' /\ Covered /\ [BMNext]_bmVars => Covered'
  BY NextCovered
<1>3. Covered => CheckedAllocationSucceeds
  BY DEF Covered
<1>4. QED
  BY <1>1, <1>2, <1>3, AccountingInvariant, PTL DEF BMSpec
=============================================================================
