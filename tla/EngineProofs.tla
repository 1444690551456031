---------------------------- MODULE EngineProofs ----------------------------
(***************************************************************************)
(* Proofs about LLMEngine, for any number of requests, any prompts and any *)
(* sizes.  First the queues of its scheduler, speculation included; then,  *)
(* without speculation (NumSpecTokens = 0), the engine keeps               *)
(* BlockManager's protocol, what it schedules can be executed, and no step *)
(* raises when the watermark is at least one block.                        *)
(***************************************************************************)
EXTENDS LLMEngine, BlockManagerProofs

-----------------------------------------------------------------------------
(* What moving a request within a queue, between two of them, or out of one *)
(* does to their order and to their members.                                *)

(* No element occurs twice.                                                *)
NoDup(s) == \A i, j \in DOMAIN s : s[i] = s[j] => i = j

(* Concatenating three queues, one way or the other.                       *)
SameEitherWay(s, t, u) == (s \o t) \o u = s \o (t \o u)

LEMMA Regroup ==
  ASSUME NEW S, NEW s \in Seq(S), NEW t \in Seq(S), NEW u \in Seq(S)
  PROVE  SameEitherWay(s, t, u)
BY ConcatAssociative DEF SameEitherWay

LEMMA ConcatSet ==
  ASSUME NEW S, NEW s \in Seq(S), NEW t \in Seq(S)
  PROVE  /\ s \o t \in Seq(S)
         /\ ToSet(s \o t) = ToSet(s) \cup ToSet(t)
         /\ NoDup(s \o t) <=> NoDup(s) /\ NoDup(t) /\ ToSet(s) \cap ToSet(t) = {}
<1>1. /\ s \o t \in Seq(S)
      /\ DOMAIN s = 1..Len(s) /\ DOMAIN t = 1..Len(t) /\ Len(s) \in Nat /\ Len(t) \in Nat
      /\ DOMAIN (s \o t) = 1..(Len(s) + Len(t))
      /\ \A i \in DOMAIN s : (s \o t)[i] = s[i]
      /\ \A i \in DOMAIN t : (s \o t)[Len(s) + i] = t[i]
  OBVIOUS
<1>2. /\ \A i \in DOMAIN s : i \in DOMAIN (s \o t)
      /\ \A i \in DOMAIN t : Len(s) + i \in DOMAIN (s \o t)
      /\ \A i \in DOMAIN (s \o t) : i \in DOMAIN s \/ (i - Len(s) \in DOMAIN t
                                                       /\ Len(s) + (i - Len(s)) = i)
  BY <1>1
<1>3. ToSet(s \o t) = ToSet(s) \cup ToSet(t)
  BY <1>1, <1>2 DEF ToSet
<1>4. ASSUME NoDup(s \o t) PROVE NoDup(s) /\ NoDup(t) /\ ToSet(s) \cap ToSet(t) = {}
  <2>1. NoDup(s)
    BY <1>1, <1>2, <1>4 DEF NoDup
  <2>2. ASSUME NEW i \in DOMAIN t, NEW j \in DOMAIN t, t[i] = t[j] PROVE i = j
    <3>1. Len(s) + i = Len(s) + j
      BY <1>1, <1>2, <1>4, <2>2 DEF NoDup
    <3>2. QED
      BY <1>1, <3>1
  <2>3. ASSUME NEW i \in DOMAIN s, NEW j \in DOMAIN t, s[i] = t[j] PROVE FALSE
    <3>1. i = Len(s) + j
      BY <1>1, <1>2, <1>4, <2>3 DEF NoDup
    <3>2. QED
      BY <1>1, <3>1
  <2>4. QED
    BY <2>1, <2>2, <2>3 DEF NoDup, ToSet
<1>5. ASSUME NoDup(s), NoDup(t), ToSet(s) \cap ToSet(t) = {} PROVE NoDup(s \o t)
  <2>1. \A i \in DOMAIN s, j \in DOMAIN t : s[i] # t[j]
    BY <1>5 DEF ToSet
  <2>2. SUFFICES ASSUME NEW i \in DOMAIN (s \o t), NEW j \in DOMAIN (s \o t),
                        (s \o t)[i] = (s \o t)[j]
                 PROVE  i = j
    BY DEF NoDup
  <2>3. CASE i \in DOMAIN s /\ j \in DOMAIN s
    BY <1>1, <1>5, <2>2, <2>3 DEF NoDup
  <2>4. CASE i - Len(s) \in DOMAIN t /\ j - Len(s) \in DOMAIN t
    <3>1. t[i - Len(s)] = t[j - Len(s)]
      BY <1>1, <1>2, <2>2, <2>4
    <3>2. i - Len(s) = j - Len(s)
      BY <1>5, <2>4, <3>1 DEF NoDup
    <3>3. QED
      BY <1>1, <3>2
  <2>5. CASE i \in DOMAIN s /\ j - Len(s) \in DOMAIN t
    BY <1>1, <1>2, <2>1, <2>2, <2>5
  <2>6. CASE j \in DOMAIN s /\ i - Len(s) \in DOMAIN t
    BY <1>1, <1>2, <2>1, <2>2, <2>6
  <2>7. QED
    BY <1>2, <2>3, <2>4, <2>5, <2>6
<1>6. QED
  BY <1>1, <1>3, <1>4, <1>5

LEMMA AppendSet ==
  ASSUME NEW S, NEW s \in Seq(S), NEW x \in S
  PROVE  /\ Append(s, x) \in Seq(S)
         /\ ToSet(Append(s, x)) = ToSet(s) \cup {x}
         /\ NoDup(s) /\ x \notin ToSet(s) => NoDup(Append(s, x))
<1>1. /\ Append(s, x) \in Seq(S)
      /\ DOMAIN s = 1..Len(s) /\ Len(s) \in Nat
      /\ DOMAIN Append(s, x) = 1..(Len(s) + 1)
      /\ \A i \in DOMAIN s : Append(s, x)[i] = s[i]
      /\ Append(s, x)[Len(s) + 1] = x
  OBVIOUS
<1>2. \A i : i \in DOMAIN Append(s, x) <=> i \in DOMAIN s \/ i = Len(s) + 1
  BY <1>1
<1>3. QED
  BY <1>1, <1>2 DEF ToSet, NoDup

LEMMA HeadTail ==
  ASSUME NEW S, NEW s \in Seq(S), s # <<>>
  PROVE  /\ Tail(s) \in Seq(S) /\ Head(s) \in S
         /\ s = <<Head(s)>> \o Tail(s)
         /\ ToSet(s) = {Head(s)} \cup ToSet(Tail(s))
<1>1. Tail(s) \in Seq(S) /\ Head(s) \in S /\ Head(s) = s[1] /\ Len(s) \in Nat \ {0}
  BY HeadTailProperties, EmptySeq
<1>2. s = <<Head(s)>> \o Tail(s)
  <2>1. SubSeq(s, 1, Len(s)) = <<s[1]>> \o SubSeq(s, 1 + 1, Len(s))
    BY <1>1, SubSeqRecursiveFirst
  <2>2. SubSeq(s, 1, Len(s)) = s /\ SubSeq(s, 1 + 1, Len(s)) = Tail(s)
    BY SubSeqFull, TailIsSubSeq
  <2>3. QED
    BY <1>1, <2>1, <2>2
<1>3. <<Head(s)>> \in Seq(S) /\ ToSet(<<Head(s)>>) = {Head(s)}
  BY <1>1 DEF ToSet
<1>4. ToSet(<<Head(s)>> \o Tail(s)) = ToSet(<<Head(s)>>) \cup ToSet(Tail(s))
  BY <1>1, <1>3, ConcatSet
<1>5. QED
  BY <1>1, <1>2, <1>3, <1>4, Zenon

LEMMA FrontLast ==
  ASSUME NEW S, NEW s \in Seq(S), s # <<>>
  PROVE  /\ Front(s) \in Seq(S) /\ Last(s) \in S
         /\ s = Front(s) \o <<Last(s)>>
         /\ ToSet(s) = ToSet(Front(s)) \cup {Last(s)}
<1>1. Len(s) \in Nat \ {0} /\ \A i \in 1..Len(s) : s[i] \in S
  BY EmptySeq, ElementOfSeq
<1>2. Front(s) \in Seq(S) /\ Last(s) \in S
  <2>1. SubSeq(s, 1, Len(s) - 1) \in Seq(S)
    BY <1>1, SubSeqProperties
  <2>2. QED
    BY <1>1, <2>1 DEF Front, Last
<1>3. s = Front(s) \o <<Last(s)>>
  <2>1. SubSeq(s, 1, Len(s)) = SubSeq(s, 1, Len(s) - 1) \o <<s[Len(s)]>>
    BY <1>1, SubSeqRecursiveSecond
  <2>2. QED
    BY <2>1, SubSeqFull DEF Front, Last
<1>4. <<Last(s)>> \in Seq(S) /\ ToSet(<<Last(s)>>) = {Last(s)}
  BY <1>2 DEF ToSet
<1>5. ToSet(Front(s) \o <<Last(s)>>) = ToSet(Front(s)) \cup ToSet(<<Last(s)>>)
  BY <1>2, <1>4, ConcatSet
<1>6. QED
  BY <1>2, <1>3, <1>4, <1>5

(* The two parts of a concatenation, cut out again.                         *)
LEMMA CutConcat ==
  ASSUME NEW S, NEW a \in Seq(S), NEW b \in Seq(S)
  PROVE  /\ SubSeq(a \o b, 1, Len(a)) = a
         /\ SubSeq(a \o b, Len(a) + 1, Len(a) + Len(b)) = b
<1> DEFINE w == a \o b
           u == SubSeq(w, 1, Len(a))
           v == SubSeq(w, Len(a) + 1, Len(a) + Len(b))
<1>1. /\ Len(a) \in Nat /\ Len(b) \in Nat
      /\ w \in Seq(S) /\ Len(w) = Len(a) + Len(b)
      /\ \A i \in 1..Len(a) : w[i] = a[i]
      /\ \A i \in 1..Len(b) : w[Len(a) + i] = b[i]
      /\ \A i \in 1..(Len(a) + Len(b)) : w[i] \in S
  OBVIOUS
<1> HIDE DEF w
<1>2. u = a
  <2>1. \A i \in 1..Len(a) : w[i] \in S
    BY <1>1
  <2>2. /\ u \in Seq(S)
        /\ Len(u) = IF 1 <= Len(a) THEN Len(a) - 1 + 1 ELSE 0
        /\ \A i \in 1..(Len(a) - 1 + 1) : u[i] = w[1 + i - 1]
    BY <1>1, <2>1, SubSeqProperties
  <2>3. Len(u) = Len(a) /\ \A i \in 1..Len(u) : u[i] = a[i]
    <3>1. Len(u) = Len(a)
      BY <1>1, <2>2
    <3>2. ASSUME NEW i \in 1..Len(a) PROVE u[i] = a[i]
      <4>1. i \in 1..(Len(a) - 1 + 1) /\ 1 + i - 1 = i
        BY <1>1
      <4>2. QED
        BY <1>1, <2>2, <4>1
    <3>3. QED
      BY <3>1, <3>2
  <2>4. QED
    BY <2>2, <2>3, SeqEqual
<1>3. v = b
  <2>1. \A i \in (Len(a) + 1)..(Len(a) + Len(b)) : w[i] \in S
    BY <1>1
  <2>2. PICK m \in Int, n \in Int : m = Len(a) + 1 /\ n = Len(a) + Len(b)
    BY <1>1
  <2>3. /\ v \in Seq(S)
        /\ Len(v) = IF m <= n THEN n - m + 1 ELSE 0
        /\ \A i \in 1..(n - m + 1) : v[i] = w[m + i - 1]
    BY <2>1, <2>2, SubSeqProperties
  <2>4. n - m + 1 = Len(b) /\ Len(v) = Len(b)
    BY <1>1, <2>2, <2>3
  <2>5. ASSUME NEW i \in 1..Len(b) PROVE v[i] = b[i]
    <3>1. m + i - 1 = Len(a) + i
      BY <1>1, <2>2
    <3>2. QED
      BY <1>1, <2>3, <2>4, <3>1
  <2>6. QED
    BY <2>3, <2>4, <2>5, SeqEqual
<1>4. QED
  BY <1>2, <1>3 DEF w

(* A queue around one of its elements.                                      *)
LEMMA SplitAround ==
  ASSUME NEW S, NEW s \in Seq(S), NEW r \in ToSet(s)
  PROVE  \E a, b \in Seq(S) : s = (a \o <<r>>) \o b
<1>1. Len(s) \in Nat /\ DOMAIN s = 1..Len(s) /\ \A j \in 1..Len(s) : s[j] \in S
  BY LenProperties, ElementOfSeq
<1>2. PICK i \in 1..Len(s) : r = s[i]
  BY <1>1 DEF ToSet
<1>3. SubSeq(s, 1, i) = SubSeq(s, 1, i - 1) \o <<r>>
  BY <1>1, <1>2, SubSeqRecursiveSecond
<1>4. SubSeq(s, 1, i) \o SubSeq(s, i + 1, Len(s)) = SubSeq(s, 1, Len(s))
  <2>1. 1 \in 1..(Len(s) + 1) /\ i \in (1 - 1)..Len(s) /\ Len(s) \in i..Len(s)
    BY <1>1
  <2>2. QED
    BY <2>1, ConcatAdjacentSubSeq
<1>5. SubSeq(s, 1, Len(s)) = s
  BY SubSeqFull
<1>6. SubSeq(s, 1, i - 1) \in Seq(S)
  BY <1>1, SubSeqProperties
<1>7. SubSeq(s, i + 1, Len(s)) \in Seq(S)
  <2>1. \A j \in (i + 1)..Len(s) : s[j] \in S
    BY <1>1
  <2>2. QED
    BY <1>1, <2>1, SubSeqProperties
<1>8. QED
  BY <1>3, <1>4, <1>5, <1>6, <1>7

LEMMA WithoutSplit ==
  ASSUME NEW S, NEW a \in Seq(S), NEW b \in Seq(S), NEW r \in S,
         NoDup((a \o <<r>>) \o b)
  PROVE  Without((a \o <<r>>) \o b, r) = a \o b
<1> DEFINE ar == a \o <<r>>
           s == ar \o b
<1>1. /\ <<r>> \in Seq(S) /\ Len(<<r>>) = 1
      /\ ar \in Seq(S) /\ Len(a) \in Nat /\ Len(b) \in Nat /\ Len(ar) = Len(a) + 1
      /\ ar[Len(a) + 1] = r
  OBVIOUS
<1>2. /\ s \in Seq(S) /\ Len(s) = Len(a) + 1 + Len(b)
      /\ DOMAIN s = 1..Len(s)
      /\ s[Len(a) + 1] = r
  BY <1>1
<1>3. (CHOOSE i \in DOMAIN s : s[i] = r) = Len(a) + 1
  BY <1>1, <1>2 DEF NoDup
<1>4. s = a \o (<<r>> \o b)
  BY <1>1, ConcatAssociative
<1>5. <<r>> \o b \in Seq(S) /\ Len(<<r>> \o b) = Len(b) + 1
  BY <1>1
<1>6. SubSeq(s, 1, Len(a)) = a
  BY <1>4, <1>5, CutConcat
<1>7. SubSeq(s, Len(ar) + 1, Len(ar) + Len(b)) = b
  BY <1>1, CutConcat
<1>8. RemoveAt(s, Len(a) + 1) = SubSeq(s, 1, Len(a)) \o SubSeq(s, Len(ar) + 1, Len(ar) + Len(b))
  <2>1. (Len(a) + 1) - 1 = Len(a) /\ (Len(a) + 1) + 1 = Len(ar) + 1
        /\ Len(s) = Len(ar) + Len(b)
    BY <1>1, <1>2
  <2>2. QED
    BY <2>1 DEF RemoveAt
<1>9. QED
  BY <1>3, <1>6, <1>7, <1>8 DEF Without

(* Taking out the only occurrence of an element.                            *)
LEMMA WithoutSet ==
  ASSUME NEW S, NEW s \in Seq(S), NoDup(s), NEW r \in ToSet(s)
  PROVE  /\ Without(s, r) \in Seq(S)
         /\ ToSet(Without(s, r)) = ToSet(s) \ {r}
         /\ NoDup(Without(s, r))
<1>1. PICK a \in Seq(S), b \in Seq(S) : s = (a \o <<r>>) \o b
  <2>1. r \in ToSet(s)
    OBVIOUS
  <2>2. \E a, b \in Seq(S) : s = (a \o <<r>>) \o b
    BY <2>1, SplitAround
  <2>3. QED
    BY <2>2
<1>2. r \in S /\ <<r>> \in Seq(S) /\ ToSet(<<r>>) = {r}
  <2>1. r \in S
    BY LenProperties, ElementOfSeq DEF ToSet
  <2>2. QED
    BY <2>1 DEF ToSet
<1>3. /\ a \o <<r>> \in Seq(S)
      /\ ToSet(a \o <<r>>) = ToSet(a) \cup {r}
      /\ NoDup(a \o <<r>>) => NoDup(a) /\ ToSet(a) \cap {r} = {}
  <2>1. PICK l \in Seq(S) : l = <<r>>
    BY <1>2
  <2>2. /\ a \o l \in Seq(S)
        /\ ToSet(a \o l) = ToSet(a) \cup ToSet(l)
        /\ NoDup(a \o l) => NoDup(a) /\ ToSet(a) \cap ToSet(l) = {}
    BY ConcatSet
  <2>3. QED
    BY <1>2, <2>1, <2>2
<1>4. /\ ToSet(s) = (ToSet(a) \cup {r}) \cup ToSet(b)
      /\ NoDup(a \o <<r>>) /\ NoDup(b)
      /\ (ToSet(a) \cup {r}) \cap ToSet(b) = {}
  <2>1. PICK ar \in Seq(S) : ar = a \o <<r>>
    BY <1>3
  <2>2. s = ar \o b /\ NoDup(ar \o b)
    BY <1>1, <2>1
  <2>3. /\ ToSet(ar \o b) = ToSet(ar) \cup ToSet(b)
        /\ NoDup(ar) /\ NoDup(b) /\ ToSet(ar) \cap ToSet(b) = {}
    BY <2>2, ConcatSet
  <2>4. QED
    BY <1>3, <2>1, <2>2, <2>3
<1>5. Without(s, r) = a \o b
  BY <1>1, <1>2, WithoutSplit
<1>6. a \o b \in Seq(S) /\ ToSet(a \o b) = ToSet(a) \cup ToSet(b) /\ NoDup(a \o b)
  <2>1. NoDup(a) /\ NoDup(b) /\ ToSet(a) \cap ToSet(b) = {}
    BY <1>3, <1>4
  <2>2. QED
    BY <2>1, ConcatSet
<1>7. QED
  BY <1>3, <1>4, <1>5, <1>6

LEMMA WithoutConcat ==
  ASSUME NEW S, NEW s \in Seq(S), NEW t \in Seq(S), NoDup(s \o t), NEW r
  PROVE  /\ r \in ToSet(s) => Without(s \o t, r) = Without(s, r) \o t
         /\ r \in ToSet(t) => Without(s \o t, r) = s \o Without(t, r)
<1>1. NoDup(s) /\ NoDup(t)
  BY ConcatSet
<1>2. ASSUME r \in ToSet(s) PROVE Without(s \o t, r) = Without(s, r) \o t
  <2>1. PICK a \in Seq(S), b \in Seq(S) : s = (a \o <<r>>) \o b
    BY <1>2, SplitAround
  <2>2. r \in S /\ <<r>> \in Seq(S)
    <3>1. r \in S
      BY <1>2, LenProperties, ElementOfSeq DEF ToSet
    <3>2. QED
      BY <3>1
  <2>3. a \o <<r>> \in Seq(S) /\ b \o t \in Seq(S)
    BY <2>2
  <2>4. s \o t = (a \o <<r>>) \o (b \o t)
    <3>1. PICK e \in Seq(S) : e = a \o <<r>>
      BY <2>3, Zenon
    <3>2. SameEitherWay(e, b, t)
      BY Regroup, Zenon
    <3>3. QED
      BY <2>1, <3>1, <3>2, Zenon DEF SameEitherWay
  <2>5. Without(s \o t, r) = a \o (b \o t)
    <3>1. NoDup((a \o <<r>>) \o (b \o t))
      BY <2>4
    <3>2. Without((a \o <<r>>) \o (b \o t), r) = a \o (b \o t)
      BY <2>2, <2>3, <3>1, WithoutSplit
    <3>3. QED
      BY <2>4, <3>2
  <2>6. Without(s, r) = a \o b
    BY <1>1, <2>1, <2>2, WithoutSplit
  <2>7. SameEitherWay(a, b, t)
    BY Regroup, Zenon
  <2>8. QED
    BY <2>5, <2>6, <2>7, Zenon DEF SameEitherWay
<1>3. ASSUME r \in ToSet(t) PROVE Without(s \o t, r) = s \o Without(t, r)
  <2>1. PICK a \in Seq(S), b \in Seq(S) : t = (a \o <<r>>) \o b
    BY <1>3, SplitAround
  <2>2. r \in S /\ <<r>> \in Seq(S)
    <3>1. r \in S
      BY <1>3, LenProperties, ElementOfSeq DEF ToSet
    <3>2. QED
      BY <3>1
  <2>3. a \o <<r>> \in Seq(S) /\ s \o a \in Seq(S)
    BY <2>2
  <2>4. s \o t = (s \o (a \o <<r>>)) \o b
    <3>1. PICK e \in Seq(S) : e = a \o <<r>>
      BY <2>3, Zenon
    <3>2. SameEitherWay(s, e, b)
      BY Regroup, Zenon
    <3>3. QED
      BY <2>1, <3>1, <3>2, Zenon DEF SameEitherWay
  <2>5. SameEitherWay(s, a, <<r>>)
    BY <2>2, Regroup, Zenon
  <2>6. Without(s \o t, r) = (s \o a) \o b
    <3>1. s \o t = ((s \o a) \o <<r>>) \o b
      BY <2>4, <2>5, Zenon DEF SameEitherWay
    <3>2. NoDup(((s \o a) \o <<r>>) \o b)
      BY <3>1
    <3>3. Without(((s \o a) \o <<r>>) \o b, r) = (s \o a) \o b
      BY <2>2, <2>3, <3>2, WithoutSplit
    <3>4. QED
      BY <3>1, <3>3
  <2>7. Without(t, r) = a \o b
    BY <1>1, <2>1, <2>2, WithoutSplit
  <2>8. SameEitherWay(s, a, b)
    BY Regroup, Zenon
  <2>9. QED
    BY <2>6, <2>7, <2>8, Zenon DEF SameEitherWay
<1>4. QED
  BY <1>2, <1>3

-----------------------------------------------------------------------------
(* Two queues in a row *)

LEMMA ConcatAppend ==
  ASSUME NEW S, NEW s \in Seq(S), NEW t \in Seq(S), NEW x \in S
  PROVE  s \o Append(t, x) = Append(s \o t, x)
<1>1. <<x>> \in Seq(S) /\ s \o t \in Seq(S)
  OBVIOUS
<1>2. Append(t, x) = t \o <<x>> /\ Append(s \o t, x) = (s \o t) \o <<x>>
  BY <1>1, AppendIsConcat
<1>3. SameEitherWay(s, t, <<x>>)
  BY <1>1, Regroup, Zenon
<1>4. QED
  BY <1>2, <1>3, Zenon DEF SameEitherWay

(* The head of the second queue joins the first one.                        *)
LEMMA MoveHead ==
  ASSUME NEW S, NEW s \in Seq(S), NEW t \in Seq(S), t # <<>>
  PROVE  /\ Append(s, Head(t)) \in Seq(S)
         /\ Append(s, Head(t)) = s \o <<Head(t)>>
         /\ Append(s, Head(t)) \o Tail(t) = s \o t
<1>1. /\ Tail(t) \in Seq(S) /\ Head(t) \in S
      /\ t = <<Head(t)>> \o Tail(t)
  BY HeadTail
<1>2. <<Head(t)>> \in Seq(S)
  BY <1>1
<1>3. Append(s, Head(t)) \in Seq(S) /\ Append(s, Head(t)) = s \o <<Head(t)>>
  BY <1>1, AppendIsConcat, AppendProperties
<1>4. (s \o <<Head(t)>>) \o Tail(t) = s \o (<<Head(t)>> \o Tail(t))
  <2>1. PICK l \in Seq(S), u \in Seq(S) : l = <<Head(t)>> /\ u = Tail(t)
    BY <1>1, <1>2
  <2>2. SameEitherWay(s, l, u)
    BY Regroup, Zenon
  <2>3. QED
    BY <2>1, <2>2, Zenon DEF SameEitherWay
<1>5. QED
  BY <1>1, <1>3, <1>4

(* The last of the first queue goes to the front of the second one.         *)
LEMMA MoveLast ==
  ASSUME NEW S, NEW s \in Seq(S), NEW f \in Seq(S), NEW u \in Seq(S), NEW v \in S
  PROVE  (s \o f) \o (<<v>> \o u) = (s \o (f \o <<v>>)) \o u
<1>3. PICK l \in Seq(S) : l = <<v>>
  <2>1. <<v>> \in Seq(S)
    OBVIOUS
  <2>2. QED
    BY <2>1
<1>4. PICK e \in Seq(S) : e = s \o f
  BY ConcatProperties
<1>5. SameEitherWay(e, l, u)
  BY Regroup, Zenon
<1>6. SameEitherWay(s, f, l)
  BY Regroup, Zenon
<1>7. (s \o f) \o (l \o u) = (s \o (f \o l)) \o u
  BY <1>4, <1>5, <1>6, Zenon DEF SameEitherWay
<1>8. QED
  BY <1>3, <1>7, Zenon

-----------------------------------------------------------------------------
(* The last element *)

LEMMA LastOfAppend ==
  ASSUME NEW S, NEW s \in Seq(S), NEW x \in S
  PROVE  Last(Append(s, x)) = x /\ Len(Append(s, x)) = Len(s) + 1 /\ Append(s, x) # <<>>
<1>1. /\ Append(s, x) \in Seq(S) /\ Len(Append(s, x)) = Len(s) + 1 /\ Len(s) \in Nat
      /\ Append(s, x)[Len(s) + 1] = x
  BY AppendProperties, LenProperties
<1>2. QED
  BY <1>1, EmptySeq DEF Last

LEMMA LastOfTail ==
  ASSUME NEW S, NEW s \in Seq(S), s # <<>>
  PROVE  /\ Len(Tail(s)) = Len(s) - 1 /\ Len(s) \in Nat \ {0}
         /\ Tail(s) # <<>> => Last(Tail(s)) = Last(s)
         /\ Tail(s) # <<>> /\ NoDup(s) => Head(s) # Last(s)
<1>1. /\ Len(s) \in Nat \ {0} /\ Tail(s) \in Seq(S) /\ Len(Tail(s)) = Len(s) - 1
      /\ \A i \in 1..Len(Tail(s)) : Tail(s)[i] = s[i + 1]
      /\ Head(s) = s[1] /\ DOMAIN s = 1..Len(s)
  BY EmptySeq, HeadTailProperties, LenProperties
<1>2. CASE Tail(s) # <<>>
  <2>1. PICK n \in Nat : n = Len(s) /\ n >= 2
    <3>1. Len(Tail(s)) # 0
      BY <1>1, <1>2, EmptySeq
    <3>2. Len(s) >= 2
      BY <1>1, <3>1
    <3>3. QED
      BY <1>1, <3>2
  <2>2. Last(Tail(s)) = s[n]
    <3>1. n - 1 \in 1..(n - 1) /\ (n - 1) + 1 = n
      BY <2>1
    <3>2. QED
      BY <1>1, <2>1, <3>1 DEF Last
  <2>3. NoDup(s) => s[1] # s[n]
    BY <1>1, <2>1 DEF NoDup
  <2>4. QED
    BY <1>1, <2>1, <2>2, <2>3 DEF Last
<1>3. QED
  BY <1>1, <1>2

LEMMA LastLeaves ==
  ASSUME NEW S, NEW s \in Seq(S), NoDup(s), s # <<>>
  PROVE  /\ Len(Front(s)) = Len(s) - 1 /\ Len(s) \in Nat \ {0}
         /\ Last(s) \notin ToSet(Front(s))
<1>1. /\ Front(s) \in Seq(S) /\ Last(s) \in S
      /\ s = Front(s) \o <<Last(s)>>
  BY FrontLast
<1>2. PICK f \in Seq(S), x \in S : f = Front(s) /\ x = Last(s)
  BY <1>1
<1>3. PICK t \in Seq(S) : t = <<x>> /\ ToSet(t) = {x} /\ Len(t) = 1
  <2>1. <<x>> \in Seq(S) /\ ToSet(<<x>>) = {x} /\ Len(<<x>>) = 1
    BY DEF ToSet
  <2>2. QED
    BY <2>1
<1>4. s = f \o t
  BY <1>1, <1>2, <1>3
<1>5. ToSet(f) \cap ToSet(t) = {}
  BY <1>4, ConcatSet
<1>6. Len(s) = Len(f) + 1 /\ Len(f) \in Nat
  BY <1>3, <1>4, ConcatProperties, LenProperties
<1>7. QED
  BY <1>2, <1>3, <1>5, <1>6

(* Whoever leaves a queue, the last one stays last unless it is the one.    *)
LEMMA LastOfWithout ==
  ASSUME NEW S, NEW s \in Seq(S), NoDup(s), NEW r \in ToSet(s)
  PROVE  /\ Len(Without(s, r)) = Len(s) - 1 /\ Len(s) \in Nat
         /\ Last(s) # r => Last(Without(s, r)) = Last(s)
<1>1. PICK a \in Seq(S), b \in Seq(S) : s = (a \o <<r>>) \o b
  <2>1. \E a, b \in Seq(S) : s = (a \o <<r>>) \o b
    BY SplitAround
  <2>2. QED
    BY <2>1
<1>2. r \in S
  BY ElementOfSeq, LenProperties DEF ToSet
<1>3. Without(s, r) = a \o b
  BY <1>1, <1>2, WithoutSplit
<1>4. PICK c \in Seq(S) : c = a \o <<r>> /\ Len(c) = Len(a) + 1 /\ c[Len(a) + 1] = r
  <2>1. <<r>> \in Seq(S) /\ Len(<<r>>) = 1 /\ <<r>>[1] = r
    BY <1>2
  <2>2. a \o <<r>> \in Seq(S) /\ Len(a \o <<r>>) = Len(a) + 1
    BY <2>1, ConcatProperties
  <2>3. Append(a, r) = a \o <<r>> /\ Append(a, r)[Len(a) + 1] = r
    BY <1>2, AppendIsConcat, AppendProperties
  <2>4. QED
    BY <2>2, <2>3
<1>5. /\ Len(a) \in Nat /\ Len(b) \in Nat
      /\ Len(s) = Len(c) + Len(b) /\ Len(a \o b) = Len(a) + Len(b)
  BY <1>1, <1>4, ConcatProperties, LenProperties
<1>6. CASE Len(b) = 0
  <2>1. s[Len(s)] = r
    <3>1. Len(s) = Len(c) /\ Len(c) \in 1..Len(c)
      BY <1>4, <1>5, <1>6
    <3>2. \A i \in 1..Len(c) : (c \o b)[i] = c[i]
      BY ConcatProperties
    <3>3. QED
      BY <1>1, <1>4, <3>1, <3>2
  <2>2. QED
    BY <1>3, <1>4, <1>5, <2>1 DEF Last
<1>7. CASE Len(b) # 0
  <2>0. PICK m \in Nat \ {0} : m = Len(b)
    BY <1>5, <1>7
  <2>1. PICK x, y : x = (c \o b)[Len(c) + m] /\ y = (a \o b)[Len(a) + m]
    OBVIOUS
  <2>2. /\ x = b[m] /\ y = b[m]
    <3>1. \A i \in 1..Len(b) : (c \o b)[Len(c) + i] = b[i] /\ (a \o b)[Len(a) + i] = b[i]
      BY ConcatProperties
    <3>2. m \in 1..Len(b)
      BY <2>0
    <3>3. QED
      BY <2>1, <3>1, <3>2
  <2>3. Last(s) = x /\ Last(a \o b) = y
    BY <1>1, <1>4, <1>5, <2>0, <2>1 DEF Last
  <2>4. QED
    BY <1>3, <1>4, <1>5, <2>2, <2>3
<1>8. QED
  BY <1>6, <1>7

-----------------------------------------------------------------------------
(* The queues *)

(* A sequence, of whatever it holds.                                        *)
IsSeq(s) == s \in Seq(ToSet(s))

LEMMA EmptyIsSeq == IsSeq(<<>>) /\ ToSet(<<>>) = {}
  BY DEF IsSeq, ToSet

LEMMA ConcatIsSeq ==
  ASSUME NEW s, NEW t, IsSeq(s), IsSeq(t)
  PROVE  IsSeq(s \o t) /\ ToSet(s \o t) = ToSet(s) \cup ToSet(t)
<1> DEFINE S == ToSet(s) \cup ToSet(t)
<1>1. s \in Seq(S) /\ t \in Seq(S)
  BY SeqMonotonic DEF IsSeq
<1> HIDE DEF S
<1>2. s \o t \in Seq(S) /\ ToSet(s \o t) = ToSet(s) \cup ToSet(t)
  BY <1>1, ConcatSet
<1>3. QED
  BY <1>2 DEF S, IsSeq

LEMMA AppendIsSeq ==
  ASSUME NEW s, NEW x, IsSeq(s)
  PROVE  IsSeq(Append(s, x)) /\ ToSet(Append(s, x)) = ToSet(s) \cup {x}
<1> DEFINE S == ToSet(s) \cup {x}
<1>1. s \in Seq(S) /\ x \in S
  BY SeqMonotonic DEF IsSeq
<1> HIDE DEF S
<1>2. Append(s, x) \in Seq(S) /\ ToSet(Append(s, x)) = ToSet(s) \cup {x}
  BY <1>1, AppendSet
<1>3. QED
  BY <1>2 DEF S, IsSeq

LEMMA RestIsSeq ==
  ASSUME NEW s, IsSeq(s), NEW i \in DOMAIN s
  PROVE  /\ IsSeq(SubSeq(s, i + 1, Len(s)))
         /\ ToSet(SubSeq(s, i + 1, Len(s))) \subseteq ToSet(s)
<1> DEFINE S == ToSet(s)
           t == SubSeq(s, i + 1, Len(s))
<1>1. Len(s) \in Nat /\ DOMAIN s = 1..Len(s) /\ \A j \in 1..Len(s) : s[j] \in S
  BY LenProperties, ElementOfSeq DEF IsSeq
<1> HIDE DEF S
<1>2. t \in Seq(S)
  <2>1. \A j \in (i + 1)..Len(s) : s[j] \in S
    BY <1>1
  <2>2. QED
    BY <1>1, <2>1, SubSeqProperties
<1> HIDE DEF t
<1>3. DOMAIN t = 1..Len(t) /\ \A j \in 1..Len(t) : t[j] \in S
  BY <1>2, LenProperties, ElementOfSeq
<1>4. ToSet(t) \subseteq S /\ t \in Seq(ToSet(t))
  <2>1. ToSet(t) = Range(t)
    BY DEF ToSet, Range
  <2>2. QED
    BY <1>2, <1>3, <2>1, SeqOfRange DEF ToSet
<1>5. QED
  BY <1>4 DEF S, t, IsSeq

Live == {"WAITING", "RUNNING", "PREEMPTED"}

Statuses == {"NEW", "WAITING", "RUNNING", "PREEMPTED", "STOPPED", "LENGTH_CAPPED", "ABORTED"}

QueueShapes ==
  /\ pc \in {"idle", "running", "waiting", "allocate", "execute", "register",
             "correct", "sweep", "raised"}
  /\ status \in [Requests -> Statuses]
  /\ waiting \in Seq(Requests) /\ running \in Seq(Requests) /\ arrivals \in Seq(Requests)
  /\ pending \in Seq(Requests) /\ kept \in Seq(Requests)
  /\ IsSeq(scheduledNew) /\ IsSeq(scheduledRunning) /\ IsSeq(todo)

(* The live requests in arrival order, wherever schedule() has them.        *)
QueuesInOrder ==
  /\ NoDup(arrivals)
  /\ pc = "running" => arrivals = (kept \o pending) \o waiting
  /\ pc = "allocate" =>
       \E r \in Requests : allocating = {r} /\ arrivals = (running \o <<r>>) \o waiting
  /\ pc \notin {"running", "allocate", "raised"} => arrivals = running \o waiting

(* The queues hold live requests; the running ones may finish in the       *)
(* forward pass and are swept out before step() returns.                    *)
QueuesAreLive ==
  /\ \A r \in ToSet(waiting) : status[r] \in {"WAITING", "PREEMPTED"}
  /\ \A r \in ToSet(arrivals) :
       IF pc \in {"idle", "running", "waiting", "allocate", "execute"}
       THEN status[r] \in Live ELSE status[r] # "NEW"

(* A scheduled request is not preempted later in the same step.             *)
EntriesRun ==
  /\ pc = "idle" => scheduledNew = <<>> /\ scheduledRunning = <<>>
  /\ pc = "running" =>
       scheduledNew = <<>> /\ \A e \in ToSet(scheduledRunning) : e.req \in ToSet(kept)
  /\ pc \in {"waiting", "allocate", "execute", "register"} =>
       /\ \A e \in ToSet(scheduledNew) : e.req \in ToSet(running)
       /\ \A e \in ToSet(scheduledRunning) : e.req \in ToSet(running)
  /\ pc \in {"register", "correct"} => \A e \in ToSet(todo) : e.req \in ToSet(running)

OrderInv == QueueShapes /\ QueuesInOrder /\ QueuesAreLive /\ EntriesRun

LEMMA InitOrder == Init => OrderInv
<1>1. IsSeq(<<>>) /\ ToSet(<<>>) = {} /\ <<>> \in Seq(Requests) /\ <<>> \o <<>> = <<>>
      /\ NoDup(<<>>)
  BY EmptyIsSeq, EmptySeq, ConcatEmptySeq DEF NoDup
<1>2. QED
  BY <1>1 DEF Init, SchedulerInit, OrderInv, QueueShapes, QueuesInOrder, QueuesAreLive,
              EntriesRun, Statuses

-----------------------------------------------------------------------------
(* Each action keeps the queues in order *)

orderVars == <<pc, status, waiting, running, arrivals, pending, kept,
               scheduledNew, scheduledRunning, todo, allocating>>

LEMMA StutterOrder ==
  ASSUME OrderInv, UNCHANGED orderVars
  PROVE  OrderInv'
<1> USE DEF orderVars, OrderInv
<1>1. QueueShapes'
  BY DEF QueueShapes, IsSeq, ToSet
<1>2. QueuesInOrder'
  BY DEF QueuesInOrder, NoDup
<1>3. QueuesAreLive'
  BY DEF QueuesAreLive, ToSet
<1>4. EntriesRun'
  BY DEF EntriesRun, ToSet
<1>5. QED
  BY <1>1, <1>2, <1>3, <1>4

(* An exception leaves the engine where it is.                              *)
LEMMA RaiseOrder ==
  ASSUME OrderInv, pc' = "raised", pc \notin {"register", "correct"},
         UNCHANGED <<status, waiting, running, arrivals, pending, kept,
                     scheduledNew, scheduledRunning, todo>>
  PROVE  OrderInv'
<1> USE DEF OrderInv
<1>1. QueueShapes'
  BY DEF QueueShapes, IsSeq, ToSet
<1>2. QueuesInOrder'
  BY DEF QueuesInOrder, NoDup
<1>3. QueuesAreLive'
  BY DEF QueuesAreLive, ToSet, Live
<1>4. EntriesRun'
  BY DEF EntriesRun, ToSet
<1>5. QED
  BY <1>1, <1>2, <1>3, <1>4

LEMMA AddRequestOrder ==
  ASSUME OrderInv, NEW r \in Requests, AddRequest(r), Frame
  PROVE  OrderInv'
<1>1. /\ pc = "idle" /\ status[r] \in {"NEW"} \cup FINISHED
      /\ status' = [status EXCEPT ![r] = "WAITING"]
      /\ waiting' = Append(waiting, r) /\ arrivals' = Append(arrivals, r)
      /\ UNCHANGED <<pc, running, pending, kept, scheduledNew, scheduledRunning, todo>>
  BY DEF AddRequest, Frame, stepVars
<1>2. /\ status \in [Requests -> Statuses]
      /\ waiting \in Seq(Requests) /\ running \in Seq(Requests) /\ arrivals \in Seq(Requests)
      /\ NoDup(arrivals) /\ arrivals = running \o waiting
  BY <1>1 DEF OrderInv, QueueShapes, QueuesInOrder
<1>3. r \notin ToSet(arrivals)
  BY <1>1 DEF OrderInv, QueuesAreLive, Live, FINISHED
<1>4. /\ waiting' \in Seq(Requests) /\ ToSet(waiting') = ToSet(waiting) \cup {r}
      /\ arrivals' \in Seq(Requests) /\ ToSet(arrivals') = ToSet(arrivals) \cup {r}
      /\ NoDup(arrivals')
  <2>1. waiting' \in Seq(Requests) /\ ToSet(waiting') = ToSet(waiting) \cup {r}
    BY <1>1, <1>2, AppendSet
  <2>2. arrivals \in Seq(Requests) /\ NoDup(arrivals)
    BY <1>2
  <2>3. /\ Append(arrivals, r) \in Seq(Requests)
        /\ ToSet(Append(arrivals, r)) = ToSet(arrivals) \cup {r}
        /\ NoDup(Append(arrivals, r))
    BY <1>3, <2>2, AppendSet
  <2>4. QED
    BY <1>1, <2>1, <2>3
<1>5. arrivals' = running' \o waiting'
  BY <1>1, <1>2, ConcatAppend
<1>6. QueueShapes'
  BY <1>1, <1>2, <1>4 DEF OrderInv, QueueShapes, IsSeq, ToSet, Statuses
<1>7. QueuesInOrder'
  BY <1>1, <1>4, <1>5 DEF QueuesInOrder
<1>8. QueuesAreLive'
  BY <1>1, <1>2, <1>4 DEF OrderInv, QueuesAreLive, Live
<1>9. EntriesRun'
  BY <1>1 DEF OrderInv, EntriesRun, ToSet
<1>10. QED
  BY <1>6, <1>7, <1>8, <1>9 DEF OrderInv

LEMMA AbortRequestOrder ==
  ASSUME OrderInv, NEW r \in Requests, AbortRequest(r), Frame
  PROVE  OrderInv'
<1>1. /\ pc = "idle"
      /\ status' = [status EXCEPT ![r] = "ABORTED"]
      /\ arrivals' = Without(arrivals, r)
      /\ UNCHANGED <<pc, pending, kept, scheduledNew, scheduledRunning, todo>>
      /\ \/ r \in ToSet(waiting) /\ waiting' = Without(waiting, r) /\ running' = running
         \/ r \in ToSet(running) /\ running' = Without(running, r) /\ waiting' = waiting
  BY DEF AbortRequest, Frame, stepVars, Contains, ToSet
<1>2. /\ status \in [Requests -> Statuses]
      /\ waiting \in Seq(Requests) /\ running \in Seq(Requests) /\ arrivals \in Seq(Requests)
      /\ NoDup(arrivals) /\ arrivals = running \o waiting
  BY <1>1 DEF OrderInv, QueueShapes, QueuesInOrder
<1>3. /\ ToSet(arrivals) = ToSet(running) \cup ToSet(waiting)
      /\ NoDup(running) /\ NoDup(waiting) /\ ToSet(running) \cap ToSet(waiting) = {}
  BY <1>2, ConcatSet
<1>4. /\ arrivals' \in Seq(Requests) /\ ToSet(arrivals') = ToSet(arrivals) \ {r}
      /\ NoDup(arrivals')
  BY <1>1, <1>2, <1>3, WithoutSet
<1>5. /\ running' \in Seq(Requests) /\ waiting' \in Seq(Requests)
      /\ ToSet(waiting') = ToSet(waiting) \ {r}
  BY <1>1, <1>2, <1>3, WithoutSet
<1>6. arrivals' = running' \o waiting'
  <2>1. NoDup(running \o waiting)
    BY <1>2
  <2>2. /\ r \in ToSet(running) => Without(running \o waiting, r) = Without(running, r) \o waiting
        /\ r \in ToSet(waiting) => Without(running \o waiting, r) = running \o Without(waiting, r)
    BY <1>2, <2>1, WithoutConcat
  <2>3. QED
    BY <1>1, <1>2, <2>2
<1>7. QueueShapes'
  BY <1>1, <1>2, <1>4, <1>5 DEF OrderInv, QueueShapes, IsSeq, ToSet, Statuses
<1>8. QueuesInOrder'
  BY <1>1, <1>4, <1>6 DEF QueuesInOrder
<1>9. QueuesAreLive'
  BY <1>1, <1>2, <1>4, <1>5 DEF OrderInv, QueuesAreLive, Live
<1>10. EntriesRun'
  BY <1>1 DEF OrderInv, EntriesRun, ToSet
<1>11. QED
  BY <1>7, <1>8, <1>9, <1>10 DEF OrderInv

LEMMA ScheduleBeginOrder ==
  ASSUME OrderInv, ScheduleBegin, Frame
  PROVE  OrderInv'
<1>1. /\ pc = "idle" /\ pc' = "running" /\ pending' = running /\ kept' = <<>>
      /\ UNCHANGED <<status, waiting, running, arrivals, scheduledNew, scheduledRunning, todo>>
  BY DEF ScheduleBegin, Frame, requestVars, queueVars
<1>2. /\ running \in Seq(Requests) /\ arrivals = running \o waiting
      /\ scheduledNew = <<>> /\ scheduledRunning = <<>>
  BY <1>1 DEF OrderInv, QueueShapes, QueuesInOrder, EntriesRun
<1>3. kept' \o pending' = running /\ kept' \in Seq(Requests)
  BY <1>1, <1>2, ConcatEmptySeq, EmptySeq
<1>4. QueueShapes'
  BY <1>1, <1>2, <1>3 DEF OrderInv, QueueShapes, IsSeq, ToSet
<1>5. QueuesInOrder'
  BY <1>1, <1>2, <1>3 DEF OrderInv, QueuesInOrder, NoDup
<1>6. QueuesAreLive'
  BY <1>1 DEF OrderInv, QueuesAreLive, ToSet
<1>7. EntriesRun'
  BY <1>1, <1>2, EmptyIsSeq DEF EntriesRun
<1>8. QED
  BY <1>4, <1>5, <1>6, <1>7 DEF OrderInv

(* _schedule_running() takes the head of pending over to kept, scheduled    *)
(* or not.                                                                  *)
LEMMA KeepHeadOrder ==
  ASSUME OrderInv, pc = "running", pending # <<>>,
         kept' = Append(kept, Head(pending)), pending' = Tail(pending),
         UNCHANGED <<pc, status, waiting, running, arrivals, scheduledNew, todo>>,
         IsSeq(scheduledRunning'),
         \A e \in ToSet(scheduledRunning') :
           e \in ToSet(scheduledRunning) \/ e.req = Head(pending)
  PROVE  OrderInv'
<1>1. /\ kept \in Seq(Requests) /\ pending \in Seq(Requests)
      /\ arrivals = (kept \o pending) \o waiting
      /\ Head(pending) \in Requests /\ pending' \in Seq(Requests)
  BY HeadTail DEF OrderInv, QueueShapes, QueuesInOrder
<1>2. /\ kept' \in Seq(Requests) /\ kept' \o pending' = kept \o pending
      /\ ToSet(kept') = ToSet(kept) \cup {Head(pending)}
  BY <1>1, MoveHead, AppendSet
<1>3. QueueShapes'
  BY <1>1, <1>2 DEF OrderInv, QueueShapes, IsSeq, ToSet
<1>4. QueuesInOrder'
  BY <1>1, <1>2 DEF OrderInv, QueuesInOrder, NoDup
<1>5. QueuesAreLive'
  BY DEF OrderInv, QueuesAreLive, ToSet
<1>6. EntriesRun'
  BY <1>2 DEF OrderInv, EntriesRun
<1>7. QED
  BY <1>3, <1>4, <1>5, <1>6 DEF OrderInv

LEMMA SkipRunningOrder ==
  ASSUME OrderInv, SkipRunning, Frame
  PROVE  OrderInv'
<1>1. /\ pc = "running" /\ pending # <<>>
      /\ kept' = Append(kept, Head(pending)) /\ pending' = Tail(pending)
      /\ UNCHANGED <<pc, status, waiting, running, arrivals, scheduledNew, scheduledRunning, todo>>
  BY DEF SkipRunning, Frame, requestVars, queueVars
<1>2. IsSeq(scheduledRunning') /\ ToSet(scheduledRunning') = ToSet(scheduledRunning)
  BY <1>1 DEF OrderInv, QueueShapes
<1>3. QED
  BY <1>1, <1>2, KeepHeadOrder

LEMMA ScheduleRunningOrder ==
  ASSUME OrderInv, ScheduleRunning, Frame
  PROVE  OrderInv'
<1>1. PICK r \in Requests :
        /\ Deciding(r)
        /\ scheduledRunning' = Append(scheduledRunning, Scheduled(r, Chunk(r)))
        /\ kept' = Append(kept, r) /\ pending' = Tail(pending)
        /\ UNCHANGED <<pc, status, waiting, running, arrivals, scheduledNew>>
  BY DEF ScheduleRunning, queueVars
<1>2. todo' = todo
  BY DEF Frame
<1>3. pc = "running" /\ pending # <<>> /\ r = Head(pending)
  BY <1>1 DEF Deciding
<1>4. /\ IsSeq(scheduledRunning')
      /\ ToSet(scheduledRunning') = ToSet(scheduledRunning) \cup {Scheduled(r, Chunk(r))}
  BY <1>1, AppendIsSeq DEF OrderInv, QueueShapes
<1>5. Scheduled(r, Chunk(r)).req = r
  BY DEF Scheduled
<1>6. QED
  BY <1>1, <1>2, <1>3, <1>4, <1>5, KeepHeadOrder

LEMMA PreemptForRunningOrder ==
  ASSUME OrderInv, PreemptForRunning, Frame
  PROVE  OrderInv'
<1> DEFINE v == Last(pending)
<1>1. /\ pc = "running" /\ pending # <<>>
      /\ status' = [status EXCEPT ![v] = "PREEMPTED"]
      /\ waiting' = <<v>> \o waiting /\ pending' = Front(pending)
      /\ UNCHANGED <<pc, running, arrivals, kept, scheduledNew, scheduledRunning>>
  BY DEF PreemptForRunning, Deciding, Victim, Requeue
<1>2. todo' = todo
  BY DEF Frame
<1>3. /\ kept \in Seq(Requests) /\ pending \in Seq(Requests) /\ waiting \in Seq(Requests)
      /\ status \in [Requests -> Statuses]
      /\ arrivals = (kept \o pending) \o waiting
  BY <1>1 DEF OrderInv, QueueShapes, QueuesInOrder
<1>4. Front(pending) \in Seq(Requests) /\ v \in Requests /\ pending = Front(pending) \o <<v>>
  BY <1>1, <1>3, FrontLast
<1> HIDE DEF v
<1>5. /\ <<v>> \o waiting \in Seq(Requests) /\ ToSet(<<v>> \o waiting) = {v} \cup ToSet(waiting)
      /\ (kept \o Front(pending)) \o (<<v>> \o waiting)
           = (kept \o (Front(pending) \o <<v>>)) \o waiting
  <2>1. PICK f \in Seq(Requests) : f = Front(pending)
    BY <1>4
  <2>2. /\ <<v>> \o waiting \in Seq(Requests) /\ ToSet(<<v>> \o waiting) = {v} \cup ToSet(waiting)
        /\ (kept \o f) \o (<<v>> \o waiting) = (kept \o (f \o <<v>>)) \o waiting
    <3>1. PICK k \in Seq(Requests), u \in Seq(Requests), w \in Requests :
            k = kept /\ u = waiting /\ w = v
      BY <1>3, <1>4
    <3>2. (k \o f) \o (<<w>> \o u) = (k \o (f \o <<w>>)) \o u
      BY MoveLast, SMTT(30)
    <3>3. <<w>> \o u \in Seq(Requests) /\ ToSet(<<w>> \o u) = {w} \cup ToSet(u)
      <4>1. <<w>> \in Seq(Requests) /\ ToSet(<<w>>) = {w}
        BY DEF ToSet
      <4>2. PICK l \in Seq(Requests) : l = <<w>>
        BY <4>1
      <4>3. l \o u \in Seq(Requests) /\ ToSet(l \o u) = ToSet(l) \cup ToSet(u)
        BY ConcatSet
      <4>4. QED
        BY <4>1, <4>2, <4>3, Zenon
    <3>4. QED
      BY <3>1, <3>2, <3>3
  <2>3. QED
    BY <2>1, <2>2
<1>6. arrivals = (kept' \o pending') \o waiting'
  BY <1>1, <1>3, <1>4, <1>5
<1>7. QueueShapes'
  BY <1>1, <1>2, <1>3, <1>4, <1>5 DEF OrderInv, QueueShapes, IsSeq, ToSet, Statuses
<1>8. QueuesInOrder'
  <2>1. NoDup(arrivals')
    BY <1>1 DEF OrderInv, QueuesInOrder, NoDup
  <2>2. QED
    BY <1>1, <1>6, <2>1 DEF QueuesInOrder
<1>9. QueuesAreLive'
  <2>1. \A r \in Requests : status'[r] = IF r = v THEN "PREEMPTED" ELSE status[r]
    BY <1>1, <1>3
  <2>2. ToSet(arrivals) \subseteq Requests /\ ToSet(waiting) \subseteq Requests
    BY ElementOfSeq, LenProperties DEF ToSet, OrderInv, QueueShapes
  <2>3. \A r \in ToSet(waiting') : status'[r] \in {"WAITING", "PREEMPTED"}
    BY <1>1, <1>4, <1>5, <2>1, <2>2 DEF OrderInv, QueuesAreLive
  <2>4. \A r \in ToSet(arrivals') : status'[r] \in Live
    BY <1>1, <2>1, <2>2 DEF OrderInv, QueuesAreLive, Live
  <2>5. QED
    BY <1>1, <2>3, <2>4 DEF QueuesAreLive
<1>10. EntriesRun'
  BY <1>1 DEF OrderInv, EntriesRun, ToSet
<1>11. QED
  BY <1>7, <1>8, <1>9, <1>10 DEF OrderInv

LEMMA RunningDoneOrder ==
  ASSUME OrderInv, RunningDone, Frame
  PROVE  OrderInv'
<1>1. /\ pc = "running" /\ pending = <<>> /\ running' = kept /\ kept' = <<>>
      /\ pc' \in {"waiting", "execute"}
      /\ UNCHANGED <<status, waiting, arrivals, pending, scheduledNew, scheduledRunning, todo>>
  BY DEF RunningDone, Frame, requestVars
<1>2. kept \in Seq(Requests) /\ arrivals = (kept \o pending) \o waiting
  BY <1>1 DEF OrderInv, QueueShapes, QueuesInOrder
<1>3. kept \o pending = kept /\ kept' \in Seq(Requests)
  BY <1>1, <1>2, ConcatEmptySeq, EmptySeq
<1>4. QueueShapes'
  BY <1>1, <1>2, <1>3 DEF OrderInv, QueueShapes, IsSeq, ToSet
<1>5. QueuesInOrder'
  BY <1>1, <1>2, <1>3 DEF OrderInv, QueuesInOrder, NoDup
<1>6. QueuesAreLive'
  BY <1>1 DEF OrderInv, QueuesAreLive, ToSet
<1>7. EntriesRun'
  BY <1>1, EmptyIsSeq DEF OrderInv, EntriesRun
<1>8. QED
  BY <1>4, <1>5, <1>6, <1>7 DEF OrderInv

LEMMA AdmitWaitingOrder ==
  ASSUME OrderInv, AdmitWaiting, Frame
  PROVE  OrderInv'
<1>1. /\ pc = "waiting" /\ pc' = "allocate" /\ waiting # <<>>
      /\ waiting' = Tail(waiting) /\ allocating' = {Head(waiting)}
      /\ UNCHANGED <<status, running, arrivals, pending, kept, scheduledNew,
                     scheduledRunning, todo>>
  BY DEF AdmitWaiting, HeadAdmissible, AllocateBegin, Frame, requestVars
<1>2. /\ waiting \in Seq(Requests) /\ running \in Seq(Requests)
      /\ arrivals = running \o waiting
  BY <1>1 DEF OrderInv, QueueShapes, QueuesInOrder
<1>3. /\ Tail(waiting) \in Seq(Requests) /\ Head(waiting) \in Requests
      /\ ToSet(waiting) = {Head(waiting)} \cup ToSet(Tail(waiting))
  BY <1>1, <1>2, HeadTail
<1>4. (running \o <<Head(waiting)>>) \o Tail(waiting) = running \o waiting
  <2>1. PICK u \in Seq(Requests), w \in Seq(Requests) : u = running /\ w = waiting /\ w # <<>>
    BY <1>1, <1>2
  <2>2. Append(u, Head(w)) = u \o <<Head(w)>> /\ Append(u, Head(w)) \o Tail(w) = u \o w
    BY <2>1, MoveHead
  <2>3. QED
    BY <2>1, <2>2, Zenon
<1>5. QueueShapes'
  BY <1>1, <1>3 DEF OrderInv, QueueShapes, IsSeq, ToSet
<1>6. QueuesInOrder'
  <2>1. NoDup(arrivals')
    BY <1>1 DEF OrderInv, QueuesInOrder, NoDup
  <2>2. arrivals' = (running' \o <<Head(waiting)>>) \o waiting'
    BY <1>1, <1>2, <1>4
  <2>3. QED
    BY <1>1, <1>3, <2>1, <2>2 DEF QueuesInOrder
<1>7. QueuesAreLive'
  <2>1. ToSet(waiting') \subseteq ToSet(waiting) /\ ToSet(arrivals') = ToSet(arrivals)
    BY <1>1, <1>3
  <2>2. QED
    BY <1>1, <2>1 DEF OrderInv, QueuesAreLive
<1>8. EntriesRun'
  BY <1>1 DEF OrderInv, EntriesRun, ToSet
<1>9. QED
  BY <1>5, <1>6, <1>7, <1>8 DEF OrderInv

LEMMA AdmitDoneOrder ==
  ASSUME OrderInv, AdmitDone, Frame
  PROVE  OrderInv'
<1>1. PICK r \in allocating :
        /\ pc = "allocate" /\ pc' = "waiting"
        /\ status' = [status EXCEPT ![r] = "RUNNING"]
        /\ \E chunk : scheduledNew' = Append(scheduledNew, Scheduled(r, chunk))
        /\ running' = Append(running, r)
        /\ UNCHANGED <<waiting, arrivals, pending, kept, scheduledRunning>>
  BY DEF AdmitDone
<1>2. PICK e : e.req = r /\ scheduledNew' = Append(scheduledNew, e)
  BY <1>1 DEF Scheduled
<1>3. todo' = todo
  BY DEF Frame
<1>4. /\ waiting \in Seq(Requests) /\ running \in Seq(Requests) /\ arrivals \in Seq(Requests)
      /\ status \in [Requests -> Statuses] /\ NoDup(arrivals)
      /\ r \in Requests /\ arrivals = (running \o <<r>>) \o waiting
  BY <1>1 DEF OrderInv, QueueShapes, QueuesInOrder
<1>5. /\ Append(running, r) \in Seq(Requests) /\ Append(running, r) = running \o <<r>>
      /\ ToSet(Append(running, r)) = ToSet(running) \cup {r}
  BY <1>4, AppendSet, AppendIsConcat
<1>6. /\ IsSeq(scheduledNew') /\ ToSet(scheduledNew') = ToSet(scheduledNew) \cup {e}
  BY <1>2, AppendIsSeq DEF OrderInv, QueueShapes
<1>7. QueueShapes'
  BY <1>1, <1>3, <1>4, <1>5, <1>6 DEF OrderInv, QueueShapes, IsSeq, ToSet, Statuses
<1>8. QueuesInOrder'
  <2>1. NoDup(arrivals')
    BY <1>1, <1>4 DEF NoDup
  <2>2. arrivals' = running' \o waiting'
    BY <1>1, <1>4, <1>5
  <2>3. QED
    BY <1>1, <2>1, <2>2 DEF QueuesInOrder
<1>9. QueuesAreLive'
  <2>1. r \notin ToSet(waiting)
    <3>1. PICK q \in Seq(Requests) : q = Append(running, r)
      BY <1>5
    <3>2. NoDup(q \o waiting)
      BY <1>4, <1>5, <3>1
    <3>3. ToSet(q) \cap ToSet(waiting) = {}
      BY <1>4, <3>2, ConcatSet
    <3>4. QED
      BY <1>5, <3>1, <3>3
  <2>2. \A q \in Requests : status'[q] = IF q = r THEN "RUNNING" ELSE status[q]
    BY <1>1, <1>4
  <2>3. ToSet(arrivals) \subseteq Requests /\ ToSet(waiting) \subseteq Requests
    BY <1>4, ElementOfSeq, LenProperties DEF ToSet
  <2>4. QED
    BY <1>1, <2>1, <2>2, <2>3 DEF OrderInv, QueuesAreLive, Live
<1>10. EntriesRun'
  <2>1. ToSet(running') = ToSet(running) \cup {r} /\ ToSet(scheduledRunning') = ToSet(scheduledRunning)
    BY <1>1, <1>5
  <2>2. QED
    BY <1>1, <1>2, <1>6, <2>1 DEF OrderInv, EntriesRun
<1>11. QED
  BY <1>7, <1>8, <1>9, <1>10 DEF OrderInv

LEMMA WaitingDoneOrder ==
  ASSUME OrderInv, WaitingDone, Frame
  PROVE  OrderInv'
<1>1. /\ pc = "waiting" /\ pc' = "execute"
      /\ UNCHANGED <<status, waiting, running, arrivals, pending, kept, scheduledNew,
                     scheduledRunning, todo>>
  BY DEF WaitingDone, Frame, requestVars, queueVars
<1>2. QueueShapes'
  BY <1>1 DEF OrderInv, QueueShapes, IsSeq, ToSet
<1>3. QueuesInOrder'
  BY <1>1 DEF OrderInv, QueuesInOrder, NoDup
<1>4. QueuesAreLive'
  BY <1>1 DEF OrderInv, QueuesAreLive, ToSet
<1>5. EntriesRun'
  BY <1>1 DEF OrderInv, EntriesRun, ToSet
<1>6. QED
  BY <1>2, <1>3, <1>4, <1>5 DEF OrderInv

LEMMA FreeFinishedOrder ==
  ASSUME OrderInv, FreeFinished, Frame
  PROVE  OrderInv'
<1>1. PICK r \in Requests :
        /\ r \in ToSet(running)
        /\ running' = Without(running, r) /\ arrivals' = Without(arrivals, r)
  BY DEF FreeFinished, Contains, ToSet
<1>2. /\ pc = "sweep"
      /\ UNCHANGED <<pc, status, waiting, pending, kept, scheduledNew, scheduledRunning, todo>>
  BY DEF FreeFinished, Frame, requestVars, stepVars
<1>3. /\ waiting \in Seq(Requests) /\ running \in Seq(Requests) /\ arrivals \in Seq(Requests)
      /\ NoDup(arrivals) /\ arrivals = running \o waiting
  BY <1>2 DEF OrderInv, QueueShapes, QueuesInOrder
<1>4. /\ ToSet(arrivals) = ToSet(running) \cup ToSet(waiting)
      /\ NoDup(running) /\ NoDup(waiting)
  BY <1>3, ConcatSet
<1>5. /\ arrivals' \in Seq(Requests) /\ ToSet(arrivals') = ToSet(arrivals) \ {r}
      /\ NoDup(arrivals')
  BY <1>1, <1>3, <1>4, WithoutSet
<1>6. running' \in Seq(Requests)
  BY <1>1, <1>3, <1>4, WithoutSet
<1>7. arrivals' = running' \o waiting'
  <2>1. NoDup(running \o waiting)
    BY <1>3
  <2>2. Without(running \o waiting, r) = Without(running, r) \o waiting
    <3>1. PICK u \in Seq(Requests), w \in Seq(Requests) : u = running /\ w = waiting
      BY <1>3
    <3>2. NoDup(u \o w) /\ r \in ToSet(u)
      BY <1>1, <2>1, <3>1, Zenon
    <3>3. Without(u \o w, r) = Without(u, r) \o w
      BY <3>2, WithoutConcat
    <3>4. QED
      BY <3>1, <3>3, Zenon
  <2>3. QED
    BY <1>1, <1>2, <1>3, <2>2
<1>8. QueueShapes'
  BY <1>2, <1>5, <1>6 DEF OrderInv, QueueShapes, IsSeq, ToSet
<1>9. QueuesInOrder'
  BY <1>2, <1>5, <1>7 DEF QueuesInOrder
<1>10. QueuesAreLive'
  <2>1. ToSet(waiting') = ToSet(waiting)
    BY <1>2
  <2>2. QED
    BY <1>2, <1>5, <2>1 DEF OrderInv, QueuesAreLive
<1>11. EntriesRun'
  BY <1>2 DEF OrderInv, EntriesRun, ToSet
<1>12. QED
  BY <1>8, <1>9, <1>10, <1>11 DEF OrderInv

(* Only running requests finish in the forward pass.                        *)
LEMMA FinishOrder ==
  ASSUME OrderInv, pc \in {"execute", "correct"}, pc' \in {"register", "correct"},
         NEW done, done \subseteq ToSet(running),
         status' \in [Requests -> Statuses],
         \A r \in Requests :
           status'[r] \in IF r \in done THEN {status[r], "STOPPED", "LENGTH_CAPPED"} ELSE {status[r]},
         UNCHANGED <<waiting, running, arrivals, pending, kept, scheduledNew, scheduledRunning>>,
         IsSeq(todo'), \A e \in ToSet(todo') : e.req \in ToSet(running),
         pc' = "register" => pc = "execute"
  PROVE  OrderInv'
<1>1. /\ waiting \in Seq(Requests) /\ running \in Seq(Requests) /\ arrivals \in Seq(Requests)
      /\ NoDup(arrivals) /\ arrivals = running \o waiting
  BY DEF OrderInv, QueueShapes, QueuesInOrder
<1>2. ToSet(running) \cap ToSet(waiting) = {}
  BY <1>1, ConcatSet
<1>3. ToSet(arrivals) \subseteq Requests /\ ToSet(waiting) \subseteq Requests
  BY <1>1, ElementOfSeq, LenProperties DEF ToSet
<1>4. QueueShapes'
  BY DEF OrderInv, QueueShapes, IsSeq, ToSet
<1>5. QueuesInOrder'
  <2>1. NoDup(arrivals')
    BY <1>1 DEF NoDup
  <2>2. QED
    BY <1>1, <2>1 DEF QueuesInOrder
<1>6. QueuesAreLive'
  <2>1. \A r \in ToSet(waiting) : status'[r] = status[r]
    BY <1>2, <1>3
  <2>2. \A r \in ToSet(arrivals) : status[r] # "NEW"
    BY DEF OrderInv, QueuesAreLive, Live
  <2>3. \A r \in ToSet(arrivals) : status'[r] # "NEW"
    BY <1>3, <2>2
  <2>4. ToSet(waiting') = ToSet(waiting) /\ ToSet(arrivals') = ToSet(arrivals)
    OBVIOUS
  <2>5. QED
    BY <2>1, <2>3, <2>4 DEF OrderInv, QueuesAreLive
<1>7. EntriesRun'
  BY DEF OrderInv, EntriesRun, ToSet
<1>8. QED
  BY <1>4, <1>5, <1>6, <1>7 DEF OrderInv

LEMMA ExecuteModelOrder ==
  ASSUME OrderInv, ExecuteModel
  PROVE  OrderInv'
<1>1. /\ pc = "execute" /\ pc' = "register"
      /\ status' = [r \in Requests |-> IF r \in Sampling THEN MaybeFinish(r, out'[r])
                                                         ELSE status[r]]
      /\ todo' = IF EnablePrefixCaching THEN Batch ELSE <<>>
      /\ UNCHANGED <<waiting, running, arrivals, pending, kept, scheduledNew, scheduledRunning>>
  BY DEF ExecuteModel, queueVars
<1>2. /\ IsSeq(Batch)
      /\ ToSet(Batch) = ToSet(scheduledNew) \cup ToSet(scheduledRunning)
  BY ConcatIsSeq DEF OrderInv, QueueShapes, Batch
<1>3. \A e \in ToSet(Batch) : e.req \in ToSet(running)
  BY <1>1, <1>2 DEF OrderInv, EntriesRun
<1>4. Sampling \subseteq ToSet(running)
  BY <1>3 DEF Sampling
<1>5. \A r \in Requests :
        status'[r] \in IF r \in Sampling THEN {status[r], "STOPPED", "LENGTH_CAPPED"}
                                        ELSE {status[r]}
  BY <1>1 DEF MaybeFinish
<1>6. status' \in [Requests -> Statuses]
  <2>1. \A r \in Requests : status[r] \in Statuses
    BY DEF OrderInv, QueueShapes
  <2>2. \A r \in Requests : status'[r] \in Statuses
    BY <1>5, <2>1 DEF Statuses
  <2>3. QED
    BY <1>1, <2>2
<1>7. IsSeq(todo') /\ \A e \in ToSet(todo') : e.req \in ToSet(running)
  BY <1>1, <1>2, <1>3, EmptyIsSeq
<1>8. QED
  BY <1>1, <1>4, <1>5, <1>6, <1>7, FinishOrder

LEMMA CorrectSpeculationOrder ==
  ASSUME OrderInv, CorrectSpeculation
  PROVE  OrderInv'
<1>1. /\ pc = "correct" /\ pc' = "correct"
      /\ UNCHANGED <<waiting, running, arrivals, pending, kept, scheduledNew, scheduledRunning>>
  BY DEF CorrectSpeculation, queueVars, stepVars
<1>2. PICK i \in DOMAIN todo :
        /\ \/ status' = status
           \/ \E new \in {"STOPPED", "LENGTH_CAPPED"} :
                status' = [status EXCEPT ![todo[i].req] = new]
        /\ todo' = SubSeq(todo, i + 1, Len(todo))
  BY DEF CorrectSpeculation
<1>3. todo[i] \in ToSet(todo) /\ \A e \in ToSet(todo) : e.req \in ToSet(running)
  BY <1>1 DEF OrderInv, EntriesRun, ToSet
<1> DEFINE r == todo[i].req
<1>4. r \in ToSet(running)
  BY <1>3
<1> HIDE DEF r
<1>5. status' = status \/ \E new \in {"STOPPED", "LENGTH_CAPPED"} :
                            status' = [status EXCEPT ![r] = new]
  BY <1>2 DEF r
<1>6. status \in [Requests -> Statuses]
  BY DEF OrderInv, QueueShapes
<1>7. /\ status' \in [Requests -> Statuses]
      /\ \A q \in Requests :
           status'[q] \in IF q \in {r} THEN {status[q], "STOPPED", "LENGTH_CAPPED"}
                                       ELSE {status[q]}
  BY <1>5, <1>6 DEF Statuses
<1>8. IsSeq(todo') /\ \A e \in ToSet(todo') : e.req \in ToSet(running)
  BY <1>2, <1>3, RestIsSeq DEF OrderInv, QueueShapes
<1>9. QED
  BY <1>1, <1>4, <1>7, <1>8, FinishOrder

LEMMA RegisterPrefixOrder ==
  ASSUME OrderInv, RegisterPrefix
  PROVE  OrderInv'
<1>1. /\ pc = "register" /\ todo # <<>> /\ todo' = Tail(todo)
      /\ UNCHANGED <<pc, status, waiting, running, arrivals, pending, kept,
                     scheduledNew, scheduledRunning>>
  BY DEF RegisterPrefix, requestVars, queueVars, stepVars
<1>2. PICK S : S = ToSet(todo) /\ todo \in Seq(S)
  BY DEF OrderInv, QueueShapes, IsSeq
<1>3. Tail(todo) \in Seq(S) /\ ToSet(Tail(todo)) \subseteq S
  BY <1>1, <1>2, HeadTail
<1>4. IsSeq(todo')
  <2>1. ToSet(Tail(todo)) = Range(Tail(todo))
    BY DEF ToSet, Range
  <2>2. QED
    BY <1>1, <1>3, <2>1, SeqOfRange DEF IsSeq
<1>5. QueueShapes'
  BY <1>1, <1>4 DEF OrderInv, QueueShapes, IsSeq, ToSet
<1>6. QueuesInOrder'
  BY <1>1 DEF OrderInv, QueuesInOrder, NoDup
<1>7. QueuesAreLive'
  BY <1>1 DEF OrderInv, QueuesAreLive, ToSet
<1>8. EntriesRun'
  <2>1. \A e \in ToSet(todo') : e \in ToSet(todo)
    BY <1>1, <1>2, <1>3
  <2>2. /\ ToSet(running') = ToSet(running) /\ ToSet(scheduledNew') = ToSet(scheduledNew)
        /\ ToSet(scheduledRunning') = ToSet(scheduledRunning)
    BY <1>1
  <2>3. QED
    BY <1>1, <2>1, <2>2 DEF OrderInv, EntriesRun
<1>9. QED
  BY <1>5, <1>6, <1>7, <1>8 DEF OrderInv

LEMMA LoopDoneOrder ==
  ASSUME OrderInv, RegisterDone \/ CorrectDone
  PROVE  OrderInv'
<1>1. /\ UNCHANGED <<status, waiting, running, arrivals, pending, kept,
                     scheduledNew, scheduledRunning>>
      /\ \/ pc = "register" /\ pc' = "correct" /\ todo' = scheduledRunning
         \/ pc = "correct" /\ pc' = "sweep" /\ todo' = <<>>
  BY DEF RegisterDone, CorrectDone, requestVars, queueVars
<1>2. QueueShapes'
  BY <1>1, EmptyIsSeq DEF OrderInv, QueueShapes, IsSeq, ToSet
<1>3. QueuesInOrder'
  BY <1>1 DEF OrderInv, QueuesInOrder, NoDup
<1>4. QueuesAreLive'
  BY <1>1 DEF OrderInv, QueuesAreLive, ToSet
<1>5. EntriesRun'
  BY <1>1 DEF OrderInv, EntriesRun, ToSet
<1>6. QED
  BY <1>2, <1>3, <1>4, <1>5 DEF OrderInv

LEMMA StepDoneOrder ==
  ASSUME OrderInv, StepDone
  PROVE  OrderInv'
<1>1. /\ pc = "sweep" /\ \A r \in ToSet(running) : ~IsFinished(r)
      /\ pc' = "idle" /\ scheduledNew' = <<>> /\ scheduledRunning' = <<>>
      /\ UNCHANGED <<status, waiting, running, arrivals, pending, kept, todo>>
  BY DEF StepDone, Swept, requestVars, queueVars
<1>2. /\ waiting \in Seq(Requests) /\ running \in Seq(Requests) /\ arrivals \in Seq(Requests)
      /\ status \in [Requests -> Statuses] /\ arrivals = running \o waiting
  BY <1>1 DEF OrderInv, QueueShapes, QueuesInOrder
<1>3. QueueShapes'
  BY <1>1, EmptyIsSeq DEF OrderInv, QueueShapes, IsSeq, ToSet
<1>4. QueuesInOrder'
  BY <1>1 DEF OrderInv, QueuesInOrder, NoDup
<1>5. QueuesAreLive'
  <2>1. ToSet(arrivals) = ToSet(running) \cup ToSet(waiting)
    BY <1>2, ConcatSet
  <2>2. ToSet(arrivals) \subseteq Requests
    BY <1>2, ElementOfSeq, LenProperties DEF ToSet
  <2>3. \A r \in ToSet(arrivals) : status[r] \in Live
    BY <1>1, <1>2, <2>1, <2>2 DEF OrderInv, QueuesAreLive, Live, IsFinished, FINISHED, Statuses
  <2>4. ToSet(waiting') = ToSet(waiting) /\ ToSet(arrivals') = ToSet(arrivals)
    BY <1>1
  <2>5. QED
    BY <1>1, <2>3, <2>4 DEF OrderInv, QueuesAreLive
<1>6. EntriesRun'
  BY <1>1 DEF EntriesRun
<1>7. QED
  BY <1>3, <1>4, <1>5, <1>6 DEF OrderInv

LEMMA NextOrder == OrderInv /\ [Next]_vars => OrderInv'
<1> SUFFICES ASSUME OrderInv, [Next]_vars PROVE OrderInv'
  OBVIOUS
<1>1. CASE ScheduleStep
  <2>1. CASE AllocateEvicts /\ Frame
    <3>1. UNCHANGED orderVars
      BY <2>1 DEF AllocateEvicts, DrainEviction, Frame, requestVars, queueVars, stepVars, orderVars
    <3>2. QED
      BY <3>1, StutterOrder
  <2>2. CASE AllocateRaises /\ Frame
    BY <2>2, RaiseOrder DEF AllocateRaises, Frame, requestVars, queueVars
  <2>3. QED
    BY <1>1, <2>1, <2>2, ScheduleBeginOrder, SkipRunningOrder, PreemptForRunningOrder,
       ScheduleRunningOrder, RunningDoneOrder, AdmitWaitingOrder, AdmitDoneOrder,
       WaitingDoneOrder, FreeFinishedOrder DEF ScheduleStep
<1>2. CASE ForwardStep
  <2>1. CASE ExecuteRaises
    BY <2>1, RaiseOrder DEF ExecuteRaises, requestVars, queueVars
  <2>2. QED
    BY <1>2, <2>1, ExecuteModelOrder, RegisterPrefixOrder, LoopDoneOrder DEF ForwardStep
<1>3. CASE DraftStep
  <2>1. CASE ProposeDrafts
    <3>1. UNCHANGED orderVars
      BY <2>1 DEF ProposeDrafts, bmVars, queueVars, stepVars, orderVars
    <3>2. QED
      BY <3>1, StutterOrder
  <2>2. CASE ProposeRaises
    BY <2>2, RaiseOrder DEF ProposeRaises, Swept, requestVars, queueVars
  <2>3. QED
    BY <1>3, <2>1, <2>2, CorrectSpeculationOrder, StepDoneOrder DEF DraftStep
<1>4. ASSUME NEW r \in Requests, Submit(r) \/ Cancel(r) PROVE OrderInv'
  BY <1>4, AddRequestOrder, AbortRequestOrder DEF Submit, Cancel
<1>5. CASE UNCHANGED vars
  <2>1. UNCHANGED orderVars
    BY <1>5 DEF vars, schedVars, bmVars, requestVars, queueVars, stepVars, orderVars
  <2>2. QED
    BY <2>1, StutterOrder
<1>6. QED
  BY <1>1, <1>2, <1>3, <1>4, <1>5 DEF Next, EngineStep

(* schedule()'s FIFO promise: through admission, preemption to the front    *)
(* of the queue, abort and teardown, with speculation or without, the       *)
(* running requests and then the waiting ones stay in the order in which    *)
(* add_request() took them.                                                 *)
THEOREM RequestsKeepOrder == Spec => []ArrivalOrder
<1>1. OrderInv => ArrivalOrder
  BY DEF OrderInv, QueuesInOrder, ArrivalOrder
<1>2. QED
  BY <1>1, InitOrder, NextOrder, PTL DEF Spec
-----------------------------------------------------------------------------
(* Without speculation: what the requests hold *)

NoSpeculation == NumSpecTokens = 0

EngineTypes ==
  /\ out \in [Requests -> Seq(Token)]
  /\ computed \in [Requests -> Nat]
  /\ draft = [r \in Requests |-> 0]
  /\ budget \in Nat /\ hitBudget \in Nat
  /\ scheduledNew \in Seq(BatchEntry) /\ scheduledRunning \in Seq(BatchEntry)
  /\ todo \in Seq(BatchEntry)
  /\ preempted \subseteq Requests /\ resumed \subseteq Requests
  /\ shadows = <<>> /\ proposed = {}

(* The requests that have a table: the running ones.                        *)
Active == IF pc = "running" THEN ToSet(kept) \cup ToSet(pending) ELSE ToSet(running)

(* From schedule() to the forward pass; an exception stays there.           *)
Scheduling == pc \in {"running", "waiting", "allocate", "execute", "raised"}

(* The requests the coming forward pass computes tokens of.                 *)
Entered == IF Scheduling THEN { e.req : e \in ToSet(Batch) } ELSE {}

(* Before the forward pass the table of a scheduled request covers all its  *)
(* tokens; whoever is not scheduled has a token to compute, and lacks the   *)
(* slot of one token at most.                                               *)
TableCovers(r) ==
  /\ 1 <= computed[r] /\ ncached[r] * BlockSize <= computed[r]
  /\ computed[r] <= Capacity(r)
  /\ IF r \in Entered THEN computed[r] <= GetLen(r) /\ GetLen(r) <= Capacity(r)
                       ELSE computed[r] < GetLen(r) /\ GetLen(r) <= Capacity(r) + 1

HoldsFor(r) ==
  /\ r \in Active <=> tables[r] # <<>>
  /\ r \notin allocating /\ tables[r] = <<>> => ncached[r] = 0
  /\ r \in ToSet(waiting) => tables[r] = <<>> /\ ncached[r] = 0
  /\ r \in ToSet(waiting) \cup allocating => computed[r] = 0
  /\ Len(out[r]) <= MaxTokens[r]
  /\ r \in ToSet(arrivals) /\ status[r] \in Live => Len(out[r]) < MaxTokens[r]
  /\ r \in Active => TableCovers(r) /\ status[r] \in {"RUNNING"} \cup FINISHED

AllocationInv ==
  /\ oom => pc = "raised"
  /\ pc \notin {"allocate", "raised"} => allocating = {}
  /\ pc = "allocate" =>
       \A r \in allocating :
         /\ need = NumBlocksNeeded(GetLen(r)) - ncached[r]
         /\ ncached[r] * BlockSize <= hitBudget /\ budget > 0
         /\ ~EnablePrefixCaching => ncached[r] = 0

(* No request is scheduled twice.                                           *)
Distinct(entries) ==
  /\ NoDup(entries)
  /\ \A e, f \in ToSet(entries) : e.req = f.req => e = f

BatchInv ==
  Scheduling =>
    /\ Distinct(Batch)
    /\ \A e \in ToSet(Batch) : e.n <= computed[e.req]
    /\ IsFiniteSet(Rows) /\ Cardinality(Rows) + budget = MaxNumBatchedTokens

RequestInv ==
  EngineTypes /\ (\A r \in Requests : HoldsFor(r)) /\ AllocationInv /\ BatchInv
  /\ (pc = "raised" => oom)

EngineInv == OrderInv /\ Accounting /\ RequestInv

-----------------------------------------------------------------------------
(* What the invariant says of the members of the queues *)

LEMMA ToSetType ==
  ASSUME NEW S, NEW s \in Seq(S)
  PROVE  ToSet(s) \subseteq S
BY ElementOfSeq, LenProperties DEF ToSet

LEMMA BatchSet ==
  ASSUME OrderInv
  PROVE  /\ ToSet(Batch) = ToSet(scheduledNew) \cup ToSet(scheduledRunning)
         /\ IsSeq(Batch)
BY ConcatIsSeq DEF OrderInv, QueueShapes, Batch

LEMMA Members ==
  ASSUME OrderInv
  PROVE  /\ Active \subseteq Requests /\ ToSet(waiting) \subseteq Requests
         /\ pc # "raised" =>
              /\ Active \cap ToSet(waiting) = {}
              /\ Active \subseteq ToSet(arrivals) /\ ToSet(waiting) \subseteq ToSet(arrivals)
         /\ pc \notin {"allocate", "raised"} => ToSet(arrivals) = Active \cup ToSet(waiting)
         /\ pc \notin {"running", "allocate", "raised"} => NoDup(running) /\ NoDup(waiting)
         /\ pc = "running" =>
              /\ NoDup(kept) /\ NoDup(pending) /\ ToSet(kept) \cap ToSet(pending) = {}
              /\ Entered \subseteq ToSet(kept)
         /\ pc = "allocate" =>
              \E r \in Requests : /\ allocating = {r} /\ r \in ToSet(arrivals)
                                 /\ r \notin Active /\ r \notin ToSet(waiting)
         /\ pc # "raised" => Entered \subseteq Active
<1>1. /\ waiting \in Seq(Requests) /\ running \in Seq(Requests) /\ arrivals \in Seq(Requests)
      /\ pending \in Seq(Requests) /\ kept \in Seq(Requests)
      /\ NoDup(arrivals)
  BY DEF OrderInv, QueueShapes, QueuesInOrder
<1>2. Active \subseteq Requests /\ ToSet(waiting) \subseteq Requests
  BY <1>1, ToSetType DEF Active
<1>3. CASE pc = "running"
  <2>1. PICK a \in Seq(Requests) : a = kept \o pending
    BY <1>1, ConcatProperties
  <2>2. NoDup(a \o waiting) /\ ToSet(arrivals) = ToSet(a \o waiting)
    BY <1>1, <1>3, <2>1 DEF OrderInv, QueuesInOrder
  <2>3. /\ NoDup(a) /\ ToSet(a) \cap ToSet(waiting) = {}
        /\ ToSet(arrivals) = ToSet(a) \cup ToSet(waiting)
    BY <1>1, <2>2, ConcatSet
  <2>4. NoDup(kept \o pending)
    BY <2>1, <2>3
  <2>5. /\ ToSet(a) = ToSet(kept) \cup ToSet(pending)
        /\ NoDup(kept) /\ NoDup(pending) /\ ToSet(kept) \cap ToSet(pending) = {}
    BY <1>1, <2>1, <2>4, ConcatSet
  <2>6. Active = ToSet(a)
    BY <1>3, <2>5 DEF Active
  <2>7. Entered \subseteq ToSet(kept)
    BY <1>3, BatchSet, EmptyIsSeq DEF Entered, OrderInv, EntriesRun
  <2>8. QED
    BY <1>2, <1>3, <2>3, <2>5, <2>6, <2>7
<1>4. CASE pc = "allocate"
  <2>1. PICK r \in Requests : allocating = {r} /\ arrivals = (running \o <<r>>) \o waiting
    BY <1>4 DEF OrderInv, QueuesInOrder
  <2>2. <<r>> \in Seq(Requests) /\ ToSet(<<r>>) = {r}
    BY DEF ToSet
  <2>3. PICK a \in Seq(Requests) : a = running \o <<r>>
    BY <1>1, <2>2, ConcatProperties
  <2>4. NoDup(a \o waiting) /\ ToSet(arrivals) = ToSet(a \o waiting)
    BY <1>1, <2>1, <2>3
  <2>5. /\ NoDup(a) /\ ToSet(a) \cap ToSet(waiting) = {}
        /\ ToSet(arrivals) = ToSet(a) \cup ToSet(waiting)
    BY <1>1, <2>4, ConcatSet
  <2>6. NoDup(running \o <<r>>)
    BY <2>3, <2>5
  <2>7. ToSet(a) = ToSet(running) \cup {r} /\ ToSet(running) \cap {r} = {}
    BY <1>1, <2>2, <2>3, <2>6, ConcatSet
  <2>8. Active = ToSet(running)
    BY <1>4 DEF Active
  <2>9. Entered \subseteq Active
    BY <1>4, <2>8, BatchSet DEF Entered, OrderInv, EntriesRun
  <2>10. QED
    BY <1>2, <1>4, <2>1, <2>5, <2>7, <2>8, <2>9
<1>5. CASE pc \notin {"running", "allocate", "raised"}
  <2>1. NoDup(running \o waiting) /\ ToSet(arrivals) = ToSet(running \o waiting)
    BY <1>1, <1>5 DEF OrderInv, QueuesInOrder
  <2>2. /\ ToSet(running) \cap ToSet(waiting) = {} /\ NoDup(running) /\ NoDup(waiting)
        /\ ToSet(arrivals) = ToSet(running) \cup ToSet(waiting)
    BY <1>1, <2>1, ConcatSet
  <2>3. Active = ToSet(running)
    BY <1>5 DEF Active
  <2>4. Entered \subseteq Active
    BY <1>5, <2>3, BatchSet DEF Entered, Scheduling, OrderInv, QueueShapes, EntriesRun
  <2>5. QED
    BY <1>2, <1>5, <2>2, <2>3, <2>4
<1>6. QED
  BY <1>2, <1>3, <1>4, <1>5

(* An action leaves request q alone.                                        *)
Untouched(q) ==
  /\ computed'[q] = computed[q] /\ out'[q] = out[q] /\ status'[q] = status[q]
  /\ tables'[q] = tables[q] /\ ncached'[q] = ncached[q]
  /\ q \in Active' <=> q \in Active
  /\ q \in Entered' <=> q \in Entered
  /\ q \in allocating' <=> q \in allocating
  /\ q \in ToSet(waiting') <=> q \in ToSet(waiting)
  /\ q \in ToSet(arrivals') <=> q \in ToSet(arrivals)

LEMMA UntouchedHolds ==
  ASSUME NEW q \in Requests, HoldsFor(q), Untouched(q)
  PROVE  HoldsFor(q)'
<1>1. Capacity(q)' = Capacity(q) /\ GetLen(q)' = GetLen(q)
  BY DEF Untouched, Capacity, GetLen
<1>2. TableCovers(q)' <=> TableCovers(q)
  BY <1>1 DEF Untouched, TableCovers
<1>3. QED
  BY <1>2 DEF Untouched, HoldsFor

LEMMA LenFacts ==
  ASSUME EngineTypes, Accounting, NEW r \in Requests
  PROVE  /\ BlockSize \in Nat \ {0}
         /\ Len(Prompt[r]) \in Nat \ {0} /\ Len(out[r]) \in Nat
         /\ GetLen(r) = Len(Prompt[r]) + Len(out[r]) /\ GetLen(r) \in Nat \ {0}
         /\ tables[r] \in Seq(Blocks) /\ Len(tables[r]) \in Nat
         /\ Capacity(r) = Len(tables[r]) * BlockSize /\ Capacity(r) \in Nat
         /\ computed[r] \in Nat /\ ncached[r] \in Nat /\ ncached[r] * BlockSize \in Nat
         /\ MaxTokens[r] \in Nat \ {0}
         /\ draft[r] = 0 /\ budget \in Nat
         /\ Len(out[r]) <= MaxTokens[r] => GetLen(r) <= MaxLen
<1>1. BlockSize \in Nat \ {0} /\ Prompt[r] \in Seq(Nat) /\ Prompt[r] # <<>>
  BY PromptAssumption
<1>2. Len(Prompt[r]) \in Nat \ {0}
  BY <1>1, EmptySeq
<1>3. Len(out[r]) \in Nat
  BY LenProperties DEF EngineTypes
<1>4. tables[r] \in Seq(Blocks) /\ Len(tables[r]) \in Nat /\ ncached[r] \in Nat
  BY LenProperties DEF Accounting, BMTypeOK
<1>5. Len(tables[r]) * BlockSize \in Nat /\ ncached[r] * BlockSize \in Nat
  BY <1>1, <1>4, MulType
<1>6. /\ MaxTokens[r] \in Nat \ {0} /\ NumSpecTokens \in Nat /\ MaxLen \in Nat
      /\ Len(Prompt[r]) + MaxTokens[r] + NumSpecTokens <= MaxLen
  BY SchedulerAssumption, ConfigAssumption
<1>7. computed[r] \in Nat /\ draft[r] = 0 /\ budget \in Nat
  BY DEF EngineTypes
<1>8. GetLen(r) = Len(Prompt[r]) + Len(out[r]) /\ Capacity(r) = Len(tables[r]) * BlockSize
  BY DEF GetLen, Capacity
<1>9. /\ GetLen(r) \in Nat \ {0}
      /\ Len(out[r]) <= MaxTokens[r] => GetLen(r) <= MaxLen
  <2>1. \A p, o \in Nat, m, n, k \in Nat : p + m + n <= k /\ o <= m => p + o <= k
    OBVIOUS
  <2>2. Len(out[r]) <= MaxTokens[r] => Len(Prompt[r]) + Len(out[r]) <= MaxLen
    BY <1>2, <1>3, <1>6, <2>1
  <2>3. Len(Prompt[r]) + Len(out[r]) \in Nat \ {0}
    <3>1. \A p \in Nat \ {0}, o \in Nat : p + o \in Nat \ {0}
      OBVIOUS
    <3>2. QED
      BY <1>2, <1>3, <3>1, Zenon
  <2>4. QED
    BY <1>8, <2>2, <2>3
<1>10. QED
  BY <1>1, <1>2, <1>3, <1>4, <1>5, <1>6, <1>7, <1>8, <1>9

LEMMA SameEntered ==
  ASSUME UNCHANGED <<scheduledNew, scheduledRunning>>, Scheduling' <=> Scheduling
  PROVE  Entered' = Entered /\ Batch' = Batch
<1>1. Batch' = Batch
  BY DEF Batch
<1>2. QED
  BY <1>1 DEF Entered

LEMMA SameBatch ==
  ASSUME BatchInv, Scheduling, UNCHANGED <<scheduledNew, scheduledRunning, budget>>,
         \A e \in ToSet(Batch) : computed'[e.req] = computed[e.req]
  PROVE  BatchInv'
<1>1. Batch' = Batch
  BY DEF Batch
<1>2. \A e \in ToSet(Batch) : Start(e)' = Start(e)
  BY DEF Start
<1>3. Rows' = Rows
  BY <1>1, <1>2 DEF Rows
<1>4. QED
  BY <1>1, <1>3 DEF BatchInv, Distinct

LEMMA NotSchedulingBatch ==
  ASSUME ~Scheduling' PROVE BatchInv' /\ Entered' = {}
  BY DEF BatchInv, Entered

-----------------------------------------------------------------------------
(* Each action keeps the protocol and what the requests hold *)

(* An action of the engine, seen from the block manager.                    *)
BMStep == [BMNext]_bmVars

LEMMA AddRequestHolds ==
  ASSUME EngineInv, NEW r \in Requests, AddRequest(r), Frame
  PROVE  BMStep /\ RequestInv'
<1>1. /\ pc = "idle" /\ status[r] \in {"NEW"} \cup FINISHED
      /\ status' = [status EXCEPT ![r] = "WAITING"]
      /\ out' = [out EXCEPT ![r] = <<>>] /\ computed' = [computed EXCEPT ![r] = 0]
      /\ draft' = [draft EXCEPT ![r] = 0]
      /\ waiting' = Append(waiting, r) /\ arrivals' = Append(arrivals, r)
      /\ UNCHANGED <<bmVars, running, stepVars, todo, shadows, proposed>>
      /\ resumed' \subseteq Requests
  BY DEF AddRequest, Frame, draftVars
<1>2. /\ status \in [Requests -> Statuses]
      /\ waiting \in Seq(Requests) /\ arrivals \in Seq(Requests)
      /\ r \notin ToSet(arrivals)
  BY <1>1 DEF EngineInv, OrderInv, QueueShapes, QueuesAreLive, Live, FINISHED
<1>3. ToSet(waiting') = ToSet(waiting) \cup {r} /\ ToSet(arrivals') = ToSet(arrivals) \cup {r}
  BY <1>1, <1>2, AppendSet
<1>4. /\ Active' = Active /\ ~Scheduling /\ ~Scheduling' /\ allocating' = allocating
  BY <1>1 DEF Active, Scheduling, stepVars, bmVars
<1>5. Entered = {} /\ Entered' = {} /\ BatchInv'
  BY <1>4, NotSchedulingBatch DEF Entered
<1>6. BMStep
  BY <1>1 DEF BMStep
<1>7. EngineTypes'
  BY <1>1 DEF EngineInv, RequestInv, EngineTypes, stepVars
<1>8. ASSUME NEW q \in Requests, q # r PROVE HoldsFor(q)'
  <2>1. /\ computed'[q] = computed[q] /\ out'[q] = out[q] /\ status'[q] = status[q]
        /\ tables'[q] = tables[q] /\ ncached'[q] = ncached[q]
    BY <1>1, <1>2, <1>8 DEF bmVars, EngineInv, RequestInv, EngineTypes
  <2>2. Untouched(q)
    BY <1>3, <1>4, <1>5, <1>8, <2>1 DEF Untouched
  <2>3. QED
    BY <2>2, UntouchedHolds DEF EngineInv, RequestInv
<1>9. HoldsFor(r)'
  <2>1. r \notin Active /\ allocating = {}
    BY <1>1, <1>2, Members DEF EngineInv, RequestInv, AllocationInv
  <2>2. tables[r] = <<>> /\ ncached[r] = 0
    BY <2>1 DEF EngineInv, RequestInv, HoldsFor
  <2>3. computed'[r] = 0 /\ out'[r] = <<>> /\ tables'[r] = <<>> /\ ncached'[r] = 0
    BY <1>1, <2>2 DEF bmVars, EngineInv, RequestInv, EngineTypes
  <2>4. MaxTokens[r] \in Nat \ {0} /\ Len(out'[r]) = 0
    BY <2>3, SchedulerAssumption, EmptySeq
  <2>5. QED
    BY <1>4, <2>1, <2>3, <2>4 DEF HoldsFor
<1>10. AllocationInv' /\ (pc' = "raised" => oom')
  BY <1>1 DEF EngineInv, RequestInv, AllocationInv, bmVars, stepVars
<1>11. QED
  BY <1>5, <1>6, <1>7, <1>8, <1>9, <1>10 DEF RequestInv

(* free() of a request that has a table.                                    *)
LEMMA FreeEffect ==
  ASSUME Accounting, NEW r \in Requests, Free(r), tables[r] # <<>>
  PROVE  /\ BMStep
         /\ tables'[r] = <<>> /\ ncached'[r] = 0
         /\ \A q \in Requests \ {r} : tables'[q] = tables[q] /\ ncached'[q] = ncached[q]
         /\ allocating = {} /\ ~oom /\ UNCHANGED <<allocating, need, oom>>
<1>1. /\ tables' = [tables EXCEPT ![r] = <<>>] /\ ncached' = [ncached EXCEPT ![r] = 0]
      /\ allocating = {} /\ ~oom /\ UNCHANGED <<allocating, need, oom>>
  BY DEF Free, Idle
<1>2. BMStep
  BY DEF BMStep, BMNext
<1>3. DOMAIN tables = Requests /\ DOMAIN ncached = Requests
  BY DEF Accounting, BMTypeOK
<1>4. QED
  BY <1>1, <1>2, <1>3

(* A request that gives everything back holds nothing.                      *)
LEMMA EndedHolds ==
  ASSUME NEW r \in Requests, HoldsFor(r), tables'[r] = <<>>, ncached'[r] = 0,
         out'[r] = out[r],
         r \notin Active', r \notin ToSet(waiting'), r \notin allocating',
         r \notin ToSet(arrivals')
  PROVE  HoldsFor(r)'
  BY DEF HoldsFor

LEMMA AbortRequestHolds ==
  ASSUME EngineInv, NEW r \in Requests, AbortRequest(r), Frame
  PROVE  BMStep /\ RequestInv'
<1>1. /\ pc = "idle"
      /\ status' = [status EXCEPT ![r] = "ABORTED"]
      /\ arrivals' = Without(arrivals, r)
      /\ UNCHANGED <<out, computed, draft, stepVars, todo, shadows, proposed>>
      /\ resumed' \subseteq Requests
  BY DEF AbortRequest, Frame, draftVars
<1>2. /\ \/ /\ r \in ToSet(waiting)
            /\ waiting' = Without(waiting, r) /\ UNCHANGED <<bmVars, running>>
         \/ /\ r \in ToSet(running)
            /\ running' = Without(running, r) /\ Free(r) /\ UNCHANGED waiting
  BY DEF AbortRequest, Contains, ToSet
<1>3. /\ status \in [Requests -> Statuses]
      /\ waiting \in Seq(Requests) /\ running \in Seq(Requests) /\ arrivals \in Seq(Requests)
      /\ NoDup(waiting) /\ NoDup(running) /\ NoDup(arrivals)
      /\ Active = ToSet(running) /\ Active' = ToSet(running')
      /\ ToSet(running) \cap ToSet(waiting) = {}
      /\ r \in ToSet(arrivals)
  BY <1>1, <1>2, Members
     DEF EngineInv, OrderInv, QueueShapes, QueuesInOrder, Active, stepVars
<1>4. ToSet(arrivals') = ToSet(arrivals) \ {r}
  BY <1>1, <1>3, WithoutSet
<1>5. allocating = {} /\ ~Scheduling /\ ~Scheduling'
  BY <1>1 DEF EngineInv, RequestInv, AllocationInv, Scheduling, stepVars
<1>6. Entered = {} /\ Entered' = {} /\ BatchInv'
  BY <1>5, NotSchedulingBatch DEF Entered
<1>7. EngineTypes'
  BY <1>1 DEF EngineInv, RequestInv, EngineTypes, stepVars
<1>8. DOMAIN status = Requests
  BY <1>3
<1>9. CASE r \in ToSet(waiting) /\ waiting' = Without(waiting, r) /\ UNCHANGED <<bmVars, running>>
  <2>1. ToSet(waiting') = ToSet(waiting) \ {r} /\ Active' = Active /\ r \notin Active
    BY <1>3, <1>9, WithoutSet
  <2>2. BMStep /\ allocating' = {} /\ oom' = oom
    BY <1>5, <1>9 DEF BMStep, bmVars
  <2>3. ASSUME NEW q \in Requests, q # r PROVE HoldsFor(q)'
    <3>1. Untouched(q)
      BY <1>1, <1>4, <1>5, <1>6, <1>8, <1>9, <2>1, <2>2, <2>3 DEF Untouched, bmVars
    <3>2. QED
      BY <3>1, UntouchedHolds DEF EngineInv, RequestInv
  <2>4. HoldsFor(r)'
    <3>1. HoldsFor(r) /\ tables[r] = <<>> /\ ncached[r] = 0
      BY <1>9 DEF EngineInv, RequestInv, HoldsFor
    <3>2. QED
      BY <1>1, <1>4, <1>9, <2>1, <2>2, <3>1, EndedHolds DEF bmVars
  <2>5. AllocationInv' /\ (pc' = "raised" => oom')
    BY <1>1, <2>2 DEF EngineInv, RequestInv, AllocationInv, stepVars
  <2>6. QED
    BY <1>6, <1>7, <2>2, <2>3, <2>4, <2>5 DEF RequestInv
<1>10. CASE r \in ToSet(running) /\ running' = Without(running, r) /\ Free(r) /\ UNCHANGED waiting
  <2>1. Active' = Active \ {r} /\ r \notin ToSet(waiting)
    BY <1>3, <1>10, WithoutSet
  <2>2. HoldsFor(r) /\ tables[r] # <<>>
    BY <1>3, <1>10 DEF EngineInv, RequestInv, HoldsFor
  <2>3. /\ BMStep /\ tables'[r] = <<>> /\ ncached'[r] = 0
        /\ \A q \in Requests \ {r} : tables'[q] = tables[q] /\ ncached'[q] = ncached[q]
        /\ allocating' = {} /\ oom' = oom
    BY <1>10, <2>2, FreeEffect DEF EngineInv
  <2>4. ASSUME NEW q \in Requests, q # r PROVE HoldsFor(q)'
    <3>1. Untouched(q)
      BY <1>1, <1>4, <1>5, <1>6, <1>8, <1>10, <2>1, <2>3, <2>4 DEF Untouched
    <3>2. QED
      BY <3>1, UntouchedHolds DEF EngineInv, RequestInv
  <2>5. HoldsFor(r)'
    BY <1>1, <1>4, <1>10, <2>1, <2>2, <2>3, EndedHolds
  <2>6. AllocationInv' /\ (pc' = "raised" => oom')
    BY <1>1, <2>3 DEF EngineInv, RequestInv, AllocationInv, stepVars
  <2>7. QED
    BY <1>6, <1>7, <2>3, <2>4, <2>5, <2>6 DEF RequestInv
<1>11. QED
  BY <1>2, <1>9, <1>10

LEMMA ScheduleBeginHolds ==
  ASSUME EngineInv, ScheduleBegin, Frame
  PROVE  BMStep /\ RequestInv'
<1>1. /\ pc = "idle" /\ pc' = "running"
      /\ pending' = running /\ kept' = <<>>
      /\ budget' = MaxNumBatchedTokens /\ hitBudget' = MaxCacheHitTokens
      /\ UNCHANGED <<bmVars, requestVars, queueVars, scheduledNew, scheduledRunning,
                     preempted, todo, shadows, proposed>>
      /\ resumed' \subseteq Requests
  BY DEF ScheduleBegin, Frame, draftVars
<1>2. BMStep
  BY <1>1 DEF BMStep
<1>3. MaxNumBatchedTokens \in Nat /\ MaxCacheHitTokens \in Nat
  BY SchedulerAssumption DEF SchedulerConfig
<1>4. EngineTypes'
  BY <1>1, <1>3 DEF EngineInv, RequestInv, EngineTypes, requestVars
<1>5. Active' = Active
  BY <1>1, EmptyIsSeq DEF Active
<1>6. scheduledNew = <<>> /\ scheduledRunning = <<>> /\ ToSet(Batch) = {}
  BY <1>1, BatchSet, EmptyIsSeq DEF EngineInv, OrderInv, EntriesRun
<1>7. Batch' = Batch /\ Entered = {} /\ Entered' = {}
  BY <1>1, <1>6 DEF Batch, Entered, Scheduling
<1>8. BatchInv'
  <2>1. Rows' = {} /\ IsFiniteSet({}) /\ Cardinality({}) = 0
    BY <1>6, <1>7, FS_EmptySet DEF Rows
  <2>2. Batch' = <<>>
    BY <1>6, <1>7 DEF Batch
  <2>3. QED
    BY <1>1, <1>3, <1>6, <1>7, <2>1, <2>2 DEF BatchInv, Distinct, NoDup
<1>9. ASSUME NEW q \in Requests PROVE HoldsFor(q)'
  <2>1. Untouched(q)
    BY <1>1, <1>5, <1>7 DEF Untouched, bmVars, requestVars, queueVars
  <2>2. QED
    BY <2>1, UntouchedHolds DEF EngineInv, RequestInv
<1>10. AllocationInv' /\ (pc' = "raised" => oom')
  BY <1>1 DEF EngineInv, RequestInv, AllocationInv, bmVars
<1>11. QED
  BY <1>2, <1>4, <1>8, <1>9, <1>10 DEF RequestInv

(* The loops of schedule() that neither schedule nor preempt a request.     *)
LEMMA QuietStepHolds ==
  ASSUME EngineInv, Scheduling, Scheduling', BMStep,
         Active' = Active, ToSet(waiting') = ToSet(waiting),
         UNCHANGED <<tables, ncached, allocating, requestVars, arrivals, budget, hitBudget,
                     scheduledNew, scheduledRunning, preempted, todo, shadows, proposed>>,
         resumed' \subseteq Requests,
         AllocationInv', pc' = "raised" => oom'
  PROVE  BMStep /\ RequestInv'
<1>1. EngineTypes'
  BY DEF EngineInv, RequestInv, EngineTypes, requestVars
<1>2. Entered' = Entered
  BY SameEntered
<1>3. BatchInv'
  BY SameBatch DEF EngineInv, RequestInv, requestVars
<1>4. ASSUME NEW q \in Requests PROVE HoldsFor(q)'
  <2>1. Untouched(q)
    BY <1>2 DEF Untouched, requestVars
  <2>2. QED
    BY <2>1, UntouchedHolds DEF EngineInv, RequestInv
<1>5. QED
  BY <1>1, <1>3, <1>4 DEF RequestInv

LEMMA SkipRunningHolds ==
  ASSUME EngineInv, SkipRunning, Frame
  PROVE  BMStep /\ RequestInv'
<1>1. /\ pc = "running" /\ pc' = "running" /\ pending # <<>>
      /\ kept' = Append(kept, Head(pending)) /\ pending' = Tail(pending)
      /\ UNCHANGED <<bmVars, requestVars, queueVars, budget, hitBudget,
                     scheduledNew, scheduledRunning, preempted, todo, shadows, proposed>>
      /\ resumed' \subseteq Requests
  BY DEF SkipRunning, Frame, draftVars
<1>2. kept \in Seq(Requests) /\ pending \in Seq(Requests)
  BY DEF EngineInv, OrderInv, QueueShapes
<1>3. Head(pending) \in Requests /\ ToSet(pending) = {Head(pending)} \cup ToSet(Tail(pending))
  BY <1>1, <1>2, HeadTail
<1>4. ToSet(kept') = ToSet(kept) \cup {Head(pending)}
  BY <1>1, <1>2, <1>3, AppendSet
<1>5. Active' = Active /\ Scheduling /\ Scheduling'
  BY <1>1, <1>3, <1>4 DEF Active, Scheduling
<1>6. AllocationInv' /\ (pc' = "raised" => oom')
  BY <1>1 DEF EngineInv, RequestInv, AllocationInv, bmVars
<1>7. QED
  BY <1>1, <1>5, <1>6, QuietStepHolds DEF BMStep, bmVars, queueVars

LEMMA RunningDoneHolds ==
  ASSUME EngineInv, RunningDone, Frame
  PROVE  BMStep /\ RequestInv'
<1>1. /\ pc = "running" /\ pc' \in {"waiting", "execute"} /\ pending = <<>> /\ running' = kept
      /\ UNCHANGED <<bmVars, requestVars, waiting, arrivals, budget, hitBudget,
                     scheduledNew, scheduledRunning, preempted, todo, shadows, proposed>>
      /\ resumed' \subseteq Requests
  BY DEF RunningDone, Frame, draftVars
<1>2. Active' = Active /\ Scheduling /\ Scheduling'
  BY <1>1, EmptyIsSeq DEF Active, Scheduling
<1>3. AllocationInv' /\ (pc' = "raised" => oom')
  BY <1>1 DEF EngineInv, RequestInv, AllocationInv, bmVars
<1>4. QED
  BY <1>1, <1>2, <1>3, QuietStepHolds DEF BMStep, bmVars

LEMMA WaitingDoneHolds ==
  ASSUME EngineInv, WaitingDone, Frame
  PROVE  BMStep /\ RequestInv'
<1>1. /\ pc = "waiting" /\ pc' = "execute"
      /\ UNCHANGED <<bmVars, requestVars, queueVars, budget, hitBudget,
                     scheduledNew, scheduledRunning, preempted, todo, shadows, proposed>>
      /\ resumed' \subseteq Requests
  BY DEF WaitingDone, Frame, draftVars
<1>2. Active' = Active /\ Scheduling /\ Scheduling'
  BY <1>1 DEF Active, Scheduling, queueVars
<1>3. AllocationInv' /\ (pc' = "raised" => oom')
  BY <1>1 DEF EngineInv, RequestInv, AllocationInv, bmVars
<1>4. QED
  BY <1>1, <1>2, <1>3, QuietStepHolds DEF BMStep, bmVars, queueVars

LEMMA AllocateEvictsHolds ==
  ASSUME EngineInv, AllocateEvicts, Frame
  PROVE  BMStep /\ RequestInv'
<1>1. /\ pc = "allocate" /\ DrainEviction
      /\ UNCHANGED <<tables, ncached, allocating, need, oom, requestVars, queueVars, stepVars,
                     todo, shadows, proposed>>
      /\ resumed' \subseteq Requests
  BY DEF AllocateEvicts, DrainEviction, Frame, draftVars
<1>2. Active' = Active /\ Scheduling /\ Scheduling'
  BY <1>1 DEF Active, Scheduling, queueVars, stepVars
<1>3. AllocationInv' /\ (pc' = "raised" => oom')
  <2>1. \A r : GetLen(r)' = GetLen(r)
    BY <1>1 DEF GetLen, requestVars
  <2>2. QED
    BY <1>1, <2>1 DEF EngineInv, RequestInv, AllocationInv, stepVars
<1>4. BMStep
  BY <1>1 DEF BMStep, BMNext
<1>5. QED
  BY <1>1, <1>2, <1>3, <1>4, QuietStepHolds DEF queueVars, stepVars

LEMMA AllocateRaisesHolds ==
  ASSUME EngineInv, AllocateRaises, Frame
  PROVE  BMStep /\ RequestInv'
<1>1. /\ pc = "allocate" /\ pc' = "raised" /\ AllocateFail /\ oom' = TRUE
      /\ UNCHANGED <<tables, ncached, allocating, requestVars, queueVars, budget, hitBudget,
                     scheduledNew, scheduledRunning, preempted, todo, shadows, proposed>>
      /\ resumed' \subseteq Requests
  BY DEF AllocateRaises, AllocateFail, Frame, draftVars
<1>2. Active' = Active /\ Scheduling /\ Scheduling'
  BY <1>1 DEF Active, Scheduling, queueVars
<1>3. AllocationInv' /\ (pc' = "raised" => oom')
  BY <1>1 DEF AllocationInv
<1>4. BMStep
  BY <1>1 DEF BMStep, BMNext
<1>5. QED
  BY <1>1, <1>2, <1>3, <1>4, QuietStepHolds DEF queueVars

LEMMA PreemptForRunningHolds ==
  ASSUME EngineInv, PreemptForRunning, Frame
  PROVE  BMStep /\ RequestInv'
<1>0. PICK v \in Requests : v = Last(pending) /\ pending # <<>>
  <2>1. pending \in Seq(Requests) /\ pending # <<>>
    BY DEF PreemptForRunning, Deciding, EngineInv, OrderInv, QueueShapes
  <2>2. QED
    BY <2>1, FrontLast
<1>1. /\ pc = "running" /\ pc' = "running" /\ pending # <<>>
      /\ Free(v) /\ computed' = [computed EXCEPT ![v] = 0]
      /\ status' = [status EXCEPT ![v] = "PREEMPTED"]
      /\ waiting' = <<v>> \o waiting /\ pending' = Front(pending)
      /\ preempted' = preempted \cup {v}
      /\ UNCHANGED <<out, draft, running, arrivals, kept, budget, hitBudget,
                     scheduledNew, scheduledRunning, todo, shadows, proposed>>
      /\ resumed' \subseteq Requests
  BY <1>0 DEF PreemptForRunning, Deciding, Victim, Requeue, ResetComputed, Frame, draftVars
<1>2. /\ status \in [Requests -> Statuses] /\ computed \in [Requests -> Nat]
      /\ waiting \in Seq(Requests) /\ pending \in Seq(Requests) /\ kept \in Seq(Requests)
      /\ NoDup(pending) /\ ToSet(kept) \cap ToSet(pending) = {}
      /\ Entered \subseteq ToSet(kept)
      /\ Active \cap ToSet(waiting) = {} /\ Active \subseteq ToSet(arrivals)
  BY <1>1, Members DEF EngineInv, OrderInv, QueueShapes, RequestInv, EngineTypes
<1>3. /\ v \in Requests /\ Front(pending) \in Seq(Requests)
      /\ pending = Front(pending) \o <<v>> /\ v \in ToSet(pending)
  <2>1. /\ Front(pending) \in Seq(Requests) /\ Last(pending) \in Requests
        /\ pending = Front(pending) \o <<Last(pending)>>
        /\ ToSet(pending) = ToSet(Front(pending)) \cup {Last(pending)}
    BY <1>1, <1>2, FrontLast
  <2>2. QED
    BY <1>0, <2>1, Zenon
<1>4. <<v>> \in Seq(Requests) /\ ToSet(<<v>>) = {v}
  BY <1>3 DEF ToSet
<1>5. ToSet(pending') = ToSet(pending) \ {v}
  <2>1. PICK f \in Seq(Requests), t \in Seq(Requests) : f = Front(pending) /\ t = <<v>>
    BY <1>3, <1>4
  <2>2. NoDup(f \o t) /\ ToSet(f \o t) = ToSet(pending)
    BY <1>2, <1>3, <2>1
  <2>3. ToSet(f) \cap ToSet(t) = {} /\ ToSet(pending) = ToSet(f) \cup ToSet(t)
    BY <2>2, ConcatSet
  <2>4. QED
    BY <1>1, <1>4, <2>1, <2>3
<1>6. ToSet(waiting') = {v} \cup ToSet(waiting)
  <2>1. PICK t \in Seq(Requests) : t = <<v>>
    BY <1>4
  <2>2. ToSet(t \o waiting) = ToSet(t) \cup ToSet(waiting)
    BY <1>2, ConcatSet
  <2>3. QED
    BY <1>1, <1>4, <2>1, <2>2
<1>7. /\ v \in Active /\ v \notin ToSet(waiting) /\ v \in ToSet(arrivals)
      /\ v \notin Entered /\ Active' = Active \ {v} /\ Entered' = Entered
      /\ Scheduling
  <2>1. Scheduling /\ Scheduling'
    BY <1>1 DEF Scheduling
  <2>2. Entered' = Entered
    BY <1>1, <2>1, SameEntered
  <2>3. Active = ToSet(kept) \cup ToSet(pending) /\ Active' = ToSet(kept) \cup ToSet(pending')
    BY <1>1 DEF Active
  <2>4. QED
    BY <1>2, <1>3, <1>5, <2>1, <2>2, <2>3
<1>8. HoldsFor(v) /\ tables[v] # <<>>
  BY <1>3, <1>7 DEF EngineInv, RequestInv, HoldsFor
<1>9. /\ BMStep /\ tables'[v] = <<>> /\ ncached'[v] = 0
      /\ \A q \in Requests \ {v} : tables'[q] = tables[q] /\ ncached'[q] = ncached[q]
      /\ allocating' = allocating /\ allocating = {} /\ oom' = oom
  BY <1>1, <1>3, <1>8, FreeEffect DEF EngineInv
<1>10. EngineTypes'
  BY <1>1, <1>3 DEF EngineInv, RequestInv, EngineTypes
<1>11. BatchInv'
  <2>1. \A e \in ToSet(Batch) : e.req \in Entered
    BY <1>7 DEF Entered
  <2>2. \A q \in Requests \ {v} : computed'[q] = computed[q]
    BY <1>1, <1>2
  <2>3. \A e \in ToSet(Batch) : e.req \in Requests \ {v}
    BY <1>2, <1>7, <2>1, ToSetType
  <2>4. QED
    BY <1>1, <1>7, <2>2, <2>3, SameBatch DEF EngineInv, RequestInv
<1>12. ASSUME NEW q \in Requests, q # v PROVE HoldsFor(q)'
  <2>1. computed'[q] = computed[q] /\ out'[q] = out[q] /\ status'[q] = status[q]
    BY <1>1, <1>2, <1>12
  <2>2. Untouched(q)
    BY <1>1, <1>6, <1>7, <1>9, <1>12, <2>1 DEF Untouched
  <2>3. QED
    BY <2>2, UntouchedHolds DEF EngineInv, RequestInv
<1>13. HoldsFor(v)'
  <2>1. computed'[v] = 0 /\ out'[v] = out[v]
    BY <1>1, <1>2, <1>3
  <2>2. status[v] \in Live
    BY <1>1, <1>7 DEF EngineInv, OrderInv, QueuesAreLive
  <2>3. v \notin Active'
    BY <1>7
  <2>4. Len(out'[v]) < MaxTokens[v] /\ Len(out'[v]) <= MaxTokens[v]
    BY <1>7, <1>8, <2>1, <2>2 DEF HoldsFor
  <2>5. QED
    BY <1>9, <2>1, <2>3, <2>4 DEF HoldsFor
<1>14. AllocationInv' /\ (pc' = "raised" => oom')
  BY <1>1, <1>9 DEF EngineInv, RequestInv, AllocationInv
<1>15. \A q \in Requests : HoldsFor(q)'
  BY <1>12, <1>13
<1>16. QED
  BY <1>9, <1>10, <1>11, <1>14, <1>15 DEF RequestInv

(* A request that was not scheduled enters the batch with n tokens.         *)
LEMMA EnterBatch ==
  ASSUME OrderInv, EngineTypes, BatchInv, Scheduling, Scheduling',
         NEW r \in Requests, r \notin Entered, NEW n \in Nat \ {0}, n <= budget,
         NEW e, e.req = r, e.n = n,
         NoDup(Batch'), ToSet(Batch') = ToSet(Batch) \cup {e},
         budget' = budget - n,
         \A q \in Requests \ {r} : computed'[q] = computed[q],
         computed'[r] \in Nat, n <= computed'[r]
  PROVE  BatchInv' /\ Entered' = Entered \cup {r}
<1> DEFINE c == computed'[r]
           new == {r} \X ((c - n)..(c - 1))
<1>1. \A f \in ToSet(Batch) : f.req \in Entered
  BY DEF Entered
<1>2. ToSet(Batch) \subseteq BatchEntry
  <2>1. scheduledNew \in Seq(BatchEntry) /\ scheduledRunning \in Seq(BatchEntry)
    BY DEF EngineTypes
  <2>2. ToSet(scheduledNew) \subseteq BatchEntry /\ ToSet(scheduledRunning) \subseteq BatchEntry
    BY <2>1, ToSetType
  <2>3. QED
    BY <2>2, BatchSet
<1>3. \A f \in ToSet(Batch) : f.req \in Requests \ {r} /\ f.n \in Nat
  BY <1>1, <1>2 DEF BatchEntry
<1>4. \A f \in ToSet(Batch) : computed'[f.req] = computed[f.req]
  BY <1>3
<1>5. Distinct(Batch')
  BY <1>3 DEF BatchInv, Distinct
<1>6. \A f \in ToSet(Batch') : f.n <= computed'[f.req]
  BY <1>4 DEF BatchInv
<1>7. Rows' = Rows \cup new
  <2>1. Rows' = UNION { {f.req} \X ((computed'[f.req] - f.n)..(computed'[f.req] - 1))
                        : f \in ToSet(Batch) \cup {e} }
    BY DEF Rows, Start
  <2>2. Rows = UNION { {f.req} \X ((computed'[f.req] - f.n)..(computed'[f.req] - 1))
                       : f \in ToSet(Batch) }
    BY <1>4 DEF Rows, Start
  <2>3. QED
    BY <2>1, <2>2
<1>8. Rows \cap new = {}
  <2>1. \A row \in Rows : row[1] \in Requests \ {r}
    BY <1>3 DEF Rows
  <2>2. \A row \in new : row[1] = r
    OBVIOUS
  <2>3. QED
    BY <2>1, <2>2
<1>9. IsFiniteSet(new) /\ Cardinality(new) = n
  <2>1. c \in Nat /\ c - n \in Int /\ c - 1 \in Int /\ (c - 1) - (c - n) + 1 = n /\ c - n <= c - 1
    OBVIOUS
  <2> HIDE DEF c
  <2>2. IsFiniteSet((c - n)..(c - 1)) /\ Cardinality((c - n)..(c - 1)) = (c - 1) - (c - n) + 1
    <3>1. PICK a \in Int, b \in Int : a = c - n /\ b = c - 1 /\ a <= b /\ b - a + 1 = n
      BY <2>1
    <3>2. IsFiniteSet(a..b) /\ Cardinality(a..b) = b - a + 1
      BY <3>1, FS_Interval
    <3>3. QED
      BY <3>1, <3>2
  <2>3. IsFiniteSet({r}) /\ Cardinality({r}) = 1
    BY FS_Singleton
  <2>4. IsFiniteSet(new) /\ Cardinality(new) = Cardinality({r}) * Cardinality((c - n)..(c - 1))
    BY <2>2, <2>3, FS_Product
  <2>5. 1 * n = n
    OBVIOUS
  <2>6. QED
    BY <2>1, <2>2, <2>3, <2>4, <2>5
<1> HIDE DEF c, new
<1>10. /\ IsFiniteSet(Rows') /\ Cardinality(Rows') = Cardinality(Rows) + n
       /\ Cardinality(Rows) \in Nat
  <2>1. IsFiniteSet(Rows)
    BY DEF BatchInv
  <2>2. IsFiniteSet(Rows \cup new) /\ Cardinality(Rows \cup new)
          = Cardinality(Rows) + Cardinality(new) - Cardinality(Rows \cap new)
    BY <1>9, <2>1, FS_Union
  <2>3. Cardinality(Rows \cap new) = 0 /\ Cardinality(Rows) \in Nat
    BY <1>8, <2>1, FS_EmptySet, FS_CardinalityType
  <2>4. QED
    BY <1>7, <1>9, <2>2, <2>3
<1>11. Cardinality(Rows') + budget' = MaxNumBatchedTokens
  <2>1. budget \in Nat /\ Cardinality(Rows) + budget = MaxNumBatchedTokens
    BY DEF EngineTypes, BatchInv
  <2>2. QED
    BY <1>10, <2>1
<1>12. Entered' = Entered \cup {r}
  BY DEF Entered
<1>13. QED
  BY <1>5, <1>6, <1>10, <1>11, <1>12 DEF BatchInv

(* A ScheduledRequest appended to either list of the batch.                 *)
LEMMA JoinBatch ==
  ASSUME OrderInv, EngineTypes, BatchInv, Scheduling,
         NEW r \in Requests, r \notin Entered, NEW e \in BatchEntry, e.req = r,
         \/ /\ scheduledRunning' = Append(scheduledRunning, e)
            /\ UNCHANGED scheduledNew
         \/ /\ scheduledNew' = Append(scheduledNew, e)
            /\ UNCHANGED scheduledRunning
  PROVE  /\ scheduledNew' \in Seq(BatchEntry) /\ scheduledRunning' \in Seq(BatchEntry)
         /\ NoDup(Batch') /\ ToSet(Batch') = ToSet(Batch) \cup {e}
<1>1. PICK sn \in Seq(BatchEntry), sr \in Seq(BatchEntry) :
        sn = scheduledNew /\ sr = scheduledRunning
  BY DEF EngineTypes
<1>2. /\ NoDup(sn) /\ NoDup(sr) /\ ToSet(sn) \cap ToSet(sr) = {}
      /\ ToSet(Batch) = ToSet(sn) \cup ToSet(sr)
  <2>1. NoDup(sn \o sr) /\ Batch = sn \o sr
    BY <1>1 DEF BatchInv, Distinct, Batch
  <2>2. QED
    BY <2>1, ConcatSet
<1>3. e \notin ToSet(sn) /\ e \notin ToSet(sr)
  BY <1>2 DEF Entered
<1>4. CASE scheduledRunning' = Append(scheduledRunning, e) /\ UNCHANGED scheduledNew
  <2>1. PICK t \in Seq(BatchEntry) : /\ t = Append(sr, e) /\ ToSet(t) = ToSet(sr) \cup {e}
                                     /\ NoDup(t)
    BY <1>2, <1>3, AppendSet
  <2>2. /\ ToSet(sn \o t) = ToSet(sn) \cup ToSet(t)
        /\ NoDup(sn \o t) <=> NoDup(sn) /\ NoDup(t) /\ ToSet(sn) \cap ToSet(t) = {}
    BY ConcatSet
  <2>3. scheduledNew' = sn /\ scheduledRunning' = t /\ Batch' = sn \o t
    BY <1>1, <1>4, <2>1 DEF Batch
  <2>4. QED
    BY <1>2, <1>3, <2>1, <2>2, <2>3
<1>5. CASE scheduledNew' = Append(scheduledNew, e) /\ UNCHANGED scheduledRunning
  <2>1. PICK t \in Seq(BatchEntry) : /\ t = Append(sn, e) /\ ToSet(t) = ToSet(sn) \cup {e}
                                     /\ NoDup(t)
    BY <1>2, <1>3, AppendSet
  <2>2. /\ ToSet(t \o sr) = ToSet(t) \cup ToSet(sr)
        /\ NoDup(t \o sr) <=> NoDup(t) /\ NoDup(sr) /\ ToSet(t) \cap ToSet(sr) = {}
    BY ConcatSet
  <2>3. scheduledNew' = t /\ scheduledRunning' = sr /\ Batch' = t \o sr
    BY <1>1, <1>5, <2>1 DEF Batch
  <2>4. QED
    BY <1>2, <1>3, <2>1, <2>2, <2>3
<1>6. QED
  BY <1>4, <1>5

LEMMA LeastFacts ==
  ASSUME NEW a \in Nat, NEW b \in Nat
  PROVE  /\ Least(a, b) \in Nat /\ Least(a, b) <= a /\ Least(a, b) <= b
         /\ a > 0 /\ b > 0 => Least(a, b) > 0
         /\ Least(a, b) = a \/ Least(a, b) = b
  BY DEF Least

LEMMA AppendSlotEffect ==
  ASSUME Accounting, NEW r \in Requests, NEW len \in 1..MaxLen,
         CanAppendSlot(r, len), AppendSlot(r, len), len <= Capacity(r) + 1
  PROVE  /\ BMStep
         /\ tables[r] # <<>> /\ tables'[r] # <<>>
         /\ Capacity(r)' \in Nat /\ len <= Capacity(r)'
         /\ \A q \in Requests \ {r} : tables'[q] = tables[q]
         /\ allocating = {} /\ UNCHANGED <<ncached, allocating, need, oom>>
<1>1. /\ tables[r] # <<>> /\ allocating = {} /\ UNCHANGED <<ncached, allocating, need, oom>>
      /\ IF len > Capacity(r) THEN \E b \in Blocks : tables' = [tables EXCEPT ![r] = Append(@, b)]
                              ELSE tables' = tables
  BY DEF AppendSlot, Idle, NeedsNewBlock, Grow, Accounting, BMTypeOK
<1>2. BMStep
  BY DEF BMStep, BMNext, CallAppendSlot
<1>3. /\ BlockSize \in Nat \ {0} /\ len \in Nat
      /\ tables \in [Requests -> Seq(Blocks)] /\ tables[r] \in Seq(Blocks) /\ Len(tables[r]) \in Nat
  BY PromptAssumption, ConfigAssumption, LenProperties DEF Accounting, BMTypeOK
<1>4. Capacity(r) \in Nat
  BY <1>3, MulType DEF Capacity
<1>5. \A q \in Requests \ {r} : tables'[q] = tables[q]
  BY <1>1, <1>3
<1>6. CASE len > Capacity(r)
  <2>1. PICK b \in Blocks : tables'[r] = Append(tables[r], b)
    BY <1>1, <1>3, <1>6
  <2>2. Len(tables'[r]) = Len(tables[r]) + 1 /\ tables'[r] # <<>>
    BY <1>3, <2>1, AppendProperties, EmptySeq
  <2>3. /\ Len(tables[r]) * BlockSize + BlockSize <= (Len(tables[r]) + 1) * BlockSize
        /\ (Len(tables[r]) + 1) * BlockSize \in Nat
    BY <1>3, MulMono, MulType
  <2>4. Capacity(r) + BlockSize <= Capacity(r)' /\ Capacity(r)' \in Nat
    BY <2>2, <2>3 DEF Capacity
  <2>5. len <= Capacity(r)'
    BY <1>3, <1>4, <2>4
  <2>6. QED
    BY <1>1, <1>2, <1>5, <2>2, <2>4, <2>5
<1>7. CASE ~(len > Capacity(r))
  <2>1. tables' = tables /\ Capacity(r)' = Capacity(r)
    BY <1>1, <1>7 DEF Capacity
  <2>2. QED
    BY <1>1, <1>2, <1>3, <1>4, <1>5, <1>7, <2>1
<1>8. QED
  BY <1>6, <1>7

(* Entry e for r joins the batch: its chunk starts at position s.            *)
Enters(r, s, e) ==
  /\ Scheduling /\ Scheduling'
  /\ r \in Requests /\ r \notin Entered /\ Entered' = Entered \cup {r}
  /\ e \in BatchEntry /\ e.req = r /\ ToSet(Batch') = ToSet(Batch) \cup {e}
  /\ s \in Nat /\ computed'[r] = s + e.n
  /\ budget' = budget - e.n /\ (computed'[r] = GetLen(r) \/ budget' = 0)
  /\ out' = out
  /\ \A q \in Requests \ {r} : computed'[q] = computed[q] /\ tables'[q] = tables[q]

LEMMA ScheduleRunningHolds ==
  ASSUME NoSpeculation, EngineInv, ScheduleRunning, Frame
  PROVE  /\ BMStep /\ RequestInv'
         /\ \E r, e : Enters(r, computed[r], e) /\ r \in Active /\ AppendSlot(r, GetLen(r))
<1>1. PICK r \in Requests :
        /\ pc = "running" /\ pc' = "running" /\ pending # <<>> /\ r = Head(pending)
        /\ NumNew(r) > 0 /\ budget > 0
        /\ Fits(r) /\ ReserveSlots(r)
        /\ computed' = [computed EXCEPT ![r] = @ + Chunk(r)]
        /\ scheduledRunning' = Append(scheduledRunning, Scheduled(r, Chunk(r)))
        /\ budget' = budget - Chunk(r)
        /\ kept' = Append(kept, r) /\ pending' = Tail(pending)
        /\ UNCHANGED <<status, out, draft, queueVars, hitBudget, scheduledNew, preempted,
                       todo, shadows, proposed>>
        /\ resumed' \subseteq Requests
  BY DEF ScheduleRunning, Deciding, Frame, draftVars
<1>2. /\ EngineTypes /\ Accounting /\ HoldsFor(r) /\ BatchInv /\ OrderInv
      /\ computed \in [Requests -> Nat]
      /\ kept \in Seq(Requests) /\ pending \in Seq(Requests)
      /\ NoDup(pending) /\ ToSet(kept) \cap ToSet(pending) = {}
      /\ Entered \subseteq ToSet(kept)
      /\ Active = ToSet(kept) \cup ToSet(pending)
  BY <1>1, Members DEF EngineInv, OrderInv, QueueShapes, RequestInv, EngineTypes, Active
<1>3. ToSet(pending) = {r} \cup ToSet(Tail(pending))
  BY <1>1, <1>2, HeadTail
<1>4. ToSet(kept') = ToSet(kept) \cup {r}
  BY <1>1, <1>2, AppendSet
<1>5. r \in Active /\ r \notin Entered /\ Active' = Active /\ Scheduling /\ Scheduling'
  BY <1>1, <1>2, <1>3, <1>4 DEF Active, Scheduling
<1>6. /\ computed[r] \in Nat /\ GetLen(r) \in Nat \ {0} /\ GetLen(r) <= MaxLen
      /\ draft[r] = 0 /\ budget \in Nat /\ Len(out[r]) \in Nat /\ MaxLen \in Nat
      /\ 1 <= computed[r] /\ computed[r] < GetLen(r) /\ GetLen(r) <= Capacity(r) + 1
      /\ ncached[r] * BlockSize \in Nat /\ ncached[r] * BlockSize <= computed[r]
  BY <1>2, <1>5, LenFacts, ConfigAssumption DEF HoldsFor, TableCovers
<1>7. /\ Chunk(r) \in Nat \ {0} /\ Chunk(r) <= budget /\ computed[r] + Chunk(r) <= GetLen(r)
      /\ computed[r] + Chunk(r) = GetLen(r) \/ Chunk(r) = budget
  <2>1. PICK m \in Nat : m = GetLen(r) - computed[r] /\ m > 0
    BY <1>6
  <2>2. Chunk(r) = Least(m, budget)
    BY <1>6, <2>1 DEF Chunk, NumNew, GetNumNewTokens
  <2>3. /\ Least(m, budget) \in Nat \ {0}
        /\ Least(m, budget) <= m /\ Least(m, budget) <= budget
        /\ Least(m, budget) = m \/ Least(m, budget) = budget
    <3>1. PICK b \in Nat : b = budget /\ b > 0
      BY <1>1, <1>6
    <3>2. /\ Least(m, b) \in Nat /\ Least(m, b) <= m /\ Least(m, b) <= b /\ Least(m, b) > 0
          /\ Least(m, b) = m \/ Least(m, b) = b
      BY <2>1, <3>1, LeastFacts
    <3>3. QED
      BY <3>1, <3>2
  <2>4. QED
    BY <1>6, <2>1, <2>2, <2>3
<1>8. PICK n \in Nat \ {0} : n = Chunk(r)
  BY <1>7
<1>9. /\ BMStep
      /\ tables[r] # <<>> /\ tables'[r] # <<>>
      /\ Capacity(r)' \in Nat /\ GetLen(r) <= Capacity(r)'
      /\ \A q \in Requests \ {r} : tables'[q] = tables[q]
      /\ allocating = {} /\ UNCHANGED <<ncached, allocating, need, oom>>
  <2>1. PICK len \in 1..MaxLen : len = GetLen(r)
    BY <1>6
  <2>2. CanAppendSlot(r, len) /\ AppendSlot(r, len) /\ len <= Capacity(r) + 1
    BY <1>1, <1>6, <2>1 DEF Fits, ReserveSlots
  <2>3. QED
    BY <1>2, <2>1, <2>2, AppendSlotEffect
<1>10. PICK e \in BatchEntry : e = Scheduled(r, n) /\ e.req = r /\ e.n = n
  <2>1. Scheduled(r, n) \in BatchEntry
    BY <1>6 DEF Scheduled, BatchEntry
  <2>2. Scheduled(r, n).req = r /\ Scheduled(r, n).n = n
    BY DEF Scheduled
  <2>3. QED
    BY <2>1, <2>2
<1>11. /\ scheduledNew' \in Seq(BatchEntry) /\ scheduledRunning' \in Seq(BatchEntry)
       /\ NoDup(Batch') /\ ToSet(Batch') = ToSet(Batch) \cup {e}
  BY <1>1, <1>2, <1>5, <1>8, <1>10, JoinBatch
<1>12. computed'[r] = computed[r] + n /\ \A q \in Requests \ {r} : computed'[q] = computed[q]
  BY <1>1, <1>2, <1>8
<1>13. computed'[r] \in Nat /\ n <= computed'[r] /\ n <= budget /\ budget' = budget - n
  <2>1. PICK c \in Nat : c = computed[r]
    BY <1>6
  <2>2. c + n \in Nat /\ n <= c + n
    BY <1>8, <2>1
  <2>3. QED
    BY <1>1, <1>7, <1>8, <1>12, <2>1, <2>2
<1>14. BatchInv' /\ Entered' = Entered \cup {r}
  BY <1>2, <1>5, <1>10, <1>11, <1>12, <1>13, EnterBatch
<1>15. EngineTypes'
  <2>1. computed' \in [Requests -> Nat] /\ budget' \in Nat
    <3>1. computed[r] + n \in Nat /\ budget - n \in Nat
      BY <1>6, <1>13
    <3>2. computed' = [computed EXCEPT ![r] = computed[r] + n]
      BY <1>1, <1>8
    <3>3. QED
      BY <1>2, <1>13, <3>1, <3>2
  <2>2. QED
    BY <1>1, <1>2, <1>11, <2>1 DEF EngineTypes
<1>16. ASSUME NEW q \in Requests, q # r PROVE HoldsFor(q)'
  <2>1. Untouched(q)
    BY <1>1, <1>5, <1>9, <1>12, <1>14, <1>16 DEF Untouched, queueVars
  <2>2. QED
    BY <2>1, UntouchedHolds DEF EngineInv, RequestInv
<1>17. HoldsFor(r)'
  <2>1. GetLen(r)' = GetLen(r) /\ out' = out
    BY <1>1 DEF GetLen
  <2>2. TableCovers(r)'
    BY <1>6, <1>7, <1>8, <1>9, <1>12, <1>14, <2>1 DEF TableCovers
  <2>3. r \in Active'
    BY <1>5
  <2>4. r \notin ToSet(waiting)
    BY <1>2, <1>9 DEF HoldsFor
  <2>5. QED
    BY <1>1, <1>2, <1>9, <2>1, <2>2, <2>3, <2>4 DEF HoldsFor, queueVars
<1>18. AllocationInv' /\ (pc' = "raised" => oom')
  BY <1>1, <1>9 DEF EngineInv, RequestInv, AllocationInv
<1>19. Enters(r, computed[r], e) /\ r \in Active /\ AppendSlot(r, GetLen(r))
  <2>1. computed'[r] = GetLen(r) \/ budget' = 0
    BY <1>6, <1>7, <1>8, <1>12, <1>13
  <2>2. AppendSlot(r, GetLen(r))
    BY <1>1, <1>6 DEF ReserveSlots
  <2>3. computed'[r] = computed[r] + e.n /\ budget' = budget - e.n /\ computed[r] \in Nat
    BY <1>6, <1>10, <1>12, <1>13
  <2>4. Enters(r, computed[r], e)
    BY <1>1, <1>5, <1>9, <1>10, <1>11, <1>12, <1>14, <2>1, <2>3 DEF Enters
  <2>5. QED
    BY <1>5, <2>2, <2>4
<1>20. QED
  BY <1>9, <1>14, <1>15, <1>16, <1>17, <1>18, <1>19 DEF RequestInv

LEMMA AdmitWaitingHolds ==
  ASSUME EngineInv, AdmitWaiting, Frame
  PROVE  BMStep /\ RequestInv'
<1>1. PICK r \in Requests :
        /\ pc = "waiting" /\ pc' = "allocate" /\ waiting # <<>> /\ r = Head(waiting)
        /\ Admissible(r) /\ AllocateBegin(r, GetLen(r))
        /\ waiting' = Tail(waiting)
        /\ UNCHANGED <<requestVars, running, arrivals, pending, kept, budget, hitBudget,
                       scheduledNew, scheduledRunning, preempted, todo, shadows, proposed>>
        /\ resumed' \subseteq Requests
  <2>1. waiting \in Seq(Requests) /\ waiting # <<>>
    BY DEF AdmitWaiting, HeadAdmissible, EngineInv, OrderInv, QueueShapes
  <2>2. Head(waiting) \in Requests
    BY <2>1, HeadTail
  <2>3. QED
    BY <2>2 DEF AdmitWaiting, HeadAdmissible, Frame, draftVars
<1>2. /\ EngineTypes /\ Accounting /\ HoldsFor(r) /\ BatchInv /\ OrderInv
      /\ waiting \in Seq(Requests) /\ NoDup(waiting)
      /\ Active \cap ToSet(waiting) = {} /\ Active = ToSet(running)
  BY <1>1, Members DEF EngineInv, OrderInv, QueueShapes, RequestInv, Active
<1>3. /\ ToSet(waiting) = {r} \cup ToSet(waiting') /\ r \notin ToSet(waiting')
  <2>1. PICK t \in Seq(Requests) : t = Tail(waiting) /\ waiting = <<r>> \o t
    BY <1>1, <1>2, HeadTail
  <2>2. PICK h \in Seq(Requests) : h = <<r>> /\ ToSet(h) = {r}
    <3>1. <<r>> \in Seq(Requests) /\ ToSet(<<r>>) = {r}
      BY DEF ToSet
    <3>2. QED
      BY <3>1
  <2>3. NoDup(h \o t) /\ ToSet(h \o t) = ToSet(waiting)
    BY <1>2, <2>1, <2>2
  <2>4. ToSet(h) \cap ToSet(t) = {} /\ ToSet(waiting) = ToSet(h) \cup ToSet(t)
    BY <2>3, ConcatSet
  <2>5. QED
    BY <1>1, <2>1, <2>2, <2>4
<1>4. /\ tables[r] = <<>> /\ computed[r] = 0 /\ Len(out[r]) <= MaxTokens[r] /\ r \notin Active
      /\ r \in ToSet(arrivals) /\ status[r] \in Live => Len(out[r]) < MaxTokens[r]
  BY <1>2, <1>3 DEF HoldsFor
<1>5. /\ tables' = tables /\ allocating' = {r} /\ oom' = oom /\ allocating = {}
      /\ ncached' = [ncached EXCEPT ![r] = MatchPrefix(r)]
      /\ need' = NumBlocksNeeded(GetLen(r)) - MatchPrefix(r)
  BY <1>1 DEF AllocateBegin, Idle
<1>6. BMStep
  <2>1. /\ GetLen(r) \in Nat /\ Len(Prompt[r]) \in Nat /\ Len(out[r]) \in Nat
        /\ GetLen(r) <= MaxLen /\ GetLen(r) = Len(Prompt[r]) + Len(out[r])
    BY <1>2, <1>4, LenFacts
  <2>2. MaxLen \in Nat
    BY ConfigAssumption
  <2>3. GetLen(r) \in Len(Prompt[r])..MaxLen
    <3>1. \A p, o, g, m \in Nat : g = p + o /\ g <= m => g \in p..m
      OBVIOUS
    <3>2. QED
      BY <2>1, <2>2, <3>1, Zenon
  <2>4. CallAllocate(r)
    BY <1>1, <2>3 DEF CallAllocate, Admissible
  <2>5. QED
    BY <2>4 DEF BMStep, BMNext
<1>7. DOMAIN ncached = Requests /\ ncached'[r] = MatchPrefix(r)
  BY <1>2, <1>5 DEF Accounting, BMTypeOK
<1>8. Active' = Active /\ Scheduling /\ Scheduling' /\ Entered' = Entered
  <2>1. Active' = Active /\ Scheduling /\ Scheduling'
    BY <1>1 DEF Active, Scheduling
  <2>2. QED
    BY <1>1, <2>1, SameEntered
<1>9. EngineTypes'
  BY <1>1, <1>2 DEF EngineTypes, requestVars
<1>10. BatchInv'
  BY <1>1, <1>2, <1>8, SameBatch DEF requestVars
<1>11. ASSUME NEW q \in Requests, q # r PROVE HoldsFor(q)'
  <2>1. Untouched(q)
    BY <1>1, <1>3, <1>5, <1>7, <1>8, <1>11 DEF Untouched, requestVars
  <2>2. QED
    BY <2>1, UntouchedHolds DEF EngineInv, RequestInv
<1>12. HoldsFor(r)'
  BY <1>1, <1>3, <1>4, <1>5, <1>8 DEF HoldsFor, requestVars
<1>13. AllocationInv'
  <2>1. GetLen(r)' = GetLen(r) /\ hitBudget' = hitBudget /\ budget' = budget /\ ~oom
    BY <1>1 DEF GetLen, requestVars, AllocateBegin, Idle
  <2>2. NumBlocksNeeded(GetLen(r))' = NumBlocksNeeded(GetLen(r))
    BY <2>1 DEF NumBlocksNeeded
  <2>3. ~EnablePrefixCaching => ncached'[r] = 0
    BY <1>7 DEF MatchPrefix
  <2>4. ncached'[r] * BlockSize <= hitBudget' /\ budget' > 0
    BY <1>1, <1>7, <2>1 DEF Admissible
  <2>5. QED
    BY <1>1, <1>5, <1>7, <2>1, <2>2, <2>3, <2>4 DEF AllocationInv
<1>14. QED
  BY <1>1, <1>6, <1>9, <1>10, <1>11, <1>12, <1>13 DEF RequestInv

(* ceil(len / block_size) blocks cover len tokens.                          *)
LEMMA NeededCovers ==
  ASSUME NEW b \in Nat \ {0}, NEW a \in Nat
  PROVE  /\ (a + b - 1) \div b \in Nat
         /\ a <= ((a + b - 1) \div b) * b
  BY Z3

LEMMA AllocateFinishEffect ==
  ASSUME Accounting, NEW r \in Requests, AllocateFinish(r),
         NEW len \in Nat \ {0}, need = NumBlocksNeeded(len) - ncached[r]
  PROVE  /\ BMStep
         /\ tables'[r] # <<>> /\ Capacity(r)' \in Nat /\ len <= Capacity(r)'
         /\ \A q \in Requests \ {r} : tables'[q] = tables[q]
         /\ ~oom /\ allocating' = {} /\ UNCHANGED <<ncached, oom>>
<1>1. /\ ~oom /\ allocating' = {} /\ UNCHANGED <<ncached, oom>>
      /\ \E t : /\ tables' = [tables EXCEPT ![r] = t] /\ DOMAIN t = 1..(ncached[r] + need)
  <2>1. PICK fresh \in [1..need -> free] :
          tables' = [tables EXCEPT ![r] =
                       [i \in 1..(ncached[r] + need) |->
                          IF i <= ncached[r] THEN trie[Node(r, i)].phys
                                             ELSE fresh[i - ncached[r]]]]
    BY DEF AllocateFinish
  <2> DEFINE t == [i \in 1..(ncached[r] + need) |->
                     IF i <= ncached[r] THEN trie[Node(r, i)].phys
                                        ELSE fresh[i - ncached[r]]]
  <2>2. DOMAIN t = 1..(ncached[r] + need)
    OBVIOUS
  <2>3. tables' = [tables EXCEPT ![r] = t]
    BY <2>1
  <2> HIDE DEF t
  <2>4. ~oom /\ allocating' = {} /\ UNCHANGED <<ncached, oom>>
    BY DEF AllocateFinish
  <2>5. QED
    BY <2>2, <2>3, <2>4, Zenon
<1>2. BMStep
  BY DEF BMStep, BMNext
<1>3. BlockSize \in Nat \ {0} /\ ncached[r] \in Nat /\ need \in Nat /\ DOMAIN tables = Requests
  BY PromptAssumption DEF Accounting, BMTypeOK
<1>4. NumBlocksNeeded(len) \in Nat /\ len <= NumBlocksNeeded(len) * BlockSize
  BY <1>3, NeededCovers DEF NumBlocksNeeded
<1>5. PICK n \in Nat : n = NumBlocksNeeded(len) /\ len <= n * BlockSize
  BY <1>4
<1>6. n # 0
  BY <1>3, <1>5
<1>7. n = ncached[r] + need
  BY <1>3, <1>5
<1>8. tables'[r] \in Seq(Blocks)
  <2>1. Accounting'
    BY AllocateFinishAccounting
  <2>2. QED
    BY <2>1 DEF Accounting, BMTypeOK
<1>9. DOMAIN tables'[r] = 1..n
  BY <1>1, <1>3, <1>7
<1>10. Len(tables'[r]) = n
  BY <1>8, <1>9, LenProperties
<1>11. tables'[r] # <<>>
  BY <1>6, <1>10
<1>12. Capacity(r)' = n * BlockSize /\ n * BlockSize \in Nat
  BY <1>3, <1>10, MulType DEF Capacity
<1>13. \A q \in Requests \ {r} : tables'[q] = tables[q]
  BY <1>1, <1>3
<1>14. QED
  BY <1>1, <1>2, <1>5, <1>11, <1>12, <1>13

(* The cached prefix and the first chunk after it.                          *)
LEMMA SeedFacts ==
  ASSUME NEW p \in Nat \ {0}, NEW g \in Nat, p <= g, NEW h \in Nat, h <= p,
         NEW b \in Nat \ {0}, NEW start, start = Least(h, p - 1),
         NEW chunk, chunk = Least(g - start, b)
  PROVE  /\ start \in Nat /\ chunk \in Nat \ {0} /\ chunk <= b
         /\ start + chunk \in Nat /\ start + chunk <= g
         /\ h <= start + chunk /\ 1 <= start + chunk /\ chunk <= start + chunk
         /\ start + chunk = g \/ chunk = b
  BY DEF Least

(* The matched blocks are full blocks of the prompt.                        *)
LEMMA CachedIsPrompt ==
  ASSUME Accounting, NEW r \in Requests
  PROVE  ncached[r] * BlockSize <= Len(Prompt[r])
<1>1. /\ ncached[r] \in Nat /\ ncached[r] <= FullBlocks(r) /\ FullBlocks(r) \in Nat
      /\ FullBlocks(r) * BlockSize <= Len(Prompt[r]) /\ Len(Prompt[r]) \in Nat
      /\ BlockSize \in Nat \ {0}
  BY PromptAssumption, FullBlocksType DEF Accounting, BMTypeOK
<1>2. PICK c \in Nat, f \in Nat : c = ncached[r] /\ f = FullBlocks(r) /\ c <= f
  BY <1>1
<1>3. c * BlockSize \in Nat /\ f * BlockSize \in Nat
  BY <1>1, MulType
<1>4. CASE c = f
  BY <1>1, <1>2, <1>4
<1>5. CASE c < f
  <2>1. c * BlockSize + BlockSize <= f * BlockSize
    BY <1>1, <1>5, MulMono
  <2>2. QED
    BY <1>1, <1>2, <1>3, <2>1
<1>6. QED
  BY <1>2, <1>4, <1>5

LEMMA AdmitDoneHolds ==
  ASSUME NoSpeculation, EngineInv, AdmitDone, Frame
  PROVE  /\ BMStep /\ RequestInv'
         /\ \E r, e, s : /\ Enters(r, s, e) /\ AllocateFinish(r)
                         /\ s <= ncached[r] * BlockSize
<1>1. pc = "allocate" /\ EngineTypes /\ Accounting /\ BatchInv /\ OrderInv
  BY DEF AdmitDone, EngineInv, RequestInv
<1>2. PICK r \in Requests :
        /\ allocating = {r} /\ r \in ToSet(arrivals) /\ r \notin Active /\ r \notin ToSet(waiting)
  BY <1>1, Members
<1> DEFINE start == IF EnablePrefixCaching THEN Seed(r) ELSE computed[r]
           chunk == Least(GetLen(r) - start, budget)
<1>3. /\ pc' = "waiting" /\ AllocateFinish(r)
      /\ status' = [status EXCEPT ![r] = "RUNNING"]
      /\ computed' = [computed EXCEPT ![r] = start + chunk]
      /\ hitBudget' = hitBudget - ncached[r] * BlockSize
      /\ scheduledNew' = Append(scheduledNew, Scheduled(r, chunk))
      /\ budget' = budget - chunk
      /\ running' = Append(running, r)
      /\ UNCHANGED <<out, draft, waiting, arrivals, pending, kept, scheduledRunning,
                     preempted, todo, shadows, proposed>>
      /\ resumed' \subseteq Requests
  <2>1. PICK q \in allocating :
          /\ pc' = "waiting" /\ AllocateFinish(q)
          /\ status' = [status EXCEPT ![q] = "RUNNING"]
          /\ LET st == IF EnablePrefixCaching THEN Seed(q) ELSE computed[q]
                 ch == Least(GetLen(q) - st, budget)
             IN /\ computed' = [computed EXCEPT ![q] = st + ch]
                /\ scheduledNew' = Append(scheduledNew, Scheduled(q, ch))
                /\ budget' = budget - ch
          /\ hitBudget' = hitBudget - ncached[q] * BlockSize
          /\ running' = Append(running, q)
          /\ UNCHANGED <<out, draft, waiting, arrivals, pending, kept, scheduledRunning,
                         preempted>>
    BY DEF AdmitDone
  <2>2. q = r
    BY <1>2
  <2>3. QED
    BY <2>1, <2>2 DEF Frame, draftVars
<1>4. /\ HoldsFor(r) /\ computed[r] = 0 /\ Len(out[r]) <= MaxTokens[r]
      /\ need = NumBlocksNeeded(GetLen(r)) - ncached[r]
      /\ ncached[r] * BlockSize <= hitBudget /\ budget > 0
      /\ ~EnablePrefixCaching => ncached[r] = 0
      /\ computed \in [Requests -> Nat] /\ status \in [Requests -> Statuses]
      /\ running \in Seq(Requests) /\ hitBudget \in Nat
  BY <1>1, <1>2 DEF EngineInv, RequestInv, HoldsFor, AllocationInv, EngineTypes, OrderInv,
                    QueueShapes
<1>5. /\ BlockSize \in Nat \ {0} /\ Len(Prompt[r]) \in Nat \ {0} /\ Len(out[r]) \in Nat
      /\ GetLen(r) = Len(Prompt[r]) + Len(out[r]) /\ GetLen(r) \in Nat \ {0}
      /\ ncached[r] * BlockSize \in Nat /\ ncached[r] * BlockSize <= Len(Prompt[r])
      /\ budget \in Nat
  BY <1>1, LenFacts, CachedIsPrompt
<1>6. PICK h \in Nat, p \in Nat \ {0}, g \in Nat \ {0}, b \in Nat \ {0} :
        /\ h = ncached[r] * BlockSize /\ p = Len(Prompt[r]) /\ g = GetLen(r) /\ b = budget
        /\ h <= p /\ p <= g
  <2>1. Len(Prompt[r]) <= GetLen(r) /\ budget \in Nat \ {0}
    <3>1. \A p, o, g \in Nat : g = p + o => p <= g
      OBVIOUS
    <3>2. Len(Prompt[r]) <= GetLen(r)
      BY <1>5, <3>1
    <3>3. \A x \in Nat : x > 0 => x \in Nat \ {0}
      OBVIOUS
    <3>4. QED
      BY <1>4, <1>5, <3>2, <3>3, Zenon
  <2>2. QED
    BY <1>5, <2>1
<1>7. start = Least(h, p - 1)
  <2>1. CASE EnablePrefixCaching
    BY <1>6, <2>1 DEF Seed
  <2>2. CASE ~EnablePrefixCaching
    <3>1. ncached[r] = 0 /\ 0 * BlockSize = 0
      BY <1>4, <1>5, <2>2
    <3>2. h = 0
      BY <1>6, <3>1
    <3>3. Least(0, p - 1) = 0
      BY DEF Least
    <3>4. QED
      BY <1>4, <2>2, <3>2, <3>3
  <2>3. QED
    BY <2>1, <2>2
<1>8. chunk = Least(g - start, b)
  BY <1>6
<1>9. PICK s \in Nat, n \in Nat \ {0} :
        /\ s = start /\ n = chunk /\ n <= b /\ s + n \in Nat /\ s + n <= g
        /\ h <= s + n /\ 1 <= s + n /\ n <= s + n
        /\ s + n = g \/ n = b
  <2> HIDE DEF start, chunk
  <2>1. /\ start \in Nat /\ chunk \in Nat \ {0} /\ chunk <= b
        /\ start + chunk \in Nat /\ start + chunk <= g
        /\ h <= start + chunk /\ 1 <= start + chunk /\ chunk <= start + chunk
        /\ start + chunk = g \/ chunk = b
    <3>1. h <= p /\ p <= g /\ g \in Nat
      BY <1>6
    <3>2. QED
      BY <3>1, <1>7, <1>8, SeedFacts
  <2>2. QED
    BY <2>1
<1>10. /\ computed' = [computed EXCEPT ![r] = s + n]
       /\ scheduledNew' = Append(scheduledNew, Scheduled(r, n))
       /\ budget' = budget - n
  BY <1>3, <1>9
<1> HIDE DEF start, chunk
<1>11. /\ BMStep
       /\ tables'[r] # <<>> /\ Capacity(r)' \in Nat /\ g <= Capacity(r)'
       /\ \A q \in Requests \ {r} : tables'[q] = tables[q]
       /\ ~oom /\ allocating' = {} /\ UNCHANGED <<ncached, oom>>
  BY <1>1, <1>3, <1>4, <1>6, AllocateFinishEffect
<1>12. PICK e \in BatchEntry : e = Scheduled(r, n) /\ e.req = r /\ e.n = n
  <2>1. Scheduled(r, n) \in BatchEntry
    BY <1>5 DEF Scheduled, BatchEntry
  <2>2. Scheduled(r, n).req = r /\ Scheduled(r, n).n = n
    BY DEF Scheduled
  <2>3. QED
    BY <2>1, <2>2
<1>13. r \notin Entered /\ Scheduling /\ Scheduling'
  BY <1>1, <1>2, <1>3, Members DEF Scheduling
<1>14. /\ scheduledNew' \in Seq(BatchEntry) /\ scheduledRunning' \in Seq(BatchEntry)
       /\ NoDup(Batch') /\ ToSet(Batch') = ToSet(Batch) \cup {e}
  BY <1>1, <1>3, <1>10, <1>12, <1>13, JoinBatch
<1>15. computed'[r] = s + n /\ \A q \in Requests \ {r} : computed'[q] = computed[q]
  BY <1>4, <1>10
<1>16. n <= budget /\ n <= computed'[r] /\ computed'[r] \in Nat
  BY <1>6, <1>9, <1>15
<1>17. BatchInv' /\ Entered' = Entered \cup {r}
  BY <1>1, <1>10, <1>12, <1>13, <1>14, <1>15, <1>16, EnterBatch
<1>18. ToSet(running') = ToSet(running) \cup {r}
  BY <1>3, <1>4, AppendSet
<1>19. Active' = Active \cup {r}
  BY <1>1, <1>3, <1>18 DEF Active
<1>20. EngineTypes'
  <2>1. budget' \in Nat /\ hitBudget' \in Nat /\ computed' \in [Requests -> Nat]
    <3>1. budget - n \in Nat /\ hitBudget - ncached[r] * BlockSize \in Nat
      BY <1>4, <1>5, <1>16
    <3>2. QED
      BY <1>3, <1>4, <1>9, <1>10, <3>1
  <2>2. QED
    BY <1>1, <1>3, <1>14, <2>1 DEF EngineTypes
<1>21. ASSUME NEW q \in Requests, q # r PROVE HoldsFor(q)'
  <2>1. status'[q] = status[q]
    BY <1>3, <1>4, <1>21
  <2>2. Untouched(q)
    BY <1>2, <1>3, <1>11, <1>15, <1>17, <1>19, <1>21, <2>1 DEF Untouched
  <2>3. QED
    BY <2>2, UntouchedHolds DEF EngineInv, RequestInv
<1>22. HoldsFor(r)'
  <2>1. GetLen(r)' = g /\ (ncached[r] * BlockSize)' = h
    BY <1>3, <1>6, <1>11 DEF GetLen
  <2>2. TableCovers(r)'
    BY <1>6, <1>9, <1>11, <1>15, <1>17, <2>1 DEF TableCovers
  <2>3. status[r] \in Live
    BY <1>1, <1>2 DEF OrderInv, QueuesAreLive
  <2>4. Len(out'[r]) < MaxTokens[r] /\ Len(out'[r]) <= MaxTokens[r]
    BY <1>2, <1>3, <1>4, <2>3 DEF HoldsFor
  <2>5. r \in Active' /\ r \notin ToSet(waiting')
    BY <1>2, <1>3, <1>19
  <2>6. status'[r] = "RUNNING"
    BY <1>3, <1>4
  <2>7. QED
    BY <1>11, <2>2, <2>4, <2>5, <2>6 DEF HoldsFor
<1>23. AllocationInv'
  BY <1>3, <1>11 DEF AllocationInv
<1>24. Enters(r, s, e) /\ AllocateFinish(r) /\ s <= ncached[r] * BlockSize
  <2>1. Least(h, p - 1) <= h
    BY <1>6 DEF Least
  <2>2. s <= ncached[r] * BlockSize
    BY <1>6, <1>7, <1>9, <2>1
  <2>3. budget' = budget - n /\ (computed'[r] = GetLen(r) \/ budget' = 0)
    BY <1>6, <1>9, <1>10, <1>15
  <2>4. QED
    BY <1>3, <1>9, <1>11, <1>12, <1>13, <1>14, <1>15, <1>17, <2>2, <2>3 DEF Enters
<1>25. QED
  BY <1>3, <1>11, <1>17, <1>20, <1>21, <1>22, <1>23, <1>24 DEF RequestInv

-----------------------------------------------------------------------------
(* The step after schedule() *)

LEMMA FreeFinishedHolds ==
  ASSUME EngineInv, FreeFinished, Frame
  PROVE  BMStep /\ RequestInv'
<1>1. PICK r \in Requests :
        /\ pc = "sweep" /\ r \in ToSet(running) /\ Free(r)
        /\ running' = Without(running, r) /\ arrivals' = Without(arrivals, r)
        /\ UNCHANGED <<requestVars, waiting, stepVars, todo, shadows, proposed>>
        /\ resumed' \subseteq Requests
  BY DEF FreeFinished, Contains, ToSet, Frame, draftVars
<1>2. /\ running \in Seq(Requests) /\ arrivals \in Seq(Requests)
      /\ NoDup(running) /\ NoDup(arrivals)
      /\ Active = ToSet(running) /\ Active' = ToSet(running')
      /\ ToSet(running) \cap ToSet(waiting) = {}
      /\ r \in ToSet(arrivals)
  BY <1>1, Members DEF EngineInv, OrderInv, QueueShapes, QueuesInOrder, Active, stepVars
<1>3. ToSet(arrivals') = ToSet(arrivals) \ {r}
  BY <1>1, <1>2, WithoutSet
<1>4. Active' = Active \ {r} /\ r \notin ToSet(waiting)
  BY <1>1, <1>2, WithoutSet
<1>5. allocating = {} /\ ~Scheduling /\ ~Scheduling'
  BY <1>1 DEF EngineInv, RequestInv, AllocationInv, Scheduling, stepVars
<1>6. Entered = {} /\ Entered' = {} /\ BatchInv'
  BY <1>5, NotSchedulingBatch DEF Entered
<1>7. EngineTypes'
  BY <1>1 DEF EngineInv, RequestInv, EngineTypes, requestVars, stepVars
<1>8. HoldsFor(r) /\ tables[r] # <<>>
  BY <1>1, <1>2 DEF EngineInv, RequestInv, HoldsFor
<1>9. /\ BMStep /\ tables'[r] = <<>> /\ ncached'[r] = 0
      /\ \A q \in Requests \ {r} : tables'[q] = tables[q] /\ ncached'[q] = ncached[q]
      /\ allocating' = {} /\ oom' = oom
  BY <1>1, <1>8, FreeEffect DEF EngineInv
<1>10. ASSUME NEW q \in Requests, q # r PROVE HoldsFor(q)'
  <2>1. Untouched(q)
    BY <1>1, <1>3, <1>4, <1>5, <1>6, <1>9, <1>10 DEF Untouched, requestVars
  <2>2. QED
    BY <2>1, UntouchedHolds DEF EngineInv, RequestInv
<1>11. HoldsFor(r)'
  BY <1>1, <1>3, <1>4, <1>8, <1>9, EndedHolds DEF requestVars
<1>12. AllocationInv' /\ (pc' = "raised" => oom')
  BY <1>1, <1>9 DEF EngineInv, RequestInv, AllocationInv, stepVars
<1>13. QED
  BY <1>6, <1>7, <1>9, <1>10, <1>11, <1>12 DEF RequestInv

(* From the forward pass on, as long as no request changes.                 *)
LEMMA QuietForwardHolds ==
  ASSUME EngineInv, pc \in {"register", "correct", "sweep"},
         pc' \in {"correct", "sweep", "idle"},
         UNCHANGED <<bmVars, requestVars, queueVars>>,
         budget' \in Nat, hitBudget' \in Nat,
         scheduledNew' \in Seq(BatchEntry), scheduledRunning' \in Seq(BatchEntry),
         todo' \in Seq(BatchEntry),
         preempted' \subseteq Requests, resumed' \subseteq Requests, shadows' = shadows,
         proposed' = {}
  PROVE  BMStep /\ RequestInv'
<1>1. EngineTypes'
  BY DEF EngineInv, RequestInv, EngineTypes, requestVars
<1>2. ~Scheduling /\ ~Scheduling' /\ Active' = Active
  BY DEF Scheduling, Active, queueVars
<1>3. Entered = {} /\ Entered' = {} /\ BatchInv'
  BY <1>2, NotSchedulingBatch DEF Entered
<1>4. ASSUME NEW q \in Requests PROVE HoldsFor(q)'
  <2>1. Untouched(q)
    BY <1>2, <1>3 DEF Untouched, bmVars, requestVars, queueVars
  <2>2. QED
    BY <2>1, UntouchedHolds DEF EngineInv, RequestInv
<1>5. AllocationInv' /\ (pc' = "raised" => oom')
  BY DEF EngineInv, RequestInv, AllocationInv, bmVars
<1>6. QED
  BY <1>1, <1>3, <1>4, <1>5 DEF RequestInv, BMStep

LEMMA RegisterDoneHolds ==
  ASSUME EngineInv, RegisterDone
  PROVE  BMStep /\ RequestInv'
BY QuietForwardHolds DEF RegisterDone, EngineInv, RequestInv, EngineTypes, draftVars

LEMMA CorrectDoneHolds ==
  ASSUME EngineInv, CorrectDone
  PROVE  BMStep /\ RequestInv'
<1>1. <<>> \in Seq(BatchEntry)
  BY EmptySeq
<1>2. QED
  BY <1>1, QuietForwardHolds DEF CorrectDone, EngineInv, RequestInv, EngineTypes, draftVars

LEMMA StepDoneHolds ==
  ASSUME EngineInv, StepDone
  PROVE  BMStep /\ RequestInv'
<1>1. <<>> \in Seq(BatchEntry)
  BY EmptySeq
<1>2. QED
  BY <1>1, QuietForwardHolds DEF StepDone, Swept, EngineInv, RequestInv, EngineTypes

(* What needs drafts does not happen.                                       *)
LEMMA NoDraftSteps ==
  ASSUME NoSpeculation, EngineInv
  PROVE  ~ExecuteRaises /\ ~CorrectSpeculation /\ ~ProposeDrafts /\ ~ProposeRaises
<1>1. draft = [r \in Requests |-> 0] /\ ToPropose = {}
  BY DEF NoSpeculation, EngineInv, RequestInv, EngineTypes, ToPropose
<1>2. ~ProposeDrafts /\ ~ProposeRaises
  BY <1>1 DEF ProposeDrafts, ProposeRaises, NextToPropose
<1>3. ToSet(todo) \subseteq BatchEntry /\ ToSet(Batch) \subseteq BatchEntry
  <2>1. /\ scheduledNew \in Seq(BatchEntry) /\ scheduledRunning \in Seq(BatchEntry)
        /\ todo \in Seq(BatchEntry)
    BY DEF EngineInv, RequestInv, EngineTypes
  <2>2. /\ ToSet(scheduledNew) \subseteq BatchEntry /\ ToSet(scheduledRunning) \subseteq BatchEntry
        /\ ToSet(todo) \subseteq BatchEntry
    BY <2>1, ToSetType
  <2>3. QED
    BY <2>2, BatchSet DEF EngineInv
<1>4. \A e \in BatchEntry : draft[e.req] = 0
  BY <1>1 DEF BatchEntry
<1>5. ~ExecuteRaises
  BY <1>3, <1>4 DEF ExecuteRaises, DraftRowsMatch
<1>6. \A i \in DOMAIN todo : draft[todo[i].req] = 0
  BY <1>3, <1>4 DEF ToSet
<1>7. ~CorrectSpeculation
  BY <1>6 DEF CorrectSpeculation, NextVerified
<1>8. QED
  BY <1>2, <1>5, <1>7

(* Who samples a token: a scheduled request that is past its prompt.        *)
LEMMA SamplingIsEntered ==
  ASSUME Scheduling
  PROVE  /\ Sampling = { r \in Entered : ~IsPrefill(r) }
  BY DEF Entered, Sampling

(* One token is sampled, so the request is one token behind again.          *)
LEMMA SampledOutput ==
  ASSUME EngineTypes, Accounting, NEW r \in Requests, 1 <= computed[r],
         NEW c, c = 1, NEW eos
  PROVE  /\ Extended(r, Committed(r, c, eos)) \in Seq(Token)
         /\ Len(Extended(r, Committed(r, c, eos))) = Len(out[r]) + 1
         /\ \E t \in Token : /\ Extended(r, Committed(r, c, eos)) = out[r] \o <<t>>
                            /\ t.by = computed[r] - 1
<1>1. computed[r] \in Nat /\ draft[r] = 0 /\ out[r] \in Seq(Token)
  BY DEF EngineTypes
<1>2. computed[r] - draft[r] - 2 + 1 \in Nat
  BY <1>1
<1>3. [by |-> computed[r] - draft[r] - 2 + 1, eos |-> 1 \in eos] \in Token
  BY <1>2 DEF Token
<1>4. PICK t \in Token : t = [by |-> computed[r] - draft[r] - 2 + 1, eos |-> 1 \in eos]
  BY <1>3
<1>5. Committed(r, c, eos) = <<t>>
  BY <1>4 DEF Committed
<1>6. <<t>> \in Seq(Token) /\ Len(<<t>>) = 1
  OBVIOUS
<1>7. out[r] \o <<t>> \in Seq(Token) /\ Len(out[r] \o <<t>>) = Len(out[r]) + Len(<<t>>)
  BY <1>1, <1>6, ConcatProperties
<1>8. t.by = computed[r] - 1
  <2>1. \A k \in Nat : k - 0 - 2 + 1 = k - 1
    OBVIOUS
  <2>2. t.by = computed[r] - 0 - 2 + 1
    BY <1>1, <1>4
  <2>3. QED
    BY <1>1, <2>1, <2>2
<1>9. QED
  BY <1>5, <1>6, <1>7, <1>8 DEF Extended

LEMMA ExecuteModelHolds ==
  ASSUME NoSpeculation, EngineInv, OrderInv', ExecuteModel
  PROVE  BMStep /\ RequestInv'
<1>1. PICK c \in [Sampling -> 1..(NumSpecTokens + 1)],
           eos \in [Sampling -> SUBSET (1..(NumSpecTokens + 1))] :
        out' = [r \in Requests |-> IF r \in Sampling
                                   THEN Extended(r, Committed(r, c[r], eos[r]))
                                   ELSE out[r]]
  BY DEF ExecuteModel
<1>2. /\ pc = "execute" /\ pc' = "register"
      /\ status' = [r \in Requests |-> IF r \in Sampling THEN MaybeFinish(r, out'[r])
                                                         ELSE status[r]]
      /\ todo' = IF EnablePrefixCaching THEN Batch ELSE <<>>
      /\ UNCHANGED <<bmVars, computed, draft, queueVars, pending, kept, budget, hitBudget,
                     scheduledNew, scheduledRunning, preempted, resumed, draftVars>>
  BY DEF ExecuteModel
<1>3. EngineTypes /\ Accounting /\ OrderInv /\ NumSpecTokens = 0
  BY DEF EngineInv, RequestInv, NoSpeculation
<1>4. \A r \in Sampling : c[r] = 1
  <2>1. ASSUME NEW n \in 1..(0 + 1) PROVE n = 1
    OBVIOUS
  <2>2. QED
    BY <1>3, <2>1
<1>5. /\ Scheduling /\ ~Scheduling' /\ Active' = Active /\ Entered' = {} /\ BatchInv'
      /\ Entered \subseteq Active /\ Active \subseteq Requests /\ Active \subseteq ToSet(arrivals)
  <2>1. Scheduling /\ ~Scheduling' /\ Active' = Active
    BY <1>2 DEF Scheduling, Active, queueVars
  <2>2. QED
    BY <1>2, <1>3, <2>1, Members, NotSchedulingBatch
<1>6. Sampling = { r \in Entered : ~IsPrefill(r) }
  BY <1>5, SamplingIsEntered
<1>7. ASSUME NEW r \in Requests, r \in Sampling
      PROVE  out'[r] \in Seq(Token) /\ Len(out'[r]) = Len(out[r]) + 1
  <2>1. 1 <= computed[r]
    BY <1>5, <1>6, <1>7 DEF EngineInv, RequestInv, HoldsFor, TableCovers
  <2>2. out'[r] = Extended(r, Committed(r, c[r], eos[r])) /\ c[r] = 1
    BY <1>1, <1>4, <1>7
  <2>3. QED
    BY <1>3, <2>1, <2>2, SampledOutput
<1>8. ASSUME NEW r \in Requests, r \notin Sampling
      PROVE  out'[r] = out[r] /\ status'[r] = status[r]
  BY <1>1, <1>2, <1>8
<1>9. EngineTypes'
  <2>1. out' \in [Requests -> Seq(Token)]
    <3>1. \A r \in Requests : out'[r] \in Seq(Token)
      BY <1>3, <1>7, <1>8 DEF EngineTypes
    <3>2. QED
      BY <1>1, <3>1
  <2>2. todo' \in Seq(BatchEntry)
    <3>1. Batch \in Seq(BatchEntry) /\ <<>> \in Seq(BatchEntry)
      BY <1>3, ConcatProperties, EmptySeq DEF EngineTypes, Batch
    <3>2. QED
      BY <1>2, <3>1
  <2>3. QED
    BY <1>2, <1>3, <2>1, <2>2 DEF EngineTypes, draftVars
<1>10. ASSUME NEW r \in Requests PROVE HoldsFor(r)'
  <2>1. HoldsFor(r)
    BY DEF EngineInv, RequestInv
  <2>2. /\ computed'[r] = computed[r] /\ tables'[r] = tables[r] /\ ncached'[r] = ncached[r]
        /\ allocating' = allocating /\ waiting' = waiting /\ arrivals' = arrivals
        /\ Capacity(r)' = Capacity(r)
    BY <1>2 DEF bmVars, queueVars, Capacity
  <2>3. /\ Len(Prompt[r]) \in Nat /\ Len(out[r]) \in Nat /\ computed[r] \in Nat
        /\ GetLen(r) = Len(Prompt[r]) + Len(out[r]) /\ GetLen(r) \in Nat
        /\ GetLen(r)' = Len(Prompt[r]) + Len(out'[r])
        /\ Capacity(r) \in Nat /\ MaxTokens[r] \in Nat
    BY <1>3, LenFacts DEF GetLen
  <2>4. CASE r \in Sampling
    <3>1. r \in Entered /\ r \in Active /\ r \in ToSet(arrivals)
      BY <1>5, <1>6, <2>4
    <3>2. Len(out'[r]) = Len(out[r]) + 1 /\ GetLen(r)' = GetLen(r) + 1
      <4>1. \A p, o \in Nat : p + (o + 1) = (p + o) + 1
        OBVIOUS
      <4>2. Len(out'[r]) = Len(out[r]) + 1
        BY <1>7, <2>4
      <4>3. Len(Prompt[r]) + (Len(out[r]) + 1) = (Len(Prompt[r]) + Len(out[r])) + 1
        BY <2>3, <4>1, Zenon
      <4>4. QED
        BY <2>3, <4>2, <4>3, Zenon
    <3>3. status[r] \in Live
      BY <1>2, <1>3, <3>1 DEF OrderInv, QueuesAreLive
    <3>4. Len(out[r]) < MaxTokens[r] /\ TableCovers(r)
      BY <2>1, <3>1, <3>3 DEF HoldsFor
    <3>5. Len(out'[r]) <= MaxTokens[r]
      BY <2>3, <3>2, <3>4
    <3>6. status'[r] \in Live => Len(out'[r]) < MaxTokens[r]
      <4>1. status'[r] = MaybeFinish(r, out'[r])
        BY <1>2, <2>4
      <4>2. ~(Len(out'[r]) >= MaxTokens[r]) => Len(out'[r]) < MaxTokens[r]
        BY <2>3, <3>2
      <4>3. QED
        BY <4>1, <4>2 DEF MaybeFinish, Live
    <3>7. TableCovers(r)'
      <4>1. computed[r] <= GetLen(r) /\ GetLen(r) <= Capacity(r)
        BY <3>1, <3>4 DEF TableCovers
      <4>2. computed[r] < GetLen(r)' /\ GetLen(r)' <= Capacity(r) + 1
        <5>1. \A g, k, m \in Nat : k <= g /\ g <= m => k < g + 1 /\ g + 1 <= m + 1
          OBVIOUS
        <5>2. QED
          BY <2>3, <3>2, <4>1, <5>1
      <4>3. QED
        BY <1>5, <2>2, <3>4, <4>2 DEF TableCovers
    <3>8. status'[r] \in {"RUNNING"} \cup FINISHED
      <4>1. status'[r] \in {status[r], "STOPPED", "LENGTH_CAPPED"}
        BY <1>2, <2>4 DEF MaybeFinish
      <4>2. QED
        BY <2>1, <3>1, <4>1 DEF HoldsFor, FINISHED
    <3>9. QED
      BY <1>5, <2>1, <2>2, <3>1, <3>5, <3>6, <3>7, <3>8 DEF HoldsFor
  <2>5. CASE r \notin Sampling
    <3>1. out'[r] = out[r] /\ status'[r] = status[r] /\ GetLen(r)' = GetLen(r)
      BY <1>8, <2>3, <2>5
    <3>2. r \in Active => TableCovers(r)'
      <4>1. CASE r \in Entered /\ r \in Active
        <5>1. computed[r] < Len(Prompt[r])
          BY <1>6, <2>3, <2>5, <4>1 DEF IsPrefill
        <5>2. TableCovers(r) /\ GetLen(r) <= Capacity(r)
          BY <2>1, <4>1 DEF HoldsFor, TableCovers
        <5>3. computed[r] < GetLen(r) /\ GetLen(r) <= Capacity(r) + 1
          <6>1. \A p, o, g, k, m \in Nat : g = p + o /\ k < p /\ g <= m => k < g /\ g <= m + 1
            OBVIOUS
          <6>2. QED
            BY <2>3, <5>1, <5>2, <6>1, Zenon
        <5>4. QED
          BY <1>5, <2>2, <3>1, <5>2, <5>3 DEF TableCovers
      <4>2. CASE r \notin Entered /\ r \in Active
        BY <1>5, <2>1, <2>2, <3>1, <4>2 DEF TableCovers, HoldsFor
      <4>3. QED
        BY <4>1, <4>2
    <3>3. QED
      BY <1>5, <2>1, <2>2, <3>1, <3>2 DEF HoldsFor
  <2>6. QED
    BY <2>4, <2>5
<1>11. AllocationInv' /\ (pc' = "raised" => oom')
  BY <1>2 DEF EngineInv, RequestInv, AllocationInv, bmVars
<1>12. BMStep
  BY <1>2 DEF BMStep
<1>13. QED
  BY <1>5, <1>9, <1>10, <1>11, <1>12 DEF RequestInv

(* What the pass appends to each request's output.                          *)
LEMMA PassSamples ==
  ASSUME NoSpeculation, EngineInv, ExecuteModel, NEW r \in Requests
  PROVE  /\ r \in Sampling <=> r \in Entered /\ ~IsPrefill(r)
         /\ r \in Sampling => \E t \in Token : /\ out'[r] = out[r] \o <<t>>
                                             /\ t.by = computed[r] - 1
         /\ r \notin Sampling => out'[r] = out[r] /\ status'[r] = status[r]
<1>1. PICK c \in [Sampling -> 1..(NumSpecTokens + 1)],
           eos \in [Sampling -> SUBSET (1..(NumSpecTokens + 1))] :
        out' = [q \in Requests |-> IF q \in Sampling
                                   THEN Extended(q, Committed(q, c[q], eos[q]))
                                   ELSE out[q]]
  BY DEF ExecuteModel
<1>2. pc = "execute" /\ Scheduling /\ EngineTypes /\ Accounting /\ OrderInv
  BY DEF ExecuteModel, Scheduling, EngineInv, RequestInv
<1>3. r \in Sampling <=> r \in Entered /\ ~IsPrefill(r)
  BY <1>2, SamplingIsEntered
<1>4. ASSUME r \in Sampling
      PROVE  \E t \in Token : out'[r] = out[r] \o <<t>> /\ t.by = computed[r] - 1
  <2>1. r \in Active
    BY <1>2, <1>3, <1>4, Members
  <2>2. 1 <= computed[r]
    BY <2>1 DEF EngineInv, RequestInv, HoldsFor, TableCovers
  <2>3. c[r] = 1
    <3>1. NumSpecTokens = 0 /\ \A n \in 1..(0 + 1) : n = 1
      BY DEF NoSpeculation
    <3>2. QED
      BY <1>4, <3>1
  <2>4. PICK k, stops : k = 1 /\ out'[r] = Extended(r, Committed(r, k, stops))
    BY <1>1, <1>4, <2>3
  <2>5. PICK t \in Token : /\ Extended(r, Committed(r, k, stops)) = out[r] \o <<t>>
                          /\ t.by = computed[r] - 1
    BY <1>2, <2>2, <2>4, SampledOutput
  <2>6. QED
    BY <2>4, <2>5
<1>5. r \notin Sampling => out'[r] = out[r] /\ status'[r] = status[r]
  BY <1>1 DEF ExecuteModel
<1>6. QED
  BY <1>3, <1>4, <1>5

LEMMA RegisterPrefixHolds ==
  ASSUME EngineInv, RegisterPrefix
  PROVE  BMStep /\ RequestInv'
<1>1. /\ pc = "register" /\ pc' = "register" /\ todo # <<>> /\ todo' = Tail(todo)
      /\ UNCHANGED <<requestVars, queueVars, stepVars, resumed, shadows, proposed>>
      /\ \/ InsertComputedPrefix(Head(todo).req, computed[Head(todo).req])
         \/ UNCHANGED bmVars
  BY DEF RegisterPrefix, stepVars, draftVars
<1>2. /\ todo \in Seq(BatchEntry) /\ EngineTypes /\ Accounting /\ OrderInv
      /\ \A e \in ToSet(todo) : e.req \in ToSet(running)
  BY <1>1 DEF EngineInv, RequestInv, EngineTypes, OrderInv, EntriesRun
<1>3. PICK r \in Requests : r = Head(todo).req /\ r \in Active
  <2>1. Head(todo) \in ToSet(todo) /\ Head(todo) \in BatchEntry
    BY <1>1, <1>2, HeadTail
  <2>2. Head(todo).req \in ToSet(running) /\ Head(todo).req \in Requests
    BY <1>2, <2>1 DEF BatchEntry
  <2>3. QED
    BY <1>1, <2>2 DEF Active
<1>4. Tail(todo) \in Seq(BatchEntry)
  BY <1>1, <1>2, HeadTail
<1>5. EngineTypes'
  BY <1>1, <1>2, <1>4 DEF EngineTypes, requestVars, stepVars
<1>6. ~Scheduling /\ ~Scheduling' /\ Active' = Active
  BY <1>1 DEF Scheduling, Active, queueVars, stepVars
<1>7. Entered = {} /\ Entered' = {} /\ BatchInv'
  BY <1>6, NotSchedulingBatch DEF Entered
<1>8. CASE UNCHANGED bmVars
  <2>1. BMStep /\ AllocationInv' /\ (pc' = "raised" => oom')
    BY <1>1, <1>8 DEF BMStep, EngineInv, RequestInv, AllocationInv, bmVars, stepVars
  <2>2. ASSUME NEW q \in Requests PROVE HoldsFor(q)'
    <3>1. Untouched(q)
      BY <1>1, <1>6, <1>7, <1>8 DEF Untouched, bmVars, requestVars, queueVars
    <3>2. QED
      BY <3>1, UntouchedHolds DEF EngineInv, RequestInv
  <2>3. QED
    BY <1>5, <1>7, <2>1, <2>2 DEF RequestInv
<1>9. CASE InsertComputedPrefix(r, computed[r])
  <2>1. /\ UNCHANGED <<free, tables, allocating, need, oom>> /\ tables[r] # <<>>
        /\ \/ ncached' = ncached
           \/ ncached' = [ncached EXCEPT ![r] =
                (IF computed[r] < Len(Prompt[r]) THEN computed[r] ELSE Len(Prompt[r]))
                  \div BlockSize]
    BY <1>9 DEF InsertComputedPrefix
  <2>2. /\ computed[r] \in Nat /\ 1 <= computed[r] /\ computed[r] <= Capacity(r)
        /\ ncached[r] * BlockSize <= computed[r] /\ Capacity(r) \in Nat
        /\ Len(Prompt[r]) \in Nat /\ BlockSize \in Nat \ {0}
        /\ HoldsFor(r) /\ TableCovers(r)
    BY <1>2, <1>3, LenFacts DEF EngineInv, RequestInv, HoldsFor, TableCovers
  <2>3. computed[r] \in 1..Capacity(r)
    BY <2>2
  <2>4. BMStep
    BY <1>9, <2>2, <2>3 DEF BMStep, BMNext, CallInsert
  <2>5. DOMAIN ncached = Requests
    BY <1>2 DEF Accounting, BMTypeOK
  <2>6. ncached'[r] * BlockSize <= computed[r]
    <3>1. CASE ncached' = ncached
      BY <2>2, <3>1
    <3>2. CASE ncached' # ncached
      <4>1. PICK n \in Nat : /\ n <= computed[r]
                             /\ ncached'[r] = n \div BlockSize
        <5> DEFINE c == IF computed[r] < Len(Prompt[r]) THEN computed[r] ELSE Len(Prompt[r])
        <5>1. c \in Nat /\ c <= computed[r]
          BY <2>2
        <5>2. ncached' = [ncached EXCEPT ![r] = c \div BlockSize]
          BY <2>1, <3>2
        <5> HIDE DEF c
        <5>3. ncached'[r] = c \div BlockSize
          BY <2>5, <5>2
        <5>4. QED
          BY <5>1, <5>3
      <4>2. (n \div BlockSize) * BlockSize <= n /\ n \div BlockSize \in Nat
        BY <2>2, DivBound
      <4>3. (n \div BlockSize) * BlockSize \in Nat
        BY <2>2, <4>2, MulType
      <4>4. QED
        BY <2>2, <4>1, <4>2, <4>3
    <3>3. QED
      BY <3>1, <3>2
  <2>7. ASSUME NEW q \in Requests, q # r PROVE HoldsFor(q)'
    <3>1. ncached'[q] = ncached[q]
      BY <2>1, <2>5, <2>7
    <3>2. Untouched(q)
      BY <1>1, <1>6, <1>7, <2>1, <3>1 DEF Untouched, requestVars, queueVars
    <3>3. QED
      BY <3>2, UntouchedHolds DEF EngineInv, RequestInv
  <2>8. HoldsFor(r)'
    <3>1. GetLen(r)' = GetLen(r) /\ Capacity(r)' = Capacity(r)
      BY <1>1, <2>1 DEF GetLen, Capacity, requestVars
    <3>2. TableCovers(r)'
      BY <1>1, <1>7, <2>2, <2>6, <3>1 DEF TableCovers, requestVars
    <3>3. r \notin ToSet(waiting)
      BY <2>1, <2>2 DEF HoldsFor
    <3>4. QED
      BY <1>1, <1>3, <1>6, <2>1, <2>2, <3>2, <3>3 DEF HoldsFor, requestVars, queueVars
  <2>9. AllocationInv' /\ (pc' = "raised" => oom')
    BY <1>1, <2>1 DEF EngineInv, RequestInv, AllocationInv, stepVars
  <2>10. QED
    BY <1>5, <1>7, <2>4, <2>7, <2>8, <2>9 DEF RequestInv
<1>10. QED
  BY <1>1, <1>3, <1>8, <1>9

-----------------------------------------------------------------------------
(* The engine keeps the protocol *)

LEMMA StutterHolds ==
  ASSUME EngineInv, UNCHANGED vars
  PROVE  BMStep /\ RequestInv'
<1> USE DEF vars, schedVars, bmVars, requestVars, queueVars, stepVars, draftVars
<1>1. Active' = Active /\ (Scheduling' <=> Scheduling) /\ allocating' = allocating
  BY DEF Active, Scheduling
<1>2. Entered' = Entered
  BY <1>1, SameEntered
<1>3. BatchInv'
  <2>1. CASE Scheduling
    BY <2>1, SameBatch DEF EngineInv, RequestInv
  <2>2. CASE ~Scheduling
    BY <1>1, <2>2, NotSchedulingBatch
  <2>3. QED
    BY <2>1, <2>2
<1>4. EngineTypes'
  BY DEF EngineInv, RequestInv, EngineTypes
<1>5. ASSUME NEW q \in Requests PROVE HoldsFor(q)'
  <2>1. Untouched(q)
    BY <1>1, <1>2 DEF Untouched
  <2>2. QED
    BY <2>1, UntouchedHolds DEF EngineInv, RequestInv
<1>6. AllocationInv' /\ (pc' = "raised" => oom')
  <2>1. \A r : GetLen(r)' = GetLen(r)
    BY DEF GetLen
  <2>2. QED
    BY <2>1 DEF EngineInv, RequestInv, AllocationInv
<1>7. BMStep
  BY DEF BMStep
<1>8. QED
  BY <1>3, <1>4, <1>5, <1>6, <1>7 DEF RequestInv

LEMMA NextHolds == NoSpeculation /\ EngineInv /\ [Next]_vars => EngineInv' /\ BMStep
<1> SUFFICES ASSUME NoSpeculation, EngineInv, [Next]_vars PROVE EngineInv' /\ BMStep
  OBVIOUS
<1>1. OrderInv'
  BY NextOrder DEF EngineInv
<1>2. BMStep /\ RequestInv'
  <2>1. CASE ScheduleStep
    BY <2>1, ScheduleBeginHolds, SkipRunningHolds, PreemptForRunningHolds,
       ScheduleRunningHolds, RunningDoneHolds, AdmitWaitingHolds, AllocateEvictsHolds,
       AllocateRaisesHolds, AdmitDoneHolds, WaitingDoneHolds, FreeFinishedHolds
       DEF ScheduleStep
  <2>2. CASE ForwardStep
    BY <1>1, <2>2, ExecuteModelHolds, NoDraftSteps, RegisterPrefixHolds,
       RegisterDoneHolds, CorrectDoneHolds DEF ForwardStep
  <2>3. CASE DraftStep
    BY <2>3, NoDraftSteps, StepDoneHolds DEF DraftStep
  <2>4. ASSUME NEW r \in Requests, Submit(r) \/ Cancel(r) PROVE BMStep /\ RequestInv'
    BY <2>4, AddRequestHolds, AbortRequestHolds DEF Submit, Cancel
  <2>5. CASE UNCHANGED vars
    BY <2>5, StutterHolds
  <2>6. QED
    BY <2>1, <2>2, <2>3, <2>4, <2>5 DEF Next, EngineStep
<1>3. Accounting'
  BY <1>2, NextAccounting DEF BMStep, EngineInv
<1>4. QED
  BY <1>1, <1>2, <1>3 DEF EngineInv

LEMMA InitHolds == NoSpeculation /\ Init => EngineInv
<1> SUFFICES ASSUME NoSpeculation, Init PROVE EngineInv
  OBVIOUS
<1>1. OrderInv
  BY InitOrder
<1>2. Accounting
  BY InitAccounting DEF Init, SchedulerInit
<1>3. <<>> \in Seq(Token) /\ <<>> \in Seq(BatchEntry) /\ Len(<<>>) = 0 /\ ToSet(<<>>) = {}
  BY EmptySeq, EmptyIsSeq
<1>4. EngineTypes
  <2>1. Drafts!NoShadows = <<>>
    BY DEF Drafts!NoShadows
  <2>2. QED
    BY <1>3, <2>1 DEF Init, SchedulerInit, EngineTypes
<1>5. Active = {} /\ ~Scheduling
  BY <1>3 DEF Init, SchedulerInit, Active, Scheduling
<1>6. \A r \in Requests : HoldsFor(r)
  BY <1>3, <1>5, SchedulerAssumption DEF Init, SchedulerInit, BMInit, HoldsFor
<1>7. AllocationInv /\ BatchInv /\ pc # "raised"
  BY <1>5 DEF Init, SchedulerInit, BMInit, AllocationInv, BatchInv
<1>8. QED
  BY <1>1, <1>2, <1>4, <1>6, <1>7 DEF EngineInv, RequestInv

(* Without speculation model/llm_engine.py is a caller that keeps the       *)
(* documented protocol of engine/block_manager.py: can_x before x, for      *)
(* lengths within the model's, and only computed tokens are registered.     *)
THEOREM EngineKeepsProtocol ==
  ASSUME NoSpeculation
  PROVE  Spec => KeepsBlockManagerProtocol
<1>1. Init => EngineInv /\ BMInit
  BY InitHolds DEF Init, SchedulerInit
<1>2. EngineInv /\ [Next]_vars => EngineInv' /\ [BMNext]_bmVars
  BY NextHolds DEF BMStep
<1>3. QED
  BY <1>1, <1>2, PTL DEF Spec, KeepsBlockManagerProtocol, BMSpec

(* The queues, the block accounting and what the scheduler decided agree    *)
(* at every point of every step.                                            *)
THEOREM EngineInvariant ==
  ASSUME NoSpeculation
  PROVE  Spec => []EngineInv
<1>1. Init => EngineInv
  BY InitHolds
<1>2. EngineInv /\ [Next]_vars => EngineInv'
  BY NextHolds
<1>3. QED
  BY <1>1, <1>2, PTL DEF Spec

(* step() never raises: with a watermark_blocks of at least one, every      *)
(* admitted request gets its blocks, under any load.                        *)
THEOREM StepNeverRaises ==
  ASSUME NoSpeculation, Watermark >= 1
  PROVE  Spec => [](CheckedAllocationSucceeds /\ pc # "raised")
<1>1. Spec => []CheckedAllocationSucceeds
  BY EngineKeepsProtocol, ReserveSuffices, PTL DEF KeepsBlockManagerProtocol
<1>2. EngineInv /\ CheckedAllocationSucceeds => pc # "raised"
  BY DEF EngineInv, RequestInv, CheckedAllocationSucceeds
<1>3. QED
  BY <1>1, <1>2, EngineInvariant, PTL

-----------------------------------------------------------------------------
(* The forward pass *)

LEMMA BatchSize ==
  ASSUME NEW S, NEW entries \in Seq(S), Distinct(entries)
  PROVE  Cardinality({ e.req : e \in ToSet(entries) }) = Len(entries)
<1> DEFINE n == Len(entries)
           T == { e.req : e \in ToSet(entries) }
           f == [i \in 1..n |-> entries[i].req]
<1>1. n \in Nat /\ DOMAIN entries = 1..n
  BY LenProperties
<1>2. f \in Surjection(1..n, T)
  BY <1>1 DEF Surjection, ToSet
<1>3. f \in Injection(1..n, T)
  <2>1. ASSUME NEW i \in 1..n, NEW j \in 1..n, f[i] = f[j] PROVE i = j
    <3>1. entries[i] \in ToSet(entries) /\ entries[j] \in ToSet(entries)
      BY <1>1 DEF ToSet
    <3>2. entries[i].req = entries[j].req
      BY <2>1
    <3>3. entries[i] = entries[j]
      BY <3>1, <3>2 DEF Distinct
    <3>4. QED
      BY <1>1, <3>3 DEF Distinct, NoDup
  <2>2. f \in [1..n -> T]
    BY <1>2 DEF Surjection
  <2> HIDE DEF f, T
  <2>3. QED
    BY <2>1, <2>2 DEF Injection, IsInjective
<1>4. IsFiniteSet(1..n) /\ Cardinality(1..n) = n
  BY <1>1, FS_Interval
<1>5. Cardinality(T) = Cardinality(1..n)
  BY <1>2, <1>3, <1>4, FS_Surjection
<1>6. QED
  BY <1>4, <1>5

(* What the scheduler decided can be executed.                              *)
LEMMA DecisionsAreExecutable ==
  ASSUME EngineInv
  PROVE  WaitingHoldsNothing /\ BatchIsExecutable
<1>1. EngineTypes /\ Accounting /\ OrderInv /\ BatchInv
  BY DEF EngineInv, RequestInv
<1>2. WaitingHoldsNothing
  BY <1>1, Members DEF WaitingHoldsNothing, EngineInv, RequestInv, HoldsFor
<1>3. ASSUME pc = "execute", NEW e \in ToSet(Batch)
      PROVE  /\ Contains(running, e.req) /\ status[e.req] = "RUNNING"
             /\ e.n <= computed[e.req] /\ computed[e.req] <= Capacity(e.req)
             /\ computed[e.req] <= GetLen(e.req) + draft[e.req]
  <2>1. Scheduling /\ Active = ToSet(running)
    BY <1>3 DEF Scheduling, Active
  <2>2. e.req \in Entered /\ e.req \in Active /\ e.req \in Requests /\ e.req \in ToSet(arrivals)
    BY <1>1, <1>3, <2>1, Members DEF Entered
  <2>3. PICK r \in Requests : r = e.req
    BY <2>2
  <2>4. HoldsFor(r) /\ TableCovers(r)
    BY <2>2, <2>3 DEF EngineInv, RequestInv, HoldsFor
  <2>5. status[r] = "RUNNING"
    BY <1>1, <1>3, <2>2, <2>3, <2>4 DEF HoldsFor, FINISHED, OrderInv, QueuesAreLive, Live
  <2>6. Contains(running, r)
    BY <2>1, <2>2, <2>3 DEF Contains, ToSet
  <2>7. computed[r] <= GetLen(r) + draft[r]
    <3>1. draft[r] = 0 /\ GetLen(r) \in Nat /\ GetLen(r) + 0 = GetLen(r)
      <4>1. draft[r] = 0 /\ GetLen(r) \in Nat
        BY <1>1, LenFacts
      <4>2. \A g \in Nat : g + 0 = g
        OBVIOUS
      <4>3. QED
        BY <4>1, <4>2
    <3>2. computed[r] <= GetLen(r)
      BY <2>2, <2>3, <2>4 DEF TableCovers
    <3>3. QED
      BY <3>1, <3>2
  <2>8. e.n <= computed[e.req] /\ computed[r] <= Capacity(r)
    BY <1>1, <1>3, <2>1, <2>4 DEF BatchInv, TableCovers
  <2>9. QED
    BY <2>3, <2>5, <2>6, <2>7, <2>8
<1>4. ASSUME pc = "execute"
      PROVE  /\ Cardinality({ e.req : e \in ToSet(Batch) }) = Len(Batch)
             /\ Cardinality(Rows) + budget = MaxNumBatchedTokens
  <2>1. Batch \in Seq(BatchEntry)
    BY <1>1, ConcatProperties DEF EngineTypes, Batch
  <2>2. Distinct(Batch) /\ Cardinality(Rows) + budget = MaxNumBatchedTokens
    BY <1>1, <1>4 DEF BatchInv, Scheduling
  <2>3. QED
    BY <2>1, <2>2, BatchSize
<1>5. BatchIsExecutable
  BY <1>3, <1>4 DEF BatchIsExecutable
<1>6. QED
  BY <1>2, <1>5
=============================================================================
