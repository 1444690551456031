----------------------------- MODULE QualityGate -----------------------------
(***************************************************************************)
(* training/qlora_financial/promote.py and the gate of mlops/retrain.py:   *)
(* may a candidate replace the champion?  Both are compared on their saved *)
(* answers to the same test questions.                                     *)
(*                                                                         *)
(* Saved answers are the questions that were asked and those answered      *)
(* right by the registry's grading.  Rates are compared as fractions, so   *)
(* that no rounding is needed.                                             *)
(***************************************************************************)
EXTENDS Integers, FiniteSetsExt

CONSTANTS
  SourceOf,             \* SourceOf[q]: the dataset question q is from
  Alpha,                \* alpha, in percent
  MaxDrop               \* max_drop, in percent

Questions == DOMAIN SourceOf

ASSUME GateAssumption ==
  /\ IsFiniteSet(Questions)
  /\ Alpha \in 0..100
  /\ MaxDrop \in 0..100

SavedAnswers == { a \in [asked : SUBSET Questions, right : SUBSET Questions] :
                    a.right \subseteq a.asked }

(* math.comb(n, k).                                                         *)
Comb(n, k) ==
  LET comb[i \in 0..k] == IF i = 0 THEN 1 ELSE (comb[i - 1] * (n - i + 1)) \div i IN comb[k]

(* The outcomes of n coin flips with at most k heads.                       *)
BinomialTail(n, k) == MapThenSumSet(LAMBDA i : Comb(n, i), 0..k)

(* sign_test(a, b) < alpha: the chance of a split at least this lopsided.   *)
NotLuck(a, b) ==
  /\ a + b > 0
  /\ 200 * BinomialTail(a + b, IF a < b THEN a ELSE b) < Alpha * 2 ^ (a + b)

(* The right answers to the questions of one source lose more than max_drop.*)
Drops(source, candidate, champion) ==
  LET qs == { q \in champion.asked : SourceOf[q] = source }
  IN 100 * (Cardinality(qs \cap champion.right) - Cardinality(qs \cap candidate.right))
       > MaxDrop * Cardinality(qs)

(* decide(): more right answers, not by luck, and no source much worse.     *)
Decide(candidate, champion) ==
  LET wins == Cardinality(candidate.right \ champion.right)
      losses == Cardinality(champion.right \ candidate.right)
  IN /\ wins > losses
     /\ NotLuck(wins, losses)
     /\ \A q \in champion.asked : ~Drops(SourceOf[q], candidate, champion)

(* gate() refuses a candidate that was asked what the champion was not.     *)
Comparable(candidate, champion) == candidate.asked \subseteq champion.asked

(* gate(): the champion's answers to the candidate's questions only.        *)
Passes(candidate, champion) ==
  Decide(candidate, [asked |-> candidate.asked, right |-> champion.right \cap candidate.asked])

(* score(): the candidate asked the questions picked.                       *)
Score(picked, able) == [asked |-> picked, right |-> able \cap picked]

-----------------------------------------------------------------------------
(* The sign test as its docstring states it: of all the outcomes of a coin  *)
(* flip per disagreement, how many are at least this lopsided.              *)
Lopsided(n, k) ==
  { heads \in SUBSET (1..n) : Cardinality(heads) <= k \/ Cardinality(heads) >= n - k }

SignTestIsExact(bound) ==
  \A a, b \in 0..bound :
    NotLuck(a, b) <=>
      /\ a + b > 0
      /\ 100 * Cardinality(Lopsided(a + b, IF a < b THEN a ELSE b)) < Alpha * 2 ^ (a + b)
=============================================================================
