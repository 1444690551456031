---------------------------- MODULE FineTuneData ----------------------------
(***************************************************************************)
(* mlops/retrain.py's choice of fine-tune data: rows like the drifted      *)
(* traffic, and as many replayed from the rest.                            *)
(*                                                                         *)
(* Rows and prompts are only told apart by their kind (the bands of the    *)
(* measurements that changed), so a collection of them is its number of    *)
(* each kind.  Which rows of a kind are drawn is left open.                *)
(***************************************************************************)
EXTENDS Integers, FiniteSetsExt

Total(rows) == MapThenSumSet(LAMBDA k : rows[k], DOMAIN rows)

(* rng.sample and its like: n of the rows, none of them twice.              *)
Draws(rows, n) ==
  { d \in [DOMAIN rows -> 0..n] : Total(d) = n /\ \A k \in DOMAIN rows : d[k] <= rows[k] }

(* The kinds with weight > 0: a bigger share of the window than of the      *)
(* training rows.  A kind no training row has is not looked at.             *)
Excess(pool, window) ==
  { k \in DOMAIN pool : pool[k] > 0 /\ window[k] * Total(pool) > pool[k] * Total(window) }

Without(rows, taken) == [k \in DOMAIN rows |-> rows[k] - taken[k]]

(* select_like().                                                           *)
SelectLike(pool, window, n) ==
  LET wanted == [k \in DOMAIN pool |-> IF k \in Excess(pool, window) THEN pool[k] ELSE 0]
  IN Draws(wanted, Min({n, Total(wanted)}))

(* The replayed rows of build_data(): none at all if the rest is too small, *)
(* which random.sample refuses.                                             *)
Replays(pool, like) == Draws(Without(pool, like), Total(like))
=============================================================================
