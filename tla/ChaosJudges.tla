----------------------------- MODULE ChaosJudges -----------------------------
(***************************************************************************)
(* The judges of the chaos experiments (infra/chaos/run_chaos.py): from    *)
(* the load's records and the facts read from the cluster to a verdict.    *)
(*                                                                         *)
(* A record is [t, outcome, ttft, total]: t is the time its request        *)
(* started, ttft is 0 where the code has None.  The unit of time of ttft   *)
(* and total is 10 ms.  Reasons are left out: a verdict is its two halves. *)
(***************************************************************************)
EXTENDS Integers, FiniteSets, FiniteSetsExt

CONSTANTS
  NormalS, FaultS, RecoverS,    \* the lengths of the three phases
  DRAIN_FIRING_S                \* the drain's alert fires within this long

NETWORK_RISE == 8

PhaseStart(p) ==
  CASE p = "normal" -> 0 [] p = "fault" -> NormalS [] p = "recover" -> NormalS + FaultS

PhaseLength(p) ==
  CASE p = "normal" -> NormalS [] p = "fault" -> FaultS [] p = "recover" -> RecoverS

PhaseEnd(p) == PhaseStart(p) + PhaseLength(p)

(* _phase(): by the planned times, whatever the commands between took.      *)
Phase(records, p) == { r \in records : PhaseStart(p) <= r.t /\ r.t < PhaseEnd(p) }

NoneEmpty(records) == \A p \in {"normal", "fault", "recover"} : Phase(records, p) # {}

(* _pct() on the field f: the nearest rank, of records that may be alike.   *)
Pct(records, f, q) ==
  LET rank == Max({1, (q * Cardinality(records) + 99) \div 100})
      AtMost(v) == { r \in records : r[f] <= v }
  IN Min({ v \in { r[f] : r \in records } : Cardinality(AtMost(v)) >= rank })

Hung(records) == \E r \in records : r.outcome = "hung"

AllOk(records) == \A r \in records : r.outcome = "ok"

(* Within 20% of normal.                                                    *)
BackToNormal(recover, normal) == 10 * recover <= 12 * normal

Verdict(caught, healed) == [caught |-> caught, healed |-> healed, pass |-> caught /\ healed]

Cannot == Verdict(FALSE, FALSE)

PodKill(records, facts) ==
  IF ~NoneEmpty(records) THEN Cannot
  ELSE Verdict(~AllOk(Phase(records, "fault")) \/ facts.alerts # {},
               ~Hung(records) /\ facts.podReady /\ AllOk(Phase(records, "recover"))
                 /\ facts.inFlight = 0)

Answered(records, p) == { r \in Phase(records, p) : r.ttft # 0 }

NetworkDelay(records, facts) ==
  LET P50(p) == Pct(Answered(records, p), "ttft", 50) IN
  IF ~NoneEmpty(records) THEN Cannot
  ELSE Verdict(P50("fault") - P50("normal") >= NETWORK_RISE,
               ~Hung(records) /\ BackToNormal(P50("recover"), P50("normal")))

QueueFlood(records, facts) ==
  LET P50(p) == Pct(Phase(records, p), "total", 50) IN
  IF ~NoneEmpty(records) THEN Cannot
  ELSE Verdict(facts.maxRunning >= facts.batchLimit,
               /\ \A r \in records : r.outcome \in {"ok", "aborted"}
               /\ facts.restarts = 0 /\ facts.waiting = 0
               /\ BackToNormal(P50("recover"), P50("normal")))

(* Faulty variant: no slower than normal counts as caught.                  *)
AnyNeighbour(records, facts) ==
  LET P99(p) == Pct(Phase(records, p), "total", 99) IN
  IF ~NoneEmpty(records) THEN Cannot
  ELSE Verdict(P99("fault") >= P99("normal"),
               ~Hung(records) /\ BackToNormal(P99("recover"), P99("normal")))

(* p99 up at least 10%.                                                     *)
NoisyNeighbour(records, facts) ==
  LET P99(p) == Pct(Phase(records, p), "total", 99) IN
  IF ~NoneEmpty(records) THEN Cannot
  ELSE Verdict(10 * P99("fault") >= 11 * P99("normal"),
               ~Hung(records) /\ BackToNormal(P99("recover"), P99("normal")))

(* The alert fires in time; the person's uncordon brings it all back.       *)
Drain(records, facts) ==
  IF ~NoneEmpty(records) THEN Cannot
  ELSE Verdict("firing" \in facts.alerts /\ facts.firingAfter <= DRAIN_FIRING_S,
               ~Hung(records) /\ facts.readyInTime /\ facts.alertCleared
                 /\ \E r \in Phase(records, "recover") : r.outcome = "ok")

MLflowDown(facts) ==
  Verdict(facts.firstTryFailedOrWaited,
          facts.versions = 1 /\ facts.championIsNew /\ facts.factsComplete)

Judge(name, records, facts) ==
  CASE name = "pod-kill" -> PodKill(records, facts)
    [] name = "network-delay" -> NetworkDelay(records, facts)
    [] name = "queue-flood" -> QueueFlood(records, facts)
    [] name = "noisy-neighbour" -> NoisyNeighbour(records, facts)
    [] name = "drain" -> Drain(records, facts)
    [] name = "mlflow-down" -> MLflowDown(facts)

(* Without one first token in a phase network_delay() raises IndexError,    *)
(* and the experiment has no verdict.                                       *)
JudgeRaises(name, records) ==
  name = "network-delay" /\ NoneEmpty(records)
    /\ \E p \in {"normal", "fault", "recover"} : Answered(records, p) = {}

(* _normal_p99() and baseline_check(): 0 where the code has None.           *)
NormalP99(records) ==
  IF Phase(records, "normal") = {} THEN 0 ELSE Pct(Phase(records, "normal"), "total", 99)

BaselineOk(records, ref) ==
  ref = 0 \/ (NormalP99(records) # 0 /\ 2 * NormalP99(records) <= 3 * ref)
=============================================================================
