----------------------------- MODULE ChaosRunner -----------------------------
(***************************************************************************)
(* The chaos experiments of infra/chaos: the runner (run_chaos.py) breaks  *)
(* the platform with kubectl, the load pod (load.py) or the registration   *)
(* probe (register_probe.py) records what happened, and a judge of         *)
(* ChaosJudges decides.                                                    *)
(*                                                                         *)
(* An experiment is a list of steps <<verb, object>>, one per command, in  *)
(* four stages: "body" (before its try, or all of it), "guarded" (inside   *)
(* its try), "finally" and "cleanup".  Any command can fail, having taken  *)
(* effect or not, and the runner can be killed.  The cluster runs on its   *)
(* own: Kubernetes brings lightserve back, Chaos Mesh starts what was      *)
(* applied and ends it by its timer.  Time is counted from the start of    *)
(* the load; it passes while the runner sleeps or waits.                   *)
(***************************************************************************)
EXTENDS ChaosJudges, Sequences, Functions, SequencesExt

CONSTANTS
  Experiments,          \* the names the runner may be given
  START_SLACK,          \* the load outlasts the phases by this much
  CollectS,             \* how long collect() waits for the load
  HangS,                \* load.py's --timeout-s
  ReadyS,               \* the limit of kubectl rollout status
  ProbeS,               \* how long run_mlflow_down() waits for its probe
  Horizon,              \* bound on the clock, above what an experiment takes
  MaxExperiments,       \* bound on the experiments, of all runs together
  MaxTroubles           \* bound on the commands that fail and the runners killed

ASSUME ChaosAssumption ==
  /\ Experiments \subseteq {"pod-kill", "network-delay", "queue-flood",
                            "noisy-neighbour", "drain", "mlflow-down"}
  /\ \A n \in {NormalS, FaultS, RecoverS, START_SLACK, CollectS, HangS, ReadyS, ProbeS} :
       n \in Nat \ {0}

VARIABLES
  runner,               \* the main loop and its experiment, see NewRun
  now,                  \* time since the load started
  faults,               \* the fault objects -> "pending", "on" or "over"
  since,                \* when the fault objects took effect
  pods,                 \* the runner's own pods -> "pending", "running" or "done"
  setup,                \* the neighbour's deployment is placed
  fenced,               \* the node is cordoned
  serving,              \* lightserve has a Ready pod
  user,                 \* the load's user: free, or [from, until] in a hung request
  records,              \* what the load's pods have written
  restarts,             \* whether lightserve's container went away since "before"
  alerts,               \* history in Prometheus: <<time, state>> of LightserveDown
  probe,                \* the registration
  struck,               \* history: the fault took effect in this experiment
  litter,               \* history: what a killed runner left behind
  used                  \* [experiments, failures, kills]: the bounds' counters

clusterVars == <<faults, since, pods, setup, fenced, serving>>
loadVars == <<now, user, records, restarts, alerts>>
historyVars == <<struck, litter, used>>
chaosVars == <<runner, loadVars, clusterVars, probe, historyVars>>

-----------------------------------------------------------------------------
(* The scripts *)

Files == {"pod-kill", "network-delay", "noisy-neighbour", "mlflow-down"}

OWN_PODS == {"chaos-load", "chaos-flood", "chaos-register"}

LoadPod(p) == << <<"delete pod", p>>, <<"run", p>> >>

(* traffic_experiment()                                                     *)
TrafficExperiment(on, off, facts) ==
  << <<"read", "image">>, <<"ship", "lightserve">> >> \o LoadPod("chaos-load")
    \o << <<"await", "chaos-load">>, <<"sleep", "normal">> >> \o on
    \o << <<"sleep", "fault">> >> \o off
    \o << <<"sleep", "recover">>, <<"wait", "chaos-load">>, <<"logs", "chaos-load">>,
          <<"delete pod", "chaos-load">> >> \o facts

Apply(f) == << <<"apply", f>> >>
Delete(f) == << <<"delete", f>> >>
ReadFacts == << <<"read", "facts">> >>

(* Faulty variant: the flood ends when its own time is up.                  *)
FloodRunsOut == << <<"logs", "chaos-flood">> >>

FloodOff == << <<"logs", "chaos-flood">>, <<"delete pod", "chaos-flood">> >>

(* What an experiment does before its try statement, or all of it.          *)
Body(name) ==
  CASE name = "pod-kill" ->
         TrafficExperiment(Apply(name), Delete(name), << <<"rollout", "">> >> \o ReadFacts)
    [] name = "network-delay" -> TrafficExperiment(Apply(name), Delete(name), <<>>)
    [] name = "queue-flood" ->
         TrafficExperiment(ReadFacts \o LoadPod("chaos-flood"), FloodOff, ReadFacts)
    [] name = "noisy-neighbour" -> << <<"place", name>>, <<"read", "rollout">> >>
    [] name = "drain" -> << <<"read", "node">> >>
    [] name = "mlflow-down" ->
         << <<"read", "image">>, <<"ship", "mlops">>, <<"delete pod", "chaos-register">>,
            <<"apply", name>>, <<"sleep", "before probe">>, <<"run", "chaos-register">>,
            <<"wait", "chaos-register">>, <<"logs", "chaos-register">>,
            <<"delete pod", "chaos-register">>, <<"delete", name>> >>

Guarded(name) ==
  CASE name = "noisy-neighbour" ->
         TrafficExperiment(Apply(name), << <<"stop", name>> >>, <<>>)
    [] name = "drain" ->
         TrafficExperiment(<< <<"drain", "">> >>, << <<"uncordon", "">>, <<"rollout", "">> >>,
                           ReadFacts)
    [] OTHER -> <<>>

Finally(name) ==
  CASE name = "noisy-neighbour" -> Delete(name)
    [] name = "drain" -> << <<"try uncordon", "">> >>
    [] OTHER -> <<>>

Cleanup == SetToSeq({ <<"try delete pod", p>> : p \in OWN_PODS })
             \o SetToSeq({ <<"try delete", f>> : f \in Files })

Stage(name, stage) ==
  CASE stage = "body" -> Body(name) [] stage = "guarded" -> Guarded(name)
    [] stage = "finally" -> Finally(name) [] stage = "cleanup" -> Cleanup

(* The stage after one that ended, or that raised.                          *)
AfterStage(stage, raised) ==
  CASE stage = "body" -> IF raised THEN "cleanup" ELSE "guarded"
    [] stage = "guarded" -> "finally"
    [] stage = "finally" -> "cleanup"
    [] stage = "cleanup" -> "judge"

(* Commands run with check=False.                                           *)
Unchecked(step) ==
  step[1] \in {"try delete pod", "try delete", "try uncordon", "rollout"}
    \/ step = <<"logs", "chaos-flood">> \/ step = <<"logs", "chaos-register">>

-----------------------------------------------------------------------------
(* What a command does to the cluster *)

Gone(f, x) == [y \in DOMAIN f \ {x} |-> f[y]]
Put(f, x, v) == [y \in DOMAIN f \cup {x} |-> IF y = x THEN v ELSE f[y]]

On(f) == f \in DOMAIN faults /\ faults[f] = "on"

Flooded == "chaos-flood" \in DOMAIN pods /\ pods["chaos-flood"] = "running"

(* kubectl apply of an object that is there already changes nothing.        *)
FaultsAfter(step) ==
  LET f == step[2] IN
  IF step[1] = "apply" /\ f \notin DOMAIN faults
  THEN Put(faults, f, IF f = "pod-kill" THEN "on" ELSE "pending")
  ELSE IF step[1] \in {"delete", "try delete", "stop"} THEN Gone(faults, f)
  ELSE faults

PodsAfter(step) ==
  LET p == step[2] IN
  IF step[1] = "run" THEN Put(pods, p, "pending")
  ELSE IF step[1] = "await" THEN Put(pods, p, "running")
  ELSE IF step[1] \in {"delete pod", "try delete pod"} THEN Gone(pods, p)
  ELSE pods

SetupAfter(step) ==
  IF step[1] = "place" THEN TRUE
  ELSE IF step \in {<<"delete", "noisy-neighbour">>, <<"try delete", "noisy-neighbour">>}
  THEN FALSE
  ELSE setup

FencedAfter(step) ==
  IF step[1] = "drain" THEN TRUE
  ELSE IF step[1] \in {"uncordon", "try uncordon"} THEN FALSE
  ELSE fenced

(* The fault that strikes at once.                                          *)
KillsPod(step) == step = <<"apply", "pod-kill">> /\ "pod-kill" \notin DOMAIN faults

ServingAfter(step) == serving /\ step[1] # "drain" /\ ~KillsPod(step)

LitterAfter(step) ==
  IF step[1] \in {"delete", "try delete", "delete pod", "try delete pod"}
  THEN litter \ {step[2]}
  ELSE IF step[1] \in {"uncordon", "try uncordon"} THEN litter \ {"fence"}
  ELSE litter

TakesEffect(step) ==
  /\ faults' = FaultsAfter(step)
  /\ since' = IF step = <<"apply", "pod-kill">> THEN now ELSE since
  /\ pods' = PodsAfter(step)
  /\ setup' = SetupAfter(step)
  /\ fenced' = FencedAfter(step)
  /\ serving' = ServingAfter(step)
  /\ struck' = (struck \/ step[1] = "drain" \/ KillsPod(step))
  /\ litter' = LitterAfter(step)

-----------------------------------------------------------------------------
(* The facts *)

AlertsDuring == { a \in alerts : PhaseStart("fault") <= a[1] /\ a[1] <= PhaseEnd("recover") }

Never == 1000

FiringAfter ==
  LET times == { a[1] - PhaseStart("fault") : a \in { b \in AlertsDuring : b[2] = "firing" } }
  IN IF times = {} THEN Never ELSE Min(times)

Firing == \E a \in alerts : a[1] = now /\ a[2] = "firing"

(* What the runner reads; how full the batch got is the cluster's choice.   *)
FactsOf(full) ==
  [alerts |-> { a[2] : a \in AlertsDuring }, podReady |-> runner.facts.ready,
   inFlight |-> IF serving THEN 0 ELSE 1, maxRunning |-> IF full THEN 1 ELSE 0,
   batchLimit |-> 1, restarts |-> restarts, waiting |-> IF serving THEN 0 ELSE 1,
   firingAfter |-> FiringAfter,
   readyInTime |-> runner.facts.ready, alertCleared |-> ~Firing, ready |-> runner.facts.ready]

NoAnswer ==
  [firstTryFailedOrWaited |-> FALSE, versions |-> 0, championIsNew |-> FALSE,
   factsComplete |-> FALSE]

(* The probe's one line; a version carries its facts from its creation.     *)
ProbeFacts ==
  IF probe.at # "answered" THEN NoAnswer
  ELSE [firstTryFailedOrWaited |-> probe.try > 1 \/ probe.waited, versions |-> probe.versions,
        championIsNew |-> probe.label, factsComplete |-> probe.versions > 0]

-----------------------------------------------------------------------------
(* The runner *)

NoVerdict == Verdict(FALSE, FALSE)

NewRun(at, name, ref) ==
  [at |-> at, name |-> name, stage |-> "body", todo |-> <<>>, waited |-> 0, raised |-> FALSE,
   started |-> {}, got |-> {}, facts |-> [ready |-> FALSE], answer |-> NoAnswer,
   verdict |-> NoVerdict, ref |-> ref]

Free == [from |-> 0, until |-> 0]

NoProbe == [at |-> "off", try |-> 1, waited |-> FALSE, versions |-> 0, label |-> FALSE]

Troubles == used.failures + used.kills

StartRun ==
  /\ runner.at = "off" /\ used.experiments < MaxExperiments
  /\ runner' = NewRun("next", "", 0)
  /\ UNCHANGED <<loadVars, clusterVars, probe, historyVars>>

(* The list of experiments is done.                                         *)
EndRun ==
  /\ runner.at = "next"
  /\ runner' = NewRun("off", "", 0)
  /\ UNCHANGED <<loadVars, clusterVars, probe, historyVars>>

(* check_no_leftovers(): every pod whose name starts with "chaos-".         *)
Leftovers == DOMAIN pods \cup (IF setup THEN {"chaos-neighbour"} ELSE {})

(* The settling time passes: lightserve may be back, Chaos Mesh's timers    *)
(* may have run out.                                                        *)
Settle ==
  /\ serving' \in {serving, serving \/ ~fenced}
  /\ faults' \in {faults, [f \in DOMAIN faults |-> "over"]}
  /\ UNCHANGED <<since, pods, setup, fenced>>

(* The check for leftovers, which passes too when kubectl does not answer.  *)
BeginExperiment(name) ==
  /\ runner.at = "next" /\ used.experiments < MaxExperiments
  /\ Settle
  /\ \E failed \in IF Troubles < MaxTroubles THEN BOOLEAN ELSE {FALSE} :
       /\ used' = [used EXCEPT !.failures = @ + (IF failed THEN 1 ELSE 0),
                               !.experiments = @ + 1]
       /\ runner' = IF Leftovers # {} /\ ~failed THEN NewRun("off", "", 0)
                    ELSE [NewRun("running", name, runner.ref) EXCEPT !.todo = Body(name)]
  /\ now' = 0 /\ user' = Free /\ records' = {} /\ alerts' = {} /\ restarts' = 0
  /\ probe' = NoProbe /\ struck' = FALSE
  /\ UNCHANGED litter

Running == runner.at = "running"

Step == Head(runner.todo)

Timed(step) == step[1] \in {"sleep", "wait", "rollout"}

SleepS(phase) == IF phase = "before probe" THEN 1 ELSE PhaseLength(phase)

WaitS(pod) == IF pod = "chaos-register" THEN ProbeS ELSE CollectS

(* Faulty variant: a pod is waited for until it has succeeded or failed.    *)
OverWithoutLimit(step) ==
  CASE step[1] = "sleep" -> runner.waited >= SleepS(step[2])
    [] step[1] = "wait" -> step[2] \notin DOMAIN pods \/ pods[step[2]] = "done"
    [] step[1] = "rollout" -> serving \/ runner.waited >= ReadyS

(* A sleep has passed, a pod is done, lightserve is Ready; or time is up.   *)
Over(step) ==
  CASE step[1] = "sleep" -> runner.waited >= SleepS(step[2])
    [] step[1] = "wait" -> \/ step[2] \in DOMAIN pods /\ pods[step[2]] = "done"
                           \/ runner.waited >= WaitS(step[2])
    [] step[1] = "rollout" -> serving \/ runner.waited >= ReadyS

Ready(step) == Timed(step) => Over(step)

(* The flood's records: its requests ended one way or another.              *)
FloodRecords ==
  { {[t |-> PhaseStart("fault"), user |-> "flood", outcome |-> o, ttft |-> 0, total |-> 40]} :
      o \in {"ok", "aborted", "error"} }

(* What the runner has after a command that went well.                      *)
Learn(step) ==
  \/ /\ step = <<"read", "facts">>
     /\ \E full \in IF struck THEN BOOLEAN ELSE {FALSE} :
          runner' = [runner EXCEPT !.todo = Tail(@), !.waited = 0, !.facts = FactsOf(full)]
     /\ restarts' = IF now = PhaseStart("fault") THEN 0 ELSE restarts
  \/ /\ step # <<"read", "facts">>
     /\ UNCHANGED restarts
     /\ \E extra \in IF step = <<"logs", "chaos-flood">> /\ struck THEN FloodRecords ELSE {{}} :
          runner' = [runner EXCEPT
            !.todo = Tail(@), !.waited = 0,
            !.facts.ready = IF step[1] = "rollout" THEN serving ELSE @,
            !.started = IF step[1] = "run" THEN @ \cup {step[2]} ELSE @,
            !.answer = IF step = <<"logs", "chaos-register">> THEN ProbeFacts ELSE @,
            !.got = IF step = <<"logs", "chaos-load">> THEN @ \cup records
                    ELSE @ \cup extra]

Command ==
  /\ Running /\ runner.todo # <<>> /\ Ready(Step)
  /\ TakesEffect(Step) /\ Learn(Step)
  /\ probe' = IF Step = <<"run", "chaos-register">> THEN [NoProbe EXCEPT !.at = "search"]
              ELSE probe
  /\ UNCHANGED <<now, user, records, alerts, used>>

(* Faulty variant: an exception ends the runner at once.                    *)
RaisedAtOnce ==
  [runner EXCEPT !.stage = "cleanup", !.todo = <<>>, !.waited = 0, !.raised = TRUE]

(* An exception leaves the stage for the finally statements around it.      *)
Raised ==
  LET stage == AfterStage(runner.stage, TRUE) IN
  [runner EXCEPT !.stage = stage, !.todo = Stage(runner.name, stage), !.waited = 0,
                 !.raised = TRUE]

(* A command fails, after or before its effect.                             *)
CommandFails ==
  /\ Running /\ runner.todo # <<>> /\ ~Timed(Step)
  /\ Troubles < MaxTroubles
  /\ TakesEffect(Step) \/ UNCHANGED <<clusterVars, struck, litter>>
  /\ runner' = IF Unchecked(Step) THEN [runner EXCEPT !.todo = Tail(@)] ELSE Raised
  /\ used' = [used EXCEPT !.failures = @ + 1]
  /\ UNCHANGED <<loadVars, probe>>

StageEnds ==
  /\ Running /\ runner.todo = <<>> /\ runner.stage # "cleanup"
  /\ LET stage == AfterStage(runner.stage, FALSE) IN
       runner' = [runner EXCEPT !.stage = stage, !.todo = Stage(runner.name, stage)]
  /\ UNCHANGED <<loadVars, clusterVars, probe, historyVars>>

(* An exception, of the experiment or of its judge, leaves main(): the rows *)
(* judged before are printed already.                                       *)
Crash ==
  /\ Running /\ runner.todo = <<>> /\ runner.stage = "cleanup"
  /\ runner.raised \/ JudgeRaises(runner.name, runner.got)
  /\ runner' = NewRun("off", "", 0)
  /\ UNCHANGED <<loadVars, clusterVars, probe, historyVars>>

(* The verdict, which a slow normal phase spoils.                           *)
JudgeExperiment ==
  LET name == runner.name
      traffic == name # "mlflow-down"
      verdict == Judge(name, runner.got, IF traffic THEN runner.facts ELSE runner.answer)
      fine == ~traffic \/ BaselineOk(runner.got, runner.ref)
  IN
  /\ Running /\ runner.todo = <<>> /\ runner.stage = "cleanup" /\ ~runner.raised
  /\ ~JudgeRaises(name, runner.got)
  /\ runner' = [NewRun("next", name, IF traffic /\ runner.ref = 0 THEN NormalP99(runner.got)
                                                                   ELSE runner.ref)
                 EXCEPT !.verdict = [verdict EXCEPT !.pass = @ /\ fine]]
  /\ records' = {} /\ alerts' = {} /\ probe' = NoProbe
  /\ UNCHANGED <<now, user, restarts, clusterVars, historyVars>>

(* Everything the runner has put into the cluster; the neighbour's          *)
(* deployment and its fault are one file.                                   *)
Remains ==
  DOMAIN faults \cup DOMAIN pods \cup (IF setup THEN {"noisy-neighbour"} ELSE {})
    \cup (IF fenced THEN {"fence"} ELSE {})

(* SIGKILL, the laptop's lid: no finally statement runs.                    *)
Kill ==
  /\ Running /\ Troubles < MaxTroubles
  /\ runner' = NewRun("off", "", 0)
  /\ litter' = Remains
  /\ used' = [used EXCEPT !.kills = @ + 1]
  /\ UNCHANGED <<loadVars, clusterVars, probe, struck>>

(* "delete them, then rerun"                                                *)
PersonDeletesPods ==
  /\ runner.at = "off" /\ Leftovers # {}
  /\ pods' = <<>> /\ setup' = FALSE
  /\ UNCHANGED <<runner, loadVars, faults, since, fenced, serving, probe, historyVars>>

-----------------------------------------------------------------------------
(* The cluster and the load, as time passes *)

LoadEnd == PhaseEnd("recover") + START_SLACK

Loading == "chaos-load" \in DOMAIN pods /\ pods["chaos-load"] = "running"

Answer(outcome, ttft, total) ==
  [t |-> now, user |-> "load", outcome |-> outcome, ttft |-> ttft, total |-> total]

Quick == Answer("ok", 4, 20)
Slow == Answer("ok", 24, 40)

(* one_request(): the fate of one that starts now, after what happens to    *)
(* the cluster in this unit of time.                                        *)
Fates ==
  CASE ~serving' -> {Answer("error", 0, 1), Answer("hung", 0, 100)}
    [] serving' /\ Flooded -> {Quick, Slow, Answer("aborted", 0, 60)}
    [] serving' /\ ~Flooded /\ On("network-delay")' -> {Slow}
    [] serving' /\ ~Flooded /\ On("noisy-neighbour")' -> {Quick, Slow}
    [] OTHER -> {Quick}

(* run(): the next request, until the load's time is up; a hung one keeps   *)
(* its user until the limit.                                                *)
UserStep ==
  \/ /\ Loading /\ user = Free /\ now < LoadEnd
     /\ \E r \in Fates :
          \/ /\ r.outcome = "hung"
             /\ user' = [from |-> now, until |-> now + HangS] /\ UNCHANGED records
          \/ /\ r.outcome # "hung"
             /\ records' = records \cup {r} /\ UNCHANGED user
  \/ /\ Loading /\ user.until = now + 1
     /\ records' = records \cup {[Answer("hung", 0, 100) EXCEPT !.t = user.from]}
     /\ user' = Free
  \/ /\ ~Loading \/ user.until > now + 1 \/ (user = Free /\ now >= LoadEnd)
     /\ UNCHANGED <<user, records>>

LoadIsOver == now + 1 >= LoadEnd /\ user'.until = 0

(* Pods start, or stay pending.  The flood has its own time too, but starts *)
(* late; here it lasts until it is deleted.                                 *)
PodsStep ==
  \E starts \in SUBSET { p \in DOMAIN pods : pods[p] = "pending" } :
    pods' = [p \in DOMAIN pods |->
      CASE p \in starts -> "running"
        [] p = "chaos-load" /\ Loading /\ LoadIsOver -> "done"
        [] p = "chaos-register" /\ probe.at \in {"answered", "dead"} -> "done"
        [] OTHER -> pods[p]]

(* What Chaos Mesh does with its objects: a fault starts, late or not, and  *)
(* runs out after its duration.                                             *)
FaultsStep ==
  \E starts \in SUBSET { f \in DOMAIN faults : faults[f] = "pending" } :
    /\ faults' = [f \in DOMAIN faults |->
         CASE f \in starts -> "on"
           [] faults[f] = "on" /\ now >= since + FaultS -> "over"
           [] OTHER -> faults[f]]
    /\ since' = IF starts # {} THEN now ELSE since
    /\ struck' = (struck \/ runner.name \in starts \/ Flooded)

(* Kubernetes brings lightserve back unless the node is fenced; the flood   *)
(* may get it killed.                                                       *)
ServingStep ==
  /\ serving' \in IF serving THEN {TRUE, ~Flooded} ELSE {FALSE, ~fenced}
  /\ restarts' = IF serving /\ ~serving' THEN 1 ELSE restarts

(* LightserveDown is pending first, then firing.                            *)
AlertsStep ==
  alerts' = IF serving' THEN alerts
            ELSE alerts \cup {<<now + 1, IF \E a \in alerts : a[1] = now THEN "firing"
                                                                       ELSE "pending">>}

Later(time) == IF time < Horizon THEN time + 1 ELSE time

Tick ==
  /\ Running /\ runner.todo # <<>> /\ Timed(Step) /\ ~Over(Step)
  /\ now' = Later(now)
  /\ runner' = [runner EXCEPT !.waited = Later(@)]
  /\ FaultsStep /\ ServingStep /\ AlertsStep /\ UserStep /\ PodsStep
  /\ probe' = IF probe.at = "sleep" THEN [probe EXCEPT !.at = "search"] ELSE probe
  /\ UNCHANGED <<setup, fenced, litter, used>>

-----------------------------------------------------------------------------
(* The registration probe: register(), its retry, finish_champion()         *)

Probing == "chaos-register" \in DOMAIN pods /\ pods["chaos-register"] = "running"

MLflowUp == ~On("mlflow-down")

(* Faulty variant: "is already" means there is nothing left to do.          *)
NothingLeftToDo == "report"

(* A retry that finds the version finishes its label.                       *)
OnceRegistered == "finish"

ProbeStep ==
  /\ Probing /\ MLflowUp
  /\ \/ /\ probe.at = "search"
        /\ probe' = [probe EXCEPT !.at = IF probe.versions > 0 THEN OnceRegistered
                                                              ELSE "create"]
     \/ /\ probe.at = "create"
        /\ probe' = [probe EXCEPT !.at = "label", !.versions = @ + 1]
     \/ /\ probe.at \in {"label", "finish"}
        /\ probe' = [probe EXCEPT !.at = "report", !.label = TRUE]
     \/ /\ probe.at = "report"
        /\ probe' = [probe EXCEPT !.at = "answered"]
  /\ UNCHANGED <<runner, loadVars, clusterVars, historyVars>>

(* MLflow is down: its client waits, or gives up; the answer to a creation  *)
(* may be what is lost.  The first try's failure is retried after a sleep.  *)
ProbeMeetsOutage ==
  /\ Probing /\ ~MLflowUp
  /\ probe.at \in {"search", "create", "label", "finish", "report"}
  /\ \/ /\ ~probe.waited
        /\ probe' = [probe EXCEPT !.waited = TRUE]
     \/ \E made \in IF probe.at = "create" THEN {0, 1} ELSE {0} :
          probe' = IF probe.try = 1 /\ probe.at # "report"
                   THEN [probe EXCEPT !.at = "sleep", !.try = 2, !.versions = @ + made]
                   ELSE [probe EXCEPT !.at = "dead", !.versions = @ + made]
  /\ UNCHANGED <<runner, loadVars, clusterVars, historyVars>>

-----------------------------------------------------------------------------

ChaosInit ==
  /\ runner = NewRun("off", "", 0)
  /\ now = 0 /\ user = Free /\ records = {} /\ restarts = 0 /\ alerts = {}
  /\ faults = <<>> /\ since = 0 /\ pods = <<>> /\ setup = FALSE /\ fenced = FALSE
  /\ serving = TRUE /\ probe = NoProbe
  /\ struck = FALSE /\ litter = {}
  /\ used = [experiments |-> 0, failures |-> 0, kills |-> 0]

RunnerNext ==
  \/ Command \/ CommandFails \/ StageEnds \/ Crash \/ JudgeExperiment

ChaosNext ==
  \/ StartRun \/ EndRun \/ (\E name \in Experiments : BeginExperiment(name))
  \/ RunnerNext \/ Kill \/ PersonDeletesPods
  \/ Tick \/ ProbeStep \/ ProbeMeetsOutage

(* The runner goes on while it can, and time passes while it waits.         *)
ChaosSpec ==
  ChaosInit /\ [][ChaosNext]_chaosVars /\ WF_chaosVars(RunnerNext) /\ WF_chaosVars(Tick)

-----------------------------------------------------------------------------
(* Properties *)

(* "The runner's own pods and every fault object, whether the experiment    *)
(* finished or crashed", "never leave the node fenced off": with at most    *)
(* one failed command in all, whichever it is, nothing of an experiment is  *)
(* left behind except by a kill.                                            *)
OneFailureLeavesNothing ==
  runner.at # "running" /\ used.failures <= 1 => Remains \subseteq litter

(* The normal and the recovery phase are what the fault phase is compared   *)
(* with: while the runner sleeps through them no fault of its own is on.    *)
FaultOnlyInItsPhase ==
  Running /\ runner.todo # <<>> /\ Step \in {<<"sleep", "normal">>, <<"sleep", "recover">>} =>
    /\ \A f \in DOMAIN faults \ litter : faults[f] # "on"
    /\ Flooded => "chaos-flood" \in litter
    /\ fenced => "fence" \in litter

(* A hung request's record comes last of all, and is what fails a judgement:*)
(* the load's logs are read when every request has its record.              *)
EveryRequestIsRecorded ==
  Running /\ runner.todo # <<>> /\ Step = <<"logs", "chaos-load">> =>
    pods["chaos-load"] = "done"

(* No false positive: an experiment that passes had its fault, and has left *)
(* the platform healthy (MLflow's does not look at lightserve).             *)
PassIsHonest ==
  runner.verdict.pass /\ used.kills = 0 =>
    /\ struck /\ ~fenced /\ \A f \in DOMAIN faults : faults[f] # "on"
    /\ runner.name # "mlflow-down" => serving

(* A rerun is never disturbed by an earlier run's pods, when kubectl        *)
(* answers the check for them.                                              *)
OnlyItsOwnPods ==
  Running /\ used.failures = 0 => DOMAIN pods \subseteq runner.started

(* What the judge compares is complete, from this experiment, and undisturbed *)
(* in the phases without a fault.                                           *)
EvidenceIsSound == FaultOnlyInItsPhase /\ EveryRequestIsRecorded /\ OnlyItsOwnPods

(* A registration that met the outage anywhere ends as one version with the *)
(* champion label, or does not answer.                                      *)
ProbeLeavesOneChampion ==
  /\ probe.versions <= 1
  /\ probe.at = "answered" => probe.versions = 1 /\ probe.label

(* "kind's probe failed after 18 s and was waited on for 10 min": every     *)
(* experiment ends, whatever its pods do.                                   *)
EveryExperimentEnds == Running ~> ~Running
=============================================================================
