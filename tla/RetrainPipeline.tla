-------------------------- MODULE RetrainPipeline --------------------------
(***************************************************************************)
(* The retraining pipeline: mlops/dags/drift_retrain.py over               *)
(* mlops/retrain.py, the registry of training/qlora_financial/registry.py  *)
(* and the canary.  A run fine-tunes a candidate, loads it into the        *)
(* running vLLM, scores it, and lets the gate decide; a deployed candidate *)
(* is watched and becomes the champion or is rolled back.                  *)
(*                                                                         *)
(* A task is a sequence of steps, each with one effect outside the task;   *)
(* at[r] is the task and the step run r is at.  A try can fail before any  *)
(* step (a refused call, a timeout, a lost worker) and the scheduler then  *)
(* starts the task again from its first step, once (retries=1).  Faults    *)
(* names the tasks that are tried with failures.                           *)
(***************************************************************************)
EXTENDS Canary, FineTuneData

CONSTANTS
  Outcomes,             \* the saved answers that a scoring may end with
  Pool,                 \* the rows of the base model's training data, by kind
  Windows,              \* the query windows there may be, by kind
  NLike,                \* MLOPS_N_LIKE
  Faults,               \* the tasks a try of which may fail
  ConcurrentRuns        \* whether a run may start before the last one has ended

Tasks == {"build_data", "finetune", "load", "score", "gate", "deploy", "watch", "register",
          "rollback", "reject"}

ASSUME PipelineAssumption ==
  /\ Outcomes \subseteq SavedAnswers
  /\ Windows \subseteq [DOMAIN Pool -> Nat] /\ NLike \in Nat
  /\ Faults \subseteq Tasks
  /\ ConcurrentRuns \in BOOLEAN

VARIABLES
  at,                   \* <<task, step>> of each run
  tries,                \* failed tries of the task it is at
  versions,             \* the registry: name -> its status, and whose data the
                        \* pipeline draws from when it is the champion
  champion,             \* the registry's alias
  rounds,               \* watch()'s rounds
  reading,              \* watch(): the gauges its first queries saw, or <<>>
  openJobs,             \* gpu_jobs.jsonl: the jobs with a start and no end
  alerted,              \* the runs whose roll back Alertmanager knows of
  before,               \* history: the current model when the run was deployed;
                        \* the run itself before that
  restarted             \* history: vLLM was restarted without its adapters

runVars == <<at, tries, before>>
registryVars == <<versions, champion>>
watchVars == <<rounds, reading>>
pipelineVars == <<runVars, registryVars, watchVars, openJobs, alerted, restarted>>

allVars == <<pointer, adapters, samples, canaryVars, pipelineVars>>

-----------------------------------------------------------------------------
(* The pointer *)

(* champion_info(): the registry's champion, its saved answers, and the data *)
(* that a run draws from and compares the traffic with.                     *)
ChampionInfo ==
  [name |-> champion, samples |-> samples[champion], pool |-> versions[champion].pool]

(* read_current() with the champion as the default.                         *)
CurrentModel == IF pointer = <<>> THEN ChampionInfo.name ELSE pointer.model

(* set_current(): one rename, so there is no half-written pointer.          *)
SetCurrent(m) == pointer' = [model |-> m, previous |-> CurrentModel]

-----------------------------------------------------------------------------
(* vLLM *)

IsLoaded(name) == name \in adapters

(* load_adapter(): already loaded means nothing to do.                      *)
LoadAdapter(name) == adapters' = adapters \cup {name}

(* unload_adapter(), which vLLM refuses for a name it does not know.        *)
UnloadAdapter(name) == IsLoaded(name) /\ adapters' = adapters \ {name}

-----------------------------------------------------------------------------
(* Running tasks *)

At(r, task, step) == at[r] = <<task, step>>

GoTo(r, task) ==
  /\ at' = [at EXCEPT ![r] = <<task, 0>>]
  /\ tries' = [tries EXCEPT ![r] = 0]

Advance(r) ==
  /\ at' = [at EXCEPT ![r] = <<@[1], @[2] + 1>>]
  /\ UNCHANGED tries

Active(r) == at[r][1] \in Tasks

(* gpu_job(): a start line in the ledger, and in its finally the end line.  *)
OpenJob(r, task) == openJobs' = openJobs \cup {<<r, task>>}

CloseJob(r) == openJobs' = { j \in openJobs : j[1] # r }

(* The exception leaves the task: one more try, or the run has failed.      *)
Fail(r) ==
  /\ IF tries[r] = 0
     THEN /\ at' = [at EXCEPT ![r] = <<@[1], 0>>]
          /\ tries' = [tries EXCEPT ![r] = 1]
     ELSE /\ at' = [at EXCEPT ![r] = <<"failed", 0>>]
          /\ UNCHANGED tries
  /\ CloseJob(r)
  /\ UNCHANGED <<pointer, adapters, samples, canaryVars, before, registryVars,
                 watchVars, alerted, restarted>>

(* vLLM refuses: a model that is not there can be neither asked, pointed at *)
(* nor unloaded.                                                            *)
Refused(r) ==
  /\ \E task \in {"score", "deploy", "reject"} :
       at[r][1] = task /\ at[r][2] = (IF task = "score" THEN 1 ELSE 0)
  /\ ~IsLoaded(r)

(* gate() refuses: the champion has no saved answer to some of the questions.*)
NoDecision(r) == At(r, "gate", 0) /\ ~Comparable(samples[r], ChampionInfo.samples)

TryFails(r) == Active(r) /\ (at[r][1] \in Faults \/ Refused(r) \/ NoDecision(r)) /\ Fail(r)

(* The drift sensor is on.                                                  *)
StartRun(r) ==
  /\ At(r, "idle", 0)
  /\ ConcurrentRuns \/ \A s \in Runs : ~Active(s)
  /\ GoTo(r, "build_data")
  /\ UNCHANGED <<pointer, adapters, samples, canaryVars, before, registryVars,
                 watchVars, openJobs, alerted, restarted>>

(* build_data(), which refuses when fewer rows than it wants are left to be *)
(* replayed.                                                                *)
BuildData(r) ==
  /\ At(r, "build_data", 0)
  /\ \E window \in Windows : \E like \in SelectLike(Pool, window, NLike) :
       IF Replays(Pool, like) # {}
       THEN /\ GoTo(r, "finetune")
            /\ UNCHANGED <<pointer, adapters, samples, canaryVars, before, registryVars,
                           watchVars, openJobs, alerted, restarted>>
       ELSE Fail(r)

(* with gpu_job(...): the start line, and the end line of a try that worked.*)
StartJob(r) ==
  /\ \E task \in {"finetune", "score"} : At(r, task, 0) /\ OpenJob(r, task)
  /\ Advance(r)
  /\ UNCHANGED <<pointer, adapters, samples, canaryVars, before, registryVars,
                 watchVars, alerted, restarted>>

EndJob(r) ==
  /\ \/ /\ At(r, "finetune", 1) /\ GoTo(r, "load")
        /\ UNCHANGED samples
     \/ /\ At(r, "score", 1) /\ IsLoaded(r) /\ GoTo(r, "gate")
        /\ \E answers \in Outcomes : samples' = Put(samples, r, answers)
  /\ openJobs' = openJobs \ {<<r, at[r][1]>>}
  /\ UNCHANGED <<pointer, adapters, canaryVars, before, registryVars, watchVars,
                 alerted, restarted>>

LoadCandidate(r) ==
  /\ \/ /\ At(r, "load", 0)
        /\ LoadAdapter(r)
        /\ Advance(r)
     \/ /\ At(r, "load", 1)
        /\ GoTo(r, "score")
        /\ UNCHANGED adapters
  /\ UNCHANGED <<pointer, samples, canaryVars, before, registryVars, watchVars,
                 openJobs, alerted, restarted>>

(* The gate, against whoever is the champion now.                           *)
Gate(r) ==
  /\ At(r, "gate", 0) /\ Comparable(samples[r], ChampionInfo.samples)
  /\ GoTo(r, IF Passes(samples[r], ChampionInfo.samples) THEN "deploy" ELSE "reject")
  /\ UNCHANGED <<pointer, adapters, samples, canaryVars, before, registryVars,
                 watchVars, openJobs, alerted, restarted>>

Reject(r) ==
  /\ \/ /\ At(r, "reject", 0)
        /\ UnloadAdapter(r)
        /\ Advance(r)
     \/ /\ At(r, "reject", 1)
        /\ GoTo(r, "rejected")
        /\ UNCHANGED adapters
  /\ UNCHANGED <<pointer, samples, canaryVars, before, registryVars, watchVars,
                 openJobs, alerted, restarted>>

(* deploy(): the pointer moves only to a model that is still loaded.        *)
Deploy(r) ==
  /\ \/ /\ At(r, "deploy", 0) /\ IsLoaded(r)
        /\ SetCurrent(r)
        /\ before' = [before EXCEPT ![r] = IF @ = r THEN CurrentModel ELSE @]
        /\ Advance(r)
     \/ /\ At(r, "deploy", 1)
        /\ GoTo(r, "watch")
        /\ UNCHANGED <<pointer, before>>
  /\ UNCHANGED <<adapters, samples, canaryVars, registryVars, watchVars, openJobs,
                 alerted, restarted>>

-----------------------------------------------------------------------------
(* watch(): a try starts with no rounds.                                    *)

StartWatch(r) ==
  /\ At(r, "watch", 0)
  /\ rounds' = [rounds EXCEPT ![r] = <<>>]
  /\ reading' = [reading EXCEPT ![r] = <<>>]
  /\ Advance(r)
  /\ UNCHANGED <<pointer, adapters, samples, canaryVars, before, registryVars, openJobs,
                 alerted, restarted>>

QueryScore(r) ==
  /\ At(r, "watch", 1) /\ reading[r] = <<>>
  /\ reading' = [reading EXCEPT ![r] = scraped]
  /\ UNCHANGED <<pointer, adapters, samples, canaryVars, runVars, registryVars, rounds,
                 openJobs, alerted, restarted>>

QueryStamp(r) ==
  /\ At(r, "watch", 1) /\ reading[r] # <<>>
  /\ rounds' = [rounds EXCEPT ![r] =
       AddRound(@, SwitchedAt(reading[r], r), reading[r].accuracy, scraped.last)]
  /\ reading' = [reading EXCEPT ![r] = <<>>]
  /\ Advance(r)
  /\ UNCHANGED <<pointer, adapters, samples, canaryVars, before, registryVars, openJobs,
                 alerted, restarted>>

Judge(r) ==
  /\ At(r, "watch", 2)
  /\ \E stale, over \in BOOLEAN :
       \/ /\ Verdict(rounds[r], stale, over) = "pass" /\ GoTo(r, "register")
          /\ rounds' = [rounds EXCEPT ![r] = <<>>]
       \/ /\ Verdict(rounds[r], stale, over) = "rollback" /\ GoTo(r, "rollback")
          /\ rounds' = [rounds EXCEPT ![r] = <<>>]
       \/ /\ Verdict(rounds[r], stale, over) = "wait"
          /\ at' = [at EXCEPT ![r] = <<"watch", 1>>] /\ UNCHANGED <<tries, rounds>>
  /\ UNCHANGED <<pointer, adapters, samples, canaryVars, before, registryVars, reading,
                 openJobs, alerted, restarted>>

-----------------------------------------------------------------------------
(* The registry *)

(* register(): a name that is registered already is refused, which          *)
(* register_once() takes for the work of an earlier try.  pool_data_dir     *)
(* goes from champion to champion.                                          *)
Register(name, status) ==
  versions' = IF name \in DOMAIN versions THEN versions
              ELSE Put(versions, name, [status |-> status, pool |-> ChampionInfo.pool])

(* Faulty variant: a retry finds the version there and leaves it at that.   *)
SetAliasOnFirstTry(name) == champion' = IF tries[name] = 0 THEN name ELSE champion

(* The end of register(), and finish_champion() when a retry finds the      *)
(* version already there.                                                   *)
SetAlias(name) == champion' = name

(* register_champion(): the version, the alias, then the old adapter.       *)
RegisterChampion(r) ==
  /\ \/ /\ At(r, "register", 0)
        /\ Register(r, "candidate") /\ Advance(r)
        /\ UNCHANGED <<champion, adapters>>
     \/ /\ At(r, "register", 1)
        /\ SetAlias(r) /\ Advance(r)
        /\ UNCHANGED <<versions, adapters>>
     \/ /\ At(r, "register", 2)
        /\ IF pointer.previous # r /\ IsLoaded(pointer.previous)
           THEN UnloadAdapter(pointer.previous) ELSE UNCHANGED adapters
        /\ Advance(r)
        /\ UNCHANGED registryVars
     \/ /\ At(r, "register", 3)
        /\ GoTo(r, "accepted")
        /\ UNCHANGED <<registryVars, adapters>>
  /\ UNCHANGED <<pointer, samples, canaryVars, before, watchVars, openJobs, alerted,
                 restarted>>

(* Faulty variant: every try of a roll back switches the pointer.           *)
SwitchBackAlways(r) == SetCurrent(pointer.previous)

(* "a retry after the switch must not switch back to it".                   *)
SwitchBack(r) ==
  IF CurrentModel = r THEN SetCurrent(pointer.previous) ELSE UNCHANGED pointer

Rollback(r) ==
  /\ \/ /\ At(r, "rollback", 0)
        /\ SwitchBack(r) /\ Advance(r)
        /\ UNCHANGED <<adapters, versions, alerted>>
     \/ /\ At(r, "rollback", 1)
        /\ IF IsLoaded(r) THEN UnloadAdapter(r) ELSE UNCHANGED adapters
        /\ Advance(r)
        /\ UNCHANGED <<pointer, versions, alerted>>
     \/ /\ At(r, "rollback", 2)
        /\ Register(r, "rejected") /\ Advance(r)
        /\ UNCHANGED <<pointer, adapters, alerted>>
     \/ /\ At(r, "rollback", 3)
        /\ alerted' = alerted \cup {r}
        /\ Advance(r)
        /\ UNCHANGED <<pointer, adapters, versions>>
     \/ /\ At(r, "rollback", 4)
        /\ GoTo(r, "rolled back")
        /\ UNCHANGED <<pointer, adapters, versions, alerted>>
  /\ UNCHANGED <<samples, canaryVars, champion, before, watchVars, openJobs, restarted>>

(* The server comes back with what its command line loads.                  *)
RestartVllm ==
  /\ ~restarted /\ restarted' = TRUE
  /\ adapters' = {Base}
  /\ UNCHANGED <<pointer, samples, canaryVars, runVars, registryVars, watchVars,
                 openJobs, alerted>>

-----------------------------------------------------------------------------

PipelineInit ==
  /\ CanaryInit
  /\ at = [r \in Runs |-> <<"idle", 0>>]
  /\ tries = [r \in Runs |-> 0]
  /\ before = [r \in Runs |-> r]
  /\ versions = [m \in {Base} |-> [status |-> "candidate", pool |-> Base]] /\ champion = Base
  /\ rounds = [r \in Runs |-> <<>>] /\ reading = [r \in Runs |-> <<>>]
  /\ openJobs = {} /\ alerted = {} /\ restarted = FALSE

CanaryActs ==
  /\ \/ CanaryStep
     \/ Scrape /\ (TornReadings \/ \A r \in Runs : reading[r] = <<>>)
  /\ UNCHANGED pipelineVars

RunActs(r) ==
  \/ StartRun(r) \/ BuildData(r) \/ StartJob(r) \/ EndJob(r) \/ LoadCandidate(r) \/ Gate(r)
  \/ Reject(r) \/ Deploy(r)
  \/ StartWatch(r) \/ QueryScore(r) \/ QueryStamp(r) \/ Judge(r)
  \/ RegisterChampion(r) \/ Rollback(r)
  \/ TryFails(r)

PipelineNext == CanaryActs \/ RestartVllm \/ \E r \in Runs : RunActs(r)

PipelineSpec == PipelineInit /\ [][PipelineNext]_allVars

-----------------------------------------------------------------------------
(* Properties *)

(* "if name not in loaded: raise": whoever reads the pointer is sent to a   *)
(* model the server answers to, whatever was retried or given up half way,  *)
(* as long as the server itself kept its adapters.                          *)
PointerIsLoaded == ~restarted => CurrentModel \in adapters

(* add_round(): every round the watch counts was a scored round of the new  *)
(* model, with its own score, and none is counted twice.                    *)
WatchCountsOwnRounds ==
  \A r \in Runs : \A i \in DOMAIN rounds[r] :
    LET e == rounds[r][i] IN
    /\ log[e.round].model = r /\ e.round = e.at
    /\ \A j \in DOMAIN rounds[r] : rounds[r][j].round = e.round => i = j

(* No model becomes the champion unwatched: the canary scored it at least   *)
(* twice since it was deployed, and it was not one that was rolled back.    *)
ChampionWasWatched ==
  champion \in Runs =>
    /\ Cardinality({ k \in DOMAIN log : log[k].model = champion }) >= 2
    /\ versions[champion].status = "candidate" /\ champion \notin alerted

(* "its pool stays the full data": a later run never draws from what an     *)
(* earlier one was fine-tuned on.                                           *)
PoolIsKept == \A name \in DOMAIN versions : versions[name].pool = Base

(* The gate's decision is some tasks and retries old when the pointer       *)
(* moves; still whoever is made the current model, and is not the champion, *)
(* is better than the champion of that moment, not by luck and in no source *)
(* much worse; and only a watched one takes its place.                      *)
ChampionIsEarned ==
  /\ [](ChampionWasWatched /\ PoolIsKept)
  /\ [][pointer' # pointer /\ CurrentModel' # champion
         => Passes(samples[CurrentModel'], samples[champion])]_allVars

(* gpu_job() closes the record of a failed try too: an open job, which the  *)
(* cost page counts up to now, belongs to a task that is running.           *)
JobsEndWithTheirTask == \A j \in openJobs : At(j[1], j[2], 1)

Ending(r, how) == Active(r) /\ at'[r][1] = how

(* "The last boxes are safe to retry: each step checks whether it already   *)
(* happened": however the tries failed, a roll back that ends has put back  *)
(* the model before, unloaded and recorded the candidate and told the       *)
(* alert manager.                                                           *)
RollsBackCompletely ==
  [][\A r \in Runs : Ending(r, "rolled back") =>
       /\ CurrentModel = before[r] /\ champion # r
       /\ r \notin adapters /\ r \in alerted
       /\ versions[r].status = "rejected"]_allVars

(* The same for the other two ends: an accepted candidate is the current    *)
(* model and the champion, and the model before is gone; a rejected one     *)
(* leaves no trace.                                                         *)
SettlesCompletely ==
  [][\A r \in Runs :
       /\ Ending(r, "accepted") =>
            /\ CurrentModel = r /\ champion = r /\ versions[r].status = "candidate"
            /\ before[r] \notin adapters \/ restarted
       /\ Ending(r, "rejected") =>
            /\ CurrentModel # r /\ champion # r /\ r \notin DOMAIN versions
            /\ r \notin adapters]_allVars

(* Whatever was retried, an end of a run leaves everything settled, and no  *)
(* record of a task open.                                                   *)
EndsCompletely ==
  RollsBackCompletely /\ SettlesCompletely /\ []JobsEndWithTheirTask
=============================================================================
