--------------------------- MODULE RetrainProofs ---------------------------
(***************************************************************************)
(* What RetrainPipeline promises, for any number of runs of the DAG, any   *)
(* questions, answers and traffic, any number of canary rounds, and any    *)
(* tasks that fail and are tried again, unless a theorem says otherwise.   *)
(***************************************************************************)
EXTENDS RetrainPipeline, FiniteSetTheorems, SequenceTheorems, TLAPS

-----------------------------------------------------------------------------
(* What every variable may hold *)

Names == Runs \cup {Base}

Ends == {"idle", "failed", "rejected", "accepted", "rolled back"}

Places == (Tasks \cup Ends) \X Nat

Task(r) == at[r][1]

PlacesType == at \in [Runs -> Places] /\ tries \in [Runs -> {0, 1}]

PointerType == pointer = <<>> \/ pointer \in [model : Names, previous : Names]

Versions == [status : {"candidate", "rejected"}, pool : {Base}]

RegistryType ==
  /\ DOMAIN versions \subseteq Names /\ versions \in [DOMAIN versions -> Versions]
  /\ champion \in DOMAIN versions
  /\ alerted \subseteq Runs

Gauges == [model : Names, since : Nat, accuracy : Nat, last : Nat]

LogEntries == [model : Names, low : BOOLEAN]

CanaryType ==
  /\ log \in Seq(LogEntries) /\ asks \in Names
  /\ canary \in {"sleep", "asking", "scored", "dead"}
  /\ gauges \in Gauges /\ scraped \in Gauges

(* A run that is past its deployment has moved the pointer, and one that is *)
(* about to name the champion has registered it.                            *)
Deployed(r) ==
  /\ At(r, "deploy", 1) \/ Task(r) \in {"watch", "register", "rollback"} => pointer # <<>>
  /\ Task(r) = "register" /\ at[r][2] # 0 => r \in DOMAIN versions

TypeInv ==
  /\ PlacesType /\ before \in [Runs -> Names]
  /\ PointerType /\ adapters \subseteq Names
  /\ RegistryType /\ CanaryType
  /\ \A r \in Runs : Deployed(r)

LEMMA NotEmpty ==
  /\ \A p \in [model : Names, previous : Names] : p # <<>>
  /\ \A g \in Gauges : g # <<>>
<1>1. DOMAIN <<>> = {}
  OBVIOUS
<1>2. ASSUME NEW p \in [model : Names, previous : Names] PROVE "model" \in DOMAIN p
  OBVIOUS
<1>3. ASSUME NEW g \in Gauges PROVE "model" \in DOMAIN g
  BY DEF Gauges
<1>4. QED
  BY <1>1, <1>2, <1>3

LEMMA PlaceShape ==
  ASSUME PlacesType, NEW r \in Runs
  PROVE  at[r] = <<Task(r), at[r][2]>> /\ at[r] \in Places /\ at[r][2] \in Nat
         /\ Task(r) \in Tasks \cup Ends
<1>1. at[r] \in Places
  BY DEF PlacesType
<1>2. QED
  BY <1>1 DEF Places, Task

LEMMA AtTask ==
  ASSUME NEW r, NEW task, NEW step, At(r, task, step)
  PROVE  Task(r) = task /\ at[r][2] = step
BY DEF At, Task

(* Where the moves of a run lead.                                           *)
Moves(r, task, step) ==
  /\ at'[r] = <<task, step>> /\ at'[r][1] = task /\ at'[r][2] = step
  /\ \A s \in Runs \ {r} : at'[s] = at[s]

LEMMA GoToMoves ==
  ASSUME PlacesType, NEW r \in Runs, NEW task, GoTo(r, task), <<task, 0>> \in Places
  PROVE  PlacesType' /\ Moves(r, task, 0)
BY DEF PlacesType, GoTo, Moves

LEMMA AdvanceMoves ==
  ASSUME PlacesType, NEW r \in Runs, Advance(r)
  PROVE  PlacesType' /\ Moves(r, Task(r), at[r][2] + 1)
<1>1. PICK t \in Tasks \cup Ends, n \in Nat : at[r] = <<t, n>> /\ <<t, n + 1>> \in Places
  BY PlaceShape DEF Places
<1>2. QED
  BY <1>1 DEF PlacesType, Advance, Moves, Task

LEMMA FailMoves ==
  ASSUME PlacesType, NEW r \in Runs, Fail(r)
  PROVE  PlacesType' /\ \E task \in {Task(r), "failed"} : Moves(r, task, 0)
<1>1. PICK t \in Tasks \cup Ends, n \in Nat : at[r] = <<t, n>> /\ <<t, 0>> \in Places
  BY PlaceShape DEF Places
<1>2. <<"failed", 0>> \in Places
  BY DEF Places, Ends
<1>3. CASE tries[r] = 0
  BY <1>1, <1>2, <1>3 DEF PlacesType, Fail, Moves, Task
<1>4. CASE tries[r] # 0
  BY <1>1, <1>2, <1>4 DEF PlacesType, Fail, Moves, Task
<1>5. QED
  BY <1>3, <1>4

LEMMA TasksArePlaces ==
  \A task \in Tasks \cup Ends : <<task, 0>> \in Places
BY DEF Places

-----------------------------------------------------------------------------
(* The steps of a run *)

(* Nothing changes that another run or a reader of the pointer may see.     *)
Kept == UNCHANGED <<pointer, adapters, samples, before, registryVars, alerted, restarted>>

Preparing == {"build_data", "finetune", "load", "score"}

Starts(r) ==
  /\ Task(r) = "idle" /\ (ConcurrentRuns \/ \A s \in Runs : ~Active(s))
  /\ Moves(r, "build_data", 0)

Prepares(r) == Task(r) \in Preparing /\ \E task \in Preparing, n \in Nat : Moves(r, task, n)

Decides(r) ==
  /\ Task(r) = "gate"
  /\ \/ Moves(r, "deploy", 0) /\ Passes(samples[r], samples[champion])
     \/ Moves(r, "reject", 0)

(* A task is done, and with it the run or what it may undo.                 *)
Leaves(r) ==
  \/ At(r, "reject", 1) /\ Moves(r, "rejected", 0)
  \/ At(r, "deploy", 1) /\ Moves(r, "watch", 0)
  \/ At(r, "register", 3) /\ Moves(r, "accepted", 0)
  \/ At(r, "rollback", 4) /\ Moves(r, "rolled back", 0)

Watches(r) ==
  /\ Task(r) = "watch"
  /\ \/ \E n \in Nat : Moves(r, "watch", n)
     \/ Moves(r, "register", 0) /\ ~(Len(rounds[r]) < 2)
     \/ Moves(r, "rollback", 0)

(* deploy() fails after it moved the pointer only if it is one of Faults.   *)
GivesUp(r) ==
  /\ Active(r)
  /\ Task(r) = "deploy" => at[r][2] = 0 \/ "deploy" \in Faults
  /\ \E task \in {Task(r), "failed"} : Moves(r, task, 0)

Quiet(r) ==
  Kept /\ (Starts(r) \/ Prepares(r) \/ Decides(r) \/ Leaves(r) \/ Watches(r) \/ GivesUp(r))

Scores(r) ==
  /\ At(r, "score", 1) /\ Moves(r, "gate", 0)
  /\ \E answers : samples' = Put(samples, r, answers)
  /\ UNCHANGED <<pointer, adapters, before, registryVars, alerted, restarted>>

(* The steps that load or unload an adapter, and no more.                   *)
Loads(r) ==
  /\ \/ At(r, "load", 0) /\ Moves(r, "load", 1) /\ adapters' = adapters \cup {r}
     \/ At(r, "reject", 0) /\ Moves(r, "reject", 1) /\ adapters' = adapters \ {r}
     \/ /\ At(r, "register", 2) /\ Moves(r, "register", 3)
        /\ adapters' = IF pointer.previous # r THEN adapters \ {pointer.previous} ELSE adapters
     \/ At(r, "rollback", 1) /\ Moves(r, "rollback", 2) /\ adapters' = adapters \ {r}
  /\ UNCHANGED <<pointer, samples, before, registryVars, alerted, restarted>>

Deploys(r) ==
  /\ At(r, "deploy", 0) /\ r \in adapters /\ Moves(r, "deploy", 1)
  /\ SetCurrent(r)
  /\ before' = [before EXCEPT ![r] = IF @ = r THEN CurrentModel ELSE @]
  /\ UNCHANGED <<adapters, samples, registryVars, alerted, restarted>>

Returns(r) ==
  /\ At(r, "rollback", 0) /\ Moves(r, "rollback", 1) /\ SwitchBack(r)
  /\ UNCHANGED <<adapters, samples, before, registryVars, alerted, restarted>>

Records(r) ==
  /\ \/ At(r, "register", 0) /\ Moves(r, "register", 1) /\ Register(r, "candidate")
     \/ At(r, "rollback", 2) /\ Moves(r, "rollback", 3) /\ Register(r, "rejected")
  /\ UNCHANGED <<pointer, adapters, samples, before, champion, alerted, restarted>>

Crowns(r) ==
  /\ At(r, "register", 1) /\ Moves(r, "register", 2) /\ champion' = r
  /\ UNCHANGED <<pointer, adapters, samples, before, versions, alerted, restarted>>

Warns(r) ==
  /\ At(r, "rollback", 3) /\ Moves(r, "rollback", 4) /\ alerted' = alerted \cup {r}
  /\ UNCHANGED <<pointer, adapters, samples, before, registryVars, restarted>>

RunStep(r) ==
  \/ Quiet(r) \/ Scores(r) \/ Loads(r) \/ Deploys(r) \/ Returns(r) \/ Records(r) \/ Crowns(r)
  \/ Warns(r)

(* What the code of a run does is one of these, and the canary's is not     *)
(* among them.                                                              *)
LEMMA RunsStep ==
  ASSUME PlacesType, NEW r \in Runs, RunActs(r)
  PROVE  PlacesType' /\ RunStep(r) /\ UNCHANGED canaryVars
<1> USE PlaceShape
<1>1. CASE StartRun(r)
  <2>1. GoTo(r, "build_data") /\ Task(r) = "idle"
    BY <1>1 DEF StartRun, At, Task
  <2>2. PlacesType' /\ Moves(r, "build_data", 0)
    BY <2>1, GoToMoves, TasksArePlaces DEF Tasks
  <2>3. Kept /\ UNCHANGED canaryVars /\ (ConcurrentRuns \/ \A s \in Runs : ~Active(s))
    BY <1>1 DEF StartRun, Kept
  <2>4. QED
    BY <2>1, <2>2, <2>3 DEF Starts, Quiet, RunStep
<1>2. ASSUME Fail(r), Active(r), Task(r) = "deploy" => at[r][2] = 0 \/ "deploy" \in Faults
      PROVE  PlacesType' /\ RunStep(r) /\ UNCHANGED canaryVars
  <2>1. PlacesType' /\ \E task \in {Task(r), "failed"} : Moves(r, task, 0)
    BY <1>2, FailMoves
  <2>2. Kept /\ UNCHANGED canaryVars
    BY <1>2 DEF Fail, Kept, runVars, registryVars
  <2>3. QED
    BY <1>2, <2>1, <2>2 DEF GivesUp, Quiet, RunStep
<1>3. CASE BuildData(r)
  <2>1. Task(r) = "build_data" /\ Active(r)
    BY <1>3 DEF BuildData, At, Task, Active, Tasks
  <2>2. CASE Fail(r)
    BY <1>2, <2>1, <2>2
  <2>3. CASE ~Fail(r)
    <3>1. GoTo(r, "finetune") /\ Kept /\ UNCHANGED canaryVars
      BY <1>3, <2>3 DEF BuildData, Kept
    <3>2. PlacesType' /\ Moves(r, "finetune", 0)
      BY <3>1, GoToMoves, TasksArePlaces DEF Tasks
    <3>3. QED
      BY <2>1, <3>1, <3>2 DEF Prepares, Preparing, Quiet, RunStep
  <2>4. QED
    BY <2>2, <2>3
<1>4. CASE StartJob(r)
  <2>1. Advance(r) /\ Task(r) \in {"finetune", "score"} /\ Kept /\ UNCHANGED canaryVars
    BY <1>4 DEF StartJob, At, Task, Kept
  <2>2. PlacesType' /\ Moves(r, Task(r), at[r][2] + 1) /\ at[r][2] + 1 \in Nat
    BY <2>1, AdvanceMoves
  <2>3. QED
    BY <2>1, <2>2 DEF Prepares, Preparing, Quiet, RunStep
<1>5. CASE EndJob(r)
  <2>1. CASE At(r, "finetune", 1) /\ GoTo(r, "load") /\ UNCHANGED samples
    <3>0. Task(r) = "finetune"
      BY <2>1 DEF At, Task
    <3>1. PlacesType' /\ Moves(r, "load", 0)
      BY <2>1, GoToMoves, TasksArePlaces DEF Tasks
    <3>2. Kept /\ UNCHANGED canaryVars
      BY <1>5, <2>1 DEF EndJob, Kept
    <3>3. QED
      BY <3>0, <3>1, <3>2 DEF Prepares, Preparing, Quiet, RunStep
  <2>2. CASE /\ At(r, "score", 1) /\ GoTo(r, "gate")
             /\ \E answers \in Outcomes : samples' = Put(samples, r, answers)
    <3>1. PlacesType' /\ Moves(r, "gate", 0)
      BY <2>2, GoToMoves, TasksArePlaces DEF Tasks
    <3>2. UNCHANGED <<pointer, adapters, before, registryVars, alerted, restarted, canaryVars>>
      BY <1>5 DEF EndJob
    <3>3. QED
      BY <2>2, <3>1, <3>2 DEF Scores, RunStep
  <2>3. QED
    BY <1>5, <2>1, <2>2 DEF EndJob
<1>6. CASE LoadCandidate(r)
  <2>1. CASE At(r, "load", 0) /\ LoadAdapter(r) /\ Advance(r)
    <3>1. PlacesType' /\ Moves(r, "load", 1)
      BY <2>1, AdvanceMoves DEF At, Task
    <3>2. UNCHANGED <<pointer, samples, before, registryVars, alerted, restarted, canaryVars>>
      BY <1>6 DEF LoadCandidate
    <3>3. QED
      BY <2>1, <3>1, <3>2 DEF LoadAdapter, Loads, RunStep
  <2>2. CASE At(r, "load", 1) /\ GoTo(r, "score") /\ UNCHANGED adapters
    <3>0. Task(r) = "load"
      BY <2>2 DEF At, Task
    <3>1. PlacesType' /\ Moves(r, "score", 0)
      BY <2>2, GoToMoves, TasksArePlaces DEF Tasks
    <3>2. Kept /\ UNCHANGED canaryVars
      BY <1>6, <2>2 DEF LoadCandidate, Kept
    <3>3. QED
      BY <3>0, <3>1, <3>2 DEF Prepares, Preparing, Quiet, RunStep
  <2>3. QED
    BY <1>6, <2>1, <2>2 DEF LoadCandidate
<1>7. CASE Gate(r)
  <2>1. Task(r) = "gate" /\ Kept /\ UNCHANGED canaryVars
    BY <1>7 DEF Gate, At, Task, Kept
  <2>2. CASE Passes(samples[r], samples[champion])
    <3>1. GoTo(r, "deploy")
      BY <1>7, <2>2 DEF Gate, ChampionInfo
    <3>2. PlacesType' /\ Moves(r, "deploy", 0)
      BY <3>1, GoToMoves, TasksArePlaces DEF Tasks
    <3>3. QED
      BY <2>1, <2>2, <3>2 DEF Decides, Quiet, RunStep
  <2>3. CASE ~Passes(samples[r], samples[champion])
    <3>1. GoTo(r, "reject")
      BY <1>7, <2>3 DEF Gate, ChampionInfo
    <3>2. PlacesType' /\ Moves(r, "reject", 0)
      BY <3>1, GoToMoves, TasksArePlaces DEF Tasks
    <3>3. QED
      BY <2>1, <3>2 DEF Decides, Quiet, RunStep
  <2>4. QED
    BY <2>2, <2>3
<1>8. CASE Reject(r)
  <2>1. CASE At(r, "reject", 0) /\ UnloadAdapter(r) /\ Advance(r)
    <3>1. PlacesType' /\ Moves(r, "reject", 1)
      BY <2>1, AdvanceMoves DEF At, Task
    <3>2. UNCHANGED <<pointer, samples, before, registryVars, alerted, restarted, canaryVars>>
      BY <1>8 DEF Reject
    <3>3. QED
      BY <2>1, <3>1, <3>2 DEF UnloadAdapter, Loads, RunStep
  <2>2. CASE At(r, "reject", 1) /\ GoTo(r, "rejected") /\ UNCHANGED adapters
    <3>1. PlacesType' /\ Moves(r, "rejected", 0)
      BY <2>2, GoToMoves, TasksArePlaces DEF Ends
    <3>2. Kept /\ UNCHANGED canaryVars
      BY <1>8, <2>2 DEF Reject, Kept
    <3>3. QED
      BY <2>2, <3>1, <3>2 DEF Leaves, Quiet, RunStep
  <2>3. QED
    BY <1>8, <2>1, <2>2 DEF Reject
<1>9. CASE Deploy(r)
  <2>1. CASE /\ At(r, "deploy", 0) /\ IsLoaded(r) /\ SetCurrent(r)
             /\ before' = [before EXCEPT ![r] = IF @ = r THEN CurrentModel ELSE @]
             /\ Advance(r)
    <3>1. PlacesType' /\ Moves(r, "deploy", 1)
      BY <2>1, AdvanceMoves DEF At, Task
    <3>2. UNCHANGED <<adapters, samples, registryVars, alerted, restarted, canaryVars>>
      BY <1>9 DEF Deploy
    <3>3. QED
      BY <2>1, <3>1, <3>2 DEF IsLoaded, Deploys, RunStep
  <2>2. CASE At(r, "deploy", 1) /\ GoTo(r, "watch") /\ UNCHANGED <<pointer, before>>
    <3>1. PlacesType' /\ Moves(r, "watch", 0)
      BY <2>2, GoToMoves, TasksArePlaces DEF Tasks
    <3>2. Kept /\ UNCHANGED canaryVars
      BY <1>9, <2>2 DEF Deploy, Kept
    <3>3. QED
      BY <2>2, <3>1, <3>2 DEF Leaves, Quiet, RunStep
  <2>3. QED
    BY <1>9, <2>1, <2>2 DEF Deploy
<1>10. CASE StartWatch(r) \/ QueryStamp(r)
  <2>1. Advance(r) /\ Task(r) = "watch" /\ Kept /\ UNCHANGED canaryVars
    BY <1>10 DEF StartWatch, QueryStamp, At, Task, Kept
  <2>2. PlacesType' /\ Moves(r, "watch", at[r][2] + 1) /\ at[r][2] + 1 \in Nat
    BY <2>1, AdvanceMoves
  <2>3. QED
    BY <2>1, <2>2 DEF Watches, Quiet, RunStep
<1>11. CASE QueryScore(r)
  <2>1. Task(r) = "watch" /\ Kept /\ UNCHANGED <<canaryVars, at, tries>>
    BY <1>11 DEF QueryScore, At, Task, Kept, runVars
  <2>2. PlacesType' /\ Moves(r, "watch", at[r][2])
    BY <2>1 DEF PlacesType, Moves, Task
  <2>3. QED
    BY <2>1, <2>2 DEF Watches, Quiet, RunStep
<1>12. CASE Judge(r)
  <2>1. Task(r) = "watch" /\ at[r] = <<"watch", 2>> /\ Kept /\ UNCHANGED canaryVars
    BY <1>12 DEF Judge, At, Task, Kept
  <2>2. PICK stale \in BOOLEAN, over \in BOOLEAN :
          \/ Verdict(rounds[r], stale, over) = "pass" /\ GoTo(r, "register")
          \/ GoTo(r, "rollback")
          \/ at' = [at EXCEPT ![r] = <<"watch", 1>>] /\ UNCHANGED tries
    BY <1>12 DEF Judge
  <2>3. CASE Verdict(rounds[r], stale, over) = "pass" /\ GoTo(r, "register")
    <3>1. PlacesType' /\ Moves(r, "register", 0)
      BY <2>3, GoToMoves, TasksArePlaces DEF Tasks
    <3>2. ~(Len(rounds[r]) < 2)
      BY <2>3 DEF Verdict
    <3>3. QED
      BY <2>1, <3>1, <3>2 DEF Watches, Quiet, RunStep
  <2>4. CASE GoTo(r, "rollback")
    <3>1. PlacesType' /\ Moves(r, "rollback", 0)
      BY <2>4, GoToMoves, TasksArePlaces DEF Tasks
    <3>2. QED
      BY <2>1, <3>1 DEF Watches, Quiet, RunStep
  <2>5. CASE at' = [at EXCEPT ![r] = <<"watch", 1>>] /\ UNCHANGED tries
    <3>1. <<"watch", 1>> \in Places
      BY DEF Places, Tasks
    <3>2. PlacesType' /\ Moves(r, "watch", 1)
      BY <2>5, <3>1 DEF PlacesType, Moves
    <3>3. QED
      BY <2>1, <3>2 DEF Watches, Quiet, RunStep
  <2>6. QED
    BY <2>2, <2>3, <2>4, <2>5
<1>13. CASE RegisterChampion(r)
  <2>0. UNCHANGED <<pointer, samples, before, alerted, restarted, canaryVars>>
    BY <1>13 DEF RegisterChampion
  <2>1. CASE At(r, "register", 0) /\ Register(r, "candidate") /\ Advance(r) /\ UNCHANGED <<champion, adapters>>
    <3>1. PlacesType' /\ Moves(r, "register", 1)
      BY <2>1, AdvanceMoves DEF At, Task
    <3>2. QED
      BY <2>0, <2>1, <3>1 DEF Records, RunStep
  <2>2. CASE At(r, "register", 1) /\ SetAlias(r) /\ Advance(r) /\ UNCHANGED <<versions, adapters>>
    <3>1. PlacesType' /\ Moves(r, "register", 2)
      BY <2>2, AdvanceMoves DEF At, Task
    <3>2. QED
      BY <2>0, <2>2, <3>1 DEF SetAlias, Crowns, RunStep
  <2>3. CASE /\ At(r, "register", 2) /\ Advance(r) /\ UNCHANGED registryVars
             /\ IF pointer.previous # r /\ IsLoaded(pointer.previous)
                THEN UnloadAdapter(pointer.previous) ELSE UNCHANGED adapters
    <3>1. PlacesType' /\ Moves(r, "register", 3)
      BY <2>3, AdvanceMoves DEF At, Task
    <3>2. adapters' = IF pointer.previous # r THEN adapters \ {pointer.previous} ELSE adapters
      BY <2>3 DEF IsLoaded, UnloadAdapter
    <3>3. QED
      BY <2>0, <2>3, <3>1, <3>2 DEF Loads, RunStep
  <2>4. CASE At(r, "register", 3) /\ GoTo(r, "accepted") /\ UNCHANGED <<registryVars, adapters>>
    <3>1. PlacesType' /\ Moves(r, "accepted", 0)
      BY <2>4, GoToMoves, TasksArePlaces DEF Ends
    <3>2. QED
      BY <2>0, <2>4, <3>1 DEF Kept, Leaves, Quiet, RunStep
  <2>5. QED
    BY <1>13, <2>1, <2>2, <2>3, <2>4 DEF RegisterChampion
<1>14. CASE Rollback(r)
  <2>0. UNCHANGED <<samples, champion, before, restarted, canaryVars>>
    BY <1>14 DEF Rollback
  <2>1. CASE At(r, "rollback", 0) /\ SwitchBack(r) /\ Advance(r) /\ UNCHANGED <<adapters, versions, alerted>>
    <3>1. PlacesType' /\ Moves(r, "rollback", 1)
      BY <2>1, AdvanceMoves DEF At, Task
    <3>2. QED
      BY <2>0, <2>1, <3>1 DEF Returns, RunStep, registryVars
  <2>2. CASE /\ At(r, "rollback", 1) /\ Advance(r) /\ UNCHANGED <<pointer, versions, alerted>>
             /\ IF IsLoaded(r) THEN UnloadAdapter(r) ELSE UNCHANGED adapters
    <3>1. PlacesType' /\ Moves(r, "rollback", 2)
      BY <2>2, AdvanceMoves DEF At, Task
    <3>2. adapters' = adapters \ {r}
      BY <2>2 DEF IsLoaded, UnloadAdapter
    <3>3. QED
      BY <2>0, <2>2, <3>1, <3>2 DEF Loads, RunStep, registryVars
  <2>3. CASE At(r, "rollback", 2) /\ Register(r, "rejected") /\ Advance(r) /\ UNCHANGED <<pointer, adapters, alerted>>
    <3>1. PlacesType' /\ Moves(r, "rollback", 3)
      BY <2>3, AdvanceMoves DEF At, Task
    <3>2. QED
      BY <2>0, <2>3, <3>1 DEF Records, RunStep
  <2>4. CASE /\ At(r, "rollback", 3) /\ alerted' = alerted \cup {r} /\ Advance(r)
             /\ UNCHANGED <<pointer, adapters, versions>>
    <3>1. PlacesType' /\ Moves(r, "rollback", 4)
      BY <2>4, AdvanceMoves DEF At, Task
    <3>2. QED
      BY <2>0, <2>4, <3>1 DEF Warns, RunStep, registryVars
  <2>5. CASE At(r, "rollback", 4) /\ GoTo(r, "rolled back") /\ UNCHANGED <<pointer, adapters, versions, alerted>>
    <3>1. PlacesType' /\ Moves(r, "rolled back", 0)
      BY <2>5, GoToMoves, TasksArePlaces DEF Ends
    <3>2. QED
      BY <2>0, <2>5, <3>1 DEF Kept, Leaves, Quiet, RunStep, registryVars
  <2>6. QED
    BY <1>14, <2>1, <2>2, <2>3, <2>4, <2>5 DEF Rollback
<1>15. CASE TryFails(r)
  <2>1. Fail(r) /\ Active(r)
    BY <1>15 DEF TryFails
  <2>2. ASSUME Task(r) = "deploy" PROVE at[r][2] = 0 \/ "deploy" \in Faults
    BY <1>15, <2>2 DEF TryFails, Refused, NoDecision, At, Task
  <2>3. QED
    BY <1>2, <2>1, <2>2
<1>16. QED
  BY <1>1, <1>3, <1>4, <1>5, <1>6, <1>7, <1>8, <1>9, <1>10, <1>11, <1>12, <1>13, <1>14, <1>15
     DEF RunActs
-----------------------------------------------------------------------------
(* Types *)

LEMMA CurrentIsNamed ==
  ASSUME PointerType, RegistryType
  PROVE  CurrentModel \in Names
BY NotEmpty DEF PointerType, RegistryType, CurrentModel, ChampionInfo

(* No step takes the pointer's file away.                                   *)
LEMMA PointerSteps ==
  ASSUME TypeInv, NEW r \in Runs, RunStep(r)
  PROVE  PointerType' /\ (pointer # <<>> => pointer' # <<>>)
<1>1. CASE UNCHANGED pointer
  BY <1>1 DEF TypeInv, PointerType
<1>2. ASSUME NEW m \in Names, SetCurrent(m) PROVE PointerType' /\ pointer' # <<>>
  <2>1. CurrentModel \in Names
    BY CurrentIsNamed DEF TypeInv
  <2>2. pointer' \in [model : Names, previous : Names]
    BY <1>2, <2>1 DEF SetCurrent
  <2>3. QED
    BY <2>2, NotEmpty DEF PointerType
<1>3. CASE Deploys(r)
  <2>1. SetCurrent(r) /\ r \in Names
    BY <1>3 DEF Deploys, Names
  <2>2. QED
    BY <1>2, <2>1
<1>4. CASE Returns(r)
  <2>1. pointer \in [model : Names, previous : Names]
    BY <1>4 DEF TypeInv, Deployed, Returns, At, Task, PointerType
  <2>2. CASE SetCurrent(pointer.previous)
    BY <1>2, <2>1, <2>2
  <2>3. QED
    BY <1>1, <1>4, <2>2 DEF Returns, SwitchBack
<1>5. QED
  BY <1>1, <1>3, <1>4 DEF RunStep, Quiet, Kept, Scores, Loads, Records, Crowns, Warns

(* The registry only grows, and no version is changed in it.                *)
LEMMA RegistrySteps ==
  ASSUME TypeInv, NEW r \in Runs, RunStep(r)
  PROVE  /\ RegistryType'
         /\ DOMAIN versions \subseteq DOMAIN versions'
         /\ \A name \in DOMAIN versions : versions'[name] = versions[name]
<1> USE DEF TypeInv
<1>1. CASE UNCHANGED <<registryVars, alerted>>
  BY <1>1 DEF RegistryType, registryVars
<1>2. CASE Records(r)
  <2>1. PICK status \in {"candidate", "rejected"} : Register(r, status)
    BY <1>2 DEF Records
  <2>2. PICK entry : entry = [status |-> status, pool |-> versions[champion].pool]
    OBVIOUS
  <2>3. entry \in Versions
    <3>1. versions[champion] \in Versions
      BY DEF RegistryType
    <3>2. QED
      BY <2>2, <3>1 DEF Versions
  <2>4. versions' = IF r \in DOMAIN versions THEN versions ELSE Put(versions, r, entry)
    BY <2>1, <2>2 DEF Register, ChampionInfo
  <2>5. UNCHANGED <<champion, alerted>>
    BY <1>2 DEF Records
  <2>6. CASE r \in DOMAIN versions
    BY <2>4, <2>5, <2>6 DEF RegistryType
  <2>7. CASE r \notin DOMAIN versions
    <3>1. versions' = Put(versions, r, entry)
      BY <2>4, <2>7
    <3>2. /\ DOMAIN versions' = DOMAIN versions \cup {r}
          /\ \A name \in DOMAIN versions : versions'[name] = versions[name]
      BY <2>7, <3>1 DEF Put
    <3>3. versions' \in [DOMAIN versions' -> Versions]
      BY <2>3, <3>1 DEF Put, RegistryType
    <3>4. QED
      BY <2>5, <3>2, <3>3 DEF RegistryType, Names
  <2>8. QED
    BY <2>6, <2>7
<1>3. CASE Crowns(r)
  <2>1. r \in DOMAIN versions
    BY <1>3 DEF Crowns, At, Task, Deployed
  <2>2. QED
    BY <1>3, <2>1 DEF Crowns, RegistryType
<1>4. CASE Warns(r)
  BY <1>4 DEF Warns, RegistryType, registryVars
<1>5. QED
  BY <1>1, <1>2, <1>3, <1>4
     DEF RunStep, Quiet, Kept, Scores, Loads, Deploys, Returns

LEMMA DeployedSteps ==
  ASSUME TypeInv, NEW r \in Runs, RunStep(r), NEW s \in Runs
  PROVE  Deployed(s)'
<1> USE DEF TypeInv, Deployed, At, Task
<1>0. (pointer # <<>> => pointer' # <<>>) /\ DOMAIN versions \subseteq DOMAIN versions'
  BY PointerSteps, RegistrySteps
<1>1. CASE s # r
  <2>1. at'[s] = at[s]
    BY <1>1 DEF RunStep, Quiet, Starts, Prepares, Decides, Leaves, Watches, GivesUp, Scores, Loads,
               Deploys, Returns, Records, Crowns, Warns, Moves
  <2>2. QED
    BY <1>0, <2>1
<1>2. CASE s = r
  <2> USE <1>0, <1>2 DEF Moves
  <2>1. CASE Quiet(r)
    <3>1. CASE Starts(r)
      BY <3>1 DEF Starts
    <3>6. CASE Decides(r)
      BY <3>6 DEF Decides
    <3>7. CASE Leaves(r)
      <4>1. CASE At(r, "deploy", 1) /\ Moves(r, "watch", 0)
        BY <4>1
      <4>2. CASE ~(At(r, "deploy", 1) /\ Moves(r, "watch", 0))
        <5>1. \E task \in Ends : Moves(r, task, 0)
          BY <3>7, <4>2 DEF Leaves, Ends
        <5>2. at'[r][1] \in Ends /\ at'[r][2] = 0
          BY <5>1
        <5>3. at'[r] # <<"deploy", 1>>
          BY <5>2
        <5>4. \A task \in Ends : task \notin {"watch", "register", "rollback"}
          BY DEF Ends
        <5>5. QED
          BY <5>2, <5>3, <5>4
      <4>3. QED
        BY <4>1, <4>2
    <3>2. CASE Prepares(r)
      BY <3>2 DEF Prepares, Preparing
    <3>3. CASE Watches(r)
      BY <2>1, <3>3 DEF Quiet, Kept, Watches
    <3>4. CASE GivesUp(r)
      BY <2>1, <3>4 DEF Quiet, Kept, GivesUp
    <3>5. QED
      BY <2>1, <3>1, <3>2, <3>3, <3>4, <3>6, <3>7 DEF Quiet
  <2>2. CASE Scores(r) \/ Loads(r) \/ Warns(r)
    BY <2>2 DEF Scores, Loads, Warns
  <2>3. CASE Deploys(r)
    <3>1. pointer' # <<>>
      <4>1. "model" \in DOMAIN pointer'
        BY <2>3 DEF Deploys, SetCurrent
      <4>2. QED
        BY <4>1
    <3>2. QED
      BY <2>3, <3>1 DEF Deploys
  <2>4. CASE Returns(r)
    BY <2>4 DEF Returns
  <2>5. CASE Records(r)
    <3>1. \A entry : r \in DOMAIN Put(versions, r, entry)
      BY DEF Put
    <3>2. \E status : Register(r, status)
      BY <2>5 DEF Records
    <3>3. r \in DOMAIN versions'
      BY <3>1, <3>2 DEF Register
    <3>4. QED
      BY <2>5, <3>3 DEF Records
  <2>6. CASE Crowns(r)
    BY <2>6 DEF Crowns
  <2>7. QED
    BY <2>1, <2>2, <2>3, <2>4, <2>5, <2>6 DEF RunStep
<1>3. QED
  BY <1>1, <1>2

LEMMA CanarySteps ==
  ASSUME TypeInv, CanaryActs
  PROVE  CanaryType' /\ UNCHANGED <<pointer, adapters, samples, pipelineVars>>
<1> USE DEF TypeInv, CanaryType
<1> SUFFICES CanaryType'
  BY DEF CanaryActs, CanaryStep, StartRound, CanaryDies, ScoreRound, StampRound, FailRound, Scrape
<1>1. Followed \in Names
  BY DEF Followed, PointerType
<1>2. Len(log) \in Nat
  BY LenProperties
<1>3. CASE StartRound
  BY <1>1, <1>2, <1>3 DEF StartRound, Gauges
<1>4. CASE ScoreRound
  <2>1. PICK low \in BOOLEAN : log' = Append(log, [model |-> asks, low |-> low])
    BY <1>4 DEF ScoreRound
  <2>2. [model |-> asks, low |-> low] \in LogEntries
    BY DEF LogEntries
  <2>3. log' \in Seq(LogEntries)
    BY <2>1, <2>2, AppendProperties
  <2>4. gauges' \in Gauges
    BY <1>2, <1>4 DEF ScoreRound, Gauges
  <2>5. QED
    BY <1>4, <2>3, <2>4 DEF ScoreRound
<1>5. CASE StampRound
  BY <1>2, <1>5 DEF StampRound, Gauges
<1>6. CASE FailRound
  BY <1>6 DEF FailRound, Gauges
<1>7. CASE CanaryDies \/ Scrape
  BY <1>7 DEF CanaryDies, Scrape
<1>8. QED
  BY <1>3, <1>4, <1>5, <1>6, <1>7 DEF CanaryActs, CanaryStep

LEMMA TypeInit == PipelineInit => TypeInv
<1> SUFFICES ASSUME PipelineInit PROVE TypeInv
  OBVIOUS
<1> USE DEF PipelineInit, CanaryInit
<1>1. PlacesType
  <2>1. <<"idle", 0>> \in Places
    BY TasksArePlaces DEF Ends
  <2>2. QED
    BY <2>1 DEF PlacesType
<1>2. before \in [Runs -> Names] /\ PointerType /\ adapters \subseteq Names
  BY DEF Names, PointerType
<1>3. RegistryType
  BY DEF RegistryType, Names, Versions
<1>4. CanaryType
  <2>1. log \in Seq(LogEntries)
    BY EmptySeq
  <2>2. QED
    BY <2>1 DEF CanaryType, Names, Gauges
<1>5. ASSUME NEW r \in Runs PROVE Deployed(r)
  BY DEF Deployed, At, Task
<1>6. QED
  BY <1>1, <1>2, <1>3, <1>4, <1>5 DEF TypeInv

LEMMA TypeStep == TypeInv /\ [PipelineNext]_allVars => TypeInv'
<1> SUFFICES ASSUME TypeInv, [PipelineNext]_allVars PROVE TypeInv'
  OBVIOUS
<1>1. ASSUME NEW r \in Runs, RunActs(r) PROVE TypeInv'
  <2>1. PlacesType' /\ RunStep(r) /\ UNCHANGED canaryVars
    BY <1>1, RunsStep DEF TypeInv
  <2>2. PointerType' /\ RegistryType' /\ \A s \in Runs : Deployed(s)'
    BY <2>1, PointerSteps, RegistrySteps, DeployedSteps
  <2>3. before' \in [Runs -> Names]
    <3>1. CASE Deploys(r)
      BY <3>1, CurrentIsNamed DEF Deploys, TypeInv
    <3>2. CASE UNCHANGED before
      BY <3>2 DEF TypeInv
    <3>3. QED
      BY <2>1, <3>1, <3>2 DEF RunStep, Quiet, Kept, Scores, Loads, Returns, Records, Crowns, Warns
  <2>4. adapters' \subseteq Names
    <3>1. CASE Loads(r)
      BY <3>1 DEF Loads, Names, TypeInv
    <3>2. CASE UNCHANGED adapters
      BY <3>2 DEF TypeInv
    <3>3. QED
      BY <2>1, <3>1, <3>2 DEF RunStep, Quiet, Kept, Scores, Deploys, Returns, Records, Crowns, Warns
  <2>5. CanaryType'
    BY <2>1 DEF TypeInv, CanaryType, canaryVars
  <2>6. QED
    BY <2>1, <2>2, <2>3, <2>4, <2>5 DEF TypeInv
<1>2. CASE CanaryActs
  <2>1. CanaryType' /\ UNCHANGED <<pointer, adapters, samples, pipelineVars>>
    BY <1>2, CanarySteps
  <2>2. QED
    BY <2>1 DEF TypeInv, PlacesType, PointerType, RegistryType, Deployed, At, Task, pipelineVars,
                runVars, registryVars
<1>3. CASE RestartVllm
  BY <1>3 DEF RestartVllm, TypeInv, PlacesType, PointerType, RegistryType, CanaryType, Deployed,
              At, Task, runVars, registryVars, canaryVars, Names
<1>4. CASE UNCHANGED allVars
  BY <1>4 DEF TypeInv, PlacesType, PointerType, RegistryType, CanaryType, Deployed,
              At, Task, allVars, pipelineVars, runVars, registryVars, canaryVars
<1>5. QED
  BY <1>1, <1>2, <1>3, <1>4 DEF PipelineNext

(* Every state of the pipeline is well formed, and whatever becomes the     *)
(* champion is a version of the registry.                                   *)
THEOREM PipelineTyped == PipelineSpec => []TypeInv
<1>1. PipelineInit => TypeInv
  BY TypeInit
<1>2. TypeInv /\ [PipelineNext]_allVars => TypeInv'
  BY TypeStep
<1>3. QED
  BY <1>1, <1>2, PTL DEF PipelineSpec

-----------------------------------------------------------------------------
(* The canary and the watches *)

Rounds == [at : Nat, round : Nat]

(* A reading of the gauges that is safe to count: its score is the one of   *)
(* its time stamp, and the rounds since its switch are its model's.         *)
Coherent(g) ==
  /\ g.last <= Len(log) /\ g.accuracy \in {0, g.last}
  /\ \A k \in DOMAIN log : g.since < k /\ k <= g.last => log[k].model = g.model

(* The time stamp is the number of rounds except while one is recorded.     *)
Published ==
  /\ gauges.model = asks
  /\ \A k \in DOMAIN log : gauges.since < k => log[k].model = asks
  /\ IF canary = "scored" THEN gauges.accuracy = Len(log) /\ gauges.last <= Len(log)
     ELSE gauges.last = Len(log) /\ gauges.accuracy \in {0, Len(log)}

(* Each round that is counted is a round of r, with its own score; none is  *)
(* counted twice.                                                           *)
CountsOwn(r) ==
  /\ \A i \in DOMAIN rounds[r] :
       LET e == rounds[r][i] IN
       /\ e.round = e.at /\ e.at \in DOMAIN log /\ log[e.at].model = r
       /\ \A j \in DOMAIN rounds[r] : rounds[r][j].at = e.at => i = j

WatchInv ==
  /\ Published /\ Coherent(scraped)
  /\ rounds \in [Runs -> Seq(Rounds)]
  /\ reading \in [Runs -> {<<>>, scraped}]
  /\ \A r \in Runs : CountsOwn(r)

LEMMA WatchInit == PipelineInit => WatchInv
<1> SUFFICES ASSUME PipelineInit PROVE WatchInv
  OBVIOUS
<1> USE DEF PipelineInit, CanaryInit
<1>1. Len(log) = 0 /\ DOMAIN log = {} /\ <<>> \in Seq(Rounds) /\ DOMAIN <<>> = {}
  BY EmptySeq
<1>2. Published /\ Coherent(scraped)
  BY <1>1 DEF Published, Coherent
<1>3. \A r \in Runs : CountsOwn(r)
  BY <1>1 DEF CountsOwn
<1>4. QED
  BY <1>1, <1>2, <1>3 DEF WatchInv

(* One more round in the history.                                           *)
LEMMA LogGrows ==
  ASSUME CanaryType, NEW e \in LogEntries, log' = Append(log, e)
  PROVE  /\ Len(log) \in Nat /\ Len(log') = Len(log) + 1
         /\ DOMAIN log = 1..Len(log) /\ DOMAIN log' = 1..(Len(log) + 1)
         /\ log'[Len(log) + 1] = e /\ \A k \in DOMAIN log : log'[k] = log[k]
<1>1. log \in Seq(LogEntries)
  BY DEF CanaryType
<1>2. QED
  BY <1>1, AppendProperties, LenProperties

LEMMA CanaryKeepsWatch ==
  ASSUME TornReadings = FALSE, TypeInv, WatchInv, CanaryActs
  PROVE  WatchInv'
<1> USE DEF TypeInv
<1>0. /\ UNCHANGED <<rounds, reading>>
      /\ Len(log) \in Nat /\ DOMAIN log = 1..Len(log)
      /\ gauges \in Gauges /\ scraped \in Gauges
  BY CanarySteps, LenProperties DEF CanaryType, pipelineVars, watchVars
<1>1. ASSUME UNCHANGED <<log, scraped>>, Published' PROVE WatchInv'
  BY <1>0, <1>1 DEF WatchInv, Coherent, CountsOwn
<1>2. CASE StartRound
  <2>1. Published'
    BY <1>0, <1>2 DEF StartRound, WatchInv, Published, Gauges
  <2>2. QED
    BY <1>1, <1>2, <2>1 DEF StartRound
<1>3. CASE CanaryDies
  <2>1. Published'
    BY <1>3 DEF CanaryDies, WatchInv, Published
  <2>2. QED
    BY <1>1, <1>3, <2>1 DEF CanaryDies
<1>4. CASE StampRound
  <2>1. Published'
    BY <1>0, <1>4 DEF StampRound, WatchInv, Published, Gauges
  <2>2. QED
    BY <1>1, <1>4, <2>1 DEF StampRound
<1>5. CASE FailRound
  <2>1. Published'
    BY <1>0, <1>5 DEF FailRound, WatchInv, Published, Gauges
  <2>2. QED
    BY <1>1, <1>5, <2>1 DEF FailRound
<1>6. CASE ScoreRound
  <2>1. PICK low \in BOOLEAN : log' = Append(log, [model |-> asks, low |-> low])
    BY <1>6 DEF ScoreRound
  <2>2. PICK e \in LogEntries : e.model = asks /\ log' = Append(log, e)
    BY <2>1 DEF CanaryType, LogEntries
  <2>3. /\ Len(log') = Len(log) + 1
        /\ DOMAIN log' = 1..(Len(log) + 1)
        /\ log'[Len(log) + 1] = e /\ \A k \in DOMAIN log : log'[k] = log[k]
    BY <2>2, LogGrows
  <2>4. Published'
    <3>1. /\ gauges' = [gauges EXCEPT !.accuracy = Len(log) + 1] /\ canary' = "scored"
          /\ UNCHANGED asks /\ canary # "scored"
      BY <1>6 DEF ScoreRound
    <3>2. gauges'.model = asks /\ gauges'.since = gauges.since /\ gauges'.last = Len(log)
          /\ gauges'.accuracy = Len(log) + 1
      BY <1>0, <3>1 DEF Gauges, WatchInv, Published
    <3>3. ASSUME NEW k \in DOMAIN log', gauges.since < k PROVE log'[k].model = asks
      <4>1. CASE k = Len(log) + 1
        BY <2>2, <2>3, <4>1
      <4>2. CASE k # Len(log) + 1
        <5>1. k \in DOMAIN log
          BY <1>0, <2>3, <4>2
        <5>2. QED
          BY <2>3, <3>3, <5>1 DEF WatchInv, Published
      <4>3. QED
        BY <4>1, <4>2
    <3>4. QED
      BY <1>0, <2>3, <3>1, <3>2, <3>3 DEF Published
  <2>5. Coherent(scraped)'
    <3>1. UNCHANGED scraped /\ scraped.last \in Nat
      BY <1>0, <1>6 DEF ScoreRound, Gauges
    <3>2. ASSUME NEW k \in DOMAIN log', scraped.since < k, k <= scraped.last
          PROVE  log'[k].model = scraped.model
      <4>1. k \in DOMAIN log
        BY <1>0, <2>3, <3>1, <3>2 DEF WatchInv, Coherent
      <4>2. QED
        BY <2>3, <3>2, <4>1 DEF WatchInv, Coherent
    <3>3. scraped.last <= Len(log')
      BY <1>0, <2>3, <3>1 DEF WatchInv, Coherent
    <3>4. QED
      BY <3>1, <3>2, <3>3 DEF WatchInv, Coherent
  <2>6. ASSUME NEW r \in Runs PROVE CountsOwn(r)'
    <3>1. \A k \in DOMAIN log : k \in DOMAIN log' /\ log'[k] = log[k]
      BY <1>0, <2>3
    <3>2. QED
      BY <1>0, <3>1 DEF WatchInv, CountsOwn
  <2>7. QED
    BY <1>0, <1>6, <2>4, <2>5, <2>6 DEF WatchInv, ScoreRound
<1>7. CASE Scrape /\ \A r \in Runs : reading[r] = <<>>
  <2>1. UNCHANGED <<log, asks, canary, gauges>> /\ scraped' = gauges /\ canary # "scored"
    BY <1>7 DEF Scrape
  <2>2. Published'
    BY <2>1 DEF WatchInv, Published
  <2>3. Coherent(scraped)'
    BY <1>0, <2>1 DEF WatchInv, Published, Coherent, Gauges
  <2>4. reading' \in [Runs -> {<<>>, scraped'}]
    BY <1>0, <1>7 DEF WatchInv
  <2>5. \A r \in Runs : CountsOwn(r)'
    BY <1>0, <2>1 DEF WatchInv, CountsOwn
  <2>6. QED
    BY <1>0, <2>2, <2>3, <2>4, <2>5 DEF WatchInv
<1>8. QED
  BY <1>2, <1>3, <1>4, <1>5, <1>6, <1>7 DEF CanaryActs, CanaryStep

(* A run's round is added if it is one, and then it is its own.             *)
LEMMA StampKeepsWatch ==
  ASSUME TypeInv, WatchInv, NEW r \in Runs, QueryStamp(r), UNCHANGED canaryVars
  PROVE  WatchInv'
<1>1. /\ at[r] = <<"watch", 1>> /\ reading[r] = scraped
      /\ rounds' = [rounds EXCEPT ![r] =
           AddRound(rounds[r], SwitchedAt(reading[r], r), reading[r].accuracy, scraped.last)]
      /\ reading' = [reading EXCEPT ![r] = <<>>]
  BY DEF QueryStamp, At, WatchInv
<1>2. /\ scraped \in Gauges /\ UNCHANGED <<log, asks, canary, gauges, scraped>>
      /\ Len(log) \in Nat /\ DOMAIN log = 1..Len(log)
  BY LenProperties DEF TypeInv, CanaryType, canaryVars
<1>3. PICK seen \in Seq(Rounds) : seen = rounds[r]
  BY DEF WatchInv
<1>4. PICK n, a : n = scraped.last /\ a = scraped.accuracy
  OBVIOUS
<1>5. CASE IsNewRound(seen, SwitchedAt(scraped, r), a, n)
  <2>1. /\ scraped.model = r /\ n > scraped.since /\ a # 0
        /\ \A i \in DOMAIN seen : n > seen[i].at
    BY <1>4, <1>5 DEF IsNewRound, SwitchedAt
  <2>2. a = n /\ n \in DOMAIN log /\ log[n].model = r /\ n \in Nat
    BY <1>2, <1>4, <2>1 DEF WatchInv, Coherent, Gauges
  <2>3. PICK e \in Rounds : e = [at |-> n, round |-> n]
    BY <2>2 DEF Rounds
  <2>4. rounds' = [rounds EXCEPT ![r] = Append(seen, e)]
    BY <1>1, <1>3, <1>4, <1>5, <2>2, <2>3 DEF AddRound
  <2>5. PICK m \in Nat : /\ m = Len(seen) /\ DOMAIN seen = 1..m
                         /\ Append(seen, e) \in Seq(Rounds) /\ DOMAIN Append(seen, e) = 1..(m + 1)
                         /\ Append(seen, e)[m + 1] = e
                         /\ \A i \in 1..m : Append(seen, e)[i] = seen[i]
    BY <1>3, <2>3, AppendProperties, LenProperties
  <2>6. PICK more \in Seq(Rounds) : more = Append(seen, e)
    BY <2>5
  <2>7. rounds' \in [Runs -> Seq(Rounds)] /\ rounds'[r] = more /\ \A s \in Runs \ {r} : rounds'[s] = rounds[s]
    BY <2>4, <2>6 DEF WatchInv
  <2>8. e.at = n /\ e.round = n
    BY <2>3
  <2>9. CountsOwn(r)'
    <3>1. ASSUME NEW i \in 1..(m + 1)
          PROVE  /\ more[i].round = more[i].at /\ more[i].at \in DOMAIN log
                 /\ log[more[i].at].model = r
                 /\ \A j \in 1..(m + 1) : more[j].at = more[i].at => i = j
      <4>1. CASE i = m + 1
        <5>1. more[i] = e
          BY <2>5, <2>6, <4>1
        <5>2. ASSUME NEW j \in 1..(m + 1), more[j].at = n PROVE i = j
          <6>1. CASE j \in 1..m
            <7>1. more[j] = seen[j] /\ seen[j] \in Rounds
              BY <2>5, <2>6, <6>1, ElementOfSeq
            <7>2. seen[j].at \in Nat /\ n > seen[j].at
              BY <2>1, <2>5, <6>1, <7>1 DEF Rounds
            <7>3. QED
              BY <2>2, <5>2, <7>1, <7>2
          <6>2. QED
            BY <4>1, <6>1
        <5>3. QED
          BY <2>2, <2>8, <5>1, <5>2
      <4>2. CASE i \in 1..m
        <5>1. more[i] = seen[i] /\ seen[i] \in Rounds
          BY <2>5, <2>6, <4>2, ElementOfSeq
        <5>2. /\ seen[i].round = seen[i].at /\ seen[i].at \in DOMAIN log
              /\ log[seen[i].at].model = r
              /\ \A j \in 1..m : seen[j].at = seen[i].at => i = j
          BY <1>3, <2>5, <4>2 DEF WatchInv, CountsOwn
        <5>3. n > seen[i].at /\ seen[i].at \in Nat
          BY <2>1, <2>5, <4>2, <5>1 DEF Rounds
        <5>4. ASSUME NEW j \in 1..(m + 1), more[j].at = more[i].at PROVE i = j
          <6>1. CASE j = m + 1
            BY <2>2, <2>5, <2>6, <2>8, <5>1, <5>3, <5>4, <6>1
          <6>2. CASE j \in 1..m
            BY <2>5, <2>6, <5>1, <5>2, <5>4, <6>2
          <6>3. QED
            BY <6>1, <6>2
        <5>5. QED
          BY <5>1, <5>2, <5>4
      <4>3. QED
        BY <4>1, <4>2
    <3>2. DOMAIN more = 1..(m + 1)
      BY <2>5, <2>6
    <3>3. QED
      BY <1>2, <2>7, <3>1, <3>2 DEF CountsOwn
  <2>10. ASSUME NEW s \in Runs \ {r} PROVE CountsOwn(s)'
    BY <1>2, <2>7 DEF WatchInv, CountsOwn
  <2>11. QED
    BY <1>1, <1>2, <2>7, <2>9, <2>10 DEF WatchInv, Published, Coherent
<1>6. CASE ~IsNewRound(seen, SwitchedAt(scraped, r), a, n)
  <2>1. rounds' = rounds
    BY <1>1, <1>3, <1>4, <1>6 DEF AddRound, WatchInv
  <2>2. QED
    BY <1>1, <1>2, <2>1 DEF WatchInv, Published, Coherent, CountsOwn
<1>7. QED
  BY <1>5, <1>6

LEMMA RunKeepsWatch ==
  ASSUME TypeInv, WatchInv, NEW r \in Runs, RunActs(r)
  PROVE  WatchInv'
<1>1. UNCHANGED canaryVars /\ UNCHANGED <<log, asks, canary, gauges, scraped>>
  BY RunsStep DEF TypeInv, canaryVars
<1>2. Published' /\ Coherent(scraped)'
  BY <1>1 DEF WatchInv, Published, Coherent
<1>3. CASE UNCHANGED watchVars
  BY <1>1, <1>2, <1>3 DEF WatchInv, CountsOwn, watchVars
<1>4. ASSUME rounds' = [rounds EXCEPT ![r] = <<>>],
             reading' \in {reading, [reading EXCEPT ![r] = <<>>]}
      PROVE  WatchInv'
  <2>1. <<>> \in Seq(Rounds) /\ DOMAIN <<>> = {}
    BY EmptySeq
  <2>2. rounds' \in [Runs -> Seq(Rounds)] /\ reading' \in [Runs -> {<<>>, scraped}]
    BY <1>4, <2>1 DEF WatchInv
  <2>3. CountsOwn(r)'
    BY <1>4, <2>1 DEF WatchInv, CountsOwn
  <2>4. ASSUME NEW s \in Runs \ {r} PROVE CountsOwn(s)'
    BY <1>1, <1>4 DEF WatchInv, CountsOwn
  <2>5. QED
    BY <1>1, <1>2, <2>2, <2>3, <2>4 DEF WatchInv
<1>5. CASE StartWatch(r)
  BY <1>4, <1>5 DEF StartWatch
<1>6. CASE QueryScore(r)
  BY <1>1, <1>2, <1>6 DEF QueryScore, WatchInv, CountsOwn
<1>7. CASE QueryStamp(r)
  BY <1>1, <1>7, StampKeepsWatch
<1>8. CASE Judge(r)
  <2>1. UNCHANGED reading /\ (UNCHANGED rounds \/ rounds' = [rounds EXCEPT ![r] = <<>>])
    BY <1>8 DEF Judge
  <2>2. QED
    BY <1>3, <1>4, <2>1 DEF watchVars
<1>9. QED
  BY <1>3, <1>5, <1>6, <1>7, <1>8
     DEF RunActs, StartRun, BuildData, StartJob, EndJob, LoadCandidate, Gate, Reject, Deploy,
         RegisterChampion, Rollback, TryFails, Fail

LEMMA WatchStep ==
  ASSUME TornReadings = FALSE, TypeInv, WatchInv, [PipelineNext]_allVars
  PROVE  WatchInv'
<1>1. CASE RestartVllm
  BY <1>1 DEF RestartVllm, canaryVars, watchVars, WatchInv, Published, Coherent, CountsOwn
<1>2. CASE UNCHANGED allVars
  BY <1>2 DEF allVars, pipelineVars, canaryVars, watchVars, WatchInv, Published, Coherent, CountsOwn
<1>3. QED
  BY <1>1, <1>2, CanaryKeepsWatch, RunKeepsWatch DEF PipelineNext

(* add_round(): when no scrape falls between the queries of one reading,    *)
(* every round the watch counts is a scored round of the new model with its *)
(* own score, counted once, whatever runs, fails or is tried again.         *)
THEOREM WatchIsSound ==
  ASSUME TornReadings = FALSE
  PROVE  PipelineSpec => []WatchCountsOwnRounds
<1>1. PipelineInit => TypeInv /\ WatchInv
  BY TypeInit, WatchInit
<1>2. TypeInv /\ WatchInv /\ [PipelineNext]_allVars => TypeInv' /\ WatchInv'
  BY TypeStep, WatchStep
<1>3. WatchInv => WatchCountsOwnRounds
  BY DEF WatchInv, CountsOwn, WatchCountsOwnRounds
<1>4. QED
  BY <1>1, <1>2, <1>3, PTL DEF PipelineSpec

-----------------------------------------------------------------------------
(* The pipeline, one run after the other *)

PointsTo(name) == pointer # <<>> /\ name \in {pointer.model, pointer.previous}

(* The pointer has been moved to r and not back.                            *)
Switched(r) == At(r, "deploy", 1) \/ Task(r) \in {"watch", "register"}

OneAtATime == \A r, s \in Runs : Active(r) /\ Active(s) => r = s

Undeployed == {"idle", "build_data", "finetune", "load", "score", "gate", "reject", "rejected"}

Placed(r) ==
  /\ Task(r) \in Undeployed => ~PointsTo(r)
  /\ Switched(r) => pointer.model = r

(* Two rounds of r have been scored.                                        *)
Watched(r) == \E i, j \in DOMAIN log : i # j /\ log[i].model = r /\ log[j].model = r

Recorded(r) ==
  /\ Task(r) \in Undeployed \cup {"deploy", "watch"} => r \notin DOMAIN versions /\ r \notin alerted
  /\ Task(r) = "register" =>
       /\ r \notin alerted /\ Watched(r)
       /\ r \in DOMAIN versions => versions[r].status = "candidate"
       /\ at[r][2] \in {2, 3} => champion = r
  /\ Task(r) = "rollback" =>
       /\ r \in DOMAIN versions => versions[r].status = "rejected"
       /\ at[r][2] \in {3, 4} => r \in DOMAIN versions
       /\ at[r][2] = 4 => r \in alerted
  /\ Task(r) \notin {"register", "accepted", "failed"} => champion # r

(* Whoever is made the current model passed the gate, or is the champion.   *)
Sound(name) == name = champion \/ Passes(samples[name], samples[champion])

Backed(r) ==
  /\ Task(r) \in {"gate", "deploy"} => r \in DOMAIN samples
  /\ Task(r) = "deploy" => Passes(samples[r], samples[champion])
  /\ At(r, "deploy", 1) \/ Task(r) \in {"watch", "rollback"} =>
       CurrentModel # r \/ Sound(pointer.previous)

Answered ==
  /\ champion \in DOMAIN samples
  /\ pointer = <<>> => champion = Base
  /\ pointer # <<>> => pointer.model \in DOMAIN samples /\ pointer.previous \in DOMAIN samples
  /\ Sound(CurrentModel)

ChampionInv ==
  champion \in Runs =>
    Watched(champion) /\ versions[champion].status = "candidate" /\ champion \notin alerted

PipelineInv ==
  /\ OneAtATime /\ Answered /\ ChampionInv
  /\ \A r \in Runs : Placed(r) /\ Recorded(r) /\ Backed(r)

LEMMA PipelineInvInit == PipelineInit => PipelineInv
<1> SUFFICES ASSUME PipelineInit PROVE PipelineInv
  OBVIOUS
<1> USE DEF PipelineInit, CanaryInit, Task, At
<1>0. Base \notin Runs /\ CurrentModel = Base
  BY CanaryAssumption DEF CurrentModel, ChampionInfo
<1>1. OneAtATime
  BY DEF OneAtATime, Active, Tasks
<1>2. Answered
  BY <1>0 DEF Answered, Sound
<1>3. ChampionInv
  BY <1>0 DEF ChampionInv
<1>4. ASSUME NEW r \in Runs PROVE Placed(r) /\ Recorded(r) /\ Backed(r)
  BY <1>0 DEF Placed, PointsTo, Switched, Recorded, Backed, Undeployed
<1>5. QED
  BY <1>1, <1>2, <1>3, <1>4 DEF PipelineInv

(* While a run takes a step the others have ended, or not begun.            *)
LEMMA Alone ==
  ASSUME ConcurrentRuns = FALSE, TypeInv, OneAtATime, NEW r \in Runs, RunStep(r)
  PROVE  /\ \A s \in Runs \ {r} : ~Active(s) /\ Task(s) \in Ends /\ at'[s] = at[s]
         /\ OneAtATime'
<1>1. ASSUME NEW s \in Runs \ {r} PROVE at'[s] = at[s]
  BY DEF RunStep, Quiet, Starts, Prepares, Decides, Leaves, Watches, GivesUp, Scores, Loads,
         Deploys, Returns, Records, Crowns, Warns, Moves
<1>2. ASSUME NEW s \in Runs \ {r} PROVE ~Active(s)
  <2>1. CASE Active(r)
    BY <2>1 DEF OneAtATime
  <2>2. CASE ~Active(r)
    <3>1. Task(r) \notin Tasks
      BY <2>2 DEF Active, Task
    <3>2. CASE Quiet(r)
      <4>1. \A task \in Preparing \cup {"gate", "reject", "deploy", "register", "rollback", "watch"} :
              task \in Tasks
        BY DEF Preparing, Tasks
      <4>2. Leaves(r) => Task(r) \in {"reject", "deploy", "register", "rollback"}
        BY AtTask DEF Leaves
      <4>3. ~(Prepares(r) \/ Decides(r) \/ Leaves(r) \/ Watches(r))
        BY <3>1, <4>1, <4>2 DEF Prepares, Decides, Watches
      <4>4. Starts(r)
        BY <2>2, <3>2, <4>3 DEF Quiet, GivesUp
      <4>5. QED
        BY <4>4 DEF Starts
    <3>3. CASE ~Quiet(r)
      <4>1. Task(r) \in {"score", "load", "reject", "deploy", "register", "rollback"}
        BY <3>3 DEF RunStep, Scores, Loads, Deploys, Returns, Records, Crowns, Warns, At, Task
      <4>2. QED
        BY <3>1, <4>1 DEF Tasks
    <3>4. QED
      BY <3>2, <3>3
  <2>3. QED
    BY <2>1, <2>2
<1>3. ASSUME NEW s \in Runs \ {r} PROVE Task(s) \in Ends
  <2>1. Task(s) \in Tasks \cup Ends
    BY PlaceShape DEF TypeInv
  <2>2. QED
    BY <1>2, <2>1 DEF Active, Task
<1>4. OneAtATime'
  BY <1>1, <1>2 DEF OneAtATime, Active
<1>5. QED
  BY <1>1, <1>2, <1>3, <1>4

(* What a step of r does to what the others care about.                     *)
LEMMA Reach ==
  ASSUME TypeInv, NEW r \in Runs, RunStep(r)
  PROVE  /\ pointer' \in {pointer, [model |-> r, previous |-> CurrentModel]}
            \/ (CurrentModel = r /\ pointer # <<>> /\ Task(r) = "rollback"
                /\ pointer' = [model |-> pointer.previous, previous |-> r])
         /\ DOMAIN versions' \subseteq DOMAIN versions \cup {r}
         /\ alerted' \subseteq alerted \cup {r} /\ champion' \in {champion, r}
<1>1. \/ UNCHANGED pointer
      \/ pointer' = [model |-> r, previous |-> CurrentModel]
      \/ /\ CurrentModel = r /\ pointer # <<>> /\ Task(r) = "rollback"
         /\ pointer' = [model |-> pointer.previous, previous |-> r]
  <2>1. CASE Deploys(r)
    BY <2>1 DEF Deploys, SetCurrent
  <2>2. CASE Returns(r)
    BY <2>2 DEF Returns, SwitchBack, SetCurrent, At, Task, TypeInv, Deployed
  <2>3. QED
    BY <2>1, <2>2 DEF RunStep, Quiet, Kept, Scores, Loads, Records, Crowns, Warns
<1>2. DOMAIN versions' \subseteq DOMAIN versions \cup {r}
  <2>1. CASE Records(r)
    BY <2>1 DEF Records, Register, Put
  <2>2. QED
    BY <2>1 DEF RunStep, Quiet, Kept, Scores, Loads, Deploys, Returns, Crowns, Warns, registryVars
<1>3. alerted' \subseteq alerted \cup {r} /\ champion' \in {champion, r}
  BY DEF RunStep, Quiet, Kept, Scores, Loads, Deploys, Returns, Records, Crowns, Warns, registryVars
<1>4. QED
  BY <1>1, <1>2, <1>3

LEMMA PlacedSteps ==
  ASSUME ConcurrentRuns = FALSE, TypeInv, PipelineInv, NEW r \in Runs, RunStep(r), NEW s \in Runs
  PROVE  Placed(s)'
<1> USE DEF PipelineInv
<1>1. CASE s # r
  <2>1. Task(s)' = Task(s) /\ Task(s) \in Ends /\ at'[s] = at[s]
    BY <1>1, Alone DEF Task
  <2>2. ~Switched(s)'
    <3>1. \A task \in Ends : task \notin {"deploy", "watch", "register"}
      BY DEF Ends
    <3>2. at'[s] # <<"deploy", 1>>
      BY <2>1, <3>1 DEF Task
    <3>3. QED
      BY <2>1, <3>1, <3>2 DEF Switched, At
  <2>3. ASSUME Task(s) \in Undeployed PROVE ~PointsTo(s)'
    <3>1. ~PointsTo(s) /\ champion # s
      BY <2>1, <2>3 DEF Placed, Recorded, Ends, Undeployed
    <3>2. CurrentModel # s
      BY <3>1 DEF CurrentModel, ChampionInfo, PointsTo
    <3>3. PICK c : c = CurrentModel /\ c # s
      BY <3>2
    <3>4. \/ pointer' = pointer \/ pointer' = [model |-> r, previous |-> c]
          \/ pointer # <<>> /\ pointer' = [model |-> pointer.previous, previous |-> r]
      BY <3>3, Reach
    <3>5. QED
      BY <1>1, <3>1, <3>3, <3>4 DEF PointsTo
  <2>4. QED
    BY <2>1, <2>2, <2>3 DEF Placed
<1>2. CASE s = r
  <2>0. Placed(r)
    OBVIOUS
  <2>1. CASE Quiet(r)
    <3>0. UNCHANGED pointer /\ (PointsTo(r)' <=> PointsTo(r))
      BY <2>1 DEF Quiet, Kept, PointsTo
    <3>1. CASE Starts(r)
      BY <1>2, <2>0, <3>0, <3>1 DEF Starts, Moves, Placed, Switched, Undeployed, At, Task
    <3>2. CASE Prepares(r)
      BY <1>2, <2>0, <3>0, <3>2 DEF Prepares, Preparing, Moves, Placed, Switched, Undeployed, At, Task
    <3>3. CASE Decides(r)
      BY <1>2, <2>0, <3>0, <3>3 DEF Decides, Moves, Placed, Switched, Undeployed, At, Task
    <3>4. CASE Leaves(r)
      <4>1. CASE At(r, "deploy", 1) /\ Moves(r, "watch", 0)
        BY <1>2, <2>0, <3>0, <4>1 DEF Moves, Placed, Switched, Undeployed, Task
      <4>2. CASE At(r, "reject", 1) /\ Moves(r, "rejected", 0)
        <5>1. Task(r) = "reject"
          BY <4>2, AtTask
        <5>2. QED
          BY <1>2, <2>0, <3>0, <4>2, <5>1 DEF Moves, Placed, Switched, Undeployed, At, Task
      <4>3. CASE \E task \in {"accepted", "rolled back"} : Moves(r, task, 0)
        <5>1. at'[r][1] \in {"accepted", "rolled back"} /\ at'[r][2] = 0
          BY <4>3 DEF Moves
        <5>2. \A task \in {"accepted", "rolled back"} : task # "deploy" /\ task \notin Undeployed
          BY DEF Undeployed
        <5>3. at'[r][2] = 0
          BY <5>1
        <5>4. at'[r] # <<"deploy", 1>>
          BY <5>3
        <5>5. at'[r][1] \notin Undeployed
          BY <5>1, <5>2
        <5>6. QED
          BY <1>2, <5>1, <5>4, <5>5 DEF Placed, Switched, At, Task
      <4>4. QED
        BY <3>4, <4>1, <4>2, <4>3 DEF Leaves
    <3>5. CASE Watches(r)
      BY <1>2, <2>0, <3>0, <3>5 DEF Watches, Moves, Placed, Switched, Undeployed, At, Task
    <3>6. CASE GivesUp(r)
      BY <1>2, <2>0, <3>0, <3>6 DEF GivesUp, Moves, Placed, Switched, Undeployed, At, Task
    <3>7. QED
      BY <2>1, <3>1, <3>2, <3>3, <3>4, <3>5, <3>6 DEF Quiet
  <2>2. CASE Scores(r) \/ Loads(r) \/ Records(r) \/ Crowns(r) \/ Warns(r)
    <3>0. UNCHANGED pointer /\ (PointsTo(r)' <=> PointsTo(r))
      BY <2>2 DEF Scores, Loads, Records, Crowns, Warns, PointsTo
    <3>1. CASE Scores(r)
      <4>1. Task(r) = "score"
        BY <3>1, AtTask DEF Scores
      <4>2. QED
        BY <1>2, <2>0, <3>0, <3>1, <4>1 DEF Scores, Moves, Placed, Switched, Undeployed, At, Task
    <3>2. ASSUME NEW n \in Nat, n > 0, Moves(r, Task(r), n), Task(r) # "deploy" PROVE Placed(r)'
      BY <1>2, <2>0, <3>0, <3>2 DEF Moves, Placed, Switched, At, Task
    <3>3. CASE ~Scores(r)
      <4>1. \E n \in 1..4 : Moves(r, Task(r), n) /\ Task(r) # "deploy"
        BY <2>2, <3>3, AtTask DEF Loads, Records, Crowns, Warns
      <4>2. QED
        BY <1>2, <3>2, <4>1
    <3>4. QED
      BY <3>1, <3>3
  <2>3. CASE Deploys(r)
    <3>1. pointer'.model = r
      BY <2>3 DEF Deploys, SetCurrent
    <3>2. QED
      BY <1>2, <2>3, <3>1 DEF Deploys, Moves, Placed, Undeployed, Task
  <2>4. CASE Returns(r)
    BY <1>2, <2>4 DEF Returns, Moves, Placed, Switched, Undeployed, At, Task
  <2>5. QED
    BY <2>1, <2>2, <2>3, <2>4 DEF RunStep
<1>3. QED
  BY <1>1, <1>2

(* Two rounds that a watch counts are two rounds of its model.              *)
LEMMA TwoRounds ==
  ASSUME WatchInv, NEW r \in Runs, ~(Len(rounds[r]) < 2)
  PROVE  Watched(r)
<1>1. PICK seen \in Seq(Rounds) : seen = rounds[r] /\ Len(seen) \in Nat /\ DOMAIN seen = 1..Len(seen)
  BY LenProperties DEF WatchInv
<1>2. 1 \in DOMAIN seen /\ 2 \in DOMAIN seen
  BY <1>1
<1>3. CountsOwn(r)
  BY DEF WatchInv
<1>4. /\ seen[1].at \in DOMAIN log /\ log[seen[1].at].model = r
      /\ seen[2].at \in DOMAIN log /\ log[seen[2].at].model = r
      /\ seen[1].at # seen[2].at
  BY <1>1, <1>2, <1>3 DEF CountsOwn
<1>5. QED
  BY <1>4 DEF Watched

(* What a version that is entered says.                                     *)
LEMMA RegisterEnters ==
  ASSUME NEW r, NEW status, Register(r, status)
  PROVE  /\ r \in DOMAIN versions'
         /\ r \notin DOMAIN versions => versions'[r].status = status
         /\ r \in DOMAIN versions => versions' = versions
<1>1. PICK entry : entry.status = status
                   /\ versions' = IF r \in DOMAIN versions THEN versions ELSE Put(versions, r, entry)
  <2>1. [status |-> status, pool |-> ChampionInfo.pool].status = status
    OBVIOUS
  <2>2. QED
    BY <2>1 DEF Register
<1>2. r \in DOMAIN Put(versions, r, entry) /\ Put(versions, r, entry)[r] = entry
  BY DEF Put
<1>3. QED
  BY <1>1, <1>2

LEMMA RecordedSteps ==
  ASSUME ConcurrentRuns = FALSE, TypeInv, WatchInv, PipelineInv, NEW r \in Runs, RunStep(r),
         UNCHANGED log, NEW s \in Runs
  PROVE  Recorded(s)'
<1> USE DEF PipelineInv
<1>1. CASE s # r
  <2>1. Task(s)' = Task(s) /\ Task(s) \in Ends
    BY <1>1, Alone DEF Task
  <2>2. /\ DOMAIN versions' \subseteq DOMAIN versions \cup {r}
        /\ alerted' \subseteq alerted \cup {r} /\ champion' \in {champion, r}
    BY Reach
  <2>3. \A task \in Ends : task \notin {"register", "rollback"}
    BY DEF Ends
  <2>4. QED
    BY <1>1, <2>1, <2>2, <2>3 DEF Recorded
<1>2. CASE s = r
  <2>0. Recorded(r)
    OBVIOUS
  <2>1. CASE Quiet(r) \/ Scores(r) \/ Loads(r) \/ Deploys(r) \/ Returns(r)
    <3>0. /\ UNCHANGED <<versions, champion, alerted>> /\ (Watched(r)' <=> Watched(r))
      BY <2>1 DEF Quiet, Kept, Scores, Loads, Deploys, Returns, registryVars, Watched
    <3>1. ASSUME NEW t \in Undeployed \cup {"deploy", "watch"},
                 NEW u \in Undeployed \cup {"deploy", "watch"}, Task(r) = t, at'[r][1] = u
          PROVE  Recorded(r)'
      <4>1. u \notin {"register", "rollback"} /\ t \notin {"register", "accepted", "failed"}
        BY DEF Undeployed
      <4>2. QED
        BY <2>0, <3>0, <3>1, <4>1 DEF Recorded, Task
    <3>2. ASSUME NEW u \in {"accepted", "failed"}, at'[r][1] = u PROVE Recorded(r)'
      <4>1. u \notin Undeployed \cup {"deploy", "watch", "register", "rollback"}
        BY DEF Undeployed
      <4>2. QED
        BY <3>2, <4>1 DEF Recorded, Task
    <3>3. CASE Quiet(r)
      <4>1. CASE Starts(r) \/ Prepares(r) \/ Decides(r)
        <5>1. \A task \in Preparing : task \in Undeployed
          BY DEF Preparing, Undeployed
        <5>2. \A task \in {"idle", "build_data", "gate", "reject"} : task \in Undeployed
          BY DEF Undeployed
        <5>3. /\ Task(r) \in Undeployed \cup {"deploy", "watch"}
              /\ at'[r][1] \in Undeployed \cup {"deploy", "watch"}
          BY <4>1, <5>1, <5>2 DEF Starts, Prepares, Decides, Moves
        <5>4. QED
          BY <1>2, <3>1, <5>3
      <4>2. CASE Leaves(r)
        <5>1. CASE At(r, "reject", 1) /\ Moves(r, "rejected", 0)
          <6>1. Task(r) = "reject" /\ at'[r][1] = "rejected"
            BY <5>1, AtTask DEF Moves
          <6>2. QED
            BY <1>2, <3>1, <6>1 DEF Undeployed
        <5>2. CASE At(r, "deploy", 1) /\ Moves(r, "watch", 0)
          <6>1. Task(r) = "deploy" /\ at'[r][1] = "watch"
            BY <5>2, AtTask DEF Moves
          <6>2. QED
            BY <1>2, <3>1, <6>1
        <5>3. CASE Moves(r, "accepted", 0)
          BY <1>2, <3>2, <5>3 DEF Moves
        <5>4. CASE At(r, "rollback", 4) /\ Moves(r, "rolled back", 0)
          <6>1. Task(r) = "rollback" /\ at'[r][1] = "rolled back"
            BY <5>4, AtTask DEF Moves
          <6>2. QED
            BY <1>2, <2>0, <3>0, <6>1 DEF Recorded, Task, Undeployed
        <5>5. QED
          BY <4>2, <5>1, <5>2, <5>3, <5>4 DEF Leaves
      <4>3. CASE Watches(r)
        <5>1. CASE \E n \in Nat : Moves(r, "watch", n)
          BY <1>2, <3>1, <4>3, <5>1 DEF Watches, Moves
        <5>2. CASE Moves(r, "register", 0) /\ ~(Len(rounds[r]) < 2)
          <6>1. Watched(r)
            BY <5>2, TwoRounds
          <6>2. QED
            BY <1>2, <2>0, <3>0, <4>3, <5>2, <6>1 DEF Watches, Moves, Recorded, Task, Undeployed
        <5>3. CASE Moves(r, "rollback", 0)
          BY <1>2, <2>0, <3>0, <4>3, <5>3 DEF Watches, Moves, Recorded, Task, Undeployed
        <5>4. QED
          BY <4>3, <5>1, <5>2, <5>3 DEF Watches
      <4>4. CASE GivesUp(r)
        <5>1. CASE Moves(r, "failed", 0)
          BY <1>2, <3>2, <5>1 DEF Moves
        <5>2. CASE Moves(r, Task(r), 0)
          BY <1>2, <2>0, <3>0, <5>2 DEF Moves, Recorded, Task
        <5>3. QED
          BY <4>4, <5>1, <5>2 DEF GivesUp
      <4>5. QED
        BY <3>3, <4>1, <4>2, <4>3, <4>4 DEF Quiet
    <3>4. CASE Scores(r)
      <4>1. Task(r) = "score" /\ at'[r][1] = "gate"
        BY <3>4, AtTask DEF Scores, Moves
      <4>2. QED
        BY <1>2, <3>1, <4>1 DEF Undeployed
    <3>5. CASE Loads(r) \/ Deploys(r) \/ Returns(r)
      <4>1. PICK n \in 0..2 :
              /\ Moves(r, Task(r), n + 1) /\ at[r][2] = n
              /\ Task(r) = "rollback" => n \in {0, 1}
              /\ Task(r) = "register" => n = 2
        BY <3>5, AtTask DEF Loads, Deploys, Returns
      <4>2. QED
        BY <1>2, <2>0, <3>0, <3>5, <4>1 DEF Moves, Recorded, Task
    <3>6. QED
      BY <2>1, <3>3, <3>4, <3>5
  <2>2. CASE Records(r)
    <3>1. CASE At(r, "register", 0) /\ Moves(r, "register", 1) /\ Register(r, "candidate")
      <4>1. Task(r) = "register" /\ UNCHANGED <<champion, alerted>> /\ (Watched(r)' <=> Watched(r))
        BY <2>2, <3>1, AtTask DEF Records, Watched
      <4>2. r \in DOMAIN versions' /\ versions'[r].status = "candidate"
        BY <2>0, <3>1, <4>1, RegisterEnters DEF Recorded
      <4>3. QED
        BY <1>2, <2>0, <3>1, <4>1, <4>2 DEF Moves, Recorded, Task, Undeployed
    <3>2. CASE At(r, "rollback", 2) /\ Moves(r, "rollback", 3) /\ Register(r, "rejected")
      <4>1. Task(r) = "rollback" /\ UNCHANGED <<champion, alerted>>
        BY <2>2, <3>2, AtTask DEF Records
      <4>2. r \in DOMAIN versions' /\ versions'[r].status = "rejected"
        BY <2>0, <3>2, <4>1, RegisterEnters DEF Recorded
      <4>3. QED
        BY <1>2, <2>0, <3>2, <4>1, <4>2 DEF Moves, Recorded, Task, Undeployed
    <3>3. QED
      BY <2>2, <3>1, <3>2 DEF Records
  <2>3. CASE Crowns(r)
    <3>1. Task(r) = "register" /\ UNCHANGED <<versions, alerted>> /\ champion' = r
          /\ (Watched(r)' <=> Watched(r)) /\ Moves(r, "register", 2)
      BY <2>3, AtTask DEF Crowns, Watched
    <3>2. QED
      BY <1>2, <2>0, <3>1 DEF Moves, Recorded, Task, Undeployed
  <2>4. CASE Warns(r)
    <3>1. /\ Task(r) = "rollback" /\ at[r][2] = 3 /\ UNCHANGED <<versions, champion>>
          /\ alerted' = alerted \cup {r} /\ Moves(r, "rollback", 4)
      BY <2>4, AtTask DEF Warns, registryVars
    <3>2. QED
      BY <1>2, <2>0, <3>1 DEF Moves, Recorded, Task, Undeployed
  <2>5. QED
    BY <2>1, <2>2, <2>3, <2>4 DEF RunStep
<1>3. QED
  BY <1>1, <1>2

(* A run's score is the only answer that a step saves, and it saves it      *)
(* before anybody is compared with it.                                      *)
LEMMA SamplesSteps ==
  ASSUME TypeInv, PipelineInv, NEW r \in Runs, RunStep(r)
  PROVE  /\ \A name \in DOMAIN samples : name \in DOMAIN samples' /\ (name # r => samples'[name] = samples[name])
         /\ UNCHANGED samples \/ (Scores(r) /\ r \in DOMAIN samples')
<1>1. CASE Scores(r)
  <2>1. PICK answers : samples' = Put(samples, r, answers)
    BY <1>1 DEF Scores
  <2>2. QED
    BY <1>1, <2>1 DEF Put
<1>2. CASE ~Scores(r)
  BY <1>2 DEF RunStep, Quiet, Kept, Loads, Deploys, Returns, Records, Crowns, Warns
<1>3. QED
  BY <1>1, <1>2

LEMMA ScoresUnseen ==
  ASSUME PipelineInv, NEW r \in Runs, Scores(r)
  PROVE  champion # r /\ ~PointsTo(r) /\ CurrentModel # r
<1>1. Task(r) = "score"
  BY AtTask DEF Scores
<1>2. champion # r /\ ~PointsTo(r)
  BY <1>1 DEF PipelineInv, Placed, Recorded, Undeployed
<1>3. QED
  BY <1>2 DEF CurrentModel, ChampionInfo, PointsTo

LEMMA AnsweredSteps ==
  ASSUME TypeInv, PipelineInv, NEW r \in Runs, RunStep(r)
  PROVE  Answered'
<1> USE DEF PipelineInv
<1>0. Answered /\ Placed(r) /\ Backed(r) /\ Deployed(r)
  BY DEF TypeInv
<1>1. CASE Scores(r)
  <2>1. UNCHANGED <<pointer, champion>>
    BY <1>1 DEF Scores, registryVars
  <2>2. champion # r /\ ~PointsTo(r) /\ CurrentModel # r
    BY <1>1, ScoresUnseen
  <2>3. /\ \A name \in DOMAIN samples : name \in DOMAIN samples'
        /\ \A name \in DOMAIN samples : name # r => samples'[name] = samples[name]
    BY SamplesSteps
  <2>4. CurrentModel' = CurrentModel /\ CurrentModel \in DOMAIN samples
    BY <1>0, <2>1 DEF CurrentModel, ChampionInfo, Answered
  <2>5. Sound(CurrentModel)'
    BY <1>0, <2>1, <2>2, <2>3, <2>4 DEF Answered, Sound
  <2>6. QED
    BY <1>0, <2>1, <2>3, <2>5 DEF Answered
<1>2. CASE Crowns(r)
  <2>1. Switched(r) /\ champion' = r /\ UNCHANGED <<pointer, samples>>
    BY <1>2, AtTask DEF Crowns, Switched
  <2>2. pointer # <<>> /\ pointer.model = r
    BY <1>0, <1>2, <2>1, AtTask DEF Placed, Deployed, Crowns
  <2>3. CurrentModel' = r
    BY <2>1, <2>2 DEF CurrentModel
  <2>4. QED
    BY <1>0, <2>1, <2>2, <2>3 DEF Answered, Sound
<1>3. CASE Deploys(r)
  <2>1. /\ Task(r) = "deploy" /\ UNCHANGED <<champion, samples>>
        /\ pointer' = [model |-> r, previous |-> CurrentModel]
    BY <1>3, AtTask DEF Deploys, SetCurrent, registryVars
  <2>2. r \in DOMAIN samples /\ Passes(samples[r], samples[champion])
    BY <1>0, <2>1 DEF Backed
  <2>3. PICK c : c = CurrentModel /\ c \in DOMAIN samples
    BY <1>0 DEF CurrentModel, ChampionInfo, Answered
  <2>4. pointer' # <<>> /\ pointer'.model = r /\ pointer'.previous = c
    <3>1. "model" \in DOMAIN pointer'
      BY <2>1
    <3>2. QED
      BY <2>1, <2>3, <3>1
  <2>5. CurrentModel' = r
    BY <2>4 DEF CurrentModel
  <2>6. QED
    BY <1>0, <2>1, <2>2, <2>3, <2>4, <2>5 DEF Answered, Sound
<1>4. CASE Returns(r) /\ CurrentModel = r
  <2>1. /\ Task(r) = "rollback" /\ UNCHANGED <<champion, samples>>
        /\ pointer' = [model |-> pointer.previous, previous |-> r]
    BY <1>4, AtTask DEF Returns, SwitchBack, SetCurrent, registryVars
  <2>2. pointer # <<>> /\ pointer.model = r /\ Sound(pointer.previous)
    BY <1>0, <1>4, <2>1 DEF Deployed, Backed, CurrentModel
  <2>3. pointer' # <<>> /\ pointer'.model = pointer.previous /\ pointer'.previous = r
    <3>1. "model" \in DOMAIN pointer'
      BY <2>1
    <3>2. QED
      BY <2>1, <3>1
  <2>4. CurrentModel' = pointer.previous
    BY <2>3 DEF CurrentModel
  <2>5. QED
    BY <1>0, <2>1, <2>2, <2>3, <2>4 DEF Answered, Sound
<1>5. CASE UNCHANGED <<pointer, champion, samples>>
  BY <1>0, <1>5 DEF Answered, Sound, CurrentModel, ChampionInfo
<1>6. QED
  BY <1>1, <1>2, <1>3, <1>4, <1>5
     DEF RunStep, Quiet, Kept, Loads, Returns, SwitchBack, Records, Warns, registryVars

LEMMA BackedSteps ==
  ASSUME ConcurrentRuns = FALSE, TypeInv, PipelineInv, NEW r \in Runs, RunStep(r), NEW s \in Runs
  PROVE  Backed(s)'
<1> USE DEF PipelineInv
<1>0. ASSUME NEW t \in Runs, Task(t)' \notin {"gate", "deploy", "watch", "rollback"} PROVE Backed(t)'
  <2>1. ~At(t, "deploy", 1)'
    BY <1>0 DEF At, Task
  <2>2. QED
    BY <1>0, <2>1 DEF Backed
<1>1. CASE s # r
  <2>1. Task(s)' = Task(s) /\ Task(s) \in Ends
    BY <1>1, Alone DEF Task
  <2>2. \A task \in Ends : task \notin {"gate", "deploy", "watch", "rollback"}
    BY DEF Ends
  <2>3. QED
    BY <1>0, <2>1, <2>2
<1>2. CASE s = r
  <2>0. Backed(r) /\ Answered
    OBVIOUS
  <2>1. ASSUME NEW task, NEW n, Moves(r, task, n) PROVE Task(r)' = task /\ at'[r] = <<task, n>>
    BY <2>1 DEF Moves, Task
  <2>2. ASSUME NEW task, NEW n, Moves(r, task, n),
               task \notin {"gate", "deploy", "watch", "rollback"}
        PROVE  Backed(r)'
    BY <1>0, <2>1, <2>2
  <2>3. ASSUME UNCHANGED <<pointer, samples, champion>>, NEW task \in {"watch", "rollback"}, NEW n,
               Moves(r, task, n), At(r, "deploy", 1) \/ Task(r) \in {"watch", "rollback"}
        PROVE  Backed(r)'
    BY <2>0, <2>1, <2>3 DEF Backed, Sound, CurrentModel, ChampionInfo
  <2>4. CASE Quiet(r)
    <3>0. UNCHANGED <<pointer, samples, champion>>
      BY <2>4 DEF Quiet, Kept, registryVars
    <3>1. CASE Starts(r)
      BY <1>2, <2>2, <3>1 DEF Starts
    <3>2. CASE Prepares(r)
      <4>1. \A task \in Preparing : task \notin {"gate", "deploy", "watch", "rollback"}
        BY DEF Preparing
      <4>2. QED
        BY <1>2, <2>2, <3>2, <4>1 DEF Prepares
    <3>3. CASE Decides(r)
      <4>1. CASE Moves(r, "deploy", 0) /\ Passes(samples[r], samples[champion])
        <5>1. Task(r)' = "deploy" /\ at'[r] = <<"deploy", 0>> /\ Task(r) = "gate"
          BY <2>1, <3>3, <4>1 DEF Decides
        <5>2. ~At(r, "deploy", 1)'
          BY <5>1 DEF At
        <5>3. QED
          BY <1>2, <2>0, <3>0, <4>1, <5>1, <5>2 DEF Backed
      <4>2. CASE Moves(r, "reject", 0)
        BY <1>2, <2>2, <4>2
      <4>3. QED
        BY <3>3, <4>1, <4>2 DEF Decides
    <3>4. CASE Leaves(r)
      <4>1. CASE At(r, "deploy", 1) /\ Moves(r, "watch", 0)
        BY <1>2, <2>3, <3>0, <4>1
      <4>2. CASE Moves(r, "rejected", 0) \/ Moves(r, "accepted", 0) \/ Moves(r, "rolled back", 0)
        BY <1>2, <2>2, <4>2
      <4>3. QED
        BY <3>4, <4>1, <4>2 DEF Leaves
    <3>5. CASE Watches(r)
      <4>1. CASE Moves(r, "register", 0)
        BY <1>2, <2>2, <4>1
      <4>2. CASE ~Moves(r, "register", 0)
        BY <1>2, <2>3, <3>0, <3>5, <4>2 DEF Watches
      <4>3. QED
        BY <4>1, <4>2
    <3>6. CASE GivesUp(r)
      <4>1. CASE Moves(r, "failed", 0)
        BY <1>2, <2>2, <4>1
      <4>2. CASE Moves(r, Task(r), 0)
        <5>1. CASE Task(r) \in {"watch", "rollback"}
          BY <1>2, <2>3, <3>0, <4>2, <5>1
        <5>2. CASE Task(r) \notin {"watch", "rollback"}
          <6>1. Task(r)' = Task(r) /\ at'[r] = <<Task(r), 0>>
            BY <2>1, <4>2
          <6>2. ~At(r, "deploy", 1)'
            BY <6>1 DEF At
          <6>3. QED
            BY <1>2, <2>0, <3>0, <5>2, <6>1, <6>2 DEF Backed
        <5>3. QED
          BY <5>1, <5>2
      <4>3. QED
        BY <3>6, <4>1, <4>2 DEF GivesUp
    <3>7. QED
      BY <2>4, <3>1, <3>2, <3>3, <3>4, <3>5, <3>6 DEF Quiet
  <2>5. CASE Scores(r)
    <3>1. r \in DOMAIN samples'
      BY <2>5 DEF Scores, Put
    <3>2. Task(r)' = "gate" /\ at'[r] = <<"gate", 0>>
      BY <2>1, <2>5 DEF Scores
    <3>3. ~At(r, "deploy", 1)'
      BY <3>2 DEF At
    <3>4. QED
      BY <1>2, <3>1, <3>2, <3>3 DEF Backed
  <2>6. CASE Loads(r) \/ Records(r) \/ Crowns(r) \/ Warns(r)
    <3>1. CASE Task(r) = "rollback"
      <4>1. UNCHANGED <<pointer, samples, champion>> /\ \E n \in {2, 3, 4} : Moves(r, "rollback", n)
        BY <2>6, <3>1, AtTask DEF Loads, Records, Crowns, Warns, registryVars
      <4>2. QED
        BY <1>2, <2>3, <3>1, <4>1
    <3>2. CASE Task(r) # "rollback"
      <4>1. \E task \in {"load", "reject", "register"}, n \in Nat : Moves(r, task, n)
        BY <2>6, <3>2, AtTask DEF Loads, Records, Crowns, Warns
      <4>2. QED
        BY <1>2, <2>2, <4>1
    <3>3. QED
      BY <3>1, <3>2
  <2>7. CASE Deploys(r)
    <3>1. /\ Task(r) = "deploy" /\ UNCHANGED <<champion, samples>> /\ Moves(r, "deploy", 1)
          /\ pointer' = [model |-> r, previous |-> CurrentModel]
      BY <2>7, AtTask DEF Deploys, SetCurrent, registryVars
    <3>2. PICK c : c = CurrentModel /\ Sound(c)
      BY <2>0 DEF Answered
    <3>3. pointer'.previous = c
      BY <3>1, <3>2
    <3>4. Sound(pointer.previous)'
      BY <3>1, <3>2, <3>3 DEF Sound
    <3>5. Task(r)' = "deploy"
      BY <2>1, <3>1
    <3>6. QED
      BY <1>2, <2>0, <3>1, <3>4, <3>5 DEF Backed
  <2>8. CASE Returns(r)
    <3>1. Task(r) = "rollback" /\ UNCHANGED <<champion, samples>> /\ Moves(r, "rollback", 1)
      BY <2>8, AtTask DEF Returns, registryVars
    <3>2. CASE CurrentModel = r
      <4>1. pointer' = [model |-> pointer.previous, previous |-> r] /\ Sound(r)
        BY <2>0, <2>8, <3>2 DEF Returns, SwitchBack, SetCurrent, Answered
      <4>2. pointer'.previous = r
        BY <4>1
      <4>3. Sound(pointer.previous)'
        BY <3>1, <4>1, <4>2 DEF Sound
      <4>4. Task(r)' = "rollback"
        BY <2>1, <3>1
      <4>5. QED
        BY <1>2, <4>3, <4>4 DEF Backed
    <3>3. CASE CurrentModel # r
      <4>1. UNCHANGED pointer
        BY <2>8, <3>3 DEF Returns, SwitchBack
      <4>2. QED
        BY <1>2, <2>3, <3>1, <4>1
    <3>4. QED
      BY <3>2, <3>3
  <2>9. QED
    BY <2>4, <2>5, <2>6, <2>7, <2>8 DEF RunStep
<1>3. QED
  BY <1>1, <1>2

LEMMA ChampionSteps ==
  ASSUME TypeInv, PipelineInv, NEW r \in Runs, RunStep(r), UNCHANGED log
  PROVE  ChampionInv'
<1>1. \A name : Watched(name)' <=> Watched(name)
  BY DEF Watched
<1>2. CASE Crowns(r)
  <2>1. Task(r) = "register" /\ champion' = r /\ UNCHANGED <<versions, alerted>> /\ r \in DOMAIN versions
    BY <1>2, AtTask DEF Crowns, TypeInv, Deployed
  <2>2. Watched(r) /\ versions[r].status = "candidate" /\ r \notin alerted
    BY <2>1 DEF PipelineInv, Recorded
  <2>3. QED
    BY <1>1, <2>1, <2>2 DEF ChampionInv
<1>3. CASE UNCHANGED champion
  <2>1. versions'[champion] = versions[champion]
    BY RegistrySteps DEF TypeInv, RegistryType
  <2>2. champion \in Runs /\ champion \notin alerted => champion \notin alerted'
    <3>1. CASE Warns(r)
      <4>1. Task(r) = "rollback" /\ alerted' = alerted \cup {r}
        BY <3>1, AtTask DEF Warns
      <4>2. champion # r
        BY <4>1 DEF PipelineInv, Recorded
      <4>3. QED
        BY <4>1, <4>2
    <3>2. CASE UNCHANGED alerted
      BY <3>2
    <3>3. QED
      BY <3>1, <3>2 DEF RunStep, Quiet, Kept, Scores, Loads, Deploys, Returns, Records, Crowns
  <2>3. QED
    BY <1>1, <1>3, <2>1, <2>2 DEF PipelineInv, ChampionInv
<1>4. QED
  BY <1>2, <1>3
     DEF RunStep, Quiet, Kept, Scores, Loads, Deploys, Returns, Records, Warns, registryVars

LEMMA WatchedStays ==
  ASSUME TypeInv, CanaryActs, NEW name, Watched(name)
  PROVE  Watched(name)'
<1>1. PICK i \in DOMAIN log, j \in DOMAIN log : i # j /\ log[i].model = name /\ log[j].model = name
  BY DEF Watched
<1>2. CASE ScoreRound
  <2>1. PICK low \in BOOLEAN : log' = Append(log, [model |-> asks, low |-> low])
    BY <1>2 DEF ScoreRound
  <2>2. PICK e \in LogEntries : log' = Append(log, e)
    BY <2>1 DEF TypeInv, CanaryType, LogEntries
  <2>3. \A k \in DOMAIN log : k \in DOMAIN log' /\ log'[k] = log[k]
    <3>1. DOMAIN log = 1..Len(log) /\ DOMAIN log' = 1..(Len(log) + 1) /\ Len(log) \in Nat
          /\ \A k \in DOMAIN log : log'[k] = log[k]
      BY <2>2, LogGrows DEF TypeInv
    <3>2. QED
      BY <3>1
  <2>4. QED
    BY <1>1, <2>3 DEF Watched
<1>3. CASE UNCHANGED log
  BY <1>1, <1>3 DEF Watched
<1>4. QED
  BY <1>2, <1>3 DEF CanaryActs, CanaryStep, StartRound, CanaryDies, StampRound, FailRound, Scrape

LEMMA PipelineStep ==
  ASSUME ConcurrentRuns = FALSE, TypeInv, WatchInv, PipelineInv, [PipelineNext]_allVars
  PROVE  PipelineInv'
<1>1. ASSUME NEW r \in Runs, RunActs(r) PROVE PipelineInv'
  <2>1. RunStep(r) /\ UNCHANGED log
    BY <1>1, RunsStep DEF TypeInv, canaryVars
  <2>2. OneAtATime'
    BY <2>1, Alone DEF PipelineInv
  <2>3. QED
    BY <2>1, <2>2, AnsweredSteps, ChampionSteps, PlacedSteps, RecordedSteps, BackedSteps DEF PipelineInv
<1>2. CASE UNCHANGED <<pointer, samples, at, versions, champion, alerted>>
           /\ \A name : Watched(name) => Watched(name)'
  <2>1. OneAtATime' /\ Answered'
    BY <1>2 DEF PipelineInv, OneAtATime, Active, Answered, Sound, CurrentModel, ChampionInfo
  <2>2. ChampionInv'
    BY <1>2 DEF PipelineInv, ChampionInv
  <2>3. ASSUME NEW r \in Runs PROVE Placed(r)' /\ Recorded(r)' /\ Backed(r)'
    <3>1. Placed(r)'
      BY <1>2 DEF PipelineInv, Placed, PointsTo, Switched, At, Task
    <3>2. Recorded(r)'
      BY <1>2 DEF PipelineInv, Recorded, Task
    <3>3. Backed(r)'
      BY <1>2 DEF PipelineInv, Backed, Sound, CurrentModel, ChampionInfo, At, Task
    <3>4. QED
      BY <3>1, <3>2, <3>3
  <2>4. QED
    BY <2>1, <2>2, <2>3 DEF PipelineInv
<1>3. CASE CanaryActs
  BY <1>2, <1>3, WatchedStays, CanarySteps DEF pipelineVars, runVars, registryVars
<1>4. CASE RestartVllm \/ UNCHANGED allVars
  <2>1. UNCHANGED <<pointer, samples, at, versions, champion, alerted, log>>
    BY <1>4 DEF RestartVllm, allVars, pipelineVars, runVars, registryVars, canaryVars
  <2>2. \A name : Watched(name) => Watched(name)'
    BY <2>1 DEF Watched
  <2>3. QED
    BY <1>2, <2>1, <2>2
<1>5. QED
  BY <1>1, <1>3, <1>4 DEF PipelineNext

LEMMA WatchedTwice ==
  ASSUME CanaryType, NEW name, Watched(name)
  PROVE  Cardinality({ k \in DOMAIN log : log[k].model = name }) >= 2
<1> DEFINE own == { k \in DOMAIN log : log[k].model = name }
<1>1. PICK i \in own, j \in own : i # j
  BY DEF Watched
<1>2. IsFiniteSet(own)
  <2>1. DOMAIN log = 1..Len(log) /\ Len(log) \in Nat
    BY LenProperties DEF CanaryType
  <2>2. IsFiniteSet(1..Len(log))
    BY <2>1, FS_Interval
  <2>3. QED
    BY <2>1, <2>2, FS_Subset
<1>3. IsFiniteSet({i}) /\ Cardinality({i}) = 1
  BY FS_Singleton
<1>4. Cardinality({i} \cup {j}) = 2 /\ IsFiniteSet({i} \cup {j})
  <2>1. j \notin {i}
    BY <1>1
  <2>2. /\ IsFiniteSet({i} \cup {j})
        /\ Cardinality({i} \cup {j}) = IF j \in {i} THEN Cardinality({i}) ELSE Cardinality({i}) + 1
    <3> HIDE DEF own
    <3>1. IsFiniteSet({i})
      BY <1>3
    <3>2. QED
      BY <3>1, FS_AddElement, Zenon
  <2>3. QED
    BY <1>3, <2>1, <2>2
<1>5. Cardinality({i} \cup {j}) <= Cardinality(own)
  BY <1>1, <1>2, <1>4, FS_Subset
<1>6. Cardinality(own) \in Nat
  BY <1>2, FS_CardinalityType
<1>7. QED
  BY <1>4, <1>5, <1>6

(* The pointer moves in a step of a run, to somebody who is as good.        *)
LEMMA EarnedStep ==
  ASSUME TypeInv, PipelineInv, [PipelineNext]_allVars, pointer' # pointer, CurrentModel' # champion
  PROVE  Passes(samples[CurrentModel'], samples[champion])
<1>1. PICK r \in Runs : RunStep(r) /\ (Deploys(r) \/ Returns(r))
  <2>1. ~CanaryActs /\ ~RestartVllm /\ ~UNCHANGED allVars
    BY CanarySteps DEF RestartVllm, allVars
  <2>2. PICK r \in Runs : RunActs(r)
    BY <2>1 DEF PipelineNext
  <2>3. RunStep(r)
    BY <2>2, RunsStep DEF TypeInv
  <2>4. QED
    BY <2>3 DEF RunStep, Quiet, Kept, Scores, Loads, Records, Crowns, Warns
<1>2. UNCHANGED <<champion, samples>>
  BY <1>1 DEF Deploys, Returns, registryVars
<1>3. Sound(CurrentModel)'
  BY <1>1, AnsweredSteps DEF Answered
<1>4. QED
  BY <1>2, <1>3 DEF Sound

(* gate(), deploy(), rollback() and register_champion(): when the DAG's     *)
(* runs follow one another and no scrape falls into a reading, whoever the  *)
(* pointer moves to has passed the gate against the champion of that        *)
(* moment, and the champion itself was watched for two rounds and kept its  *)
(* pool, whichever tasks fail.                                              *)
THEOREM ChampionEarnsItsPlace ==
  ASSUME ConcurrentRuns = FALSE, TornReadings = FALSE
  PROVE  PipelineSpec => ChampionIsEarned
<1>1. PipelineInit => TypeInv /\ WatchInv /\ PipelineInv
  BY TypeInit, WatchInit, PipelineInvInit
<1>2. TypeInv /\ WatchInv /\ PipelineInv /\ [PipelineNext]_allVars
        => TypeInv' /\ WatchInv' /\ PipelineInv'
  BY TypeStep, WatchStep, PipelineStep
<1>3. TypeInv /\ PipelineInv => ChampionWasWatched /\ PoolIsKept
  <2> SUFFICES ASSUME TypeInv, PipelineInv PROVE ChampionWasWatched /\ PoolIsKept
    OBVIOUS
  <2>1. ASSUME NEW name \in DOMAIN versions PROVE versions[name].pool = Base
    <3>1. versions[name] \in Versions
      BY DEF TypeInv, RegistryType
    <3>2. QED
      BY <3>1 DEF Versions
  <2>2. champion \in Runs => Cardinality({ k \in DOMAIN log : log[k].model = champion }) >= 2
    BY WatchedTwice DEF TypeInv, PipelineInv, ChampionInv
  <2>3. QED
    BY <2>1, <2>2 DEF PoolIsKept, ChampionWasWatched, PipelineInv, ChampionInv
<1>4. TypeInv /\ PipelineInv /\ [PipelineNext]_allVars
        => [pointer' # pointer /\ CurrentModel' # champion
              => Passes(samples[CurrentModel'], samples[champion])]_allVars
  BY EarnedStep
<1>5. QED
  BY <1>1, <1>2, <1>3, <1>4, PTL DEF PipelineSpec, ChampionIsEarned

-----------------------------------------------------------------------------
(* The pointer and the adapters, when a deployment is not tried again       *)

(* The pointer moves to r with the model before beside it, and back to that *)
(* in the first step of a roll back.                                        *)
Pointed(r) ==
  /\ Task(r) \in Undeployed => before[r] = r
  /\ Task(r) = "deploy" /\ at[r][2] = 0 => before[r] = r /\ ~PointsTo(r)
  /\ (Task(r) = "deploy" /\ at[r][2] # 0) \/ Task(r) \in {"watch", "register"} =>
       before[r] # r /\ pointer.model = r /\ pointer.previous = before[r]
  /\ Task(r) = "rollback" =>
       /\ before[r] # r
       /\ \/ at[r][2] = 0 /\ pointer.model = r /\ pointer.previous = before[r]
          \/ pointer.model = before[r]

(* The model before stays loaded for as long as it may be gone back to.     *)
Loaded(r) ==
  /\ \/ Task(r) = "deploy" /\ at[r][2] # 0
     \/ Task(r) = "watch"
     \/ Task(r) = "rollback" /\ CurrentModel = r
     => restarted \/ before[r] \in adapters
  /\ Task(r) = "reject" /\ at[r][2] = 1 => r \notin adapters
  /\ Task(r) = "rollback" /\ at[r][2] \in {2, 3, 4} => r \notin adapters
  /\ Task(r) = "register" /\ at[r][2] = 3 => restarted \/ before[r] \notin adapters

RetryInv == PointerIsLoaded /\ \A r \in Runs : Pointed(r) /\ Loaded(r)

LEMMA RetryInvInit == PipelineInit => RetryInv
<1> SUFFICES ASSUME PipelineInit PROVE RetryInv
  OBVIOUS
<1> USE DEF PipelineInit, CanaryInit
<1>1. PointerIsLoaded
  BY DEF PointerIsLoaded, CurrentModel, ChampionInfo
<1>2. ASSUME NEW r \in Runs PROVE Pointed(r) /\ Loaded(r)
  BY DEF Pointed, Loaded, Task
<1>3. QED
  BY <1>1, <1>2 DEF RetryInv

(* Who is current while r has the pointer, and before it gets it.           *)
LEMMA CurrentWhile ==
  ASSUME TypeInv, PipelineInv, RetryInv, NEW r \in Runs
  PROVE  /\ Task(r) \in Undeployed \/ (Task(r) = "deploy" /\ at[r][2] = 0) =>
              ~PointsTo(r) /\ CurrentModel # r
         /\ Task(r) \in {"watch", "register"} => pointer # <<>> /\ CurrentModel = r
         /\ Task(r) = "rollback" =>
              /\ pointer # <<>> /\ CurrentModel = pointer.model
              /\ CurrentModel = r => pointer.previous = before[r]
              /\ at[r][2] # 0 => CurrentModel = before[r] /\ CurrentModel # r
<1>1. Pointed(r) /\ Deployed(r) /\ Placed(r) /\ Recorded(r)
  BY DEF RetryInv, TypeInv, PipelineInv
<1>2. ASSUME Task(r) \in Undeployed \/ (Task(r) = "deploy" /\ at[r][2] = 0)
      PROVE  ~PointsTo(r) /\ CurrentModel # r
  <2>1. ~PointsTo(r)
    BY <1>1, <1>2 DEF Pointed, Placed
  <2>2. champion # r
    BY <1>1, <1>2 DEF Recorded, Undeployed
  <2>3. QED
    BY <2>1, <2>2 DEF PointsTo, CurrentModel, ChampionInfo
<1>3. ASSUME Task(r) \in {"watch", "register", "rollback"}
      PROVE  pointer # <<>> /\ CurrentModel = pointer.model
  BY <1>1, <1>3 DEF Deployed, CurrentModel
<1>4. QED
  BY <1>1, <1>2, <1>3 DEF Pointed

(* The run that moves is the only one that the pointer waits for.           *)
LEMMA OthersRest ==
  ASSUME ConcurrentRuns = FALSE, TypeInv, PipelineInv, RetryInv, NEW r \in Runs, RunStep(r),
         NEW s \in Runs \ {r}
  PROVE  Pointed(s)' /\ Loaded(s)'
<1>1. Task(s)' = Task(s) /\ Task(s) \in Ends
  BY Alone DEF Task, PipelineInv
<1>2. \A task \in Ends : task \notin {"deploy", "watch", "register", "rollback", "reject"}
  BY DEF Ends
<1>3. before'[s] = before[s]
  <2>1. CASE Deploys(r)
    BY <2>1 DEF Deploys, TypeInv
  <2>2. CASE UNCHANGED before
    BY <2>2
  <2>3. QED
    BY <2>1, <2>2 DEF RunStep, Quiet, Kept, Scores, Loads, Returns, Records, Crowns, Warns
<1>4. Pointed(s)
  BY DEF RetryInv
<1>5. QED
  BY <1>1, <1>2, <1>3, <1>4 DEF Pointed, Loaded

(* A step of r that leaves the pointer and the adapters alone.              *)
LEMMA QuietKeeps ==
  ASSUME TypeInv, PipelineInv, RetryInv, NEW r \in Runs, Quiet(r), "deploy" \notin Faults
  PROVE  Pointed(r)' /\ Loaded(r)'
<1>0. /\ UNCHANGED <<pointer, adapters, before, restarted>> /\ CurrentModel' = CurrentModel
      /\ PointsTo(r)' <=> PointsTo(r)
  BY DEF Quiet, Kept, registryVars, CurrentModel, ChampionInfo, PointsTo
<1>1. Pointed(r) /\ Loaded(r)
  BY DEF RetryInv
<1>2. ASSUME NEW task, NEW n, Moves(r, task, n) PROVE Task(r)' = task /\ at'[r][2] = n
  BY <1>2 DEF Moves, Task
<1>3. ASSUME NEW task \in Undeployed, NEW n \in Nat, Moves(r, task, n), Task(r) \in Undeployed,
             task # "reject" \/ n = 0
      PROVE  Pointed(r)' /\ Loaded(r)'
  <2>1. task \notin {"deploy", "watch", "register", "rollback"}
    BY <1>3 DEF Undeployed
  <2>2. QED
    BY <1>0, <1>1, <1>2, <1>3, <2>1 DEF Pointed, Loaded
<1>4. ASSUME NEW task \in {"accepted", "rolled back", "failed"}, NEW n, Moves(r, task, n)
      PROVE  Pointed(r)' /\ Loaded(r)'
  <2>1. task \notin Undeployed \cup {"deploy", "watch", "register", "rollback", "reject"}
    BY DEF Undeployed
  <2>2. QED
    BY <1>2, <1>4, <2>1 DEF Pointed, Loaded
<1>5. CASE Starts(r) \/ Prepares(r)
  <2>1. \A task \in Preparing \cup {"idle", "build_data"} : task \in Undeployed /\ task # "reject"
    BY DEF Preparing, Undeployed
  <2>2. Task(r) \in Undeployed /\ \E task \in Undeployed \ {"reject"}, n \in Nat : Moves(r, task, n)
    BY <1>5, <2>1 DEF Starts, Prepares
  <2>3. QED
    BY <1>3, <2>2
<1>6. CASE Decides(r)
  <2>1. Task(r) = "gate" /\ "gate" \in Undeployed /\ "reject" \in Undeployed /\ "deploy" \notin Undeployed
    BY <1>6 DEF Decides, Undeployed
  <2>2. CASE Moves(r, "deploy", 0)
    <3>1. ~PointsTo(r)
      BY <2>1, CurrentWhile
    <3>2. QED
      BY <1>0, <1>1, <1>2, <2>1, <2>2, <3>1 DEF Pointed, Loaded
  <2>3. QED
    BY <1>3, <1>6, <2>1, <2>2 DEF Decides
<1>7. CASE Leaves(r)
  <2>1. CASE At(r, "reject", 1) /\ Moves(r, "rejected", 0)
    <3>1. Task(r) \in Undeployed /\ "rejected" \in Undeployed
      BY <2>1, AtTask DEF Undeployed
    <3>2. QED
      BY <1>3, <2>1, <3>1
  <2>2. CASE At(r, "deploy", 1) /\ Moves(r, "watch", 0)
    <3>1. Task(r) = "deploy" /\ at[r][2] # 0 /\ "watch" \notin Undeployed
      BY <2>2, AtTask DEF Undeployed
    <3>2. QED
      BY <1>0, <1>1, <1>2, <2>2, <3>1 DEF Pointed, Loaded
  <2>3. QED
    BY <1>4, <1>7, <2>1, <2>2 DEF Leaves
<1>8. CASE Watches(r)
  <2>1. Task(r) = "watch" /\ \A task \in {"watch", "register", "rollback"} : task \notin Undeployed
    BY <1>8 DEF Watches, Undeployed
  <2>2. PICK task \in {"watch", "register", "rollback"}, n \in Nat :
          Moves(r, task, n) /\ (task # "watch" => n = 0)
    BY <1>8 DEF Watches
  <2>3. QED
    BY <1>0, <1>1, <1>2, <2>1, <2>2 DEF Pointed, Loaded
<1>9. CASE GivesUp(r)
  <2>1. CASE Moves(r, Task(r), 0)
    <3>1. Task(r) = "deploy" => at[r][2] = 0
      BY <1>9 DEF GivesUp
    <3>2. QED
      BY <1>0, <1>1, <1>2, <2>1, <3>1 DEF Pointed, Loaded
  <2>2. QED
    BY <1>4, <1>9, <2>1 DEF GivesUp
<1>10. QED
  BY <1>5, <1>6, <1>7, <1>8, <1>9 DEF Quiet

(* deploy() and the switch back.                                            *)
LEMMA SwitchKeeps ==
  ASSUME TypeInv, PipelineInv, RetryInv, NEW r \in Runs, Deploys(r) \/ Returns(r)
  PROVE  Pointed(r)' /\ Loaded(r)' /\ PointerIsLoaded'
<1>1. CASE Deploys(r)
  <2>1. PICK c \in Names : c = CurrentModel
    BY CurrentIsNamed DEF TypeInv
  <2>2. /\ Task(r) = "deploy" /\ at[r][2] = 0 /\ r \in adapters
        /\ pointer' = [model |-> r, previous |-> c]
        /\ before' = [before EXCEPT ![r] = IF @ = r THEN c ELSE @]
        /\ UNCHANGED <<adapters, restarted>>
    BY <1>1, <2>1, AtTask DEF Deploys, SetCurrent
  <2>3. before[r] = r /\ c # r
    BY <2>1, <2>2, CurrentWhile DEF RetryInv, Pointed
  <2>4. before'[r] = c
    BY <2>2, <2>3 DEF TypeInv
  <2>5. pointer' # <<>> /\ pointer'.model = r /\ pointer'.previous = c
    <3>1. "model" \in DOMAIN pointer'
      BY <2>2
    <3>2. QED
      BY <2>2, <3>1
  <2>6. CurrentModel' = r
    BY <2>5 DEF CurrentModel
  <2>7. Task(r)' = "deploy" /\ at'[r][2] = 1 /\ "deploy" \notin Undeployed
    BY <1>1 DEF Deploys, Moves, Task, Undeployed
  <2>8. restarted \/ c \in adapters
    BY <2>1 DEF RetryInv, PointerIsLoaded
  <2>9. Pointed(r)'
    BY <2>3, <2>4, <2>5, <2>7 DEF Pointed
  <2>10. Loaded(r)'
    BY <2>2, <2>4, <2>7, <2>8 DEF Loaded
  <2>11. QED
    BY <2>2, <2>6, <2>9, <2>10 DEF PointerIsLoaded
<1>2. CASE Returns(r)
  <2>1. /\ Task(r) = "rollback" /\ at[r][2] = 0 /\ SwitchBack(r)
        /\ UNCHANGED <<adapters, before, restarted, champion>>
    BY <1>2, AtTask DEF Returns, registryVars
  <2>2. pointer # <<>> /\ CurrentModel = pointer.model /\ (CurrentModel = r => pointer.previous = before[r])
    BY <2>1, CurrentWhile
  <2>3. Pointed(r) /\ Loaded(r) /\ PointerIsLoaded
    BY DEF RetryInv
  <2>4. Task(r)' = "rollback" /\ at'[r][2] = 1 /\ "rollback" \notin Undeployed
    BY <1>2 DEF Returns, Moves, Task, Undeployed
  <2>5. pointer' # <<>> /\ pointer'.model = before[r] /\ before[r] # r
    <3>1. CASE CurrentModel = r
      <4>1. PICK c : c = before[r] /\ c # r
        BY <2>1, <2>3 DEF Pointed
      <4>2. pointer' = [model |-> c, previous |-> r]
        BY <2>1, <2>2, <3>1, <4>1 DEF SwitchBack, SetCurrent
      <4>3. "model" \in DOMAIN pointer'
        BY <4>2
      <4>4. QED
        BY <4>1, <4>2, <4>3
    <3>2. CASE CurrentModel # r
      <4>1. UNCHANGED pointer
        BY <2>1, <3>2 DEF SwitchBack
      <4>2. QED
        BY <2>1, <2>2, <2>3, <3>2, <4>1 DEF Pointed
    <3>3. QED
      BY <3>1, <3>2
  <2>6. CurrentModel' = before[r]
    BY <2>5 DEF CurrentModel
  <2>7. ~restarted => before[r] \in adapters
    <3>1. CASE CurrentModel = r
      BY <2>1, <2>3, <3>1 DEF Loaded
    <3>2. CASE CurrentModel # r
      BY <2>1, <2>2, <2>3, <3>2 DEF Pointed, PointerIsLoaded
    <3>3. QED
      BY <3>1, <3>2
  <2>8. Pointed(r)'
    BY <2>1, <2>4, <2>5 DEF Pointed
  <2>9. Loaded(r)'
    BY <2>1, <2>4, <2>5, <2>6 DEF Loaded
  <2>10. QED
    BY <2>1, <2>6, <2>7, <2>8, <2>9 DEF PointerIsLoaded
<1>3. QED
  BY <1>1, <1>2

(* Loading and unloading: nobody takes the adapter of the current model.    *)
LEMMA LoadsKeep ==
  ASSUME TypeInv, PipelineInv, RetryInv, NEW r \in Runs, Loads(r)
  PROVE  Pointed(r)' /\ Loaded(r)' /\ PointerIsLoaded'
<1>0. /\ UNCHANGED <<pointer, before, restarted>> /\ CurrentModel' = CurrentModel
  BY DEF Loads, registryVars, CurrentModel, ChampionInfo
<1>1. Pointed(r) /\ Loaded(r) /\ PointerIsLoaded
  BY DEF RetryInv
<1>2. PICK n \in 0..3 : at[r][2] = n /\ Moves(r, Task(r), n + 1)
  BY AtTask DEF Loads
<1>3. Task(r)' = Task(r) /\ at'[r][2] = n + 1 /\ n + 1 # 0
  BY <1>2 DEF Moves, Task
<1>4. CASE Task(r) = "load"
  <2>1. adapters' = adapters \cup {r} /\ "load" \in Undeployed
    BY <1>4, AtTask DEF Loads, Undeployed
  <2>2. QED
    BY <1>0, <1>1, <1>3, <1>4, <2>1 DEF Pointed, Loaded, PointerIsLoaded
<1>5. CASE Task(r) = "reject"
  <2>1. adapters' = adapters \ {r} /\ "reject" \in Undeployed
    BY <1>5, AtTask DEF Loads, Undeployed
  <2>2. CurrentModel # r
    BY <1>5, <2>1, CurrentWhile
  <2>3. QED
    BY <1>0, <1>1, <1>3, <1>5, <2>1, <2>2 DEF Pointed, Loaded, PointerIsLoaded
<1>6. CASE Task(r) = "register"
  <2>1. /\ adapters' = IF pointer.previous # r THEN adapters \ {pointer.previous} ELSE adapters
        /\ "register" \notin Undeployed
    BY <1>6, AtTask DEF Loads, Undeployed
  <2>2. CurrentModel = r /\ pointer.previous = before[r] /\ before[r] # r
    BY <1>1, <1>6, CurrentWhile DEF Pointed
  <2>3. QED
    BY <1>0, <1>1, <1>3, <1>6, <2>1, <2>2 DEF Pointed, Loaded, PointerIsLoaded
<1>7. CASE Task(r) = "rollback"
  <2>1. adapters' = adapters \ {r} /\ "rollback" \notin Undeployed /\ n = 1
    BY <1>2, <1>7, AtTask DEF Loads, Undeployed
  <2>2. CurrentModel # r
    BY <1>2, <1>7, <2>1, CurrentWhile
  <2>3. QED
    BY <1>0, <1>1, <1>2, <1>3, <1>7, <2>1, <2>2 DEF Pointed, Loaded, PointerIsLoaded
<1>8. QED
  <2>1. Task(r) \in {"load", "reject", "register", "rollback"}
    BY AtTask DEF Loads
  <2>2. QED
    BY <1>4, <1>5, <1>6, <1>7, <2>1

(* The registry, the answers and the alerts are no business of either.      *)
LEMMA RecordsKeep ==
  ASSUME TypeInv, PipelineInv, RetryInv, NEW r \in Runs,
         Scores(r) \/ Records(r) \/ Crowns(r) \/ Warns(r)
  PROVE  Pointed(r)' /\ Loaded(r)' /\ PointerIsLoaded'
<1>0. UNCHANGED <<pointer, adapters, before, restarted>>
  BY DEF Scores, Records, Crowns, Warns
<1>1. CurrentModel' = CurrentModel
  <2>1. CASE Crowns(r)
    <3>1. pointer # <<>>
      BY <2>1, AtTask, CurrentWhile DEF Crowns
    <3>2. QED
      BY <1>0, <3>1 DEF CurrentModel
  <2>2. CASE UNCHANGED champion
    BY <1>0, <2>2 DEF CurrentModel, ChampionInfo
  <2>3. QED
    BY <2>1, <2>2 DEF Scores, Records, Warns, registryVars
<1>2. Pointed(r) /\ Loaded(r) /\ PointerIsLoaded
  BY DEF RetryInv
<1>3. CASE Scores(r)
  <2>1. Task(r) = "score" /\ Task(r)' = "gate" /\ "score" \in Undeployed /\ "gate" \in Undeployed
    BY <1>3, AtTask DEF Scores, Moves, Task, Undeployed
  <2>2. QED
    BY <1>0, <1>1, <1>2, <2>1 DEF Pointed, Loaded, PointerIsLoaded
<1>4. CASE Records(r) \/ Crowns(r) \/ Warns(r)
  <2>1. PICK n \in 0..3 : /\ at[r][2] = n /\ Moves(r, Task(r), n + 1)
                          /\ Task(r) = "register" => n \in {0, 1}
                          /\ Task(r) = "rollback" => n \in {2, 3}
    BY <1>4, AtTask DEF Records, Crowns, Warns
  <2>2. Task(r) \in {"register", "rollback"}
    BY <1>4, AtTask DEF Records, Crowns, Warns
  <2>3. Task(r) \notin Undeployed /\ Task(r)' = Task(r) /\ at'[r][2] = n + 1
    BY <2>1, <2>2 DEF Moves, Task, Undeployed
  <2>4. QED
    BY <1>0, <1>1, <1>2, <2>1, <2>2, <2>3 DEF Pointed, Loaded, PointerIsLoaded
<1>5. QED
  BY <1>3, <1>4

LEMMA RetryStep ==
  ASSUME ConcurrentRuns = FALSE, "deploy" \notin Faults,
         TypeInv, PipelineInv, RetryInv, [PipelineNext]_allVars
  PROVE  RetryInv'
<1>1. ASSUME NEW r \in Runs, RunActs(r) PROVE RetryInv'
  <2>1. RunStep(r)
    BY <1>1, RunsStep DEF TypeInv
  <2>2. \A s \in Runs \ {r} : Pointed(s)' /\ Loaded(s)'
    BY <2>1, OthersRest
  <2>3. CASE Quiet(r)
    <3>1. PointerIsLoaded'
      BY <2>3 DEF Quiet, Kept, registryVars, RetryInv, PointerIsLoaded, CurrentModel, ChampionInfo
    <3>2. QED
      BY <2>2, <2>3, <3>1, QuietKeeps DEF RetryInv
  <2>4. CASE Deploys(r) \/ Returns(r)
    BY <2>2, <2>4, SwitchKeeps DEF RetryInv
  <2>5. CASE Loads(r)
    BY <2>2, <2>5, LoadsKeep DEF RetryInv
  <2>6. CASE Scores(r) \/ Records(r) \/ Crowns(r) \/ Warns(r)
    BY <2>2, <2>6, RecordsKeep DEF RetryInv
  <2>7. QED
    BY <2>1, <2>3, <2>4, <2>5, <2>6 DEF RunStep
<1>2. CASE UNCHANGED <<pointer, champion, at, before>> /\ (UNCHANGED <<adapters, restarted>> \/ RestartVllm)
  <2>1. CurrentModel' = CurrentModel /\ \A r \in Runs : PointsTo(r)' <=> PointsTo(r)
    BY <1>2 DEF CurrentModel, ChampionInfo, PointsTo
  <2>2. PointerIsLoaded'
    BY <1>2, <2>1 DEF RetryInv, PointerIsLoaded, RestartVllm
  <2>3. ASSUME NEW r \in Runs PROVE Pointed(r)'
    BY <1>2, <2>1 DEF RetryInv, Pointed, Task
  <2>4. ASSUME NEW r \in Runs PROVE Loaded(r)'
    <3>1. CASE RestartVllm
      <4>1. restarted' = TRUE /\ r \notin adapters'
        BY <3>1, CanaryAssumption DEF RestartVllm
      <4>2. QED
        BY <4>1 DEF Loaded
    <3>2. CASE UNCHANGED <<adapters, restarted>>
      BY <1>2, <2>1, <3>2 DEF RetryInv, Loaded, Task
    <3>3. QED
      BY <1>2, <3>1, <3>2
  <2>5. QED
    BY <2>2, <2>3, <2>4 DEF RetryInv
<1>3. CASE CanaryActs
  BY <1>2, <1>3, CanarySteps DEF pipelineVars, runVars, registryVars
<1>4. CASE RestartVllm
  BY <1>2, <1>4 DEF RestartVllm, runVars, registryVars
<1>5. CASE UNCHANGED allVars
  BY <1>2, <1>5 DEF allVars, pipelineVars, runVars, registryVars
<1>6. QED
  BY <1>1, <1>3, <1>4, <1>5 DEF PipelineNext

(* "if name not in loaded: raise": when the DAG's runs follow one another   *)
(* and deploy() is not tried again after it moved the pointer (the DAG does *)
(* so, and MCDeployRetry.cfg shows what comes of it) and no scrape falls    *)
(* into a reading, whoever reads the pointer is sent to a model that is     *)
(* loaded, whatever else fails, for as long as vLLM is not restarted.       *)
THEOREM PointerStaysLoaded ==
  ASSUME ConcurrentRuns = FALSE, TornReadings = FALSE, "deploy" \notin Faults
  PROVE  PipelineSpec => []PointerIsLoaded
<1>1. PipelineInit => TypeInv /\ WatchInv /\ PipelineInv /\ RetryInv
  BY TypeInit, WatchInit, PipelineInvInit, RetryInvInit
<1>2. TypeInv /\ WatchInv /\ PipelineInv /\ RetryInv /\ [PipelineNext]_allVars
        => TypeInv' /\ WatchInv' /\ PipelineInv' /\ RetryInv'
  BY TypeStep, WatchStep, PipelineStep, RetryStep
<1>3. RetryInv => PointerIsLoaded
  BY DEF RetryInv
<1>4. QED
  BY <1>1, <1>2, <1>3, PTL DEF PipelineSpec

-----------------------------------------------------------------------------
(* The ends of a run *)

JobsInv == openJobs \subseteq Runs \X {"finetune", "score"} /\ JobsEndWithTheirTask

(* Whoever is elsewhere has no record open, so it may move on.              *)
LEMMA JobsStay ==
  ASSUME TypeInv, JobsInv, NEW r \in Runs, UNCHANGED openJobs,
         \A task \in {"finetune", "score"} : ~At(r, task, 1),
         \A s \in Runs \ {r} : at'[s] = at[s]
  PROVE  JobsInv'
<1>1. ASSUME NEW j \in openJobs PROVE j[1] \in Runs \ {r} /\ At(j[1], j[2], 1)
  <2>1. j[1] \in Runs /\ j[2] \in {"finetune", "score"} /\ At(j[1], j[2], 1)
    BY DEF JobsInv, JobsEndWithTheirTask
  <2>2. QED
    BY <2>1
<1>2. ASSUME NEW j \in openJobs' PROVE At(j[1], j[2], 1)'
  BY <1>1 DEF At
<1>3. QED
  BY <1>2 DEF JobsInv, JobsEndWithTheirTask

LEMMA JobsClose ==
  ASSUME TypeInv, JobsInv, NEW r \in Runs, CloseJob(r), \A s \in Runs \ {r} : at'[s] = at[s]
  PROVE  JobsInv'
<1>1. \A j \in openJobs' : j \in openJobs /\ j[1] # r
  BY DEF CloseJob
<1>2. ASSUME NEW j \in openJobs' PROVE At(j[1], j[2], 1)'
  <2>1. j[1] \in Runs \ {r} /\ At(j[1], j[2], 1)
    BY <1>1 DEF JobsInv, JobsEndWithTheirTask
  <2>2. QED
    BY <2>1 DEF At
<1>3. QED
  BY <1>1, <1>2 DEF JobsInv, JobsEndWithTheirTask

LEMMA JobsStep ==
  ASSUME TypeInv, JobsInv, [PipelineNext]_allVars
  PROVE  JobsInv'
<1>1. CASE CanaryActs \/ RestartVllm \/ UNCHANGED allVars
  <2>1. UNCHANGED <<at, openJobs>>
    BY <1>1 DEF CanaryActs, RestartVllm, allVars, pipelineVars, runVars
  <2>2. QED
    BY <2>1 DEF JobsInv, JobsEndWithTheirTask, At
<1>2. ASSUME NEW r \in Runs, RunActs(r) PROVE JobsInv'
  <2>1. \A s \in Runs \ {r} : at'[s] = at[s]
    <3>1. RunStep(r)
      BY <1>2, RunsStep DEF TypeInv
    <3>2. QED
      BY <3>1 DEF RunStep, Quiet, Starts, Prepares, Decides, Leaves, Watches, GivesUp, Scores, Loads,
                  Deploys, Returns, Records, Crowns, Warns, Moves
  <2>2. CASE Fail(r)
    BY <2>1, <2>2, JobsClose DEF Fail
  <2>3. CASE StartJob(r)
    <3>1. PICK task \in {"finetune", "score"} : at[r] = <<task, 0>> /\ openJobs' = openJobs \cup {<<r, task>>}
      BY <2>3 DEF StartJob, At, OpenJob
    <3>2. at'[r] = <<task, 1>>
      BY <2>3, <3>1 DEF StartJob, Advance, TypeInv, PlacesType
    <3>3. ASSUME NEW j \in openJobs' PROVE At(j[1], j[2], 1)'
      <4>1. CASE j = <<r, task>>
        BY <3>2, <4>1 DEF At
      <4>2. CASE j # <<r, task>>
        <5>1. j[1] \in Runs /\ at[j[1]] = <<j[2], 1>>
          BY <3>1, <4>2 DEF JobsInv, JobsEndWithTheirTask, At
        <5>2. j[1] # r
          BY <3>1, <5>1
        <5>3. QED
          BY <2>1, <5>1, <5>2 DEF At
      <4>3. QED
        BY <4>1, <4>2
    <3>4. QED
      BY <3>1, <3>3 DEF JobsInv, JobsEndWithTheirTask
  <2>4. CASE EndJob(r)
    <3>1. openJobs' = openJobs \ {<<r, at[r][1]>>}
      BY <2>4 DEF EndJob
    <3>2. ASSUME NEW j \in openJobs' PROVE At(j[1], j[2], 1)'
      <4>1. j \in Runs \X {"finetune", "score"} /\ at[j[1]] = <<j[2], 1>> /\ j # <<r, at[r][1]>>
        BY <3>1 DEF JobsInv, JobsEndWithTheirTask, At
      <4>2. j = <<j[1], j[2]>>
        BY <4>1
      <4>3. j[1] # r
        BY <4>1, <4>2
      <4>4. QED
        BY <2>1, <4>1, <4>3 DEF At
    <3>3. QED
      BY <3>1, <3>2 DEF JobsInv, JobsEndWithTheirTask
  <2>5. CASE QueryScore(r)
    BY <2>5 DEF QueryScore, runVars, JobsInv, JobsEndWithTheirTask, At
  <2>6. ASSUME UNCHANGED openJobs, NEW task \in Tasks \cup Ends, task \notin {"finetune", "score"},
               Task(r) = task
        PROVE  JobsInv'
    BY <2>1, <2>6, AtTask, JobsStay
  <2>7. CASE StartRun(r) \/ LoadCandidate(r) \/ Gate(r) \/ Reject(r) \/ Deploy(r)
    <3>1. UNCHANGED openJobs /\ Task(r) \in {"idle", "load", "gate", "reject", "deploy"}
      BY <2>7, AtTask DEF StartRun, LoadCandidate, Gate, Reject, Deploy
    <3>2. QED
      BY <2>6, <3>1 DEF Tasks, Ends
  <2>8. CASE BuildData(r) /\ ~Fail(r)
    <3>1. UNCHANGED openJobs /\ Task(r) = "build_data"
      BY <2>8, AtTask DEF BuildData
    <3>2. QED
      BY <2>6, <3>1 DEF Tasks
  <2>9. CASE StartWatch(r) \/ QueryStamp(r) \/ Judge(r) \/ RegisterChampion(r) \/ Rollback(r)
    <3>1. UNCHANGED openJobs /\ Task(r) \in {"watch", "register", "rollback"}
      BY <2>9, AtTask DEF StartWatch, QueryStamp, Judge, RegisterChampion, Rollback
    <3>2. QED
      BY <2>6, <3>1 DEF Tasks
  <2>10. QED
    BY <1>2, <2>2, <2>3, <2>4, <2>5, <2>7, <2>8, <2>9 DEF RunActs, TryFails
<1>3. QED
  BY <1>1, <1>2 DEF PipelineNext

(* gpu_job(): whatever fails, whoever runs when, an open record belongs to  *)
(* a task that is running.                                                  *)
THEOREM RecordsEndWithTasks == PipelineSpec => []JobsEndWithTheirTask
<1>1. PipelineInit => TypeInv /\ JobsInv
  BY TypeInit DEF PipelineInit, JobsInv, JobsEndWithTheirTask
<1>2. TypeInv /\ JobsInv /\ [PipelineNext]_allVars => TypeInv' /\ JobsInv'
  BY TypeStep, JobsStep
<1>3. JobsInv => JobsEndWithTheirTask
  BY DEF JobsInv
<1>4. QED
  BY <1>1, <1>2, <1>3, PTL DEF PipelineSpec

(* A run ends in the last step of its last task.                            *)
LEMMA EndsByLeaving ==
  ASSUME TypeInv, [PipelineNext]_allVars, NEW r \in Runs, Active(r),
         at'[r][1] \in {"rolled back", "accepted", "rejected"}
  PROVE  /\ UNCHANGED <<pointer, adapters, before, versions, champion, alerted, restarted>>
         /\ at'[r][1] = "rolled back" => At(r, "rollback", 4)
         /\ at'[r][1] = "accepted" => At(r, "register", 3)
         /\ at'[r][1] = "rejected" => At(r, "reject", 1)
<1>1. Task(r) \in Tasks /\ \A task \in Tasks \cup {"failed"} : task \notin {"rolled back", "accepted", "rejected"}
  BY DEF Active, Tasks, Task
<1>2. at'[r] # at[r]
  BY <1>1 DEF Task
<1>3. PICK s \in Runs : RunStep(s)
  <2>1. ~CanaryActs /\ ~RestartVllm /\ ~UNCHANGED allVars
    BY <1>2 DEF CanaryActs, RestartVllm, allVars, pipelineVars, runVars
  <2>2. QED
    BY <2>1, RunsStep DEF TypeInv, PipelineNext
<1>4. s = r
  BY <1>2, <1>3 DEF RunStep, Quiet, Starts, Prepares, Decides, Leaves, Watches, GivesUp, Scores, Loads,
                  Deploys, Returns, Records, Crowns, Warns, Moves
<1>5. ASSUME NEW task \in Tasks \cup {"failed"}, NEW n PROVE ~Moves(r, task, n)
  BY <1>1 DEF Moves
<1>6. Leaves(r) /\ Kept
  <2>1. ~(Scores(r) \/ Loads(r) \/ Deploys(r) \/ Returns(r) \/ Records(r) \/ Crowns(r) \/ Warns(r))
    <3>1. "gate" \in Tasks /\ "load" \in Tasks /\ "reject" \in Tasks /\ "register" \in Tasks
          /\ "rollback" \in Tasks /\ "deploy" \in Tasks
      BY DEF Tasks
    <3>2. QED
      BY <1>5, <3>1 DEF Scores, Loads, Deploys, Returns, Records, Crowns, Warns
  <2>2. ~(Starts(r) \/ Prepares(r) \/ Decides(r) \/ Watches(r) \/ GivesUp(r))
    <3>1. "build_data" \in Tasks /\ "deploy" \in Tasks /\ "reject" \in Tasks /\ "register" \in Tasks
          /\ "rollback" \in Tasks /\ "watch" \in Tasks /\ Preparing \subseteq Tasks
      BY DEF Tasks, Preparing
    <3>2. QED
      BY <1>1, <1>5, <3>1 DEF Starts, Prepares, Decides, Watches, GivesUp
  <2>3. QED
    BY <1>3, <1>4, <2>1, <2>2 DEF RunStep, Quiet
<1>7. "watch" \in Tasks
  BY DEF Tasks
<1>8. QED
  BY <1>5, <1>6, <1>7 DEF Leaves, Kept, registryVars, Moves

LEMMA RollBackSettles ==
  ASSUME TypeInv, PipelineInv, RetryInv, NEW r \in Runs, At(r, "rollback", 4)
  PROVE  /\ CurrentModel = before[r] /\ champion # r /\ r \notin adapters /\ r \in alerted
         /\ versions[r].status = "rejected"
<1>1. Task(r) = "rollback" /\ at[r][2] = 4
  BY AtTask
<1>2. Recorded(r) /\ Loaded(r)
  BY DEF PipelineInv, RetryInv
<1>3. CurrentModel = before[r]
  BY <1>1, CurrentWhile
<1>4. QED
  BY <1>1, <1>2, <1>3 DEF Recorded, Loaded

LEMMA AcceptSettles ==
  ASSUME TypeInv, PipelineInv, RetryInv, NEW r \in Runs, At(r, "register", 3)
  PROVE  /\ CurrentModel = r /\ champion = r /\ versions[r].status = "candidate"
         /\ before[r] \notin adapters \/ restarted
<1>1. Task(r) = "register" /\ at[r][2] = 3
  BY AtTask
<1>2. Recorded(r) /\ Loaded(r) /\ Deployed(r)
  BY DEF PipelineInv, RetryInv, TypeInv
<1>3. CurrentModel = r
  BY <1>1, CurrentWhile
<1>4. r \in DOMAIN versions
  BY <1>1, <1>2 DEF Deployed
<1>5. QED
  BY <1>1, <1>2, <1>3, <1>4 DEF Recorded, Loaded

LEMMA RejectSettles ==
  ASSUME TypeInv, PipelineInv, RetryInv, NEW r \in Runs, At(r, "reject", 1)
  PROVE  CurrentModel # r /\ champion # r /\ r \notin DOMAIN versions /\ r \notin adapters
<1>1. Task(r) = "reject" /\ at[r][2] = 1 /\ Task(r) \in Undeployed
  BY AtTask DEF Undeployed
<1>2. Recorded(r) /\ Loaded(r)
  BY DEF PipelineInv, RetryInv
<1>3. CurrentModel # r
  BY <1>1, CurrentWhile
<1>4. champion # r
  BY <1>1, <1>2 DEF Recorded
<1>5. QED
  BY <1>1, <1>2, <1>3, <1>4 DEF Recorded, Loaded

(* "The last boxes are safe to retry": under the conditions of              *)
(* PointerStaysLoaded, a run that is rolled back, accepted or rejected has  *)
(* left the pointer, the adapters, the registry and the alert manager as    *)
(* that end demands, whichever tasks failed and were tried again; and no    *)
(* record in gpu_jobs.jsonl outlives its task.                              *)
THEOREM EndsAreComplete ==
  ASSUME ConcurrentRuns = FALSE, TornReadings = FALSE, "deploy" \notin Faults
  PROVE  PipelineSpec => EndsCompletely
<1> DEFINE IInv == TypeInv /\ WatchInv /\ PipelineInv /\ RetryInv /\ JobsInv
<1>1. PipelineInit => IInv
  <2>1. PipelineInit => JobsInv
    BY DEF PipelineInit, JobsInv, JobsEndWithTheirTask
  <2>2. QED
    BY <2>1, TypeInit, WatchInit, PipelineInvInit, RetryInvInit
<1>2. IInv /\ [PipelineNext]_allVars => IInv'
  BY TypeStep, WatchStep, PipelineStep, RetryStep, JobsStep
<1>3. ASSUME IInv, [PipelineNext]_allVars, NEW r \in Runs, Ending(r, "rolled back")
      PROVE  /\ CurrentModel = before[r] /\ champion # r /\ r \notin adapters /\ r \in alerted
             /\ versions[r].status = "rejected"
  BY <1>3, EndsByLeaving, RollBackSettles DEF Ending
<1>4. ASSUME IInv, [PipelineNext]_allVars, NEW r \in Runs
      PROVE  /\ Ending(r, "accepted") =>
                  /\ CurrentModel = r /\ champion = r /\ versions[r].status = "candidate"
                  /\ before[r] \notin adapters \/ restarted
             /\ Ending(r, "rejected") =>
                  CurrentModel # r /\ champion # r /\ r \notin DOMAIN versions /\ r \notin adapters
  <2>1. Ending(r, "accepted") => At(r, "register", 3)
    BY <1>4, EndsByLeaving DEF Ending
  <2>2. Ending(r, "rejected") => At(r, "reject", 1)
    BY <1>4, EndsByLeaving DEF Ending
  <2>3. QED
    BY <1>4, <2>1, <2>2, AcceptSettles, RejectSettles
<1>5. IInv => JobsEndWithTheirTask
  BY DEF JobsInv
<1>6. IInv /\ [PipelineNext]_allVars
        => [\A r \in Runs : Ending(r, "rolled back") =>
              /\ CurrentModel = before[r] /\ champion # r
              /\ r \notin adapters /\ r \in alerted
              /\ versions[r].status = "rejected"]_allVars
  BY <1>3
<1>7. IInv /\ [PipelineNext]_allVars
        => [\A r \in Runs :
              /\ Ending(r, "accepted") =>
                   /\ CurrentModel = r /\ champion = r /\ versions[r].status = "candidate"
                   /\ before[r] \notin adapters \/ restarted
              /\ Ending(r, "rejected") =>
                   /\ CurrentModel # r /\ champion # r /\ r \notin DOMAIN versions
                   /\ r \notin adapters]_allVars
  BY <1>4
<1>8. QED
  BY <1>1, <1>2, <1>5, <1>6, <1>7, PTL
     DEF PipelineSpec, EndsCompletely, RollsBackCompletely, SettlesCompletely
=============================================================================
