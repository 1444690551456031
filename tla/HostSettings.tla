---------------------------- MODULE HostSettings ----------------------------
(***************************************************************************)
(* The two tools that change settings of the machine for an A/B run and    *)
(* put them back: infra/os/tune.py (OS and GPU settings, in groups) and    *)
(* infra/os/isolate.py (cores of the containers, of the interrupts, and    *)
(* irqbalance), on the core layout of infra/os/topology.py.                *)
(*                                                                         *)
(* Each tool keeps the originals in a state file, which write_text()       *)
(* truncates before it writes, and can be killed at any of its steps: a    *)
(* state file may be left without content, and then every later command of *)
(* the tool raises when it reads it.  Any write to the machine may fail.   *)
(* The A/B harness or a person starts one command at a time; proc is the   *)
(* process it runs as.  Isolate's steps that a kill leaves without a       *)
(* remedy are in KillStages only where a run asks for it.                  *)
(***************************************************************************)
EXTENDS Integers, Sequences, FiniteSets, SequencesExt, FiniteSetsExt

CONSTANTS
  Members,              \* the settings of each group in order; "gpu" has "clocks"
  GroupOrder,           \* the groups in the order of restore()
  Values,               \* what a setting of a file group can read
  Cores,                \* the cpus, as sets of twins
  Irqs,                 \* the numbered interrupts
  Managed,              \* those Linux refuses to move
  Affinities,           \* the cpu sets irqbalance and the drivers choose from
  KillStages            \* the stages of isolate.py at which it may be killed

Cpus == UNION Cores

Settings == UNION { ToSet(Members[g]) : g \in ToSet(GroupOrder) }

ASSUME HostAssumption ==
  /\ GroupOrder \in Seq(DOMAIN Members) /\ ToSet(GroupOrder) = DOMAIN Members
  /\ "gpu" \in DOMAIN Members /\ Members["gpu"] = <<"clocks">>
  /\ \A g \in DOMAIN Members : Members[g] \in Seq(Settings)
  /\ \A g, h \in DOMAIN Members : g # h => ToSet(Members[g]) \cap ToSet(Members[h]) = {}
  /\ Managed \subseteq Irqs
  /\ Affinities \subseteq SUBSET Cpus
  /\ KillStages \subseteq {"steer", "note", "restore", "balance", "run"}

VARIABLES
  live,                 \* the value each setting reads
  saved,                \* tune.py's state file: group -> originals, <<>> if absent
  savedTorn,            \* that file is there, without its content
  affinity,             \* smp_affinity_list of each interrupt
  irqbalance,           \* whether the service runs
  isoFile,              \* isolate.py's state file, <<>> if absent
  isoTorn,              \* that file is there, without its content
  containers,           \* the cpus each running container may use
  proc,                 \* the running command, or [cmd |-> "none"]
  mode,                 \* the last isolate mode that was completed, or "none"
  found,                \* history: the settings before any tool ran
  originals,            \* history: the affinities when isolate.py last started from
                        \* a machine without a state file
  hadBalance,           \* history: irqbalance before any tool ran
  refused               \* history: the interrupts whose write failed in the last steer
                        \* or, later than that, the last put-back

tuneVars == <<live, saved, savedTorn, found>>
isoVars ==
  <<affinity, irqbalance, isoFile, isoTorn, containers, mode, originals, hadBalance, refused>>
hostVars == <<tuneVars, isoVars, proc>>

Idle == proc.cmd = "none"

Exit == proc' = [cmd |-> "none"]

-----------------------------------------------------------------------------
(* tune.py *)

TunedValue(s) == IF s = "clocks" THEN "locked" ELSE "tuned"

(* Faulty variant: the values found now replace the saved ones.             *)
SaveAgain(g) == (g :> [s \in ToSet(Members[g]) |-> live[s]]) @@ saved

(* saved.setdefault(group, found): a second "tuned" keeps the originals.    *)
SaveOnce(g) ==
  IF g \in DOMAIN saved THEN saved
  ELSE [h \in DOMAIN saved \cup {g} |->
          IF h = g THEN [s \in ToSet(Members[g]) |-> live[s]] ELSE saved[h]]

(* set_group(..., "tuned") has the originals in memory, and write_text()    *)
(* has opened the state file, which empties it.                             *)
TuneBegin(g) ==
  /\ Idle /\ ~savedTorn
  /\ saved' = <<>> /\ savedTorn' = TRUE
  /\ proc' = [cmd |-> "save", group |-> g, file |-> SaveOnce(g)]
  /\ UNCHANGED <<live, found, isoVars>>

(* write_text() writes and closes; _apply() begins.                         *)
WriteSaved ==
  /\ proc.cmd = "save"
  /\ saved' = proc.file /\ savedTorn' = FALSE
  /\ proc' = [cmd |-> "tuned", groups |-> <<proc.group>>, todo |-> Members[proc.group],
              failed |-> FALSE]
  /\ UNCHANGED <<live, found, isoVars>>

(* set_group(..., "as-found"); nothing saved means it is already as found.  *)
AsFoundBegin(g) ==
  /\ Idle /\ ~savedTorn /\ g \in DOMAIN saved
  /\ proc' = [cmd |-> "as-found", groups |-> <<g>>, todo |-> Members[g], failed |-> FALSE]
  /\ UNCHANGED <<tuneVars, isoVars>>

(* restore(): every group in turn, the file groups first.                   *)
RestoreBegin ==
  /\ Idle /\ ~savedTorn /\ saved # <<>>
  /\ proc' = [cmd |-> "put back", groups |-> GroupOrder,
              todo |-> Members[Head(GroupOrder)], failed |-> FALSE]
  /\ UNCHANGED <<tuneVars, isoVars>>

Tuning == proc.cmd \in {"tuned", "as-found", "put back"}

(* The command is at a group of which there are originals.                  *)
InGroup == Tuning /\ proc.groups # <<>> /\ Head(proc.groups) \in DOMAIN saved

Wanted(s) ==
  IF proc.cmd = "tuned" THEN TunedValue(s) ELSE saved[Head(proc.groups)][s]

(* One write of _apply(), or one nvidia-smi call.  A file may go on reading *)
(* the old value.                                                           *)
WriteSetting ==
  /\ InGroup /\ proc.todo # <<>>
  /\ LET s == Head(proc.todo) IN
       \E v \in {Wanted(s)} \cup (IF s = "clocks" /\ proc.cmd # "tuned" THEN {}
                                                                        ELSE {live[s]}) :
         live' = [live EXCEPT ![s] = v]
  /\ proc' = [proc EXCEPT !.todo = Tail(@)]
  /\ UNCHANGED <<saved, savedTorn, found, isoVars>>

(* Next group of the command, with what has failed so far.                  *)
NextGroup(failed) ==
  proc' = [proc EXCEPT !.groups = Tail(@), !.failed = failed,
                       !.todo = IF Len(proc.groups) > 1 THEN Members[proc.groups[2]]
                                                        ELSE <<>>]

(* restore(): "if group in saved".                                          *)
SkipGroup ==
  /\ Tuning /\ proc.groups # <<>> /\ Head(proc.groups) \notin DOMAIN saved
  /\ NextGroup(proc.failed)
  /\ UNCHANGED <<tuneVars, isoVars>>

(* The write raises.  nvidia-smi's failure is a NotTaken, which restore()   *)
(* collects; a file's is an OSError, which nothing catches.                 *)
WriteRaises ==
  /\ InGroup /\ proc.todo # <<>>
  /\ IF Head(proc.groups) = "gpu" /\ proc.cmd = "put back" THEN NextGroup(TRUE) ELSE Exit
  /\ UNCHANGED <<tuneVars, isoVars>>

(* The read back.  restore() does not read the GPU's clocks back.           *)
Took == \A s \in ToSet(Members[Head(proc.groups)]) : live[s] = Wanted(s)

(* The end of _apply(): NotTaken leaves the tool, except in restore().      *)
CheckGroup ==
  /\ InGroup /\ proc.todo = <<>>
  /\ IF proc.cmd = "put back" THEN NextGroup(proc.failed \/ ~Took)
     ELSE IF Took THEN NextGroup(FALSE) ELSE Exit
  /\ UNCHANGED <<tuneVars, isoVars>>

(* The command ends; restore() forgets the originals if all went back.      *)
TuneEnd ==
  /\ Tuning /\ proc.groups = <<>>
  /\ saved' = IF proc.cmd = "put back" /\ ~proc.failed THEN <<>> ELSE saved
  /\ Exit
  /\ UNCHANGED <<live, savedTorn, found, isoVars>>

-----------------------------------------------------------------------------
(* topology.py's _layout() on a machine whose cores are all near the GPU    *)

Housekeeping == CHOOSE c \in Cores : 0 \in c

ServerCores == IF Cardinality(Housekeeping) > 1 THEN 1 ELSE 2

FreeCores == Cores \ {Housekeeping}

(* The free cores that come before c in the order of their first cpus.      *)
Before(c) == { d \in FreeCores : Min(d) < Min(c) }

EngineCore == CHOOSE c \in FreeCores : Before(c) = {}

Engine == Min(EngineCore)

EngineTwin == EngineCore \ {Engine}

Server == UNION { c \in FreeCores : Cardinality(Before(c)) \in 1..ServerCores }

(* With fewer free cores there is no layout, and isolate.py does not run.   *)
ASSUME LayoutAssumption ==
  /\ \A c \in Cores : c # {} /\ c \subseteq Nat
  /\ \A c, d \in Cores : c # d => c \cap d = {}
  /\ 0 \in Cpus
  /\ Cardinality(FreeCores) > ServerCores

(* Faulty variant: the engine's idle twin is given to the neighbour.         *)
RestWithTwin == Cpus \ (Housekeeping \cup {Engine} \cup Server)

Rest == Cpus \ (Housekeeping \cup {Engine} \cup EngineTwin \cup Server)

Reserved == {Engine} \cup EngineTwin \cup Server

-----------------------------------------------------------------------------
(* isolate.py *)

Modes == {"quiet", "noisy", "isolated-quiet", "isolated-noisy", "restore"}

Isolated(m) == m \in {"isolated-quiet", "isolated-noisy"}

(* plan(): the containers of a mode.                                        *)
NoiseCpus(m) ==
  CASE m = "noisy" -> Cpus \ Housekeeping
    [] m = "isolated-noisy" -> Rest
    [] OTHER -> {}

LightserveCpus(m) ==
  CASE m = "restore" -> {}
    [] Isolated(m) -> {Engine} \cup Server
    [] OTHER -> Cpus

Plan(m) == [noise |-> NoiseCpus(m), lightserve |-> LightserveCpus(m)]

NoContainers == [noise |-> {}, lightserve |-> {}]

(* Faulty variant: a second isolated round saves the stopped irqbalance.    *)
SavedByLastSteer ==
  [irqs |-> IF isoFile = <<>> THEN <<>> ELSE isoFile.irqs, balance |-> irqbalance]

(* What steer_irqs() starts from: the state file of an earlier steer, if any.*)
SavedByFirstSteer ==
  IF isoFile # <<>> THEN isoFile ELSE [irqs |-> <<>>, balance |-> irqbalance]

(* main(): the containers stop; irqbalance stops before the interrupts move.*)
SteerBegin(m) ==
  /\ Idle /\ Isolated(m) /\ ~isoTorn
  /\ containers' = NoContainers /\ mode' = "none"
  /\ irqbalance' = FALSE
  /\ originals' = IF isoFile = <<>> THEN affinity ELSE originals
  /\ refused' = {}
  /\ proc' = [cmd |-> "steer", mode |-> m, file |-> SavedByFirstSteer,
              todo |-> { i \in Irqs : affinity[i] \cap Reserved # {} }]
  /\ UNCHANGED <<tuneVars, affinity, isoFile, isoTorn, hadBalance>>

NoteOriginal(i) ==
  IF i \in DOMAIN proc.file.irqs THEN proc.file.irqs
  ELSE [j \in DOMAIN proc.file.irqs \cup {i} |->
          IF j = i THEN affinity[i] ELSE proc.file.irqs[j]]

(* One interrupt of steer_irqs().  A write that fails, as it always does    *)
(* for those Linux refuses to move, is reported and nothing is noted.       *)
SteerIrq ==
  /\ proc.cmd = "steer"
  /\ \E i \in proc.todo :
       \/ /\ i \notin Managed
          /\ affinity' = [affinity EXCEPT ![i] = Housekeeping]
          /\ proc' = [proc EXCEPT !.todo = @ \ {i}, !.file.irqs = NoteOriginal(i)]
          /\ UNCHANGED refused
       \/ /\ refused' = refused \cup {i}
          /\ proc' = [proc EXCEPT !.todo = @ \ {i}]
          /\ UNCHANGED affinity
  /\ UNCHANGED <<tuneVars, irqbalance, isoFile, isoTorn, containers, mode, originals,
                 hadBalance>>

(* Every interrupt has been tried; write_text() empties the state file.     *)
SteerEnd ==
  /\ proc.cmd = "steer" /\ proc.todo = {}
  /\ isoFile' = <<>> /\ isoTorn' = TRUE
  /\ proc' = [cmd |-> "note", mode |-> proc.mode, file |-> proc.file]
  /\ UNCHANGED <<tuneVars, affinity, irqbalance, containers, mode, originals, hadBalance,
                 refused>>

(* write_text() writes the originals.                                       *)
WriteOriginals ==
  /\ proc.cmd = "note"
  /\ isoFile' = proc.file /\ isoTorn' = FALSE
  /\ proc' = [cmd |-> "run", mode |-> proc.mode]
  /\ UNCHANGED <<tuneVars, affinity, irqbalance, containers, mode, originals, hadBalance,
                 refused>>

(* Every mode that is not isolated puts the interrupts back first.          *)
PutBackBegin(m) ==
  /\ Idle /\ m \in Modes /\ ~Isolated(m) /\ ~isoTorn
  /\ containers' = NoContainers /\ mode' = "none"
  /\ IF isoFile = <<>>
     THEN /\ proc' = [cmd |-> "run", mode |-> m]
          /\ UNCHANGED refused
     ELSE /\ proc' = [cmd |-> "restore", mode |-> m, todo |-> DOMAIN isoFile.irqs]
          /\ refused' = {}
  /\ UNCHANGED <<tuneVars, affinity, irqbalance, isoFile, isoTorn, originals, hadBalance>>

(* One interrupt of restore_irqs(), which passes over a write that fails.   *)
PutBackIrq ==
  /\ proc.cmd = "restore"
  /\ \E i \in proc.todo :
       /\ proc' = [proc EXCEPT !.todo = @ \ {i}]
       /\ \/ /\ affinity' = [affinity EXCEPT ![i] = isoFile.irqs[i]]
             /\ UNCHANGED refused
          \/ /\ refused' = refused \cup {i}
             /\ UNCHANGED affinity
  /\ UNCHANGED <<tuneVars, irqbalance, isoFile, isoTorn, containers, mode, originals,
                 hadBalance>>

(* The originals are forgotten, whatever went back.                         *)
Forget ==
  /\ proc.cmd = "restore" /\ proc.todo = {}
  /\ isoFile' = <<>>
  /\ proc' = [cmd |-> "balance", mode |-> proc.mode, start |-> isoFile.balance]
  /\ UNCHANGED <<tuneVars, affinity, irqbalance, isoTorn, containers, mode, originals,
                 hadBalance, refused>>

(* A command on a state file without content: the containers are stopped,   *)
(* irqbalance too in an isolated mode, and json.loads() raises.             *)
StateUnreadable(m) ==
  /\ Idle /\ isoTorn
  /\ containers' = NoContainers /\ mode' = "none"
  /\ irqbalance' = (irqbalance /\ ~Isolated(m))
  /\ UNCHANGED <<tuneVars, affinity, isoFile, isoTorn, originals, hadBalance, refused, proc>>

StartBalance ==
  /\ proc.cmd = "balance"
  /\ irqbalance' = (irqbalance \/ proc.start)
  /\ proc' = [cmd |-> "run", mode |-> proc.mode]
  /\ UNCHANGED <<tuneVars, affinity, isoFile, isoTorn, containers, mode, originals,
                 hadBalance, refused>>

(* The containers of the plan; the checks after them change nothing.        *)
RunContainers ==
  /\ proc.cmd = "run"
  /\ containers' = Plan(proc.mode)
  /\ mode' = proc.mode
  /\ Exit
  /\ UNCHANGED <<tuneVars, affinity, irqbalance, isoFile, isoTorn, originals, hadBalance,
                 refused>>

-----------------------------------------------------------------------------
(* The machine *)

(* irqbalance moves an interrupt.                                           *)
Balance ==
  /\ irqbalance
  /\ \E i \in Irqs \ Managed, a \in Affinities :
       a # affinity[i] /\ affinity' = [affinity EXCEPT ![i] = a]
  /\ UNCHANGED <<tuneVars, irqbalance, isoFile, isoTorn, containers, mode, originals,
                 hadBalance, refused, proc>>

(* The process dies, or a write to a state file or a command of the shell   *)
(* raises.                                                                  *)
Kill ==
  /\ Tuning \/ proc.cmd \in {"save"} \cup KillStages
  /\ Exit
  /\ UNCHANGED <<tuneVars, isoVars>>

HostInit ==
  /\ found \in [Settings -> Values \cup {"free"}]
  /\ \A s \in Settings : found[s] = "free" <=> s = "clocks"
  /\ live = found /\ saved = <<>> /\ savedTorn = FALSE
  /\ affinity \in [Irqs -> Affinities] /\ originals = affinity
  /\ hadBalance \in BOOLEAN /\ irqbalance = hadBalance
  /\ isoFile = <<>> /\ isoTorn = FALSE /\ refused = {} /\ containers = NoContainers
  /\ proc = [cmd |-> "none"] /\ mode = "none"

TuneNext ==
  \/ \E g \in ToSet(GroupOrder) : TuneBegin(g) \/ AsFoundBegin(g)
  \/ WriteSaved \/ RestoreBegin \/ SkipGroup \/ WriteSetting \/ WriteRaises \/ CheckGroup \/ TuneEnd

IsolateNext ==
  \/ \E m \in Modes : SteerBegin(m) \/ PutBackBegin(m) \/ StateUnreadable(m)
  \/ SteerIrq \/ SteerEnd \/ WriteOriginals \/ PutBackIrq \/ Forget \/ StartBalance \/ RunContainers

HostNext == TuneNext \/ IsolateNext \/ Balance \/ Kill

HostSpec == HostInit /\ [][HostNext]_hostVars

-----------------------------------------------------------------------------
(* Properties *)

(* Every setting of a group that does not read its original has that        *)
(* original in the file.                                                    *)
OriginalsIn(file, g) ==
  \A s \in ToSet(Members[g]) :
    /\ live[s] # found[s] => g \in DOMAIN file
    /\ g \in DOMAIN file => file[g][s] = found[s]

(* A tune command that reports success has done what it says, and nobody    *)
(* measures a round on the wrong setting.                                   *)
TuneTells ==
  [][ /\ TuneEnd /\ proc.cmd = "put back" /\ ~proc.failed => live = found
      /\ CheckGroup /\ proc.cmd # "put back" /\ proc'.cmd # "none" =>
           \A s \in ToSet(Members[Head(proc.groups)]) :
             live[s] = IF proc.cmd = "tuned" THEN TunedValue(s) ELSE found[s] ]_hostVars

(* What tune.py keeps of its promise: it tells the truth; whatever was      *)
(* tuned, not taken, refused or killed on the way, a state file that has    *)
(* its content has every original; and while it has none no setting is      *)
(* changed.                                                                 *)
TuneKeepsItsWord ==
  /\ TuneTells
  /\ [](~savedTorn => \A g \in ToSet(GroupOrder) : OriginalsIn(saved, g))
  /\ [][savedTorn => live' = live]_hostVars

(* "The originals are saved once before the first change": they are on      *)
(* disk, or in the memory of the command that is writing them.  The code    *)
(* breaks this: a later "tuned" empties the file first.                     *)
OriginalsSurvive ==
  \A g \in ToSet(GroupOrder) :
    OriginalsIn(IF proc.cmd = "save" THEN proc.file ELSE saved, g)

Plain(m) == m \in {"quiet", "noisy", "restore"}

(* "restored by every non-isolated state, so alternating A/B rounds don't   *)
(* leak into each other": with such a state reached, irqbalance runs if it  *)
(* ever did, and if it does not, no interrupt is where isolate.py put it    *)
(* except those that could not be put back.                                 *)
LeavesNoTrace ==
  Plain(mode) =>
    /\ isoFile = <<>> /\ ~isoTorn /\ irqbalance = hadBalance
    /\ ~irqbalance => \A i \in Irqs \ refused : affinity[i] = originals[i]

(* The same of every interrupt.  The code breaks this: a put-back that      *)
(* fails, for whatever reason, is passed over and its original forgotten.   *)
EveryInterruptReturns ==
  Plain(mode) => (~irqbalance => affinity = originals)

(* In an isolated state the engine's core, its idle twin and the server's   *)
(* cores are left to lightserve: no neighbour, and no interrupt but those   *)
(* whose move failed and was reported, now or later.                        *)
ReservedCoresStayFree ==
  Isolated(mode) =>
    /\ containers.noise \cap (Reserved \cup Housekeeping) = {}
    /\ containers.lightserve \cap EngineTwin = {}
    /\ \A i \in Irqs \ refused : affinity[i] \cap Reserved = {}
=============================================================================
