------------------------------- MODULE Canary -------------------------------
(***************************************************************************)
(* training/qlora_financial/canary.py, which scores the current model      *)
(* round after round, and Prometheus between it and whoever reads the      *)
(* score (mlops/retrain.py's canary_reading and add_round).                *)
(*                                                                         *)
(* A round's score is only told apart as low (more than the margin below   *)
(* normal) or not.  log is the history of the scored rounds.  The accuracy *)
(* gauge holds an index of log, 0 for NaN, and a time stamp is the number  *)
(* of rounds that had been scored by then.                                 *)
(***************************************************************************)
EXTENDS QualityGate, Sequences, SequencesExt

CONSTANTS
  Runs,                 \* the runs of the pipeline, each names its candidate
  Base,                 \* the model that is served first
  BaseAnswers,          \* the questions it answered right
  CanaryQuestions,      \* the questions it asks every round
  MaxRounds,            \* bound on the rounds of the canary
  TornReadings          \* whether Prometheus may scrape in the middle of a reading

ASSUME CanaryAssumption ==
  /\ Base \notin Runs /\ BaseAnswers \subseteq Questions
  /\ CanaryQuestions \subseteq Questions
  /\ MaxRounds \in Nat
  /\ TornReadings \in BOOLEAN

VARIABLES
  pointer,              \* current.json, <<>> while there is no such file
  adapters,             \* the names vLLM answers to
  samples,              \* the saved answers of each model
  asks,                 \* args.model of the canary's loop
  canary,               \* where the loop is
  gauges,               \* what the canary publishes
  scraped,              \* the gauges as Prometheus last scraped them
  log                   \* history: the scored rounds: model and score

canaryVars == <<asks, canary, gauges, scraped, log>>

(* A table with one more name, or a new entry for one.                      *)
Put(table, name, entry) ==
  [n \in DOMAIN table \cup {name} |-> IF n = name THEN entry ELSE table[n]]

-----------------------------------------------------------------------------
(* The pointer names a model and, with previous, the model before it.       *)

(* follow(): no file yet means the model stays.                             *)
Followed == IF pointer = <<>> THEN asks ELSE pointer.model

(* expected_accuracy(): normal is measured on all the canary's questions.   *)
HasNormal(name) == CanaryQuestions \subseteq samples[name].asked

(* The head of the loop.  A switch publishes since when the new model is    *)
(* asked.                                                                   *)
StartRound ==
  /\ canary = "sleep" /\ Len(log) < MaxRounds
  /\ Followed = asks \/ HasNormal(Followed)
  /\ asks' = Followed
  /\ gauges' = IF Followed = asks THEN gauges
               ELSE [gauges EXCEPT !.model = Followed, !.since = Len(log)]
  /\ canary' = "asking"
  /\ UNCHANGED <<pointer, adapters, samples, scraped, log>>

(* A question without a saved answer ends the canary's loop.                *)
CanaryDies ==
  /\ canary = "sleep" /\ Followed # asks /\ ~HasNormal(Followed)
  /\ canary' = "dead"
  /\ UNCHANGED <<pointer, adapters, samples, asks, gauges, scraped, log>>

(* run_once() and record() of a round with every question answered: the     *)
(* accuracy first, the time stamp in a step of its own.                     *)
ScoreRound ==
  /\ canary = "asking" /\ asks \in adapters
  /\ \E low \in BOOLEAN : log' = Append(log, [model |-> asks, low |-> low])
  /\ gauges' = [gauges EXCEPT !.accuracy = Len(log) + 1]
  /\ canary' = "scored"
  /\ UNCHANGED <<pointer, adapters, samples, asks, scraped>>

StampRound ==
  /\ canary = "scored"
  /\ gauges' = [gauges EXCEPT !.last = Len(log)]
  /\ canary' = "sleep"
  /\ UNCHANGED <<pointer, adapters, samples, asks, scraped, log>>

(* A question was not answered: no score, and the time stamp stays.         *)
FailRound ==
  /\ canary = "asking"
  /\ gauges' = [gauges EXCEPT !.accuracy = 0]
  /\ canary' = "sleep"
  /\ UNCHANGED <<pointer, adapters, samples, asks, scraped, log>>

Scrape ==
  /\ canary = "scored" => TornReadings
  /\ scraped # gauges
  /\ scraped' = gauges
  /\ UNCHANGED <<pointer, adapters, samples, asks, canary, gauges, log>>

CanaryInit ==
  /\ pointer = <<>> /\ adapters = {Base}
  /\ samples = [m \in {Base} |-> Score(Questions, BaseAnswers)]
  /\ asks = Base /\ canary = "sleep"
  /\ gauges = [model |-> Base, since |-> 0, accuracy |-> 0, last |-> 0]
  /\ scraped = gauges
  /\ log = <<>>

CanaryStep == StartRound \/ CanaryDies \/ ScoreRound \/ StampRound \/ FailRound

-----------------------------------------------------------------------------
(* What the watch makes of it *)

(* canary_reading(): four queries, the last of them for the time stamp.     *)
SwitchedAt(g, name) == IF g.model = name THEN {g.since} ELSE {}

(* Faulty variant: the score of the model before counts too.                *)
IsAnyNewRound(rounds, since, accuracy, last) ==
  /\ accuracy # 0
  /\ \A i \in DOMAIN rounds : last > rounds[i].at

(* add_round()'s condition: scored, finished after the canary switched, and *)
(* later than the last one counted.                                         *)
IsNewRound(rounds, since, accuracy, last) ==
  /\ \E s \in since : last > s
  /\ accuracy # 0
  /\ \A i \in DOMAIN rounds : last > rounds[i].at

AddRound(rounds, since, accuracy, last) ==
  IF IsNewRound(rounds, since, accuracy, last)
  THEN Append(rounds, [at |-> last, round |-> accuracy])
  ELSE rounds

LowTwice(rounds) ==
  \E i \in 2..Len(rounds) : log[rounds[i - 1].round].low /\ log[rounds[i].round].low

(* Faulty variant: a single low round is enough evidence to pass on.        *)
VerdictWithoutMinimum(rounds, stale, over) ==
  CASE LowTwice(rounds) \/ stale -> "rollback"
    [] ~LowTwice(rounds) /\ ~stale /\ over -> "pass"
    [] OTHER -> "wait"

(* watch_verdict().  stale: no complete round for stale_after seconds.      *)
(* over: the window has passed.                                             *)
Verdict(rounds, stale, over) ==
  CASE LowTwice(rounds) \/ stale -> "rollback"
    [] ~LowTwice(rounds) /\ ~stale /\ over ->
         IF Len(rounds) < 2 THEN "rollback" ELSE "pass"
    [] OTHER -> "wait"
=============================================================================
