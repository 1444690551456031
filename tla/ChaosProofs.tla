---------------------------- MODULE ChaosProofs ----------------------------
(***************************************************************************)
(* What ChaosRunner promises, for any lengths of the phases, any limits on *)
(* its waits, any number of experiments in a row, any number of failed     *)
(* commands and of killed runners, unless a property counts them itself.   *)
(***************************************************************************)
EXTENDS ChaosRunner, FiniteSetTheorems, SequenceTheorems, TLAPS

-----------------------------------------------------------------------------
(* The registration probe *)

(* A version is there from its creation on, whoever was told of it; only a  *)
(* try that found none creates one.                                         *)
ProbeInv ==
  /\ probe \in [at : {"off", "search", "create", "label", "finish", "report", "answered",
                      "sleep", "dead"},
                try : {1, 2}, waited : BOOLEAN, versions : {0, 1}, label : BOOLEAN]
  /\ probe.at = "create" => probe.versions = 0
  /\ probe.at \in {"label", "finish", "report", "answered"} => probe.versions = 1
  /\ probe.at \in {"report", "answered"} => probe.label

LEMMA ProbeStarts ==
  ASSUME probe' = NoProbe \/ probe' = [NoProbe EXCEPT !.at = "search"]
  PROVE  ProbeInv'
<1>1. CASE probe' = NoProbe
  BY <1>1 DEF ProbeInv, NoProbe
<1>2. CASE probe' = [NoProbe EXCEPT !.at = "search"]
  <2>1. probe' = [at |-> "search", try |-> 1, waited |-> FALSE, versions |-> 0, label |-> FALSE]
    BY <1>2 DEF NoProbe
  <2>2. QED
    BY <2>1 DEF ProbeInv
<1>3. QED
  BY <1>1, <1>2

LEMMA ProbeKept == ASSUME ProbeInv, UNCHANGED probe PROVE ProbeInv'
BY DEF ProbeInv

LEMMA ProbeStepKeeps == ASSUME ProbeInv, ProbeStep PROVE ProbeInv'
<1> USE DEF ProbeInv
<1>1. CASE probe.at = "search"
  BY <1>1 DEF ProbeStep, OnceRegistered
<1>2. CASE probe.at = "create"
  <2>1. probe' = [probe EXCEPT !.at = "label", !.versions = 1]
    <3>1. probe.versions + 1 = 1
      BY <1>2
    <3>2. QED
      BY <1>2, <3>1 DEF ProbeStep
  <2>2. QED
    BY <2>1
<1>3. CASE probe.at \in {"label", "finish"}
  BY <1>3 DEF ProbeStep
<1>4. CASE probe.at = "report"
  BY <1>4 DEF ProbeStep
<1>5. QED
  BY <1>1, <1>2, <1>3, <1>4 DEF ProbeStep

LEMMA ProbeOutageKeeps == ASSUME ProbeInv, ProbeMeetsOutage PROVE ProbeInv'
<1> USE DEF ProbeInv
<1>1. CASE probe' = [probe EXCEPT !.waited = TRUE]
  BY <1>1
<1>2. ASSUME NEW made \in IF probe.at = "create" THEN {0, 1} ELSE {0},
             probe' = IF probe.try = 1 /\ probe.at # "report"
                      THEN [probe EXCEPT !.at = "sleep", !.try = 2, !.versions = @ + made]
                      ELSE [probe EXCEPT !.at = "dead", !.versions = @ + made]
      PROVE  ProbeInv'
  <2>1. probe.versions + made \in {0, 1}
    BY <1>2
  <2>2. QED
    BY <1>2, <2>1
<1>3. QED
  BY <1>1, <1>2 DEF ProbeMeetsOutage

LEMMA ProbeInvStep ==
  ASSUME ProbeInv, [ChaosNext]_chaosVars
  PROVE  ProbeInv'
<1>1. CASE UNCHANGED probe
  BY <1>1, ProbeKept
<1>2. CASE \E name \in Experiments : BeginExperiment(name)
  <2>1. probe' = NoProbe
    BY <1>2 DEF BeginExperiment
  <2>2. QED
    BY <2>1, ProbeStarts
<1>3. CASE Command
  <2>1. CASE probe' = [NoProbe EXCEPT !.at = "search"]
    BY <2>1, ProbeStarts
  <2>2. QED
    BY <1>1, <1>3, <2>1 DEF Command
<1>4. CASE JudgeExperiment
  <2>1. probe' = NoProbe
    BY <1>4 DEF JudgeExperiment
  <2>2. QED
    BY <2>1, ProbeStarts
<1>5. CASE Tick
  BY <1>5 DEF Tick, ProbeInv
<1>6. QED
  BY <1>1, <1>2, <1>3, <1>4, <1>5, ProbeStepKeeps, ProbeOutageKeeps
     DEF ChaosNext, RunnerNext, StartRun, EndRun, CommandFails, StageEnds, Crash, Kill,
         PersonDeletesPods, chaosVars

(* register(), its retry and finish_champion(): wherever the outage meets   *)
(* them, there is never a second version, and a registration that answers   *)
(* has left one that is the champion.                                       *)
THEOREM RegistrationIsSafe == ChaosSpec => []ProbeLeavesOneChampion
<1>1. ChaosInit => ProbeInv
  <2>1. ChaosInit => probe = NoProbe
    BY DEF ChaosInit
  <2>2. probe = NoProbe => ProbeInv
    BY DEF ProbeInv, NoProbe
  <2>3. QED
    BY <2>1, <2>2
<1>2. ProbeInv /\ [ChaosNext]_chaosVars => ProbeInv'
  BY ProbeInvStep
<1>3. ProbeInv => ProbeLeavesOneChampion
  BY DEF ProbeInv, ProbeLeavesOneChampion
<1>4. QED
  BY <1>1, <1>2, <1>3, PTL DEF ChaosSpec

-----------------------------------------------------------------------------
(* The steps of the scripts *)

Words == {"", "image", "facts", "rollout", "node", "lightserve", "mlops", "normal", "fault",
          "recover", "before probe"}

Steps ==
  ({"apply", "delete", "try delete", "stop"} \X Files)
    \cup ({"run", "await", "wait", "logs", "delete pod", "try delete pod"} \X OWN_PODS)
    \cup ({"read", "ship", "sleep", "drain", "uncordon", "try uncordon", "rollout"} \X Words)
    \cup {<<"place", "noisy-neighbour">>}

(* What a runner may leave in the cluster: the neighbour counts as a fault. *)
Things == OWN_PODS \cup Files \cup {"fence"}

(* The steps that bring x into the cluster, and those that take it out.     *)
Does(step, x) ==
  IF x = "fence" THEN step[1] = "drain"
  ELSE step[1] \in {"apply", "place", "run", "await"} /\ step[2] = x

Undoes(step, x) ==
  IF x = "fence" THEN step[1] \in {"uncordon", "try uncordon"}
  ELSE step[1] \in {"delete", "try delete", "delete pod", "try delete pod"} /\ step[2] = x

Harmless(s, x) == \A i \in DOMAIN s : ~Does(s[i], x)

Will(s, x) == \E i \in DOMAIN s : Undoes(s[i], x)

(* Whatever s brings it takes out again.                                    *)
Settled(s, x) ==
  \A i \in DOMAIN s : Does(s[i], x) => \E j \in DOMAIN s : i < j /\ Undoes(s[j], x)

LEMMA ConcatShape ==
  ASSUME NEW s \in Seq(Steps), NEW t \in Seq(Steps)
  PROVE  /\ s \o t \in Seq(Steps)
         /\ Len(s) \in Nat /\ DOMAIN s = 1..Len(s)
         /\ Len(t) \in Nat /\ DOMAIN t = 1..Len(t)
         /\ DOMAIN (s \o t) = 1..(Len(s) + Len(t))
         /\ \A i \in 1..Len(s) : (s \o t)[i] = s[i]
         /\ \A i \in 1..Len(t) : (s \o t)[Len(s) + i] = t[i]
<1>1. /\ s \o t \in Seq(Steps) /\ Len(s \o t) = Len(s) + Len(t)
      /\ \A i \in 1..(Len(s) + Len(t)) :
           (s \o t)[i] = IF i <= Len(s) THEN s[i] ELSE t[i - Len(s)]
  BY ConcatProperties
<1>2. Len(s) \in Nat /\ DOMAIN s = 1..Len(s) /\ Len(t) \in Nat /\ DOMAIN t = 1..Len(t)
      /\ DOMAIN (s \o t) = 1..Len(s \o t)
  BY <1>1, LenProperties
<1>3. ASSUME NEW i \in 1..Len(t) PROVE (s \o t)[Len(s) + i] = t[i]
  <2>1. Len(s) + i \in 1..(Len(s) + Len(t)) /\ ~(Len(s) + i <= Len(s)) /\ (Len(s) + i) - Len(s) = i
    BY <1>2
  <2>2. QED
    BY <1>1, <2>1
<1>4. QED
  BY <1>1, <1>2, <1>3

(* Two scripts in a row.                                                    *)
LEMMA ConcatRules ==
  ASSUME NEW s \in Seq(Steps), NEW t \in Seq(Steps), NEW x
  PROVE  /\ Harmless(s, x) /\ Harmless(t, x) => Harmless(s \o t, x)
         /\ Will(t, x) => Will(s \o t, x)
         /\ Will(s, x) => Will(s \o t, x)
         /\ Settled(s, x) /\ Settled(t, x) => Settled(s \o t, x)
         /\ Will(t, x) /\ Settled(t, x) => Settled(s \o t, x)
<1>0. PICK u \in Seq(Steps) : u = s \o t
  BY ConcatShape
<1>1. PICK m, n \in Nat :
        /\ DOMAIN s = 1..m /\ DOMAIN t = 1..n /\ DOMAIN u = 1..(m + n)
        /\ \A i \in 1..m : u[i] = s[i]
        /\ \A i \in 1..n : u[m + i] = t[i]
  <2>1. Len(s) \in Nat /\ DOMAIN s = 1..Len(s) /\ Len(t) \in Nat /\ DOMAIN t = 1..Len(t)
    BY ConcatShape
  <2>2. DOMAIN u = 1..(Len(s) + Len(t)) /\ \A i \in 1..Len(s) : u[i] = s[i]
    BY <1>0, ConcatShape
  <2>3. \A i \in 1..Len(t) : u[Len(s) + i] = t[i]
    BY <1>0, ConcatShape
  <2>4. QED
    BY <2>1, <2>2, <2>3
<1>2. \A i \in DOMAIN u : i \in 1..m \/ (i - m \in 1..n /\ u[i] = t[i - m])
  <2>1. ASSUME NEW i \in 1..(m + n), i \notin 1..m PROVE i - m \in 1..n /\ m + (i - m) = i
    BY <2>1
  <2>2. QED
    BY <1>1, <2>1
<1>3. Harmless(s, x) /\ Harmless(t, x) => Harmless(u, x)
  BY <1>1, <1>2 DEF Harmless
<1>4. ASSUME NEW j \in 1..n, Undoes(t[j], x) PROVE m + j \in DOMAIN u /\ Undoes(u[m + j], x)
  <2>1. m + j \in 1..(m + n)
    OBVIOUS
  <2>2. QED
    BY <1>1, <1>4, <2>1
<1>5. ASSUME NEW j \in 1..m PROVE j \in DOMAIN u /\ u[j] = s[j]
  BY <1>1
<1>6. (Will(t, x) => Will(u, x)) /\ (Will(s, x) => Will(u, x))
  BY <1>1, <1>4, <1>5 DEF Will
<1>7. ASSUME Settled(t, x), NEW i \in DOMAIN u, i \notin 1..m, Does(u[i], x)
      PROVE  \E j \in DOMAIN u : i < j /\ Undoes(u[j], x)
  <2>1. PICK j \in 1..n : i - m < j /\ Undoes(t[j], x)
    BY <1>1, <1>2, <1>7 DEF Settled
  <2>2. i < m + j
    BY <1>1, <1>7, <2>1
  <2>3. QED
    BY <1>4, <2>1, <2>2
<1>8. ASSUME Settled(s, x), NEW i \in 1..m, Does(u[i], x)
      PROVE  \E j \in DOMAIN u : i < j /\ Undoes(u[j], x)
  BY <1>1, <1>5, <1>8 DEF Settled
<1>9. ASSUME Will(t, x), NEW i \in 1..m PROVE \E j \in DOMAIN u : i < j /\ Undoes(u[j], x)
  <2>1. PICK j \in 1..n : Undoes(t[j], x)
    BY <1>1, <1>9 DEF Will
  <2>2. i < m + j
    BY <2>1
  <2>3. QED
    BY <1>4, <2>1, <2>2
<1>10. /\ Settled(s, x) /\ Settled(t, x) => Settled(u, x)
       /\ Will(t, x) /\ Settled(t, x) => Settled(u, x)
  <2>1. Settled(s, x) /\ Settled(t, x) => Settled(u, x)
    BY <1>7, <1>8 DEF Settled
  <2>2. Will(t, x) /\ Settled(t, x) => Settled(u, x)
    BY <1>7, <1>9 DEF Settled
  <2>3. QED
    BY <2>1, <2>2
<1>11. QED
  BY <1>0, <1>3, <1>6, <1>10

(* One step of a script.                                                    *)
LEMMA TailRules ==
  ASSUME NEW s \in Seq(Steps), s # <<>>, NEW x
  PROVE  /\ Head(s) \in Steps /\ Tail(s) \in Seq(Steps)
         /\ Harmless(s, x) => Harmless(Tail(s), x) /\ ~Does(Head(s), x)
         /\ Settled(s, x) => Settled(Tail(s), x)
         /\ Settled(s, x) /\ Does(Head(s), x) => Will(Tail(s), x)
         /\ Will(s, x) /\ ~Undoes(Head(s), x) => Will(Tail(s), x)
<1>1. /\ Head(s) \in Steps /\ Tail(s) \in Seq(Steps) /\ Len(Tail(s)) = Len(s) - 1
      /\ \A i \in 1..Len(Tail(s)) : Tail(s)[i] = s[i + 1]
  BY HeadTailProperties
<1>0. PICK t \in Seq(Steps) : t = Tail(s)
  BY <1>1
<1>2. PICK n \in Nat : /\ DOMAIN t = 1..n /\ DOMAIN s = 1..(n + 1)
                       /\ Head(s) = s[1] /\ \A i \in 1..n : t[i] = s[i + 1]
  <2>1. Len(t) \in Nat /\ DOMAIN t = 1..Len(t) /\ Len(s) \in Nat /\ DOMAIN s = 1..Len(s)
    BY LenProperties
  <2>2. Len(s) = Len(t) + 1
    BY <1>0, <1>1, <2>1
  <2>3. Head(s) = s[1]
    OBVIOUS
  <2>4. QED
    BY <1>0, <1>1, <2>1, <2>2, <2>3
<1>3. ASSUME NEW j \in DOMAIN s, j # 1 PROVE j - 1 \in DOMAIN t /\ t[j - 1] = s[j]
  <2>1. j - 1 \in 1..n /\ (j - 1) + 1 = j
    BY <1>2, <1>3
  <2>2. QED
    BY <1>2, <2>1
<1>4. ASSUME NEW j \in 1..n PROVE j + 1 \in DOMAIN s /\ s[j + 1] = t[j]
  BY <1>2
<1>5. Harmless(s, x) => Harmless(t, x) /\ ~Does(s[1], x)
  <2>1. 1 \in DOMAIN s
    BY <1>2
  <2>2. QED
    BY <1>2, <1>4, <2>1 DEF Harmless
<1>6. ASSUME Settled(s, x), NEW i \in 1..n, Does(t[i], x)
      PROVE  \E j \in DOMAIN t : i < j /\ Undoes(t[j], x)
  <2>1. PICK j \in DOMAIN s : i + 1 < j /\ Undoes(s[j], x)
    BY <1>4, <1>6 DEF Settled
  <2>2. j # 1 /\ i < j - 1
    BY <1>2, <2>1
  <2>3. QED
    BY <1>3, <2>1, <2>2
<1>7. Settled(s, x) /\ Does(s[1], x) => Will(t, x)
  <2>1. ASSUME Settled(s, x), Does(s[1], x) PROVE Will(t, x)
    <3>1. 1 \in DOMAIN s
      BY <1>2
    <3>2. PICK j \in DOMAIN s : 1 < j /\ Undoes(s[j], x)
      BY <2>1, <3>1 DEF Settled
    <3>3. QED
      BY <1>2, <1>3, <3>2 DEF Will
  <2>2. QED
    BY <2>1
<1>8. Will(s, x) /\ ~Undoes(s[1], x) => Will(t, x)
  BY <1>3 DEF Will
<1>9. Settled(s, x) => Settled(t, x)
  BY <1>2, <1>6 DEF Settled
<1>10. QED
  BY <1>0, <1>1, <1>2, <1>5, <1>7, <1>8, <1>9

-----------------------------------------------------------------------------
(* The scripts *)

LEMMA HarmlessSettles == ASSUME NEW s, NEW x, Harmless(s, x) PROVE Settled(s, x)
BY DEF Harmless, Settled

LEMMA StepsAre ==
  /\ \A f \in Files, verb \in {"apply", "delete", "try delete", "stop"} : <<verb, f>> \in Steps
  /\ <<"place", "noisy-neighbour">> \in Steps
  /\ \A p \in OWN_PODS, verb \in {"run", "await", "wait", "logs", "delete pod", "try delete pod"} :
       <<verb, p>> \in Steps
  /\ \A w \in Words, verb \in {"read", "ship", "sleep", "drain", "uncordon", "try uncordon", "rollout"} :
       <<verb, w>> \in Steps
BY DEF Steps

LEMMA OneStep ==
  ASSUME NEW step \in Steps
  PROVE  /\ <<step>> \in Seq(Steps)
         /\ \A x : ~Does(step, x) => Harmless(<<step>>, x)
         /\ \A x : Undoes(step, x) => Will(<<step>>, x)
<1>1. <<step>> \in Seq(Steps) /\ DOMAIN <<step>> = {1} /\ <<step>>[1] = step
  OBVIOUS
<1>2. PICK s \in Seq(Steps) : s = <<step>> /\ DOMAIN s = {1} /\ s[1] = step
  BY <1>1
<1>3. \A x : (~Does(step, x) => Harmless(s, x)) /\ (Undoes(step, x) => Will(s, x))
  BY <1>2 DEF Harmless, Will
<1>4. QED
  BY <1>2, <1>3

LEMMA NoSteps == <<>> \in Seq(Steps) /\ \A x : Harmless(<<>>, x)
<1>1. DOMAIN <<>> = {} /\ <<>> \in Seq(Steps)
  BY EmptySeq
<1>2. QED
  BY <1>1 DEF Harmless

LEMMA TwoSteps ==
  ASSUME NEW a \in Steps, NEW b \in Steps
  PROVE  /\ <<a, b>> \in Seq(Steps) /\ DOMAIN <<a, b>> = {1, 2}
         /\ \A x : ~Does(a, x) /\ ~Does(b, x) => Harmless(<<a, b>>, x)
         /\ \A x : Undoes(a, x) \/ Undoes(b, x) => Will(<<a, b>>, x)
<1>1. <<a, b>> \in Seq(Steps)
  OBVIOUS
<1>2. DOMAIN <<a, b>> = {1, 2}
  OBVIOUS
<1>3. PICK s \in Seq(Steps) : s = <<a, b>> /\ DOMAIN s = {1, 2} /\ s[1] = a /\ s[2] = b
  BY <1>1, <1>2
<1>4. \A x : /\ ~Does(a, x) /\ ~Does(b, x) => Harmless(s, x)
             /\ Undoes(a, x) \/ Undoes(b, x) => Will(s, x)
  BY <1>3 DEF Harmless, Will
<1>5. QED
  BY <1>3, <1>4

LEMMA LoadPodRules ==
  ASSUME NEW p \in OWN_PODS
  PROVE  LoadPod(p) \in Seq(Steps) /\ \A x : x # p => Harmless(LoadPod(p), x)
<1>1. <<"delete pod", p>> \in Steps /\ <<"run", p>> \in Steps
  BY StepsAre
<1>2. \A x : ~Does(<<"delete pod", p>>, x) /\ (x # p => ~Does(<<"run", p>>, x))
  BY DEF Does
<1>3. QED
  BY <1>1, <1>2, TwoSteps DEF LoadPod

(* traffic_experiment() takes its load pod away, and what it is given to    *)
(* turn on if it is given what turns it off.                                *)
LEMMA TrafficRules ==
  ASSUME NEW on \in Seq(Steps), NEW off \in Seq(Steps), NEW facts \in Seq(Steps)
  PROVE  /\ TrafficExperiment(on, off, facts) \in Seq(Steps)
         /\ \A x : Harmless(on, x) /\ Harmless(off, x) /\ Harmless(facts, x) /\ x # "chaos-load" =>
              Harmless(TrafficExperiment(on, off, facts), x)
         /\ \A x : (Settled(on, x) \/ Will(off, x)) /\ Settled(off, x) /\ Settled(facts, x) =>
              Settled(TrafficExperiment(on, off, facts), x)
<1>1. PICK a \in Seq(Steps) : a = << <<"read", "image">>, <<"ship", "lightserve">> >>
                              /\ \A x : Harmless(a, x)
  <2>1. <<"read", "image">> \in Steps /\ <<"ship", "lightserve">> \in Steps
    BY StepsAre DEF Words
  <2>2. \A x : ~Does(<<"read", "image">>, x) /\ ~Does(<<"ship", "lightserve">>, x)
    BY DEF Does
  <2>3. QED
    BY <2>1, <2>2, TwoSteps
<1>2. PICK l \in Seq(Steps) : l = LoadPod("chaos-load") /\ \A x : x # "chaos-load" => Harmless(l, x)
  BY LoadPodRules DEF OWN_PODS
<1>3. PICK b \in Seq(Steps) : b = << <<"await", "chaos-load">>, <<"sleep", "normal">> >>
                              /\ \A x : x # "chaos-load" => Harmless(b, x)
  <2>1. <<"await", "chaos-load">> \in Steps /\ <<"sleep", "normal">> \in Steps
    BY StepsAre DEF Words, OWN_PODS
  <2>2. \A x : x # "chaos-load" => ~Does(<<"await", "chaos-load">>, x) /\ ~Does(<<"sleep", "normal">>, x)
    BY DEF Does
  <2>3. QED
    BY <2>1, <2>2, TwoSteps
<1>4. PICK c \in Seq(Steps) : c = << <<"sleep", "fault">> >> /\ \A x : Harmless(c, x)
  <2>1. <<"sleep", "fault">> \in Steps
    BY StepsAre DEF Words
  <2>2. \A x : ~Does(<<"sleep", "fault">>, x)
    BY DEF Does
  <2>3. QED
    BY <2>1, <2>2, OneStep
<1>5. PICK d \in Seq(Steps) :
        /\ d = << <<"sleep", "recover">>, <<"wait", "chaos-load">>, <<"logs", "chaos-load">>,
                  <<"delete pod", "chaos-load">> >>
        /\ Will(d, "chaos-load") /\ \A x : Harmless(d, x)
  <2>1. PICK d1 \in Steps, d2 \in Steps, d3 \in Steps, d4 \in Steps :
          /\ d1 = <<"sleep", "recover">> /\ d2 = <<"wait", "chaos-load">>
          /\ d3 = <<"logs", "chaos-load">> /\ d4 = <<"delete pod", "chaos-load">>
    BY StepsAre DEF Words, OWN_PODS
  <2>2. Undoes(d4, "chaos-load")
    BY <2>1 DEF Undoes
  <2>3. \A x : ~Does(d1, x) /\ ~Does(d2, x) /\ ~Does(d3, x) /\ ~Does(d4, x)
    BY <2>1 DEF Does
  <2>4. <<d1, d2, d3, d4>> \in Seq(Steps)
    OBVIOUS
  <2>5. PICK e \in Seq(Steps) : /\ e = <<d1, d2, d3, d4>> /\ DOMAIN e = {1, 2, 3, 4}
                                /\ e[1] = d1 /\ e[2] = d2 /\ e[3] = d3 /\ e[4] = d4
    <3>1. DOMAIN <<d1, d2, d3, d4>> = {1, 2, 3, 4}
      OBVIOUS
    <3>2. QED
      BY <2>4, <3>1
  <2>6. Will(e, "chaos-load") /\ \A x : Harmless(e, x)
    BY <2>2, <2>3, <2>5 DEF Will, Harmless
  <2>7. QED
    BY <2>1, <2>5, <2>6
<1>6. PICK s1 \in Seq(Steps) : s1 = a \o l
  BY ConcatShape
<1>7. PICK s2 \in Seq(Steps) : s2 = s1 \o b
  BY ConcatShape
<1>8. PICK s3 \in Seq(Steps) : s3 = s2 \o on
  BY ConcatShape
<1>9. PICK s4 \in Seq(Steps) : s4 = s3 \o c
  BY ConcatShape
<1>10. PICK s5 \in Seq(Steps) : s5 = s4 \o off
  BY ConcatShape
<1>11. PICK s6 \in Seq(Steps) : s6 = s5 \o d
  BY ConcatShape
<1>12. PICK s7 \in Seq(Steps) : s7 = s6 \o facts
  BY ConcatShape
<1>13. TrafficExperiment(on, off, facts) = s7
  BY <1>1, <1>2, <1>3, <1>4, <1>5, <1>6, <1>7, <1>8, <1>9, <1>10, <1>11, <1>12 DEF TrafficExperiment
<1>14. ASSUME NEW x, Harmless(on, x), Harmless(off, x), Harmless(facts, x), x # "chaos-load"
      PROVE  Harmless(s7, x)
  <2>1. Harmless(s2, x)
    <3>1. Harmless(a, x) /\ Harmless(l, x) /\ Harmless(b, x)
      BY <1>1, <1>2, <1>3, <1>14
    <3>2. Harmless(s1, x)
      BY <1>6, <3>1, ConcatRules
    <3>3. QED
      BY <1>7, <3>1, <3>2, ConcatRules
  <2>2. Harmless(s4, x)
    <3>1. Harmless(s3, x)
      BY <1>14, <1>8, <2>1, ConcatRules
    <3>2. QED
      BY <1>4, <1>9, <3>1, ConcatRules
  <2>3. Harmless(s5, x)
    BY <1>14, <1>10, <2>2, ConcatRules
  <2>4. Harmless(s6, x)
    BY <1>5, <1>11, <2>3, ConcatRules
  <2>5. QED
    BY <1>14, <1>12, <2>4, ConcatRules
<1>15. ASSUME NEW x, Settled(on, x) \/ Will(off, x), Settled(off, x), Settled(facts, x)
       PROVE  Settled(s7, x)
  <2>1. ASSUME x # "chaos-load" PROVE Settled(s6, x)
    <3>1. Settled(s2, x)
      <4>1. Settled(a, x) /\ Settled(l, x) /\ Settled(b, x)
        BY <1>1, <1>2, <1>3, <2>1, HarmlessSettles
      <4>2. Settled(s1, x)
        BY <1>6, <4>1, ConcatRules
      <4>3. QED
        BY <1>7, <4>1, <4>2, ConcatRules
    <3>2. Settled(c, x) /\ Settled(d, x)
      BY <1>4, <1>5, HarmlessSettles
    <3>3. Settled(s5, x)
      <4>1. CASE Will(off, x)
        BY <1>15, <1>10, <4>1, ConcatRules
      <4>2. CASE Settled(on, x)
        <5>1. Settled(s3, x)
          BY <1>8, <3>1, <4>2, ConcatRules
        <5>2. Settled(s4, x)
          BY <1>9, <3>2, <5>1, ConcatRules
        <5>3. QED
          BY <1>15, <1>10, <5>2, ConcatRules
      <4>3. QED
        BY <1>15, <4>1, <4>2
    <3>4. QED
      BY <1>11, <3>2, <3>3, ConcatRules
  <2>2. ASSUME x = "chaos-load" PROVE Settled(s6, x)
    <3>1. Settled(d, x) /\ Will(d, x)
      BY <1>5, <2>2, HarmlessSettles
    <3>2. QED
      BY <1>11, <3>1, ConcatRules
  <2>3. Settled(s6, x)
    BY <2>1, <2>2
  <2>4. QED
    BY <1>15, <1>12, <2>3, ConcatRules
<1>16. QED
  BY <1>13, <1>14, <1>15

(* Only the neighbour's file is taken away in the finally statement.        *)
LeftToFinally(name, x) == name = "noisy-neighbour" /\ x = "noisy-neighbour"

LEMMA BodyOfFile ==
  ASSUME NEW f \in Files
  PROVE  /\ Apply(f) \in Seq(Steps) /\ \A x : x # f => Harmless(Apply(f), x)
         /\ Delete(f) \in Seq(Steps) /\ Will(Delete(f), f) /\ \A x : Harmless(Delete(f), x)
<1>1. <<"apply", f>> \in Steps /\ <<"delete", f>> \in Steps
  BY StepsAre
<1>2. \A x : (x # f => ~Does(<<"apply", f>>, x)) /\ ~Does(<<"delete", f>>, x)
  BY DEF Does
<1>3. f # "fence" /\ Undoes(<<"delete", f>>, f)
  BY DEF Undoes, Files
<1>4. QED
  BY <1>1, <1>2, <1>3, OneStep DEF Apply, Delete

LEMMA ReadsAreHarmless ==
  /\ ReadFacts \in Seq(Steps) /\ \A x : Harmless(ReadFacts, x)
  /\ << <<"rollout", "">> >> \in Seq(Steps) /\ \A x : Harmless(<< <<"rollout", "">> >>, x)
<1>1. <<"read", "facts">> \in Steps /\ <<"rollout", "">> \in Steps
  BY StepsAre DEF Words
<1>2. \A x : ~Does(<<"read", "facts">>, x) /\ ~Does(<<"rollout", "">>, x)
  BY DEF Does
<1>3. QED
  BY <1>1, <1>2, OneStep DEF ReadFacts

LEMMA PodKillScript ==
  LET s == Body("pod-kill") IN s \in Seq(Steps) /\ Harmless(s, "fence") /\ \A x : Settled(s, x)
<1>1. "pod-kill" \in Files
  BY DEF Files
<1>2. PICK facts \in Seq(Steps) : facts = << <<"rollout", "">> >> \o ReadFacts /\ \A x : Harmless(facts, x)
  <2>1. PICK a \in Seq(Steps), b \in Seq(Steps) :
          a = << <<"rollout", "">> >> /\ b = ReadFacts /\ \A x : Harmless(a, x) /\ Harmless(b, x)
    BY ReadsAreHarmless
  <2>2. PICK c \in Seq(Steps) : c = a \o b
    BY ConcatShape
  <2>3. \A x : Harmless(c, x)
    BY <2>1, <2>2, ConcatRules
  <2>4. QED
    BY <2>1, <2>2, <2>3
<1>3. PICK on \in Seq(Steps), off \in Seq(Steps) :
        /\ on = Apply("pod-kill") /\ \A x : x # "pod-kill" => Harmless(on, x)
        /\ off = Delete("pod-kill") /\ Will(off, "pod-kill") /\ \A x : Harmless(off, x)
  BY <1>1, BodyOfFile
<1>4. Body("pod-kill") = TrafficExperiment(on, off, facts)
  BY <1>2, <1>3 DEF Body
<1>5. \A x : Settled(off, x) /\ Settled(facts, x) /\ (Settled(on, x) \/ Will(off, x))
  BY <1>2, <1>3, HarmlessSettles
<1>6. PICK s \in Seq(Steps) :
        /\ s = TrafficExperiment(on, off, facts)
        /\ \A x : Harmless(on, x) /\ Harmless(off, x) /\ Harmless(facts, x) /\ x # "chaos-load" =>
              Harmless(s, x)
        /\ \A x : (Settled(on, x) \/ Will(off, x)) /\ Settled(off, x) /\ Settled(facts, x) =>
              Settled(s, x)
  BY TrafficRules
<1>7. Harmless(on, "fence") /\ Harmless(off, "fence") /\ Harmless(facts, "fence")
  <2>1. "fence" # "pod-kill"
    OBVIOUS
  <2>2. Harmless(on, "fence") /\ Harmless(off, "fence")
    BY <1>3, <2>1
  <2>3. QED
    BY <1>2, <2>2
<1>8. QED
  BY <1>4, <1>5, <1>6, <1>7

LEMMA NetworkDelayScript ==
  LET s == Body("network-delay") IN s \in Seq(Steps) /\ Harmless(s, "fence") /\ \A x : Settled(s, x)
<1>1. "network-delay" \in Files
  BY DEF Files
<1>2. PICK facts \in Seq(Steps) : facts = <<>> /\ \A x : Harmless(facts, x)
  BY NoSteps
<1>3. PICK on \in Seq(Steps), off \in Seq(Steps) :
        /\ on = Apply("network-delay") /\ \A x : x # "network-delay" => Harmless(on, x)
        /\ off = Delete("network-delay") /\ Will(off, "network-delay") /\ \A x : Harmless(off, x)
  BY <1>1, BodyOfFile
<1>4. Body("network-delay") = TrafficExperiment(on, off, facts)
  BY <1>2, <1>3 DEF Body
<1>5. \A x : Settled(off, x) /\ Settled(facts, x) /\ (Settled(on, x) \/ Will(off, x))
  BY <1>2, <1>3, HarmlessSettles
<1>6. PICK s \in Seq(Steps) :
        /\ s = TrafficExperiment(on, off, facts)
        /\ \A x : Harmless(on, x) /\ Harmless(off, x) /\ Harmless(facts, x) /\ x # "chaos-load" =>
              Harmless(s, x)
        /\ \A x : (Settled(on, x) \/ Will(off, x)) /\ Settled(off, x) /\ Settled(facts, x) =>
              Settled(s, x)
  BY TrafficRules
<1>7. Harmless(on, "fence") /\ Harmless(off, "fence") /\ Harmless(facts, "fence")
  BY <1>2, <1>3
<1>8. QED
  BY <1>4, <1>5, <1>6, <1>7

LEMMA QueueFloodScript ==
  LET s == Body("queue-flood") IN s \in Seq(Steps) /\ Harmless(s, "fence") /\ \A x : Settled(s, x)
<1>1. "chaos-flood" \in OWN_PODS /\ "chaos-flood" # "fence"
  BY DEF OWN_PODS
<1>2. PICK facts \in Seq(Steps) : facts = ReadFacts /\ \A x : Harmless(facts, x)
  BY ReadsAreHarmless
<1>3. PICK pod \in Seq(Steps) : pod = LoadPod("chaos-flood") /\ \A x : x # "chaos-flood" => Harmless(pod, x)
  BY <1>1, LoadPodRules
<1>4. PICK on \in Seq(Steps) : on = facts \o pod
  BY ConcatShape
<1>5. \A x : x # "chaos-flood" => Harmless(on, x)
  BY <1>2, <1>3, <1>4, ConcatRules
<1>6. PICK off \in Seq(Steps) : off = FloodOff /\ Will(off, "chaos-flood") /\ \A x : Harmless(off, x)
  <2>1. <<"logs", "chaos-flood">> \in Steps /\ <<"delete pod", "chaos-flood">> \in Steps
    BY <1>1, StepsAre
  <2>2. Undoes(<<"delete pod", "chaos-flood">>, "chaos-flood")
    BY DEF Undoes
  <2>3. \A x : ~Does(<<"logs", "chaos-flood">>, x) /\ ~Does(<<"delete pod", "chaos-flood">>, x)
    BY DEF Does
  <2>4. QED
    BY <2>1, <2>2, <2>3, TwoSteps DEF FloodOff
<1>7. Body("queue-flood") = TrafficExperiment(on, off, facts)
  BY <1>2, <1>3, <1>4, <1>6 DEF Body
<1>8. \A x : Settled(off, x) /\ Settled(facts, x) /\ (Settled(on, x) \/ Will(off, x))
  BY <1>2, <1>5, <1>6, HarmlessSettles
<1>9. PICK s \in Seq(Steps) :
        /\ s = TrafficExperiment(on, off, facts)
        /\ \A x : Harmless(on, x) /\ Harmless(off, x) /\ Harmless(facts, x) /\ x # "chaos-load" =>
              Harmless(s, x)
        /\ \A x : (Settled(on, x) \/ Will(off, x)) /\ Settled(off, x) /\ Settled(facts, x) =>
              Settled(s, x)
  BY TrafficRules
<1>10. Harmless(on, "fence") /\ Harmless(off, "fence") /\ Harmless(facts, "fence")
  BY <1>1, <1>2, <1>5, <1>6
<1>11. QED
  BY <1>7, <1>8, <1>9, <1>10

LEMMA NeighbourScripts ==
  /\ Body("noisy-neighbour") \in Seq(Steps)
  /\ \A x : x # "noisy-neighbour" => Harmless(Body("noisy-neighbour"), x)
  /\ LET s == Guarded("noisy-neighbour") IN
     s \in Seq(Steps) /\ Harmless(s, "fence") /\ \A x : x # "noisy-neighbour" => Settled(s, x)
<1>1. "noisy-neighbour" \in Files /\ "noisy-neighbour" # "fence"
  BY DEF Files
<1>2. /\ Body("noisy-neighbour") \in Seq(Steps)
      /\ \A x : x # "noisy-neighbour" => Harmless(Body("noisy-neighbour"), x)
  <2>1. <<"place", "noisy-neighbour">> \in Steps /\ <<"read", "rollout">> \in Steps
    BY <1>1, StepsAre DEF Words
  <2>2. \A x : x # "noisy-neighbour" =>
          ~Does(<<"place", "noisy-neighbour">>, x) /\ ~Does(<<"read", "rollout">>, x)
    BY DEF Does
  <2>3. Body("noisy-neighbour") = << <<"place", "noisy-neighbour">>, <<"read", "rollout">> >>
    BY DEF Body
  <2>4. QED
    BY <2>1, <2>2, <2>3, TwoSteps
<1>3. PICK off \in Seq(Steps) : off = << <<"stop", "noisy-neighbour">> >> /\ \A x : Harmless(off, x)
  <2>1. <<"stop", "noisy-neighbour">> \in Steps
    BY <1>1, StepsAre
  <2>2. \A x : ~Does(<<"stop", "noisy-neighbour">>, x)
    BY DEF Does
  <2>3. QED
    BY <2>1, <2>2, OneStep
<1>4. PICK on \in Seq(Steps) : on = Apply("noisy-neighbour") /\ \A x : x # "noisy-neighbour" => Harmless(on, x)
  BY <1>1, BodyOfFile
<1>5. PICK facts \in Seq(Steps) : facts = <<>> /\ \A x : Harmless(facts, x)
  BY NoSteps
<1>6. Guarded("noisy-neighbour") = TrafficExperiment(on, off, facts)
  BY <1>3, <1>4, <1>5 DEF Guarded
<1>7. \A x : x # "noisy-neighbour" => Settled(off, x) /\ Settled(facts, x) /\ Settled(on, x)
  BY <1>3, <1>4, <1>5, HarmlessSettles
<1>8. PICK s \in Seq(Steps) :
        /\ s = TrafficExperiment(on, off, facts)
        /\ \A x : Harmless(on, x) /\ Harmless(off, x) /\ Harmless(facts, x) /\ x # "chaos-load" =>
              Harmless(s, x)
        /\ \A x : (Settled(on, x) \/ Will(off, x)) /\ Settled(off, x) /\ Settled(facts, x) =>
              Settled(s, x)
  BY TrafficRules
<1>9. Harmless(on, "fence") /\ Harmless(off, "fence") /\ Harmless(facts, "fence")
  BY <1>1, <1>3, <1>4, <1>5
<1>10. QED
  BY <1>2, <1>6, <1>7, <1>8, <1>9

LEMMA DrainScripts ==
  /\ Body("drain") \in Seq(Steps) /\ \A x : Harmless(Body("drain"), x)
  /\ Guarded("drain") \in Seq(Steps) /\ \A x : Settled(Guarded("drain"), x)
<1>1. Body("drain") \in Seq(Steps) /\ \A x : Harmless(Body("drain"), x)
  <2>1. <<"read", "node">> \in Steps
    BY StepsAre DEF Words
  <2>2. \A x : ~Does(<<"read", "node">>, x)
    BY DEF Does
  <2>3. QED
    BY <2>1, <2>2, OneStep DEF Body
<1>2. PICK on \in Seq(Steps) : on = << <<"drain", "">> >> /\ \A x : x # "fence" => Harmless(on, x)
  <2>1. <<"drain", "">> \in Steps
    BY StepsAre DEF Words
  <2>2. \A x : x # "fence" => ~Does(<<"drain", "">>, x)
    BY DEF Does
  <2>3. QED
    BY <2>1, <2>2, OneStep
<1>3. PICK off \in Seq(Steps) : /\ off = << <<"uncordon", "">>, <<"rollout", "">> >>
                                /\ Will(off, "fence") /\ \A x : Harmless(off, x)
  <2>1. <<"uncordon", "">> \in Steps /\ <<"rollout", "">> \in Steps
    BY StepsAre DEF Words
  <2>2. \A x : ~Does(<<"uncordon", "">>, x) /\ ~Does(<<"rollout", "">>, x)
    BY DEF Does
  <2>3. Undoes(<<"uncordon", "">>, "fence")
    BY DEF Undoes
  <2>4. QED
    BY <2>1, <2>2, <2>3, TwoSteps
<1>4. PICK facts \in Seq(Steps) : facts = ReadFacts /\ \A x : Harmless(facts, x)
  BY ReadsAreHarmless
<1>5. Guarded("drain") = TrafficExperiment(on, off, facts)
  BY <1>2, <1>3, <1>4 DEF Guarded
<1>6. \A x : Settled(off, x) /\ Settled(facts, x) /\ (Settled(on, x) \/ Will(off, x))
  BY <1>2, <1>3, <1>4, HarmlessSettles
<1>7. QED
  BY <1>1, <1>5, <1>6, TrafficRules

LEMMA MlflowScript ==
  LET s == Body("mlflow-down") IN s \in Seq(Steps) /\ Harmless(s, "fence") /\ \A x : Settled(s, x)
<1>1. PICK d1 \in Steps, d2 \in Steps, d3 \in Steps, d4 \in Steps, d5 \in Steps :
        /\ d1 = <<"read", "image">> /\ d2 = <<"ship", "mlops">>
        /\ d3 = <<"delete pod", "chaos-register">> /\ d4 = <<"apply", "mlflow-down">>
        /\ d5 = <<"sleep", "before probe">>
  BY StepsAre DEF Words, OWN_PODS, Files
<1>2. PICK d6 \in Steps, d7 \in Steps, d8 \in Steps, d9 \in Steps, d10 \in Steps :
        /\ d6 = <<"run", "chaos-register">> /\ d7 = <<"wait", "chaos-register">>
        /\ d8 = <<"logs", "chaos-register">> /\ d9 = <<"delete pod", "chaos-register">>
        /\ d10 = <<"delete", "mlflow-down">>
  BY StepsAre DEF OWN_PODS, Files
<1>3. PICK s \in Seq(Steps) :
        /\ s = <<d1, d2, d3, d4, d5, d6, d7, d8, d9, d10>>
        /\ DOMAIN s = {1, 2, 3, 4, 5, 6, 7, 8, 9, 10}
        /\ s[1] = d1 /\ s[2] = d2 /\ s[3] = d3 /\ s[4] = d4 /\ s[5] = d5
        /\ s[6] = d6 /\ s[7] = d7 /\ s[8] = d8 /\ s[9] = d9 /\ s[10] = d10
  <2>1. <<d1, d2, d3, d4, d5, d6, d7, d8, d9, d10>> \in Seq(Steps)
    OBVIOUS
  <2>2. DOMAIN <<d1, d2, d3, d4, d5, d6, d7, d8, d9, d10>> = {1, 2, 3, 4, 5, 6, 7, 8, 9, 10}
    OBVIOUS
  <2>3. QED
    BY <2>1, <2>2
<1>4. /\ \A x : ~Does(d1, x) /\ ~Does(d2, x) /\ ~Does(d3, x) /\ ~Does(d5, x)
      /\ \A x : Does(d4, x) => x = "mlflow-down"
  BY <1>1 DEF Does
<1>5. /\ \A x : ~Does(d7, x) /\ ~Does(d8, x) /\ ~Does(d9, x) /\ ~Does(d10, x)
      /\ \A x : Does(d6, x) => x = "chaos-register"
      /\ Undoes(d9, "chaos-register") /\ Undoes(d10, "mlflow-down")
  BY <1>2 DEF Does, Undoes
<1>6. ASSUME NEW x, NEW i \in DOMAIN s, Does(s[i], x)
      PROVE  (i = 4 /\ x = "mlflow-down") \/ (i = 6 /\ x = "chaos-register")
  BY <1>3, <1>4, <1>5, <1>6
<1>7. \A x : Settled(s, x)
  <2>1. /\ 10 \in DOMAIN s /\ 4 < 10 /\ Undoes(s[10], "mlflow-down")
        /\ 9 \in DOMAIN s /\ 6 < 9 /\ Undoes(s[9], "chaos-register")
    BY <1>3, <1>5
  <2>2. QED
    BY <1>6, <2>1 DEF Settled
<1>8. Harmless(s, "fence")
  BY <1>6 DEF Harmless
<1>9. Body("mlflow-down") = s
  BY <1>1, <1>2, <1>3 DEF Body
<1>10. QED
  BY <1>7, <1>8, <1>9

(* A finally statement only takes away.                                     *)
LEMMA FinallyRules ==
  ASSUME NEW name
  PROVE  /\ Finally(name) \in Seq(Steps) /\ \A x : Harmless(Finally(name), x)
         /\ \A x : LeftToFinally(name, x) => Will(Finally(name), x)
         /\ name = "drain" => Will(Finally(name), "fence")
<1>1. CASE name = "noisy-neighbour"
  <2>1. "noisy-neighbour" \in Files
    BY DEF Files
  <2>2. Finally(name) = Delete("noisy-neighbour")
    BY <1>1 DEF Finally
  <2>3. \A x : LeftToFinally(name, x) => x = "noisy-neighbour"
    BY DEF LeftToFinally
  <2>4. name # "drain"
    BY <1>1
  <2>5. QED
    BY <2>1, <2>2, <2>3, <2>4, BodyOfFile
<1>2. CASE name = "drain"
  <2>1. <<"try uncordon", "">> \in Steps
    BY StepsAre DEF Words
  <2>2. (\A x : ~Does(<<"try uncordon", "">>, x)) /\ Undoes(<<"try uncordon", "">>, "fence")
    BY DEF Does, Undoes
  <2>3. Finally(name) = << <<"try uncordon", "">> >>
    BY <1>2 DEF Finally
  <2>4. \A x : ~LeftToFinally(name, x)
    BY <1>2 DEF LeftToFinally
  <2>5. QED
    BY <2>1, <2>2, <2>3, <2>4, OneStep
<1>3. CASE name \notin {"noisy-neighbour", "drain"}
  <2>1. Finally(name) = <<>> /\ name # "drain" /\ \A x : ~LeftToFinally(name, x)
    BY <1>3 DEF Finally, LeftToFinally
  <2>2. QED
    BY <2>1, NoSteps
<1>4. QED
  BY <1>1, <1>2, <1>3

(* A set in some order.                                                     *)
LEMMA SetToSeqRules ==
  ASSUME NEW S, IsFiniteSet(S), S \subseteq Steps
  PROVE  /\ SetToSeq(S) \in Seq(Steps)
         /\ \A i \in DOMAIN SetToSeq(S) : SetToSeq(S)[i] \in S
         /\ \A e \in S : \E i \in DOMAIN SetToSeq(S) : SetToSeq(S)[i] = e
<1>1. PICK n \in Nat : n = Cardinality(S) /\ ExistsBijection(1..n, S)
  BY FS_CardinalityType
<1>2. PICK g \in Injection(1..n, S) : TRUE
  BY <1>1 DEF ExistsBijection, Bijection
<1>3. \E f \in [1..n -> S] : IsInjective(f)
  BY <1>2 DEF Injection
<1>4. PICK f \in [1..n -> S] : f = SetToSeq(S) /\ IsInjective(f)
  BY <1>1, <1>3 DEF SetToSeq
<1>5. f \in Injection(1..n, S) /\ IsFiniteSet(1..n) /\ Cardinality(1..n) = n
  <2>1. f \in Injection(1..n, S)
    BY <1>4 DEF Injection
  <2>2. IsFiniteSet(1..n) /\ Cardinality(1..n) = n
    BY FS_Interval
  <2>3. QED
    BY <2>1, <2>2
<1>6. f \in Surjection(1..n, S)
  BY <1>1, <1>5, FS_Injection
<1>7. \A e \in S : \E i \in 1..n : f[i] = e
  BY <1>6 DEF Surjection
<1>8. f \in Seq(Steps) /\ DOMAIN f = 1..n /\ \A i \in 1..n : f[i] \in S
  <2>1. \A i \in 1..n : f[i] \in Steps
    OBVIOUS
  <2>2. f \in [1..n -> Steps]
    BY <2>1
  <2>3. QED
    BY <2>2, SeqDef
<1>9. QED
  BY <1>4, <1>7, <1>8

LEMMA CleanupSets ==
  /\ IsFiniteSet({ <<"try delete pod", p>> : p \in OWN_PODS })
  /\ IsFiniteSet({ <<"try delete", f>> : f \in Files })
  /\ { <<"try delete pod", p>> : p \in OWN_PODS } \subseteq Steps
  /\ { <<"try delete", f>> : f \in Files } \subseteq Steps
<1>1. ASSUME NEW S, NEW a, NEW b, NEW c, NEW d, S = {a, b, c} \/ S = {a, b, c, d}
      PROVE  IsFiniteSet(S)
  <2>1. IsFiniteSet({a})
    BY FS_Singleton
  <2>2. IsFiniteSet({a} \cup {b})
    BY <2>1, FS_AddElement
  <2>3. IsFiniteSet(({a} \cup {b}) \cup {c})
    BY <2>2, FS_AddElement
  <2>4. IsFiniteSet((({a} \cup {b}) \cup {c}) \cup {d})
    BY <2>3, FS_AddElement
  <2>5. {a, b, c} = ({a} \cup {b}) \cup {c} /\ {a, b, c, d} = (({a} \cup {b}) \cup {c}) \cup {d}
    OBVIOUS
  <2>6. QED
    BY <1>1, <2>3, <2>4, <2>5
<1>2. { <<"try delete pod", p>> : p \in OWN_PODS } =
        { <<"try delete pod", "chaos-load">>, <<"try delete pod", "chaos-flood">>,
          <<"try delete pod", "chaos-register">> }
  BY DEF OWN_PODS
<1>3. { <<"try delete", f>> : f \in Files } =
        { <<"try delete", "pod-kill">>, <<"try delete", "network-delay">>,
          <<"try delete", "noisy-neighbour">>, <<"try delete", "mlflow-down">> }
  BY DEF Files
<1>4. /\ { <<"try delete pod", p>> : p \in OWN_PODS } \subseteq Steps
      /\ { <<"try delete", f>> : f \in Files } \subseteq Steps
  BY StepsAre
<1>5. IsFiniteSet({ <<"try delete pod", p>> : p \in OWN_PODS })
  <2>1. PICK a, b, c : /\ a = <<"try delete pod", "chaos-load">> /\ b = <<"try delete pod", "chaos-flood">>
                       /\ c = <<"try delete pod", "chaos-register">>
    OBVIOUS
  <2>2. { <<"try delete pod", p>> : p \in OWN_PODS } = {a, b, c}
    BY <1>2, <2>1
  <2>3. QED
    BY <1>1, <2>2
<1>6. IsFiniteSet({ <<"try delete", f>> : f \in Files })
  <2>1. PICK a, b, c, d : /\ a = <<"try delete", "pod-kill">> /\ b = <<"try delete", "network-delay">>
                          /\ c = <<"try delete", "noisy-neighbour">> /\ d = <<"try delete", "mlflow-down">>
    OBVIOUS
  <2>2. { <<"try delete", f>> : f \in Files } = {a, b, c, d}
    BY <1>3, <2>1
  <2>3. QED
    BY <1>1, <2>2
<1>7. QED
  BY <1>4, <1>5, <1>6

(* cleanup() takes every pod and every fault away, and only that.           *)
LEMMA CleanupRules ==
  /\ Cleanup \in Seq(Steps)
  /\ \A x : Harmless(Cleanup, x)
  /\ \A x \in OWN_PODS \cup Files : Will(Cleanup, x)
  /\ \A i \in DOMAIN Cleanup : Unchecked(Cleanup[i])
<1>1. PICK a \in Seq(Steps) :
        /\ a = SetToSeq({ <<"try delete pod", p>> : p \in OWN_PODS })
        /\ \A i \in DOMAIN a : a[i] \in { <<"try delete pod", p>> : p \in OWN_PODS }
        /\ \A e \in { <<"try delete pod", p>> : p \in OWN_PODS } : \E i \in DOMAIN a : a[i] = e
  <2>1. PICK S : S = { <<"try delete pod", p>> : p \in OWN_PODS }
    OBVIOUS
  <2>2. IsFiniteSet(S) /\ S \subseteq Steps
    BY <2>1, CleanupSets, Zenon
  <2>3. \E t \in Seq(Steps) :
          /\ t = SetToSeq(S)
          /\ \A i \in DOMAIN t : t[i] \in S
          /\ \A e \in S : \E i \in DOMAIN t : t[i] = e
    BY <2>2, SetToSeqRules
  <2>4. QED
    BY <2>1, <2>3, Zenon
<1>2. PICK b \in Seq(Steps) :
        /\ b = SetToSeq({ <<"try delete", f>> : f \in Files })
        /\ \A i \in DOMAIN b : b[i] \in { <<"try delete", f>> : f \in Files }
        /\ \A e \in { <<"try delete", f>> : f \in Files } : \E i \in DOMAIN b : b[i] = e
  <2>1. PICK S : S = { <<"try delete", f>> : f \in Files }
    OBVIOUS
  <2>2. IsFiniteSet(S) /\ S \subseteq Steps
    BY <2>1, CleanupSets, Zenon
  <2>3. \E t \in Seq(Steps) :
          /\ t = SetToSeq(S)
          /\ \A i \in DOMAIN t : t[i] \in S
          /\ \A e \in S : \E i \in DOMAIN t : t[i] = e
    BY <2>2, SetToSeqRules
  <2>4. QED
    BY <2>1, <2>3, Zenon
<1>3. ASSUME NEW p \in OWN_PODS
      PROVE  /\ \A x : ~Does(<<"try delete pod", p>>, x)
             /\ Undoes(<<"try delete pod", p>>, p) /\ Unchecked(<<"try delete pod", p>>)
  <2>1. p # "fence"
    BY DEF OWN_PODS
  <2>2. QED
    BY <2>1 DEF Does, Undoes, Unchecked
<1>4. ASSUME NEW f \in Files
      PROVE  /\ \A x : ~Does(<<"try delete", f>>, x)
             /\ Undoes(<<"try delete", f>>, f) /\ Unchecked(<<"try delete", f>>)
  <2>1. f # "fence"
    BY DEF Files
  <2>2. QED
    BY <2>1 DEF Does, Undoes, Unchecked
<1>5. /\ \A x : Harmless(a, x)
      /\ \A i \in DOMAIN a : Unchecked(a[i])
      /\ \A x \in OWN_PODS : Will(a, x)
  BY <1>1, <1>3 DEF Harmless, Will
<1>6. /\ \A x : Harmless(b, x)
      /\ \A i \in DOMAIN b : Unchecked(b[i])
      /\ \A x \in Files : Will(b, x)
  BY <1>2, <1>4 DEF Harmless, Will
<1>7. PICK c \in Seq(Steps) : c = a \o b
  BY ConcatShape
<1>8. Cleanup = c
  BY <1>1, <1>2, <1>7 DEF Cleanup
<1>9. (\A x : Harmless(c, x)) /\ \A x \in OWN_PODS \cup Files : Will(c, x)
  <2>1. \A x : Harmless(c, x)
    BY <1>5, <1>6, <1>7, ConcatRules
  <2>2. \A x \in OWN_PODS \cup Files : Will(c, x)
    BY <1>5, <1>6, <1>7, ConcatRules
  <2>3. QED
    BY <2>1, <2>2
<1>10. \A i \in DOMAIN c : Unchecked(c[i])
  <2>1. PICK m, n \in Nat :
          /\ DOMAIN a = 1..m /\ DOMAIN b = 1..n /\ DOMAIN c = 1..(m + n)
          /\ \A i \in 1..m : c[i] = a[i]
          /\ \A i \in 1..n : c[m + i] = b[i]
    <3>1. Len(a) \in Nat /\ DOMAIN a = 1..Len(a) /\ Len(b) \in Nat /\ DOMAIN b = 1..Len(b)
      BY ConcatShape
    <3>2. DOMAIN c = 1..(Len(a) + Len(b)) /\ \A i \in 1..Len(a) : c[i] = a[i]
      BY <1>7, ConcatShape
    <3>3. \A i \in 1..Len(b) : c[Len(a) + i] = b[i]
      BY <1>7, ConcatShape
    <3>4. QED
      BY <3>1, <3>2, <3>3
  <2>2. ASSUME NEW i \in 1..(m + n), i \notin 1..m PROVE i - m \in 1..n /\ m + (i - m) = i
    BY <2>2
  <2>3. ASSUME NEW i \in 1..(m + n), i \notin 1..m PROVE Unchecked(c[i])
    <3>1. c[i] = b[i - m] /\ i - m \in DOMAIN b
      BY <2>1, <2>2, <2>3
    <3>2. QED
      BY <1>6, <3>1
  <2>4. ASSUME NEW i \in 1..m PROVE Unchecked(c[i])
    BY <1>5, <2>1, <2>4
  <2>5. QED
    BY <2>1, <2>3, <2>4
<1>11. QED
  BY <1>8, <1>9, <1>10

(* What the scripts keep to.                                                *)
LEMMA ScriptRules ==
  ASSUME NEW name \in Experiments
  PROVE  /\ Body(name) \in Seq(Steps) /\ Guarded(name) \in Seq(Steps)
         /\ Harmless(Body(name), "fence")
         /\ name # "drain" => Harmless(Guarded(name), "fence")
         /\ Settled(Guarded(name), "fence")
         /\ \A x : Settled(Body(name), x) \/ LeftToFinally(name, x)
         /\ \A x : Settled(Guarded(name), x) \/ LeftToFinally(name, x)
<1>1. ASSUME Guarded(name) = <<>>
      PROVE  Guarded(name) \in Seq(Steps) /\ Harmless(Guarded(name), "fence") /\ \A x : Settled(Guarded(name), x)
  <2>1. \A x : Settled(<<>>, x)
    BY NoSteps, HarmlessSettles
  <2>2. QED
    BY <1>1, <2>1, NoSteps
<1>2. CASE name = "pod-kill"
  <2>1. Guarded(name) = <<>>
    BY <1>2 DEF Guarded
  <2>2. name # "drain"
    BY <1>2
  <2>3. QED
    BY <1>1, <1>2, <2>1, <2>2, PodKillScript
<1>3. CASE name = "network-delay"
  <2>1. Guarded(name) = <<>>
    BY <1>3 DEF Guarded
  <2>2. name # "drain"
    BY <1>3
  <2>3. QED
    BY <1>1, <1>3, <2>1, <2>2, NetworkDelayScript
<1>4. CASE name = "queue-flood"
  <2>1. Guarded(name) = <<>>
    BY <1>4 DEF Guarded
  <2>2. name # "drain"
    BY <1>4
  <2>3. QED
    BY <1>1, <1>4, <2>1, <2>2, QueueFloodScript
<1>5. CASE name = "mlflow-down"
  <2>1. Guarded(name) = <<>>
    BY <1>5 DEF Guarded
  <2>2. name # "drain"
    BY <1>5
  <2>3. QED
    BY <1>1, <1>5, <2>1, <2>2, MlflowScript
<1>6. CASE name = "noisy-neighbour"
  <2>1. "fence" # "noisy-neighbour"
    OBVIOUS
  <2>2. \A x : x # "noisy-neighbour" => Settled(Body(name), x)
    BY <1>6, NeighbourScripts, HarmlessSettles
  <2>3. \A x : x = "noisy-neighbour" => LeftToFinally(name, x)
    BY <1>6 DEF LeftToFinally
  <2>4. QED
    BY <1>6, <2>1, <2>2, <2>3, NeighbourScripts
<1>7. CASE name = "drain"
  <2>1. \A x : Settled(Body(name), x)
    BY <1>7, DrainScripts, HarmlessSettles
  <2>2. QED
    BY <1>7, <2>1, DrainScripts
<1>8. QED
  BY <1>2, <1>3, <1>4, <1>5, <1>6, <1>7, ChaosAssumption

-----------------------------------------------------------------------------
(* Nothing is left behind *)

(* x is in the cluster, and no killed runner left it there.                 *)
Abroad(x) == x \in Remains \ litter

(* The finally statements bring nothing, cleanup() ignores what fails, and  *)
(* only the drain touches the fence.                                        *)
ScriptOk(stage, name, todo) ==
  /\ stage \in {"body", "guarded", "finally", "cleanup"}
  /\ name \in Experiments
  /\ todo \in Seq(Steps)
  /\ stage \in {"finally", "cleanup"} => \A x \in Things : Harmless(todo, x)
  /\ stage = "cleanup" => \A i \in DOMAIN todo : Unchecked(todo[i])
  /\ name # "drain" \/ stage = "body" => Harmless(todo, "fence")

(* Of a pod or a fault, after n failures: what is there is still to be      *)
(* taken away, by the script while nothing has failed, by cleanup() in any  *)
(* case.                                                                    *)
ThingOk(stage, name, todo, n, x, here) ==
  /\ n = 0 /\ stage \in {"body", "guarded"} =>
       LeftToFinally(name, x) \/ (Settled(todo, x) /\ (here => Will(todo, x)))
  /\ n = 0 /\ stage = "finally" => (here => Will(todo, x))
  /\ n = 0 /\ stage = "cleanup" => ~here
  /\ n = 1 /\ stage = "cleanup" => (here => Will(todo, x))

(* Of the fence: cleanup() does not know it, so that the drain must have    *)
(* taken it away in its try or in its finally statement.                    *)
FenceOk(stage, name, todo, n, here) ==
  /\ n \in {0, 1} /\ (name # "drain" \/ stage \in {"body", "cleanup"}) => ~here
  /\ n = 0 /\ stage = "guarded" =>
       Settled(todo, "fence") /\ (here => Will(todo, "fence"))
  /\ n = 0 /\ stage = "finally" => ~here
  /\ n = 1 /\ stage = "finally" => (here => Will(todo, "fence"))

(* A command that went well.                                                *)
LEMMA ScriptStep ==
  ASSUME NEW stage, NEW name, NEW todo, NEW n \in Nat, todo # <<>>,
         ScriptOk(stage, name, todo)
  PROVE  /\ ScriptOk(stage, name, Tail(todo)) /\ Head(todo) \in Steps
         /\ stage \in {"finally", "cleanup"} => \A x \in Things : ~Does(Head(todo), x)
         /\ name # "drain" \/ stage = "body" => ~Does(Head(todo), "fence")
         /\ stage = "cleanup" => Unchecked(Head(todo))
<1>1. PICK s \in Seq(Steps) : s = todo
  BY DEF ScriptOk
<1>2. Tail(s) \in Seq(Steps) /\ Head(s) \in Steps
  BY <1>1, TailRules
<1>3. ASSUME \A i \in DOMAIN s : Unchecked(s[i])
      PROVE  Unchecked(Head(s)) /\ \A i \in DOMAIN Tail(s) : Unchecked(Tail(s)[i])
  <2>1. Len(s) \in Nat /\ DOMAIN s = 1..Len(s)
    BY LenProperties
  <2>2. PICK t \in Seq(Steps) : t = Tail(s)
    BY <1>2
  <2>3. Len(t) = Len(s) - 1 /\ \A i \in 1..Len(t) : t[i] = s[i + 1]
    BY <1>1, <2>2, HeadTailProperties
  <2>4. Len(t) \in Nat /\ DOMAIN t = 1..Len(t)
    BY LenProperties
  <2>5. \A i \in DOMAIN t : i + 1 \in DOMAIN s /\ t[i] = s[i + 1]
    BY <2>1, <2>3, <2>4
  <2>6. 1 \in DOMAIN s /\ Head(s) = s[1]
    BY <1>1, <2>1, <2>3, <2>4
  <2>7. QED
    BY <1>3, <2>2, <2>5, <2>6
<1>4. \A x : Harmless(s, x) => Harmless(Tail(s), x) /\ ~Does(Head(s), x)
  BY <1>1, TailRules
<1>5. "fence" \in Things
  BY DEF Things
<1>6. QED
  BY <1>1, <1>2, <1>3, <1>4, <1>5 DEF ScriptOk

LEMMA ThingStep ==
  ASSUME NEW stage, NEW name, NEW todo, NEW n \in Nat, NEW x \in Things,
         NEW here \in BOOLEAN, NEW there \in BOOLEAN, todo # <<>>,
         ScriptOk(stage, name, todo), ThingOk(stage, name, todo, n, x, here),
         there => ~Undoes(Head(todo), x) /\ (here \/ Does(Head(todo), x))
  PROVE  ThingOk(stage, name, Tail(todo), n, x, there)
<1>1. todo \in Seq(Steps)
  BY DEF ScriptOk
<1>2. /\ Settled(todo, x) => Settled(Tail(todo), x)
      /\ Settled(todo, x) /\ Does(Head(todo), x) => Will(Tail(todo), x)
      /\ Will(todo, x) /\ ~Undoes(Head(todo), x) => Will(Tail(todo), x)
  BY <1>1, TailRules
<1>3. stage \in {"finally", "cleanup"} => ~Does(Head(todo), x)
  BY ScriptStep
<1>4. QED
  BY <1>2, <1>3 DEF ThingOk

LEMMA FenceStep ==
  ASSUME NEW stage, NEW name, NEW todo, NEW n \in Nat,
         NEW here \in BOOLEAN, NEW there \in BOOLEAN, todo # <<>>,
         ScriptOk(stage, name, todo), FenceOk(stage, name, todo, n, here),
         there => ~Undoes(Head(todo), "fence") /\ (here \/ Does(Head(todo), "fence"))
  PROVE  FenceOk(stage, name, Tail(todo), n, there)
<1>1. todo \in Seq(Steps)
  BY DEF ScriptOk
<1>2. /\ Settled(todo, "fence") => Settled(Tail(todo), "fence")
      /\ Settled(todo, "fence") /\ Does(Head(todo), "fence") => Will(Tail(todo), "fence")
      /\ Will(todo, "fence") /\ ~Undoes(Head(todo), "fence") => Will(Tail(todo), "fence")
  BY <1>1, TailRules
<1>3. /\ stage \in {"finally", "cleanup"} => ~Does(Head(todo), "fence")
      /\ name # "drain" \/ stage = "body" => ~Does(Head(todo), "fence")
  <2>1. "fence" \in Things
    BY DEF Things
  <2>2. QED
    BY <2>1, ScriptStep
<1>4. QED
  BY <1>2, <1>3 DEF FenceOk

(* A command that failed, having taken effect or not, and was ignored.      *)
LEMMA IgnoredFailure ==
  ASSUME NEW stage, NEW name, NEW todo, NEW n \in Nat, NEW x \in Things,
         NEW here \in BOOLEAN, NEW there \in BOOLEAN, todo # <<>>,
         ScriptOk(stage, name, todo),
         there => here \/ Does(Head(todo), x)
  PROVE  /\ ThingOk(stage, name, todo, n, x, here) =>
              ThingOk(stage, name, Tail(todo), n + 1, x, there)
         /\ x = "fence" /\ FenceOk(stage, name, todo, n, here) =>
              FenceOk(stage, name, Tail(todo), n + 1, there)
<1>1. /\ stage \in {"finally", "cleanup"} => ~Does(Head(todo), x)
      /\ name # "drain" \/ stage = "body" => ~Does(Head(todo), "fence")
  BY ScriptStep
<1>2. n + 1 # 0 /\ (n + 1 = 1 => n = 0) /\ (n + 1 \in {0, 1} => n = 0)
  OBVIOUS
<1>3. PICK m \in Nat : m = n + 1
  OBVIOUS
<1>4. QED
  BY <1>1, <1>2, <1>3 DEF ThingOk, FenceOk

(* Once a command has failed, a pod or a fault is left to cleanup().        *)
LEMMA LeftToCleanup ==
  ASSUME NEW name, NEW next \in {"finally", "cleanup"}, NEW n \in Nat \ {0}
  PROVE  \A x \in OWN_PODS \cup Files, there \in BOOLEAN :
           ThingOk(next, name, Stage(name, next), n, x, there)
<1>1. next = "cleanup" => Stage(name, next) = Cleanup
  BY DEF Stage
<1>2. QED
  BY <1>1, CleanupRules DEF ThingOk

(* A command that failed and was not.                                       *)
LEMMA RaisedFailure ==
  ASSUME NEW stage, NEW name, NEW todo, NEW next,
         ScriptOk(stage, name, todo), stage # "cleanup", next = AfterStage(stage, TRUE)
  PROVE  /\ ScriptOk(next, name, Stage(name, next))
         /\ \/ next = "cleanup" /\ stage \in {"body", "finally"}
            \/ next = "finally" /\ stage = "guarded"
<1>1. name \in Experiments /\ stage \in {"body", "guarded", "finally"}
  BY DEF ScriptOk
<1>2. CASE next = "cleanup" /\ stage \in {"body", "finally"}
  <2>1. Stage(name, next) = Cleanup
    BY <1>2 DEF Stage
  <2>2. ScriptOk(next, name, Cleanup)
    BY <1>1, <1>2, CleanupRules DEF ScriptOk
  <2>3. QED
    BY <1>2, <2>1, <2>2
<1>3. CASE next = "finally" /\ stage = "guarded"
  <2>1. Stage(name, next) = Finally(name)
    BY <1>3 DEF Stage
  <2>2. ScriptOk(next, name, Finally(name))
    BY <1>1, <1>3, FinallyRules DEF ScriptOk
  <2>3. QED
    BY <1>3, <2>1, <2>2
<1>4. QED
  BY <1>1, <1>2, <1>3 DEF AfterStage

LEMMA RaisedFence ==
  ASSUME NEW stage, NEW name, NEW todo, NEW next, NEW n \in Nat, NEW m \in Nat, m = n + 1,
         NEW here \in BOOLEAN, NEW there \in BOOLEAN, todo # <<>>,
         ScriptOk(stage, name, todo), stage # "cleanup", next = AfterStage(stage, TRUE),
         FenceOk(stage, name, todo, n, here), there => here \/ Does(Head(todo), "fence")
  PROVE  FenceOk(next, name, Stage(name, next), m, there)
<1>1. m # 0 /\ (m = 1 => n = 0) /\ (m \in {0, 1} => n = 0)
  OBVIOUS
<1>2. /\ stage \in {"finally", "cleanup"} => ~Does(Head(todo), "fence")
      /\ name # "drain" \/ stage = "body" => ~Does(Head(todo), "fence")
  <2>1. "fence" \in Things
    BY DEF Things
  <2>2. QED
    BY <2>1, ScriptStep
<1>3. CASE next = "cleanup" /\ stage \in {"body", "finally"}
  BY <1>1, <1>2, <1>3 DEF FenceOk
<1>4. CASE next = "finally" /\ stage = "guarded"
  <2>1. Stage(name, next) = Finally(name)
    BY <1>4 DEF Stage
  <2>2. QED
    BY <1>1, <1>2, <1>4, <2>1, FinallyRules DEF FenceOk
<1>5. QED
  BY <1>3, <1>4, RaisedFailure

(* A stage that ended.                                                      *)
LEMMA EndedStage ==
  ASSUME NEW stage, NEW name, NEW n \in Nat, NEW next,
         ScriptOk(stage, name, <<>>), stage # "cleanup", next = AfterStage(stage, FALSE)
  PROVE  /\ ScriptOk(next, name, Stage(name, next))
         /\ \A x \in OWN_PODS \cup Files, here \in BOOLEAN :
              ThingOk(stage, name, <<>>, n, x, here) =>
                ThingOk(next, name, Stage(name, next), n, x, here)
         /\ \A here \in BOOLEAN :
              FenceOk(stage, name, <<>>, n, here) => FenceOk(next, name, Stage(name, next), n, here)
<1>1. name \in Experiments /\ stage \in {"body", "guarded", "finally"}
  BY DEF ScriptOk
<1>2. \A x : ~Will(<<>>, x)
  <2>1. DOMAIN <<>> = {}
    BY EmptySeq
  <2>2. QED
    BY <2>1 DEF Will
<1>3. CASE stage = "body" /\ next = "guarded"
  <2>1. Stage(name, next) = Guarded(name)
    BY <1>3 DEF Stage
  <2>2. ScriptOk(next, name, Guarded(name))
    BY <1>1, <1>3, ScriptRules DEF ScriptOk
  <2>3. \A x \in OWN_PODS \cup Files, here \in BOOLEAN :
          ThingOk(stage, name, <<>>, n, x, here) => ThingOk(next, name, Guarded(name), n, x, here)
    BY <1>1, <1>2, <1>3, ScriptRules DEF ThingOk
  <2>4. \A here \in BOOLEAN :
          FenceOk(stage, name, <<>>, n, here) => FenceOk(next, name, Guarded(name), n, here)
    BY <1>1, <1>3, ScriptRules DEF FenceOk
  <2>5. QED
    BY <2>1, <2>2, <2>3, <2>4
<1>4. CASE stage = "guarded" /\ next = "finally"
  <2>1. Stage(name, next) = Finally(name)
    BY <1>4 DEF Stage
  <2>2. ScriptOk(next, name, Finally(name))
    BY <1>1, <1>4, FinallyRules DEF ScriptOk
  <2>3. \A x \in OWN_PODS \cup Files, here \in BOOLEAN :
          ThingOk(stage, name, <<>>, n, x, here) => ThingOk(next, name, Finally(name), n, x, here)
    BY <1>2, <1>4, FinallyRules DEF ThingOk
  <2>4. \A here \in BOOLEAN :
          FenceOk(stage, name, <<>>, n, here) => FenceOk(next, name, Finally(name), n, here)
    BY <1>2, <1>4, FinallyRules DEF FenceOk
  <2>5. QED
    BY <2>1, <2>2, <2>3, <2>4
<1>5. CASE stage = "finally" /\ next = "cleanup"
  <2>1. Stage(name, next) = Cleanup
    BY <1>5 DEF Stage
  <2>2. ScriptOk(next, name, Cleanup)
    BY <1>1, <1>5, CleanupRules DEF ScriptOk
  <2>3. \A x \in OWN_PODS \cup Files, here \in BOOLEAN :
          ThingOk(stage, name, <<>>, n, x, here) => ThingOk(next, name, Cleanup, n, x, here)
    BY <1>2, <1>5, CleanupRules DEF ThingOk
  <2>4. \A here \in BOOLEAN :
          FenceOk(stage, name, <<>>, n, here) => FenceOk(next, name, Cleanup, n, here)
    BY <1>2, <1>5 DEF FenceOk
  <2>5. QED
    BY <2>1, <2>2, <2>3, <2>4
<1>6. QED
  BY <1>1, <1>3, <1>4, <1>5 DEF AfterStage

(* An experiment that starts, and one that is over.                         *)
LEMMA BegunScript ==
  ASSUME NEW name \in Experiments, NEW n \in Nat
  PROVE  /\ ScriptOk("body", name, Body(name))
         /\ \A x : \A here \in BOOLEAN :
              (n <= 1 => ~here) => ThingOk("body", name, Body(name), n, x, here)
         /\ \A here \in BOOLEAN :
              (n <= 1 => ~here) => FenceOk("body", name, Body(name), n, here)
<1>1. ScriptOk("body", name, Body(name))
  BY ScriptRules DEF ScriptOk
<1>2. n \in {0, 1} => n <= 1
  OBVIOUS
<1>3. \A x : \A here \in BOOLEAN : (n <= 1 => ~here) => ThingOk("body", name, Body(name), n, x, here)
  BY <1>2, ScriptRules DEF ThingOk
<1>4. \A here \in BOOLEAN : (n <= 1 => ~here) => FenceOk("body", name, Body(name), n, here)
  BY <1>2 DEF FenceOk
<1>5. QED
  BY <1>1, <1>3, <1>4

LEMMA EndedScript ==
  ASSUME NEW name, NEW n \in Nat, n <= 1
  PROVE  /\ \A x : \A here \in BOOLEAN : ThingOk("cleanup", name, <<>>, n, x, here) => ~here
         /\ \A here \in BOOLEAN : FenceOk("cleanup", name, <<>>, n, here) => ~here
<1>1. \A x : ~Will(<<>>, x)
  <2>1. DOMAIN <<>> = {}
    BY EmptySeq
  <2>2. QED
    BY <2>1 DEF Will
<1>2. n \in {0, 1}
  OBVIOUS
<1>3. QED
  BY <1>1, <1>2 DEF ThingOk, FenceOk

(* What is in the cluster.                                                  *)
ClusterTyped ==
  /\ DOMAIN faults \subseteq Files /\ DOMAIN pods \subseteq OWN_PODS
  /\ setup \in BOOLEAN /\ fenced \in BOOLEAN

LEMMA RemainsAre == ASSUME ClusterTyped PROVE Remains \subseteq Things
BY DEF ClusterTyped, Remains, Things, Files, OWN_PODS

(* Kinds of things are told apart by their names.                           *)
LEMMA NamesDiffer ==
  /\ \A f \in Files : f \notin OWN_PODS /\ f # "fence"
  /\ \A p \in OWN_PODS : p # "fence"
  /\ "noisy-neighbour" \in Files
BY DEF Files, OWN_PODS

LEMMA StepKinds ==
  ASSUME NEW step \in Steps
  PROVE  /\ step[1] \in {"delete", "try delete", "apply"} => step[2] \in Files
         /\ step[1] \in {"delete pod", "try delete pod", "run", "await"} => step[2] \in OWN_PODS
         /\ step[1] = "place" => step[2] = "noisy-neighbour"
         /\ step = <<step[1], step[2]>>
<1>1. PICK verb, object :
        /\ step = <<verb, object>>
        /\ \/ verb \in {"apply", "delete", "try delete", "stop"} /\ object \in Files
           \/ verb \in {"run", "await", "wait", "logs", "delete pod", "try delete pod"}
                /\ object \in OWN_PODS
           \/ verb \in {"read", "ship", "sleep", "drain", "uncordon", "try uncordon", "rollout"}
           \/ verb = "place" /\ object = "noisy-neighbour"
  <2>1. ASSUME NEW V, NEW W, step \in V \X W
        PROVE  \E v \in V, w \in W : step = <<v, w>>
    BY <2>1
  <2>2. CASE step \in {"apply", "delete", "try delete", "stop"} \X Files
    BY <2>1, <2>2
  <2>3. CASE step \in {"run", "await", "wait", "logs", "delete pod", "try delete pod"} \X OWN_PODS
    BY <2>1, <2>3
  <2>4. CASE step \in {"read", "ship", "sleep", "drain", "uncordon", "try uncordon", "rollout"} \X Words
    <3>1. PICK V : V = {"read", "ship", "sleep", "drain", "uncordon", "try uncordon", "rollout"}
      OBVIOUS
    <3>2. step \in V \X Words
      BY <2>4, <3>1
    <3>3. PICK v \in V, w \in Words : step = <<v, w>>
      BY <2>1, <3>2
    <3>4. QED
      BY <3>1, <3>3
  <2>5. CASE step = <<"place", "noisy-neighbour">>
    BY <2>5
  <2>6. QED
    BY <2>2, <2>3, <2>4, <2>5 DEF Steps
<1>2. step[1] = verb /\ step[2] = object
  BY <1>1
<1>3. /\ verb \in {"delete", "try delete", "apply"} => object \in Files
      /\ verb \in {"delete pod", "try delete pod", "run", "await"} => object \in OWN_PODS
      /\ verb = "place" => object = "noisy-neighbour"
  BY <1>1
<1>4. QED
  BY <1>1, <1>2, <1>3

LEMMA FaultsEffect ==
  ASSUME NEW step \in Steps, DOMAIN faults \subseteq Files, faults' = FaultsAfter(step)
  PROVE  /\ DOMAIN faults' \subseteq Files
         /\ \A f \in DOMAIN faults' :
              /\ f \in DOMAIN faults \/ (step[1] = "apply" /\ step[2] = f)
              /\ ~(step[1] \in {"delete", "try delete"} /\ step[2] = f)
<1>1. step[1] = "apply" => step[2] \in Files
  BY StepKinds
<1>2. CASE step[1] = "apply" /\ step[2] \notin DOMAIN faults
  <2>1. DOMAIN faults' = DOMAIN faults \cup {step[2]}
    BY <1>2 DEF FaultsAfter, Put
  <2>2. step[1] \notin {"delete", "try delete"}
    BY <1>2
  <2>3. QED
    BY <1>1, <1>2, <2>1, <2>2
<1>3. CASE step[1] \in {"delete", "try delete", "stop"}
  <2>1. step[1] # "apply"
    BY <1>3
  <2>2. DOMAIN faults' = DOMAIN faults \ {step[2]}
    BY <1>3, <2>1 DEF FaultsAfter, Gone
  <2>3. QED
    BY <2>2
<1>4. CASE ~(step[1] = "apply" /\ step[2] \notin DOMAIN faults)
           /\ step[1] \notin {"delete", "try delete", "stop"}
  <2>1. faults' = faults
    BY <1>4 DEF FaultsAfter
  <2>2. step[1] \notin {"delete", "try delete"}
    BY <1>4
  <2>3. QED
    BY <2>1, <2>2
<1>5. QED
  BY <1>2, <1>3, <1>4

LEMMA PodsEffect ==
  ASSUME NEW step \in Steps, DOMAIN pods \subseteq OWN_PODS, pods' = PodsAfter(step)
  PROVE  /\ DOMAIN pods' \subseteq OWN_PODS
         /\ \A p \in DOMAIN pods' :
              /\ p \in DOMAIN pods \/ (step[1] \in {"run", "await"} /\ step[2] = p)
              /\ ~(step[1] \in {"delete pod", "try delete pod"} /\ step[2] = p)
<1>1. step[1] \in {"run", "await"} => step[2] \in OWN_PODS
  BY StepKinds
<1>2. CASE step[1] \in {"run", "await"}
  <2>1. DOMAIN pods' = DOMAIN pods \cup {step[2]}
    BY <1>2 DEF PodsAfter, Put
  <2>2. step[1] \notin {"delete pod", "try delete pod"}
    BY <1>2
  <2>3. QED
    BY <1>1, <1>2, <2>1, <2>2
<1>3. CASE step[1] \in {"delete pod", "try delete pod"}
  <2>1. step[1] # "run" /\ step[1] # "await"
    BY <1>3
  <2>2. DOMAIN pods' = DOMAIN pods \ {step[2]}
    BY <1>3, <2>1 DEF PodsAfter, Gone
  <2>3. QED
    BY <2>2
<1>4. CASE step[1] \notin {"run", "await", "delete pod", "try delete pod"}
  <2>1. pods' = pods
    BY <1>4 DEF PodsAfter
  <2>2. step[1] \notin {"delete pod", "try delete pod"}
    BY <1>4
  <2>3. QED
    BY <2>1, <2>2
<1>5. QED
  BY <1>2, <1>3, <1>4

(* What a command does to what is abroad.                                   *)
LEMMA EffectRules ==
  ASSUME NEW step \in Steps, ClusterTyped, TakesEffect(step)
  PROVE  /\ ClusterTyped'
         /\ \A x \in Things : Abroad(x)' => ~Undoes(step, x) /\ (Abroad(x) \/ Does(step, x))
<1>1. /\ DOMAIN faults' \subseteq Files
      /\ \A f \in DOMAIN faults' :
           /\ f \in DOMAIN faults \/ (step[1] = "apply" /\ step[2] = f)
           /\ ~(step[1] \in {"delete", "try delete"} /\ step[2] = f)
  BY FaultsEffect DEF ClusterTyped, TakesEffect
<1>2. /\ DOMAIN pods' \subseteq OWN_PODS
      /\ \A p \in DOMAIN pods' :
           /\ p \in DOMAIN pods \/ (step[1] \in {"run", "await"} /\ step[2] = p)
           /\ ~(step[1] \in {"delete pod", "try delete pod"} /\ step[2] = p)
  BY PodsEffect DEF ClusterTyped, TakesEffect
<1>3. /\ setup' \in BOOLEAN
      /\ setup' => /\ setup \/ (step[1] = "place" /\ step[2] = "noisy-neighbour")
                   /\ ~(step[1] \in {"delete", "try delete"} /\ step[2] = "noisy-neighbour")
  <2>1. setup' = SetupAfter(step) /\ setup \in BOOLEAN
    BY DEF TakesEffect, ClusterTyped
  <2>2. CASE step[1] = "place"
    BY <2>1, <2>2, StepKinds DEF SetupAfter
  <2>3. CASE step[1] # "place" /\ step[1] \in {"delete", "try delete"} /\ step[2] = "noisy-neighbour"
    <3>1. step \in {<<"delete", "noisy-neighbour">>, <<"try delete", "noisy-neighbour">>}
      BY <2>3, StepKinds
    <3>2. QED
      BY <2>1, <2>3, <3>1 DEF SetupAfter
  <2>4. CASE step[1] # "place" /\ ~(step[1] \in {"delete", "try delete"} /\ step[2] = "noisy-neighbour")
    BY <2>1, <2>4 DEF SetupAfter
  <2>5. QED
    BY <2>2, <2>3, <2>4
<1>4. /\ fenced' \in BOOLEAN
      /\ fenced' => /\ fenced \/ step[1] = "drain"
                    /\ step[1] \notin {"uncordon", "try uncordon"}
  BY DEF TakesEffect, ClusterTyped, FencedAfter
<1>5. /\ \A x \in Files \cup OWN_PODS : x \in litter /\ ~Undoes(step, x) => x \in litter'
      /\ "fence" \in litter /\ ~Undoes(step, "fence") => "fence" \in litter'
  <2>1. litter' = LitterAfter(step)
    BY DEF TakesEffect
  <2>2. CASE step[1] \in {"delete", "try delete", "delete pod", "try delete pod"}
    <3>1. litter' = litter \ {step[2]} /\ step[2] # "fence"
      BY <2>1, <2>2, StepKinds, NamesDiffer DEF LitterAfter
    <3>2. QED
      BY <2>2, <3>1, NamesDiffer DEF Undoes
  <2>3. CASE step[1] \in {"uncordon", "try uncordon"}
    <3>1. litter' = litter \ {"fence"} /\ Undoes(step, "fence")
      BY <2>1, <2>3 DEF LitterAfter, Undoes
    <3>2. QED
      BY <3>1, NamesDiffer
  <2>4. CASE step[1] \notin {"delete", "try delete", "delete pod", "try delete pod", "uncordon", "try uncordon"}
    BY <2>1, <2>4 DEF LitterAfter
  <2>5. QED
    BY <2>2, <2>3, <2>4
<1>6. ASSUME NEW f \in Files, f \in Remains'
      PROVE  ~Undoes(step, f) /\ (f \in Remains \/ Does(step, f))
  <2>1. f \in DOMAIN faults' \/ (f = "noisy-neighbour" /\ setup')
    BY <1>2, <1>6, NamesDiffer DEF Remains
  <2>2. ~(step[1] \in {"delete", "try delete"} /\ step[2] = f)
    BY <1>1, <1>3, <2>1
  <2>3. ~(step[1] \in {"delete pod", "try delete pod"} /\ step[2] = f)
    BY StepKinds, NamesDiffer
  <2>4. f \in DOMAIN faults \/ (f = "noisy-neighbour" /\ setup)
        \/ (step[1] \in {"apply", "place"} /\ step[2] = f)
    BY <1>1, <1>3, <2>1
  <2>5. QED
    BY <2>2, <2>3, <2>4, NamesDiffer DEF Undoes, Does, Remains
<1>7. ASSUME NEW p \in OWN_PODS, p \in Remains'
      PROVE  ~Undoes(step, p) /\ (p \in Remains \/ Does(step, p))
  <2>1. p \in DOMAIN pods'
    BY <1>1, <1>7, NamesDiffer DEF Remains
  <2>2. ~(step[1] \in {"delete", "try delete"} /\ step[2] = p)
    BY StepKinds, NamesDiffer
  <2>3. QED
    BY <1>2, <2>1, <2>2, NamesDiffer DEF Undoes, Does, Remains
<1>8. ASSUME "fence" \in Remains'
      PROVE  ~Undoes(step, "fence") /\ ("fence" \in Remains \/ Does(step, "fence"))
  <2>1. fenced'
    BY <1>1, <1>2, <1>8, NamesDiffer DEF Remains
  <2>2. QED
    BY <1>4, <2>1 DEF Undoes, Does, Remains
<1>9. ASSUME NEW x \in Things, Abroad(x)'
      PROVE  ~Undoes(step, x) /\ (Abroad(x) \/ Does(step, x))
  <2>1. x \in Remains' /\ x \notin litter'
    BY <1>9 DEF Abroad
  <2>2. ~Undoes(step, x) /\ (x \in Remains \/ Does(step, x))
    BY <1>6, <1>7, <1>8, <2>1 DEF Things
  <2>3. x \notin litter
    BY <1>5, <2>1, <2>2 DEF Things
  <2>4. QED
    BY <2>2, <2>3 DEF Abroad
<1>10. QED
  BY <1>1, <1>2, <1>3, <1>4, <1>9 DEF ClusterTyped

(* The runner's record has its fields.                                      *)
Shaped == {"at", "name", "stage", "todo", "waited", "raised", "started", "got", "facts",
           "answer"} \subseteq DOMAIN runner

ExperimentOk ==
  /\ ScriptOk(runner.stage, runner.name, runner.todo)
  /\ \A x \in OWN_PODS \cup Files :
       ThingOk(runner.stage, runner.name, runner.todo, used.failures, x, Abroad(x))
  /\ FenceOk(runner.stage, runner.name, runner.todo, used.failures, Abroad("fence"))

(* With at most one command failed in all, what an experiment has brought   *)
(* is gone when it is over, and until then is sure to be taken away.        *)
CleanInv ==
  /\ ClusterTyped
  /\ Shaped
  /\ used.failures \in Nat /\ "failures" \in DOMAIN used
  /\ ~Running /\ used.failures <= 1 => Remains \subseteq litter
  /\ Running => ExperimentOk

(* The runner between two experiments, or off.                              *)
LEMMA NewRunRules ==
  ASSUME NEW at, NEW name, NEW ref, at # "running"
  PROVE  \A r : r = NewRun(at, name, ref) =>
           /\ {"at", "name", "stage", "todo", "waited", "raised", "started", "got", "facts",
               "answer", "verdict"} \subseteq DOMAIN r
           /\ r.at # "running"
BY DEF NewRun

LEMMA NotAbroad ==
  ASSUME ClusterTyped, \A x \in OWN_PODS \cup Files : ~Abroad(x), ~Abroad("fence")
  PROVE  Remains \subseteq litter
BY RemainsAre DEF Abroad, Things

LEMMA AbroadIsBoolean == \A x : Abroad(x) \in BOOLEAN
BY DEF Abroad

(* A step after which no experiment runs, and that brings nothing.          *)
LEMMA IdleStep ==
  ASSUME CleanInv, ClusterTyped', Shaped', ~Running',
         used'.failures \in Nat, used.failures <= used'.failures, "failures" \in DOMAIN used',
         Remains' \subseteq Remains, litter' = litter,
         ~Running \/ Remains \subseteq litter \/ used.failures > 1
  PROVE  CleanInv'
<1>1. used'.failures <= 1 => used.failures <= 1
  BY DEF CleanInv
<1>2. used'.failures <= 1 => Remains' \subseteq litter'
  BY <1>1 DEF CleanInv
<1>3. QED
  BY <1>2 DEF CleanInv

(* What does not touch the runner's script, nor what is in the cluster.     *)
LEMMA QuietStep ==
  ASSUME CleanInv, ClusterTyped', Shaped', used' = used, Remains' = Remains, litter' = litter,
         runner'.at = runner.at, runner'.stage = runner.stage, runner'.name = runner.name,
         runner'.todo = runner.todo
  PROVE  CleanInv'
<1>1. \A x : Abroad(x)' <=> Abroad(x)
  BY DEF Abroad
<1>2. ExperimentOk => ExperimentOk'
  <2>1. ASSUME ExperimentOk PROVE ExperimentOk'
    <3>1. \A x : Abroad(x)' = Abroad(x)
      BY <1>1, AbroadIsBoolean DEF Abroad
    <3>2. FenceOk(runner.stage, runner.name, runner.todo, used.failures, Abroad("fence"))'
      BY <2>1, <3>1 DEF ExperimentOk
    <3>3. ASSUME NEW x \in OWN_PODS \cup Files
          PROVE  ThingOk(runner.stage, runner.name, runner.todo, used.failures, x, Abroad(x))'
      BY <2>1, <3>1 DEF ExperimentOk
    <3>4. QED
      BY <2>1, <3>2, <3>3 DEF ExperimentOk
  <2>2. QED
    BY <2>1
<1>3. QED
  BY <1>2 DEF CleanInv, Running

(* An experiment that goes on: cases of ExperimentOk'.                      *)
LEMMA GoesOn ==
  ASSUME NEW stage, NEW name, NEW todo, NEW n,
         runner'.stage = stage, runner'.name = name, runner'.todo = todo, used'.failures = n,
         ScriptOk(stage, name, todo),
         \A x \in OWN_PODS \cup Files : ThingOk(stage, name, todo, n, x, Abroad(x)'),
         FenceOk(stage, name, todo, n, Abroad("fence")')
  PROVE  ExperimentOk'
BY DEF ExperimentOk

LEMMA LearnRules ==
  ASSUME Shaped, NEW step, Learn(step)
  PROVE  /\ runner'.at = runner.at /\ runner'.name = runner.name /\ runner'.stage = runner.stage
         /\ runner'.todo = Tail(runner.todo) /\ Shaped'
<1>1. CASE step = <<"read", "facts">>
  <2>1. PICK full : runner' = [runner EXCEPT !.todo = Tail(@), !.waited = 0, !.facts = FactsOf(full)]
    BY <1>1 DEF Learn
  <2>2. QED
    BY <2>1 DEF Shaped
<1>2. CASE step # <<"read", "facts">>
  <2>1. PICK extra :
          runner' = [runner EXCEPT
            !.todo = Tail(@), !.waited = 0,
            !.facts.ready = IF step[1] = "rollout" THEN serving ELSE @,
            !.started = IF step[1] = "run" THEN @ \cup {step[2]} ELSE @,
            !.answer = IF step = <<"logs", "chaos-register">> THEN ProbeFacts ELSE @,
            !.got = IF step = <<"logs", "chaos-load">> THEN @ \cup records
                    ELSE @ \cup extra]
    BY <1>2 DEF Learn
  <2>2. QED
    BY <2>1 DEF Shaped
<1>3. QED
  BY <1>1, <1>2

LEMMA CommandKeeps == ASSUME CleanInv, Command PROVE CleanInv'
<1>1. PICK todo, step : todo = runner.todo /\ step = Head(todo) /\ todo # <<>>
  BY DEF Command
<1>2. TakesEffect(step) /\ Learn(step) /\ used' = used
  BY <1>1 DEF Command, Step
<1>3. /\ runner'.at = runner.at /\ runner'.name = runner.name /\ runner'.stage = runner.stage
      /\ runner'.todo = Tail(todo) /\ Shaped'
  BY <1>1, <1>2, LearnRules DEF CleanInv
<1>4. Running /\ Running' /\ ExperimentOk
  BY <1>3 DEF Command, CleanInv, Running
<1>0. PICK n \in Nat : n = used.failures
  BY DEF CleanInv
<1>5. PICK stage, name : stage = runner.stage /\ name = runner.name /\ n = used.failures
  BY <1>0
<1>6. ScriptOk(stage, name, todo)
  BY <1>1, <1>4, <1>5 DEF ExperimentOk
<1>7. ScriptOk(stage, name, Tail(todo)) /\ step \in Steps
  BY <1>1, <1>6, ScriptStep
<1>8. /\ ClusterTyped'
      /\ \A x \in Things : Abroad(x)' => ~Undoes(step, x) /\ (Abroad(x) \/ Does(step, x))
  BY <1>2, <1>7, EffectRules DEF CleanInv
<1>9. ASSUME NEW x \in OWN_PODS \cup Files PROVE ThingOk(stage, name, Tail(todo), n, x, Abroad(x)')
  <2>0. Abroad(x) \in BOOLEAN /\ Abroad(x)' \in BOOLEAN
    BY DEF Abroad
  <2>1. PICK here, there \in BOOLEAN : here = Abroad(x) /\ there = Abroad(x)'
    BY <2>0, Zenon
  <2>2. x \in Things
    BY DEF Things
  <2>3. ThingOk(stage, name, todo, n, x, here)
    BY <1>1, <1>4, <1>5, <2>1 DEF ExperimentOk
  <2>4. there => ~Undoes(Head(todo), x) /\ (here \/ Does(Head(todo), x))
    BY <1>1, <1>8, <2>1, <2>2
  <2>5. ThingOk(stage, name, Tail(todo), n, x, there)
    BY <1>1, <1>6, <2>2, <2>3, <2>4, ThingStep
  <2>6. QED
    BY <2>1, <2>5
<1>10. FenceOk(stage, name, Tail(todo), n, Abroad("fence")')
  <2>0. Abroad("fence") \in BOOLEAN /\ Abroad("fence")' \in BOOLEAN
    BY DEF Abroad
  <2>1. PICK here, there \in BOOLEAN : here = Abroad("fence") /\ there = Abroad("fence")'
    BY <2>0, Zenon
  <2>2. "fence" \in Things
    BY DEF Things
  <2>3. FenceOk(stage, name, todo, n, here)
    BY <1>1, <1>4, <1>5, <2>1 DEF ExperimentOk
  <2>4. there => ~Undoes(Head(todo), "fence") /\ (here \/ Does(Head(todo), "fence"))
    BY <1>1, <1>8, <2>1, <2>2
  <2>5. FenceOk(stage, name, Tail(todo), n, there)
    BY <1>1, <1>6, <2>3, <2>4, FenceStep
  <2>6. QED
    BY <2>1, <2>5
<1>11. ExperimentOk'
  <2>1. runner'.stage = stage /\ runner'.name = name /\ runner'.todo = Tail(todo) /\ used'.failures = n
    BY <1>2, <1>3, <1>5
  <2>2. QED
    BY <1>7, <1>9, <1>10, <2>1, GoesOn
<1>12. QED
  BY <1>2, <1>3, <1>4, <1>8, <1>11 DEF CleanInv

(* A command that failed has done what it does, or nothing.                 *)
LEMMA CommandFailsKeeps == ASSUME CleanInv, CommandFails PROVE CleanInv'
<1>0. PICK n \in Nat : n = used.failures
  BY DEF CleanInv
<1>1. PICK todo, step, stage, name :
        /\ todo = runner.todo /\ step = Head(todo) /\ todo # <<>>
        /\ stage = runner.stage /\ name = runner.name /\ n = used.failures
  BY <1>0 DEF CommandFails
<1>2. Running /\ ExperimentOk
  BY DEF CommandFails, CleanInv
<1>3. ScriptOk(stage, name, todo)
  BY <1>1, <1>2 DEF ExperimentOk
<1>4. /\ ScriptOk(stage, name, Tail(todo)) /\ step \in Steps
      /\ stage = "cleanup" => Unchecked(step)
  BY <1>1, <1>3, ScriptStep
<1>5. ClusterTyped' /\ \A x \in Things : Abroad(x)' => Abroad(x) \/ Does(step, x)
  <2>1. CASE TakesEffect(step)
    BY <1>4, <2>1, EffectRules DEF CleanInv
  <2>2. CASE UNCHANGED <<clusterVars, litter>>
    BY <2>2 DEF CleanInv, ClusterTyped, Abroad, Remains, clusterVars
  <2>3. QED
    BY <1>1, <2>1, <2>2 DEF CommandFails, Step
<1>6. "failures" \in DOMAIN used' /\ used'.failures = n + 1 /\ n + 1 \in Nat
  BY <1>1 DEF CommandFails, CleanInv
<1>7. CASE Unchecked(step)
  <2>1. runner' = [runner EXCEPT !.todo = Tail(@)]
    BY <1>1, <1>7 DEF CommandFails, Step
  <2>2. /\ runner'.at = runner.at /\ runner'.name = name /\ runner'.stage = stage
        /\ runner'.todo = Tail(todo) /\ Shaped'
    BY <1>1, <2>1 DEF CleanInv, Shaped
  <2>3. ASSUME NEW x \in OWN_PODS \cup Files
        PROVE  ThingOk(stage, name, Tail(todo), n + 1, x, Abroad(x)')
    <3>0. Abroad(x) \in BOOLEAN /\ Abroad(x)' \in BOOLEAN
      BY DEF Abroad
    <3>1. PICK here, there \in BOOLEAN : here = Abroad(x) /\ there = Abroad(x)'
      BY <3>0, Zenon
    <3>2. x \in Things
      BY DEF Things
    <3>3. ThingOk(stage, name, todo, n, x, here)
      BY <1>1, <1>2, <3>1 DEF ExperimentOk
    <3>4. there => here \/ Does(Head(todo), x)
      BY <1>1, <1>5, <3>1, <3>2
    <3>5. ThingOk(stage, name, Tail(todo), n + 1, x, there)
      BY <1>1, <1>3, <3>2, <3>3, <3>4, IgnoredFailure
    <3>6. QED
      BY <3>1, <3>5
  <2>4. FenceOk(stage, name, Tail(todo), n + 1, Abroad("fence")')
    <3>0. Abroad("fence") \in BOOLEAN /\ Abroad("fence")' \in BOOLEAN
      BY DEF Abroad
    <3>1. PICK here, there \in BOOLEAN : here = Abroad("fence") /\ there = Abroad("fence")'
      BY <3>0, Zenon
    <3>2. "fence" \in Things
      BY DEF Things
    <3>3. FenceOk(stage, name, todo, n, here)
      BY <1>1, <1>2, <3>1 DEF ExperimentOk
    <3>4. there => here \/ Does(Head(todo), "fence")
      BY <1>1, <1>5, <3>1, <3>2
    <3>5. FenceOk(stage, name, Tail(todo), n + 1, there)
      BY <1>1, <1>3, <3>2, <3>3, <3>4, IgnoredFailure
    <3>6. QED
      BY <3>1, <3>5
  <2>5. ExperimentOk'
    BY <1>4, <1>6, <2>2, <2>3, <2>4, GoesOn
  <2>6. Running'
    BY <1>2, <2>2 DEF Running
  <2>7. QED
    BY <1>5, <1>6, <2>2, <2>5, <2>6 DEF CleanInv
<1>8. CASE ~Unchecked(step)
  <2>1. PICK next : next = AfterStage(stage, TRUE)
    OBVIOUS
  <2>2. runner' = [runner EXCEPT !.stage = next, !.todo = Stage(name, next), !.waited = 0,
                                 !.raised = TRUE]
    BY <1>1, <1>8, <2>1 DEF CommandFails, Step, Raised
  <2>3. /\ runner'.at = runner.at /\ runner'.name = name /\ runner'.stage = next
        /\ runner'.todo = Stage(name, next) /\ Shaped'
    BY <1>1, <2>2 DEF CleanInv, Shaped
  <2>4. stage # "cleanup"
    BY <1>4, <1>8
  <2>5. ScriptOk(next, name, Stage(name, next)) /\ next \in {"finally", "cleanup"}
    BY <1>3, <2>1, <2>4, RaisedFailure
  <2>6. ASSUME NEW x \in OWN_PODS \cup Files
        PROVE  ThingOk(next, name, Stage(name, next), n + 1, x, Abroad(x)')
    <3>0. Abroad(x)' \in BOOLEAN
      BY DEF Abroad
    <3>1. PICK there \in BOOLEAN : there = Abroad(x)'
      BY <3>0, Zenon
    <3>2. n + 1 \in Nat \ {0}
      OBVIOUS
    <3>3. ThingOk(next, name, Stage(name, next), n + 1, x, there)
      BY <2>5, <3>2, LeftToCleanup
    <3>4. QED
      BY <3>1, <3>3
  <2>7. FenceOk(next, name, Stage(name, next), n + 1, Abroad("fence")')
    <3>0. Abroad("fence") \in BOOLEAN /\ Abroad("fence")' \in BOOLEAN
      BY DEF Abroad
    <3>1. PICK here, there \in BOOLEAN : here = Abroad("fence") /\ there = Abroad("fence")'
      BY <3>0, Zenon
    <3>2. "fence" \in Things
      BY DEF Things
    <3>3. FenceOk(stage, name, todo, n, here)
      BY <1>1, <1>2, <3>1 DEF ExperimentOk
    <3>4. there => here \/ Does(Head(todo), "fence")
      BY <1>1, <1>5, <3>1, <3>2
    <3>5. PICK m \in Nat : m = n + 1
      OBVIOUS
    <3>6. todo # <<>>
      BY <1>1
    <3>7. FenceOk(next, name, Stage(name, next), m, there)
      BY <1>3, <2>1, <2>4, <3>3, <3>4, <3>5, <3>6, RaisedFence
    <3>8. QED
      BY <3>1, <3>5, <3>7
  <2>8. ExperimentOk'
    BY <1>6, <2>3, <2>5, <2>6, <2>7, GoesOn
  <2>9. Running'
    BY <1>2, <2>3 DEF Running
  <2>10. QED
    BY <1>5, <1>6, <2>3, <2>8, <2>9 DEF CleanInv
<1>9. QED
  BY <1>7, <1>8

LEMMA StageEndsKeeps == ASSUME CleanInv, StageEnds PROVE CleanInv'
<1>0. PICK n \in Nat : n = used.failures
  BY DEF CleanInv
<1>1. PICK stage, name, next :
        /\ stage = runner.stage /\ name = runner.name /\ n = used.failures
        /\ next = AfterStage(stage, FALSE)
  BY <1>0
<1>2. Running /\ ExperimentOk /\ runner.todo = <<>> /\ stage # "cleanup"
  BY <1>1 DEF StageEnds, CleanInv
<1>3. ScriptOk(stage, name, <<>>)
  BY <1>1, <1>2 DEF ExperimentOk
<1>4. runner' = [runner EXCEPT !.stage = next, !.todo = Stage(name, next)]
  BY <1>1 DEF StageEnds
<1>5. /\ runner'.at = runner.at /\ runner'.name = name /\ runner'.stage = next
      /\ runner'.todo = Stage(name, next) /\ Shaped'
  BY <1>1, <1>4 DEF CleanInv, Shaped
<1>6. ClusterTyped' /\ used' = used /\ (\A x : Abroad(x)' = Abroad(x))
  BY DEF StageEnds, CleanInv, ClusterTyped, Abroad, Remains, clusterVars, historyVars
<1>7. ScriptOk(next, name, Stage(name, next))
  BY <1>1, <1>2, <1>3, EndedStage
<1>8. ASSUME NEW x \in OWN_PODS \cup Files
      PROVE  ThingOk(next, name, Stage(name, next), n, x, Abroad(x)')
  <2>0. Abroad(x) \in BOOLEAN
    BY DEF Abroad
  <2>1. PICK here \in BOOLEAN : here = Abroad(x)
    BY <2>0, Zenon
  <2>2. ThingOk(stage, name, <<>>, n, x, here)
    BY <1>1, <1>2, <2>1 DEF ExperimentOk
  <2>3. next = AfterStage(stage, FALSE) /\ stage # "cleanup"
    BY <1>1, <1>2
  <2>4. ThingOk(next, name, Stage(name, next), n, x, here)
    BY <1>3, <2>2, <2>3, EndedStage
  <2>5. QED
    BY <1>6, <2>1, <2>4
<1>9. FenceOk(next, name, Stage(name, next), n, Abroad("fence")')
  <2>0. Abroad("fence") \in BOOLEAN
    BY DEF Abroad
  <2>1. PICK here \in BOOLEAN : here = Abroad("fence")
    BY <2>0, Zenon
  <2>2. FenceOk(stage, name, <<>>, n, here)
    BY <1>1, <1>2, <2>1 DEF ExperimentOk
  <2>3. next = AfterStage(stage, FALSE) /\ stage # "cleanup"
    BY <1>1, <1>2
  <2>4. FenceOk(next, name, Stage(name, next), n, here)
    BY <1>3, <2>2, <2>3, EndedStage
  <2>5. QED
    BY <1>6, <2>1, <2>4
<1>10. used'.failures = n
  BY <1>1, <1>6
<1>11. ExperimentOk'
  BY <1>5, <1>7, <1>8, <1>9, <1>10, GoesOn
<1>12. Running'
  BY <1>2, <1>5 DEF Running
<1>13. QED
  BY <1>5, <1>6, <1>11, <1>12 DEF CleanInv

(* The experiments that end: nothing is abroad any more.                    *)
LEMMA NothingAbroad ==
  ASSUME CleanInv, Running, runner.stage = "cleanup", runner.todo = <<>>, used.failures <= 1
  PROVE  Remains \subseteq litter
<1>1. PICK n \in Nat : n = used.failures /\ n <= 1
  BY DEF CleanInv
<1>2. PICK name : name = runner.name
  OBVIOUS
<1>3. ASSUME NEW x \in OWN_PODS \cup Files PROVE ~Abroad(x)
  <2>0. Abroad(x) \in BOOLEAN
    BY DEF Abroad
  <2>1. PICK here \in BOOLEAN : here = Abroad(x)
    BY <2>0, Zenon
  <2>2. ThingOk("cleanup", name, <<>>, n, x, here)
    BY <1>1, <1>2, <2>1 DEF CleanInv, ExperimentOk
  <2>3. QED
    BY <1>1, <2>1, <2>2, EndedScript
<1>4. ~Abroad("fence")
  <2>0. Abroad("fence") \in BOOLEAN
    BY DEF Abroad
  <2>1. PICK here \in BOOLEAN : here = Abroad("fence")
    BY <2>0, Zenon
  <2>2. FenceOk("cleanup", name, <<>>, n, here)
    BY <1>1, <1>2, <2>1 DEF CleanInv, ExperimentOk
  <2>3. QED
    BY <1>1, <2>1, <2>2, EndedScript
<1>5. QED
  BY <1>3, <1>4, NotAbroad DEF CleanInv

LEMMA CrashKeeps == ASSUME CleanInv, Crash PROVE CleanInv'
<1>1. runner' = NewRun("off", "", 0)
  BY DEF Crash
<1>2. Shaped' /\ runner'.at # "running"
  BY <1>1, NewRunRules DEF Shaped
<1>3. ClusterTyped' /\ used' = used /\ Remains' = Remains /\ litter' = litter
  BY DEF Crash, CleanInv, ClusterTyped, Remains, clusterVars, historyVars
<1>4. used.failures \in Nat
  BY DEF CleanInv
<1>5. Remains \subseteq litter \/ used.failures > 1
  <2>1. Running /\ runner.stage = "cleanup" /\ runner.todo = <<>>
    BY DEF Crash
  <2>2. QED
    BY <1>4, <2>1, NothingAbroad
<1>6. ~Running'
  BY <1>2 DEF Running
<1>7. QED
  BY <1>2, <1>3, <1>4, <1>5, <1>6 DEF CleanInv

LEMMA JudgeKeeps == ASSUME CleanInv, JudgeExperiment PROVE CleanInv'
<1>1. PICK name, ref, verdict : runner' = [NewRun("next", name, ref) EXCEPT !.verdict = verdict]
  BY DEF JudgeExperiment
<1>2. PICK r : r = NewRun("next", name, ref) /\ runner' = [r EXCEPT !.verdict = verdict]
  BY <1>1
<1>3. /\ {"at", "name", "stage", "todo", "waited", "raised", "started", "got", "facts",
          "answer", "verdict"} \subseteq DOMAIN r
      /\ r.at # "running"
  BY <1>2, NewRunRules
<1>4. Shaped' /\ runner'.at # "running"
  BY <1>2, <1>3 DEF Shaped
<1>5. ClusterTyped' /\ used' = used /\ Remains' = Remains /\ litter' = litter
  BY DEF JudgeExperiment, CleanInv, ClusterTyped, Remains, clusterVars, historyVars
<1>6. used.failures \in Nat
  BY DEF CleanInv
<1>7. Remains \subseteq litter \/ used.failures > 1
  BY <1>6, NothingAbroad DEF JudgeExperiment
<1>8. ~Running'
  BY <1>4 DEF Running
<1>9. QED
  BY <1>4, <1>5, <1>6, <1>7, <1>8 DEF CleanInv

(* A run that starts, or ends.                                              *)
LEMMA RunKeeps == ASSUME CleanInv, StartRun \/ EndRun PROVE CleanInv'
<1>1. PICK at, ref : runner' = NewRun(at, "", ref) /\ at # "running" /\ ~Running
  BY DEF StartRun, EndRun, Running
<1>2. Shaped' /\ runner'.at # "running"
  BY <1>1, NewRunRules DEF Shaped
<1>3. ClusterTyped' /\ used' = used /\ Remains' = Remains /\ litter' = litter
  <2>1. UNCHANGED <<faults, pods, setup, fenced, litter, used>>
    BY DEF StartRun, EndRun, clusterVars, historyVars
  <2>2. QED
    BY <2>1 DEF CleanInv, ClusterTyped, Remains
<1>4. ~Running'
  BY <1>2 DEF Running
<1>5. QED
  BY <1>1, <1>2, <1>3, <1>4 DEF CleanInv

LEMMA KillKeeps == ASSUME CleanInv, Kill PROVE CleanInv'
<1>1. runner' = NewRun("off", "", 0)
  BY DEF Kill
<1>2. Shaped' /\ runner'.at # "running"
  BY <1>1, NewRunRules DEF Shaped
<1>3. ClusterTyped' /\ Remains' = Remains /\ litter' = Remains
  BY DEF Kill, CleanInv, ClusterTyped, Remains, clusterVars
<1>4. used'.failures = used.failures /\ DOMAIN used' = DOMAIN used
  <2>1. used' = [used EXCEPT !.kills = @ + 1] /\ "failures" \in DOMAIN used
    BY DEF Kill, CleanInv
  <2>2. QED
    BY <2>1
<1>5. ~Running'
  BY <1>2 DEF Running
<1>6. QED
  BY <1>2, <1>3, <1>4, <1>5 DEF CleanInv

LEMMA PersonKeeps == ASSUME CleanInv, PersonDeletesPods PROVE CleanInv'
<1>1. /\ runner' = runner /\ pods' = <<>> /\ setup' = FALSE /\ faults' = faults
      /\ fenced' = fenced /\ litter' = litter /\ used' = used
  BY DEF PersonDeletesPods, historyVars
<1>2. DOMAIN pods' = {}
  BY <1>1, EmptySeq
<1>3. Remains' \subseteq Remains
  BY <1>1, <1>2 DEF Remains
<1>4. ClusterTyped' /\ Shaped'
  BY <1>1, <1>2 DEF CleanInv, ClusterTyped, Shaped
<1>5. ~Running /\ ~Running'
  BY <1>1 DEF PersonDeletesPods, Running
<1>6. QED
  BY <1>1, <1>3, <1>4, <1>5 DEF CleanInv

LEMMA TickKeeps == ASSUME CleanInv, Tick PROVE CleanInv'
<1>1. runner' = [runner EXCEPT !.waited = Later(@)]
  BY DEF Tick
<1>2. /\ runner'.at = runner.at /\ runner'.stage = runner.stage /\ runner'.name = runner.name
      /\ runner'.todo = runner.todo /\ Shaped'
  BY <1>1 DEF CleanInv, Shaped
<1>3. DOMAIN faults' = DOMAIN faults
  BY DEF Tick, FaultsStep
<1>4. DOMAIN pods' = DOMAIN pods
  BY DEF Tick, PodsStep
<1>5. setup' = setup /\ fenced' = fenced /\ litter' = litter /\ used' = used
  BY DEF Tick
<1>6. ClusterTyped' /\ Remains' = Remains
  BY <1>3, <1>4, <1>5 DEF CleanInv, ClusterTyped, Remains
<1>7. QED
  BY <1>2, <1>5, <1>6, QuietStep

LEMMA ProbeKeepsClean == ASSUME CleanInv, ProbeStep \/ ProbeMeetsOutage PROVE CleanInv'
<1>1. UNCHANGED <<runner, clusterVars, historyVars>>
  BY DEF ProbeStep, ProbeMeetsOutage
<1>2. ClusterTyped' /\ Remains' = Remains /\ Shaped'
  BY <1>1 DEF CleanInv, ClusterTyped, Remains, Shaped, clusterVars
<1>3. QED
  BY <1>1, <1>2, QuietStep DEF historyVars

(* A failed check for leftovers starts an experiment all the same.          *)
LEMMA BeginKeeps ==
  ASSUME CleanInv, NEW name \in Experiments, BeginExperiment(name)
  PROVE  CleanInv'
<1>1. /\ DOMAIN faults' = DOMAIN faults /\ pods' = pods /\ setup' = setup /\ fenced' = fenced
      /\ litter' = litter
  <2>1. DOMAIN faults' = DOMAIN faults
    BY DEF BeginExperiment, Settle
  <2>2. QED
    BY <2>1 DEF BeginExperiment, Settle
<1>2. ClusterTyped' /\ Remains' = Remains
  BY <1>1 DEF CleanInv, ClusterTyped, Remains
<1>3. ~Running
  BY DEF BeginExperiment, Running
<1>4. PICK failed \in BOOLEAN :
        /\ used' = [used EXCEPT !.failures = @ + (IF failed THEN 1 ELSE 0),
                                !.experiments = @ + 1]
        /\ runner' = IF Leftovers # {} /\ ~failed THEN NewRun("off", "", 0)
                     ELSE [NewRun("running", name, runner.ref) EXCEPT !.todo = Body(name)]
  BY DEF BeginExperiment
<1>5. used'.failures \in Nat /\ used.failures <= used'.failures /\ "failures" \in DOMAIN used'
  <2>1. used.failures \in Nat /\ "failures" \in DOMAIN used
    BY DEF CleanInv
  <2>2. PICK k \in Nat : k = IF failed THEN 1 ELSE 0
    OBVIOUS
  <2>3. used' = [used EXCEPT !.failures = @ + k, !.experiments = @ + 1]
    BY <1>4, <2>2
  <2>4. used'.failures = used.failures + k /\ "failures" \in DOMAIN used'
    BY <2>1, <2>3
  <2>5. QED
    BY <2>1, <2>4
<1>6. CASE runner' = NewRun("off", "", 0)
  <2>1. Shaped' /\ runner'.at # "running"
    BY <1>6, NewRunRules DEF Shaped
  <2>2. ~Running'
    BY <2>1 DEF Running
  <2>3. QED
    BY <1>1, <1>2, <1>3, <1>5, <2>1, <2>2, IdleStep
<1>7. CASE runner' = [NewRun("running", name, runner.ref) EXCEPT !.todo = Body(name)]
  <2>1. /\ runner'.at = "running" /\ runner'.name = name /\ runner'.stage = "body"
        /\ runner'.todo = Body(name) /\ Shaped'
    BY <1>7 DEF NewRun, Shaped
  <2>2. PICK n \in Nat : n = used'.failures
    BY <1>5
  <2>3. n <= 1 => \A x : ~Abroad(x)'
    BY <1>1, <1>2, <1>3, <1>5, <2>2 DEF CleanInv, Abroad
  <2>4. ASSUME NEW x PROVE ThingOk("body", name, Body(name), n, x, Abroad(x)')
    <3>0. Abroad(x)' \in BOOLEAN
      BY DEF Abroad
    <3>1. PICK here \in BOOLEAN : here = Abroad(x)'
      BY <3>0, Zenon
    <3>2. n <= 1 => ~here
      BY <2>3, <3>1
    <3>3. ThingOk("body", name, Body(name), n, x, here)
      BY <3>2, BegunScript
    <3>4. QED
      BY <3>1, <3>3
  <2>5. FenceOk("body", name, Body(name), n, Abroad("fence")')
    <3>0. Abroad("fence")' \in BOOLEAN
      BY DEF Abroad
    <3>1. PICK here \in BOOLEAN : here = Abroad("fence")'
      BY <3>0, Zenon
    <3>2. n <= 1 => ~here
      BY <2>3, <3>1
    <3>3. FenceOk("body", name, Body(name), n, here)
      BY <3>2, BegunScript
    <3>4. QED
      BY <3>1, <3>3
  <2>6. ScriptOk("body", name, Body(name))
    BY <2>2, BegunScript
  <2>7. ExperimentOk'
    BY <2>1, <2>2, <2>4, <2>5, <2>6, GoesOn
  <2>8. Running'
    BY <2>1 DEF Running
  <2>9. QED
    BY <1>2, <1>5, <2>1, <2>7, <2>8 DEF CleanInv
<1>8. QED
  BY <1>4, <1>6, <1>7

LEMMA CleanInvInit == ASSUME ChaosInit PROVE CleanInv
<1>1. runner = NewRun("off", "", 0)
  BY DEF ChaosInit
<1>2. Shaped /\ runner.at # "running"
  BY <1>1, NewRunRules DEF Shaped
<1>3. faults = <<>> /\ pods = <<>> /\ setup = FALSE /\ fenced = FALSE
  BY DEF ChaosInit
<1>4. DOMAIN faults = {} /\ DOMAIN pods = {}
  BY <1>3, EmptySeq
<1>5. ClusterTyped /\ Remains = {}
  BY <1>3, <1>4 DEF ClusterTyped, Remains
<1>6. used.failures \in Nat /\ "failures" \in DOMAIN used
  BY DEF ChaosInit
<1>7. ~Running
  BY <1>2 DEF Running
<1>8. QED
  BY <1>2, <1>5, <1>6, <1>7 DEF CleanInv

LEMMA CleanInvStep ==
  ASSUME CleanInv, [ChaosNext]_chaosVars
  PROVE  CleanInv'
<1>1. CASE UNCHANGED chaosVars
  <2>1. UNCHANGED <<runner, clusterVars, historyVars>>
    BY <1>1 DEF chaosVars
  <2>2. ClusterTyped' /\ Remains' = Remains /\ Shaped'
    BY <2>1 DEF CleanInv, ClusterTyped, Remains, Shaped, clusterVars
  <2>3. QED
    BY <2>1, <2>2, QuietStep DEF historyVars
<1>2. CASE \E name \in Experiments : BeginExperiment(name)
  BY <1>2, BeginKeeps
<1>3. CASE RunnerNext
  BY <1>3, CommandKeeps, CommandFailsKeeps, StageEndsKeeps, CrashKeeps, JudgeKeeps DEF RunnerNext
<1>4. QED
  BY <1>1, <1>2, <1>3, RunKeeps, KillKeeps, PersonKeeps, TickKeeps, ProbeKeepsClean DEF ChaosNext

(* run_chaos.py's promise that a failed experiment leaves the platform as it *)
(* found it: whichever command fails, in whatever stage of whichever         *)
(* experiment, the finally statements and cleanup() take everything away.    *)
THEOREM FailuresAreCleanedUp == ChaosSpec => []OneFailureLeavesNothing
<1>1. ChaosInit => CleanInv
  BY CleanInvInit
<1>2. CleanInv /\ [ChaosNext]_chaosVars => CleanInv'
  BY CleanInvStep
<1>3. CleanInv => OneFailureLeavesNothing
  BY DEF CleanInv, OneFailureLeavesNothing, Running
<1>4. QED
  BY <1>1, <1>2, <1>3, PTL DEF ChaosSpec

=============================================================================
