----------------------------- MODULE HostProofs -----------------------------
(***************************************************************************)
(* What HostSettings promises, for any groups of settings, any machine and *)
(* any interrupts: wherever it is stopped, tune.py tells the truth and has *)
(* every original in a state file that can be read; isolate.py leaves no   *)
(* trace that it could remove and keeps the reserved cores free, when it   *)
(* is not killed while it steers or before it starts irqbalance.           *)
(***************************************************************************)
EXTENDS HostSettings, SequenceTheorems, FiniteSetTheorems, WellFoundedInduction, TLAPS

-----------------------------------------------------------------------------
(* Sequences *)

LEMMA NothingIn == DOMAIN <<>> = {} /\ ToSet(<<>>) = {}
BY DEF ToSet

LEMMA HeadAndTail ==
  ASSUME NEW S, NEW s \in Seq(S), s # <<>>
  PROVE  /\ Head(s) \in S /\ Head(s) \in ToSet(s) /\ Tail(s) \in Seq(S)
         /\ ToSet(s) = {Head(s)} \cup ToSet(Tail(s))
         /\ IF Len(s) > 1 THEN s[2] \in S /\ Head(Tail(s)) = s[2] ELSE Tail(s) = <<>>
<1>1. /\ Len(s) \in Nat \ {0} /\ DOMAIN s = 1..Len(s)
      /\ Head(s) = s[1] /\ s[1] \in S
      /\ Tail(s) \in Seq(S) /\ Len(Tail(s)) = Len(s) - 1 /\ DOMAIN Tail(s) = 1..Len(Tail(s))
      /\ \A i \in 1..Len(Tail(s)) : Tail(s)[i] = s[i + 1]
  BY EmptySeq, HeadTailProperties, LenProperties, ElementOfSeq
<1>2. ASSUME NEW x \in ToSet(s) PROVE x \in {Head(s)} \cup ToSet(Tail(s))
  <2>1. PICK i \in 1..Len(s) : x = s[i]
    BY <1>1 DEF ToSet
  <2>2. CASE i = 1
    BY <1>1, <2>1, <2>2
  <2>3. CASE i # 1
    <3>1. i - 1 \in 1..Len(Tail(s)) /\ (i - 1) + 1 = i
      BY <1>1, <2>1, <2>3
    <3>2. x = Tail(s)[i - 1]
      BY <1>1, <2>1, <3>1
    <3>3. QED
      BY <1>1, <3>1, <3>2 DEF ToSet
  <2>4. QED
    BY <2>2, <2>3
<1>3. ASSUME NEW x \in ToSet(Tail(s)) PROVE x \in ToSet(s)
  <2>1. PICK i \in 1..Len(Tail(s)) : x = s[i + 1]
    BY <1>1 DEF ToSet
  <2>2. i + 1 \in 1..Len(s)
    BY <1>1
  <2>3. QED
    BY <1>1, <2>1, <2>2 DEF ToSet
<1>4. Head(s) \in ToSet(s)
  BY <1>1 DEF ToSet
<1>5. CASE Len(s) > 1
  <2>1. 2 \in 1..Len(s) /\ 1 \in 1..Len(Tail(s)) /\ 1 + 1 = 2
    BY <1>1, <1>5
  <2>2. s[2] \in S /\ Tail(s)[1] = s[2] /\ Tail(s) # <<>>
    <3>1. s[2] \in S
      BY <2>1, ElementOfSeq
    <3>2. Tail(s)[1] = s[2]
      BY <1>1, <2>1
    <3>3. Len(Tail(s)) # 0
      BY <1>1, <1>5
    <3>4. QED
      BY <1>1, <3>1, <3>2, <3>3, EmptySeq
  <2>3. Head(Tail(s)) = Tail(s)[1]
    BY <1>1, <2>2, HeadTailProperties
  <2>4. QED
    BY <1>1, <1>2, <1>3, <1>4, <1>5, <2>2, <2>3
<1>6. CASE ~(Len(s) > 1)
  <2>1. Len(Tail(s)) = 0
    BY <1>1, <1>6
  <2>2. Tail(s) = <<>>
    BY <1>1, <2>1, EmptySeq
  <2>3. QED
    BY <1>1, <1>2, <1>3, <1>4, <1>6, <2>2
<1>7. QED
  BY <1>5, <1>6

-----------------------------------------------------------------------------
(* tune.py *)

Groups == DOMAIN Members

Readings == Values \cup {"free", "locked", "tuned"}

(* A command of tune.py is at one of the settings of its current group.     *)
TuneTypes ==
  /\ live \in [Settings -> Readings] /\ found \in [Settings -> Readings]
  /\ DOMAIN saved \subseteq Groups
  /\ Tuning =>
       /\ proc = [cmd |-> proc.cmd, groups |-> proc.groups, todo |-> proc.todo,
                  failed |-> proc.failed]
       /\ proc.groups \in Seq(Groups) /\ proc.todo \in Seq(Settings)
       /\ proc.failed \in BOOLEAN
       /\ proc.groups # <<>> => ToSet(proc.todo) \subseteq ToSet(Members[Head(proc.groups)])

(* set_group() has emptied the state file, and holds what it will write.    *)
Saving ==
  proc.cmd = "save" =>
    /\ proc = [cmd |-> "save", group |-> proc.group, file |-> proc.file]
    /\ savedTorn /\ proc.group \in Groups /\ DOMAIN proc.file \subseteq Groups
    /\ \A g \in Groups : OriginalsIn(proc.file, g)

(* A state file without content is met by the command that writes it only.  *)
TornInv == savedTorn \in BOOLEAN /\ (Tuning => ~savedTorn)

(* What can be read of the state file is right.                             *)
SavedInv == ~savedTorn => \A g \in Groups : OriginalsIn(saved, g)

(* A restore() in which nothing has failed.                                 *)
PuttingBack == proc.cmd = "put back" /\ ~proc.failed

AtFound(g) == \A s \in ToSet(Members[g]) : live[s] = found[s]

(* As long as nothing failed, what restore() has been through is as found,  *)
(* the groups nobody had tuned included.                                    *)
PutBackSoFar ==
  PuttingBack => \A g \in Groups \ ToSet(proc.groups) : AtFound(g)

TuneInv == TuneTypes /\ TornInv /\ SavedInv /\ Saving /\ PutBackSoFar

(* A command that writes settings has the originals of every group.         *)
LEMMA TuningHasOriginals ==
  ASSUME TuneInv, Tuning
  PROVE  savedTorn = FALSE /\ \A g \in Groups : OriginalsIn(saved, g)
BY DEF TuneInv, TornInv, SavedInv

LEMMA GroupFacts ==
  /\ ToSet(GroupOrder) = Groups /\ GroupOrder \in Seq(Groups) /\ GroupOrder # <<>>
  /\ \A g \in Groups : /\ Members[g] \in Seq(Settings)
                       /\ ToSet(Members[g]) \subseteq Settings
  /\ \A s \in Settings : \E g \in Groups : s \in ToSet(Members[g])
  /\ \A g, h \in Groups : g # h => ToSet(Members[g]) \cap ToSet(Members[h]) = {}
<1>1. /\ GroupOrder \in Seq(Groups) /\ ToSet(GroupOrder) = Groups /\ "gpu" \in Groups
      /\ \A g \in Groups : Members[g] \in Seq(Settings)
      /\ \A g, h \in Groups : g # h => ToSet(Members[g]) \cap ToSet(Members[h]) = {}
  BY HostAssumption DEF Groups
<1>2. GroupOrder # <<>>
  BY <1>1, EmptySeq DEF ToSet
<1>3. /\ \A g \in Groups : ToSet(Members[g]) \subseteq Settings
      /\ \A s \in Settings : \E g \in Groups : s \in ToSet(Members[g])
  BY <1>1 DEF Settings
<1>4. QED
  BY <1>1, <1>2, <1>3

LEMMA TuneInit == HostInit => TuneInv
<1> SUFFICES ASSUME HostInit PROVE TuneInv
  OBVIOUS
<1>1. /\ live = found /\ found \in [Settings -> Values \cup {"free"}]
      /\ DOMAIN saved = {} /\ savedTorn = FALSE /\ proc.cmd = "none"
  BY DEF HostInit
<1>2. \A g \in Groups : OriginalsIn(saved, g)
  BY <1>1 DEF OriginalsIn
<1>3. QED
  BY <1>1, <1>2
  DEF TuneInv, TuneTypes, TornInv, SavedInv, Saving, PutBackSoFar, PuttingBack, Tuning, Readings

(* What leaves the settings alone and ends in no command of tune.py.        *)
LEMMA OtherStepsTune ==
  TuneInv /\ UNCHANGED tuneVars /\ ~Tuning' /\ proc'.cmd # "save" => TuneInv'
<1> SUFFICES ASSUME TuneInv, UNCHANGED tuneVars, ~Tuning', proc'.cmd # "save"
             PROVE  TuneInv'
  OBVIOUS
<1>1. live' = live /\ saved' = saved /\ savedTorn' = savedTorn /\ found' = found
  BY DEF tuneVars
<1>2. TuneTypes' /\ TornInv'
  BY <1>1 DEF TuneInv, TuneTypes, TornInv
<1>3. SavedInv'
  BY <1>1 DEF TuneInv, SavedInv, OriginalsIn
<1>4. ~PuttingBack'
  BY DEF Tuning, PuttingBack
<1>5. QED
  BY <1>2, <1>3, <1>4 DEF TuneInv, Saving, PutBackSoFar

(* What goes on with a command that writes settings.                        *)
LEMMA StillTuning ==
  ASSUME TuneInv, Tuning, savedTorn' = savedTorn, proc'.cmd = proc.cmd,
         \A g \in Groups : OriginalsIn(saved, g)'
  PROVE  TornInv' /\ SavedInv' /\ Saving'
BY DEF TuneInv, TornInv, SavedInv, Saving, Tuning

(* The next group of a command.                                            *)
LEMMA NextGroupTypes ==
  ASSUME TuneInv, Tuning, proc.groups # <<>>, UNCHANGED tuneVars,
         NEW b \in BOOLEAN, NextGroup(b)
  PROVE  /\ TuneTypes'
         /\ proc'.cmd = proc.cmd /\ proc'.groups = Tail(proc.groups) /\ proc'.failed = b
<1>1. PICK gs \in Seq(Groups), td \in Seq(Settings),
          c \in {"tuned", "as-found", "put back"} :
        /\ proc = [cmd |-> c, groups |-> gs, todo |-> td, failed |-> proc.failed]
        /\ gs # <<>> /\ proc.groups = gs /\ proc.cmd = c
  BY DEF TuneInv, TuneTypes, Tuning
<1>2. Tail(gs) \in Seq(Groups)
  BY <1>1, HeadAndTail
<1>3. PICK t \in Seq(Settings) :
        /\ t = IF Len(gs) > 1 THEN Members[gs[2]] ELSE <<>>
        /\ Tail(gs) # <<>> => ToSet(t) \subseteq ToSet(Members[Head(Tail(gs))])
  <2>1. CASE Len(gs) > 1
    <3>1. gs[2] \in Groups /\ Head(Tail(gs)) = gs[2]
      BY <1>1, <2>1, HeadAndTail
    <3>2. QED
      BY <2>1, <3>1, GroupFacts
  <2>2. CASE ~(Len(gs) > 1)
    <3>1. Tail(gs) = <<>> /\ <<>> \in Seq(Settings)
      BY <1>1, <2>2, HeadAndTail, EmptySeq
    <3>2. QED
      BY <2>2, <3>1
  <2>3. QED
    BY <2>1, <2>2
<1>4. proc' = [cmd |-> c, groups |-> Tail(gs), todo |-> t, failed |-> b]
  BY <1>1, <1>3 DEF NextGroup
<1>5. TuneTypes'
  BY <1>2, <1>3, <1>4 DEF TuneInv, TuneTypes, tuneVars, Tuning
<1>6. QED
  BY <1>1, <1>4, <1>5

(* The group that is left behind is as found, or the restore has failed.    *)
LEMMA NextGroupTune ==
  ASSUME TuneInv, Tuning, proc.groups # <<>>, UNCHANGED tuneVars,
         NEW b \in BOOLEAN, NextGroup(b),
         ~b => ~proc.failed /\ AtFound(Head(proc.groups))
  PROVE  TuneInv'
<1>1. /\ TuneTypes'
      /\ proc'.cmd = proc.cmd /\ proc'.groups = Tail(proc.groups) /\ proc'.failed = b
  BY NextGroupTypes
<1>2. TornInv' /\ SavedInv' /\ Saving'
  <2>1. \A g \in Groups : OriginalsIn(saved, g)'
    BY TuningHasOriginals DEF OriginalsIn, tuneVars
  <2>2. QED
    BY <1>1, <2>1, StillTuning DEF tuneVars
<1>3. ToSet(proc.groups) = {Head(proc.groups)} \cup ToSet(Tail(proc.groups))
  BY HeadAndTail DEF TuneInv, TuneTypes
<1>4. PutBackSoFar'
  <2>1. SUFFICES ASSUME proc.cmd = "put back", ~b,
                        NEW g \in Groups, g \notin ToSet(Tail(proc.groups))
                 PROVE  AtFound(g)
    BY <1>1 DEF PutBackSoFar, PuttingBack, AtFound, tuneVars
  <2>2. CASE g = Head(proc.groups)
    BY <2>1, <2>2
  <2>3. CASE g # Head(proc.groups)
    BY <1>3, <2>1, <2>3 DEF TuneInv, PutBackSoFar, PuttingBack
  <2>4. QED
    BY <2>2, <2>3
<1>5. QED
  BY <1>1, <1>2, <1>4 DEF TuneInv

(* set_group() reads the state file, and empties it to write it again.      *)
LEMMA TuneBeginTune ==
  ASSUME TuneInv, NEW g \in Groups, TuneBegin(g)
  PROVE  TuneInv'
<1>1. /\ savedTorn = FALSE /\ DOMAIN saved' = {} /\ savedTorn' = TRUE
      /\ live' = live /\ found' = found
  BY NothingIn DEF TuneBegin, TuneInv, TornInv
<1>2. PICK f : f = SaveOnce(g) /\ proc' = [cmd |-> "save", group |-> g, file |-> f]
  BY DEF TuneBegin
<1>3. /\ DOMAIN f \subseteq Groups
      /\ \A h \in DOMAIN saved : h \in DOMAIN f /\ f[h] = saved[h]
      /\ \A h \in DOMAIN f \ DOMAIN saved :
           h = g /\ \A s \in ToSet(Members[g]) : f[h][s] = live[s]
  BY <1>2 DEF SaveOnce, TuneInv, TuneTypes
<1>4. \A h \in Groups : OriginalsIn(saved, h)
  BY <1>1 DEF TuneInv, SavedInv
<1>5. \A h \in Groups : OriginalsIn(f, h)'
  BY <1>1, <1>3, <1>4 DEF OriginalsIn
<1>6. Saving'
  BY <1>1, <1>2, <1>3, <1>5 DEF Saving
<1>7. ~Tuning' /\ ~PuttingBack'
  BY <1>2 DEF Tuning, PuttingBack
<1>8. TuneTypes' /\ TornInv' /\ SavedInv' /\ PutBackSoFar'
  BY <1>1, <1>7 DEF TuneInv, TuneTypes, TornInv, SavedInv, PutBackSoFar
<1>9. QED
  BY <1>6, <1>8 DEF TuneInv

(* The originals are on disk again; the changes begin.                      *)
LEMMA WriteSavedTune == TuneInv /\ WriteSaved => TuneInv'
<1> SUFFICES ASSUME TuneInv, WriteSaved PROVE TuneInv'
  OBVIOUS
<1>1. PICK g, f :
        /\ proc = [cmd |-> "save", group |-> g, file |-> f] /\ g \in Groups
        /\ DOMAIN f \subseteq Groups
        /\ \A h \in Groups : OriginalsIn(f, h)
  BY DEF WriteSaved, TuneInv, Saving
<1>2. /\ saved' = f /\ savedTorn' = FALSE /\ live' = live /\ found' = found
      /\ proc' = [cmd |-> "tuned", groups |-> <<g>>, todo |-> Members[g], failed |-> FALSE]
  BY <1>1 DEF WriteSaved
<1>3. /\ Members[g] \in Seq(Settings) /\ <<g>> \in Seq(Groups)
      /\ <<g>> # <<>> /\ Head(<<g>>) = g
  BY <1>1, GroupFacts
<1>4. \A h \in Groups : OriginalsIn(saved, h)'
  BY <1>1, <1>2 DEF OriginalsIn
<1>5. TuneTypes'
  BY <1>1, <1>2, <1>3 DEF TuneInv, TuneTypes, Tuning
<1>6. TornInv' /\ SavedInv' /\ Saving' /\ PutBackSoFar'
  BY <1>2, <1>4 DEF TornInv, SavedInv, Saving, PutBackSoFar, PuttingBack
<1>7. QED
  BY <1>5, <1>6 DEF TuneInv

(* set_group(..., "as-found") and restore() begin.                          *)
LEMMA BeginPutBack ==
  ASSUME TuneInv,
         RestoreBegin \/ \E g \in ToSet(GroupOrder) : AsFoundBegin(g)
  PROVE  TuneInv'
<1>1. \A g \in Groups : Members[g] \in Seq(Settings) /\ <<g>> \in Seq(Groups)
                         /\ <<g>> # <<>> /\ Head(<<g>>) = g
  BY GroupFacts
<1>2. UNCHANGED tuneVars /\ savedTorn = FALSE
  BY DEF AsFoundBegin, RestoreBegin, TuneInv, TornInv
<1>3. TornInv' /\ SavedInv'
  BY <1>2 DEF TuneInv, TornInv, SavedInv, tuneVars, OriginalsIn
<1>4. ASSUME NEW g \in ToSet(GroupOrder), AsFoundBegin(g) PROVE TuneInv'
  <2>1. g \in Groups
    BY GroupFacts
  <2>2. proc' = [cmd |-> "as-found", groups |-> <<g>>, todo |-> Members[g], failed |-> FALSE]
    BY <1>4 DEF AsFoundBegin
  <2>3. TuneTypes'
    BY <1>1, <1>2, <2>1, <2>2 DEF TuneInv, TuneTypes, Tuning, tuneVars
  <2>4. Saving' /\ PutBackSoFar'
    BY <2>2 DEF Saving, PutBackSoFar, PuttingBack
  <2>5. QED
    BY <1>3, <2>3, <2>4 DEF TuneInv
<1>5. ASSUME RestoreBegin PROVE TuneInv'
  <2>1. proc' = [cmd |-> "put back", groups |-> GroupOrder,
                 todo |-> Members[Head(GroupOrder)], failed |-> FALSE]
    BY <1>5 DEF RestoreBegin
  <2>2. Head(GroupOrder) \in Groups
    BY GroupFacts, HeadAndTail
  <2>3. PICK t \in Seq(Settings), g \in Groups :
          t = Members[Head(GroupOrder)] /\ g = Head(GroupOrder)
    BY <1>1, <2>2
  <2>4. TuneTypes'
    BY <1>2, <2>1, <2>2, <2>3, GroupFacts DEF TuneInv, TuneTypes, Tuning, tuneVars
  <2>5. Saving' /\ PutBackSoFar'
    BY <2>1, GroupFacts DEF Saving, PutBackSoFar
  <2>6. QED
    BY <1>3, <2>4, <2>5 DEF TuneInv
<1>6. QED
  BY <1>4, <1>5

(* The setting that is written is one of the current group.                 *)
LEMMA WriteFacts ==
  ASSUME TuneInv, WriteSetting
  PROVE  \E g \in Groups, s \in Settings, v \in Readings :
           /\ g = Head(proc.groups) /\ g \in ToSet(proc.groups) /\ g \in DOMAIN saved
           /\ s \in ToSet(Members[g]) /\ live' = [live EXCEPT ![s] = v]
<1>1. PICK s, v :
        /\ s = Head(proc.todo) /\ v \in {Wanted(s), live[s]}
        /\ live' = [live EXCEPT ![s] = v]
  BY DEF WriteSetting
<1>2. /\ Tuning /\ proc.groups # <<>> /\ Head(proc.groups) \in DOMAIN saved
      /\ proc.todo # <<>> /\ proc.groups \in Seq(Groups) /\ proc.todo \in Seq(Settings)
      /\ ToSet(proc.todo) \subseteq ToSet(Members[Head(proc.groups)])
  BY DEF WriteSetting, InGroup, TuneInv, TuneTypes
<1>3. PICK g \in Groups : g = Head(proc.groups) /\ g \in ToSet(proc.groups)
  BY <1>2, HeadAndTail
<1>4. s \in Settings /\ s \in ToSet(Members[g])
  BY <1>1, <1>2, <1>3, HeadAndTail
<1>5. v \in Readings
  <2>1. live[s] \in Readings /\ saved[g][s] = found[s] /\ found[s] \in Readings
    BY <1>2, <1>3, <1>4, TuningHasOriginals DEF TuneInv, TuneTypes, OriginalsIn
  <2>2. TunedValue(s) \in Readings \/ TunedValue(s) = "tuned"
    BY DEF TunedValue, Readings
  <2>3. QED
    BY <1>1, <1>3, <2>1, <2>2 DEF Wanted, TunedValue, Readings
<1>6. QED
  BY <1>1, <1>2, <1>3, <1>4, <1>5

LEMMA WriteTune == TuneInv /\ WriteSetting => TuneInv'
<1> SUFFICES ASSUME TuneInv, WriteSetting PROVE TuneInv'
  OBVIOUS
<1>1. PICK g \in Groups, s \in Settings, v \in Readings :
        /\ g = Head(proc.groups) /\ g \in ToSet(proc.groups) /\ g \in DOMAIN saved
        /\ s \in ToSet(Members[g]) /\ live' = [live EXCEPT ![s] = v]
  BY WriteFacts
<1>2. /\ saved' = saved /\ savedTorn' = savedTorn /\ found' = found
      /\ proc' = [proc EXCEPT !.todo = Tail(@)]
      /\ Tuning /\ proc.todo # <<>> /\ proc.groups # <<>>
  BY DEF WriteSetting, InGroup
<1>3. \A h \in Groups \ {g} : \A t \in ToSet(Members[h]) : live'[t] = live[t]
  <2>1. ASSUME NEW h \in Groups \ {g}, NEW t \in ToSet(Members[h]) PROVE live'[t] = live[t]
    <3>1. t # s /\ t \in Settings
      <4>1. /\ ToSet(Members[h]) \subseteq Settings
            /\ ToSet(Members[h]) \cap ToSet(Members[g]) = {}
        BY <2>1, GroupFacts
      <4>2. QED
        BY <1>1, <2>1, <4>1
    <3>2. QED
      BY <1>1, <3>1 DEF TuneInv, TuneTypes
  <2>2. QED
    BY <2>1
<1>4. \A h \in Groups : OriginalsIn(saved, h)'
  BY <1>1, <1>2, <1>3, TuningHasOriginals DEF OriginalsIn
<1>5. PICK gs \in Seq(Groups), td \in Seq(Settings),
          c \in {"tuned", "as-found", "put back"} :
        /\ proc = [cmd |-> c, groups |-> gs, todo |-> td, failed |-> proc.failed]
        /\ proc.cmd = c /\ proc.groups = gs /\ proc.todo = td
        /\ gs # <<>> /\ td # <<>>
        /\ ToSet(td) \subseteq ToSet(Members[Head(gs)])
  BY <1>2 DEF TuneInv, TuneTypes, Tuning
<1>6. /\ proc' = [cmd |-> c, groups |-> gs, todo |-> Tail(td), failed |-> proc.failed]
      /\ Tail(td) \in Seq(Settings) /\ ToSet(Tail(td)) \subseteq ToSet(Members[Head(gs)])
  <2>1. Tail(td) \in Seq(Settings) /\ ToSet(Tail(td)) \subseteq ToSet(td)
    BY <1>5, HeadAndTail, Zenon
  <2>2. QED
    BY <1>2, <1>5, <2>1
<1>7. live' \in [Settings -> Readings]
  BY <1>1 DEF TuneInv, TuneTypes
<1>8. TuneTypes'
  BY <1>2, <1>5, <1>6, <1>7 DEF TuneInv, TuneTypes, Tuning
<1>9. PutBackSoFar'
  <2>1. SUFFICES ASSUME c = "put back", ~proc.failed,
                        NEW h \in Groups, h \notin ToSet(gs)
                 PROVE  AtFound(h)'
    BY <1>6 DEF PutBackSoFar, PuttingBack
  <2>2. h # g /\ AtFound(h)
    BY <1>1, <1>5, <2>1 DEF TuneInv, PutBackSoFar, PuttingBack
  <2>3. QED
    BY <1>2, <1>3, <2>2 DEF AtFound
<1>10. TornInv' /\ SavedInv' /\ Saving'
  BY <1>2, <1>4, <1>5, <1>6, StillTuning
<1>11. QED
  BY <1>8, <1>9, <1>10 DEF TuneInv

LEMMA WriteRaisesTune == TuneInv /\ WriteRaises => TuneInv'
<1> SUFFICES ASSUME TuneInv, WriteRaises PROVE TuneInv'
  OBVIOUS
<1>1. Tuning /\ proc.groups # <<>> /\ UNCHANGED tuneVars /\ (NextGroup(TRUE) \/ Exit)
  BY DEF WriteRaises, InGroup
<1>2. CASE NextGroup(TRUE)
  BY <1>1, <1>2, NextGroupTune
<1>3. CASE Exit
  BY <1>1, <1>3, OtherStepsTune DEF Exit, Tuning
<1>4. QED
  BY <1>1, <1>2, <1>3

LEMMA SkipGroupTune == TuneInv /\ SkipGroup => TuneInv'
<1> SUFFICES ASSUME TuneInv, SkipGroup PROVE TuneInv'
  OBVIOUS
<1>1. /\ Tuning /\ proc.groups # <<>> /\ UNCHANGED tuneVars
      /\ Head(proc.groups) \notin DOMAIN saved
      /\ NextGroup(proc.failed) /\ proc.failed \in BOOLEAN
  BY DEF SkipGroup, TuneInv, TuneTypes
<1>2. Head(proc.groups) \in Groups
  BY <1>1, HeadAndTail DEF TuneInv, TuneTypes
<1>3. AtFound(Head(proc.groups))
  BY <1>1, <1>2, TuningHasOriginals DEF OriginalsIn, AtFound
<1>4. QED
  BY <1>1, <1>3, NextGroupTune

(* A restore() or an as-found that took has put the group back.             *)
LEMMA TookIsFound ==
  ASSUME TuneInv, InGroup, Took, proc.cmd # "tuned"
  PROVE  AtFound(Head(proc.groups))
<1>1. Head(proc.groups) \in Groups /\ Head(proc.groups) \in DOMAIN saved /\ Tuning
  BY HeadAndTail DEF InGroup, TuneInv, TuneTypes
<1>2. QED
  BY <1>1, TuningHasOriginals DEF OriginalsIn, Took, Wanted, AtFound

LEMMA CheckGroupTune == TuneInv /\ CheckGroup => TuneInv'
<1> SUFFICES ASSUME TuneInv, CheckGroup PROVE TuneInv'
  OBVIOUS
<1>1. /\ InGroup /\ Tuning /\ proc.groups # <<>> /\ UNCHANGED tuneVars
      /\ proc.failed \in BOOLEAN
  BY DEF CheckGroup, InGroup, TuneInv, TuneTypes
<1>2. CASE proc.cmd = "put back"
  <2>1. NextGroup(proc.failed \/ ~Took) /\ (proc.failed \/ ~Took) \in BOOLEAN
    BY <1>2 DEF CheckGroup
  <2>2. ~(proc.failed \/ ~Took) => ~proc.failed /\ AtFound(Head(proc.groups))
    BY <1>1, <1>2, TookIsFound
  <2>3. QED
    BY <1>1, <2>1, <2>2, NextGroupTune
<1>3. CASE proc.cmd # "put back"
  <2>1. NextGroup(FALSE) \/ Exit
    BY <1>3 DEF CheckGroup
  <2>2. CASE Exit
    BY <1>1, <2>2, OtherStepsTune DEF Exit, Tuning
  <2>3. CASE NextGroup(FALSE)
    <3>1. UNCHANGED tuneVars /\ TuneTypes'
      BY <1>1, <2>3, NextGroupTypes
    <3>2. proc'.cmd = proc.cmd
      BY <1>1, <2>3, NextGroupTypes
    <3>3. \A g \in Groups : OriginalsIn(saved, g)'
      BY <1>1, TuningHasOriginals DEF OriginalsIn, tuneVars
    <3>4. TornInv' /\ SavedInv' /\ Saving'
      BY <1>1, <3>1, <3>2, <3>3, StillTuning DEF tuneVars
    <3>5. QED
      BY <1>3, <3>1, <3>2, <3>4 DEF TuneInv, PutBackSoFar, PuttingBack
  <2>4. QED
    BY <2>1, <2>2, <2>3
<1>4. QED
  BY <1>2, <1>3

(* At the end of a restore() in which all went well everything is as found. *)
LEMMA RestoredIsFound ==
  ASSUME TuneInv, TuneEnd, PuttingBack
  PROVE  live = found
<1>1. ToSet(proc.groups) = {}
  <2>1. proc.groups = <<>>
    BY DEF TuneEnd
  <2>2. QED
    BY <2>1, NothingIn, Zenon
<1>2. \A g \in Groups : AtFound(g)
  BY <1>1 DEF TuneInv, PutBackSoFar
<1>3. \A s \in Settings : live[s] = found[s]
  BY <1>2, GroupFacts DEF AtFound
<1>4. QED
  <2>1. live \in [Settings -> Readings] /\ found \in [Settings -> Readings]
    BY DEF TuneInv, TuneTypes
  <2>2. QED
    BY <1>3, <2>1

LEMMA TuneEndTune == TuneInv /\ TuneEnd => TuneInv'
<1> SUFFICES ASSUME TuneInv, TuneEnd PROVE TuneInv'
  OBVIOUS
<1>1. /\ live' = live /\ found' = found /\ savedTorn' = savedTorn
      /\ ~Tuning' /\ proc'.cmd = "none"
  BY DEF TuneEnd, Exit, Tuning
<1>2. CASE PuttingBack
  <2>1. live = found /\ DOMAIN saved' = {}
    <3>1. saved' = <<>>
      BY <1>2 DEF TuneEnd, PuttingBack
    <3>2. QED
      BY <1>2, <3>1, RestoredIsFound, NothingIn, Zenon
  <2>2. QED
    BY <1>1, <2>1
    DEF TuneInv, TuneTypes, TornInv, SavedInv, Saving, PutBackSoFar, PuttingBack, Tuning,
        OriginalsIn
<1>3. CASE ~PuttingBack
  <2>1. UNCHANGED tuneVars
    BY <1>3 DEF TuneEnd, tuneVars, PuttingBack
  <2>2. QED
    BY <1>1, <2>1, OtherStepsTune
<1>4. QED
  BY <1>2, <1>3

-----------------------------------------------------------------------------
(* isolate.py: what the processes and the state file look like *)

(* What the state file holds: where the moved interrupts were, and whether  *)
(* irqbalance ran.                                                          *)
IsFile(f) ==
  /\ f = [irqs |-> f.irqs, balance |-> f.balance]
  /\ DOMAIN f.irqs \subseteq Irqs /\ f.irqs \in [DOMAIN f.irqs -> SUBSET Cpus]
  /\ f.balance \in BOOLEAN

IsoCommands == {"steer", "note", "restore", "balance", "run"}

IsoTypes ==
  /\ affinity \in [Irqs -> SUBSET Cpus] /\ originals \in [Irqs -> SUBSET Cpus]
  /\ irqbalance \in BOOLEAN /\ hadBalance \in BOOLEAN
  /\ isoFile # <<>> => IsFile(isoFile)
  /\ isoTorn \in BOOLEAN
  /\ mode \in Modes \cup {"none"}
  /\ proc.cmd = "steer" =>
       /\ proc = [cmd |-> "steer", mode |-> proc.mode, file |-> proc.file, todo |-> proc.todo]
       /\ proc.mode \in Modes /\ Isolated(proc.mode)
       /\ IsFile(proc.file) /\ proc.todo \subseteq Irqs
  /\ proc.cmd = "note" =>
       /\ proc = [cmd |-> "note", mode |-> proc.mode, file |-> proc.file]
       /\ proc.mode \in Modes /\ Isolated(proc.mode) /\ IsFile(proc.file)
  /\ proc.cmd = "restore" =>
       /\ proc = [cmd |-> "restore", mode |-> proc.mode, todo |-> proc.todo]
       /\ proc.mode \in Modes /\ ~Isolated(proc.mode)
       /\ isoFile # <<>> /\ proc.todo \subseteq DOMAIN isoFile.irqs
  /\ proc.cmd = "balance" =>
       /\ proc.mode \in Modes /\ ~Isolated(proc.mode) /\ proc.start \in BOOLEAN
  /\ proc.cmd = "run" => proc.mode \in Modes

(* A file is never the absence of a file.                                   *)
LEMMA FileIsThere == ASSUME NEW f, IsFile(f) PROVE f # <<>>
<1>1. f = [irqs |-> f.irqs, balance |-> f.balance]
  BY DEF IsFile
<1>2. "irqs" \in DOMAIN f
  BY <1>1
<1>3. QED
  BY <1>2, NothingIn

LEMMA HousekeepingFacts ==
  Housekeeping \in Cores /\ 0 \in Housekeeping /\ Housekeeping \subseteq Cpus
<1>1. \E c \in Cores : 0 \in c
  BY LayoutAssumption DEF Cpus
<1>2. QED
  BY <1>1 DEF Housekeeping, Cpus

LEMMA IsoTypesInit == HostInit => IsoTypes
<1> SUFFICES ASSUME HostInit PROVE IsoTypes
  OBVIOUS
<1>1. /\ affinity \in [Irqs -> SUBSET Cpus] /\ originals \in [Irqs -> SUBSET Cpus]
      /\ irqbalance \in BOOLEAN /\ hadBalance \in BOOLEAN
  BY HostAssumption DEF HostInit
<1>2. /\ isoFile = <<>> /\ isoTorn = FALSE /\ mode = "none" /\ proc.cmd = "none"
  BY DEF HostInit
<1>3. QED
  BY <1>1, <1>2 DEF IsoTypes

(* What leaves isolate.py's state alone, and is none of its processes.      *)
LEMMA OtherStepsIsoTypes ==
  IsoTypes /\ UNCHANGED isoVars /\ proc'.cmd \notin IsoCommands => IsoTypes'
BY DEF IsoTypes, isoVars, IsoCommands

LEMMA TuneLeavesIso ==
  ASSUME TuneInv, TuneNext
  PROVE  UNCHANGED isoVars /\ proc'.cmd \notin IsoCommands /\ proc.cmd \notin IsoCommands
<1>1. CASE \E g \in ToSet(GroupOrder) : TuneBegin(g) \/ AsFoundBegin(g)
  BY <1>1 DEF TuneBegin, AsFoundBegin, Idle, IsoCommands
<1>2. CASE RestoreBegin
  BY <1>2 DEF RestoreBegin, Idle, IsoCommands
<1>3. CASE SkipGroup \/ WriteSetting \/ WriteRaises \/ CheckGroup \/ TuneEnd
  <2>1. UNCHANGED isoVars /\ Tuning
    BY <1>3 DEF SkipGroup, WriteSetting, WriteRaises, CheckGroup, TuneEnd, InGroup
  <2>2. proc = [cmd |-> proc.cmd, groups |-> proc.groups, todo |-> proc.todo,
                failed |-> proc.failed]
    BY <2>1 DEF TuneInv, TuneTypes
  <2>3. \/ proc'.cmd = "none"
        \/ \E b : NextGroup(b)
        \/ proc' = [proc EXCEPT !.todo = Tail(@)]
    <3>1. SkipGroup => NextGroup(proc.failed)
      BY DEF SkipGroup
    <3>2. WriteSetting => proc' = [proc EXCEPT !.todo = Tail(@)]
      BY DEF WriteSetting
    <3>3. WriteRaises => NextGroup(TRUE) \/ Exit
      BY DEF WriteRaises
    <3>4. CheckGroup => NextGroup(proc.failed \/ ~Took) \/ NextGroup(FALSE) \/ Exit
      BY DEF CheckGroup
    <3>5. TuneEnd => Exit
      BY DEF TuneEnd
    <3>6. Exit => proc'.cmd = "none"
      BY DEF Exit
    <3>7. QED
      BY <1>3, <3>1, <3>2, <3>3, <3>4, <3>5, <3>6, Zenon
  <2>4. proc'.cmd \in {"none", proc.cmd}
    BY <2>2, <2>3 DEF NextGroup
  <2>5. QED
    BY <2>1, <2>4 DEF Tuning, IsoCommands
<1>4. CASE WriteSaved
  BY <1>4 DEF WriteSaved, IsoCommands
<1>5. QED
  BY <1>1, <1>2, <1>3, <1>4 DEF TuneNext

LEMMA SteerShape ==
  ASSUME IsoTypes, proc.cmd = "steer"
  PROVE  /\ proc = [cmd |-> "steer", mode |-> proc.mode, file |-> proc.file, todo |-> proc.todo]
         /\ proc.mode \in Modes /\ Isolated(proc.mode)
         /\ IsFile(proc.file) /\ proc.todo \in SUBSET Irqs
BY DEF IsoTypes

(* One of isolate.py's own steps.                                           *)
LEMMA IsolateKeepsTypes ==
  IsoTypes /\ IsolateNext =>
    IsoTypes' /\ UNCHANGED tuneVars /\ ~Tuning' /\ proc'.cmd # "save"
<1> SUFFICES ASSUME IsoTypes, IsolateNext
             PROVE  IsoTypes' /\ UNCHANGED tuneVars /\ ~Tuning' /\ proc'.cmd # "save"
  OBVIOUS
<1>1. ASSUME NEW m \in Modes, SteerBegin(m)
      PROVE  IsoTypes' /\ UNCHANGED tuneVars /\ ~Tuning' /\ proc'.cmd # "save"
  <2>1. /\ Isolated(m) /\ UNCHANGED <<tuneVars, affinity, isoFile, isoTorn, hadBalance>>
        /\ irqbalance' = FALSE /\ mode' = "none"
        /\ originals' = IF isoFile = <<>> THEN affinity ELSE originals
    BY <1>1 DEF SteerBegin
  <2>2. PICK T : T \subseteq Irqs
                 /\ proc' = [cmd |-> "steer", mode |-> m, file |-> SavedByFirstSteer, todo |-> T]
    BY <1>1 DEF SteerBegin
  <2>3. IsFile(SavedByFirstSteer)
    <3>1. CASE isoFile # <<>>
      BY <3>1 DEF IsoTypes, SavedByFirstSteer
    <3>2. CASE isoFile = <<>>
      <4>1. SavedByFirstSteer = [irqs |-> <<>>, balance |-> irqbalance]
        BY <3>2 DEF SavedByFirstSteer
      <4>2. PICK e : e = <<>> /\ DOMAIN e = {} /\ e \in [DOMAIN e -> SUBSET Cpus]
        <5>1. <<>> = [x \in {} |-> {}] /\ [x \in {} |-> {}] \in [{} -> SUBSET Cpus]
          OBVIOUS
        <5>2. QED
          BY <5>1, NothingIn
      <4>3. QED
        BY <4>1, <4>2 DEF IsFile, IsoTypes
    <3>3. QED
      BY <3>1, <3>2
  <2>4. QED
    BY <2>1, <2>2, <2>3 DEF IsoTypes, Tuning
<1>2. ASSUME NEW m \in Modes, PutBackBegin(m)
      PROVE  IsoTypes' /\ UNCHANGED tuneVars /\ ~Tuning' /\ proc'.cmd # "save"
  <2>1. /\ ~Isolated(m) /\ mode' = "none"
        /\ UNCHANGED <<tuneVars, affinity, irqbalance, isoFile, isoTorn, originals, hadBalance>>
    BY <1>2 DEF PutBackBegin
  <2>2. proc' = IF isoFile = <<>> THEN [cmd |-> "run", mode |-> m]
                ELSE [cmd |-> "restore", mode |-> m, todo |-> DOMAIN isoFile.irqs]
    BY <1>2 DEF PutBackBegin
  <2>3. QED
    BY <2>1, <2>2 DEF IsoTypes, Tuning
<1>3. CASE SteerIrq
  <2>1. PICK i \in proc.todo :
          \/ /\ affinity' = [affinity EXCEPT ![i] = Housekeeping]
             /\ proc' = [proc EXCEPT !.todo = @ \ {i}, !.file.irqs = NoteOriginal(i)]
          \/ /\ proc' = [proc EXCEPT !.todo = @ \ {i}]
             /\ UNCHANGED affinity
    BY <1>3 DEF SteerIrq
  <2>0. PICK m, f, T : m = proc.mode /\ f = proc.file /\ T = proc.todo
    OBVIOUS
  <2>2. /\ proc = [cmd |-> "steer", mode |-> m, file |-> f, todo |-> T]
        /\ m \in Modes /\ T \subseteq Irqs /\ Isolated(m) /\ IsFile(f) /\ proc.file = f
        /\ i \in Irqs
    <3>1. proc.cmd = "steer"
      BY <1>3 DEF SteerIrq
    <3>2. /\ proc = [cmd |-> "steer", mode |-> proc.mode, file |-> proc.file,
                     todo |-> proc.todo]
          /\ proc.mode \in Modes /\ Isolated(proc.mode)
          /\ IsFile(proc.file) /\ proc.todo \in SUBSET Irqs
      BY <3>1, SteerShape
    <3>3. i \in Irqs
      BY <2>1, <3>2
    <3>4. QED
      BY <2>0, <3>2, <3>3
  <2>3. UNCHANGED <<tuneVars, irqbalance, isoFile, isoTorn, mode, originals, hadBalance>>
    BY <1>3 DEF SteerIrq
  <2>4. affinity' \in [Irqs -> SUBSET Cpus]
    BY <2>1, HousekeepingFacts DEF IsoTypes
  <2>5. PICK g : /\ proc' = [cmd |-> "steer", mode |-> m, file |-> g, todo |-> T \ {i}]
                 /\ IsFile(g)
    <3>1. CASE proc' = [proc EXCEPT !.todo = @ \ {i}]
      BY <2>2, <3>1
    <3>2. CASE proc' = [proc EXCEPT !.todo = @ \ {i}, !.file.irqs = NoteOriginal(i)]
      <4>1. PICK n : n = NoteOriginal(i)
        OBVIOUS
      <4>2. DOMAIN n \subseteq Irqs /\ n \in [DOMAIN n -> SUBSET Cpus]
        BY <2>2, <4>1 DEF NoteOriginal, IsFile, IsoTypes
      <4>3. f = [irqs |-> f.irqs, balance |-> f.balance] /\ f.balance \in BOOLEAN
        BY <2>2 DEF IsFile
      <4>4. proc' = [cmd |-> "steer", mode |-> m, file |-> [irqs |-> n, balance |-> f.balance],
                     todo |-> T \ {i}]
        BY <2>2, <3>2, <4>1, <4>3
      <4>5. IsFile([irqs |-> n, balance |-> f.balance])
        BY <4>2, <4>3 DEF IsFile
      <4>6. QED
        BY <4>4, <4>5
    <3>3. QED
      BY <2>1, <3>1, <3>2
  <2>6. QED
    BY <2>2, <2>3, <2>4, <2>5 DEF IsoTypes, Tuning
<1>4. CASE SteerEnd \/ WriteOriginals
  <2>1. CASE SteerEnd
    <3>1. /\ proc.cmd = "steer" /\ isoFile' = <<>> /\ isoTorn' = TRUE
          /\ proc' = [cmd |-> "note", mode |-> proc.mode, file |-> proc.file]
          /\ UNCHANGED <<tuneVars, affinity, irqbalance, mode, originals, hadBalance>>
      BY <2>1 DEF SteerEnd
    <3>2. PICK m, f : /\ m \in Modes /\ Isolated(m) /\ IsFile(f)
                      /\ proc' = [cmd |-> "note", mode |-> m, file |-> f]
      BY <3>1, SteerShape
    <3>3. QED
      BY <3>1, <3>2 DEF IsoTypes, Tuning
  <2>2. CASE WriteOriginals
    <3>1. /\ proc.cmd = "note" /\ isoFile' = proc.file /\ isoTorn' = FALSE
          /\ proc' = [cmd |-> "run", mode |-> proc.mode]
          /\ UNCHANGED <<tuneVars, affinity, irqbalance, mode, originals, hadBalance>>
      BY <2>2 DEF WriteOriginals
    <3>2. proc.mode \in Modes /\ IsFile(proc.file)
      BY <3>1 DEF IsoTypes
    <3>3. QED
      BY <3>1, <3>2 DEF IsoTypes, Tuning
  <2>3. QED
    BY <1>4, <2>1, <2>2
<1>5. CASE PutBackIrq
  <2>1. PICK i \in proc.todo :
          /\ affinity' = [affinity EXCEPT ![i] = isoFile.irqs[i]] \/ UNCHANGED affinity
          /\ proc' = [proc EXCEPT !.todo = @ \ {i}]
    BY <1>5 DEF PutBackIrq
  <2>2. PICK m \in Modes, T \in SUBSET DOMAIN isoFile.irqs :
          /\ proc = [cmd |-> "restore", mode |-> m, todo |-> T]
          /\ i \in T /\ ~Isolated(m) /\ isoFile # <<>> /\ IsFile(isoFile)
    BY <1>5, <2>1 DEF PutBackIrq, IsoTypes
  <2>3. /\ UNCHANGED <<tuneVars, irqbalance, isoFile, isoTorn, mode, originals, hadBalance>>
        /\ proc' = [cmd |-> "restore", mode |-> m, todo |-> T \ {i}]
    BY <1>5, <2>1, <2>2 DEF PutBackIrq
  <2>4. affinity' \in [Irqs -> SUBSET Cpus]
    BY <2>1, <2>2 DEF IsoTypes, IsFile
  <2>5. QED
    BY <2>2, <2>3, <2>4 DEF IsoTypes, Tuning
<1>6. CASE Forget
  BY <1>6 DEF Forget, IsoTypes, IsFile, Tuning
<1>7. CASE StartBalance
  BY <1>7 DEF StartBalance, IsoTypes, Tuning
<1>8. CASE RunContainers
  BY <1>8 DEF RunContainers, IsoTypes, Tuning, Exit
<1>9. ASSUME NEW m \in Modes, StateUnreadable(m)
      PROVE  IsoTypes' /\ UNCHANGED tuneVars /\ ~Tuning' /\ proc'.cmd # "save"
  BY <1>9 DEF StateUnreadable, Idle, IsoTypes, Tuning
<1>10. QED
  BY <1>1, <1>2, <1>3, <1>4, <1>5, <1>6, <1>7, <1>8, <1>9 DEF IsolateNext

-----------------------------------------------------------------------------
(* tune.py keeps its word *)

LEMMA TuneStep == TuneInv /\ TuneNext => TuneInv'
<1> SUFFICES ASSUME TuneInv, TuneNext PROVE TuneInv'
  OBVIOUS
<1>1. CASE \/ \E g \in ToSet(GroupOrder) : TuneBegin(g) \/ AsFoundBegin(g)
           \/ RestoreBegin
  BY <1>1, TuneBeginTune, BeginPutBack, GroupFacts
<1>2. CASE SkipGroup
  BY <1>2, SkipGroupTune
<1>3. CASE WriteSetting
  BY <1>3, WriteTune
<1>4. CASE WriteRaises
  BY <1>4, WriteRaisesTune
<1>5. CASE CheckGroup
  BY <1>5, CheckGroupTune
<1>6. CASE TuneEnd
  BY <1>6, TuneEndTune
<1>7. CASE WriteSaved
  BY <1>7, WriteSavedTune
<1>8. QED
  BY <1>1, <1>2, <1>3, <1>4, <1>5, <1>6, <1>7 DEF TuneNext

LEMMA HostStep == TuneInv /\ IsoTypes /\ [HostNext]_hostVars => TuneInv' /\ IsoTypes'
<1> SUFFICES ASSUME TuneInv, IsoTypes, [HostNext]_hostVars PROVE TuneInv' /\ IsoTypes'
  OBVIOUS
<1>1. CASE TuneNext
  BY <1>1, TuneStep, TuneLeavesIso, OtherStepsIsoTypes
<1>2. CASE IsolateNext
  BY <1>2, IsolateKeepsTypes, OtherStepsTune
<1>3. ASSUME UNCHANGED <<tuneVars, proc>> PROVE TuneInv'
  BY <1>3
  DEF TuneInv, TuneTypes, TornInv, SavedInv, Saving, PutBackSoFar, PuttingBack, AtFound,
      OriginalsIn, Tuning, tuneVars
<1>4. CASE Balance
  <2>1. UNCHANGED <<tuneVars, irqbalance, isoFile, isoTorn, mode, originals, hadBalance, proc>>
    BY <1>4 DEF Balance
  <2>2. affinity' \in [Irqs -> SUBSET Cpus]
    BY <1>4, HostAssumption DEF Balance, IsoTypes
  <2>3. QED
    BY <1>3, <2>1, <2>2 DEF IsoTypes
<1>5. CASE Kill
  BY <1>5, OtherStepsTune, OtherStepsIsoTypes DEF Kill, Exit, Tuning, IsoCommands
<1>6. CASE UNCHANGED hostVars
  BY <1>3, <1>6 DEF hostVars, isoVars, IsoTypes
<1>7. QED
  BY <1>1, <1>2, <1>4, <1>5, <1>6 DEF HostNext

(* What the command tells, and what is true then.                           *)
LEMMA TellsStep ==
  ASSUME TuneInv
  PROVE  /\ TuneEnd /\ proc.cmd = "put back" /\ ~proc.failed => live = found
         /\ CheckGroup /\ proc.cmd # "put back" /\ proc'.cmd # "none" =>
              \A s \in ToSet(Members[Head(proc.groups)]) :
                live[s] = IF proc.cmd = "tuned" THEN TunedValue(s) ELSE found[s]
<1>1. ASSUME TuneEnd, proc.cmd = "put back", ~proc.failed PROVE live = found
  BY <1>1, RestoredIsFound DEF PuttingBack
<1>2. ASSUME CheckGroup, proc.cmd # "put back", proc'.cmd # "none",
             NEW s \in ToSet(Members[Head(proc.groups)])
      PROVE  live[s] = IF proc.cmd = "tuned" THEN TunedValue(s) ELSE found[s]
  <2>1. InGroup /\ Took
    <3>1. InGroup /\ (Took \/ Exit)
      BY <1>2 DEF CheckGroup
    <3>2. Exit => proc'.cmd = "none"
      BY DEF Exit
    <3>3. QED
      BY <1>2, <3>1, <3>2, Zenon
  <2>2. CASE proc.cmd = "tuned"
    BY <1>2, <2>1, <2>2 DEF Took, Wanted
  <2>3. CASE proc.cmd # "tuned"
    BY <1>2, <2>1, <2>3, TookIsFound DEF AtFound
  <2>4. QED
    BY <2>2, <2>3
<1>3. QED
  BY <1>1, <1>2

(* A step taken while the state file has no content changes no setting.     *)
LEMMA TornStep == TuneInv /\ [HostNext]_hostVars => (savedTorn => live' = live)
<1> SUFFICES ASSUME TuneInv, [HostNext]_hostVars, savedTorn PROVE live' = live
  OBVIOUS
<1>1. ~Tuning
  BY DEF TuneInv, TornInv
<1>2. CASE TuneNext
  BY <1>1, <1>2
  DEF TuneNext, TuneBegin, WriteSaved, AsFoundBegin, RestoreBegin, SkipGroup, WriteSetting,
      WriteRaises, CheckGroup, TuneEnd, InGroup, tuneVars
<1>3. CASE IsolateNext
  BY <1>3
  DEF IsolateNext, SteerBegin, PutBackBegin, StateUnreadable, SteerIrq, SteerEnd,
      WriteOriginals, PutBackIrq, Forget, StartBalance, RunContainers, tuneVars
<1>4. CASE Balance \/ Kill \/ UNCHANGED hostVars
  BY <1>4 DEF Balance, Kill, hostVars, tuneVars
<1>5. QED
  BY <1>2, <1>3, <1>4 DEF HostNext

(* tune.py, killed, refused or not taken wherever it may be: a restore that *)
(* ends well has put everything back, a command that ends well has set its  *)
(* group to what it says, a state file that can be read has every original, *)
(* and while it cannot be read no setting is changed.                       *)
THEOREM TuneAlwaysKeepsItsWord == HostSpec => TuneKeepsItsWord
<1>1. HostInit => TuneInv /\ IsoTypes
  BY TuneInit, IsoTypesInit
<1>2. (TuneInv /\ IsoTypes) /\ [HostNext]_hostVars => (TuneInv /\ IsoTypes)'
  BY HostStep
<1>3. TuneInv => (~savedTorn => \A g \in ToSet(GroupOrder) : OriginalsIn(saved, g))
  BY GroupFacts DEF TuneInv, SavedInv
<1>4. TuneInv /\ [HostNext]_hostVars =>
        [ /\ TuneEnd /\ proc.cmd = "put back" /\ ~proc.failed => live = found
          /\ CheckGroup /\ proc.cmd # "put back" /\ proc'.cmd # "none" =>
               \A s \in ToSet(Members[Head(proc.groups)]) :
                 live[s] = IF proc.cmd = "tuned" THEN TunedValue(s) ELSE found[s] ]_hostVars
  BY TellsStep
<1>5. TuneInv /\ [HostNext]_hostVars => [savedTorn => live' = live]_hostVars
  BY TornStep
<1>6. QED
  BY <1>1, <1>2, <1>3, <1>4, <1>5, PTL DEF HostSpec, TuneKeepsItsWord, TuneTells

-----------------------------------------------------------------------------
(* The core layout *)

NatLess == { p \in Nat \X Nat : p[1] < p[2] }

(* Every set of naturals has a least element.                               *)
LEMMA LeastNatural ==
  ASSUME NEW T, T \subseteq Nat, T # {}
  PROVE  Min(T) \in T /\ \A t \in T : Min(T) <= t
<1>1. IsWellFoundedOn({ p \in Nat \X Nat : p[1] < p[2] }, Nat)
  BY NatLessThanWellFounded DEF OpToRel
<1>2. IsWellFoundedOn(NatLess, Nat)
  BY <1>1 DEF NatLess
<1>3. PICK m \in T : \A t \in T : ~ (<<t, m>> \in NatLess)
  BY <1>2, WFMin
<1>4. \A t \in T : m <= t
  <2>1. ASSUME NEW t \in T, t < m PROVE FALSE
    <3>1. t \in Nat /\ m \in Nat
      OBVIOUS
    <3>2. <<t, m>> \in NatLess
      BY <2>1, <3>1 DEF NatLess
    <3>3. QED
      BY <1>3, <3>2
  <2>2. \A t \in T : t \in Nat /\ m \in Nat /\ ~(t < m)
    BY <2>1
  <2>3. QED
    BY <2>2
<1>5. QED
  BY <1>4 DEF Min

(* The engine's core is a free core, and none of the server's.              *)
LEMMA LayoutFacts ==
  /\ EngineCore \in FreeCores /\ Before(EngineCore) = {}
  /\ Engine \in EngineCore
  /\ EngineCore \cap Server = {}
  /\ (EngineCore \cup Server) \cap Housekeeping = {}
<1>1. \A c \in FreeCores : c # {} /\ c \subseteq Nat /\ c \in Cores /\ c # Housekeeping
  BY LayoutAssumption DEF FreeCores
<1>2. FreeCores # {}
  <2>1. ServerCores \in {1, 2}
    BY DEF ServerCores
  <2>2. Cardinality(FreeCores) > ServerCores /\ Cardinality({}) = 0
    BY LayoutAssumption, FS_EmptySet
  <2>3. QED
    BY <2>1, <2>2
<1>3. EngineCore \in FreeCores /\ Before(EngineCore) = {}
  <2>1. PICK T : T = { Min(c) : c \in FreeCores }
    OBVIOUS
  <2>2. \A c \in FreeCores : Min(c) \in Nat
    BY <1>1, LeastNatural
  <2>3. T \subseteq Nat /\ T # {}
    BY <1>2, <2>1, <2>2
  <2>4. PICK c \in FreeCores : \A t \in T : Min(c) <= t
    BY <2>1, <2>3, LeastNatural
  <2>5. \A d \in FreeCores : Min(c) <= Min(d)
    BY <2>1, <2>4
  <2>6. Before(c) = {}
    BY <2>2, <2>5 DEF Before
  <2>7. QED
    BY <2>6 DEF EngineCore
<1>4. Engine \in EngineCore
  BY <1>1, <1>3, LeastNatural DEF Engine
<1>5. \A c, d \in Cores : c # d => c \cap d = {}
  BY LayoutAssumption
<1>6. ASSUME NEW x \in Server PROVE x \notin EngineCore /\ x \notin Housekeeping
  <2>1. PICK c \in FreeCores : x \in c /\ Cardinality(Before(c)) \in 1..ServerCores
    BY DEF Server
  <2>2. c # EngineCore
    <3>1. Cardinality({}) = 0 /\ ~(0 \in 1..ServerCores)
      BY FS_EmptySet DEF ServerCores
    <3>2. QED
      BY <1>3, <2>1, <3>1
  <2>3. QED
    BY <1>1, <1>3, <1>5, <2>1, <2>2, HousekeepingFacts
<1>7. EngineCore \cap Housekeeping = {}
  BY <1>1, <1>3, <1>5, HousekeepingFacts
<1>8. QED
  BY <1>3, <1>4, <1>6, <1>7

LEMMA ReservedFacts ==
  /\ Reserved \cap Housekeeping = {}
  /\ ({Engine} \cup Server) \cap EngineTwin = {}
  /\ Rest \cap (Reserved \cup Housekeeping) = {}
BY LayoutFacts DEF Reserved, EngineTwin, Rest

-----------------------------------------------------------------------------
(* isolate.py, when it is not killed where a kill has no remedy *)

KilledSafely == KillStages \cap {"steer", "balance"} = {}

(* A file of originals is complete: an interrupt it does not name is where  *)
(* it was.                                                                  *)
Complete(f) ==
  /\ f.balance = hadBalance
  /\ \A i \in Irqs : IF i \in DOMAIN f.irqs THEN f.irqs[i] = originals[i]
                                            ELSE affinity[i] = originals[i]

(* No interrupt whose move succeeded disturbs the reserved cores.           *)
QuietIrqs == \A i \in Irqs \ refused : affinity[i] \cap Reserved = {}

(* Every interrupt that could be put back is where it was.                  *)
InPlace == \A i \in Irqs \ refused : affinity[i] = originals[i]

Untouched == irqbalance = hadBalance /\ (~irqbalance => InPlace)

SteerInv ==
  /\ proc.cmd = "steer" =>
       /\ ~irqbalance /\ ~isoTorn /\ Complete(proc.file)
       /\ \A i \in (Irqs \ refused) \ proc.todo : affinity[i] \cap Reserved = {}
  /\ proc.cmd = "note" =>
       ~irqbalance /\ isoTorn /\ Complete(proc.file) /\ QuietIrqs

RestoreInv ==
  /\ proc.cmd = "restore" =>
       \A i \in (DOMAIN isoFile.irqs \ refused) \ proc.todo : affinity[i] = originals[i]
  /\ proc.cmd = "balance" =>
       isoFile = <<>> /\ ~irqbalance /\ proc.start = hadBalance /\ InPlace

(* What the state file says of the machine; without its content it stops    *)
(* every command but the one that is writing it.                            *)
FileInv ==
  IF isoTorn THEN ~irqbalance /\ mode = "none" /\ proc.cmd \notin IsoCommands \ {"note"}
  ELSE IF isoFile = <<>> THEN proc.cmd \notin {"steer", "balance"} => Untouched
  ELSE ~irqbalance /\ (proc.cmd # "steer" => Complete(isoFile))

(* Where the mode that is being reached, or was reached, has left things.   *)
Reached(m) == IF Isolated(m) THEN isoFile # <<>> /\ QuietIrqs ELSE isoFile = <<>>

ModeInv ==
  /\ proc.cmd = "run" => Reached(proc.mode)
  /\ mode # "none" =>
       proc.cmd \notin IsoCommands /\ Reached(mode) /\ containers = Plan(mode)

IsoInv == SteerInv /\ RestoreInv /\ FileInv /\ ModeInv

LEMMA IsoInit == HostInit => IsoInv
<1> SUFFICES ASSUME HostInit PROVE IsoInv
  OBVIOUS
<1>1. /\ affinity = originals /\ irqbalance = hadBalance /\ isoFile = <<>>
      /\ isoTorn = FALSE /\ proc.cmd = "none" /\ mode = "none"
  BY DEF HostInit
<1>2. QED
  BY <1>1 DEF IsoInv, SteerInv, RestoreInv, FileInv, ModeInv, Untouched, InPlace

(* A command of tune.py, or a kill that has a remedy.                       *)
LEMMA OtherStepsIso ==
  ASSUME IsoInv, UNCHANGED isoVars, proc.cmd \notin {"steer", "balance"},
         proc'.cmd \notin IsoCommands
  PROVE  IsoInv'
<1>1. /\ affinity' = affinity /\ irqbalance' = irqbalance /\ isoFile' = isoFile
      /\ isoTorn' = isoTorn /\ containers' = containers /\ mode' = mode
      /\ originals' = originals /\ hadBalance' = hadBalance /\ refused' = refused
  BY DEF isoVars
<1>2. SteerInv' /\ RestoreInv'
  BY DEF SteerInv, RestoreInv, IsoCommands
<1>3. FileInv'
  BY <1>1 DEF IsoInv, FileInv, Untouched, InPlace, Complete, IsoCommands
<1>4. ModeInv'
  BY <1>1 DEF IsoInv, ModeInv, Reached, QuietIrqs, IsoCommands
<1>5. QED
  BY <1>2, <1>3, <1>4 DEF IsoInv

LEMMA SteerBeginIso ==
  ASSUME IsoTypes, IsoInv, NEW m \in Modes, SteerBegin(m)
  PROVE  IsoInv'
<1>1. /\ proc.cmd = "none" /\ Isolated(m) /\ isoTorn = FALSE /\ refused' = {}
      /\ UNCHANGED <<affinity, isoFile, isoTorn, hadBalance>>
      /\ irqbalance' = FALSE /\ mode' = "none"
      /\ originals' = IF isoFile = <<>> THEN affinity ELSE originals
  BY DEF SteerBegin, Idle, IsoTypes
<1>2. PICK f, T : /\ f = SavedByFirstSteer
                  /\ T = { i \in Irqs : affinity[i] \cap Reserved # {} }
                  /\ proc' = [cmd |-> "steer", mode |-> m, file |-> f, todo |-> T]
  BY DEF SteerBegin
<1>3. Complete(f)'
  <2>1. CASE isoFile = <<>>
    <3>1. f = [irqs |-> <<>>, balance |-> irqbalance]
      BY <1>2, <2>1 DEF SavedByFirstSteer
    <3>2. irqbalance = hadBalance
      BY <1>1, <2>1 DEF IsoInv, FileInv, Untouched
    <3>3. f.balance = hadBalance /\ DOMAIN f.irqs = {}
      BY <3>1, <3>2, NothingIn
    <3>4. originals' = affinity'
      BY <1>1, <2>1
    <3>5. QED
      BY <1>1, <3>3, <3>4 DEF Complete
  <2>2. CASE isoFile # <<>>
    <3>1. f = isoFile /\ Complete(isoFile)
      BY <1>1, <1>2, <2>2 DEF IsoInv, FileInv, SavedByFirstSteer
    <3>2. QED
      BY <1>1, <2>2, <3>1 DEF Complete
  <2>3. QED
    BY <2>1, <2>2
<1>4. SteerInv'
  <2>1. \A i \in Irqs \ T : affinity'[i] \cap Reserved = {}
    BY <1>1, <1>2
  <2>2. QED
    BY <1>1, <1>2, <1>3, <2>1 DEF SteerInv
<1>5. FileInv'
  BY <1>1, <1>2 DEF FileInv
<1>6. QED
  BY <1>1, <1>2, <1>4, <1>5 DEF IsoInv, RestoreInv, ModeInv

LEMMA SteerIrqIso ==
  ASSUME IsoTypes, IsoInv, SteerIrq
  PROVE  IsoInv'
<1>1. PICK i \in proc.todo :
        \/ /\ affinity' = [affinity EXCEPT ![i] = Housekeeping]
           /\ proc' = [proc EXCEPT !.todo = @ \ {i}, !.file.irqs = NoteOriginal(i)]
           /\ UNCHANGED refused
        \/ /\ refused' = refused \cup {i}
           /\ proc' = [proc EXCEPT !.todo = @ \ {i}]
           /\ UNCHANGED affinity
  BY DEF SteerIrq
<1>2. PICK m, f, T : m = proc.mode /\ f = proc.file /\ T = proc.todo
  OBVIOUS
<1>3. /\ proc.cmd = "steer"
      /\ UNCHANGED <<irqbalance, isoFile, isoTorn, mode, originals, hadBalance>>
  BY DEF SteerIrq
<1>4. /\ proc = [cmd |-> "steer", mode |-> m, file |-> f, todo |-> T]
      /\ f = [irqs |-> f.irqs, balance |-> f.balance]
      /\ T \subseteq Irqs /\ i \in T /\ i \in Irqs
  <2>1. /\ proc = [cmd |-> "steer", mode |-> proc.mode, file |-> proc.file,
                   todo |-> proc.todo]
        /\ IsFile(proc.file) /\ proc.todo \in SUBSET Irqs
    BY <1>3, SteerShape
  <2>2. QED
    BY <1>1, <1>2, <2>1 DEF IsFile
<1>5. /\ ~irqbalance /\ ~isoTorn /\ Complete(f)
      /\ \A j \in (Irqs \ refused) \ T : affinity[j] \cap Reserved = {}
  BY <1>2, <1>3 DEF IsoInv, SteerInv
<1>6. PICK g : /\ proc' = [cmd |-> "steer", mode |-> m, file |-> g, todo |-> T \ {i}]
               /\ Complete(g)'
               /\ \A j \in (Irqs \ refused') \ (T \ {i}) : affinity'[j] \cap Reserved = {}
  <2>1. CASE /\ refused' = refused \cup {i}
             /\ proc' = [proc EXCEPT !.todo = @ \ {i}]
             /\ UNCHANGED affinity
    <3>1. proc' = [cmd |-> "steer", mode |-> m, file |-> f, todo |-> T \ {i}]
      BY <1>4, <2>1
    <3>2. Complete(f)'
      BY <1>3, <1>5, <2>1 DEF Complete
    <3>3. \A j \in (Irqs \ refused') \ (T \ {i}) : affinity'[j] \cap Reserved = {}
      BY <1>5, <2>1
    <3>4. QED
      BY <3>1, <3>2, <3>3
  <2>2. CASE /\ affinity' = [affinity EXCEPT ![i] = Housekeeping]
             /\ proc' = [proc EXCEPT !.todo = @ \ {i}, !.file.irqs = NoteOriginal(i)]
             /\ UNCHANGED refused
    <3>1. PICK n : /\ n = NoteOriginal(i)
                   /\ n = IF i \in DOMAIN f.irqs THEN f.irqs
                          ELSE [j \in DOMAIN f.irqs \cup {i} |->
                                  IF j = i THEN affinity[i] ELSE f.irqs[j]]
      BY <1>2 DEF NoteOriginal
    <3>2. proc' = [cmd |-> "steer", mode |-> m, file |-> [irqs |-> n, balance |-> f.balance],
                   todo |-> T \ {i}]
      BY <1>4, <2>2, <3>1
    <3>3. /\ DOMAIN n = DOMAIN f.irqs \cup {i}
          /\ \A j \in DOMAIN f.irqs : n[j] = f.irqs[j]
          /\ i \notin DOMAIN f.irqs => n[i] = affinity[i]
      BY <3>1
    <3>4. /\ affinity'[i] = Housekeeping
          /\ \A j \in Irqs \ {i} : affinity'[j] = affinity[j]
      BY <1>4, <2>2 DEF IsoTypes
    <3>5. /\ f.balance = hadBalance
          /\ \A j \in Irqs : IF j \in DOMAIN n THEN n[j] = originals[j]
                                               ELSE affinity'[j] = originals[j]
      BY <1>4, <1>5, <3>3, <3>4 DEF Complete
    <3>6. Complete([irqs |-> n, balance |-> f.balance])'
      BY <1>3, <3>5 DEF Complete
    <3>7. \A j \in (Irqs \ refused') \ (T \ {i}) : affinity'[j] \cap Reserved = {}
      BY <1>5, <2>2, <3>4, ReservedFacts
    <3>8. QED
      BY <3>2, <3>6, <3>7
  <2>3. QED
    BY <1>1, <2>1, <2>2
<1>7. SteerInv'
  BY <1>3, <1>5, <1>6 DEF SteerInv
<1>8. FileInv'
  BY <1>3, <1>5, <1>6 DEF IsoInv, FileInv
<1>9. mode' = "none"
  BY <1>3 DEF IsoInv, ModeInv, IsoCommands
<1>10. QED
  BY <1>6, <1>7, <1>8, <1>9 DEF IsoInv, RestoreInv, ModeInv

LEMMA SteerEndIso ==
  ASSUME IsoTypes, IsoInv, SteerEnd
  PROVE  IsoInv'
<1>1. /\ proc.cmd = "steer" /\ proc.todo = {} /\ isoFile' = <<>> /\ isoTorn' = TRUE
      /\ proc' = [cmd |-> "note", mode |-> proc.mode, file |-> proc.file]
      /\ UNCHANGED <<affinity, irqbalance, mode, originals, hadBalance, refused>>
  BY DEF SteerEnd
<1>2. PICK m, f : m = proc.mode /\ f = proc.file
  OBVIOUS
<1>3. ~irqbalance /\ Complete(f) /\ QuietIrqs
  BY <1>1, <1>2 DEF IsoInv, SteerInv, QuietIrqs
<1>4. proc' = [cmd |-> "note", mode |-> m, file |-> f] /\ mode' = "none"
  BY <1>1, <1>2 DEF IsoInv, ModeInv, IsoCommands
<1>5. Complete(f)' /\ QuietIrqs'
  BY <1>1, <1>3 DEF Complete, QuietIrqs
<1>6. SteerInv' /\ FileInv'
  BY <1>1, <1>3, <1>4, <1>5 DEF SteerInv, FileInv, IsoCommands
<1>7. QED
  BY <1>4, <1>6 DEF IsoInv, RestoreInv, ModeInv

LEMMA WriteOriginalsIso ==
  ASSUME IsoTypes, IsoInv, WriteOriginals
  PROVE  IsoInv'
<1>1. /\ proc.cmd = "note" /\ isoFile' = proc.file /\ isoTorn' = FALSE
      /\ proc' = [cmd |-> "run", mode |-> proc.mode]
      /\ UNCHANGED <<affinity, irqbalance, mode, originals, hadBalance, refused>>
  BY DEF WriteOriginals
<1>2. PICK m, f : m = proc.mode /\ f = proc.file
  OBVIOUS
<1>3. f # <<>> /\ Isolated(m)
  <2>1. IsFile(f) /\ Isolated(m)
    BY <1>1, <1>2 DEF IsoTypes
  <2>2. QED
    BY <2>1, FileIsThere
<1>4. ~irqbalance /\ Complete(f) /\ QuietIrqs
  BY <1>1, <1>2 DEF IsoInv, SteerInv
<1>5. /\ isoFile' = f /\ proc' = [cmd |-> "run", mode |-> m] /\ mode' = "none"
  BY <1>1, <1>2 DEF IsoInv, ModeInv, IsoCommands
<1>6. Complete(f)' /\ QuietIrqs'
  BY <1>1, <1>4 DEF Complete, QuietIrqs
<1>7. FileInv'
  BY <1>1, <1>3, <1>4, <1>5, <1>6 DEF FileInv
<1>8. ModeInv'
  BY <1>3, <1>5, <1>6 DEF ModeInv, Reached
<1>9. QED
  BY <1>5, <1>7, <1>8 DEF IsoInv, SteerInv, RestoreInv

LEMMA PutBackBeginIso ==
  ASSUME IsoTypes, IsoInv, NEW m \in Modes, PutBackBegin(m)
  PROVE  IsoInv'
<1>1. /\ proc.cmd = "none" /\ ~Isolated(m) /\ mode' = "none" /\ isoTorn = FALSE
      /\ UNCHANGED <<affinity, irqbalance, isoFile, isoTorn, originals, hadBalance>>
  BY DEF PutBackBegin, Idle, IsoTypes
<1>2. CASE isoFile = <<>>
  <2>1. proc' = [cmd |-> "run", mode |-> m] /\ refused' = refused
    BY <1>2 DEF PutBackBegin
  <2>2. Untouched'
    BY <1>1, <1>2, <2>1 DEF IsoInv, FileInv, Untouched, InPlace
  <2>3. QED
    BY <1>1, <1>2, <2>1, <2>2 DEF IsoInv, SteerInv, RestoreInv, FileInv, ModeInv, Reached
<1>3. CASE isoFile # <<>>
  <2>1. proc' = [cmd |-> "restore", mode |-> m, todo |-> DOMAIN isoFile.irqs]
    BY <1>3 DEF PutBackBegin
  <2>2. Complete(isoFile)' /\ ~irqbalance
    BY <1>1, <1>3 DEF IsoInv, FileInv, Complete
  <2>3. QED
    BY <1>1, <1>3, <2>1, <2>2 DEF IsoInv, SteerInv, RestoreInv, FileInv, ModeInv
<1>4. QED
  BY <1>2, <1>3

(* A command on a state file without content leaves what it finds.          *)
LEMMA StateUnreadableIso ==
  ASSUME IsoInv, NEW m \in Modes, StateUnreadable(m)
  PROVE  IsoInv'
<1>1. /\ proc.cmd = "none" /\ isoTorn /\ mode' = "none"
      /\ irqbalance' = (irqbalance /\ ~Isolated(m))
      /\ UNCHANGED <<isoTorn, proc>>
  BY DEF StateUnreadable, Idle
<1>2. ~irqbalance'
  BY <1>1 DEF IsoInv, FileInv
<1>3. QED
  BY <1>1, <1>2 DEF IsoInv, SteerInv, RestoreInv, FileInv, ModeInv, IsoCommands

(* What the types say of a process that puts the interrupts back.           *)
LEMMA RestoreShape ==
  ASSUME IsoTypes, proc.cmd = "restore"
  PROVE  /\ proc = [cmd |-> "restore", mode |-> proc.mode, todo |-> proc.todo]
         /\ ~Isolated(proc.mode)
         /\ isoFile # <<>> /\ IsFile(isoFile) /\ proc.todo \subseteq DOMAIN isoFile.irqs
BY DEF IsoTypes

LEMMA PutBackIrqIso ==
  ASSUME IsoTypes, IsoInv, PutBackIrq
  PROVE  IsoInv'
<1>1. PICK i \in proc.todo :
        /\ proc' = [proc EXCEPT !.todo = @ \ {i}]
        /\ \/ affinity' = [affinity EXCEPT ![i] = isoFile.irqs[i]] /\ UNCHANGED refused
           \/ refused' = refused \cup {i} /\ UNCHANGED affinity
  BY DEF PutBackIrq
<1>2. PICK m, T : m = proc.mode /\ T = proc.todo
  OBVIOUS
<1>3. /\ proc.cmd = "restore"
      /\ UNCHANGED <<irqbalance, isoFile, isoTorn, mode, originals, hadBalance>>
  BY DEF PutBackIrq
<1>4. /\ proc = [cmd |-> "restore", mode |-> m, todo |-> T]
      /\ isoFile # <<>> /\ DOMAIN isoFile.irqs \subseteq Irqs
      /\ T \subseteq DOMAIN isoFile.irqs /\ i \in T
  BY <1>1, <1>2, <1>3, RestoreShape DEF IsFile
<1>5. proc' = [cmd |-> "restore", mode |-> m, todo |-> T \ {i}]
  BY <1>1, <1>4
<1>6. ~isoTorn /\ ~irqbalance /\ Complete(isoFile)
  BY <1>3, <1>4 DEF IsoInv, FileInv, IsoCommands
<1>7. /\ refused' \in {refused, refused \cup {i}}
      /\ i \in refused' \/ affinity'[i] = originals[i]
      /\ \A j \in Irqs \ {i} : affinity'[j] = affinity[j]
  BY <1>1, <1>4, <1>6 DEF Complete, IsoTypes
<1>8. Complete(isoFile)'
  BY <1>3, <1>4, <1>6, <1>7 DEF Complete
<1>9. \A j \in (DOMAIN isoFile.irqs \ refused) \ T : affinity[j] = originals[j]
  BY <1>2, <1>3 DEF IsoInv, RestoreInv
<1>10. \A j \in (DOMAIN isoFile.irqs \ refused') \ (T \ {i}) : affinity'[j] = originals[j]
  BY <1>4, <1>7, <1>9
<1>11. RestoreInv'
  BY <1>3, <1>5, <1>10 DEF RestoreInv
<1>12. FileInv'
  BY <1>3, <1>4, <1>6, <1>8 DEF FileInv
<1>13. mode' = "none"
  BY <1>3 DEF IsoInv, ModeInv, IsoCommands
<1>14. QED
  BY <1>5, <1>11, <1>12, <1>13 DEF IsoInv, SteerInv, ModeInv

LEMMA ForgetIso ==
  ASSUME IsoTypes, IsoInv, Forget
  PROVE  IsoInv'
<1>1. /\ proc.cmd = "restore" /\ proc.todo = {} /\ isoFile' = <<>>
      /\ proc' = [cmd |-> "balance", mode |-> proc.mode, start |-> isoFile.balance]
      /\ UNCHANGED <<affinity, irqbalance, isoTorn, mode, originals, hadBalance, refused>>
  BY DEF Forget
<1>2. isoFile # <<>> /\ DOMAIN isoFile.irqs \subseteq Irqs
  BY <1>1, RestoreShape DEF IsFile
<1>3. ~isoTorn /\ ~irqbalance /\ Complete(isoFile)
  BY <1>1, <1>2 DEF IsoInv, FileInv, IsoCommands
<1>4. \A i \in DOMAIN isoFile.irqs \ refused : affinity[i] = originals[i]
  BY <1>1 DEF IsoInv, RestoreInv
<1>5. InPlace'
  BY <1>1, <1>3, <1>4 DEF Complete, InPlace
<1>6. mode' = "none"
  BY <1>1 DEF IsoInv, ModeInv, IsoCommands
<1>7. PICK m, b : /\ proc' = [cmd |-> "balance", mode |-> m, start |-> b]
                  /\ b = hadBalance
  BY <1>1, <1>3 DEF Complete
<1>8. RestoreInv' /\ FileInv'
  BY <1>1, <1>3, <1>5, <1>7 DEF RestoreInv, FileInv
<1>9. QED
  BY <1>6, <1>7, <1>8 DEF IsoInv, SteerInv, ModeInv

LEMMA StartBalanceIso ==
  ASSUME IsoTypes, IsoInv, StartBalance
  PROVE  IsoInv'
<1>1. /\ proc.cmd = "balance" /\ irqbalance' = (irqbalance \/ proc.start)
      /\ proc' = [cmd |-> "run", mode |-> proc.mode]
      /\ UNCHANGED <<affinity, isoFile, isoTorn, mode, originals, hadBalance, refused>>
  BY DEF StartBalance
<1>2. /\ isoFile = <<>> /\ irqbalance' = hadBalance /\ InPlace
      /\ ~Isolated(proc.mode) /\ ~isoTorn
  <2>1. isoFile = <<>> /\ ~irqbalance /\ proc.start = hadBalance /\ InPlace
    BY <1>1 DEF IsoInv, RestoreInv
  <2>2. ~Isolated(proc.mode) /\ hadBalance \in BOOLEAN
    BY <1>1 DEF IsoTypes
  <2>3. ~isoTorn
    BY <1>1 DEF IsoInv, FileInv, IsoCommands
  <2>4. QED
    BY <1>1, <2>1, <2>2, <2>3
<1>3. mode' = "none"
  BY <1>1 DEF IsoInv, ModeInv, IsoCommands
<1>4. PICK m : proc' = [cmd |-> "run", mode |-> m] /\ ~Isolated(m)
  BY <1>1, <1>2
<1>5. Untouched'
  BY <1>1, <1>2 DEF Untouched, InPlace
<1>6. FileInv' /\ ModeInv'
  BY <1>1, <1>2, <1>3, <1>4, <1>5 DEF FileInv, ModeInv, Reached
<1>7. QED
  BY <1>4, <1>6 DEF IsoInv, SteerInv, RestoreInv

LEMMA RunContainersIso ==
  ASSUME IsoTypes, IsoInv, RunContainers
  PROVE  IsoInv'
<1>1. PICK m \in Modes : m = proc.mode /\ mode' = m /\ containers' = Plan(m)
  BY DEF RunContainers, IsoTypes
<1>2. /\ proc.cmd = "run" /\ proc' = [cmd |-> "none"]
      /\ UNCHANGED <<affinity, irqbalance, isoFile, isoTorn, originals, hadBalance, refused>>
  BY DEF RunContainers, Exit
<1>3. Reached(m) /\ ~isoTorn
  BY <1>1, <1>2 DEF IsoInv, ModeInv, FileInv, IsoCommands
<1>4. Reached(m)' /\ proc'.cmd \notin IsoCommands
  BY <1>2, <1>3 DEF Reached, QuietIrqs, IsoCommands
<1>5. ModeInv'
  BY <1>1, <1>2, <1>4 DEF ModeInv, Plan, NoiseCpus, LightserveCpus
<1>6. FileInv'
  BY <1>2, <1>3 DEF IsoInv, FileInv, Untouched, InPlace, Complete
<1>7. QED
  BY <1>2, <1>5, <1>6 DEF IsoInv, SteerInv, RestoreInv

LEMMA BalanceIso ==
  ASSUME IsoTypes, IsoInv, Balance
  PROVE  IsoInv'
<1>1. /\ irqbalance
      /\ UNCHANGED <<irqbalance, isoFile, isoTorn, containers, mode, originals, hadBalance,
                     refused, proc>>
  BY DEF Balance
<1>2. /\ isoFile = <<>> /\ ~isoTorn
      /\ proc.cmd \notin {"steer", "note", "balance", "restore"}
  BY <1>1 DEF IsoInv, SteerInv, RestoreInv, FileInv, IsoTypes
<1>3. SteerInv' /\ RestoreInv'
  BY <1>1, <1>2 DEF SteerInv, RestoreInv
<1>4. FileInv' /\ ModeInv'
  BY <1>1, <1>2 DEF IsoInv, FileInv, ModeInv, Untouched, Reached, Plan
<1>5. QED
  BY <1>3, <1>4 DEF IsoInv

LEMMA IsoStep ==
  KilledSafely /\ TuneInv /\ IsoTypes /\ IsoInv /\ [HostNext]_hostVars => IsoInv'
<1> SUFFICES ASSUME KilledSafely, TuneInv, IsoTypes, IsoInv, [HostNext]_hostVars
             PROVE  IsoInv'
  OBVIOUS
<1>1. CASE TuneNext
  BY <1>1, TuneLeavesIso, OtherStepsIso DEF IsoCommands
<1>2. CASE \E m \in Modes : SteerBegin(m) \/ PutBackBegin(m) \/ StateUnreadable(m)
  BY <1>2, SteerBeginIso, PutBackBeginIso, StateUnreadableIso
<1>3. CASE SteerIrq
  BY <1>3, SteerIrqIso
<1>4. CASE SteerEnd \/ WriteOriginals
  BY <1>4, SteerEndIso, WriteOriginalsIso
<1>5. CASE PutBackIrq
  BY <1>5, PutBackIrqIso
<1>6. CASE Forget
  BY <1>6, ForgetIso
<1>7. CASE StartBalance
  BY <1>7, StartBalanceIso
<1>8. CASE RunContainers
  BY <1>8, RunContainersIso
<1>9. CASE Balance
  BY <1>9, BalanceIso
<1>10. CASE Kill
  <2>1. UNCHANGED isoVars /\ proc' = [cmd |-> "none"]
    BY <1>10 DEF Kill, Exit
  <2>2. proc.cmd \notin {"steer", "balance"}
    BY <1>10 DEF Kill, KilledSafely, Tuning
  <2>3. QED
    BY <2>1, <2>2, OtherStepsIso DEF IsoCommands
<1>11. CASE UNCHANGED hostVars
  <2>1. /\ affinity' = affinity /\ irqbalance' = irqbalance /\ isoFile' = isoFile
        /\ isoTorn' = isoTorn /\ containers' = containers /\ mode' = mode
        /\ originals' = originals /\ hadBalance' = hadBalance /\ refused' = refused
        /\ proc' = proc
    BY <1>11 DEF hostVars, isoVars
  <2>2. SteerInv' /\ RestoreInv'
    BY <2>1 DEF IsoInv, SteerInv, RestoreInv, Complete, QuietIrqs, InPlace
  <2>3. FileInv' /\ ModeInv'
    BY <2>1 DEF IsoInv, FileInv, ModeInv, Untouched, InPlace, Complete, Reached, QuietIrqs
  <2>4. QED
    BY <2>2, <2>3 DEF IsoInv
<1>12. QED
  BY <1>1, <1>2, <1>3, <1>4, <1>5, <1>6, <1>7, <1>8, <1>9, <1>10, <1>11
  DEF HostNext, IsolateNext

LEMMA HostInvariant ==
  ASSUME KilledSafely
  PROVE  HostSpec => [](TuneInv /\ IsoTypes /\ IsoInv)
<1>1. HostInit => TuneInv /\ IsoTypes /\ IsoInv
  BY TuneInit, IsoTypesInit, IsoInit
<1>2. (TuneInv /\ IsoTypes /\ IsoInv) /\ [HostNext]_hostVars
        => (TuneInv /\ IsoTypes /\ IsoInv)'
  BY HostStep, IsoStep
<1>3. QED
  BY <1>1, <1>2, PTL DEF HostSpec

(* Non-isolated modes put irqbalance back, and every interrupt whose write  *)
(* does not fail, unless isolate.py was killed while it steered or before   *)
(* it restarted irqbalance.                                                 *)
THEOREM NoTraceIsLeft ==
  ASSUME KilledSafely
  PROVE  HostSpec => []LeavesNoTrace
<1>1. TuneInv /\ IsoTypes /\ IsoInv => LeavesNoTrace
  <2>1. SUFFICES ASSUME IsoInv, Plain(mode)
                 PROVE  /\ isoFile = <<>> /\ ~isoTorn /\ irqbalance = hadBalance
                        /\ ~irqbalance => \A i \in Irqs \ refused : affinity[i] = originals[i]
    BY DEF LeavesNoTrace
  <2>2. mode # "none" /\ ~Isolated(mode)
    BY <2>1 DEF Plain, Isolated
  <2>3. isoFile = <<>> /\ proc.cmd \notin IsoCommands
    BY <2>1, <2>2 DEF IsoInv, ModeInv, Reached
  <2>4. ~isoTorn /\ Untouched
    BY <2>1, <2>2, <2>3 DEF IsoInv, FileInv, IsoCommands
  <2>5. QED
    BY <2>3, <2>4 DEF Untouched, InPlace
<1>2. QED
  BY <1>1, HostInvariant, PTL

(* The reserved cores stay free of neighbours, and of the interrupts whose  *)
(* move did not fail, for as long as an isolated mode lasts, on every       *)
(* machine that has a layout.                                               *)
THEOREM ReservedStayFree ==
  ASSUME KilledSafely
  PROVE  HostSpec => []ReservedCoresStayFree
<1>1. TuneInv /\ IsoTypes /\ IsoInv => ReservedCoresStayFree
  <2>1. SUFFICES ASSUME IsoInv, Isolated(mode)
                 PROVE  /\ containers.noise \cap (Reserved \cup Housekeeping) = {}
                        /\ containers.lightserve \cap EngineTwin = {}
                        /\ \A i \in Irqs \ refused : affinity[i] \cap Reserved = {}
    BY DEF ReservedCoresStayFree
  <2>2. mode # "none" /\ mode \in {"isolated-quiet", "isolated-noisy"}
    BY <2>1 DEF Isolated
  <2>3. QuietIrqs /\ containers = Plan(mode)
    BY <2>1, <2>2 DEF IsoInv, ModeInv, Reached
  <2>4. containers.noise \in {{}, Rest} /\ containers.lightserve = {Engine} \cup Server
    BY <2>1, <2>2, <2>3 DEF Plan, NoiseCpus, LightserveCpus
  <2>5. QED
    BY <2>3, <2>4, ReservedFacts DEF QuietIrqs
<1>2. QED
  BY <1>1, HostInvariant, PTL

=============================================================================
