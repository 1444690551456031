--------------------------- MODULE HandoffProofs ---------------------------
(***************************************************************************)
(* Proofs about PDHandoff, for any number of handoffs in any interleaving: *)
(* the decode node's token log; that who is resumed gets what one engine   *)
(* would have generated; and EngineContract across the two nodes.          *)
(*                                                                         *)
(* The log needs no more of the engine than that a step never takes a      *)
(* token back, which rests on the types of its queues.  The rest is proved *)
(* from HandedInv: EngineInv is no invariant here, since resume_decode()   *)
(* goes past the scheduler's admission, but it holds whenever the thread   *)
(* enters step(), and so the engine's own lemmas apply there.              *)
(***************************************************************************)
EXTENDS PDHandoff, EngineOutputProofs

-----------------------------------------------------------------------------
(* The invariants *)

IsEntries(s) == IsSeq(s) /\ \A e \in ToSet(s) : e.req \in Requests

(* The engine's queues hold requests, and nobody has drafts.                *)
DecodeTypes ==
  /\ waiting \in Seq(Requests) /\ running \in Seq(Requests)
  /\ pending \in Seq(Requests) /\ kept \in Seq(Requests)
  /\ allocating \subseteq Requests
  /\ IsEntries(scheduledNew) /\ IsEntries(scheduledRunning) /\ IsEntries(todo)
  /\ draft = [r \in Requests |-> 0]
  /\ DOMAIN out = Requests /\ \A r \in Requests : IsSeq(out[r])

LogTypes ==
  /\ prevLen \in [Requests -> Nat]
  /\ itl \in [Requests -> Seq(Nat)]
  /\ DOMAIN answer = Requests
  /\ client \in [Requests -> {"new", "prefilling", "carrying", "waiting", "done"}]
  /\ incoming \in Seq(Requests) /\ NoDup(incoming)

(* A posted handoff is in the queue or, once resumed, pending, and never in *)
(* both: the thread takes up each one once.                                 *)
HandoffInv ==
  /\ \A r \in ToSet(incoming) : client[r] = "waiting" /\ prevLen[r] = 0
  /\ thread = "allocate" =>
       incoming # <<>> /\ out[Head(incoming)] = <<First(Head(incoming))>>
  /\ \A r \in Pending :
       /\ client[r] = "waiting"
       /\ prevLen[r] <= Len(out[r])
       /\ thread = "check" => prevLen[r] = Len(out[r])

Gapless(s) == \A i \in 1..(Len(s) - 1) : s[i + 1] = s[i] + 1

(* The log of a pending request ends at _prev_len, and unless it was reset  *)
(* it begins after the first token.                                         *)
Logged(r) ==
  /\ Gapless(itl[r])
  /\ itl[r] # <<>> => itl[r][1] >= 1
  /\ r \in Pending =>
       /\ itl[r] # <<>> => itl[r][Len(itl[r])] = prevLen[r] - 1
       /\ ~cleared => Len(itl[r]) = prevLen[r] - 1
  /\ r \notin Pending /\ client[r] # "done" => itl[r] = <<>>
  /\ ~cleared /\ client[r] = "done" => Len(itl[r]) = Len(answer[r]) - 1

LogInv == LogTypes /\ HandoffInv /\ \A r \in Requests : Logged(r)

-----------------------------------------------------------------------------
(* Sequences *)

LEMMA EmptyEntries == IsEntries(<<>>)
  BY EmptyIsSeq DEF IsEntries

LEMMA AppendEntries ==
  ASSUME NEW s, NEW r \in Requests, NEW n, IsEntries(s)
  PROVE  IsEntries(Append(s, Scheduled(r, n)))
<1>1. Scheduled(r, n).req = r
  BY DEF Scheduled
<1>2. QED
  BY <1>1, AppendIsSeq DEF IsEntries

LEMMA ConcatEntries ==
  ASSUME NEW s, NEW t, IsEntries(s), IsEntries(t)
  PROVE  IsEntries(s \o t)
  BY ConcatIsSeq DEF IsEntries

LEMMA RestEntries ==
  ASSUME NEW s, IsEntries(s), s # <<>>
  PROVE  IsEntries(Tail(s))
<1>1. s \in Seq(ToSet(s))
  BY DEF IsEntries, IsSeq
<1>2. Len(s) \in Nat \ {0} /\ DOMAIN s = 1..Len(s) /\ Tail(s) = SubSeq(s, 2, Len(s))
  BY <1>1, LenProperties, EmptySeq, TailIsSubSeq
<1>3. 1 \in DOMAIN s /\ Tail(s) = SubSeq(s, 1 + 1, Len(s))
  BY <1>2
<1>4. QED
  BY <1>3, RestIsSeq DEF IsEntries

LEMMA ConcatLen ==
  ASSUME NEW s, NEW t, IsSeq(s), IsSeq(t)
  PROVE  Len(s \o t) >= Len(s)
<1> DEFINE S == ToSet(s) \cup ToSet(t)
<1>1. s \in Seq(S) /\ t \in Seq(S)
  BY SeqMonotonic DEF IsSeq
<1> HIDE DEF S
<1>2. Len(s \o t) = Len(s) + Len(t) /\ Len(s) \in Nat /\ Len(t) \in Nat
  BY <1>1, ConcatProperties, LenProperties
<1>3. QED
  BY <1>2

LEMMA WithoutIsSeq ==
  ASSUME NEW s \in Seq(Requests), NEW r, Contains(s, r)
  PROVE  Without(s, r) \in Seq(Requests)
<1>1. PICK i \in DOMAIN s : i = (CHOOSE j \in DOMAIN s : s[j] = r)
  BY DEF Contains
<1>2. i \in 1..Len(s) /\ Len(s) \in Nat
  OBVIOUS
<1>3. SubSeq(s, 1, i - 1) \in Seq(Requests) /\ SubSeq(s, i + 1, Len(s)) \in Seq(Requests)
  <2>1. \A j \in 1..(i - 1) : s[j] \in Requests
    BY <1>2
  <2>2. \A j \in (i + 1)..Len(s) : s[j] \in Requests
    BY <1>2
  <2>3. QED
    BY <1>2, <2>1, <2>2, SubSeqProperties
<1>4. QED
  BY <1>1, <1>3 DEF Without, RemoveAt

(* What _record_itl() appends to a log that ends at m - 1.                  *)
Indices(m, n) == [i \in 1..(n - m) |-> m + i - 1]

LEMMA IndicesFrom ==
  ASSUME NEW m \in Nat \ {0}, NEW k \in Nat
  PROVE  /\ Indices(m, m + k) \in Seq(Nat) /\ Len(Indices(m, m + k)) = k
         /\ \A i \in 1..k : Indices(m, m + k)[i] = m + i - 1
<1>1. Indices(m, m + k) = [i \in 1..k |-> m + i - 1]
  <2>1. (m + k) - m = k
    OBVIOUS
  <2>2. QED
    BY <2>1 DEF Indices
<1>2. \A i \in 1..k : m + i - 1 \in Nat
  OBVIOUS
<1>3. Indices(m, m + k) \in [1..k -> Nat]
  BY <1>1, <1>2
<1>4. Indices(m, m + k) \in Seq(Nat)
  BY <1>3, SeqDef
<1>5. Len(Indices(m, m + k)) = k
  BY <1>3, <1>4, LenProperties
<1>6. QED
  BY <1>1, <1>4, <1>5

(* t is s, which ends at m - 1, and the k indices from m.                   *)
Continues(s, l, m, t, k) ==
  /\ \A i \in 1..(l - 1) : s[i + 1] = s[i] + 1
  /\ l >= 1 => s[1] \in Nat /\ s[1] >= 1 /\ s[l] = m - 1
  /\ \A i \in 1..(l + k) : t[i] = IF i <= l THEN s[i] ELSE m + (i - l) - 1

LEMMA ContinuesOn ==
  ASSUME NEW l \in Nat, NEW k \in Nat, NEW m \in Nat \ {0}, NEW s, NEW t,
         Continues(s, l, m, t, k)
  PROVE  /\ \A i \in 1..((l + k) - 1) : t[i + 1] = t[i] + 1
         /\ l + k >= 1 => t[1] >= 1 /\ t[l + k] = (m + k) - 1
<1> USE DEF Continues
<1>1. ASSUME NEW i \in 1..((l + k) - 1), NEW j, j = i + 1 PROVE t[j] = t[i] + 1
  <2>1. /\ i \in 1..(l + k) /\ j \in 1..(l + k) /\ i \in Nat /\ j \in Nat
    BY <1>1
  <2>2. /\ t[i] = IF i <= l THEN s[i] ELSE m + (i - l) - 1
        /\ t[j] = IF j <= l THEN s[j] ELSE m + (j - l) - 1
    BY <2>1
  <2>3. CASE i < l
    <3>1. i \in 1..(l - 1) /\ j <= l /\ i <= l
      BY <1>1, <2>1, <2>3
    <3>2. s[j] = s[i] + 1
      BY <1>1, <3>1
    <3>3. QED
      BY <2>2, <3>1, <3>2
  <2>4. CASE i = l
    <3>1. l >= 1 /\ ~(j <= l)
      BY <1>1, <2>1, <2>4
    <3>2. t[i] = m - 1 /\ t[j] = m + (j - l) - 1
      BY <2>2, <2>4, <3>1
    <3>3. QED
      BY <1>1, <2>4, <3>2
  <2>5. CASE i > l
    <3>1. t[i] = m + (i - l) - 1 /\ t[j] = m + (j - l) - 1
      BY <1>1, <2>1, <2>2, <2>5
    <3>2. QED
      BY <1>1, <2>1, <3>1
  <2>6. QED
    BY <2>1, <2>3, <2>4, <2>5
<1>2. ASSUME l + k >= 1 PROVE t[1] >= 1
  <2>1. t[1] = IF 1 <= l THEN s[1] ELSE m + (1 - l) - 1
    BY <1>2
  <2>2. QED
    BY <2>1
<1>3. ASSUME l + k >= 1, NEW n \in Nat, n = l + k PROVE t[n] = (m + k) - 1
  <2>1. t[n] = IF n <= l THEN s[n] ELSE m + (n - l) - 1
    BY <1>3
  <2>2. CASE k = 0
    <3>1. n = l /\ l >= 1
      BY <1>3, <2>2
    <3>2. QED
      BY <2>1, <2>2, <3>1
  <2>3. CASE k >= 1
    BY <1>3, <2>1, <2>3
  <2>4. QED
    BY <2>2, <2>3
<1>4. QED
  BY <1>1, <1>2, <1>3

LEMMA LogGrows ==
  ASSUME NEW s \in Seq(Nat), NEW m \in Nat \ {0}, NEW n \in Nat, m <= n,
         Gapless(s), s # <<>> => s[1] >= 1 /\ s[Len(s)] = m - 1
  PROVE  LET t == s \o Indices(m, n) IN
         /\ t \in Seq(Nat) /\ Len(t) = Len(s) + (n - m)
         /\ Gapless(t)
         /\ t # <<>> => t[1] >= 1 /\ t[Len(t)] = n - 1
<1>1. PICK k \in Nat : k = n - m /\ n = m + k
  OBVIOUS
<1>2. PICK l \in Nat : l = Len(s)
  OBVIOUS
<1>3. PICK u \in Seq(Nat) : /\ u = Indices(m, n) /\ Len(u) = k
                            /\ \A i \in 1..k : u[i] = m + i - 1
  BY <1>1, IndicesFrom
<1>4. PICK t \in Seq(Nat) : t = s \o u
  BY ConcatProperties
<1>5. Len(t) = l + k /\ \A i \in 1..(l + k) : t[i] = IF i <= l THEN s[i] ELSE u[i - l]
  <2>1. /\ Len(s \o u) = Len(s) + Len(u)
        /\ \A i \in 1..(Len(s) + Len(u)) :
             (s \o u)[i] = IF i <= Len(s) THEN s[i] ELSE u[i - Len(s)]
    BY ConcatProperties
  <2>2. QED
    BY <1>2, <1>3, <1>4, <2>1
<1>6. ASSUME NEW i \in 1..(l + k) PROVE t[i] = IF i <= l THEN s[i] ELSE m + (i - l) - 1
  <2>1. CASE i <= l
    BY <1>5, <2>1
  <2>2. CASE i > l
    <3>1. i - l \in 1..k
      BY <2>2
    <3>2. u[i - l] = m + (i - l) - 1
      BY <1>3, <3>1
    <3>3. QED
      BY <1>5, <2>2, <3>2
  <2>3. QED
    BY <2>1, <2>2
<1>7. \A i \in 1..(l - 1) : s[i + 1] = s[i] + 1
  BY <1>2 DEF Gapless
<1>8. l >= 1 => s[1] \in Nat /\ s[1] >= 1 /\ s[l] = m - 1
  <2>1. l >= 1 => s # <<>> /\ s[1] \in Nat
    BY <1>2, EmptySeq, ElementOfSeq
  <2>2. QED
    BY <1>2, <2>1
<1>9. /\ \A i \in 1..((l + k) - 1) : t[i + 1] = t[i] + 1
      /\ l + k >= 1 => t[1] >= 1 /\ t[l + k] = (m + k) - 1
  <2>1. \A i \in 1..(l + k) : t[i] = IF i <= l THEN s[i] ELSE m + (i - l) - 1
    BY <1>6
  <2>2. Continues(s, l, m, t, k)
    BY <1>7, <1>8, <2>1 DEF Continues
  <2>3. QED
    BY <2>2, ContinuesOn
<1>10. Gapless(t)
  BY <1>5, <1>9 DEF Gapless
<1>11. t # <<>> => l + k >= 1
  BY <1>5, EmptySeq
<1>12. QED
  BY <1>1, <1>2, <1>3, <1>4, <1>5, <1>9, <1>10, <1>11

-----------------------------------------------------------------------------
(* A step of the decode node's engine *)

decodeVars == <<waiting, running, pending, kept, allocating, scheduledNew,
                scheduledRunning, todo, draft, out>>

LEMMA SameTypes == DecodeTypes /\ UNCHANGED decodeVars => DecodeTypes'
  BY DEF DecodeTypes, IsEntries, IsSeq, decodeVars

LEMMA RunningLoopTypes ==
  ASSUME DecodeTypes,
         SkipRunning \/ PreemptForRunning \/ ScheduleRunning \/ RunningDone,
         UNCHANGED todo
  PROVE  DecodeTypes' /\ out' = out
<1> USE DEF DecodeTypes
<1>1. CASE SkipRunning
  BY <1>1, HeadTail, AppendSet DEF SkipRunning, bmVars, requestVars, queueVars
<1>2. CASE PreemptForRunning
  <2>1. pending # <<>> /\ waiting' = <<Last(pending)>> \o waiting /\ pending' = Front(pending)
    BY <1>2 DEF PreemptForRunning, Deciding, Requeue, Victim
  <2>2. Last(pending) \in Requests /\ Front(pending) \in Seq(Requests)
    BY <2>1, FrontLast
  <2>3. waiting' \in Seq(Requests)
    BY <2>1, <2>2, ConcatProperties
  <2>4. UNCHANGED <<running, kept, allocating, scheduledNew, scheduledRunning, draft, out>>
    BY <1>2 DEF PreemptForRunning, Free
  <2>5. QED
    BY <2>1, <2>2, <2>3, <2>4
<1>3. CASE ScheduleRunning
  <2>1. PICK r \in Requests :
          /\ r = Head(pending) /\ pending # <<>>
          /\ ReserveSlots(r)
          /\ scheduledRunning' = Append(scheduledRunning, Scheduled(r, Chunk(r)))
          /\ kept' = Append(kept, r) /\ pending' = Tail(pending)
          /\ UNCHANGED <<out, draft, waiting, running, scheduledNew>>
    BY <1>3 DEF ScheduleRunning, Deciding, queueVars
  <2>2. pending' \in Seq(Requests) /\ kept' \in Seq(Requests)
    BY <2>1, HeadTail, AppendSet
  <2>3. IsEntries(scheduledRunning')
    BY <2>1, AppendEntries
  <2>4. UNCHANGED allocating
    BY <2>1 DEF ReserveSlots, EnsureCapacity, AppendSlot
  <2>5. QED
    BY <2>1, <2>2, <2>3, <2>4
<1>4. CASE RunningDone
  BY <1>4 DEF RunningDone, bmVars, requestVars
<1>5. QED
  BY <1>1, <1>2, <1>3, <1>4

LEMMA AdmissionTypes ==
  ASSUME DecodeTypes,
         AdmitWaiting \/ AllocateEvicts \/ AdmitDone,
         UNCHANGED todo
  PROVE  DecodeTypes' /\ out' = out
<1> USE DEF DecodeTypes
<1>1. CASE AdmitWaiting
  <2>1. waiting # <<>> /\ waiting' = Tail(waiting) /\ allocating' = {Head(waiting)}
    BY <1>1 DEF AdmitWaiting, HeadAdmissible, AllocateBegin
  <2>2. waiting' \in Seq(Requests) /\ allocating' \subseteq Requests
    BY <2>1, HeadTail
  <2>3. UNCHANGED <<running, pending, kept, scheduledNew, scheduledRunning, draft, out>>
    BY <1>1 DEF AdmitWaiting, requestVars
  <2>4. QED
    BY <2>2, <2>3
<1>2. CASE AllocateEvicts
  <2>1. UNCHANGED decodeVars
    BY <1>2 DEF AllocateEvicts, DrainEviction, requestVars, queueVars, stepVars, decodeVars
  <2>2. QED
    BY <2>1, SameTypes DEF decodeVars
<1>3. CASE AdmitDone
  <2>1. PICK r \in Requests :
          /\ allocating' = {}
          /\ \E n : scheduledNew' = Append(scheduledNew, Scheduled(r, n))
          /\ running' = Append(running, r)
          /\ UNCHANGED <<out, draft, waiting, pending, kept, scheduledRunning>>
    BY <1>3 DEF AdmitDone, AllocateFinish
  <2>2. running' \in Seq(Requests) /\ IsEntries(scheduledNew')
    BY <2>1, AppendSet, AppendEntries
  <2>3. QED
    BY <2>1, <2>2
<1>4. QED
  BY <1>1, <1>2, <1>3

LEMMA ExecuteModelTypes ==
  ASSUME DecodeTypes, ExecuteModel
  PROVE  DecodeTypes' /\ \A r \in Requests : Len(out'[r]) >= Len(out[r])
<1> USE DEF DecodeTypes
<1>1. PICK c \in [Sampling -> 1..(NumSpecTokens + 1)],
           eos \in [Sampling -> SUBSET (1..(NumSpecTokens + 1))] :
        out' = [r \in Requests |-> IF r \in Sampling
                                   THEN Extended(r, Committed(r, c[r], eos[r]))
                                   ELSE out[r]]
  BY DEF ExecuteModel
<1>2. ASSUME NEW r \in Requests
      PROVE  IsSeq(out'[r]) /\ Len(out'[r]) >= Len(out[r])
  <2>1. CASE r \in Sampling
    <3>1. PICK n \in Nat : n = c[r]
      BY <2>1, SchedulerAssumption
    <3>2. PICK new : new = Committed(r, n, eos[r])
      OBVIOUS
    <3>3. DOMAIN new = 1..n
      BY <3>2 DEF Committed
    <3>4. new = [i \in 1..n |-> new[i]]
      BY <3>2 DEF Committed
    <3>5. new \in [1..n -> ToSet(new)]
      BY <3>3, <3>4 DEF ToSet
    <3>6. IsSeq(new)
      BY <3>5, SeqDef DEF IsSeq
    <3>7. out'[r] = out[r] \o new
      BY <1>1, <2>1, <3>1, <3>2 DEF Extended
    <3>8. IsSeq(out'[r])
      BY <3>6, <3>7, ConcatIsSeq
    <3>9. Len(out'[r]) >= Len(out[r])
      BY <3>6, <3>7, ConcatLen
    <3>10. QED
      BY <3>8, <3>9
  <2>2. CASE r \notin Sampling
    <3>1. out'[r] = out[r]
      BY <1>1, <2>2
    <3>2. Len(out[r]) \in Nat
      BY LenProperties DEF IsSeq
    <3>3. QED
      BY <3>1, <3>2
  <2>3. QED
    BY <2>1, <2>2
<1>3. IsEntries(todo')
  <2>1. todo' = Batch \/ todo' = <<>>
    BY DEF ExecuteModel
  <2>2. IsEntries(Batch)
    BY ConcatEntries DEF Batch
  <2>3. QED
    BY <2>1, <2>2, EmptyEntries
<1>4. UNCHANGED <<waiting, running, pending, kept, allocating, scheduledNew,
                  scheduledRunning, draft>>
  BY DEF ExecuteModel, bmVars, queueVars
<1>5. DOMAIN out' = Requests
  BY <1>1
<1>6. QED
  BY <1>2, <1>3, <1>4, <1>5

LEMMA ForwardTypes ==
  ASSUME DecodeTypes, ForwardStep \/ StepDone, ~ExecuteModel
  PROVE  DecodeTypes' /\ out' = out
<1> USE DEF DecodeTypes
<1>1. CASE ExecuteRaises
  <2>1. UNCHANGED decodeVars
    BY <1>1 DEF ExecuteRaises, bmVars, requestVars, queueVars, decodeVars
  <2>2. QED
    BY <2>1, SameTypes DEF decodeVars
<1>2. CASE RegisterPrefix
  <2>1. todo # <<>> /\ todo' = Tail(todo)
    BY <1>2 DEF RegisterPrefix
  <2>2. IsEntries(todo')
    BY <2>1, RestEntries
  <2>3. UNCHANGED allocating
    BY <1>2 DEF RegisterPrefix, InsertComputedPrefix, bmVars
  <2>4. UNCHANGED <<waiting, running, pending, kept, scheduledNew, scheduledRunning, draft, out>>
    BY <1>2 DEF RegisterPrefix, requestVars, queueVars, stepVars
  <2>5. QED
    BY <2>2, <2>3, <2>4
<1>3. CASE RegisterDone
  BY <1>3 DEF RegisterDone, bmVars, requestVars, queueVars
<1>4. CASE CorrectDone
  BY <1>4, EmptyEntries DEF CorrectDone, bmVars, requestVars, queueVars
<1>5. CASE StepDone
  BY <1>5, EmptyEntries DEF StepDone, bmVars, requestVars, queueVars
<1>6. QED
  BY <1>1, <1>2, <1>3, <1>4, <1>5 DEF ForwardStep

LEMMA OtherScheduleTypes ==
  ASSUME DecodeTypes,
         ScheduleBegin \/ AllocateRaises \/ WaitingDone \/ FreeFinished,
         UNCHANGED todo
  PROVE  DecodeTypes' /\ out' = out
<1> USE DEF DecodeTypes
<1>1. CASE ScheduleBegin
  <2>1. <<>> \in Seq(Requests)
    OBVIOUS
  <2>2. QED
    BY <1>1, <2>1 DEF ScheduleBegin, bmVars, requestVars, queueVars
<1>2. CASE AllocateRaises
  <2>1. UNCHANGED decodeVars
    BY <1>2 DEF AllocateRaises, AllocateFail, requestVars, queueVars, decodeVars
  <2>2. QED
    BY <2>1, SameTypes DEF decodeVars
<1>3. CASE WaitingDone
  <2>1. UNCHANGED decodeVars
    BY <1>3 DEF WaitingDone, bmVars, requestVars, queueVars, decodeVars
  <2>2. QED
    BY <2>1, SameTypes DEF decodeVars
<1>4. CASE FreeFinished
  <2>1. PICK r \in Requests : Contains(running, r) /\ running' = Without(running, r) /\ Free(r)
    BY <1>4 DEF FreeFinished
  <2>2. running' \in Seq(Requests)
    BY <2>1, WithoutIsSeq
  <2>3. UNCHANGED allocating
    BY <2>1 DEF Free
  <2>4. UNCHANGED <<waiting, pending, kept, scheduledNew, scheduledRunning, draft, out>>
    BY <1>4 DEF FreeFinished, requestVars, stepVars
  <2>5. QED
    BY <2>2, <2>3, <2>4
<1>5. QED
  BY <1>1, <1>2, <1>3, <1>4

(* Nothing of the speculation happens here.                                 *)
LEMMA NoDraftsHere ==
  ASSUME DecodeTypes, DraftStep
  PROVE  StepDone
<1>1. NumSpecTokens = 0
  BY RoleServerConfig
<1>2. ~CorrectSpeculation
  <2> SUFFICES ASSUME CorrectSpeculation PROVE FALSE
    OBVIOUS
  <2>1. PICK i \in DOMAIN todo : draft[todo[i].req] > 0
    BY DEF CorrectSpeculation, NextVerified
  <2>2. todo[i] \in ToSet(todo)
    BY DEF ToSet
  <2>3. todo[i].req \in Requests
    BY <2>2 DEF DecodeTypes, IsEntries
  <2>4. QED
    BY <2>1, <2>3 DEF DecodeTypes
<1>3. ToPropose = {}
  BY <1>1 DEF ToPropose
<1>4. ~ProposeDrafts /\ ~ProposeRaises
  BY <1>3 DEF ProposeDrafts, ProposeRaises, NextToPropose
<1>5. QED
  BY <1>2, <1>4 DEF DraftStep

(* engine.step(), any part of it, never takes a token back.                 *)
LEMMA StepKeepsTokens ==
  ASSUME DecodeTypes, EngineStep
  PROVE  DecodeTypes' /\ \A r \in Requests : Len(out'[r]) >= Len(out[r])
<1>1. \A r \in Requests : Len(out[r]) \in Nat
  BY LenProperties DEF DecodeTypes, IsSeq
<1>2. CASE ScheduleStep
  <2>1. UNCHANGED todo
    BY <1>2 DEF ScheduleStep, Frame
  <2>2. DecodeTypes' /\ out' = out
    BY <1>2, <2>1, RunningLoopTypes, AdmissionTypes, OtherScheduleTypes DEF ScheduleStep
  <2>3. QED
    BY <1>1, <2>2
<1>3. CASE ExecuteModel
  BY <1>3, ExecuteModelTypes
<1>4. CASE (ForwardStep \/ DraftStep) /\ ~ExecuteModel
  <2>1. DecodeTypes' /\ out' = out
    BY <1>4, NoDraftsHere, ForwardTypes
  <2>2. QED
    BY <1>1, <2>1
<1>5. QED
  BY <1>2, <1>3, <1>4 DEF EngineStep, ForwardStep

LEMMA ThreadKeepsTypes ==
  ASSUME DecodeTypes, LogInv, [PDNext]_pdVars
  PROVE  DecodeTypes'
<1>1. CASE UNCHANGED vars
  <2>1. UNCHANGED decodeVars
    BY <1>1 DEF vars, schedVars, bmVars, requestVars, queueVars, stepVars, decodeVars
  <2>2. QED
    BY <2>1, SameTypes
<1>2. CASE StepEngine
  BY <1>2, StepKeepsTokens DEF StepEngine
<1>3. CASE ResumeBegin
  <2> DEFINE r == Head(incoming)
  <2>1. r \in Requests
    BY <1>3, HeadTail DEF ResumeBegin, LogInv, LogTypes
  <2>2. /\ out' = [out EXCEPT ![r] = <<First(r)>>] /\ allocating' = {r}
        /\ UNCHANGED <<waiting, running, pending, kept, scheduledNew, scheduledRunning,
                       todo, draft>>
    BY <1>3 DEF ResumeBegin, AllocateBegin, queueVars, stepVars
  <2> HIDE DEF r
  <2>3. IsSeq(<<First(r)>>)
    BY DEF IsSeq, ToSet
  <2>4. QED
    BY <2>1, <2>2, <2>3 DEF DecodeTypes
<1>4. CASE ResumeFinish
  <2> DEFINE r == Head(incoming)
  <2>1. r \in Requests
    BY <1>4, HeadTail DEF ResumeFinish, LogInv, LogTypes, HandoffInv
  <2>2. /\ running' = Append(running, r) /\ allocating' = {}
        /\ UNCHANGED <<waiting, pending, kept, scheduledNew, scheduledRunning, todo,
                       draft, out>>
    BY <1>4 DEF ResumeFinish, AllocateFinish, stepVars
  <2> HIDE DEF r
  <2>3. running' \in Seq(Requests)
    BY <2>1, <2>2, AppendSet DEF DecodeTypes
  <2>4. QED
    BY <2>2, <2>3 DEF DecodeTypes
<1>5. CASE ResumeRaises
  <2>1. UNCHANGED decodeVars
    BY <1>5 DEF ResumeRaises, AllocateFail, requestVars, queueVars, stepVars, decodeVars
  <2>2. QED
    BY <2>1, SameTypes
<1>6. QED
  BY <1>1, <1>2, <1>3, <1>4, <1>5
  DEF PDNext, DecodeThread, LoopTop, DrainDone, RecordItl, CheckFinished, ResetItl, Stop,
      PrefillBegin, PrefillDone, Post, pdVars

-----------------------------------------------------------------------------
(* The log *)

logVars == <<client, incoming, prevLen, itl, cleared, answer>>

LEMMA LogStutter ==
  ASSUME LogInv, UNCHANGED logVars,
         \A r \in Requests : Len(out[r]) \in Nat /\ Len(out'[r]) \in Nat,
         \A r \in Requests : Len(out'[r]) >= Len(out[r]),
         thread' \in {"allocate", "check"} => thread' = thread /\ out' = out
  PROVE  LogInv'
<1>1. UNCHANGED <<client, incoming, prevLen, itl, cleared, answer>>
  BY DEF logVars
<1>2. LogTypes' /\ Pending' = Pending
  BY <1>1 DEF LogInv, LogTypes, NoDup, Pending
<1>3. \A r \in Requests : Logged(r)'
  BY <1>1, <1>2 DEF LogInv, Logged, Gapless
<1>4. HandoffInv'
  <2>1. ASSUME NEW r \in Pending
        PROVE  /\ client'[r] = "waiting" /\ prevLen'[r] <= Len(out'[r])
               /\ thread' = "check" => prevLen'[r] = Len(out'[r])
    <3>1. r \in Requests /\ prevLen[r] \in Nat /\ prevLen'[r] = prevLen[r]
      BY <1>1, <2>1 DEF LogInv, LogTypes, Pending
    <3>2. /\ client[r] = "waiting" /\ prevLen[r] <= Len(out[r])
          /\ thread = "check" => prevLen[r] = Len(out[r])
      BY <2>1 DEF LogInv, HandoffInv
    <3>3. Len(out[r]) \in Nat /\ Len(out'[r]) \in Nat /\ Len(out'[r]) >= Len(out[r])
      BY <3>1
    <3>4. prevLen[r] <= Len(out'[r])
      BY <3>1, <3>2, <3>3
    <3>5. thread' = "check" => thread = "check" /\ out' = out
      OBVIOUS
    <3>6. QED
      BY <1>1, <3>1, <3>2, <3>4, <3>5
  <2>2. /\ \A r \in ToSet(incoming') : client'[r] = "waiting" /\ prevLen'[r] = 0
        /\ thread' = "allocate" =>
             incoming' # <<>> /\ out'[Head(incoming')] = <<First(Head(incoming'))>>
    BY <1>1 DEF LogInv, HandoffInv
  <2>3. QED
    BY <1>2, <2>1, <2>2 DEF HandoffInv, First
<1>5. QED
  BY <1>2, <1>3, <1>4 DEF LogInv

(* What one client does before it waits.                                    *)
LEMMA ClientMoves ==
  ASSUME LogInv, NEW r \in Requests,
         client[r] \in {"new", "prefilling"},
         NEW c \in {"prefilling", "carrying", "done"},
         client' = [client EXCEPT ![r] = c],
         DOMAIN answer' = Requests,
         \A q \in Requests : q # r => answer'[q] = answer[q],
         c = "done" => Len(answer'[r]) = 1,
         UNCHANGED <<out, thread, incoming, prevLen, itl, cleared>>
  PROVE  LogInv'
<1>1. LogTypes' /\ Pending' = Pending
  BY DEF LogInv, LogTypes, NoDup, Pending
<1>2. r \notin Pending /\ r \notin ToSet(incoming) /\ itl[r] = <<>>
  BY DEF LogInv, HandoffInv, Logged
<1>3. HandoffInv'
  <2>1. ASSUME NEW q \in ToSet(incoming) PROVE client'[q] = "waiting"
    BY <1>2, <2>1 DEF LogInv, LogTypes, HandoffInv, ToSet
  <2>2. ASSUME NEW q \in Pending PROVE client'[q] = "waiting"
    BY <1>2, <2>2 DEF LogInv, LogTypes, HandoffInv, Pending
  <2>3. QED
    BY <1>1, <2>1, <2>2 DEF LogInv, HandoffInv, First
<1>4. ASSUME NEW q \in Requests PROVE Logged(q)'
  <2>1. CASE q = r
    BY <1>1, <1>2, <2>1 DEF LogInv, LogTypes, Logged, Gapless
  <2>2. CASE q # r
    BY <1>1, <2>2 DEF LogInv, LogTypes, Logged, Gapless
  <2>3. QED
    BY <2>1, <2>2
<1>5. QED
  BY <1>1, <1>3, <1>4 DEF LogInv

LEMMA PostLogs ==
  ASSUME LogInv, NEW r \in Requests, Post(r)
  PROVE  LogInv'
<1>1. /\ client[r] = "carrying" /\ client' = [client EXCEPT ![r] = "waiting"]
      /\ incoming' = Append(incoming, r)
      /\ UNCHANGED <<out, thread, prevLen, itl, cleared, answer>>
  BY DEF Post, SubmitHandoff, vars, schedVars, requestVars
<1>2. r \notin Pending /\ r \notin ToSet(incoming) /\ prevLen[r] = 0
  BY <1>1 DEF LogInv, LogTypes, HandoffInv, Pending
<1>3. /\ incoming' \in Seq(Requests) /\ NoDup(incoming')
      /\ ToSet(incoming') = ToSet(incoming) \cup {r}
  BY <1>1, <1>2, AppendSet DEF LogInv, LogTypes
<1>4. LogTypes' /\ Pending' = Pending
  BY <1>1, <1>3 DEF LogInv, LogTypes, Pending
<1>5. thread' = "allocate" =>
        incoming' # <<>> /\ out'[Head(incoming')] = <<First(Head(incoming'))>>
  <2>1. incoming # <<>> => Head(incoming') = Head(incoming) /\ incoming' # <<>>
    BY <1>1 DEF LogInv, LogTypes
  <2>2. QED
    BY <1>1, <2>1 DEF LogInv, HandoffInv
<1>6. ASSUME NEW q \in ToSet(incoming') PROVE client'[q] = "waiting" /\ prevLen'[q] = 0
  <2>1. q \in Requests
    BY <1>3, <1>6 DEF LogInv, LogTypes, ToSet
  <2>2. QED
    BY <1>1, <1>2, <1>3, <2>1 DEF LogInv, LogTypes, HandoffInv
<1>7. ASSUME NEW q \in Pending PROVE client'[q] = "waiting"
  BY <1>1, <1>7 DEF LogInv, LogTypes, HandoffInv, Pending
<1>8. HandoffInv'
  BY <1>1, <1>4, <1>5, <1>6, <1>7 DEF LogInv, HandoffInv, First
<1>9. ASSUME NEW q \in Requests PROVE Logged(q)'
  <2>1. client'[q] = "done" <=> client[q] = "done"
    BY <1>1 DEF LogInv, LogTypes
  <2>2. QED
    BY <1>1, <1>4, <2>1 DEF LogInv, Logged, Gapless
<1>10. QED
  BY <1>4, <1>8, <1>9 DEF LogInv

LEMMA ResumeBeginLogs ==
  ASSUME LogInv, DecodeTypes, ResumeBegin
  PROVE  LogInv'
<1> DEFINE h == Head(incoming)
<1>1. h \in Requests /\ h \in ToSet(incoming) /\ incoming # <<>>
  BY HeadTail DEF ResumeBegin, LogInv, LogTypes
<1>2. /\ out' = [out EXCEPT ![h] = <<First(h)>>] /\ thread' = "allocate"
      /\ UNCHANGED logVars
  BY DEF ResumeBegin, logVars
<1> HIDE DEF h
<1>3. LogTypes' /\ Pending' = Pending /\ \A r \in Requests : Logged(r)'
  BY <1>2 DEF LogInv, LogTypes, NoDup, Pending, Logged, Gapless, logVars
<1>4. \A r \in Pending : r # h /\ out'[r] = out[r]
  BY <1>1, <1>2 DEF LogInv, HandoffInv, Pending, DecodeTypes
<1>5. out'[h] = <<First(h)>>
  BY <1>1, <1>2 DEF DecodeTypes
<1>6. HandoffInv'
  BY <1>1, <1>2, <1>3, <1>4, <1>5 DEF LogInv, HandoffInv, First, logVars, h
<1>7. QED
  BY <1>3, <1>6 DEF LogInv

LEMMA ResumeFinishLogs ==
  ASSUME LogInv, ResumeFinish
  PROVE  LogInv'
<1> DEFINE h == Head(incoming)
<1>1. thread = "allocate" /\ incoming # <<>> /\ Len(out[h]) = 1
  BY DEF ResumeFinish, LogInv, HandoffInv
<1>2. /\ prevLen' = [prevLen EXCEPT ![h] = 1] /\ incoming' = Tail(incoming)
      /\ thread' = "drain"
      /\ UNCHANGED <<out, client, itl, cleared, answer>>
  BY <1>1 DEF ResumeFinish
<1>3. /\ h \in Requests /\ incoming' \in Seq(Requests)
      /\ ToSet(incoming) = {h} \cup ToSet(incoming')
  BY <1>1, <1>2, HeadTail DEF LogInv, LogTypes
<1>4. NoDup(incoming') /\ h \notin ToSet(incoming')
  <2>1. /\ \A i \in DOMAIN incoming' : i + 1 \in DOMAIN incoming /\ incoming'[i] = incoming[i + 1]
        /\ 1 \in DOMAIN incoming /\ h = incoming[1]
        /\ \A i \in DOMAIN incoming' : i \in Nat \ {0}
    BY <1>1, <1>2 DEF LogInv, LogTypes
  <2>2. \A i, j \in DOMAIN incoming : incoming[i] = incoming[j] => i = j
    BY DEF LogInv, LogTypes, NoDup
  <2>3. ASSUME NEW i \in DOMAIN incoming', NEW j \in DOMAIN incoming', incoming'[i] = incoming'[j]
        PROVE i = j
    <3>1. i + 1 = j + 1
      BY <2>1, <2>2, <2>3
    <3>2. QED
      BY <2>1, <3>1
  <2>4. ASSUME NEW i \in DOMAIN incoming', incoming'[i] = h PROVE FALSE
    <3>1. i + 1 = 1
      BY <2>1, <2>2, <2>4
    <3>2. QED
      BY <2>1, <3>1
  <2>5. QED
    BY <2>3, <2>4 DEF NoDup, ToSet
<1> HIDE DEF h
<1>5. client[h] = "waiting" /\ h \notin Pending /\ itl[h] = <<>>
  BY <1>3 DEF LogInv, HandoffInv, Logged, Pending
<1>6. LogTypes' /\ Pending' = Pending \cup {h}
  BY <1>2, <1>3, <1>4 DEF LogInv, LogTypes, Pending
<1>7. \A r \in Requests : r # h => prevLen'[r] = prevLen[r]
  BY <1>2 DEF LogInv, LogTypes
<1>8. prevLen'[h] = 1
  BY <1>2, <1>3 DEF LogInv, LogTypes
<1>9. HandoffInv'
  <2>1. ASSUME NEW r \in ToSet(incoming') PROVE client'[r] = "waiting" /\ prevLen'[r] = 0
    <3>1. r \in Requests /\ r # h /\ r \in ToSet(incoming)
      BY <1>3, <1>4, <2>1 DEF ToSet
    <3>2. QED
      BY <1>2, <1>7, <3>1 DEF LogInv, HandoffInv
  <2>2. ASSUME NEW r \in Pending' PROVE client'[r] = "waiting" /\ prevLen'[r] <= Len(out'[r])
    <3>1. CASE r = h
      <4>1. client'[h] = "waiting" /\ out' = out
        BY <1>2, <1>5
      <4>2. prevLen'[h] <= Len(out[h])
        BY <1>1, <1>8
      <4>3. QED
        BY <3>1, <4>1, <4>2
    <3>2. CASE r # h
      BY <1>2, <1>6, <1>7, <2>2, <3>2 DEF LogInv, HandoffInv, Pending
    <3>3. QED
      BY <3>1, <3>2
  <2>3. QED
    BY <1>2, <2>1, <2>2 DEF HandoffInv
<1>10. ASSUME NEW r \in Requests PROVE Logged(r)'
  <2>1. CASE r = h
    BY <1>2, <1>5, <1>6, <1>8, <2>1 DEF Logged, Gapless
  <2>2. CASE r # h
    BY <1>2, <1>6, <1>7, <2>2 DEF LogInv, Logged, Gapless
  <2>3. QED
    BY <2>1, <2>2
<1>11. QED
  BY <1>6, <1>9, <1>10 DEF LogInv

LEMMA RecordItlLogs ==
  ASSUME LogInv, DecodeTypes, RecordItl
  PROVE  LogInv'
<1>1. /\ itl' = [r \in Requests |->
                   IF r \in Pending THEN itl[r] \o Indices(prevLen[r], Len(out[r]))
                                    ELSE itl[r]]
      /\ prevLen' = [r \in Requests |-> IF r \in Pending THEN Len(out[r]) ELSE 0]
      /\ thread' = "check"
      /\ UNCHANGED <<out, client, incoming, cleared, answer>>
  BY DEF RecordItl, Indices, vars, schedVars, requestVars
<1>2. ASSUME NEW r \in Pending
      PROVE  /\ r \in Requests /\ prevLen[r] \in Nat \ {0} /\ Len(out[r]) \in Nat
             /\ prevLen[r] <= Len(out[r]) /\ client[r] = "waiting" /\ itl[r] \in Seq(Nat)
  <2>1. r \in Requests
    BY <1>2 DEF Pending
  <2>2. prevLen[r] \in Nat \ {0} /\ itl[r] \in Seq(Nat)
    BY <1>2, <2>1 DEF Pending, LogInv, LogTypes
  <2>3. Len(out[r]) \in Nat
    BY <2>1, LenProperties DEF DecodeTypes, IsSeq
  <2>4. prevLen[r] <= Len(out[r]) /\ client[r] = "waiting"
    BY <1>2 DEF LogInv, HandoffInv
  <2>5. QED
    BY <2>1, <2>2, <2>3, <2>4
<1>3. ASSUME NEW r \in Pending
      PROVE  /\ itl'[r] \in Seq(Nat) /\ Gapless(itl'[r])
             /\ Len(itl'[r]) = Len(itl[r]) + (Len(out[r]) - prevLen[r])
             /\ itl'[r] # <<>> => itl'[r][1] >= 1 /\ itl'[r][Len(itl'[r])] = Len(out[r]) - 1
  <2>1. /\ Gapless(itl[r])
        /\ itl[r] # <<>> => itl[r][1] >= 1 /\ itl[r][Len(itl[r])] = prevLen[r] - 1
    BY <1>2, <1>3 DEF LogInv, Logged
  <2>2. itl'[r] = itl[r] \o Indices(prevLen[r], Len(out[r]))
    BY <1>1, <1>2, <1>3
  <2>3. PICK s \in Seq(Nat), m \in Nat \ {0}, n \in Nat :
          s = itl[r] /\ m = prevLen[r] /\ n = Len(out[r]) /\ m <= n
    BY <1>2, <1>3
  <2>4. Gapless(s) /\ (s # <<>> => s[1] >= 1 /\ s[Len(s)] = m - 1)
    BY <2>1, <2>3
  <2>5. PICK t : t = s \o Indices(m, n)
    OBVIOUS
  <2>6. /\ t \in Seq(Nat) /\ Len(t) = Len(s) + (n - m) /\ Gapless(t)
        /\ t # <<>> => t[1] >= 1 /\ t[Len(t)] = n - 1
    BY <2>3, <2>4, <2>5, LogGrows
  <2>7. itl'[r] = t
    BY <2>2, <2>3, <2>5
  <2>8. QED
    BY <2>3, <2>6, <2>7
<1>4. ASSUME NEW r \in Requests
      PROVE  /\ r \in Pending => prevLen'[r] = Len(out[r]) /\ prevLen'[r] > 0
             /\ r \notin Pending => prevLen'[r] = 0 /\ prevLen[r] = 0 /\ itl'[r] = itl[r]
  <2>1. CASE r \in Pending
    <3>1. prevLen'[r] = Len(out[r])
      BY <1>1, <2>1
    <3>2. Len(out[r]) > 0
      BY <1>2, <2>1
    <3>3. QED
      BY <2>1, <3>1, <3>2
  <2>2. CASE r \notin Pending
    BY <1>1, <2>2 DEF Pending, LogInv, LogTypes
  <2>3. QED
    BY <2>1, <2>2
<1>5. Pending' = Pending
  BY <1>4 DEF Pending
<1>6. LogTypes'
  <2>1. \A r \in Requests : prevLen'[r] \in Nat /\ itl'[r] \in Seq(Nat)
    BY <1>2, <1>3, <1>4 DEF LogInv, LogTypes
  <2>2. prevLen' \in [Requests -> Nat] /\ itl' \in [Requests -> Seq(Nat)]
    BY <1>1, <2>1
  <2>3. QED
    BY <1>1, <2>2 DEF LogInv, LogTypes, NoDup
<1>7. HandoffInv'
  <2>1. ASSUME NEW r \in ToSet(incoming') PROVE client'[r] = "waiting" /\ prevLen'[r] = 0
    <3>1. r \in ToSet(incoming) /\ r \in Requests
      BY <1>1, <2>1 DEF LogInv, LogTypes, ToSet
    <3>2. r \notin Pending
      BY <3>1 DEF LogInv, HandoffInv, Pending
    <3>3. QED
      BY <1>1, <1>4, <3>1, <3>2 DEF LogInv, HandoffInv
  <2>2. ASSUME NEW r \in Pending
        PROVE client'[r] = "waiting" /\ prevLen'[r] <= Len(out'[r]) /\ prevLen'[r] = Len(out'[r])
    BY <1>1, <1>2, <1>4, <2>2
  <2>3. QED
    BY <1>1, <1>5, <2>1, <2>2 DEF HandoffInv
<1>8. ASSUME NEW r \in Requests PROVE Logged(r)'
  <2>1. CASE r \in Pending
    <3>1. ~cleared => Len(itl[r]) = prevLen[r] - 1
      BY <2>1 DEF LogInv, Logged
    <3>2. Len(itl[r]) \in Nat
      BY <1>2, <2>1
    <3>3. ~cleared' => Len(itl'[r]) = prevLen'[r] - 1
      <4>1. Len(itl'[r]) = Len(itl[r]) + (Len(out[r]) - prevLen[r])
        BY <1>3, <2>1
      <4>2. prevLen[r] \in Nat /\ Len(out[r]) \in Nat /\ prevLen'[r] = Len(out[r])
        BY <1>2, <1>4, <2>1
      <4>3. cleared' = cleared
        BY <1>1
      <4>4. QED
        BY <3>1, <3>2, <4>1, <4>2, <4>3
    <3>4. itl'[r] # <<>> => itl'[r][1] >= 1 /\ itl'[r][Len(itl'[r])] = prevLen'[r] - 1
      BY <1>3, <1>4, <2>1
    <3>5. client'[r] = "waiting"
      BY <1>1, <1>2, <2>1
    <3>6. Gapless(itl'[r])
      BY <1>3, <2>1
    <3>7. QED
      BY <1>5, <2>1, <3>3, <3>4, <3>5, <3>6 DEF Logged, Gapless
  <2>2. CASE r \notin Pending
    BY <1>1, <1>4, <1>5, <2>2 DEF LogInv, Logged, Gapless
  <2>3. QED
    BY <2>1, <2>2
<1>9. QED
  BY <1>6, <1>7, <1>8 DEF LogInv

LEMMA CheckFinishedLogs ==
  ASSUME LogInv, CheckFinished
  PROVE  LogInv'
<1>1. /\ thread = "check" /\ thread' = "top"
      /\ answer' = [r \in Requests |-> IF r \in ToAnswer THEN out[r] ELSE answer[r]]
      /\ client' = [r \in Requests |-> IF r \in ToAnswer THEN "done" ELSE client[r]]
      /\ prevLen' = [r \in Requests |-> IF r \in ToAnswer THEN 0 ELSE prevLen[r]]
      /\ UNCHANGED <<out, incoming, itl, cleared>>
  BY DEF CheckFinished, vars, schedVars, requestVars
<1>2. ToAnswer \subseteq Pending /\ Pending \subseteq Requests
  BY DEF ToAnswer, Pending
<1>3. LogTypes'
  <2>1. \A r \in Requests :
          /\ prevLen'[r] \in Nat
          /\ client'[r] \in {"new", "prefilling", "carrying", "waiting", "done"}
    BY <1>1 DEF LogInv, LogTypes
  <2>2. prevLen' \in [Requests -> Nat]
    BY <1>1, <2>1
  <2>3. client' \in [Requests -> {"new", "prefilling", "carrying", "waiting", "done"}]
    BY <1>1, <2>1
  <2>4. QED
    BY <1>1, <2>2, <2>3 DEF LogInv, LogTypes, NoDup
<1>4. Pending' = Pending \ ToAnswer
  BY <1>1, <1>2 DEF Pending
<1>5. HandoffInv'
  <2>1. ASSUME NEW r \in ToSet(incoming') PROVE client'[r] = "waiting" /\ prevLen'[r] = 0
    <3>1. r \in ToSet(incoming) /\ r \in Requests
      BY <1>1, <2>1 DEF LogInv, LogTypes, ToSet
    <3>2. r \notin Pending
      BY <3>1 DEF LogInv, HandoffInv, Pending
    <3>3. QED
      BY <1>1, <1>2, <3>1, <3>2 DEF LogInv, HandoffInv
  <2>2. ASSUME NEW r \in Pending' PROVE client'[r] = "waiting" /\ prevLen'[r] <= Len(out'[r])
    <3>1. r \in Pending /\ r \notin ToAnswer /\ r \in Requests
      BY <1>2, <1>4, <2>2
    <3>2. QED
      BY <1>1, <3>1 DEF LogInv, HandoffInv
  <2>3. QED
    BY <1>1, <2>1, <2>2 DEF HandoffInv
<1>6. ASSUME NEW r \in Requests PROVE Logged(r)'
  <2>1. CASE r \in ToAnswer
    <3>1. r \in Pending /\ r \notin Pending'
      BY <1>2, <1>4, <2>1
    <3>2. prevLen[r] = Len(out[r])
      BY <1>1, <3>1 DEF LogInv, HandoffInv
    <3>3. client'[r] = "done" /\ answer'[r] = out[r]
      BY <1>1, <2>1
    <3>4. ~cleared => Len(itl[r]) = prevLen[r] - 1
      BY <3>1 DEF LogInv, Logged
    <3>5. QED
      BY <1>1, <3>1, <3>2, <3>3, <3>4 DEF LogInv, Logged, Gapless
  <2>2. CASE r \notin ToAnswer
    <3>1. client'[r] = client[r] /\ answer'[r] = answer[r] /\ prevLen'[r] = prevLen[r]
      BY <1>1, <2>2
    <3>2. r \in Pending' <=> r \in Pending
      BY <1>4, <2>2
    <3>3. QED
      BY <1>1, <3>1, <3>2 DEF LogInv, Logged, Gapless
  <2>3. QED
    BY <2>1, <2>2
<1>7. QED
  BY <1>3, <1>5, <1>6 DEF LogInv

LEMMA ResetItlLogs ==
  ASSUME LogInv, ResetItl
  PROVE  LogInv'
<1>1. /\ itl' = [r \in Requests |-> <<>>] /\ cleared' = TRUE
      /\ UNCHANGED <<out, thread, client, incoming, prevLen, answer>>
  BY DEF ResetItl, vars, schedVars, requestVars
<1>2. LogTypes' /\ HandoffInv' /\ Pending' = Pending
  BY <1>1 DEF LogInv, LogTypes, HandoffInv, NoDup, Pending, First
<1>3. ASSUME NEW r \in Requests PROVE Logged(r)'
  <2>1. itl'[r] = <<>> /\ cleared'
    BY <1>1
  <2>2. \A i \in 1..(Len(<<>>) - 1) : FALSE
    OBVIOUS
  <2>3. QED
    BY <2>1, <2>2 DEF Logged, Gapless
<1>4. QED
  BY <1>2, <1>3 DEF LogInv

-----------------------------------------------------------------------------
(* The theorem *)

DecodeInv == DecodeTypes /\ LogInv

LEMMA DecodeInvInit == PDInit => DecodeInv
<1> SUFFICES ASSUME PDInit PROVE DecodeInv
  OBVIOUS
<1>1. /\ waiting = <<>> /\ running = <<>> /\ pending = <<>> /\ kept = <<>>
      /\ allocating = {} /\ scheduledNew = <<>> /\ scheduledRunning = <<>> /\ todo = <<>>
      /\ draft = [r \in Requests |-> 0] /\ out = [r \in Requests |-> <<>>]
  BY DEF PDInit, Init, SchedulerInit, BMInit
<1>2. DecodeTypes
  BY <1>1, EmptyEntries, EmptyIsSeq DEF DecodeTypes
<1>3. /\ client = [r \in Requests |-> "new"] /\ incoming = <<>> /\ thread = "top"
      /\ prevLen = [r \in Requests |-> 0] /\ itl = [r \in Requests |-> <<>>]
      /\ answer = [r \in Requests |-> <<>>]
  BY DEF PDInit
<1>4. LogTypes /\ Pending = {} /\ ToSet(incoming) = {}
  BY <1>3, EmptyIsSeq DEF LogTypes, NoDup, Pending
<1>5. HandoffInv
  BY <1>3, <1>4 DEF HandoffInv
<1>6. ASSUME NEW r \in Requests PROVE Logged(r)
  BY <1>3, <1>4 DEF Logged, Gapless
<1>7. QED
  BY <1>2, <1>4, <1>5, <1>6 DEF DecodeInv, LogInv

LEMMA DecodeInvNext ==
  ASSUME DecodeInv, [PDNext]_pdVars
  PROVE  DecodeInv'
<1> USE DEF DecodeInv
<1>1. DecodeTypes'
  BY ThreadKeepsTypes
<1> SUFFICES LogInv'
  BY <1>1
<1>2. \A r \in Requests : Len(out[r]) \in Nat /\ Len(out'[r]) \in Nat
  BY <1>1, LenProperties DEF DecodeTypes, IsSeq
<1>3. ASSUME UNCHANGED out, UNCHANGED logVars,
             thread' \notin {"allocate", "check"} \/ UNCHANGED thread
      PROVE  LogInv'
  <2>1. \A r \in Requests : Len(out'[r]) >= Len(out[r])
    BY <1>2, <1>3
  <2>2. QED
    BY <1>2, <1>3, <2>1, LogStutter
<1>4. CASE LoopTop \/ ResumeRaises \/ DrainDone \/ Stop \/ UNCHANGED pdVars
  <2>1. UNCHANGED out /\ UNCHANGED logVars
    BY <1>4 DEF LoopTop, ResumeRaises, DrainDone, Stop, pdVars, workerVars, vars, schedVars,
                requestVars, logVars
  <2>2. thread' \notin {"allocate", "check"} \/ UNCHANGED thread
    BY <1>4 DEF LoopTop, ResumeRaises, DrainDone, Stop, pdVars, workerVars
  <2>3. QED
    BY <1>3, <2>1, <2>2
<1>5. CASE StepEngine
  <2>1. UNCHANGED logVars /\ thread' \in {"record", "dead", "step"}
    BY <1>5 DEF StepEngine, logVars
  <2>2. \A r \in Requests : Len(out'[r]) >= Len(out[r])
    BY <1>5, StepKeepsTokens DEF StepEngine
  <2>3. QED
    BY <1>2, <2>1, <2>2, LogStutter
<1>6. CASE ResumeBegin \/ ResumeFinish \/ RecordItl \/ CheckFinished \/ ResetItl
  BY <1>6, ResumeBeginLogs, ResumeFinishLogs, RecordItlLogs, CheckFinishedLogs, ResetItlLogs
<1>7. ASSUME NEW r \in Requests, PrefillBegin(r) PROVE LogInv'
  <2>1. /\ client[r] = "new" /\ client' = [client EXCEPT ![r] = "prefilling"]
        /\ UNCHANGED <<out, thread, incoming, prevLen, itl, cleared, answer>>
    BY <1>7 DEF PrefillBegin, vars, schedVars, requestVars, workerVars
  <2>2. DOMAIN answer' = Requests
    BY <2>1 DEF LogInv, LogTypes
  <2>3. QED
    BY <2>1, <2>2, ClientMoves
<1>8. ASSUME NEW r \in Requests, PrefillDone(r) PROVE LogInv'
  <2>1. client[r] = "prefilling" /\ UNCHANGED <<out, thread, incoming, prevLen, itl, cleared>>
    BY <1>8 DEF PrefillDone, vars, schedVars, requestVars
  <2>2. DOMAIN answer = Requests
    BY DEF LogInv, LogTypes
  <2>3. \/ client' = [client EXCEPT ![r] = "carrying"] /\ answer' = answer
        \/ /\ client' = [client EXCEPT ![r] = "done"]
           /\ \E x : answer' = [answer EXCEPT ![r] = <<x>>]
    BY <1>8 DEF PrefillDone
  <2>4. CASE client' = [client EXCEPT ![r] = "carrying"] /\ answer' = answer
    BY <2>1, <2>2, <2>4, ClientMoves
  <2>5. CASE /\ client' = [client EXCEPT ![r] = "done"]
             /\ \E x : answer' = [answer EXCEPT ![r] = <<x>>]
    <3>1. PICK x : answer' = [answer EXCEPT ![r] = <<x>>]
      BY <2>5
    <3>2. /\ DOMAIN answer' = Requests /\ Len(answer'[r]) = 1
          /\ \A q \in Requests : q # r => answer'[q] = answer[q]
      BY <2>2, <3>1
    <3>3. QED
      BY <2>1, <2>5, <3>2, ClientMoves
  <2>6. QED
    BY <2>3, <2>4, <2>5
<1>9. ASSUME NEW r \in Requests, Post(r) PROVE LogInv'
  BY <1>9, PostLogs
<1>10. QED
  BY <1>4, <1>5, <1>6, <1>7, <1>8, <1>9 DEF PDNext, DecodeThread

(* _record_itl() and _check_finished(): whatever clients post, whenever the *)
(* engine preempts or the log is reset, the log of a request has no gap and *)
(* no repetition, leaves the carried token out, and is complete when the    *)
(* client has its answer, for any number of requests, blocks and tokens.    *)
THEOREM LogStaysGapless == PDSpec => []ItlLogIsGapless
<1>1. PDInit => DecodeInv
  BY DecodeInvInit
<1>2. DecodeInv /\ [PDNext]_pdVars => DecodeInv'
  BY DecodeInvNext
<1>3. DecodeInv => ItlLogIsGapless
  <2> SUFFICES ASSUME DecodeInv, NEW r \in Requests
               PROVE  LET n == Len(itl[r]) IN
                      /\ \A i \in 1..(n - 1) : itl[r][i + 1] = itl[r][i] + 1
                      /\ n > 0 => itl[r][1] >= 1
                      /\ ~cleared /\ client[r] = "done" => n = Len(answer[r]) - 1
    BY DEF ItlLogIsGapless
  <2>1. Logged(r) /\ itl[r] \in Seq(Nat)
    BY DEF DecodeInv, LogInv, LogTypes
  <2>2. Len(itl[r]) > 0 => itl[r] # <<>>
    BY <2>1, EmptySeq
  <2>3. QED
    BY <2>1, <2>2 DEF Logged, Gapless
<1>4. QED
  BY <1>1, <1>2, <1>3, PTL DEF PDSpec

-----------------------------------------------------------------------------
(* What is generated after a handoff: the invariant *)

NotResumed(r) == client[r] \in {"new", "prefilling", "carrying"} \/ r \in ToSet(incoming)

(* The output has met a stop condition.                                     *)
Ended(r) == out[r] # <<>> /\ (Last(out[r]).eos \/ Len(out[r]) = MaxTokens[r])

(* What stays true of the engine through resume_decode().                   *)
EngineKept ==
  /\ OrderInv /\ Accounting /\ EngineTypes
  /\ \A r \in Requests : HoldsFor(r)
  /\ BatchInv /\ KVInv

(* The rest of EngineInv fails inside resume_decode() alone, which          *)
(* allocates between two steps.                                             *)
ThreadInv ==
  /\ thread \notin {"step", "dead"} => pc = "idle"
  /\ thread \notin {"allocate", "dead"} => AllocationInv /\ (pc = "raised" => oom)
  /\ thread = "allocate" =>
       /\ allocating = {Head(incoming)} /\ ncached[Head(incoming)] = 0
       /\ need = NumBlocksNeeded(Len(Prompt[Head(incoming)]) + 1)

(* A request is new to the engine until it is resumed, with a first token   *)
(* and one at least to come; the decode node's clients abort nothing.       *)
ResumedInv ==
  /\ \A r \in Requests : NotResumed(r) =>
       status[r] = "NEW" /\ computed[r] = 0 /\ Len(out[r]) <= 1
  /\ \A r \in Requests : client[r] \in {"carrying", "waiting"} => MaxTokens[r] > 1
  /\ \A r \in ToSet(arrivals) : out[r] # <<>> /\ client[r] = "waiting"
  /\ \A r \in Requests : IsFinished(r) => Ended(r)

HandedInv == DecodeInv /\ EngineKept /\ ThreadInv /\ ResumedInv

(* With a budget that fits everyone, so that a recompute is never split.    *)
DenseKept == WholeInv /\ OutputsAreDense /\ AnswersAreDense

TransparentInv == HandedInv /\ DenseKept

-----------------------------------------------------------------------------
(* The thread and the clients between two engine steps *)

(* All of the engine's state but the exception in allocate().               *)
keptVars == <<trie, tables, ncached, allocating, requestVars, queueVars, stepVars, kv, todo,
              resumed, draftVars>>

LEMMA SameEngine ==
  ASSUME EngineKept, Accounting', UNCHANGED keptVars
  PROVE  EngineKept'
<1> USE DEF EngineKept
<1>1. /\ UNCHANGED <<trie, tables, ncached, allocating>> /\ UNCHANGED requestVars
      /\ UNCHANGED queueVars /\ UNCHANGED stepVars
      /\ UNCHANGED <<kv, todo, resumed>> /\ UNCHANGED draftVars
  BY DEF keptVars
<1>2. UNCHANGED orderVars
  BY <1>1 DEF orderVars, requestVars, queueVars, stepVars
<1>3. OrderInv'
  BY <1>2, StutterOrder
<1>4. EngineTypes'
  BY <1>1 DEF EngineTypes, requestVars, stepVars, draftVars
<1>5. Active' = Active /\ (Scheduling' <=> Scheduling)
  BY <1>1 DEF Active, Scheduling, stepVars, queueVars
<1>6. Entered' = Entered /\ Batch' = Batch
  BY <1>1, <1>5, SameEntered DEF stepVars
<1>7. ASSUME NEW q \in Requests PROVE HoldsFor(q)'
  <2>1. Untouched(q)
    BY <1>1, <1>5, <1>6 DEF Untouched, requestVars, queueVars
  <2>2. QED
    BY <2>1, UntouchedHolds
<1>8. BatchInv'
  <2>1. CASE Scheduling
    BY <1>1, <2>1, SameBatch DEF requestVars, stepVars
  <2>2. CASE ~Scheduling
    BY <1>5, <2>2, NotSchedulingBatch
  <2>3. QED
    BY <2>1, <2>2
<1>9. KVInv'
  <2>1. UNCHANGED <<kv, trie, tables, computed, out>>
    BY <1>1 DEF requestVars
  <2>2. KVTypes' /\ CachedKVIsWhatItClaims'
    BY <2>1 DEF KVInv, KVTypes, CachedKVIsWhatItClaims
  <2>3. \A q, n : Filled(q, n)' <=> Filled(q, n)
    BY <2>1 DEF Filled, Slot, Block
  <2>4. \A e : Start(e)' = Start(e)
    BY <2>1 DEF Start
  <2>5. FilledInv'
    BY <1>5, <1>6, <2>1, <2>3, <2>4 DEF KVInv, FilledInv
  <2>6. QED
    BY <2>2, <2>5 DEF KVInv
<1>10. QED
  BY <1>3, <1>4, <1>7, <1>8, <1>9

LEMMA SameVars ==
  ASSUME EngineKept, UNCHANGED vars
  PROVE  EngineKept' /\ UNCHANGED keptVars /\ UNCHANGED <<need, oom>>
<1>1. UNCHANGED bmVars /\ UNCHANGED keptVars /\ UNCHANGED <<need, oom>>
  BY DEF vars, schedVars, bmVars, keptVars
<1>2. Accounting'
  BY <1>1, StutterAccounting DEF bmVars, EngineKept
<1>3. QED
  BY <1>1, <1>2, SameEngine

LEMMA SameResumed ==
  ASSUME ResumedInv, UNCHANGED <<status, computed, out, arrivals>>,
         \A r \in Requests : NotResumed(r)' => NotResumed(r),
         \A r \in Requests : client'[r] \in {"carrying", "waiting"} =>
                               client[r] \in {"carrying", "waiting"} \/ MaxTokens[r] > 1,
         \A r \in ToSet(arrivals) : client'[r] = client[r]
  PROVE  ResumedInv'
<1>1. \A r : Ended(r)' <=> Ended(r)
  BY DEF Ended, Last
<1>2. \A r : IsFinished(r)' <=> IsFinished(r)
  BY DEF IsFinished
<1>3. QED
  BY <1>1, <1>2 DEF ResumedInv

LEMMA SameAllocation ==
  ASSUME UNCHANGED vars PROVE AllocationInv' <=> AllocationInv
<1>1. UNCHANGED <<pc, oom, allocating, need, ncached, out, hitBudget, budget>>
  BY DEF vars, schedVars, bmVars, requestVars, stepVars
<1>2. \A r : GetLen(r)' = GetLen(r)
  BY <1>1 DEF GetLen
<1>3. \A n : NumBlocksNeeded(n)' = NumBlocksNeeded(n)
  BY DEF NumBlocksNeeded
<1>4. QED
  BY <1>1, <1>2, <1>3 DEF AllocationInv

LEMMA QuietThread ==
  ASSUME ThreadInv, UNCHANGED vars,
         \/ thread' = thread
         \/ thread \notin {"step", "dead", "allocate"} /\ thread' \notin {"dead", "allocate"},
         thread' = "allocate" => Head(incoming') = Head(incoming)
  PROVE  ThreadInv'
<1>1. UNCHANGED <<pc, oom, allocating, need, ncached>>
  BY DEF vars, schedVars, bmVars, stepVars
<1>2. AllocationInv' <=> AllocationInv
  BY SameAllocation
<1>3. (thread \notin {"step", "dead"} => pc = "idle")'
  BY <1>1 DEF ThreadInv
<1>4. (thread \notin {"allocate", "dead"} => AllocationInv /\ (pc = "raised" => oom))'
  BY <1>1, <1>2 DEF ThreadInv
<1>5. ASSUME thread' = "allocate"
      PROVE  /\ allocating' = {Head(incoming')} /\ ncached'[Head(incoming')] = 0
             /\ need' = NumBlocksNeeded(Len(Prompt[Head(incoming')]) + 1)
  BY <1>1, <1>5 DEF ThreadInv
<1>6. QED
  BY <1>3, <1>4, <1>5 DEF ThreadInv, NumBlocksNeeded

(* What the client of r may have got.                                       *)
AnswerIsDense(r) ==
  client[r] = "done" =>
    /\ \A i \in DOMAIN answer[r] : answer[r][i].by = Len(Prompt[r]) + i - 2
    /\ answer[r] # <<>> /\ (Last(answer[r]).eos \/ Len(answer[r]) = MaxTokens[r])

LEMMA EachAnswer == AnswersAreDense <=> \A r \in Requests : AnswerIsDense(r)
  BY DEF AnswersAreDense, AnswerIsDense

LEMMA SameAnswer ==
  ASSUME NEW r, AnswerIsDense(r), answer'[r] = answer[r],
         client'[r] = "done" => client[r] = "done"
  PROVE  AnswerIsDense(r)'
  BY DEF AnswerIsDense, Last

LEMMA LoopKeeps ==
  ASSUME HandedInv,
         LoopTop \/ DrainDone \/ RecordItl \/ ResetItl \/ Stop \/ UNCHANGED pdVars
  PROVE  EngineKept' /\ ThreadInv' /\ ResumedInv'
<1> USE DEF HandedInv
<1>1. UNCHANGED vars /\ UNCHANGED <<client, incoming, answer>>
  BY DEF LoopTop, DrainDone, RecordItl, ResetItl, Stop, pdVars, workerVars
<1>2. \/ thread' = thread
      \/ thread \notin {"step", "dead", "allocate"} /\ thread' \notin {"dead", "allocate"}
  BY DEF LoopTop, DrainDone, RecordItl, ResetItl, Stop, pdVars, workerVars
<1>3. EngineKept' /\ UNCHANGED <<status, computed, out, arrivals>>
  BY <1>1, SameVars DEF keptVars, requestVars, queueVars
<1>4. ThreadInv'
  BY <1>1, <1>2, QuietThread
<1>5. ResumedInv'
  BY <1>1, <1>3, SameResumed DEF NotResumed
<1>6. QED
  BY <1>3, <1>4, <1>5

(* The client of r moves on, before its request is resumed.                 *)
LEMMA ClientKeeps ==
  ASSUME HandedInv, NEW r \in Requests, PrefillBegin(r) \/ PrefillDone(r) \/ Post(r)
  PROVE  EngineKept' /\ ThreadInv' /\ ResumedInv'
<1> USE DEF HandedInv
<1>1. /\ UNCHANGED vars /\ UNCHANGED thread
      /\ client[r] \in {"new", "prefilling", "carrying"}
  BY DEF PrefillBegin, PrefillDone, Post, workerVars
<1>2. EngineKept' /\ UNCHANGED <<status, computed, out, arrivals>>
  BY <1>1, SameVars DEF keptVars, requestVars, queueVars
<1>3. /\ client \in [Requests -> {"new", "prefilling", "carrying", "waiting", "done"}]
      /\ incoming \in Seq(Requests) /\ DOMAIN answer = Requests
      /\ thread = "allocate" => incoming # <<>>
  BY DEF DecodeInv, LogInv, LogTypes, HandoffInv
<1>4. MaxTokens[r] \in Nat \ {0}
  BY SchedulerAssumption
<1>5. ToSet(incoming') \subseteq ToSet(incoming) \cup {r}
  <2>1. incoming' = incoming \/ incoming' = Append(incoming, r)
    BY DEF PrefillBegin, PrefillDone, Post, SubmitHandoff, workerVars
  <2>2. ToSet(Append(incoming, r)) = ToSet(incoming) \cup {r}
    BY <1>3, AppendSet
  <2>3. QED
    BY <2>1, <2>2, Zenon
<1>6. thread' = "allocate" => Head(incoming') = Head(incoming)
  BY <1>1, <1>3 DEF PrefillBegin, PrefillDone, Post, SubmitHandoff, workerVars
<1>7. ThreadInv'
  BY <1>1, <1>6, QuietThread
<1>8. /\ \A q \in Requests : q # r => client'[q] = client[q] /\ answer'[q] = answer[q]
      /\ client'[r] \in {"carrying", "waiting"} => client[r] = "carrying" \/ MaxTokens[r] > 1
  BY <1>3, <1>4 DEF PrefillBegin, PrefillDone, Post, workerVars, EndsInPrefill
<1>9. ResumedInv'
  <2>1. ASSUME NEW q \in Requests, NotResumed(q)' PROVE NotResumed(q)
    BY <1>1, <1>5, <1>8, <2>1 DEF NotResumed
  <2>2. ASSUME NEW q \in Requests, client'[q] \in {"carrying", "waiting"}
        PROVE  client[q] \in {"carrying", "waiting"} \/ MaxTokens[q] > 1
    BY <1>8, <2>2
  <2>3. ASSUME NEW q \in ToSet(arrivals) PROVE client'[q] = client[q]
    <3>1. q # r
      BY <1>1, <2>3 DEF ResumedInv
    <3>2. q \in Requests
      BY <2>3, ToSetType DEF EngineKept, OrderInv, QueueShapes
    <3>3. QED
      BY <1>8, <3>1, <3>2
  <2>4. QED
    BY <1>2, <2>1, <2>2, <2>3, SameResumed
<1>10. QED
  BY <1>2, <1>7, <1>9

LEMMA CheckFinishedKeeps ==
  ASSUME HandedInv, CheckFinished
  PROVE  EngineKept' /\ ThreadInv' /\ ResumedInv'
<1> USE DEF HandedInv
<1>1. /\ UNCHANGED vars /\ UNCHANGED incoming /\ thread = "check" /\ thread' = "top"
      /\ answer' = [r \in Requests |-> IF r \in ToAnswer THEN out[r] ELSE answer[r]]
      /\ client' = [r \in Requests |-> IF r \in ToAnswer THEN "done" ELSE client[r]]
  BY DEF CheckFinished
<1>2. EngineKept' /\ UNCHANGED <<status, computed, out, arrivals>>
  BY <1>1, SameVars DEF keptVars, requestVars, queueVars
<1>3. ThreadInv'
  BY <1>1, QuietThread
<1>4. ResumedInv'
  <2>1. \A r \in Requests : client'[r] = client[r] \/ client'[r] = "done"
    BY <1>1
  <2>2. ASSUME NEW q \in ToSet(arrivals) PROVE client'[q] = client[q]
    <3>1. q \in Requests
      BY <2>2, ToSetType DEF EngineKept, OrderInv, QueueShapes
    <3>2. status[q] \in Live
      BY <1>1, <2>2 DEF ThreadInv, EngineKept, OrderInv, QueuesAreLive
    <3>3. QED
      BY <1>1, <3>1, <3>2 DEF ToAnswer, IsFinished, FINISHED, Live
  <2>3. QED
    BY <1>1, <1>2, <2>1, <2>2, SameResumed DEF NotResumed
<1>5. QED
  BY <1>2, <1>3, <1>4

LEMMA ResumeRaisesKeeps ==
  ASSUME HandedInv, ResumeRaises
  PROVE  EngineKept' /\ ThreadInv' /\ ResumedInv'
<1> USE DEF HandedInv
<1>1. /\ AllocateFail /\ thread' = "dead" /\ UNCHANGED <<client, incoming, answer>>
      /\ UNCHANGED keptVars
  BY DEF ResumeRaises, AllocateFail, keptVars
<1>2. Accounting'
  BY <1>1, AllocateFailAccounting DEF EngineKept
<1>3. EngineKept' /\ UNCHANGED <<status, computed, out, arrivals>>
  BY <1>1, <1>2, SameEngine DEF keptVars, requestVars, queueVars
<1>4. ThreadInv'
  BY <1>1 DEF ThreadInv
<1>5. ResumedInv'
  BY <1>1, <1>3, SameResumed DEF NotResumed
<1>6. QED
  BY <1>3, <1>4, <1>5

(* Whom the engine does not know yet holds nothing of it.                   *)
LEMMA NewHoldsNothing ==
  ASSUME EngineKept, pc = "idle", NEW r \in Requests, status[r] = "NEW"
  PROVE  /\ r \notin ToSet(arrivals) /\ r \notin Active /\ r \notin ToSet(waiting)
         /\ tables[r] = <<>>
<1>1. ToSet(arrivals) = Active \cup ToSet(waiting)
  BY Members DEF EngineKept
<1>2. r \notin ToSet(arrivals)
  BY DEF EngineKept, OrderInv, QueuesAreLive, Live
<1>3. QED
  BY <1>1, <1>2 DEF EngineKept, HoldsFor

(* Between two steps nothing is scheduled.                                  *)
LEMMA IdleKept ==
  ASSUME pc' = "idle", OrderInv', Accounting', EngineTypes',
         \A q \in Requests : HoldsFor(q)',
         KVTypes', CachedKVIsWhatItClaims',
         \A q \in ToSet(running') : Filled(q, computed[q])'
  PROVE  EngineKept'
<1>1. ~Scheduling' /\ Active' = ToSet(running')
  BY DEF Scheduling, Active
<1>2. BatchInv' /\ Entered' = {}
  BY <1>1, NotSchedulingBatch
<1>3. KVInv'
  BY <1>1, <1>2 DEF KVInv, FilledInv
<1>4. QED
  BY <1>2, <1>3 DEF EngineKept

(* And whoever runs has its KV, of all but the last token when it is whole. *)
LEMMA IdleRunning ==
  ASSUME EngineKept, pc = "idle", NEW q \in ToSet(running)
  PROVE  /\ q \in Requests /\ q \in Active /\ q \in ToSet(arrivals)
         /\ Filled(q, computed[q]) /\ computed[q] \in Nat /\ computed[q] <= Capacity(q)
         /\ computed[q] < GetLen(q)
         /\ WholeInv /\ out[q] # <<>> => computed[q] + 1 >= GetLen(q)
<1>1. Active = ToSet(running) /\ Entered = {}
  BY DEF Active, Entered, Scheduling
<1>2. q \in Requests /\ q \in ToSet(arrivals)
  BY <1>1, Members DEF EngineKept
<1>3. HoldsFor(q) /\ TableCovers(q)
  BY <1>1, <1>2 DEF EngineKept, HoldsFor
<1>4. QED
  BY <1>1, <1>2, <1>3 DEF EngineKept, KVInv, FilledInv, WholeInv, CaughtFor, TableCovers,
                          EngineTypes

LEMMA FirstToken ==
  ASSUME NEW r \in Requests
  PROVE  /\ <<First(r)>> \in Seq(Token) /\ Len(<<First(r)>>) = 1
         /\ <<First(r)>> # <<>>
         /\ First(r).by = Len(Prompt[r]) + 1 - 2
<1>1. Len(Prompt[r]) \in Nat \ {0}
  BY PromptAssumption, EmptySeq
<1>2. PICK t \in Token : t = First(r) /\ t.by = Len(Prompt[r]) - 1
  <2>1. Len(Prompt[r]) - 1 \in Nat
    BY <1>1
  <2>2. PICK k \in Nat : k = Len(Prompt[r]) - 1
    BY <2>1
  <2>3. First(r) = [by |-> k, eos |-> FALSE]
    BY <2>2 DEF First
  <2>4. First(r).by = k
    BY <2>3
  <2>5. First(r) \in Token
    <3>1. [by |-> k, eos |-> FALSE] \in [by : Nat, eos : BOOLEAN]
      OBVIOUS
    <3>2. QED
      BY <2>3, <3>1 DEF Token
  <2>6. QED
    BY <2>2, <2>4, <2>5
<1>3. <<t>> \in Seq(Token) /\ Len(<<t>>) = 1 /\ <<t>> # <<>>
  BY <1>2
<1>4. QED
  BY <1>1, <1>2, <1>3

LEMMA ResumeBeginFacts ==
  ASSUME HandedInv, ResumeBegin, NEW h, h = Head(incoming)
  PROVE  /\ h \in Requests /\ pc = "idle" /\ pc' = "idle" /\ thread' = "allocate"
         /\ status[h] = "NEW" /\ computed[h] = 0 /\ MaxTokens[h] > 1
         /\ out' = [out EXCEPT ![h] = <<First(h)>>]
         /\ AllocateBegin(h, Len(Prompt[h]) + 1) /\ AllocationInv
         /\ UNCHANGED <<status, computed, draft, waiting, running, arrivals, pending, kept,
                        budget, hitBudget, scheduledNew, scheduledRunning, preempted, kv,
                        todo, resumed, shadows, proposed, tables, client, incoming, answer>>
<1>1. h \in Requests /\ h \in ToSet(incoming)
  BY HeadTail DEF ResumeBegin, HandedInv, DecodeInv, LogInv, LogTypes
<1>2. NotResumed(h) /\ client[h] = "waiting"
  BY <1>1 DEF NotResumed, HandedInv, DecodeInv, LogInv, HandoffInv
<1>3. status[h] = "NEW" /\ computed[h] = 0 /\ MaxTokens[h] > 1
  BY <1>1, <1>2 DEF HandedInv, ResumedInv
<1>4. pc = "idle" /\ AllocationInv
  BY DEF ResumeBegin, HandedInv, ThreadInv
<1>5. AllocateBegin(h, Len(Prompt[h]) + 1) /\ UNCHANGED tables
  BY DEF ResumeBegin, AllocateBegin
<1>6. QED
  BY <1>1, <1>3, <1>4, <1>5 DEF ResumeBegin, queueVars, stepVars, draftVars

LEMMA ResumeBeginKept ==
  ASSUME HandedInv, ResumeBegin
  PROVE  EngineKept'
<1> DEFINE h == Head(incoming)
<1>1. /\ h \in Requests /\ pc = "idle" /\ pc' = "idle"
      /\ status[h] = "NEW" /\ computed[h] = 0 /\ MaxTokens[h] > 1
      /\ out' = [out EXCEPT ![h] = <<First(h)>>]
      /\ AllocateBegin(h, Len(Prompt[h]) + 1)
      /\ UNCHANGED <<status, computed, draft, waiting, running, arrivals, pending, kept,
                     budget, hitBudget, scheduledNew, scheduledRunning, preempted, kv,
                     todo, resumed, shadows, proposed, tables>>
  BY ResumeBeginFacts
<1> HIDE DEF h
<1>2. EngineKept
  BY DEF HandedInv
<1> USE <1>2 DEF EngineKept
<1>3. /\ h \notin ToSet(arrivals) /\ h \notin Active /\ h \notin ToSet(waiting)
      /\ tables[h] = <<>>
  BY <1>1, NewHoldsNothing
<1>4. /\ <<First(h)>> \in Seq(Token) /\ Len(<<First(h)>>) = 1
      /\ First(h).by = Len(Prompt[h]) + 1 - 2
  BY <1>1, FirstToken
<1>5. Active' = Active /\ Active = ToSet(running) /\ Entered' = {} /\ Entered = {}
  BY <1>1 DEF Active, Entered, Scheduling
<1>6. OrderInv'
  <2>1. QueueShapes'
    BY <1>1 DEF OrderInv, QueueShapes, IsSeq, ToSet
  <2>2. QueuesInOrder'
    BY <1>1 DEF OrderInv, QueuesInOrder, NoDup
  <2>3. QueuesAreLive'
    BY <1>1 DEF OrderInv, QueuesAreLive, ToSet
  <2>4. EntriesRun'
    BY <1>1 DEF OrderInv, EntriesRun, ToSet
  <2>5. QED
    BY <2>1, <2>2, <2>3, <2>4 DEF OrderInv
<1>7. Accounting'
  <2>1. PICK n \in Nat : n = Len(Prompt[h])
    BY <1>1, PromptAssumption
  <2>2. AllocateBegin(h, n + 1) /\ n + 1 \in Nat /\ n <= n + 1
    BY <1>1, <2>1
  <2>3. QED
    BY <1>1, <2>1, <2>2, AllocateBeginAccounting
<1>8. EngineTypes'
  BY <1>1, <1>4 DEF EngineTypes
<1>9. \A q \in Requests : q # h => out'[q] = out[q]
  BY <1>1 DEF EngineTypes
<1>10. out'[h] = <<First(h)>>
  BY <1>1 DEF EngineTypes
<1>11. /\ allocating' = {h} /\ allocating = {}
       /\ \A q \in Requests : q # h => ncached'[q] = ncached[q]
  BY <1>1 DEF AllocateBegin, Idle, Accounting, BMTypeOK
<1>12. ASSUME NEW q \in Requests PROVE HoldsFor(q)'
  <2>1. CASE q = h
    <3>1. Len(out'[h]) = 1 /\ MaxTokens[h] \in Nat
      BY <1>1, <1>4, <1>10, SchedulerAssumption
    <3>2. tables'[h] = <<>> /\ computed'[h] = 0 /\ h \in allocating'
      BY <1>1, <1>3, <1>11
    <3>3. h \notin Active' /\ h \notin ToSet(waiting') /\ h \notin ToSet(arrivals')
      BY <1>1, <1>3, <1>5
    <3>4. Len(out'[h]) <= MaxTokens[h]
      <4>1. MaxTokens[h] > 1
        BY <1>1
      <4>2. QED
        BY <3>1, <4>1
    <3>5. QED
      BY <2>1, <3>2, <3>3, <3>4 DEF HoldsFor
  <2>2. CASE q # h
    <3>1. Untouched(q)
      BY <1>1, <1>5, <1>9, <1>11, <2>2 DEF Untouched
    <3>2. QED
      BY <3>1, UntouchedHolds
  <2>3. QED
    BY <2>1, <2>2
<1>13. KVTypes' /\ CachedKVIsWhatItClaims'
  <2>1. PICK r, k : Acquire(r, k)
    BY <1>1 DEF AllocateBegin
  <2>2. \A m \in DOMAIN trie' : m \in DOMAIN trie /\ trie'[m].phys = trie[m].phys
    BY <2>1 DEF Acquire, Accounting, BMTypeOK
  <2>3. \A m \in DOMAIN trie' : kv'[trie'[m].phys] = kv[trie'[m].phys]
    BY <1>1
  <2>4. CachedKVIsWhatItClaims'
    BY <2>2, <2>3, CachedKept DEF KVInv
  <2>5. QED
    BY <1>1, <2>4 DEF KVInv, KVTypes
<1>14. ASSUME NEW q \in ToSet(running') PROVE Filled(q, computed[q])'
  <2>1. q \in ToSet(running)
    BY <1>1, <1>14
  <2>2. q \in Requests /\ q \in ToSet(arrivals) /\ Filled(q, computed[q])
    BY <1>1, <2>1, IdleRunning
  <2>3. out'[q] = out[q]
    BY <1>3, <1>9, <2>2
  <2>4. QED
    BY <1>1, <2>2, <2>3 DEF Filled, Slot, Block
<1>15. QED
  BY <1>1, <1>6, <1>7, <1>8, <1>12, <1>13, <1>14, IdleKept

LEMMA ResumeBeginKeeps ==
  ASSUME HandedInv, ResumeBegin
  PROVE  EngineKept' /\ ThreadInv' /\ ResumedInv'
<1> DEFINE h == Head(incoming)
<1>1. /\ h \in Requests /\ pc = "idle" /\ pc' = "idle" /\ thread' = "allocate"
      /\ status[h] = "NEW"
      /\ out' = [out EXCEPT ![h] = <<First(h)>>]
      /\ AllocateBegin(h, Len(Prompt[h]) + 1)
      /\ UNCHANGED <<status, computed, arrivals, client, incoming, answer>>
  BY ResumeBeginFacts
<1>2. h' = h
  BY <1>1
<1> HIDE DEF h
<1>3. EngineKept'
  BY ResumeBeginKept
<1>4. h \notin ToSet(arrivals) /\ DOMAIN out = Requests
  BY <1>1, NewHoldsNothing DEF HandedInv, EngineKept, EngineTypes
<1>5. ThreadInv'
  <2>1. MatchPrefix(h) = 0
    BY RoleServerConfig DEF MatchPrefix
  <2>2. ncached'[h] = 0 /\ allocating' = {h}
    BY <1>1, <2>1 DEF AllocateBegin, HandedInv, EngineKept, Accounting, BMTypeOK
  <2>3. need' = NumBlocksNeeded(Len(Prompt[h]) + 1)
    <3>1. Len(Prompt[h]) + 1 \in Nat
      BY <1>1, PromptAssumption
    <3>2. PICK k \in Nat : k = NumBlocksNeeded(Len(Prompt[h]) + 1)
      BY <3>1, NumBlocksNeededType
    <3>3. need' = k - 0
      BY <1>1, <2>1, <3>2 DEF AllocateBegin
    <3>4. QED
      BY <3>2, <3>3
  <2>4. QED
    BY <1>1, <1>2, <2>2, <2>3 DEF ThreadInv, NumBlocksNeeded, h
<1>6. ResumedInv'
  <2>1. \A q \in Requests : q # h => out'[q] = out[q]
    BY <1>1, <1>4
  <2>2. \A q \in Requests : IsFinished(q)' => IsFinished(q) /\ q # h
    BY <1>1 DEF IsFinished, FINISHED
  <2>3. \A q \in Requests : IsFinished(q)' => Ended(q)'
    BY <2>1, <2>2 DEF HandedInv, ResumedInv, Ended, Last
  <2>4. \A q \in ToSet(arrivals') : out'[q] # <<>> /\ client'[q] = "waiting"
    <3>1. ToSet(arrivals) \subseteq Requests
      BY <1>1, ToSetType DEF HandedInv, EngineKept, OrderInv, QueueShapes
    <3>2. QED
      BY <1>1, <1>4, <2>1, <3>1 DEF HandedInv, ResumedInv
  <2>5. \A q \in Requests : NotResumed(q)' => Len(out'[q]) <= 1
    <3>1. out'[h] = <<First(h)>> /\ Len(<<First(h)>>) = 1
      BY <1>1, <1>4, FirstToken
    <3>2. Len(out'[h]) <= 1
      BY <3>1
    <3>3. QED
      BY <1>1, <2>1, <3>2 DEF HandedInv, ResumedInv, NotResumed
  <2>6. QED
    BY <1>1, <2>3, <2>4, <2>5 DEF HandedInv, ResumedInv, NotResumed
<1>7. QED
  BY <1>3, <1>5, <1>6

(* Whom resume_decode() serves, and what it finds.                          *)
LEMMA ResumeFinishFacts ==
  ASSUME HandedInv, ResumeFinish, NEW h, h = Head(incoming)
  PROVE  /\ h \in Requests /\ h \in ToSet(incoming) /\ pc = "idle" /\ pc' = "idle"
         /\ thread' = "drain" /\ incoming' = Tail(incoming) /\ client[h] = "waiting"
         /\ status[h] = "NEW" /\ computed[h] = 0 /\ MaxTokens[h] > 1
         /\ out[h] = <<First(h)>>
         /\ AllocateFinish(h) /\ allocating = {h} /\ ncached[h] = 0
         /\ need = NumBlocksNeeded(Len(Prompt[h]) + 1)
         /\ computed' = [computed EXCEPT ![h] = Len(Prompt[h])]
         /\ status' = [status EXCEPT ![h] = "RUNNING"]
         /\ running' = Append(running, h) /\ arrivals' = running' \o waiting
         /\ UNCHANGED <<out, draft, waiting, pending, kept, budget, hitBudget, scheduledNew,
                        scheduledRunning, preempted, todo, resumed, shadows, proposed,
                        client, answer>>
<1>1. thread = "allocate" /\ incoming # <<>> /\ out[h] = <<First(h)>>
  BY DEF ResumeFinish, HandedInv, DecodeInv, LogInv, HandoffInv
<1>2. h \in Requests /\ h \in ToSet(incoming)
  BY <1>1, HeadTail DEF HandedInv, DecodeInv, LogInv, LogTypes
<1>3. NotResumed(h) /\ client[h] = "waiting"
  BY <1>2 DEF NotResumed, HandedInv, DecodeInv, LogInv, HandoffInv
<1>4. status[h] = "NEW" /\ computed[h] = 0 /\ MaxTokens[h] > 1
  BY <1>2, <1>3 DEF HandedInv, ResumedInv
<1>5. /\ pc = "idle" /\ allocating = {h} /\ ncached[h] = 0
      /\ need = NumBlocksNeeded(Len(Prompt[h]) + 1)
  BY <1>1 DEF HandedInv, ThreadInv
<1>6. QED
  BY <1>1, <1>2, <1>3, <1>4, <1>5 DEF ResumeFinish, stepVars, draftVars, ImportedComputed

(* The new table is of free blocks only, and covers the prompt and the      *)
(* first token.                                                             *)
LEMMA ResumeFinishTable ==
  ASSUME Accounting, NEW h \in Requests, AllocateFinish(h), allocating = {h},
         NEW n \in Nat, n = Len(Prompt[h]), need = NumBlocksNeeded(n + 1), ncached[h] = 0
  PROVE  /\ Accounting' /\ tables'[h] # <<>>
         /\ Capacity(h)' \in Nat /\ n + 1 <= Capacity(h)'
         /\ \A q \in Requests : q # h => tables'[q] = tables[q]
         /\ allocating' = {} /\ oom' = FALSE /\ UNCHANGED <<ncached, trie>>
         /\ TableBlocks(h)' \cap TrieBlocks' = {}
         /\ \A q \in Requests : q # h => TableBlocks(h)' \cap TableBlocks(q)' = {}
<1>1. Accounting'
  BY AllocateFinishAccounting
<1>2. n + 1 \in Nat \ {0}
  OBVIOUS
<1>3. need = NumBlocksNeeded(n + 1) - ncached[h]
  <2>1. PICK k \in Nat : k = NumBlocksNeeded(n + 1)
    BY <1>2, NumBlocksNeededType
  <2>2. k = k - 0
    BY <2>1
  <2>3. QED
    BY <2>1, <2>2
<1>4. /\ tables'[h] # <<>> /\ Capacity(h)' \in Nat /\ n + 1 <= Capacity(h)'
      /\ \A q \in Requests \ {h} : tables'[q] = tables[q]
      /\ ~oom /\ allocating' = {} /\ UNCHANGED <<ncached, oom>>
  BY <1>2, <1>3, AllocateFinishEffect
<1>5. trie' = trie /\ oom \in BOOLEAN
  BY DEF AllocateFinish, Accounting, BMTypeOK
<1>6. ASSUME NEW b \in TableBlocks(h)', b \in TrieBlocks' PROVE FALSE
  <2>1. PICK i \in DOMAIN tables'[h] : b = tables'[h][i]
    BY <1>6 DEF TableBlocks
  <2>2. PICK m \in DOMAIN trie' : b = trie'[m].phys
    BY <1>6 DEF TrieBlocks
  <2>3. i <= 0
    BY <1>1, <1>4, <2>1, <2>2 DEF Accounting, SharedBlocksInPlace
  <2>4. i \in 1..Len(tables'[h])
    BY <1>1, <2>1, LenProperties DEF Accounting, BMTypeOK
  <2>5. QED
    BY <2>3, <2>4
<1>7. ASSUME NEW q \in Requests, q # h PROVE TableBlocks(h)' \cap TableBlocks(q)' = {}
  <2>1. TableBlocks(h)' \cap TableBlocks(q)' \subseteq TrieBlocks'
    BY <1>1, <1>7 DEF Accounting, NoBlockClaimedTwice
  <2>2. QED
    BY <1>6, <2>1
<1>8. QED
  BY <1>1, <1>4, <1>5, <1>6, <1>7

(* In a table without repetition no two positions share a slot.             *)
InOwnSlots(n, t, b) ==
  \A p \in 0..(n - 1) :
    /\ p \in Nat /\ p \div b + 1 \in DOMAIN t /\ p % b \in 0..(b - 1)
    /\ \A x \in 0..(n - 1) :
         t[p \div b + 1] = t[x \div b + 1] /\ p % b = x % b => p = x

LEMMA PositionsDiffer ==
  ASSUME NEW b \in Nat \ {0}, NEW t, NEW k \in Nat, DOMAIN t = 1..k, NoDup(t),
         NEW n \in Nat, n <= k * b
  PROVE  InOwnSlots(n, t, b)
<1> DEFINE At(x) == /\ x \in Nat /\ x \div b \in Nat /\ x \div b + 1 \in DOMAIN t
                    /\ x % b \in 0..(b - 1) /\ x = (x \div b) * b + (x % b)
<1>1. ASSUME NEW x \in 0..(n - 1) PROVE At(x)
  <2>1. k * b \in Nat
    BY MulType
  <2>2. x \in Nat /\ x < k * b
    BY <2>1
  <2>3. x \div b \in Nat /\ x % b \in 0..(b - 1) /\ x = (x \div b) * b + (x % b)
    BY <2>2, Position
  <2>4. x \div b < k
    BY <2>2, PositionBelow
  <2>5. x \div b + 1 \in 1..k
    BY <2>3, <2>4
  <2>6. QED
    BY <2>2, <2>3, <2>5
<1>2. ASSUME NEW p \in 0..(n - 1), NEW x \in 0..(n - 1),
             t[p \div b + 1] = t[x \div b + 1], p % b = x % b
      PROVE  p = x
  <2>1. At(p) /\ At(x)
    BY <1>1
  <2>2. p \div b + 1 = x \div b + 1
    BY <1>2, <2>1 DEF NoDup
  <2>3. p \div b = x \div b
    BY <2>1, <2>2
  <2>4. QED
    BY <1>2, <2>1, <2>3
<1>3. QED
  BY <1>1, <1>2 DEF InOwnSlots

(* The imported KV is in the new table, and nowhere else.                   *)
LEMMA ImportedRows ==
  ASSUME KVTypes, Accounting', ResumeFinish, NEW h \in Requests, h = Head(incoming),
         NEW n \in Nat, n = Len(Prompt[h]), n + 1 <= Capacity(h)', Capacity(h)' \in Nat
  PROVE  /\ KVTypes'
         /\ \A b \in Blocks : b \notin TableBlocks(h)' => kv'[b] = kv[b]
         /\ \A p \in 0..(n - 1) : Slot(h, p)' = Content(h, p, <<>>)
<1> DEFINE t == tables'[h]
           Here(p, b, o) == b = t[(p \div BlockSize) + 1] /\ o = p % BlockSize
<1>1. /\ BlockSize \in Nat \ {0} /\ t \in Seq(Blocks) /\ Len(t) \in Nat
      /\ DOMAIN t = 1..Len(t) /\ NoDup(t) /\ Capacity(h)' = Len(t) * BlockSize
  BY PromptAssumption, LenProperties DEF Accounting, BMTypeOK, NoBlockClaimedTwice, NoDup,
                                         Capacity
<1>2. \A b \in Blocks, o \in Offsets :
        kv'[b][o] = IF \E p \in 0..(n - 1) : Here(p, b, o)
                    THEN LET p == CHOOSE p \in 0..(n - 1) : Here(p, b, o)
                         IN Content(h, p, <<>>)
                    ELSE kv[b][o]
  BY DEF ResumeFinish, Exported
<1>3. kv' = [b \in Blocks |-> [o \in Offsets |-> kv'[b][o]]]
  BY DEF ResumeFinish
<1> HIDE DEF t
<1>4. ASSUME NEW p \in 0..(n - 1)
      PROVE  /\ p \in Nat /\ p \div BlockSize + 1 \in DOMAIN t /\ p % BlockSize \in Offsets
             /\ t[p \div BlockSize + 1] \in Blocks
             /\ \A x \in 0..(n - 1) :
                  t[p \div BlockSize + 1] = t[x \div BlockSize + 1]
                    /\ p % BlockSize = x % BlockSize => p = x
  <2>1. n <= Len(t) * BlockSize
    BY <1>1
  <2>2. PICK k \in Nat : k = Len(t)
    BY <1>1
  <2>3. InOwnSlots(n, t, BlockSize)
    <3>1. DOMAIN t = 1..k /\ n <= k * BlockSize /\ NoDup(t) /\ BlockSize \in Nat \ {0}
      BY <1>1, <2>1, <2>2
    <3>2. QED
      BY <3>1, PositionsDiffer, Zenon
  <2>4. t[p \div BlockSize + 1] \in Blocks
    BY <1>1, <2>3, ElementOfSeq DEF InOwnSlots
  <2>5. QED
    BY <2>3, <2>4 DEF Offsets, InOwnSlots
<1>5. ASSUME NEW p \in 0..(n - 1)
      PROVE  kv'[t[p \div BlockSize + 1]][p % BlockSize] = Content(h, p, <<>>)
  <2>1. PICK b \in Blocks, o \in Offsets : b = t[p \div BlockSize + 1] /\ o = p % BlockSize
    BY <1>4
  <2>2. Here(p, b, o)
    BY <2>1
  <2>3. \A x \in 0..(n - 1) : Here(x, b, o) => x = p
    BY <1>4, <2>1
  <2>4. (CHOOSE x \in 0..(n - 1) : Here(x, b, o)) = p
    BY <2>2, <2>3
  <2>5. kv'[b][o] = Content(h, p, <<>>)
    BY <1>2, <2>2, <2>4
  <2>6. QED
    BY <2>1, <2>5
<1>6. ASSUME NEW b \in Blocks, b \notin TableBlocks(h)' PROVE kv'[b] = kv[b]
  <2>1. \A p \in 0..(n - 1) : b # t[(p \div BlockSize) + 1]
    BY <1>4, <1>6 DEF TableBlocks, t
  <2>2. \A o \in Offsets : kv'[b][o] = kv[b][o]
    BY <1>2, <2>1
  <2>3. kv'[b] = [o \in Offsets |-> kv'[b][o]] /\ kv[b] = [o \in Offsets |-> kv[b][o]]
    BY <1>3 DEF KVTypes
  <2>4. QED
    BY <2>2, <2>3
<1>7. KVTypes'
  <2>1. ASSUME NEW b \in Blocks, NEW o \in Offsets
        PROVE  kv'[b][o] \in {Blank} \cup (Seq(Nat) \X Seq(Token))
    <3>1. CASE \E p \in 0..(n - 1) : Here(p, b, o)
      <4>1. PICK p \in 0..(n - 1) : Here(p, b, o)
        BY <3>1
      <4>2. kv'[b][o] = Content(h, p, <<>>)
        BY <1>5, <4>1
      <4>3. p < Len(Prompt[h]) + Len(<<>>) /\ <<>> \in Seq(Token) /\ p \in Nat
        BY <1>4
      <4>4. QED
        BY <4>2, <4>3, ContentType
    <3>2. CASE ~\E p \in 0..(n - 1) : Here(p, b, o)
      BY <1>2, <3>2 DEF KVTypes
    <3>3. QED
      BY <3>1, <3>2
  <2>2. QED
    BY <1>3, <2>1 DEF KVTypes
<1>8. QED
  BY <1>5, <1>6, <1>7 DEF Slot, Block, t

LEMMA ResumeFinishOrder ==
  ASSUME HandedInv, ResumeFinish, NEW h, h = Head(incoming)
  PROVE  /\ OrderInv' /\ Active' = Active \cup {h} /\ ToSet(running') = ToSet(running) \cup {h}
         /\ ToSet(arrivals') = ToSet(arrivals) \cup {h}
         /\ Entered' = {} /\ Entered = {} /\ Active = ToSet(running)
<1>1. /\ h \in Requests /\ pc = "idle" /\ pc' = "idle" /\ status[h] = "NEW"
      /\ allocating = {h}
      /\ status' = [status EXCEPT ![h] = "RUNNING"]
      /\ running' = Append(running, h) /\ arrivals' = running' \o waiting
      /\ UNCHANGED <<waiting, pending, kept, scheduledNew, scheduledRunning, todo>>
  BY ResumeFinishFacts
<1>2. EngineKept /\ OrderInv
  BY DEF HandedInv, EngineKept
<1>3. h \notin ToSet(arrivals) /\ h \notin Active /\ h \notin ToSet(waiting)
  BY <1>1, <1>2, NewHoldsNothing
<1>4. Active = ToSet(running) /\ Active' = ToSet(running') /\ Entered = {} /\ Entered' = {}
  BY <1>1 DEF Active, Entered, Scheduling
<1>5. /\ running \in Seq(Requests) /\ waiting \in Seq(Requests)
      /\ NoDup(running) /\ NoDup(waiting) /\ ToSet(running) \cap ToSet(waiting) = {}
      /\ ToSet(arrivals) = ToSet(running) \cup ToSet(waiting)
  BY <1>1, <1>2, <1>4, Members DEF OrderInv, QueueShapes
<1>6. /\ running' \in Seq(Requests) /\ NoDup(running')
      /\ ToSet(running') = ToSet(running) \cup {h}
  BY <1>1, <1>3, <1>4, <1>5, AppendSet
<1>7. /\ arrivals' \in Seq(Requests) /\ NoDup(arrivals')
      /\ ToSet(arrivals') = ToSet(running') \cup ToSet(waiting)
  <2>1. ToSet(running') \cap ToSet(waiting) = {}
    BY <1>3, <1>5, <1>6
  <2>2. QED
    BY <1>1, <1>5, <1>6, <2>1, ConcatSet
<1>8. /\ status' \in [Requests -> Statuses] /\ status'[h] = "RUNNING"
      /\ \A q \in Requests : q # h => status'[q] = status[q]
  BY <1>1, <1>2 DEF OrderInv, QueueShapes, Statuses
<1>9. ToSet(arrivals') = ToSet(arrivals) \cup {h} /\ ToSet(arrivals) \subseteq Requests
  <2>1. ToSet(arrivals) \subseteq Requests
    BY <1>2, ToSetType DEF OrderInv, QueueShapes
  <2>2. QED
    BY <1>5, <1>6, <1>7, <2>1
<1>10. QueueShapes'
  BY <1>1, <1>2, <1>6, <1>7, <1>8 DEF OrderInv, QueueShapes, IsSeq, ToSet
<1>11. QueuesInOrder'
  BY <1>1, <1>7 DEF QueuesInOrder
<1>12. QueuesAreLive'
  <2>1. ASSUME NEW q \in ToSet(waiting') PROVE status'[q] \in {"WAITING", "PREEMPTED"}
    <3>1. q \in ToSet(waiting) /\ q # h /\ q \in Requests
      BY <1>1, <1>3, <1>5, <1>9, <2>1
    <3>2. QED
      BY <1>2, <1>8, <3>1 DEF OrderInv, QueuesAreLive
  <2>2. ASSUME NEW q \in ToSet(arrivals') PROVE status'[q] \in Live
    BY <1>1, <1>2, <1>8, <1>9, <2>2 DEF OrderInv, QueuesAreLive, Live
  <2>3. QED
    BY <1>1, <2>1, <2>2 DEF QueuesAreLive
<1>13. EntriesRun'
  BY <1>1, <1>2 DEF OrderInv, EntriesRun
<1>14. OrderInv'
  BY <1>10, <1>11, <1>12, <1>13 DEF OrderInv
<1>15. QED
  BY <1>4, <1>6, <1>9, <1>14

(* resume_decode() leaves the running requests as they are and adds one     *)
(* that looks as if this engine had computed its prompt.                    *)
LEMMA ResumeFinishKept ==
  ASSUME HandedInv, ResumeFinish, NEW h, h = Head(incoming)
  PROVE  EngineKept'
<1>1. /\ h \in Requests /\ pc = "idle" /\ pc' = "idle"
      /\ computed[h] = 0 /\ MaxTokens[h] > 1 /\ status[h] = "NEW"
      /\ out[h] = <<First(h)>>
      /\ AllocateFinish(h) /\ allocating = {h} /\ ncached[h] = 0
      /\ need = NumBlocksNeeded(Len(Prompt[h]) + 1)
      /\ computed' = [computed EXCEPT ![h] = Len(Prompt[h])]
      /\ status' = [status EXCEPT ![h] = "RUNNING"]
      /\ UNCHANGED <<out, draft, waiting, budget, hitBudget, scheduledNew,
                     scheduledRunning, preempted, todo, resumed, shadows, proposed>>
  BY ResumeFinishFacts
<1>2. /\ OrderInv' /\ Active' = Active \cup {h} /\ ToSet(running') = ToSet(running) \cup {h}
      /\ ToSet(arrivals') = ToSet(arrivals) \cup {h}
      /\ Entered' = {} /\ Entered = {} /\ Active = ToSet(running)
  BY ResumeFinishOrder
<1>3. EngineKept
  BY DEF HandedInv
<1> USE <1>3 DEF EngineKept
<1>4. PICK n \in Nat \ {0} : n = Len(Prompt[h])
  BY <1>1, PromptAssumption, EmptySeq
<1>5. /\ Accounting' /\ tables'[h] # <<>>
      /\ Capacity(h)' \in Nat /\ n + 1 <= Capacity(h)'
      /\ \A q \in Requests : q # h => tables'[q] = tables[q]
      /\ allocating' = {} /\ oom' = FALSE /\ UNCHANGED <<ncached, trie>>
      /\ TableBlocks(h)' \cap TrieBlocks' = {}
      /\ \A q \in Requests : q # h => TableBlocks(h)' \cap TableBlocks(q)' = {}
  <2>1. need = NumBlocksNeeded(n + 1)
    BY <1>1, <1>4
  <2>2. QED
    BY <1>1, <1>4, <2>1, ResumeFinishTable
<1>6. /\ KVTypes'
      /\ \A b \in Blocks : b \notin TableBlocks(h)' => kv'[b] = kv[b]
      /\ \A p \in 0..(n - 1) : Slot(h, p)' = Content(h, p, <<>>)
  BY <1>1, <1>4, <1>5, ImportedRows DEF KVInv
<1>7. h \notin ToSet(arrivals) /\ h \notin Active /\ h \notin ToSet(waiting)
  BY <1>1, NewHoldsNothing
<1>8. computed'[h] = n /\ \A q \in Requests : q # h => computed'[q] = computed[q]
  BY <1>1, <1>4 DEF EngineTypes
<1>9. status'[h] = "RUNNING" /\ \A q \in Requests : q # h => status'[q] = status[q]
  BY <1>1 DEF OrderInv, QueueShapes
<1>10. EngineTypes'
  <2>1. computed' \in [Requests -> Nat]
    BY <1>1, <1>4 DEF EngineTypes
  <2>2. QED
    BY <1>1, <2>1 DEF EngineTypes
<1>11. Len(out'[h]) = 1 /\ GetLen(h)' = n + 1
  <2>1. Len(out[h]) = 1
    BY <1>1, FirstToken
  <2>2. QED
    BY <1>1, <1>4, <2>1 DEF GetLen
<1>12. HoldsFor(h)'
  <2>1. TableCovers(h)'
    <3>1. 1 <= n /\ n <= Capacity(h)' /\ n < GetLen(h)' /\ GetLen(h)' <= Capacity(h)' + 1
      BY <1>4, <1>5, <1>11
    <3>2. ncached'[h] * BlockSize <= n
      <4>1. ncached'[h] = 0 /\ BlockSize \in Nat
        BY <1>1, <1>5, PromptAssumption
      <4>2. QED
        BY <4>1
    <3>3. QED
      BY <1>2, <1>8, <3>1, <3>2 DEF TableCovers
  <2>2. Len(out'[h]) < MaxTokens[h] /\ Len(out'[h]) <= MaxTokens[h]
    <3>1. MaxTokens[h] \in Nat
      BY <1>1, SchedulerAssumption
    <3>2. PICK m \in Nat : m = MaxTokens[h] /\ m > 1
      BY <1>1, <3>1
    <3>3. PICK l \in Nat : l = Len(out'[h]) /\ l = 1
      BY <1>11
    <3>4. l < m /\ l <= m
      BY <3>2, <3>3
    <3>5. QED
      BY <3>2, <3>3, <3>4
  <2>3. h \in Active' /\ h \notin ToSet(waiting') /\ h \notin allocating' /\ ncached'[h] = 0
    BY <1>1, <1>2, <1>5, <1>7
  <2>4. QED
    BY <1>5, <1>9, <2>1, <2>2, <2>3 DEF HoldsFor
<1>13. ASSUME NEW q \in Requests, q # h PROVE HoldsFor(q)'
  <2>1. Untouched(q)
    BY <1>1, <1>2, <1>5, <1>8, <1>9, <1>13 DEF Untouched
  <2>2. QED
    BY <2>1, UntouchedHolds
<1>14. ASSUME NEW b \in Blocks, b \in TrieBlocks' PROVE kv'[b] = kv[b]
  BY <1>5, <1>6, <1>14
<1>15. CachedKVIsWhatItClaims'
  <2>1. ASSUME NEW m \in DOMAIN trie'
        PROVE  m \in DOMAIN trie /\ trie'[m].phys = trie[m].phys
               /\ kv'[trie'[m].phys] = kv[trie'[m].phys]
    <3>1. trie'[m].phys \in Blocks /\ trie'[m].phys \in TrieBlocks'
      BY <1>5 DEF Accounting, BMTypeOK, TrieBlocks
    <3>2. QED
      BY <1>5, <1>14, <3>1
  <2>2. QED
    BY <2>1, CachedKept DEF KVInv
<1>16. Filled(h, computed[h])'
  <2>1. ASSUME NEW p \in 0..(n - 1) PROVE Content(h, p, out[h]) = Content(h, p, <<>>)
    <3>1. PICK u \in Seq(Token) : u = <<First(h)>> /\ out[h] = u
      BY <1>1, FirstToken
    <3>2. <<>> \o u = u /\ <<>> \in Seq(Token) /\ Len(<<>>) = 0
      BY EmptySeq
    <3>3. p \in Nat /\ p < Len(Prompt[h]) + Len(<<>>)
      <4>1. p \in Nat /\ p < n
        BY <1>4, <2>1
      <4>2. n = Len(Prompt[h]) + Len(<<>>)
        BY <1>4, <3>2
      <4>3. QED
        BY <4>1, <4>2
    <3>4. Content(h, p, <<>> \o u) = Content(h, p, <<>>)
      BY <1>1, <3>1, <3>2, <3>3, ContentExtended
    <3>5. QED
      BY <3>1, <3>2, <3>4
  <2>2. QED
    BY <1>1, <1>6, <1>8, <2>1 DEF Filled
<1>17. ASSUME NEW q \in ToSet(running), q # h PROVE Filled(q, computed[q])'
  <2>1. /\ q \in Requests /\ Filled(q, computed[q]) /\ computed[q] <= Capacity(q)
        /\ computed[q] \in Nat
    BY <1>1, <1>17, IdleRunning
  <2>2. ASSUME NEW i \in DOMAIN tables[q]
        PROVE  tables'[q][i] = tables[q][i] /\ kv'[tables[q][i]] = kv[tables[q][i]]
    <3>1. tables'[q] = tables[q] /\ tables[q] \in Seq(Blocks)
      BY <1>5, <1>17, <2>1 DEF Accounting, BMTypeOK
    <3>2. tables[q][i] \in Blocks
      BY <3>1, LenProperties, ElementOfSeq
    <3>3. tables[q][i] \in TableBlocks(q)'
      BY <3>1 DEF TableBlocks
    <3>4. tables[q][i] \notin TableBlocks(h)'
      BY <1>5, <1>17, <2>1, <3>3
    <3>5. QED
      BY <1>6, <3>1, <3>2, <3>4
  <2>3. PICK k \in Nat : k = computed[q]
    BY <2>1
  <2>4. Filled(q, k)'
    BY <1>1, <2>1, <2>2, <2>3, FilledKept
  <2>5. computed'[q] = k
    BY <1>8, <1>17, <2>1, <2>3
  <2>6. QED
    BY <2>4, <2>5 DEF Filled
<1>18. \A q \in ToSet(running') : Filled(q, computed[q])'
  BY <1>2, <1>16, <1>17
<1>19. \A q \in Requests : HoldsFor(q)'
  BY <1>12, <1>13
<1>20. QED
  BY <1>1, <1>2, <1>5, <1>6, <1>10, <1>15, <1>18, <1>19, IdleKept

(* The queue holds a handoff once, so whom it has served is resumed.        *)
LEMMA HeadOnce ==
  ASSUME NEW S, NEW s \in Seq(S), s # <<>>, NoDup(s)
  PROVE  Head(s) \notin ToSet(Tail(s))
<1>1. ASSUME NEW i \in DOMAIN Tail(s), Tail(s)[i] = Head(s) PROVE FALSE
  <2>1. /\ i + 1 \in DOMAIN s /\ Tail(s)[i] = s[i + 1] /\ i \in Nat \ {0}
        /\ 1 \in DOMAIN s /\ Head(s) = s[1]
    OBVIOUS
  <2>2. i + 1 = 1
    BY <1>1, <2>1 DEF NoDup
  <2>3. QED
    BY <2>1, <2>2
<1>2. QED
  BY <1>1 DEF ToSet

LEMMA ResumeFinishKeeps ==
  ASSUME HandedInv, ResumeFinish
  PROVE  EngineKept' /\ ThreadInv' /\ ResumedInv'
<1>1. PICK h \in Requests : h = Head(incoming)
  BY ResumeFinishFacts
<1>2. /\ h \in ToSet(incoming) /\ pc' = "idle" /\ thread' = "drain" /\ incoming' = Tail(incoming)
      /\ client[h] = "waiting" /\ MaxTokens[h] > 1 /\ out[h] = <<First(h)>>
      /\ AllocateFinish(h)
      /\ computed' = [computed EXCEPT ![h] = Len(Prompt[h])]
      /\ status' = [status EXCEPT ![h] = "RUNNING"]
      /\ UNCHANGED <<out, client, answer>>
  BY <1>1, ResumeFinishFacts
<1>3. EngineKept'
  BY <1>1, ResumeFinishKept
<1>4. /\ incoming \in Seq(Requests) /\ NoDup(incoming) /\ incoming # <<>>
      /\ DOMAIN computed = Requests /\ DOMAIN status = Requests
  BY DEF HandedInv, DecodeInv, LogInv, LogTypes, HandoffInv, ResumeFinish, EngineKept,
         EngineTypes, OrderInv, QueueShapes
<1>5. ToSet(incoming') \subseteq ToSet(incoming) \ {h}
  <2>1. ToSet(incoming) = {h} \cup ToSet(Tail(incoming))
    BY <1>1, <1>4, HeadTail
  <2>2. h \notin ToSet(Tail(incoming))
    BY <1>1, <1>4, HeadOnce
  <2>3. QED
    BY <1>2, <2>1, <2>2
<1>6. ThreadInv'
  <2>1. allocating' = {} /\ oom' = FALSE
    BY <1>2 DEF AllocateFinish, HandedInv, EngineKept, Accounting, BMTypeOK
  <2>2. QED
    BY <1>2, <2>1 DEF ThreadInv, AllocationInv
<1>7. ResumedInv'
  <2>1. ASSUME NEW q \in Requests, NotResumed(q)'
        PROVE  status'[q] = "NEW" /\ computed'[q] = 0 /\ Len(out'[q]) <= 1
    <3>1. q # h /\ NotResumed(q)
      BY <1>2, <1>5, <2>1 DEF NotResumed
    <3>2. QED
      BY <1>2, <1>4, <3>1 DEF HandedInv, ResumedInv
  <2>2. ASSUME NEW q \in ToSet(arrivals') PROVE out'[q] # <<>> /\ client'[q] = "waiting"
    <3>1. q \in ToSet(arrivals) \/ q = h
      BY <1>1, <2>2, ResumeFinishOrder
    <3>2. QED
      BY <1>1, <1>2, <3>1, FirstToken DEF HandedInv, ResumedInv
  <2>3. ASSUME NEW q \in Requests, IsFinished(q)' PROVE Ended(q)'
    <3>1. status'[q] = status[q] \/ status'[q] = "RUNNING"
      BY <1>2, <1>4, <2>3
    <3>2. IsFinished(q)
      BY <2>3, <3>1 DEF IsFinished, FINISHED
    <3>3. QED
      BY <1>2, <2>3, <3>2 DEF HandedInv, ResumedInv, Ended, Last
  <2>4. QED
    BY <1>2, <2>1, <2>2, <2>3 DEF HandedInv, ResumedInv
<1>8. QED
  BY <1>3, <1>6, <1>7

-----------------------------------------------------------------------------
(* engine.step() *)

(* A step deals with the requests it has, and takes in no other.            *)
LEMMA StepLeavesOthers ==
  ASSUME NoSpeculation, EngineInv, EngineStep
  PROVE  /\ ToSet(arrivals') \subseteq ToSet(arrivals)
         /\ \A q \in Requests : q \notin ToSet(arrivals) =>
              status'[q] = status[q] /\ computed'[q] = computed[q] /\ out'[q] = out[q]
<1>1. /\ pending \in Seq(Requests) /\ arrivals \in Seq(Requests) /\ NoDup(arrivals)
      /\ DOMAIN status = Requests /\ DOMAIN computed = Requests
  BY DEF EngineInv, OrderInv, QueueShapes, QueuesInOrder, RequestInv, EngineTypes
<1>2. CASE UNCHANGED <<status, computed, out, arrivals>>
  BY <1>2
<1>3. ASSUME NEW v \in ToSet(arrivals), arrivals' = arrivals, out' = out,
             status' = status \/ \E x : status' = [status EXCEPT ![v] = x],
             computed' = computed \/ \E x : computed' = [computed EXCEPT ![v] = x]
      PROVE  /\ ToSet(arrivals') \subseteq ToSet(arrivals)
             /\ \A q \in Requests : q \notin ToSet(arrivals) =>
                  status'[q] = status[q] /\ computed'[q] = computed[q] /\ out'[q] = out[q]
  BY <1>1, <1>3
<1>4. CASE PreemptForRunning
  <2>1. /\ pc = "running" /\ pending # <<>> /\ arrivals' = arrivals /\ out' = out
        /\ status' = [status EXCEPT ![Last(pending)] = "PREEMPTED"]
        /\ computed' = [computed EXCEPT ![Last(pending)] = 0]
    BY <1>4 DEF PreemptForRunning, Deciding, Victim, ResetComputed
  <2>2. ToSet(pending) = ToSet(Front(pending)) \cup {Last(pending)}
    BY <1>1, <2>1, FrontLast
  <2>3. PICK v \in ToSet(arrivals) : v = Last(pending)
    BY <2>1, <2>2, Members DEF EngineInv, Active
  <2>4. QED
    BY <1>3, <2>1, <2>3
<1>5. CASE ScheduleRunning
  <2>1. /\ pc = "running" /\ pending # <<>> /\ UNCHANGED <<arrivals, status, out>>
        /\ \E x : computed' = [computed EXCEPT ![Head(pending)] = x]
    BY <1>5 DEF ScheduleRunning, Deciding, queueVars
  <2>2. ToSet(pending) = {Head(pending)} \cup ToSet(Tail(pending))
    BY <1>1, <2>1, HeadTail
  <2>3. PICK v \in ToSet(arrivals) : v = Head(pending)
    BY <2>1, <2>2, Members DEF EngineInv, Active
  <2>4. QED
    BY <1>3, <2>1, <2>3
<1>6. CASE AdmitDone
  <2>1. PICK r \in allocating :
          /\ pc = "allocate" /\ arrivals' = arrivals /\ out' = out
          /\ status' = [status EXCEPT ![r] = "RUNNING"]
          /\ \E x : computed' = [computed EXCEPT ![r] = x]
    BY <1>6 DEF AdmitDone
  <2>2. r \in ToSet(arrivals)
    BY <2>1, Members DEF EngineInv
  <2>3. QED
    BY <1>3, <2>1, <2>2
<1>7. CASE FreeFinished
  <2>1. PICK r \in Requests : Contains(running, r) /\ arrivals' = Without(arrivals, r)
    BY <1>7 DEF FreeFinished
  <2>2. pc = "sweep" /\ UNCHANGED <<status, computed, out>>
    BY <1>7 DEF FreeFinished, requestVars
  <2>3. r \in ToSet(arrivals)
    <3>1. running \in Seq(Requests)
      BY DEF EngineInv, OrderInv, QueueShapes
    <3>2. r \in ToSet(running)
      BY <2>1, <3>1, LenProperties DEF Contains, ToSet
    <3>3. ToSet(running) \subseteq ToSet(arrivals)
      BY <2>2, Members DEF EngineInv, Active
    <3>4. QED
      BY <3>2, <3>3
  <2>4. ToSet(arrivals') = ToSet(arrivals) \ {r}
    BY <1>1, <2>1, <2>3, WithoutSet
  <2>5. QED
    BY <2>2, <2>4
<1>8. CASE ExecuteModel
  <2>1. pc = "execute" /\ computed' = computed /\ arrivals' = arrivals
    BY <1>8 DEF ExecuteModel, queueVars
  <2>2. Sampling \subseteq ToSet(arrivals)
    <3>1. Sampling \subseteq Entered
      BY <2>1, SamplingIsEntered DEF Scheduling
    <3>2. QED
      BY <2>1, <3>1, Members DEF EngineInv
  <2>3. \A q \in Requests : q \notin Sampling => status'[q] = status[q] /\ out'[q] = out[q]
    BY <1>8, PassSamples
  <2>4. QED
    BY <2>1, <2>2, <2>3
<1>9. QED
  BY <1>2, <1>4, <1>5, <1>6, <1>7, <1>8, NoDraftSteps
  DEF EngineStep, ScheduleStep, ForwardStep, DraftStep, ScheduleBegin, SkipRunning,
      RunningDone, AdmitWaiting, AllocateEvicts, AllocateRaises, WaitingDone,
      RegisterPrefix, RegisterDone, CorrectDone, StepDone, requestVars, queueVars

(* A request is finished in a step by a stop condition of its own output.   *)
LEMMA StepEndsRequests ==
  ASSUME NoSpeculation, EngineInv, EngineInv', EngineStep,
         NEW r \in Requests, IsFinished(r) => Ended(r), IsFinished(r)'
  PROVE  Ended(r)'
<1>1. CASE out'[r] = out[r] /\ status'[r] = status[r]
  BY <1>1 DEF Ended, Last, IsFinished
<1>2. CASE KeepsOutputs
  <2>1. status'[r] = status[r]
    BY <1>2 DEF KeepsOutputs, IsFinished, FINISHED, Live
  <2>2. QED
    BY <1>1, <1>2, <2>1 DEF KeepsOutputs
<1>3. CASE ExecuteModel /\ ~(out'[r] = out[r] /\ status'[r] = status[r])
  <2>1. /\ status[r] \in Live /\ Len(out[r]) < MaxTokens[r]
        /\ out[r] \in Seq(Token) /\ Len(out'[r]) = Len(out[r]) + 1
    BY <1>3, PassAppends
  <2>2. r \in Sampling
    BY <1>3, PassSamples
  <2>3. status'[r] = MaybeFinish(r, out'[r])
    BY <1>3, <2>2 DEF ExecuteModel
  <2>4. Last(out'[r]).eos \/ Len(out'[r]) >= MaxTokens[r]
    BY <2>1, <2>3 DEF MaybeFinish, IsFinished, FINISHED, Live
  <2>5. Len(out'[r]) >= MaxTokens[r] => Len(out'[r]) = MaxTokens[r]
    <3>1. MaxTokens[r] \in Nat /\ Len(out[r]) \in Nat
      BY <2>1, SchedulerAssumption, LenProperties
    <3>2. QED
      BY <2>1, <3>1
  <2>6. out'[r] # <<>>
    <3>1. Len(out[r]) \in Nat /\ Len(<<>>) = 0
      BY <2>1, LenProperties, EmptySeq
    <3>2. QED
      BY <2>1, <3>1
  <2>7. QED
    BY <2>4, <2>5, <2>6 DEF Ended
<1>4. QED
  BY <1>1, <1>2, <1>3, EngineOutputs

LEMMA StepEngineKeeps ==
  ASSUME HandedInv, StepEngine
  PROVE  EngineKept' /\ ThreadInv' /\ ResumedInv'
<1>1. /\ thread = "step" /\ EngineStep /\ UNCHANGED <<client, incoming, answer>>
      /\ thread' = CASE pc' = "idle" -> "record"
                     [] pc' = "raised" -> "dead"
                     [] OTHER -> "step"
  BY DEF StepEngine
<1>2. NoSpeculation /\ Next
  BY <1>1, RoleServerConfig DEF NoSpeculation, Next
<1>3. EngineInv /\ KVInv
  BY <1>1 DEF HandedInv, EngineKept, ThreadInv, EngineInv, RequestInv
<1>4. EngineInv'
  BY <1>2, <1>3, NextHolds
<1>5. KVInv'
  BY <1>2, <1>3, <1>4, NextKV
<1>6. EngineKept'
  BY <1>4, <1>5 DEF EngineKept, EngineInv, RequestInv
<1>7. ThreadInv'
  <2>1. thread' \in {"record", "dead", "step"} /\ (thread' = "record" => pc' = "idle")
    BY <1>1
  <2>2. AllocationInv' /\ (pc' = "raised" => oom')
    BY <1>4 DEF EngineInv, RequestInv
  <2>3. QED
    BY <2>1, <2>2 DEF ThreadInv
<1>8. /\ ToSet(arrivals') \subseteq ToSet(arrivals) /\ ToSet(arrivals) \subseteq Requests
       /\ \A q \in Requests : q \notin ToSet(arrivals) =>
            status'[q] = status[q] /\ computed'[q] = computed[q] /\ out'[q] = out[q]
  <2>1. ToSet(arrivals) \subseteq Requests
    BY <1>3, ToSetType DEF EngineInv, OrderInv, QueueShapes
  <2>2. QED
    BY <1>1, <1>2, <1>3, <2>1, StepLeavesOthers
<1>9. ResumedInv'
  <2>1. ASSUME NEW q \in Requests, NotResumed(q)'
        PROVE  status'[q] = "NEW" /\ computed'[q] = 0 /\ Len(out'[q]) <= 1
    <3>1. NotResumed(q)
      BY <1>1, <2>1 DEF NotResumed
    <3>2. status[q] = "NEW" /\ computed[q] = 0 /\ Len(out[q]) <= 1
      BY <3>1 DEF HandedInv, ResumedInv
    <3>3. q \notin ToSet(arrivals)
      BY <1>3, <3>2 DEF EngineInv, OrderInv, QueuesAreLive, Live
    <3>4. QED
      BY <1>8, <3>2, <3>3
  <2>2. ASSUME NEW q \in ToSet(arrivals') PROVE out'[q] # <<>> /\ client'[q] = "waiting"
    <3>1. q \in Requests /\ out[q] # <<>> /\ client'[q] = "waiting"
      BY <1>1, <1>8, <2>2 DEF HandedInv, ResumedInv
    <3>2. Len(out'[q]) >= Len(out[q])
      BY <1>1, <3>1, StepKeepsTokens DEF HandedInv, DecodeInv
    <3>3. out[q] \in Seq(Token)
      BY <1>3, <3>1 DEF EngineInv, RequestInv, EngineTypes
    <3>4. Len(out[q]) \in Nat \ {0} /\ Len(<<>>) = 0
      BY <3>1, <3>3, EmptySeq, LenProperties
    <3>5. QED
      BY <3>1, <3>2, <3>4
  <2>3. ASSUME NEW q \in Requests, IsFinished(q)' PROVE Ended(q)'
    <3>1. IsFinished(q) => Ended(q)
      BY DEF HandedInv, ResumedInv
    <3>2. QED
      BY <1>1, <1>2, <1>3, <1>4, <2>3, <3>1, StepEndsRequests
  <2>4. \A q \in Requests : client'[q] \in {"carrying", "waiting"} => MaxTokens[q] > 1
    BY <1>1 DEF HandedInv, ResumedInv
  <2>5. QED
    BY <2>1, <2>2, <2>3, <2>4 DEF ResumedInv
<1>10. QED
  BY <1>6, <1>7, <1>9

LEMMA HandedInvInit == PDInit => HandedInv
<1> SUFFICES ASSUME PDInit PROVE HandedInv
  OBVIOUS
<1>1. /\ Init /\ DecodeInv /\ thread = "top" /\ incoming = <<>>
      /\ client = [r \in Requests |-> "new"]
  BY DecodeInvInit DEF PDInit
<1>2. EngineInv /\ KVInv
  BY <1>1, RoleServerConfig, InitHolds, InitKV DEF NoSpeculation
<1>3. /\ pc = "idle" /\ arrivals = <<>> /\ status = [r \in Requests |-> "NEW"]
      /\ computed = [r \in Requests |-> 0] /\ out = [r \in Requests |-> <<>>]
  BY <1>1 DEF Init, SchedulerInit
<1>4. EngineKept
  BY <1>2 DEF EngineKept, EngineInv, RequestInv
<1>5. ThreadInv
  BY <1>1, <1>2, <1>3 DEF ThreadInv, EngineInv, RequestInv
<1>6. ResumedInv
  <2>1. \A r \in Requests : status[r] = "NEW" /\ computed[r] = 0 /\ Len(out[r]) <= 1
    BY <1>3, EmptySeq
  <2>2. QED
    BY <1>1, <1>3, <2>1, EmptyIsSeq DEF ResumedInv, IsFinished, FINISHED
<1>7. QED
  BY <1>1, <1>4, <1>5, <1>6 DEF HandedInv

LEMMA HandedInvNext == HandedInv /\ [PDNext]_pdVars => HandedInv'
<1> SUFFICES ASSUME HandedInv, [PDNext]_pdVars PROVE HandedInv'
  OBVIOUS
<1>1. DecodeInv'
  BY DecodeInvNext DEF HandedInv
<1>2. EngineKept' /\ ThreadInv' /\ ResumedInv'
  <2>1. CASE LoopTop \/ DrainDone \/ RecordItl \/ ResetItl \/ Stop \/ UNCHANGED pdVars
    BY <2>1, LoopKeeps
  <2>2. CASE ResumeBegin
    BY <2>2, ResumeBeginKeeps
  <2>3. CASE ResumeFinish
    BY <2>3, ResumeFinishKeeps
  <2>4. CASE ResumeRaises
    BY <2>4, ResumeRaisesKeeps
  <2>5. CASE StepEngine
    BY <2>5, StepEngineKeeps
  <2>6. CASE CheckFinished
    BY <2>6, CheckFinishedKeeps
  <2>7. ASSUME NEW r \in Requests, PrefillBegin(r) \/ PrefillDone(r) \/ Post(r)
        PROVE  EngineKept' /\ ThreadInv' /\ ResumedInv'
    BY <2>7, ClientKeeps
  <2>8. QED
    BY <2>1, <2>2, <2>3, <2>4, <2>5, <2>6, <2>7 DEF PDNext, DecodeThread
<1>3. QED
  BY <1>1, <1>2 DEF HandedInv

-----------------------------------------------------------------------------
(* The tokens *)

LEMMA QuietDense ==
  ASSUME WholeInv, OutputsAreDense,
         UNCHANGED <<pc, kept, pending, running, scheduledNew, scheduledRunning, computed, out>>
  PROVE  WholeInv' /\ OutputsAreDense'
<1>1. Active' = Active /\ Entered' = Entered
  BY DEF Active, Entered, Batch, Scheduling
<1>2. WholeInv'
  BY <1>1 DEF WholeInv, CaughtFor, GetLen
<1>3. OutputsAreDense'
  BY DEF OutputsAreDense, Dense
<1>4. QED
  BY <1>2, <1>3

LEMMA IdleDense ==
  ASSUME pc' = "idle",
         \A q \in ToSet(running') : out'[q] # <<>> => computed'[q] + 1 >= GetLen(q)'
  PROVE  WholeInv'
<1>1. Active' = ToSet(running') /\ Entered' = {}
  BY DEF Active, Entered, Scheduling
<1>2. QED
  BY <1>1 DEF WholeInv, CaughtFor

LEMMA ResumeBeginDense ==
  ASSUME HandedInv, DenseKept, ResumeBegin
  PROVE  WholeInv' /\ OutputsAreDense'
<1>1. PICK h : h = Head(incoming)
  OBVIOUS
<1>2. /\ h \in Requests /\ pc = "idle" /\ pc' = "idle" /\ status[h] = "NEW"
      /\ out' = [out EXCEPT ![h] = <<First(h)>>]
      /\ UNCHANGED <<computed, running>>
  BY <1>1, ResumeBeginFacts
<1>3. h \notin ToSet(arrivals) /\ DOMAIN out = Requests
  BY <1>2, NewHoldsNothing DEF HandedInv, EngineKept, EngineTypes
<1>4. out'[h] = <<First(h)>> /\ \A q \in Requests : q # h => out'[q] = out[q]
  BY <1>2, <1>3
<1>5. ASSUME NEW q \in ToSet(running'), out'[q] # <<>>
      PROVE  computed'[q] + 1 >= GetLen(q)'
  <2>1. q \in ToSet(running)
    BY <1>2, <1>5
  <2>2. /\ q \in Requests /\ q \in ToSet(arrivals)
        /\ out[q] # <<>> => computed[q] + 1 >= GetLen(q)
    BY <1>2, <2>1, IdleRunning DEF HandedInv, DenseKept
  <2>3. out'[q] = out[q]
    BY <1>3, <1>4, <2>2
  <2>4. QED
    BY <1>2, <1>5, <2>2, <2>3 DEF GetLen
<1>6. ASSUME NEW q \in Requests PROVE Dense(q)'
  <2>1. CASE q = h
    <3>1. Len(<<First(h)>>) = 1 /\ First(h).by = Len(Prompt[h]) + 1 - 2
      BY <1>2, FirstToken
    <3>2. ASSUME NEW i \in 1..Len(out'[h]) PROVE out'[h][i].by = Len(Prompt[h]) + i - 2
      <4>1. i = 1
        BY <1>4, <3>1, <3>2
      <4>2. QED
        BY <1>4, <3>1, <4>1
    <3>3. QED
      BY <2>1, <3>2 DEF Dense
  <2>2. CASE q # h
    BY <1>4, <2>2 DEF DenseKept, OutputsAreDense, Dense
  <2>3. QED
    BY <2>1, <2>2
<1>7. QED
  BY <1>2, <1>5, <1>6, IdleDense DEF OutputsAreDense

LEMMA ResumeFinishDense ==
  ASSUME HandedInv, DenseKept, ResumeFinish
  PROVE  WholeInv' /\ OutputsAreDense'
<1>1. PICK h : h = Head(incoming)
  OBVIOUS
<1>2. /\ h \in Requests /\ pc = "idle" /\ pc' = "idle" /\ status[h] = "NEW"
      /\ out[h] = <<First(h)>>
      /\ computed' = [computed EXCEPT ![h] = Len(Prompt[h])]
      /\ UNCHANGED out
  BY <1>1, ResumeFinishFacts
<1>3. DOMAIN computed = Requests
  BY DEF HandedInv, EngineKept, EngineTypes
<1>4. OutputsAreDense'
  BY <1>2 DEF DenseKept, OutputsAreDense, Dense
<1>5. PICK n \in Nat : n = Len(Prompt[h])
  BY <1>2, PromptAssumption
<1>6. computed'[h] = n /\ GetLen(h)' = n + 1
  <2>1. Len(out'[h]) = 1
    BY <1>2, FirstToken
  <2>2. QED
    BY <1>2, <1>3, <1>5, <2>1 DEF GetLen
<1>7. ASSUME NEW q \in ToSet(running'), out'[q] # <<>>
      PROVE  computed'[q] + 1 >= GetLen(q)'
  <2>1. CASE q = h
    BY <1>6, <2>1
  <2>2. CASE q # h
    <3>1. q \in ToSet(running)
      BY <1>1, <1>7, <2>2, ResumeFinishOrder
    <3>2. q \in Requests /\ computed[q] + 1 >= GetLen(q)
      BY <1>2, <1>7, <3>1, IdleRunning DEF HandedInv, DenseKept
    <3>3. QED
      BY <1>2, <1>3, <2>2, <3>2 DEF GetLen
  <2>3. QED
    BY <2>1, <2>2
<1>8. QED
  BY <1>2, <1>4, <1>7, IdleDense

LEMMA StepEngineDense ==
  ASSUME BudgetFitsEveryone, HandedInv, DenseKept, StepEngine
  PROVE  WholeInv' /\ OutputsAreDense'
<1>1. thread = "step" /\ NoSpeculation /\ Next
  BY RoleServerConfig DEF StepEngine, NoSpeculation, Next
<1>2. EngineInv /\ WholeInv /\ OutputsAreDense
  BY <1>1 DEF HandedInv, EngineKept, ThreadInv, EngineInv, RequestInv, DenseKept
<1>3. EngineInv'
  BY <1>1, <1>2, NextHolds
<1>4. QED
  BY <1>1, <1>2, <1>3, NextWhole, WholeRecompute, NextAllDense

(* The prefill node answers for itself with a first token that ends the     *)
(* request.                                                                 *)
LEMMA ClientAnswers ==
  ASSUME HandedInv, AnswersAreDense, NEW r \in Requests,
         PrefillBegin(r) \/ PrefillDone(r) \/ Post(r)
  PROVE  AnswersAreDense'
<1>1. /\ client \in [Requests -> {"new", "prefilling", "carrying", "waiting", "done"}]
      /\ DOMAIN answer = Requests
  BY DEF HandedInv, DecodeInv, LogInv, LogTypes
<1>2. \A q \in Requests : q # r => client'[q] = client[q] /\ answer'[q] = answer[q]
  BY <1>1 DEF PrefillBegin, PrefillDone, Post, workerVars
<1>3. ASSUME NEW q \in Requests PROVE AnswerIsDense(q)'
  <2>1. AnswerIsDense(q)
    BY EachAnswer
  <2>2. CASE answer'[q] = answer[q] /\ client'[q] # "done"
    BY <2>2 DEF AnswerIsDense
  <2>3. CASE q # r
    BY <1>2, <2>1, <2>3, SameAnswer
  <2>4. CASE q = r /\ ~(answer'[q] = answer[q] /\ client'[q] # "done")
    <3>1. PICK eos \in BOOLEAN :
             EndsInPrefill(r, eos) /\ answer'[r] = << [First(r) EXCEPT !.eos = eos] >>
      BY <1>1, <2>4 DEF PrefillBegin, PrefillDone, Post, workerVars
    <3>2. PICK t : t = [First(r) EXCEPT !.eos = eos] /\ t.by = Len(Prompt[r]) - 1 /\ t.eos = eos
      <4>1. [First(r) EXCEPT !.eos = eos] = [by |-> Len(Prompt[r]) - 1, eos |-> eos]
        BY DEF First
      <4>2. QED
        BY <4>1
    <3>3. answer'[r] = <<t>> /\ (eos \/ MaxTokens[r] = 1)
      BY <3>1, <3>2 DEF EndsInPrefill
    <3>4. /\ Len(<<t>>) = 1 /\ DOMAIN <<t>> = {1} /\ <<t>>[1] = t /\ <<t>> # <<>>
          /\ Last(<<t>>) = t
      BY DEF Last
    <3>5. Len(Prompt[r]) \in Nat
      BY PromptAssumption
    <3>6. t.by = Len(Prompt[r]) + 1 - 2
      BY <3>2, <3>5
    <3>7. \A i \in DOMAIN answer'[r] : answer'[r][i].by = Len(Prompt[r]) + i - 2
      BY <3>3, <3>4, <3>6
    <3>8. answer'[r] # <<>> /\ (Last(answer'[r]).eos \/ Len(answer'[r]) = MaxTokens[r])
      <4>1. answer'[r] # <<>> /\ Last(answer'[r]) = t /\ Len(answer'[r]) = 1
        BY <3>3, <3>4
      <4>2. CASE eos
        BY <4>1, <4>2, <3>2
      <4>3. CASE MaxTokens[r] = 1
        BY <4>1, <4>3
      <4>4. QED
        BY <3>3, <4>2, <4>3
    <3>9. QED
      BY <2>4, <3>7, <3>8 DEF AnswerIsDense
  <2>5. QED
    BY <2>2, <2>3, <2>4
<1>4. QED
  BY <1>3 DEF AnswersAreDense, AnswerIsDense, Last

(* The decode node answers with what the engine has sampled.                *)
LEMMA CheckFinishedAnswers ==
  ASSUME HandedInv, DenseKept, CheckFinished
  PROVE  AnswersAreDense'
<1> USE DEF HandedInv, DenseKept
<1>1. /\ answer' = [r \in Requests |-> IF r \in ToAnswer THEN out[r] ELSE answer[r]]
      /\ client' = [r \in Requests |-> IF r \in ToAnswer THEN "done" ELSE client[r]]
  BY DEF CheckFinished
<1>2. ASSUME NEW r \in Requests PROVE AnswerIsDense(r)'
  <2>1. CASE r \in ToAnswer
    <3>1. answer'[r] = out[r] /\ IsFinished(r)
      BY <1>1, <2>1 DEF ToAnswer
    <3>2. Ended(r) /\ Dense(r)
      BY <3>1 DEF ResumedInv, OutputsAreDense
    <3>3. out[r] \in Seq(Token) /\ DOMAIN out[r] = 1..Len(out[r])
      BY DEF EngineKept, EngineTypes
    <3>4. QED
      BY <3>1, <3>2, <3>3 DEF AnswerIsDense, Ended, Dense, Last
  <2>2. CASE r \notin ToAnswer
    BY <1>1, <2>2, EachAnswer, SameAnswer
  <2>3. QED
    BY <2>1, <2>2
<1>3. QED
  BY <1>2 DEF AnswersAreDense, AnswerIsDense, Last

LEMMA DenseInit == PDInit => DenseKept
<1> SUFFICES ASSUME PDInit PROVE DenseKept
  OBVIOUS
<1>1. /\ pc = "idle" /\ out = [r \in Requests |-> <<>>]
      /\ client = [r \in Requests |-> "new"]
  BY DEF PDInit, Init, SchedulerInit
<1>2. WholeInv
  BY <1>1 DEF WholeInv, CaughtFor
<1>3. OutputsAreDense
  <2>1. \A r \in Requests : Len(out[r]) = 0
    BY <1>1, EmptySeq
  <2>2. QED
    BY <2>1 DEF OutputsAreDense, Dense
<1>4. AnswersAreDense
  BY <1>1 DEF AnswersAreDense
<1>5. QED
  BY <1>2, <1>3, <1>4 DEF DenseKept

LEMMA TransparentInvNext ==
  ASSUME BudgetFitsEveryone
  PROVE  TransparentInv /\ [PDNext]_pdVars => TransparentInv'
<1> SUFFICES ASSUME TransparentInv, [PDNext]_pdVars PROVE TransparentInv'
  OBVIOUS
<1> USE DEF TransparentInv
<1>1. HandedInv'
  BY HandedInvNext
<1>2. DenseKept'
  <2>1. ASSUME WholeInv' /\ OutputsAreDense', UNCHANGED <<client, answer>>
        PROVE  DenseKept'
    BY <2>1 DEF DenseKept, AnswersAreDense, Last
  <2>2. ASSUME UNCHANGED <<pc, kept, pending, running, scheduledNew, scheduledRunning,
                           computed, out>>
        PROVE  WholeInv' /\ OutputsAreDense'
    BY <2>2, QuietDense DEF DenseKept
  <2>3. CASE LoopTop \/ DrainDone \/ RecordItl \/ ResetItl \/ Stop \/ UNCHANGED pdVars
    BY <2>1, <2>2, <2>3
    DEF LoopTop, DrainDone, RecordItl, ResetItl, Stop, pdVars, workerVars, vars, schedVars,
        requestVars, queueVars, stepVars
  <2>4. CASE ResumeRaises
    BY <2>1, <2>2, <2>4 DEF ResumeRaises, requestVars, queueVars, stepVars
  <2>5. CASE ResumeBegin
    BY <2>1, <2>5, ResumeBeginDense DEF ResumeBegin
  <2>6. CASE ResumeFinish
    BY <2>1, <2>6, ResumeFinishDense DEF ResumeFinish
  <2>7. CASE StepEngine
    BY <2>1, <2>7, StepEngineDense DEF StepEngine
  <2>8. CASE CheckFinished
    <3>1. WholeInv' /\ OutputsAreDense'
      BY <2>2, <2>8 DEF CheckFinished, vars, schedVars, requestVars, queueVars, stepVars
    <3>2. QED
      BY <2>8, <3>1, CheckFinishedAnswers DEF DenseKept
  <2>9. ASSUME NEW r \in Requests, PrefillBegin(r) \/ PrefillDone(r) \/ Post(r)
        PROVE  DenseKept'
    <3>1. WholeInv' /\ OutputsAreDense'
      BY <2>2, <2>9 DEF PrefillBegin, PrefillDone, Post, vars, schedVars, requestVars,
                        queueVars, stepVars
    <3>2. QED
      BY <2>9, <3>1, ClientAnswers DEF DenseKept
  <2>10. QED
    BY <2>3, <2>4, <2>5, <2>6, <2>7, <2>8, <2>9 DEF PDNext, DecodeThread
<1>3. QED
  BY <1>1, <1>2

(* model/tests/test_pd_disaggregation.py compares a handoff with one engine:*)
(* whoever else is resumed, preempted or recomputed meanwhile, each client  *)
(* gets the dense greedy output up to its stop condition, and the KV of a   *)
(* resumed request is its own, imported or recomputed, for any number of    *)
(* requests and blocks, when max_num_batched_tokens fits a recompute in     *)
(* every seat.                                                              *)
THEOREM HandoffStaysTransparent ==
  ASSUME BudgetFitsEveryone
  PROVE  PDSpec => []HandoffIsTransparent
<1>1. TransparentInv => HandoffIsTransparent
  <2> SUFFICES ASSUME TransparentInv PROVE HandoffIsTransparent
    OBVIOUS
  <2> USE DEF TransparentInv, HandedInv, DenseKept
  <2>1. ASSUME pc = "idle", NEW r \in ToSet(running)
        PROVE  /\ computed[r] = GetLen(r) - 1
               /\ \A p \in 0..(computed[r] - 1) : Slot(r, p) = Content(r, p, out[r])
    <3>1. /\ r \in Requests /\ r \in ToSet(arrivals) /\ Filled(r, computed[r])
          /\ computed[r] \in Nat /\ computed[r] < GetLen(r)
          /\ out[r] # <<>> => computed[r] + 1 >= GetLen(r)
      BY <2>1, IdleRunning
    <3>2. out[r] # <<>>
      BY <3>1 DEF ResumedInv
    <3>3. GetLen(r) \in Nat
      BY <3>1, LenFacts DEF EngineKept
    <3>4. computed[r] = GetLen(r) - 1
      BY <3>1, <3>2, <3>3
    <3>5. QED
      BY <3>1, <3>4 DEF Filled
  <2>2. ImportedKVBelongs
    BY <2>1 DEF ImportedKVBelongs
  <2>3. QED
    BY <2>2 DEF HandoffIsTransparent
<1>2. PDInit => TransparentInv
  BY HandedInvInit, DenseInit DEF TransparentInv
<1>3. TransparentInv /\ [PDNext]_pdVars => TransparentInv'
  BY TransparentInvNext
<1>4. QED
  BY <1>1, <1>2, <1>3, PTL DEF PDSpec

-----------------------------------------------------------------------------
(* The contract across the two nodes *)

(* live and tokens of Contract2.                                            *)
HandedLive ==
  { r \in Requests : client[r] \in {"prefilling", "carrying", "waiting"} /\ ~IsFinished(r) }

TokensOf(r) ==
  CASE client[r] \in {"new", "prefilling"} -> 0
    [] client[r] = "done" -> Len(answer[r])
    [] OTHER -> IF out[r] = <<>> THEN 1 ELSE Len(out[r])

HandedTokens == [r \in Requests |-> TokensOf(r)]

(* What Produce allows for r.                                               *)
Gains(r) ==
  \/ TokensOf(r)' = TokensOf(r) /\ (r \in HandedLive <=> r \in HandedLive')
  \/ /\ r \in HandedLive
     /\ TokensOf(r)' \in (TokensOf(r) + 1)..MaxTokens[r]
     /\ TokensOf(r)' = MaxTokens[r] => r \notin HandedLive'

LEMMA HandedProduces ==
  ASSUME \A r \in Requests : Gains(r)
  PROVE  Contract2!Produce
<1>1. /\ DOMAIN HandedTokens' = Requests
      /\ \A r \in Requests : HandedTokens[r] = TokensOf(r) /\ HandedTokens'[r] = TokensOf(r)'
  BY DEF HandedTokens
<1>2. \A r \in Requests :
        \/ HandedTokens'[r] = HandedTokens[r] /\ (r \in HandedLive <=> r \in HandedLive')
        \/ /\ r \in HandedLive
           /\ HandedTokens'[r] \in (HandedTokens[r] + 1)..MaxTokens[r]
           /\ HandedTokens'[r] = MaxTokens[r] => r \notin HandedLive'
  BY <1>1 DEF Gains
<1>3. HandedLive' \subseteq HandedLive
  BY DEF Gains, HandedLive
<1>4. QED
  BY <1>1, <1>2, <1>3 DEF Contract2!Produce, HandedTokens, TokensOf, HandedLive

LEMMA SameGains ==
  ASSUME NEW r \in Requests, client'[r] = client[r], answer'[r] = answer[r],
         out'[r] = out[r], IsFinished(r)' <=> IsFinished(r)
  PROVE  Gains(r)
<1>1. r \in HandedLive <=> r \in HandedLive'
  BY DEF HandedLive
<1>2. TokensOf(r)' = TokensOf(r)
  BY DEF TokensOf
<1>3. QED
  BY <1>1, <1>2 DEF Gains

LEMMA AtMostOne ==
  ASSUME NEW S, NEW s \in Seq(S), Len(s) <= 1
  PROVE  s = <<>> \/ Len(s) = 1
<1>1. PICK n \in Nat : n = Len(s)
  OBVIOUS
<1>2. n = 0 \/ n = 1
  BY <1>1
<1>3. n = 0 => s = <<>>
  BY <1>1, EmptySeq
<1>4. QED
  BY <1>1, <1>2, <1>3

(* A request that is not resumed yet has the one token of its handoff.      *)
LEMMA CarriedToken ==
  ASSUME HandedInv, NEW r \in Requests, client[r] \in {"carrying", "waiting"}, NotResumed(r)
  PROVE  TokensOf(r) = 1
<1>1. out[r] \in Seq(Token) /\ Len(out[r]) <= 1
  BY DEF HandedInv, EngineKept, EngineTypes, ResumedInv
<1>2. out[r] = <<>> \/ Len(out[r]) = 1
  BY <1>1, AtMostOne
<1>3. QED
  BY <1>2 DEF TokensOf

(* The prefill node takes a request in.                                     *)
LEMMA PrefillEnters ==
  ASSUME HandedInv, NEW r \in Requests, PrefillBegin(r)
  PROVE  Contract2!Enter(r)
<1>1. /\ client[r] = "new" /\ client' = [client EXCEPT ![r] = "prefilling"]
      /\ UNCHANGED <<status, out, answer>> /\ DOMAIN client = Requests
  BY DEF PrefillBegin, vars, schedVars, requestVars, workerVars, HandedInv, DecodeInv, LogInv,
         LogTypes
<1>2. status[r] = "NEW"
  BY <1>1 DEF HandedInv, ResumedInv, NotResumed
<1>3. \A q \in Requests : IsFinished(q)' <=> IsFinished(q)
  BY <1>1 DEF IsFinished
<1>4. r \notin HandedLive /\ HandedLive' = HandedLive \cup {r}
  BY <1>1, <1>2, <1>3 DEF HandedLive, IsFinished, FINISHED
<1>5. HandedTokens' = [HandedTokens EXCEPT ![r] = 0]
  <2>1. ASSUME NEW q \in Requests PROVE TokensOf(q)' = IF q = r THEN 0 ELSE TokensOf(q)
    BY <1>1 DEF TokensOf
  <2>2. QED
    BY <2>1 DEF HandedTokens
<1>6. QED
  BY <1>4, <1>5 DEF Contract2!Enter, HandedTokens, TokensOf, HandedLive

(* It gives the first token, and ends the request or hands it off.          *)
LEMMA PrefillGains ==
  ASSUME HandedInv, NEW r \in Requests, PrefillDone(r)
  PROVE  Gains(r)
<1>1. /\ client[r] = "prefilling" /\ UNCHANGED <<status, out>>
      /\ DOMAIN client = Requests /\ DOMAIN answer = Requests
  BY DEF PrefillDone, vars, schedVars, requestVars, HandedInv, DecodeInv, LogInv, LogTypes
<1>2. status[r] = "NEW" /\ MaxTokens[r] \in Nat \ {0}
  BY <1>1, SchedulerAssumption DEF HandedInv, ResumedInv, NotResumed
<1>3. r \in HandedLive /\ TokensOf(r) = 0
  BY <1>1, <1>2 DEF HandedLive, TokensOf, IsFinished, FINISHED
<1>4. CASE client'[r] = "done" /\ Len(answer'[r]) = 1
  <2>1. TokensOf(r)' = 1 /\ r \notin HandedLive'
    BY <1>4 DEF TokensOf, HandedLive
  <2>2. QED
    BY <1>2, <1>3, <2>1 DEF Gains
<1>5. CASE client'[r] = "carrying" /\ MaxTokens[r] # 1
  <2>1. TokensOf(r)' = 1
    <3>1. [PDNext]_pdVars
      BY DEF PDNext
    <3>2. HandedInv' /\ NotResumed(r)'
      BY <1>5, <3>1, HandedInvNext DEF NotResumed
    <3>3. out'[r] \in Seq(Token) /\ Len(out'[r]) <= 1
      BY <3>2 DEF HandedInv, EngineKept, EngineTypes, ResumedInv
    <3>4. out'[r] = <<>> \/ Len(out'[r]) = 1
      BY <3>3, AtMostOne
    <3>5. QED
      BY <1>5, <3>4 DEF TokensOf
  <2>2. 1 \in (0 + 1)..MaxTokens[r]
    BY <1>2
  <2>3. QED
    BY <1>3, <1>5, <2>1, <2>2 DEF Gains
<1>6. QED
  <2>1. PICK eos \in BOOLEAN :
          IF EndsInPrefill(r, eos)
          THEN client'[r] = "done" /\ answer'[r] = << [First(r) EXCEPT !.eos = eos] >>
          ELSE client'[r] = "carrying"
    BY <1>1 DEF PrefillDone
  <2>2. QED
    BY <1>4, <1>5, <2>1 DEF EndsInPrefill

(* The pass gives one token to some of the resumed requests.                *)
LEMMA StepGains ==
  ASSUME HandedInv, StepEngine, NEW r \in Requests
  PROVE  Gains(r)
<1>1. thread = "step" /\ EngineStep /\ NoSpeculation /\ Next /\ UNCHANGED <<client, answer>>
  BY RoleServerConfig DEF StepEngine, NoSpeculation, Next
<1>2. EngineInv
  BY <1>1 DEF HandedInv, EngineKept, ThreadInv, EngineInv, RequestInv
<1>3. EngineInv'
  BY <1>1, <1>2, NextHolds
<1>4. CASE out'[r] = out[r] /\ status'[r] = status[r]
  BY <1>1, <1>4, SameGains DEF IsFinished
<1>5. CASE KeepsOutputs
  <2>1. out' = out /\ (IsFinished(r)' <=> IsFinished(r))
    BY <1>5 DEF KeepsOutputs, IsFinished, FINISHED, Live
  <2>2. QED
    BY <1>1, <2>1, SameGains
<1>6. CASE ExecuteModel /\ ~(out'[r] = out[r] /\ status'[r] = status[r])
  <2>1. r \in ToSet(arrivals)
    BY <1>1, <1>2, <1>6, StepLeavesOthers
  <2>2. out[r] # <<>> /\ client[r] = "waiting"
    BY <2>1 DEF HandedInv, ResumedInv
  <2>3. /\ status[r] \in Live /\ Len(out[r]) < MaxTokens[r]
        /\ Len(out'[r]) = Len(out[r]) + 1
        /\ Len(out'[r]) < MaxTokens[r] \/ status'[r] \in FINISHED
    BY <1>1, <1>2, <1>3, <1>6, PassAppends
  <2>4. Len(out[r]) \in Nat /\ MaxTokens[r] \in Nat
    BY <1>2, LenFacts DEF EngineInv, RequestInv
  <2>5. out'[r] # <<>>
    BY <2>3, <2>4, EmptySeq
  <2>6. TokensOf(r) = Len(out[r]) /\ TokensOf(r)' = Len(out'[r])
    BY <1>1, <2>2, <2>5 DEF TokensOf
  <2>7. r \in HandedLive
    BY <2>2, <2>3 DEF HandedLive, IsFinished, FINISHED, Live
  <2>8. /\ Len(out'[r]) \in (Len(out[r]) + 1)..MaxTokens[r]
        /\ Len(out'[r]) = MaxTokens[r] => status'[r] \in FINISHED
    BY <2>3, <2>4
  <2>9. status'[r] \in FINISHED => r \notin HandedLive'
    BY DEF HandedLive, IsFinished
  <2>10. QED
    BY <2>6, <2>7, <2>8, <2>9 DEF Gains
<1>7. QED
  BY <1>1, <1>2, <1>4, <1>5, <1>6, EngineOutputs

(* resume_decode() starts from the token that was handed over.              *)
LEMMA ResumeGains ==
  ASSUME HandedInv, ResumeBegin \/ ResumeFinish, NEW r \in Requests
  PROVE  Gains(r)
<1>1. PICK h : h = Head(incoming)
  OBVIOUS
<1>2. DOMAIN status = Requests /\ DOMAIN out = Requests
  BY DEF HandedInv, EngineKept, EngineTypes, OrderInv, QueueShapes
<1>3. CASE ResumeBegin
  <2>1. /\ h \in Requests /\ UNCHANGED <<status, client, answer>>
        /\ out' = [out EXCEPT ![h] = <<First(h)>>]
    BY <1>1, <1>3, ResumeBeginFacts
  <2>2. CASE r # h
    BY <1>2, <2>1, <2>2, SameGains DEF IsFinished
  <2>3. CASE r = h
    <3>1. h \in ToSet(incoming)
      BY <1>1, <1>3, HeadTail DEF ResumeBegin, HandedInv, DecodeInv, LogInv, LogTypes
    <3>2. client[h] = "waiting" /\ NotResumed(h)
      BY <3>1 DEF NotResumed, HandedInv, DecodeInv, LogInv, HandoffInv
    <3>3. TokensOf(h) = 1
      BY <2>1, <3>2, CarriedToken
    <3>4. out'[h] = <<First(h)>> /\ Len(<<First(h)>>) = 1 /\ <<First(h)>> # <<>>
      BY <1>2, <2>1, FirstToken
    <3>5. TokensOf(h)' = 1
      BY <2>1, <3>2, <3>4 DEF TokensOf
    <3>6. r \in HandedLive <=> r \in HandedLive'
      BY <2>1 DEF HandedLive, IsFinished
    <3>7. QED
      BY <2>3, <3>3, <3>5, <3>6 DEF Gains
  <2>4. QED
    BY <2>2, <2>3
<1>4. CASE ResumeFinish
  <2>1. /\ h \in Requests /\ UNCHANGED <<out, client, answer>> /\ status[h] = "NEW"
        /\ status' = [status EXCEPT ![h] = "RUNNING"]
    BY <1>1, <1>4, ResumeFinishFacts
  <2>2. IsFinished(r)' <=> IsFinished(r)
    BY <1>2, <2>1 DEF IsFinished, FINISHED
  <2>3. QED
    BY <2>1, <2>2, SameGains
<1>5. QED
  BY <1>3, <1>4

(* The answer is the output, of a request that has ended.                   *)
LEMMA CheckFinishedGains ==
  ASSUME HandedInv, CheckFinished, NEW r \in Requests
  PROVE  Gains(r)
<1>1. /\ answer' = [q \in Requests |-> IF q \in ToAnswer THEN out[q] ELSE answer[q]]
      /\ client' = [q \in Requests |-> IF q \in ToAnswer THEN "done" ELSE client[q]]
      /\ UNCHANGED <<status, out>>
  BY DEF CheckFinished, vars, schedVars, requestVars
<1>2. CASE r \notin ToAnswer
  BY <1>1, <1>2, SameGains DEF IsFinished
<1>3. CASE r \in ToAnswer
  <2>1. IsFinished(r) /\ client[r] = "waiting"
    BY <1>3 DEF ToAnswer, HandedInv, DecodeInv, LogInv, HandoffInv
  <2>2. out[r] # <<>>
    BY <2>1 DEF HandedInv, ResumedInv, Ended
  <2>3. TokensOf(r) = Len(out[r])
    BY <2>1, <2>2 DEF TokensOf
  <2>4. client'[r] = "done" /\ answer'[r] = out[r]
    BY <1>1, <1>3
  <2>5. TokensOf(r)' = Len(out[r])
    BY <2>4 DEF TokensOf
  <2>6. r \notin HandedLive /\ r \notin HandedLive'
    BY <2>1, <2>4 DEF HandedLive
  <2>7. QED
    BY <2>3, <2>5, <2>6 DEF Gains
<1>4. QED
  BY <1>2, <1>3

LEMMA HandoffByContract ==
  HandedInv /\ [PDNext]_pdVars => [Contract2!ContractNext]_(Contract2!contractVars)
<1> SUFFICES ASSUME HandedInv, [PDNext]_pdVars
             PROVE  Contract2!ContractNext
  OBVIOUS
<1>1. ASSUME \A r \in Requests : Gains(r) PROVE Contract2!ContractNext
  BY <1>1, HandedProduces DEF Contract2!ContractNext
<1>2. CASE LoopTop \/ DrainDone \/ RecordItl \/ ResetItl \/ Stop \/ ResumeRaises \/ UNCHANGED pdVars
  <2>1. UNCHANGED <<client, answer, out, status>>
    BY <1>2
    DEF LoopTop, DrainDone, RecordItl, ResetItl, Stop, ResumeRaises, pdVars, workerVars, vars,
        schedVars, requestVars
  <2>2. QED
    BY <1>1, <2>1, SameGains DEF IsFinished
<1>3. CASE ResumeBegin \/ ResumeFinish
  BY <1>1, <1>3, ResumeGains
<1>4. CASE StepEngine
  BY <1>1, <1>4, StepGains
<1>5. CASE CheckFinished
  BY <1>1, <1>5, CheckFinishedGains
<1>6. ASSUME NEW r \in Requests, PrefillBegin(r) PROVE Contract2!ContractNext
  BY <1>6, PrefillEnters DEF Contract2!ContractNext
<1>7. ASSUME NEW r \in Requests, PrefillDone(r) \/ Post(r) PROVE Contract2!ContractNext
  <2>1. /\ client \in [Requests -> {"new", "prefilling", "carrying", "waiting", "done"}]
        /\ DOMAIN answer = Requests /\ UNCHANGED <<status, out>>
    BY <1>7 DEF HandedInv, DecodeInv, LogInv, LogTypes, PrefillDone, Post, vars, schedVars,
                requestVars
  <2>2. \A q \in Requests : q # r => client'[q] = client[q] /\ answer'[q] = answer[q]
    BY <1>7, <2>1 DEF PrefillDone, Post
  <2>3. ASSUME NEW q \in Requests, q # r PROVE Gains(q)
    BY <2>1, <2>2, <2>3, SameGains DEF IsFinished
  <2>4. CASE PrefillDone(r)
    BY <1>1, <2>3, <2>4, PrefillGains
  <2>5. CASE Post(r)
    <3>1. client[r] = "carrying" /\ client'[r] = "waiting" /\ answer' = answer
      BY <2>1, <2>5 DEF Post
    <3>2. TokensOf(r)' = TokensOf(r)
      BY <2>1, <3>1 DEF TokensOf
    <3>3. r \in HandedLive <=> r \in HandedLive'
      BY <2>1, <3>1 DEF HandedLive, IsFinished
    <3>4. QED
      BY <1>1, <2>3, <3>2, <3>3 DEF Gains
  <2>6. QED
    BY <1>7, <2>4, <2>5
<1>8. QED
  BY <1>2, <1>3, <1>4, <1>5, <1>6, <1>7 DEF PDNext, DecodeThread

LEMMA HandoffContractInit == PDInit => Contract2!ContractInit
<1> SUFFICES ASSUME PDInit PROVE Contract2!ContractInit
  OBVIOUS
<1>1. client = [r \in Requests |-> "new"]
  BY DEF PDInit
<1>2. HandedLive = {} /\ HandedTokens = [r \in Requests |-> 0]
  BY <1>1 DEF HandedLive, HandedTokens, TokensOf
<1>3. QED
  BY <1>2 DEF Contract2!ContractInit, HandedLive, HandedTokens, TokensOf

(* Refinement: from prefill to answer, over two nodes, a request keeps the  *)
(* contract of one engine; the first token is neither lost nor counted      *)
(* twice where resume_decode() puts it into the new Request.                *)
THEOREM HandoffImplementsContract == PDSpec => HandoffKeepsContract
<1>1. PDInit => HandedInv /\ Contract2!ContractInit
  BY HandedInvInit, HandoffContractInit
<1>2. HandedInv /\ [PDNext]_pdVars => HandedInv'
  BY HandedInvNext
<1>3. HandedInv /\ [PDNext]_pdVars => [Contract2!ContractNext]_(Contract2!contractVars)
  BY HandoffByContract
<1>4. QED
  BY <1>1, <1>2, <1>3, PTL DEF PDSpec, HandoffKeepsContract, Contract2!ContractSpec
=============================================================================
