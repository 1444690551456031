----------------------------- MODULE Scheduler -----------------------------
(***************************************************************************)
(* engine/scheduler.py over engine/block_manager.py: the waiting and       *)
(* running queues, one schedule() call, and teardown.                      *)
(*                                                                         *)
(* schedule() is two loops.  Each iteration is one action, and pc forces   *)
(* the order of the code: idle -> running (_schedule_running) -> waiting   *)
(* (_schedule_waiting) <-> allocate (inside BlockManager.allocate) ->      *)
(* execute.  Only the engine thread moves pc away from idle, and requests  *)
(* are added and aborted between steps, when pc is idle.  LLMEngine adds   *)
(* the rest of the step.                                                   *)
(*                                                                         *)
(* With speculative decoding a running request carries draft tokens that   *)
(* this step verifies; draft[r] is their number.                           *)
(***************************************************************************)
EXTENDS BlockManager, Integers, SequencesExt

CONSTANTS
  MaxNumSeqs,           \* SchedulerConfig.max_num_seqs
  MaxNumBatchedTokens,  \* SchedulerConfig.max_num_batched_tokens
  MaxCacheHitTokens,    \* SchedulerConfig.max_cache_hit_context_tokens
  NumSpecTokens,        \* num_speculative_tokens, 0 without a SpeculativeConfig
  MaxTokens             \* MaxTokens[r]: sampling_params.max_tokens

(* SchedulerConfig.__post_init__; a max_cache_hit_context_tokens of None is  *)
(* max_num_batched_tokens.                                                  *)
SchedulerConfig ==
  /\ MaxNumSeqs \in Nat \ {0}
  /\ MaxNumBatchedTokens \in Nat \ {0}
  /\ MaxCacheHitTokens \in Nat \ {0}

ASSUME SchedulerAssumption ==
  /\ SchedulerConfig
  /\ MaxTokens \in [Requests -> Nat \ {0}]
  /\ NumSpecTokens \in Nat
  /\ \A r \in Requests : Len(Prompt[r]) + MaxTokens[r] + NumSpecTokens <= MaxLen

VARIABLES
  status,               \* RequestStatus, or "NEW" before the first add_request
  out,                  \* output_token_ids (see LLMEngine for a token)
  computed,             \* num_computed_tokens
  draft,                \* len(draft_token_ids)
  waiting, running,     \* the two queues
  arrivals,             \* history: the live requests in the order of add_request
  pc,                   \* where the engine thread is
  pending,              \* _schedule_running's deque
  kept,                 \* _schedule_running's `scheduled` list
  budget,               \* token_budget
  hitBudget,            \* cache_hit_context_budget
  scheduledNew,         \* SchedulerOutput.scheduled_new
  scheduledRunning,     \* SchedulerOutput.scheduled_running
  preempted             \* SchedulerOutput.preempted

requestVars == <<status, out, computed, draft>>
queueVars == <<waiting, running, arrivals>>
stepVars == <<pc, pending, kept, budget, hitBudget,
              scheduledNew, scheduledRunning, preempted>>
schedVars == <<bmVars, requestVars, queueVars, stepVars>>

-----------------------------------------------------------------------------
(* Request *)

FINISHED == {"STOPPED", "LENGTH_CAPPED", "ABORTED"}

GetLen(r) == Len(Prompt[r]) + Len(out[r])

GetNumNewTokens(r) == GetLen(r) - computed[r]

IsPrefill(r) == computed[r] < Len(Prompt[r])

IsFinished(r) == status[r] \in FINISHED

Least(a, b) == IF a < b THEN a ELSE b

(* A queue without r, which is in it once.                                  *)
Without(queue, r) == RemoveAt(queue, CHOOSE i \in DOMAIN queue : queue[i] = r)

(* A ScheduledRequest; pre is the output length that step() snapshots.      *)
Scheduled(r, n) == [req |-> r, n |-> n, pre |-> Len(out[r])]

-----------------------------------------------------------------------------
(* Between steps *)

(* add_request() of a fresh Request object; a live id is refused.           *)
AddRequest(r) ==
  /\ pc = "idle"
  /\ status[r] \in {"NEW"} \cup FINISHED
  /\ status' = [status EXCEPT ![r] = "WAITING"]
  /\ out' = [out EXCEPT ![r] = <<>>]
  /\ computed' = [computed EXCEPT ![r] = 0]
  /\ draft' = [draft EXCEPT ![r] = 0]
  /\ waiting' = Append(waiting, r)
  /\ arrivals' = Append(arrivals, r)
  /\ UNCHANGED <<bmVars, running, stepVars>>

(* abort_requests({r}): a waiting request leaves its queue, a running one   *)
(* also gives back its blocks (free_finished_requests).                     *)
AbortRequest(r) ==
  /\ pc = "idle"
  /\ \/ /\ Contains(waiting, r)
        /\ waiting' = Without(waiting, r)
        /\ UNCHANGED <<bmVars, running>>
     \/ /\ Contains(running, r)
        /\ running' = Without(running, r)
        /\ Free(r)
        /\ UNCHANGED waiting
  /\ status' = [status EXCEPT ![r] = "ABORTED"]
  /\ arrivals' = Without(arrivals, r)
  /\ UNCHANGED <<out, computed, draft, stepVars>>

-----------------------------------------------------------------------------
(* schedule() *)

(* The callers step the engine only while has_unfinished_requests().        *)
ScheduleBegin ==
  /\ pc = "idle"
  /\ waiting \o running # <<>>
  /\ pc' = "running"
  /\ pending' = running /\ kept' = <<>>
  /\ budget' = MaxNumBatchedTokens
  /\ hitBudget' = MaxCacheHitTokens
  /\ UNCHANGED <<bmVars, requestVars, queueVars,
                 scheduledNew, scheduledRunning, preempted>>

(* The tokens r has to compute: its drafts and the token before them, or    *)
(* whatever has no KV yet.                                                  *)
NumNew(r) == IF draft[r] > 0 THEN draft[r] + 1 ELSE GetNumNewTokens(r)

(* A verification takes all its rows even beyond the budget; anything else  *)
(* takes what is left of it.                                                *)
Chunk(r) == IF draft[r] > 0 THEN NumNew(r) ELSE Least(NumNew(r), budget)

Fits(r) ==
  IF draft[r] > 0 THEN CanEnsureCapacity(r, computed[r] + Chunk(r))
                  ELSE CanAppendSlot(r, GetLen(r))

ReserveSlots(r) ==
  IF draft[r] > 0 THEN EnsureCapacity(r, computed[r] + Chunk(r))
                  ELSE AppendSlot(r, GetLen(r))

(* Faulty variant: the last token of the budget is never given out.         *)
SkipRunningEarly ==
  /\ pc = "running" /\ pending # <<>>
  /\ NumNew(Head(pending)) <= 0 \/ budget <= 1
  /\ kept' = Append(kept, Head(pending))
  /\ pending' = Tail(pending)
  /\ UNCHANGED <<bmVars, requestVars, queueVars, pc, budget, hitBudget,
                 scheduledNew, scheduledRunning, preempted>>

(* Nothing to compute, or no budget left: r stays running, unscheduled.     *)
SkipRunning ==
  /\ pc = "running" /\ pending # <<>>
  /\ NumNew(Head(pending)) <= 0 \/ budget <= 0
  /\ kept' = Append(kept, Head(pending))
  /\ pending' = Tail(pending)
  /\ UNCHANGED <<bmVars, requestVars, queueVars, pc, budget, hitBudget,
                 scheduledNew, scheduledRunning, preempted>>

(* The head of pending is to be scheduled now.                              *)
Deciding(r) ==
  /\ pc = "running" /\ pending # <<>>
  /\ r = Head(pending)
  /\ NumNew(r) > 0 /\ budget > 0

(* Faulty variant: a request that is already scheduled goes first.          *)
VictimIsScheduled == IF kept # <<>> THEN Last(kept) ELSE Last(pending)

(* The tail of pending, which is the request itself when it is the last.    *)
Victim == Last(pending)

(* Faulty variants: the victim queues up behind everyone, or is forgotten.  *)
RequeueAtBack(v) == Append(waiting, v)

RequeueForgets(v) == waiting

(* _preempt() puts the victim at the front of the queue.                    *)
Requeue(v) == <<v>> \o waiting

(* _preempt(): the KV is gone, so everything is recomputed.                 *)
ResetComputed(v) == computed' = [computed EXCEPT ![v] = 0]

(* r does not fit: preempt from the tail, free the victim's blocks.         *)
PreemptForRunning ==
  \E r \in Requests :
    /\ Deciding(r)
    /\ ~Fits(r)
    /\ Free(Victim)
    /\ ResetComputed(Victim)
    /\ status' = [status EXCEPT ![Victim] = "PREEMPTED"]
    /\ waiting' = Requeue(Victim)
    /\ preempted' = preempted \cup {Victim}
    /\ pending' = Front(pending)
    /\ UNCHANGED <<out, draft, running, arrivals, pc, kept, budget, hitBudget,
                   scheduledNew, scheduledRunning>>

(* r fits: reserve its slot and give it a chunk of the budget.              *)
ScheduleRunning ==
  \E r \in Requests :
    /\ Deciding(r)
    /\ Fits(r)
    /\ ReserveSlots(r)
    /\ computed' = [computed EXCEPT ![r] = @ + Chunk(r)]
    /\ scheduledRunning' = Append(scheduledRunning, Scheduled(r, Chunk(r)))
    /\ budget' = budget - Chunk(r)
    /\ kept' = Append(kept, r)
    /\ pending' = Tail(pending)
    /\ UNCHANGED <<status, out, draft, queueVars, pc, hitBudget, scheduledNew, preempted>>

(* End of _schedule_running; a step that preempted admits nobody.           *)
RunningDone ==
  /\ pc = "running" /\ pending = <<>>
  /\ running' = kept
  /\ kept' = <<>>
  /\ pc' = IF preempted = {} THEN "waiting" ELSE "execute"
  /\ UNCHANGED <<bmVars, requestVars, waiting, arrivals, pending, budget,
                 hitBudget, scheduledNew, scheduledRunning, preempted>>

(* Faulty variant: the blocks are not checked.                              *)
AdmissibleIgnoresBlocks(r) ==
  /\ Len(running) < MaxNumSeqs
  /\ budget > 0
  /\ MatchPrefix(r) * BlockSize <= hitBudget

(* The head of the line can be admitted in this step.                       *)
Admissible(r) ==
  /\ Len(running) < MaxNumSeqs
  /\ budget > 0
  /\ MatchPrefix(r) * BlockSize <= hitBudget
  /\ CanAllocate(r, GetLen(r))

HeadAdmissible == waiting # <<>> /\ Admissible(Head(waiting))

(* Pop the head of the line and enter allocate().                           *)
AdmitWaiting ==
  /\ pc = "waiting" /\ HeadAdmissible
  /\ AllocateBegin(Head(waiting), GetLen(Head(waiting)))
  /\ waiting' = Tail(waiting)
  /\ pc' = "allocate"
  /\ UNCHANGED <<requestVars, running, arrivals, pending, kept, budget, hitBudget,
                 scheduledNew, scheduledRunning, preempted>>

AllocateEvicts ==
  /\ pc = "allocate"
  /\ DrainEviction
  /\ UNCHANGED <<requestVars, queueVars, stepVars>>

(* allocate() raises out of step(); the popped request is in no queue.      *)
AllocateRaises ==
  /\ pc = "allocate"
  /\ AllocateFail
  /\ pc' = "raised"
  /\ UNCHANGED <<requestVars, queueVars, pending, kept, budget, hitBudget,
                 scheduledNew, scheduledRunning, preempted>>

(* A full match still leaves one token to compute: the step has to sample.  *)
Seed(r) == Least(ncached[r] * BlockSize, Len(Prompt[r]) - 1)

(* allocate() has returned: r is running and gets its first chunk.          *)
AdmitDone ==
  \E r \in allocating :
    LET start == IF EnablePrefixCaching THEN Seed(r) ELSE computed[r]
        chunk == Least(GetLen(r) - start, budget)
    IN
    /\ pc = "allocate"
    /\ AllocateFinish(r)
    /\ status' = [status EXCEPT ![r] = "RUNNING"]
    /\ computed' = [computed EXCEPT ![r] = start + chunk]
    /\ hitBudget' = hitBudget - ncached[r] * BlockSize
    /\ scheduledNew' = Append(scheduledNew, Scheduled(r, chunk))
    /\ budget' = budget - chunk
    /\ running' = Append(running, r)
    /\ pc' = "waiting"
    /\ UNCHANGED <<out, draft, waiting, arrivals, pending, kept, scheduledRunning,
                   preempted>>

(* Nobody waits, or the head of the line blocks it.                         *)
WaitingDone ==
  /\ pc = "waiting"
  /\ ~HeadAdmissible
  /\ pc' = "execute"
  /\ UNCHANGED <<bmVars, requestVars, queueVars, pending, kept, budget, hitBudget,
                 scheduledNew, scheduledRunning, preempted>>

-----------------------------------------------------------------------------
(* Teardown *)

(* free_finished_requests(), one request; pc is "sweep" (see LLMEngine).    *)
FreeFinished ==
  /\ pc = "sweep"
  /\ \E r \in Requests :
       /\ Contains(running, r) /\ IsFinished(r)
       /\ Free(r)
       /\ running' = Without(running, r)
       /\ arrivals' = Without(arrivals, r)
  /\ UNCHANGED <<requestVars, waiting, stepVars>>

SchedulerInit ==
  /\ BMInit
  /\ status = [r \in Requests |-> "NEW"]
  /\ out = [r \in Requests |-> <<>>]
  /\ computed = [r \in Requests |-> 0]
  /\ draft = [r \in Requests |-> 0]
  /\ waiting = <<>> /\ running = <<>> /\ arrivals = <<>>
  /\ pc = "idle"
  /\ pending = <<>> /\ kept = <<>>
  /\ budget = 0 /\ hitBudget = 0
  /\ scheduledNew = <<>> /\ scheduledRunning = <<>> /\ preempted = {}
=============================================================================
