----------------------------- MODULE LLMEngine -----------------------------
(***************************************************************************)
(* model/llm_engine.py's step(): schedule, run the model, register the     *)
(* computed prefixes, correct the verified requests, sweep out the         *)
(* finished ones, draft for the others (DraftProposer); with the contents  *)
(* of the KV cache that model/model_runner.py writes and reads through the *)
(* block tables (model/kv_cache.py).                                       *)
(*                                                                         *)
(* The KV entry of a position depends on every token up to it, so a slot's *)
(* content is the pair <<prompt prefix, output prefix>> it was computed    *)
(* from.  A block that is free holds Blank slots: whatever it held before  *)
(* is never counted as correct for its next owner.                         *)
(*                                                                         *)
(* Greedy sampling is deterministic, so an output token is represented by  *)
(* the position whose row it was sampled from, and by whether it is eos.   *)
(* How many draft tokens the target confirms is left open, and so is which *)
(* tokens are eos.  NumSpecTokens = 0 stands for no speculative_config.    *)
(*                                                                         *)
(* A request id is used again only if ReuseIds; the shadow of the earlier  *)
(* request is then still there.                                            *)
(***************************************************************************)
EXTENDS Scheduler

CONSTANTS
  NumDraftBlocks,       \* SpeculativeConfig.draft_num_gpu_blocks
  ReuseIds              \* whether clients use the id of a finished request again

VARIABLES
  kv,                   \* k_cache/v_cache: block -> offset -> content
  todo,                 \* the batch entries a loop of step() has still to visit
  resumed,              \* history: requests preempted since they had output
  shadows,              \* see DraftProposer
  proposed              \* the requests the propose loop of step() has passed

draftVars == <<shadows, proposed>>

vars == <<schedVars, kv, todo, resumed, draftVars>>

Drafts == INSTANCE DraftProposer

ASSUME DraftAssumption ==
  /\ NumSpecTokens > 0 => Drafts!SpeculativeConfig
  /\ ReuseIds \in BOOLEAN

-----------------------------------------------------------------------------
(* KV cache *)

Offsets == 0..(BlockSize - 1)

Blank == <<>>

(* What the slot of r's position p (from 0) holds when it was computed from *)
(* r's own tokens, with the output o.                                       *)
Content(r, p, o) ==
  LET n == Len(Prompt[r]) IN
  << SubSeq(Prompt[r], 1, Least(p + 1, n)),
     SubSeq(o, 1, IF p < n THEN 0 ELSE p + 1 - n) >>

(* _physical_locations(): position p is in entry p \div BlockSize.          *)
Block(r, p) == tables[r][(p \div BlockSize) + 1]

Slot(r, p) == kv[Block(r, p)][p % BlockSize]

-----------------------------------------------------------------------------
(* execute_model() *)

Batch == scheduledNew \o scheduledRunning

(* The first position the forward pass computes for entry sr.               *)
Start(sr) == computed[sr.req] - sr.n

(* The rows of the flat batch: a request and a position for each token.     *)
Rows == UNION { {sr.req} \X (Start(sr)..(computed[sr.req] - 1)) : sr \in ToSet(Batch) }

(* Faulty variant: every chunk records a sample.                            *)
RecordsEveryChunk == { sr.req : sr \in ToSet(Batch) }

(* The requests whose sample is recorded: those past their prompt.          *)
Sampling == { sr.req : sr \in { e \in ToSet(Batch) : ~IsPrefill(e.req) } }

(* Faulty variant: all tokens are sampled from the last row.                *)
CommittedFromLastRow(r, c, eos) ==
  [i \in 1..c |-> [by |-> computed[r] - 1, eos |-> i \in eos]]

(* _accept_reject() and the plain sample: between one and draft[r] + 1      *)
(* tokens, each sampled from a row of its own.                              *)
Committed(r, c, eos) ==
  [i \in 1..c |-> [by |-> computed[r] - draft[r] - 2 + i, eos |-> i \in eos]]

(* Faulty variant: the output is replaced, not extended.                    *)
Replaced(r, new) == new

Extended(r, new) == out[r] \o new

(* What the pass leaves in the slot of position p: the KV of r's own tokens *)
(* unless the row's input was a draft that is not r's next token.           *)
RowContent(sr, p, o) ==
  LET r == sr.req
      isDraft == draft[r] > 0 /\ p > Start(sr)
      confirmed == Start(sr) = GetLen(r) - 1 /\ p < Len(Prompt[r]) + Len(o) - 1
  IN IF isDraft /\ ~confirmed THEN Blank ELSE Content(r, p, o)

(* The slots written in this pass, given each request's new output.         *)
Written(newOut) ==
  UNION { { <<Block(sr.req, p), p % BlockSize, RowContent(sr, p, newOut[sr.req])>>
            : p \in Start(sr)..(computed[sr.req] - 1) } : sr \in ToSet(Batch) }

(* maybe_finish(), with the output o.                                       *)
MaybeFinish(r, o) ==
  CASE Last(o).eos -> "STOPPED"
    [] ~Last(o).eos /\ Len(o) >= MaxTokens[r] -> "LENGTH_CAPPED"
    [] OTHER -> status[r]

(* _build_flat_batch()'s assertion: a request with drafts runs exactly its  *)
(* verification rows.                                                       *)
DraftRowsMatch == \A sr \in ToSet(Batch) : draft[sr.req] > 0 => sr.n = draft[sr.req] + 1

ExecuteModel ==
  /\ pc = "execute" /\ DraftRowsMatch
  /\ \E c \in [Sampling -> 1..(NumSpecTokens + 1)],
        eos \in [Sampling -> SUBSET (1..(NumSpecTokens + 1))] :
       /\ \A r \in Sampling : c[r] <= draft[r] + 1 /\ eos[r] \subseteq 1..c[r]
       /\ out' = [r \in Requests |-> IF r \in Sampling
                                     THEN Extended(r, Committed(r, c[r], eos[r]))
                                     ELSE out[r]]
  /\ status' = [r \in Requests |-> IF r \in Sampling THEN MaybeFinish(r, out'[r])
                                                     ELSE status[r]]
  /\ kv' = LET written == Written(out') IN
       [b \in Blocks |-> [o \in Offsets |->
          IF \E w \in written : w[1] = b /\ w[2] = o
          THEN (CHOOSE w \in written : w[1] = b /\ w[2] = o)[3]
          ELSE kv[b][o]]]
  /\ todo' = IF EnablePrefixCaching THEN Batch ELSE <<>>
  /\ pc' = "register"
  /\ UNCHANGED <<bmVars, computed, draft, queueVars, pending, kept, budget, hitBudget,
                 scheduledNew, scheduledRunning, preempted, resumed, draftVars>>

(* The assertion fails and the exception leaves step().                     *)
ExecuteRaises ==
  /\ pc = "execute" /\ ~DraftRowsMatch
  /\ pc' = "raised"
  /\ UNCHANGED <<bmVars, requestVars, queueVars, pending, kept, budget, hitBudget,
                 scheduledNew, scheduledRunning, preempted, kv, todo, resumed, draftVars>>

-----------------------------------------------------------------------------
(* step() after the forward pass *)

(* The prefix-cache loop: only an entry that computed prompt tokens.        *)
RegisterPrefix ==
  LET sr == Head(todo) IN
  /\ pc = "register" /\ todo # <<>>
  /\ IF computed[sr.req] - sr.n < Len(Prompt[sr.req])
     THEN InsertComputedPrefix(sr.req, computed[sr.req])
     ELSE UNCHANGED bmVars
  /\ todo' = Tail(todo)
  /\ UNCHANGED <<requestVars, queueVars, stepVars, kv, resumed, draftVars>>

RegisterDone ==
  /\ pc = "register" /\ todo = <<>>
  /\ todo' = scheduledRunning
  /\ pc' = "correct"
  /\ UNCHANGED <<bmVars, requestVars, queueVars, pending, kept, budget, hitBudget,
                 scheduledNew, scheduledRunning, preempted, kv, resumed, draftVars>>

(* How many of the committed tokens stay: up to the first stop condition.   *)
Accepted(sr) ==
  LET r == sr.req
      new == 1..(Len(out[r]) - sr.pre)
      stops == { i \in new : out[r][sr.pre + i].eos \/ sr.pre + i >= MaxTokens[r] }
  IN IF stops = {} THEN Len(out[r]) - sr.pre ELSE Min(stops)

(* Faulty variant: the rejected rows stay computed.                         *)
WindBackNothing(sr) == computed[sr.req]

WindBack(sr) == computed[sr.req] - (sr.n - Accepted(sr))

(* The entry at i is the next one that carried drafts.                      *)
NextVerified(i) ==
  /\ draft[todo[i].req] > 0
  /\ \A j \in 1..(i - 1) : draft[todo[j].req] = 0

(* Undo the over-advance of a verified request: trim the output at the stop *)
(* condition, wind num_computed_tokens back to what was accepted; the draft  *)
(* model's shadow likewise.                                                 *)
CorrectSpeculation ==
  \E i \in DOMAIN todo :
    LET sr == todo[i]
        r == sr.req
        end == sr.pre + Accepted(sr)
    IN
    /\ pc = "correct" /\ NextVerified(i)
    /\ out' = [out EXCEPT ![r] = SubSeq(@, 1, end)]
    /\ status' = IF end = Len(out[r]) THEN status
                 ELSE [status EXCEPT ![r] =
                         IF out[r][end].eos THEN "STOPPED" ELSE "LENGTH_CAPPED"]
    /\ computed' = [computed EXCEPT ![r] = WindBack(sr)]
    /\ draft' = [draft EXCEPT ![r] = 0]
    /\ Drafts!Rollback(r, Accepted(sr))
    /\ todo' = SubSeq(todo, i + 1, Len(todo))
    /\ UNCHANGED <<bmVars, queueVars, stepVars, kv, resumed, proposed>>

CorrectDone ==
  /\ pc = "correct" /\ \A i \in DOMAIN todo : ~NextVerified(i)
  /\ todo' = <<>>
  /\ pc' = "sweep"
  /\ UNCHANGED <<bmVars, requestVars, queueVars, pending, kept, budget, hitBudget,
                 scheduledNew, scheduledRunning, preempted, kv, resumed, draftVars>>

(* The requests the loop still has to draft for.                            *)
ToPropose ==
  { r \in ToSet(running) : NumSpecTokens > 0 /\ ~IsPrefill(r) /\ r \notin proposed }

(* r is the first of them, in the order of running.                         *)
NextToPropose(r) ==
  \E i \in DOMAIN running :
    /\ r = running[i] /\ r \in ToPropose
    /\ \A j \in 1..(i - 1) : running[j] \notin ToPropose

Swept == pc = "sweep" /\ \A r \in ToSet(running) : ~IsFinished(r)

ProposeDrafts ==
  \E r \in Requests :
    /\ Swept /\ NextToPropose(r)
    /\ Drafts!CanPropose(r, GetLen(r))
    /\ Drafts!Propose(r, GetLen(r))
    /\ draft' = [draft EXCEPT ![r] = NumSpecTokens]
    /\ proposed' = proposed \cup {r}
    /\ UNCHANGED <<bmVars, status, out, computed, queueVars, stepVars, kv, todo, resumed>>

(* propose() raises out of step(): no row to sample from, or no block left. *)
ProposeRaises ==
  \E r \in Requests :
    /\ Swept /\ NextToPropose(r)
    /\ ~Drafts!CanPropose(r, GetLen(r))
    /\ pc' = "raised"
    /\ UNCHANGED <<bmVars, requestVars, queueVars, pending, kept, budget, hitBudget,
                   scheduledNew, scheduledRunning, preempted, kv, todo, resumed, draftVars>>

(* step() returns.                                                          *)
StepDone ==
  /\ Swept /\ ToPropose = {}
  /\ proposed' = {}
  /\ pc' = "idle"
  /\ scheduledNew' = <<>> /\ scheduledRunning' = <<>> /\ preempted' = {}
  /\ budget' = 0 /\ hitBudget' = 0
  /\ UNCHANGED <<bmVars, requestVars, queueVars, pending, kept, kv, todo, resumed, shadows>>

-----------------------------------------------------------------------------
(* The engine *)

(* A step of the scheduler leaves the contents of blocks in use alone, and  *)
(* resumed is the history of the requests preempted with output.            *)
Frame ==
  /\ kv' = [b \in Blocks |-> IF b \in free' THEN [o \in Offsets |-> Blank] ELSE kv[b]]
  /\ resumed' = { r \in Requests : /\ out'[r] # <<>>
                                   /\ r \in resumed \/ status'[r] = "PREEMPTED" }
  /\ UNCHANGED <<todo, draftVars>>

Init ==
  /\ SchedulerInit
  /\ kv = [b \in Blocks |-> [o \in Offsets |-> Blank]]
  /\ todo = <<>> /\ resumed = {}
  /\ shadows = Drafts!NoShadows /\ proposed = {}

(* schedule() and the sweep of step(), the scheduler's part.                *)
ScheduleStep ==
  \/ ScheduleBegin /\ Frame
  \/ SkipRunning /\ Frame
  \/ PreemptForRunning /\ Frame
  \/ ScheduleRunning /\ Frame
  \/ RunningDone /\ Frame
  \/ AdmitWaiting /\ Frame
  \/ AllocateEvicts /\ Frame
  \/ AllocateRaises /\ Frame
  \/ AdmitDone /\ Frame
  \/ WaitingDone /\ Frame
  \/ FreeFinished /\ Frame

(* The forward pass and the loops after it.                                 *)
ForwardStep ==
  \/ ExecuteModel
  \/ ExecuteRaises
  \/ RegisterPrefix
  \/ RegisterDone
  \/ CorrectDone

(* The speculative part of step(), and its end.                             *)
DraftStep ==
  \/ CorrectSpeculation
  \/ ProposeDrafts
  \/ ProposeRaises
  \/ StepDone

EngineStep == ScheduleStep \/ ForwardStep \/ DraftStep

Submit(r) == (status[r] = "NEW" \/ ReuseIds) /\ AddRequest(r) /\ Frame

Cancel(r) == AbortRequest(r) /\ Frame

Next == EngineStep \/ \E r \in Requests : Submit(r) \/ Cancel(r)

Spec == Init /\ [][Next]_vars

(* The engine thread steps as long as there is an unfinished request; the   *)
(* clients owe nothing.                                                     *)
FairSpec == Spec /\ WF_vars(EngineStep)

-----------------------------------------------------------------------------
(* Properties *)

Token == [by : Nat, eos : BOOLEAN]

BatchEntry == [req : Requests, n : Nat \ {0}, pre : Nat]

(* The types of the engine's state.                                         *)
TypeOK ==
  /\ BMTypeOK
  /\ status \in [Requests -> {"NEW", "WAITING", "RUNNING", "PREEMPTED"} \cup FINISHED]
  /\ out \in [Requests -> Seq(Token)]
  /\ computed \in [Requests -> Nat]
  /\ draft \in [Requests -> Nat]
  /\ waiting \in Seq(Requests) /\ running \in Seq(Requests) /\ arrivals \in Seq(Requests)
  /\ pc \in {"idle", "running", "waiting", "allocate", "execute", "register",
             "correct", "sweep", "raised"}
  /\ pending \in Seq(Requests) /\ kept \in Seq(Requests)
  /\ budget \in Int /\ hitBudget \in Nat
  /\ scheduledNew \in Seq(BatchEntry)
  /\ scheduledRunning \in Seq(BatchEntry)
  /\ preempted \subseteq Requests
  /\ kv \in [Blocks -> [Offsets -> {Blank} \cup (Seq(Nat) \X Seq(Token))]]
  /\ todo \in Seq(BatchEntry)
  /\ resumed \subseteq Requests
  /\ DOMAIN shadows \subseteq Requests /\ proposed \subseteq Requests

(* "FIFO (arrival order, preempted requests requeued at the front)": at     *)
(* every point where both queues are settled, the running requests and then *)
(* the waiting ones are the live requests in arrival order, so no request   *)
(* ever overtakes an earlier one.                                           *)
ArrivalOrder ==
  pc \notin {"running", "allocate", "raised"} => running \o waiting = arrivals

(* A request in the waiting queue holds nothing: no block, no trie node, no *)
(* computed token.  allocate() would raise, or the seed be wrong, otherwise.*)
WaitingHoldsNothing ==
  \A r \in ToSet(waiting) :
    tables[r] = <<>> /\ ncached[r] = 0 /\ computed[r] = 0

(* "a scheduling decision, once made, is never undone later in the same     *)
(* step": at the forward pass every entry is a running request, entered     *)
(* once, whose table covers every position the pass writes and reads, and   *)
(* the rows of all entries stay within the token budget.                    *)
BatchIsExecutable ==
  pc = "execute" =>
    /\ \A sr \in ToSet(Batch) :
         /\ Contains(running, sr.req) /\ status[sr.req] = "RUNNING"
         /\ sr.n <= computed[sr.req] /\ computed[sr.req] <= Capacity(sr.req)
         /\ computed[sr.req] <= GetLen(sr.req) + draft[sr.req]
    /\ Cardinality({ sr.req : sr \in ToSet(Batch) }) = Len(Batch)
    /\ Cardinality(Rows) + budget = MaxNumBatchedTokens

(* What the forward pass relies on, all of it.                              *)
StepIsConsistent == TypeOK /\ WaitingHoldsNothing /\ BatchIsExecutable

(* After the forward pass every slot a running request counts as computed   *)
(* holds the KV of its own tokens, through shared, duplicated, evicted and  *)
(* reused blocks.                                                           *)
KVBelongsToRequest ==
  pc \in {"sweep", "idle"} =>
    \A r \in ToSet(running) : \A p \in 0..(computed[r] - 1) :
      Slot(r, p) = Content(r, p, out[r])

(* insert_computed_prefix()'s docstring: a cached block holds exactly what  *)
(* its path claims, so a match never reuses the wrong KV.                   *)
CachedKVIsWhatItClaims ==
  \A n \in DOMAIN trie : \A o \in Offsets :
    kv[trie[n].phys][o] = << SubSeq(n, 1, Len(n) - BlockSize + o + 1), <<>> >>

(* What is in the cache is right, whoever wrote it and whoever reads it.    *)
KVIsCorrect == KVBelongsToRequest /\ CachedKVIsWhatItClaims

(* The i-th output token of dense greedy decoding is sampled from the row   *)
(* of the token before it.                                                  *)
Dense(r) == \A i \in 1..Len(out[r]) : out[r][i].by = Len(Prompt[r]) + i - 2

(* Batching, chunked prefill, preemption and prefix reuse do not change     *)
(* what is generated (model/tests/test_llm_engine.py compares with dense).  *)
OutputsAreDense == \A r \in Requests : Dense(r)

(* The same for the requests that were never preempted after their first    *)
(* token: a chunked prefill records a sample only at its last chunk.        *)
UnpreemptedOutputsAreDense == \A r \in Requests \ resumed : Dense(r)

(* The trim in step(): a verified batch that runs past a stop condition is  *)
(* cut there, so after the correction no output is longer than max_tokens   *)
(* and nothing follows an eos; and a request whose output reached a stop    *)
(* condition is finished.  A request preempted with its drafts is verified  *)
(* as a new one, which the correction passes over.                          *)
OutputsEndAtStop ==
  pc \in {"sweep", "idle"} =>
    \A r \in Requests \ resumed : \A i \in 1..Len(out[r]) :
      out[r][i].eos \/ i >= MaxTokens[r] => i = Len(out[r]) /\ IsFinished(r)

(* Between steps a decoding request lacks the KV of its last token and of   *)
(* no other: the over-advance of a verification has been undone exactly.    *)
OneTokenBehind ==
  pc = "idle" =>
    \A r \in ToSet(running) \ resumed :
      out[r] # <<>> => computed[r] = GetLen(r) - 1

(* Each slot that a request counts as computed holds the KV of its own      *)
(* tokens and none of a rejected draft's, and nothing else is cached.  A    *)
(* request preempted with drafts is not promised that (what its             *)
(* re-admission computes are drafts still).                                 *)
VerifiedKVIsOwn ==
  /\ pc \in {"sweep", "idle"} =>
       \A r \in ToSet(running) \ resumed : \A p \in 0..(computed[r] - 1) :
         Slot(r, p) = Content(r, p, out[r])
  /\ CachedKVIsWhatItClaims

(* step()'s correction: nothing of a rejected draft and nothing past a stop *)
(* condition survives the step, in the output, the counts or the KV.        *)
CorrectionIsExact == OutputsEndAtStop /\ OneTokenBehind /\ VerifiedKVIsOwn

(* A request whose drafts were not verified in this step although it has    *)
(* some: it was preempted with them, or the budget left it out.             *)
KeptDrafts(r) ==
  /\ draft[r] > 0
  /\ r \in resumed \/ \A sr \in ToSet(Batch) : sr.req # r

(* When propose() is about to resync, every position the shadow counts as   *)
(* computed holds the draft KV of the request's own tokens, and at least    *)
(* one token is left to compute (draft_proposer.py's rollback docstring: it *)
(* "overshoots by num_speculative_tokens - num_accepted").  A request that  *)
(* was preempted or kept its drafts is not promised that.                   *)
ShadowFollowsRequest ==
  pc = "sweep" =>
    \A r \in ToPropose \ resumed :
      ~KeptDrafts(r) =>
        LET s == Drafts!Shadow(r) IN s.computed <= s.right /\ s.right < GetLen(r)

(* The draft blocks of the shadows of requests that no longer run.          *)
LeftoverBlocks ==
  MapThenSumSet(LAMBDA r : shadows[r].blocks, DOMAIN shadows \ ToSet(running))

(* What makes a step raise, besides an unreserved allocation (Accounting    *)
(* holds through that one).  execute_model()'s assertion fails only on an   *)
(* entry of a request that was preempted with drafts and readmitted with    *)
(* them.  propose() finds nothing to compute only for a request that still  *)
(* has drafts that were not verified, and finds its pool, which has room    *)
(* for the requests that can run together, short only of what the shadows   *)
(* of requests that no longer run have not given back.                      *)
OnlyLeftoversRaise ==
  /\ pc = "execute" =>
       \A sr \in ToSet(Batch) :
         draft[sr.req] > 0 /\ sr.n # draft[sr.req] + 1 =>
           sr \in ToSet(scheduledNew) /\ sr.req \in resumed
  /\ \A r \in Requests :
       Swept /\ NextToPropose(r) =>
         /\ Drafts!ResyncDelta(r, GetLen(r)) > 0 \/ KeptDrafts(r)
         /\ Drafts!DraftBlocksNeeded(GetLen(r) + NumSpecTokens - 1)
              <= Drafts!Shadow(r).blocks + Drafts!FreeDraftBlocks + LeftoverBlocks

(* Without speculation every running request has work ("num_new <= 0" does  *)
(* not happen) and the budget never leaves one out: whoever would exhaust   *)
(* it blocks later admissions instead.                                      *)
EveryRunningRequestAdvances ==
  pc = "execute" /\ NumSpecTokens = 0 =>
    \A r \in ToSet(running) : \E sr \in ToSet(Batch) : sr.req = r

(* Every submitted request finishes or is aborted.                          *)
EveryRequestFinishes ==
  \A r \in Requests : status[r] = "WAITING" ~> IsFinished(r)

(* LLMEngine is a caller that keeps BlockManager's protocol.                *)
KeepsBlockManagerProtocol == BMSpec

Contract == INSTANCE EngineContract WITH
  live <- { r \in Requests : status[r] \in {"WAITING", "RUNNING", "PREEMPTED"} },
  tokens <- [r \in Requests |-> Len(out[r])]

(* Without speculation the engine implements the contract: preemption       *)
(* throws away KV and never tokens, no request exceeds max_tokens, and one  *)
(* that has ended does not change until its id is submitted anew.           *)
KeepsEngineContract == Contract!ContractSpec
=============================================================================
