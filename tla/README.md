# A TLA+ model of lightserve

lightserve is a small LLM inference server in Python: a continuous-batching
scheduler over a paged KV cache with prefix sharing, a model runner with
speculative decoding, an HTTP server in front of it, a prefill/decode split over
two nodes, and the tooling around it: a retraining pipeline with a canary, tools
that change settings of the host for an experiment, and a chaos rehearsal. This
directory models the parts that carry the program's own concurrency, bookkeeping
and failure handling.

## Inventory

| component | state | operations | hard behaviour |
|---|---|---|---|
| `engine/prefix_cache.py` RadixTrie | nodes (path, physical block, ref count, last use) | match, acquire, release, insert, evict_one_lru | shared ownership, LRU order, leaf-first eviction |
| `engine/block_manager.py` BlockManager | free blocks, block tables, held nodes | can_allocate / allocate, can_append_slot / append_slot, can_ensure_capacity / ensure_capacity, insert_computed_prefix, free | check-then-act, an allocation that evicts while it runs, private duplicates of shared blocks |
| `engine/request.py` Request | prompt, output, computed tokens, drafts, status | lengths, is_prefill, maybe_finish | counters read by four other parts |
| `engine/scheduler.py` Scheduler | waiting and running queues | add, schedule (running loop, waiting loop, preemption), sweep, abort | budgets, preemption from the tail, chunked prefill, FIFO |
| `model/llm_engine.py` LLMEngine | the step in progress | add_request, step | order of schedule, forward pass, prefix registration, speculative correction, sweep, proposals |
| `model/model_runner.py`, `model/kv_cache.py` | KV contents | execute_model, write, read, export, import | which rows are computed from what, which samples count |
| `model/draft_proposer.py` DraftProposer | shadow requests with blocks of their own | propose, rollback | resync with a request that was trimmed or preempted, blocks that are never freed |
| `server/engine_worker.py`, `server/app.py` | submission queue, streams, deadlines, error flag, in-flight gauge | submit, abort, the engine loop, streaming, disconnect | two threads, timeouts, engine death |
| `model/pd_disaggregation.py`, `server/pd_role_server.py` | the queue, pending requests and log of the decode node | prefill, export, resume, the decode thread, reset of the log, stop | a request that enters past the scheduler, a full decode cache |
| `mlops/retrain.py`, `mlops/dags/drift_retrain.py` | the pointer, the runs' tasks, the watch's rounds | the ten tasks of a run, each tried twice | task retries after partial effects, readings torn by a scrape |
| `training/qlora_financial/` canary, registry, promote | canary's loop and gauges, versions and alias | follow, rounds, register, finish_champion, decide | the pointer moves between rounds; versions without their label |
| `infra/os/` tune, isolate, topology | settings of the host, state files | tuned, as-found, restore; steer and restore interrupts | kills and failures between saving and writing, irqbalance |
| `infra/chaos/` | an experiment, the cluster, the load's records | six experiments, clean-up, judges, the registration probe | clean-up from every exit, late and hung requests |
| `mlops/cost.py` | a ledger | gpu_job | jobs that fail |
| `kernels/`, `benchmarks/`, data preparation, training, monitoring, terraform, helm | none of their own | | numeric code, I/O and configuration: not modelled |

Interactions. The worker calls `LLMEngine.add_request`, `step` and
`Scheduler.abort_requests` from one thread; a step calls the scheduler, which
calls the block manager, which calls the trie; the model runner reads and writes
the KV cache through the block tables; after the forward pass the step calls the
draft proposer. Handlers share only thread-safe queues and `self.error` with the
engine thread. The decode node's thread drives an engine of its own, and a
handoff travels with the client. The pipeline, the canary, vLLM, the registry
and Prometheus share the pointer file, the loaded adapters, the registry's alias
and the scraped gauges. The two host tools share nothing but the machine; the
chaos runner works through kubectl. What is hard to test in each of them is
listed, at its line, under `hazards` in `PROJECT.json`.

## Modules

```
RadixTrie <- BlockManager <- Scheduler <- LLMEngine <- MCLLMEngine
                    ^                        |   ^
                    +- MCBlockManager        |   +-- PDHandoff <- MCPDHandoff
                                  implements |           | implements
       DraftProposer --(INSTANCE)------------+           v
                                             +-----> EngineContract

BlockManager <- BlockManagerProofs <-+
LLMEngine    <-----------------------+- EngineProofs <-+- EngineOutputProofs
                                                             ^
PDHandoff    <-----------------------------------------------+- HandoffProofs

EngineWorker <- MCEngineWorker
EngineWorker <- EngineWorkerProofs

QualityGate <- Canary <-+
                        +- RetrainPipeline <- MCRetrainPipeline
           FineTuneData <+  RetrainPipeline <- RetrainProofs
HostSettings <- MCHostSettings
HostSettings <- HostProofs
ChaosJudges <- ChaosRunner <- MCChaosRunner
               ChaosRunner <- ChaosProofs
```

### The engine

**RadixTrie** A node is the token path from the root, so the hash chain of the
code (an index on that identity) disappears. `last_used` is only ever compared
and is kept as a rank, which makes the clock finite. A tie may be broken either
way; the code takes the first in dictionary order.

**BlockManager** One action per method. `allocate()` is the only method with a
loop that changes shared state, so it is a sequence of steps: AllocateBegin
(acquire the match), DrainEviction any number of times, then AllocateFinish or
AllocateFail. `BMSpec` is the manager under *any* caller that keeps the
documented protocol (`can_x` before `x`, one call at a time). Which of the free
ids a pop returns is left open, which is sound because ids are never compared.
The checks of `CacheConfig.__post_init__` are the assumption on the constants;
SchedulerConfig and SpeculativeConfig are treated alike.

**Scheduler** One iteration of each of the two loops of `schedule()` is an
action; `pc` gives the order. The popped-and-put-back head of `waiting` is a
test without effect. `AddRequest` stands for a fresh Request object under an id
that is not live; `AbortRequest` for `abort_requests`, a waiting or a running
request, whose whole teardown happens in that action.

**LLMEngine** The rest of `step()`. The KV entry of a position depends on every
token up to it, so a slot's content is the pair of prompt prefix and output
prefix it was computed from; a rejected draft leaves a Blank. Blocks that return
to the pool are blanked, so that stale contents never pass for correct ones (in
the code they keep old values that the next owner overwrites before reading).
A sampled token is the position of the row it was sampled from plus whether it
is eos; how many drafts the target confirms and which tokens are eos are left
open.

**DraftProposer** The draft side of a step, which LLMEngine instantiates: a
shadow per request with its own computed count and number of blocks, rolled back
in the correction loop (CorrectSpeculation) and drafted for after the sweep, one
request at a time (ProposeDrafts). `NumSpecTokens = 0` leaves all of it out. As
a history a shadow also keeps how many of its leading positions hold the draft
KV of the request's own tokens. `propose()` raises when it has no row to sample
from or no block left; nothing ever returns a block to its pool.

**EngineContract** What a server promises of a request: live requests gain
tokens and never lose one, and end for good at the limit, at an eos or when
aborted. `LLMEngine` implements it (KeepsEngineContract), and so do the two
nodes of PDHandoff together (HandoffKeepsContract), each with its own mapping.

**EngineWorker** Handlers and the engine thread interleave at each queue
operation and each access to `self.error`. `submit()` is two actions (put, then
check); `timed()` counts a request in flight at its first read and takes it out
on an end or when its generator is closed. The engine is abstracted to what the
worker can see: a step schedules some of the requests it holds, each gains
between none and `TokensPerStep` tokens, some finish, or it raises. Only a
streaming handler notices a disconnect.

**PDHandoff** The variables of LLMEngine are the decode node's engine, driven by
the thread of `_DecodeWorker`. A handoff is a client that carries one; the
prefill node handles one request at a time and forgets it. `resume_decode()`
allocates without asking, so the thread may die of a full cache.

### The retraining pipeline

**QualityGate** `promote.decide` and the gate on saved answers: sets of
questions asked and answered right. The sign test is done in integers and is
compared with its definition (all outcomes of a coin per disagreement) by an
ASSUME of MCRetrainPipeline.

**FineTuneData** `select_like` and `build_data` over numbers of rows of a kind.

**Canary** `canary.py`'s loop and Prometheus between it and the watch. A round's
score is low or not; a time stamp is the number of rounds scored by then.

**RetrainPipeline** A task is a sequence of steps with one outside effect each.
A try fails before any step (a refused call, a timeout, a lost worker), and the
task starts again from its first step, once, as `retries=1` does. `Faults` names
the tasks whose tries may fail for a reason of their own; a task that vLLM or the
gate refuses fails in any case. vLLM may restart without its adapters.

### Operations

**HostSettings** `tune.py` and `isolate.py` as one-command-at-a-time processes
with a state file each, on the core layout of `topology.py`. A setting may not
take, any write may fail, a process may be killed between any two steps, and
irqbalance moves interrupts whenever it runs. `write_text()` of a state file is
two steps, one that empties it (TuneBegin, SteerEnd) and one that writes it
(WriteSaved, WriteOriginals); killed in between, the file stays empty
(`savedTorn`, `isoTorn`), and every later command that reads it raises: tune.py's
before it changes anything, isolate.py's after it stopped the containers and, in
an isolated mode, irqbalance (StateUnreadable). A failed write to an interrupt is
reported when steering and passed over when putting back; the history variable
`refused` names those interrupts. `KillStages` says at which stages of isolate.py
it may be killed; tune.py may be at all of its own.

**ChaosJudges, ChaosRunner** An experiment is a list of commands in the four
stages of its Python function (body, try, finally, clean-up). Any command may
fail, with or without its effect; the runner may be killed. The cluster acts by
itself while time passes: pods start, Chaos Mesh's timers run, lightserve comes
back, alerts go from pending to firing, the load's user gets its answers. The
verdicts are the code's, on records and facts gathered that way.

Definitions marked as faulty variants change one definition each the way a slip
in that code would; they are used only to confirm that a property notices.

## What the runs check

| run | instance | shows |
|---|---|---|
| `bm` | 3 requests, 6 blocks of 2, watermark 0, lengths to 7 | exact accounting under any protocol-keeping caller, also after `allocate()` raised; the trie closed under prefixes |
| `prefix` | 3 requests (two share a block), 4 blocks, 2 tokens per step, prefix caching, watermark 1 | arrival order, executable batches, no stale KV in tables or cache, everyone running advances, a checked allocation does not raise |
| `spec` | 3 requests (one prompt a cached prefix of another, which has 7 tokens; the third shares nothing), 2 drafts each, 5 blocks, 9 draft blocks, 3 tokens per step, watermark 0 | outputs end at the first stop condition, the over-advance is undone exactly, no KV of a rejected draft is counted or cached, the shadow's KV is the request's own, a request makes a step raise only by drafts of its own that were not verified or by lacking the draft blocks that shadows of ended requests keep, and the engine implements `BMSpec`, so the theorems about blocks speak of an engine with drafts too |
| `memory` | 3 requests, 3 blocks, no prefix caching, a budget that fits any recompute | preemption does not change the output, the engine implements EngineContract, every request finishes |
| `worker` | 2 streaming clients with their own ids, one without a timeout, 2 tokens each | streams carry the output exactly and nothing after an end; tables, deadlines and the in-flight gauge are exact; a dead engine leaves no stream open; a stream with a deadline ends; a disconnected client's request leaves the engine |
| `handoff` | 3 clients, one ends in prefill; decode node with 3 blocks and one seat that handoffs ignore | answers are those of a single engine through preemption and recompute of imported KV; the log has no gap; EngineContract across the two nodes; every handoff is answered unless the thread was stopped or died |
| `retrain` | 2 runs one after the other, 16 questions of two sources, 2 canary rounds, failing tries of watch, register and rollback, one vLLM restart | the current model is loaded, the watch counts each round of the new model once, whoever is current or champion has earned it, and each end of a run is complete |
| `os` | 2 groups of settings, 4 cores with twins, 3 interrupts (one managed), failing writes, kills at every step of tune and, in isolate, while the state file is written, interrupts are put back or containers start | a state file that can be read has every original and nothing changes while it cannot, tools tell the truth, A/B rounds leak nothing but what could not be put back, no neighbour and no interrupt that could be moved is on the reserved cores |
| `chaos` | any 2 of the 6 experiments in a row, one failing command or one kill | nothing is left behind, evidence is complete and undisturbed, a pass is deserved, the probe leaves one champion, every experiment ends |

Bounds. Two requests that share a prefix and one that does not are the least
with sharing, private duplicates, eviction of a whole path and preemption of a
third. Block sizes are chosen so that prompts end inside and at the end of a
block. The token budgets are smaller than the longest sequence, so chunking
happens, except in `memory` and `handoff`, where a recompute must fit one step
(see `chunked_recompute`). `MaxLen` bounds what a caller may pass, `MaxTokens`
what is generated; requests may be submitted again after they ended, so
histories are unbounded, except in `spec` and `handoff`, where an id is used
once. In `spec` the budget is one verification, so that a second request is left
out, and the third prompt's last chunk leaves room for a short one to begin beside
it; the long prompt needs every block that a running request leaves, its own cached
prefix included, so that admissions are refused and approved ones raise; nine draft blocks are enough for any two shadows and not for three.
Sixteen questions are the least with a pass of the sign test, a fail of it, and
a source that drops; two canary rounds are what a pass needs and let the second
run meet a champion that is not the first model. Two experiments in a row show
what one leaves to the next; a unit of the chaos clock is 45 s. Blocks and runs
are symmetry sets wherever no liveness is checked. Deadlock is checked except
where the system really stops: after an exception leaves `step()`, in a worker
after shutdown or death, in a pipeline whose runs are over, on an idle host
whose irqbalance is off, and between chaos runs when their number is used up.

Fairness. `LLMEngine!FairSpec`: the engine is stepped while anything is
unfinished, as `generate()` and the worker's loop do; clients owe nothing.
`EngineWorker!FairSpec`: the engine thread continues (a `step()` that never
returns is outside the model), the clock passes each deadline, and a handler
that is running goes on. `EveryStreamEnds` needs no progress of the engine: the
deadline is the backstop. `PDSpec`: the decode thread continues; clients and the
operator owe nothing. `ChaosSpec`: the runner executes the next command when it
can and time passes while it waits; pods, faults and lightserve owe nothing, so
EveryExperimentEnds shows that the time limits suffice (an exception that ends
the runner counts as an end: what it does to the experiments still to come is
not asked). RetrainPipeline and
HostSettings have safety and action properties only: their processes may be
abandoned at any step.

### Disagreements between code and documentation

With a run that expects a violation, and an entry under `findings`:

- `chunked_recompute` A recompute split after the prompt but before the end of
  the known output records a token sampled from an old position.
- `lost_handle` A duplicate `request_id` kills the engine thread, and its own
  stream is the one that never ends.
- `deploy_retry` A deploy retried after it moved the pointer records its own
  model as the previous one; a roll back then keeps the pointer on the candidate
  and unloads it.

Seen in the model by changing one constant of a configuration:

- With `Watermark = 0`, the default, `CheckedAllocationSucceeds` does not hold in
  `prefix`: `can_allocate` counts the matched leaf as evictable and `allocate`
  then holds it, although `block_manager.py:33-36` takes OutOfMemoryError for a
  scheduler bug.
- With prefix caching, two requests whose prompts are three and two unrelated
  blocks, and a cache of three blocks or four, `EveryRequestFinishes` does not
  hold: only leaves count as evictable, so an idle engine refuses a request for
  ever when the room is in a chain of unreferenced blocks.
- With `ChunkedRecompute = TRUE`, `StreamCarriesOutput` does not hold:
  `_emit_tokens` sends the last output token of each scheduled request, also in
  a step that added none; with `TokensPerStep = 2` it drops tokens instead
  (`engine_worker.py:53-54`: "One newly-generated token").
- `_preempt` keeps `draft_token_ids`, and the re-admission fails the assertion of
  `_build_flat_batch`; a running request that the budget left out keeps its
  drafts too, and is drafted for again in the same step, with no new token for
  the proposer to compute. OnlyLeftoversRaise says of each entry of a batch, and of
  each request that is drafted for, that only this, or draft blocks that shadows
  of requests no longer running have kept, makes it raise.
- With `TornReadings = TRUE`, `WatchCountsOwnRounds` does not hold in `retrain`: a
  scrape between the canary's two gauges (`canary.py:104-105`) shows the new
  round's score with the time stamp of the round before; the watch counts one
  round twice, and one low round is then two in a row. With `ConcurrentRuns =
  TRUE`, `PointerIsLoaded` does not: the DAG sets no `max_active_runs`.
- With "steer" or "balance" in `KillStages`, `LeavesNoTrace` does not hold in
  `os`: killed after it stopped irqbalance and before its state file is written
  (`isolate.py:107`), or between deleting the file (`:124`) and starting irqbalance
  (`:222`), `isolate.py` leaves changes that no later state undoes.

Seen in the model by checking another property of HostSettings in `os`:

- `EveryInterruptReturns` ("restored by every non-isolated state",
  `isolate.py:14-15`) does not hold: a put-back write that fails, for any reason,
  is taken for a device that went away (`:122-123`), and the state file is deleted
  all the same. The interrupt stays steered, and nothing remembers where it was.
  LeavesNoTrace is what holds instead.
- `OriginalsSurvive` ("saved once, before anything changes", `tune.py:94-96`) does
  not hold: every "tuned" rewrites the state file in place (`:86`, `:108`), and
  killed between truncation and write it loses the originals of the groups tuned
  before. TuneKeepsItsWord is what holds instead. (The pipeline's pointer is
  written to a temporary file and renamed, `retrain.py:132-134`.)

And read off the definitions: `timeout_s=None` does not opt out of the default
timeout (HasDeadline); an abort by id ends a newer request that reuses the id
(Disconnect); an OSError in `tune.restore()` is not a NotTaken and leaves the
GPU clock locked (WriteRaises); fine-tune rows that are more than half of the
pool make `build_data` raise, and traffic like no training row gives it none
(BuildData); a retried `reject` fails because its adapter is gone (Refused); the
canary ends on a model scored without its questions (CanaryDies).

## What is proved

Each theorem holds for every value of the constants that its assumptions allow.
Every invariant named here was first an invariant of TLC runs.

**Blocks** `BlockManagerProofs` proves, for every set of requests and prompts,
every finite set of blocks, every block size and every watermark, that

    Accounting == BMTypeOK /\ NoBlockClaimedTwice /\ NoBlockLost
                  /\ RefCountsExact /\ SharedBlocksInPlace /\ HoldsEndWithTheTable

is an invariant of `BMSpec` (AccountingInvariant), and from it TypeCorrect,
NeverClaimedTwice, NeverLost, RefCountsAlwaysExact and SharedAlwaysInPlace. None
of the parts is inductive alone. `free()` returns the blocks of a table that are
not those of held nodes, so "no block claimed twice" needs to know that a table
block that is in the trie is held (SharedBlocksInPlace); that needs held nodes
to survive evictions, hence exact counts (RefCountsExact); and a count stays
exact only if a request that starts to allocate holds nothing yet, which is
HoldsEndWithTheTable. PathsStayWalkable adds that every prefix of a cached path
is cached: eviction takes leaves, registration starts from the root. There is one
lemma per action; the ones that extend a table share ExtendTable, and the ones
that only change ref counts or forget an unreferenced node share RehungTrie.

ReserveSuffices: with `watermark_blocks >= 1`, an allocation approved by
`can_allocate` never raises. The argument is
ReserveCoversNeed: acquiring the match takes at most one leaf (its last node)
out of the evictable set, because every other node of the match has a child,
and the watermark pays for that one; each eviction turns a leaf into a free
block. With watermark 0 it does raise, so the bound is tight.

**Queues** `EngineProofs` begins with RequestsKeepOrder, with speculation or
without and without further assumptions: the running requests and then the
waiting ones are the live requests in the order of `add_request()`. ArrivalOrder
says nothing inside the loops of `schedule()`, so the inductive invariant OrderInv
states the order there too: `kept \o pending \o waiting` in the running loop,
`running`, the popped request and then `waiting` inside `allocate()`; it also
needs that nobody is twice in a queue and that a scheduled entry is in the queue it
was taken from. The laws of sequences it uses (RemoveAt, Front, Last, concatenation) come first.

**The engine without drafts** (`NumSpecTokens = 0`, the assumption NoSpeculation,
which is the configuration without a SpeculativeConfig)

- `EngineProofs`: EngineInvariant, for the inductive EngineInv == OrderInv /\
  Accounting /\ RequestInv; EngineKeepsProtocol, by which all theorems about
  `BMSpec` hold of the engine's blocks; and StepNeverRaises, for `watermark_blocks
  >= 1`. RequestInv relates counters and tables: exactly the running requests have
  a table, it covers all tokens of a scheduled request and lacks at most the
  slot of the next token of any other, and the rows of the batch and the budget that
  is left add up. That is what `can_append_slot` before `append_slot` and the
  forward pass silently rely on. "Never raises" is about blocks and batches: that no
  position reaches `max_model_len`, where `_build_flat_batch` raises a ValueError
  (`model_runner.py:199-203`), is SchedulerAssumption (prompt, `max_tokens` and
  drafts fit `MaxLen`), and no caller in `app.py` enforces it.
- `EngineOutputProofs`: CacheIsCorrect and StepAlwaysConsistent. KVInv says that what
  a request has computed before this step is filled with its own KV, and what a
  node caches is what its path claims. The forward pass writes only rows at or
  after Start. Most lie in blocks private to their request; a row in a block of
  the trie is written again only with the content it already holds.
- the same module: EngineImplementsContract, the refinement of
  EngineContract; OutputsMatchDense and StepEndsExactly, from StopInv (nothing
  follows a stop condition, at any point of a step) and DenseInv (a request with
  output that was not preempted lacks one token's KV, none once scheduled);
  NobodyIsLeftOut, from ProgressInv: only the last running request can be inside
  its prefill, because it then has used up the budget and nobody was admitted
  after it, and the running requests never outnumber `max_num_batched_tokens`.
  Both branches of SkipRunning are therefore dead without drafts.
  OnlySplitRecomputesDiffer covers preempted requests too: every output is that
  of dense decoding unless a recompute is split after the prompt, the case of
  `chunked_recompute`; and OutputsAlwaysDense shows that none is when
  `max_num_batched_tokens` is at least `max_num_seqs` times the longest sequence
  (WholeInv: a seat is free while someone is admitted, so the rows of the others
  leave room for all of its tokens).

**The handoff** `HandoffProofs` proves LogStaysGapless: the token log of the
decode node has no gap and no repetition, never holds the carried token, and is
complete when the client has its answer. It needs no assumption besides
RoleServerConfig. What the log needs of the engine is StepKeepsTokens, that no
part of a step shortens an output, and that follows from the types of the queues.
LogInv adds that a posted handoff is either in `_incoming`, once, or in `_pending`,
that the log of a pending one ends at its `_prev_len`, and that `_prev_len` is the
length of the output where `_check_finished()` reads it.

The other two theorems carry the engine's invariants over to this engine, which
takes handoffs past its seats and its queue. EngineInv is not invariant here: between
`allocate()` and the placement into `running` a request has a table and no place
in a queue, and a failed resume leaves it there. HandedInv keeps what survives
(EngineKept), names that gap where the thread is in it (ThreadInv), and says whom
the engine knows (ResumedInv: nobody before the resume, only with output and a
waiting client after it, and no finished request without a stop condition met).
When the thread enters `step()` all of EngineInv holds again and its lemmas apply
to every part of the step as they are. ImportedRows shows that
`import_request_kv()` fills exactly the slots `export_request_kv()` read, although
the blocks differ, and touches nobody else's.

- HandoffStaysTransparent: every answer is the dense output of its prompt up to a
  stop condition, and between steps a running request lacks the KV of its last
  token only and has its own elsewhere. It assumes BudgetFitsEveryone, as
  OutputsAlwaysDense does and for the same reason: resumed requests are
  preempted and recomputed like others, and a recompute that is split is the
  case of `chunked_recompute`. The run `handoff` meets it.
- HandoffImplementsContract, without it: EngineContract across the two nodes. The
  first token is counted once, by the prefill node, wherever it is on its way into
  the output of the new Request.

**The worker** `EngineWorkerProofs` proves WorkerStaysConsistent for any clients,
also ones that share an id; StreamsCarryOutput when a step yields at most one
token of a request and never none past its prompt (OneTokenPerStep: no drafts,
and a budget that fits a recompute; without it StreamCarriesOutput does not hold,
see above); and DeadEngineEndsStreams when ids differ (DistinctIds: what
`submit()`'s own ids guarantee; `lost_handle` shows the rest). The last is the
race of `submit()`'s check of `self.error` with the final drain: EnderInv names,
for every submitted stream at every point, who is going to end it.

**The host tools** `HostProofs` proves TuneAlwaysKeepsItsWord for any groups of
settings, with a kill at every step: TuneInv adds to the originals in the file
(or, while it is rewritten, in the memory of the command) where a command is (its
settings are those of its group) and what a restore that has not failed has been
through (PutBackSoFar). It does not say that originals outlive a kill during the
rewrite, since they do not (OriginalsSurvive, above); it says that from then on tune.py
changes no setting. That two groups share no setting matters: otherwise a write for
one group could change a setting the other has not saved. NoTraceIsLeft and
ReservedStayFree hold when isolate.py is not killed while it steers or before it
restarts irqbalance (KilledSafely; a kill there has no remedy in the code, see
above), and of the interrupts whose last write did not fail. IsoInv follows the
originals from the steering process to the state file and back: between them
they name every interrupt that is not where it was, and irqbalance is off as
long as either exists, or the file is there without its content; a put-back that
is not refused takes an interrupt off that list. LayoutFacts shows that the
layout is well formed on every machine that has one.

**The pipeline** `RetrainProofs` follows the steps of a run and of its retries.

- WatchIsSound: what the watch counts are rounds of the run's own model. WatchInv
  says it of everything the watch holds on the way, its last reading included.
  It needs `TornReadings = FALSE`: a scrape between the gauges of two rounds is
  the hazard shown above.
- PointerStaysLoaded and ChampionEarnsItsPlace: PipelineInv says, task by task,
  where the run's model stands with vLLM, the pointer and the registry, and
  RetryInv what of it holds in a second try too (Pointed: between the pointer's
  move and the end of a roll back it names the run's model, with the model
  before beside it; Loaded: the model before keeps its adapter for as long as
  the run may go back to it, and which adapters are already gone).
  They need `ConcurrentRuns = FALSE`, since a second run moves the pointer under
  the first one, and the pointer also `"deploy" \notin Faults`: `deploy_retry`
  is exactly the retry that breaks it. These are the hazards the code does not
  rule out, not conveniences: each has a configuration above in which the
  property does not hold.
- RecordsEndWithTasks, without any assumption, and with the two invariants
  above EndsAreComplete, the three properties of the ends of a run.

**The chaos runner** `ChaosProofs` has no assumption besides ChaosAssumption.
FailuresAreCleanedUp treats the six scripts as sequences of steps: Settled (what
a script brings it also takes away, later), Will (it is going to take a thing
away) and Harmless (it brings none) are closed under concatenation and under
taking the next step, so that each script is settled by the shape of its Python
function. CleanInv then says of each pod and each fault object that it is still
going to be taken away: by the script while nothing has failed, by `cleanup()`
after the first failure. The fence is different, since `cleanup()` does not know
it; there the invariant rests on the drain's own finally statement, and on the
drain being inside its try. A second failure may
hit the very command that was to take a thing away, so "at most one" is tight.
RegistrationIsSafe follows the registration's retry through the outage.

Assumptions on the constants: PromptAssumption (finite sets, a positive block
size, prompts that are non-empty sequences of numbers), ConfigAssumption,
SchedulerAssumption, DraftAssumption, WorkerAssumption, HostAssumption and
LayoutAssumption, which state what the `__post_init__` checks and the callers
guarantee, that the groups of settings are disjoint and the cores too, and that
there are enough free cores (`_layout()` gives none otherwise). TLC evaluates
them in the runs.

Only model-checked: with drafts, everything but the order of the queues
(ShadowFollowsRequest, OnlyLeftoversRaise, CorrectionIsExact and the outputs in
`spec`); OutputsAreDense in `memory`, whose budget is smaller than the theorem
asks; EvidenceIsSound and PassIsHonest of the chaos runner, which
rest on how long the load, its requests and the alerts take, for the lengths of
the phases that the configuration has; and all liveness, which is out of the
reach of the prover. In `spec` TLC checks that the engine with drafts implements
`BMSpec` too, and the theorems about blocks apply as far as that check goes.

## Not modelled

Tensor arithmetic, quantisation and kernels; hash collisions in the trie (a
missed lookup); metrics other than the in-flight gauge, tracing and logging;
request parsing and rendering; empty prompts; a `step()` that hangs; several
engines in one process; the wire format of a handoff; the drift sensor's
statistics; registry diffs and reports; the cost summary; reports of the host
tools. `model/cuda_graph_decode.py` is a benchmark of one decode step that the
engine does not call; `minimal_llama`, the training and data scripts and the
kernels are numeric or text code without state that outlives a call; the two
passes of `prepare_corpus.py` are the exception and are on the plan. `PROJECT.json` lists every component with the reason.

## Plan

1. Proofs: the engine with drafts keeps BlockManager's protocol;
   the timing argument of EvidenceIsSound.
2. A request id used again in EngineWorker (the late abort), and engine steps
   that hang.
3. The two passes of `prepare_corpus.py`: copies and near-copies kept first come,
   decontamination after them, the same result for any number of workers.
4. Registry diffs and restores; node sessions of the cost ledger.
