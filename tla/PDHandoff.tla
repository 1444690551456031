----------------------------- MODULE PDHandoff -----------------------------
(***************************************************************************)
(* Prefill/decode disaggregation: server/pd_role_server.py over            *)
(* model/pd_disaggregation.py.  A client has its prompt prefilled on one   *)
(* node, carries the handoff (first token, KV of the prompt) to a second   *)
(* node, and waits there for the whole output.                             *)
(*                                                                         *)
(* The variables of LLMEngine are the decode node's engine.  It is only    *)
(* touched by the thread of _DecodeWorker, which resumes the handoffs of   *)
(* its queue between two steps, past the scheduler's admission.  The       *)
(* prefill node handles one request at a time and removes it before it     *)
(* answers, so all that is kept of it is who it is busy with.              *)
(*                                                                         *)
(* A handoff is a value: the first token is the one sampled from the last  *)
(* row of the prompt and it is no eos (see PrefillDone), the KV is         *)
(* Content(r, p, <<>>) for every exported position p.                      *)
(***************************************************************************)
EXTENDS LLMEngine

ASSUME RoleServerConfig ==
  /\ NumSpecTokens = 0
  /\ EnablePrefixCaching = FALSE
  /\ Watermark = 0

VARIABLES
  client,               \* where the client of r is
  incoming,             \* _incoming
  thread,               \* where _DecodeWorker._run is
  prevLen,              \* _prev_len[r], 0 for a request not in _pending
  itl,                  \* the token indices of r in itl_log, in order
  cleared,              \* history: the log has been reset
  answer,               \* the output r's client was given
  stop                  \* _stop

workerVars == <<incoming, thread, prevLen, itl, cleared, answer, stop>>

pdVars == <<vars, client, workerVars>>

First(r) == [by |-> Len(Prompt[r]) - 1, eos |-> FALSE]

-----------------------------------------------------------------------------
(* The prefill node *)

(* POST /prefill; the handler blocks the node's event loop until it is done.*)
PrefillBegin(r) ==
  /\ client[r] = "new"
  /\ \A s \in Requests : client[s] # "prefilling"
  /\ client' = [client EXCEPT ![r] = "prefilling"]
  /\ UNCHANGED <<vars, workerVars>>

(* Faulty variant: only an eos ends a request here.                         *)
EndsAtEosOnly(r, eos) == eos

(* maybe_finish() on the first token.                                       *)
EndsInPrefill(r, eos) == eos \/ MaxTokens[r] = 1

(* The step that completes the prompt also samples the first token.  If     *)
(* that ends the request there is nothing to hand off.                      *)
PrefillDone(r) ==
  /\ client[r] = "prefilling"
  /\ \E eos \in BOOLEAN :
       IF EndsInPrefill(r, eos)
       THEN /\ client' = [client EXCEPT ![r] = "done"]
            /\ answer' = [answer EXCEPT ![r] = << [First(r) EXCEPT !.eos = eos] >>]
       ELSE /\ client' = [client EXCEPT ![r] = "carrying"]
            /\ UNCHANGED answer
  /\ UNCHANGED <<vars, incoming, thread, prevLen, itl, cleared, stop>>

-----------------------------------------------------------------------------
(* The decode node: handlers *)

(* submit(): only the queue is touched, and the thread does the rest.       *)
SubmitHandoff(r) == incoming' = Append(incoming, r)

(* POST /resume_decode, and the wait for the answer.                        *)
Post(r) ==
  /\ client[r] = "carrying"
  /\ client' = [client EXCEPT ![r] = "waiting"]
  /\ SubmitHandoff(r)
  /\ UNCHANGED <<vars, thread, prevLen, itl, cleared, answer, stop>>

(* POST /reset_itl_log, at any point of the thread's loop.                  *)
ResetItl ==
  /\ itl' = [r \in Requests |-> <<>>]
  /\ cleared' = TRUE
  /\ UNCHANGED <<vars, client, incoming, thread, prevLen, answer, stop>>

(* The lifespan ends; it waits for the thread, not for the clients.         *)
Stop ==
  /\ ~stop /\ stop' = TRUE
  /\ UNCHANGED <<vars, client, incoming, thread, prevLen, itl, cleared, answer>>

-----------------------------------------------------------------------------
(* The decode node: the thread *)

(* The head of the loop.                                                    *)
LoopTop ==
  /\ thread = "top"
  /\ thread' = IF stop THEN "exited" ELSE "drain"
  /\ UNCHANGED <<vars, client, incoming, prevLen, itl, cleared, answer, stop>>

(* resume_decode(): the Request object, and allocate() without asking       *)
(* can_allocate() first.                                                    *)
ResumeBegin ==
  LET r == Head(incoming) IN
  /\ thread = "drain" /\ incoming # <<>>
  /\ out' = [out EXCEPT ![r] = <<First(r)>>]
  /\ AllocateBegin(r, Len(Prompt[r]) + 1)
  /\ thread' = "allocate"
  /\ UNCHANGED <<status, computed, draft, queueVars, stepVars, kv, todo, resumed,
                 draftVars, client, incoming, prevLen, itl, cleared, answer, stop>>

(* Faulty variant: the KV of the last prompt position stays behind.         *)
ExportedButLast(r) == 0..(Len(Prompt[r]) - 2)

ImportedComputed(r) == Len(Prompt[r])

(* export_request_kv(request, seq_len): the positions handed over.          *)
Exported(r) == 0..(Len(Prompt[r]) - 1)

(* import_request_kv() through the new table, and the hand placement into   *)
(* running, whatever max_num_seqs says: ahead of everyone who waits.        *)
ResumeFinish ==
  LET r == Head(incoming) IN
  /\ thread = "allocate"
  /\ AllocateFinish(r)
  /\ kv' = [b \in Blocks |-> [o \in Offsets |->
              IF \E p \in Exported(r) :
                   b = tables'[r][(p \div BlockSize) + 1] /\ o = p % BlockSize
              THEN LET p == CHOOSE p \in Exported(r) :
                         b = tables'[r][(p \div BlockSize) + 1] /\ o = p % BlockSize
                   IN Content(r, p, <<>>)
              ELSE kv[b][o]]]
  /\ computed' = [computed EXCEPT ![r] = ImportedComputed(r)]
  /\ status' = [status EXCEPT ![r] = "RUNNING"]
  /\ running' = Append(running, r)
  /\ arrivals' = running' \o waiting
  /\ prevLen' = [prevLen EXCEPT ![r] = Len(out[r])]
  /\ incoming' = Tail(incoming)
  /\ thread' = "drain"
  /\ UNCHANGED <<out, draft, waiting, stepVars, todo, resumed, draftVars, client, itl,
                 cleared, answer, stop>>

(* allocate() raises; nothing in _run catches it.                           *)
ResumeRaises ==
  /\ thread = "allocate"
  /\ AllocateFail
  /\ thread' = "dead"
  /\ UNCHANGED <<requestVars, queueVars, stepVars, kv, todo, resumed, draftVars, client,
                 incoming, prevLen, itl, cleared, answer, stop>>

(* Faulty variant: a preempted request is forgotten.                        *)
OnlyRunning == running # <<>>

HasUnfinished == waiting \o running # <<>>

DrainDone ==
  /\ thread = "drain" /\ incoming = <<>>
  /\ thread' = IF HasUnfinished THEN "step" ELSE "top"
  /\ UNCHANGED <<vars, client, incoming, prevLen, itl, cleared, answer, stop>>

(* engine.step().                                                           *)
StepEngine ==
  /\ thread = "step"
  /\ EngineStep
  /\ thread' = CASE pc' = "idle" -> "record"
                 [] pc' = "raised" -> "dead"
                 [] OTHER -> "step"
  /\ UNCHANGED <<client, incoming, prevLen, itl, cleared, answer, stop>>

Pending == { r \in Requests : prevLen[r] > 0 }

(* Faulty variant: _prev_len is not advanced.                               *)
RecordItlAgain ==
  /\ thread = "record"
  /\ itl' = [r \in Requests |->
       IF r \in Pending
       THEN itl[r] \o [i \in 1..(Len(out[r]) - prevLen[r]) |-> prevLen[r] + i - 1]
       ELSE itl[r]]
  /\ thread' = "check"
  /\ UNCHANGED <<vars, client, incoming, prevLen, cleared, answer, stop>>

(* _record_itl(): the indices that are new since the last time.             *)
RecordItl ==
  /\ thread = "record"
  /\ itl' = [r \in Requests |->
       IF r \in Pending
       THEN itl[r] \o [i \in 1..(Len(out[r]) - prevLen[r]) |-> prevLen[r] + i - 1]
       ELSE itl[r]]
  /\ prevLen' = [r \in Requests |-> IF r \in Pending THEN Len(out[r]) ELSE 0]
  /\ thread' = "check"
  /\ UNCHANGED <<vars, client, incoming, cleared, answer, stop>>

ToAnswer == { r \in Pending : IsFinished(r) }

(* _check_finished().                                                       *)
CheckFinished ==
  /\ thread = "check"
  /\ answer' = [r \in Requests |-> IF r \in ToAnswer THEN out[r] ELSE answer[r]]
  /\ client' = [r \in Requests |-> IF r \in ToAnswer THEN "done" ELSE client[r]]
  /\ prevLen' = [r \in Requests |-> IF r \in ToAnswer THEN 0 ELSE prevLen[r]]
  /\ thread' = "top"
  /\ UNCHANGED <<vars, incoming, itl, cleared, stop>>

-----------------------------------------------------------------------------

PDInit ==
  /\ Init
  /\ client = [r \in Requests |-> "new"]
  /\ incoming = <<>> /\ thread = "top"
  /\ prevLen = [r \in Requests |-> 0]
  /\ itl = [r \in Requests |-> <<>>] /\ cleared = FALSE
  /\ answer = [r \in Requests |-> <<>>]
  /\ stop = FALSE

DecodeThread ==
  \/ LoopTop
  \/ ResumeBegin
  \/ ResumeFinish
  \/ ResumeRaises
  \/ DrainDone
  \/ StepEngine
  \/ RecordItl
  \/ CheckFinished

PDNext ==
  \/ DecodeThread
  \/ ResetItl
  \/ Stop
  \/ \E r \in Requests : PrefillBegin(r) \/ PrefillDone(r) \/ Post(r)

(* The thread runs; clients and the operator owe nothing.                   *)
PDSpec == PDInit /\ [][PDNext]_pdVars /\ WF_pdVars(DecodeThread)

-----------------------------------------------------------------------------
(* Properties *)

(* "byte-identical to a single-engine run": what a client gets, from either *)
(* node, is the dense greedy output up to its stop condition, although its  *)
(* decode may have been preempted and recomputed from tokens it never       *)
(* computed here.                                                           *)
AnswersAreDense ==
  \A r \in Requests :
    LET o == answer[r] IN
    client[r] = "done" =>
      /\ \A i \in DOMAIN o : o[i].by = Len(Prompt[r]) + i - 2
      /\ o # <<>> /\ (Last(o).eos \/ Len(o) = MaxTokens[r])

(* The imported KV is the request's own, at the positions of this engine's  *)
(* block layout, as long as the request runs (a scheduled step may then     *)
(* extend it from there).                                                   *)
ImportedKVBelongs ==
  pc = "idle" =>
    \A r \in ToSet(running) :
      /\ computed[r] = GetLen(r) - 1
      /\ \A p \in 0..(computed[r] - 1) : Slot(r, p) = Content(r, p, out[r])

(* Both halves of it: the tokens and what they were computed from.          *)
HandoffIsTransparent == AnswersAreDense /\ ImportedKVBelongs

(* itl_log holds "one dict per token actually generated" here: no gap, no   *)
(* repetition, never the token that was carried over; and it is complete    *)
(* for a request by the time its client has the answer.                     *)
ItlLogIsGapless ==
  \A r \in Requests :
    LET n == Len(itl[r]) IN
    /\ \A i \in 1..(n - 1) : itl[r][i + 1] = itl[r][i] + 1
    /\ n > 0 => itl[r][1] >= 1
    /\ ~cleared /\ client[r] = "done" => n = Len(answer[r]) - 1

(* Across the two nodes a request is served under the same contract as on   *)
(* one engine: the handoff neither loses nor repeats a token.               *)
Contract2 == INSTANCE EngineContract WITH
  live <- { r \in Requests : /\ client[r] \in {"prefilling", "carrying", "waiting"}
                             /\ ~IsFinished(r) },
  tokens <- [r \in Requests |->
               CASE client[r] \in {"new", "prefilling"} -> 0
                 [] client[r] = "done" -> Len(answer[r])
                 [] OTHER -> IF out[r] = <<>> THEN 1 ELSE Len(out[r])]

HandoffKeepsContract == Contract2!ContractSpec

(* Every handoff that was posted is answered, unless the server is stopped  *)
(* or a resume found the cache full and ended the thread.                   *)
EveryHandoffAnswered ==
  \A r \in Requests :
    client[r] = "waiting" ~> client[r] = "done" \/ stop \/ thread = "dead"
=============================================================================
