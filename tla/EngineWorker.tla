---------------------------- MODULE EngineWorker ----------------------------
(***************************************************************************)
(* server/engine_worker.py and its callers in server/app.py: HTTP handlers *)
(* submit requests and read token streams, one engine thread owns the      *)
(* engine, and only thread-safe queues connect the two sides.              *)
(*                                                                         *)
(* A client stands for one HTTP request and for the StreamHandle it gets.  *)
(* Handlers and the engine thread interleave at every queue operation and  *)
(* at every access to self.error; what only the engine thread touches is   *)
(* updated in steps as large as possible.                                  *)
(*                                                                         *)
(* The engine is what the worker sees of it (the interface in the module's *)
(* docstring): a step schedules some of the requests it holds, each gains  *)
(* tokens, some finish.  A token is its number in the request's output.    *)
(* Histograms, counters, tracing and CPU pinning are left out; the gauge   *)
(* of the requests in flight and the _queued table, which the metrics keep *)
(* from one step to another, are modelled.                                 *)
(***************************************************************************)
EXTENDS Integers, SequencesExt, FiniteSets

CONSTANTS
  Clients,              \* HTTP requests, one StreamHandle each
  IdOf,                 \* IdOf[c]: request_id, which a client may choose
  Streaming,            \* the clients that ask for a stream (SSE)
  Timeout,              \* the clients that set timeout_s
  DefaultTimeout,       \* whether the worker has a default_timeout_s
  MaxTokens,            \* sampling_params.max_tokens of every request
  TokensPerStep,        \* most tokens of one request in one step (1 + drafts)
  ChunkedRecompute      \* whether a preempted request may recompute in chunks

ASSUME WorkerAssumption ==
  /\ DOMAIN IdOf = Clients
  /\ Streaming \subseteq Clients /\ Timeout \subseteq Clients
  /\ DefaultTimeout \in BOOLEAN
  /\ MaxTokens \in Nat \ {0}
  /\ TokensPerStep \in Nat \ {0}
  /\ ChunkedRecompute \in BOOLEAN

VARIABLES
  handler,              \* where the handler of c is (see TypeOK)
  inFlight,             \* the gauge of the requests being streamed now
  incoming,             \* _incoming
  stream,               \* what has been put on the handle's queue, in order
  error,                \* self.error is set
  stop,                 \* _stop is set
  thread,               \* where the engine thread is
  held,                 \* scheduler.requests: the requests in the engine
  generated,            \* len(output_token_ids)
  streams,              \* _streams: the handles the worker knows, by id
  deadlines,            \* _deadlines: the ids that have one
  expired,              \* those whose deadline has passed
  queued,               \* _queued: the ids that have not been scheduled yet
  scheduled, finished,  \* what step() returned
  ending                \* _abort_everything's `handles`

handlerVars == <<handler, inFlight, stop>>
engineVars == <<held, generated, scheduled, finished>>
workerVars == <<streams, deadlines, expired, queued>>
vars == <<handlerVars, incoming, stream, error, thread, engineVars, workerVars, ending>>

Ids == { IdOf[c] : c \in Clients }

Token(n) == [token |-> n, end |-> "no"]

End(reason) == [token |-> 0, end |-> reason]

Submission(c) == [client |-> {c}, id |-> IdOf[c]]

Abort(id) == [client |-> {}, id |-> id]

IdsOf(cs) == { IdOf[c] : c \in cs }

WithId(cs, ids) == { c \in cs : IdOf[c] \in ids }

(* stream with one more item on each of the handles hs.                     *)
PutAll(hs, item(_)) ==
  [c \in Clients |-> IF c \in hs THEN Append(stream[c], item(c)) ELSE stream[c]]

-----------------------------------------------------------------------------
(* The handlers: any thread *)

(* submit() puts the submission first ...                                   *)
Submit(c) ==
  /\ handler[c] = "new"
  /\ handler' = [handler EXCEPT ![c] = "put"]
  /\ incoming' = Append(incoming, Submission(c))
  /\ UNCHANGED <<inFlight, stream, error, stop, thread, engineVars, workerVars, ending>>

(* Faulty variant: the engine is not looked at after the put.               *)
CheckNothing(c) ==
  /\ handler[c] = "put"
  /\ handler' = [handler EXCEPT ![c] = "open"]
  /\ UNCHANGED <<inFlight, incoming, stream, error, stop, thread, engineVars, workerVars,
                 ending>>

(* ... and then looks whether the engine is dead.                           *)
CheckError(c) ==
  /\ handler[c] = "put"
  /\ handler' = [handler EXCEPT ![c] = "open"]
  /\ stream' = IF error THEN PutAll({c}, LAMBDA h : End("ABORTED")) ELSE stream
  /\ UNCHANGED <<inFlight, incoming, error, stop, thread, engineVars, workerVars, ending>>

(* The handler of c takes its next step: it is now `there`, and the gauge   *)
(* has changed by n.                                                        *)
Moves(c, there, n) ==
  /\ handler' = [handler EXCEPT ![c] = there]
  /\ inFlight' = inFlight + n
  /\ UNCHANGED <<stream, error, stop, thread, engineVars, workerVars, ending>>

(* timed() runs from the first read of the stream on.                       *)
StartReading(c) ==
  /\ handler[c] = "open"
  /\ Moves(c, "reading", 1)
  /\ UNCHANGED incoming

(* StreamHandle.stream() yields what comes until the first StreamEnd.       *)
HasEnd(c) == \E i \in DOMAIN stream[c] : stream[c][i].end # "no"

(* timed() has read the stream to its end.                                  *)
ReadToEnd(c) ==
  /\ handler[c] = "reading" /\ HasEnd(c)
  /\ Moves(c, "ended", -1)
  /\ UNCHANGED incoming

(* The whole response, or the last frame of the stream, is sent.            *)
Respond(c) ==
  /\ handler[c] = "ended"
  /\ Moves(c, "done", 0)
  /\ UNCHANGED incoming

(* What is left of a handler whose client is gone: timed() has yet to be    *)
(* closed if it was reading.                                                *)
Left(c) == IF handler[c] = "reading" THEN "leaving" ELSE "gone"

(* Faulty variant: the handler just goes away.                              *)
LeaveSilently(c) ==
  /\ c \in Streaming /\ handler[c] \in {"open", "reading", "ended"}
  /\ Moves(c, Left(c), 0)
  /\ UNCHANGED incoming

(* _sse_stream notices that the client disconnected, and aborts.            *)
Disconnect(c) ==
  /\ c \in Streaming /\ handler[c] \in {"open", "reading", "ended"}
  /\ Moves(c, Left(c), 0)
  /\ incoming' = Append(incoming, Abort(IdOf[c]))

(* The cancelled read ends timed(): its finally.                            *)
CloseStream(c) ==
  /\ handler[c] = "leaving"
  /\ Moves(c, "gone", -1)
  /\ UNCHANGED incoming

(* The application shuts down.                                              *)
Stop ==
  /\ ~stop
  /\ stop' = TRUE
  /\ UNCHANGED <<handler, inFlight, incoming, stream, error, thread, engineVars, workerVars,
                 ending>>

(* The clock passes the deadline of id.                                     *)
Expire(id) ==
  /\ id \in deadlines \ expired
  /\ expired' = expired \cup {id}
  /\ UNCHANGED <<handlerVars, incoming, stream, error, thread, engineVars, streams,
                 deadlines, queued, ending>>

-----------------------------------------------------------------------------
(* The engine thread *)

(* Faulty variant: the deadlines of finished requests stay.                 *)
FinishKeepsDeadlines(rs, reason) ==
  /\ streams' = streams \ WithId(streams, IdsOf(rs))
  /\ stream' = PutAll(WithId(streams, IdsOf(rs)), LAMBDA h : End(reason))
  /\ queued' = queued \ IdsOf(rs)
  /\ UNCHANGED <<deadlines, expired>>

(* _finish(): forget the requests and end their streams.                    *)
Finish(rs, reason) ==
  /\ streams' = streams \ WithId(streams, IdsOf(rs))
  /\ deadlines' = deadlines \ IdsOf(rs)
  /\ expired' = expired \ IdsOf(rs)
  /\ queued' = queued \ IdsOf(rs)
  /\ stream' = PutAll(WithId(streams, IdsOf(rs)), LAMBDA h : End(reason))

LoopTop ==
  /\ thread = "top"
  /\ thread' = IF stop THEN "exited" ELSE "drain"
  /\ UNCHANGED <<handlerVars, incoming, stream, error, engineVars, workerVars, ending>>

(* timeout_s, or else the default.                                          *)
HasDeadline(c) == c \in Timeout \/ DefaultTimeout

(* _handle_submission(): add_request(), then the worker's own tables.       *)
HandleSubmission(c) ==
  /\ held' = held \cup {c}
  /\ streams' = (streams \ WithId(streams, {IdOf[c]})) \cup {c}
  /\ deadlines' = IF HasDeadline(c) THEN deadlines \cup {IdOf[c]} ELSE deadlines
  /\ expired' = IF HasDeadline(c) THEN expired \ {IdOf[c]} ELSE expired
  /\ queued' = queued \cup {IdOf[c]}
  /\ UNCHANGED <<stream, thread, generated, scheduled, finished>>

(* add_request() raises for an id that is still in the engine.              *)
RefuseSubmission ==
  /\ thread' = "raised"
  /\ UNCHANGED <<stream, engineVars, workerVars>>

DrainSubmission ==
  \E c \in Clients :
    /\ thread = "drain" /\ incoming # <<>>
    /\ c \in Head(incoming).client
    /\ incoming' = Tail(incoming)
    /\ IF IdOf[c] \in IdsOf(held) THEN RefuseSubmission ELSE HandleSubmission(c)
    /\ UNCHANGED <<handlerVars, error, ending>>

(* abort_requests() of an id, in the engine or not.                         *)
DrainAbort ==
  LET rs == WithId(held, {Head(incoming).id}) IN
  /\ thread = "drain" /\ incoming # <<>>
  /\ Head(incoming).client = {}
  /\ incoming' = Tail(incoming)
  /\ held' = held \ rs
  /\ Finish(rs, "ABORTED")
  /\ UNCHANGED <<handlerVars, error, thread, generated, scheduled, finished, ending>>

DrainDone ==
  /\ thread = "drain" /\ incoming = <<>>
  /\ thread' = "sweep"
  /\ UNCHANGED <<handlerVars, incoming, stream, error, engineVars, workerVars, ending>>

(* Faulty variant: the sweep takes the requests out of the engine only.     *)
SweepForgetsStreams ==
  LET rs == WithId(held, expired) IN
  /\ thread = "sweep"
  /\ held' = held \ rs
  /\ thread' = "step"
  /\ UNCHANGED <<handlerVars, incoming, stream, error, generated, streams, deadlines,
                 expired, queued, scheduled, finished, ending>>

(* _sweep_timeouts().                                                       *)
SweepTimeouts ==
  LET rs == WithId(held, expired) IN
  /\ thread = "sweep"
  /\ held' = held \ rs
  /\ Finish(rs, "ABORTED")
  /\ thread' = "step"
  /\ UNCHANGED <<handlerVars, incoming, error, generated, scheduled, finished, ending>>

(* Nothing unfinished: sleep and look again.                                *)
SleepIdle ==
  /\ thread = "step" /\ held = {}
  /\ thread' = "top"
  /\ UNCHANGED <<handlerVars, incoming, stream, error, engineVars, workerVars, ending>>

(* _record_step(): the wait of what is scheduled for the first time is over.*)
RecordStep(batch) == queued' = queued \ IdsOf(batch)

(* engine.step(): some requests are scheduled.  A prefill chunk yields no   *)
(* token, a request that reaches max_tokens finishes, eos may finish it     *)
(* earlier.                                                                 *)
EngineStep ==
  /\ thread = "step" /\ held # {}
  /\ \E batch \in SUBSET held :
     \E new \in [batch -> 0..TokensPerStep], done \in SUBSET batch :
       /\ \A c \in batch :
            /\ generated[c] + new[c] <= MaxTokens
            /\ new[c] = 0 => generated[c] = 0 \/ ChunkedRecompute
            /\ generated[c] + new[c] = MaxTokens => c \in done
            /\ c \in done => new[c] > 0
       /\ generated' = [c \in Clients |-> IF c \in batch THEN generated[c] + new[c]
                                                         ELSE generated[c]]
       /\ held' = held \ done
       /\ scheduled' = batch /\ finished' = done
       /\ RecordStep(batch)
  /\ thread' = "emit"
  /\ UNCHANGED <<handlerVars, incoming, stream, error, streams, deadlines, expired, ending>>

(* step() raises.                                                           *)
EngineRaises ==
  /\ thread = "step" /\ held # {}
  /\ thread' = "raised"
  /\ UNCHANGED <<handlerVars, incoming, stream, error, engineVars, workerVars, ending>>

(* Faulty variant: a finished request's last token is not sent.             *)
EmitSkipsFinished ==
  LET cs == { c \in scheduled \ finished : generated[c] > 0 } IN
  /\ thread = "emit"
  /\ stream' = PutAll(WithId(streams, IdsOf(cs)),
                      LAMBDA h : Token(generated[CHOOSE c \in cs : IdOf[c] = IdOf[h]]))
  /\ thread' = "finish"
  /\ UNCHANGED <<handlerVars, incoming, error, engineVars, workerVars, ending>>

(* _emit_tokens(): the last output token of every scheduled request.        *)
EmitTokens ==
  LET cs == { c \in scheduled : generated[c] > 0 } IN
  /\ thread = "emit"
  /\ stream' = PutAll(WithId(streams, IdsOf(cs)),
                      LAMBDA h : Token(generated[CHOOSE c \in cs : IdOf[c] = IdOf[h]]))
  /\ thread' = "finish"
  /\ UNCHANGED <<handlerVars, incoming, error, engineVars, workerVars, ending>>

FinishStep ==
  /\ thread = "finish"
  /\ Finish(finished, "STOPPED")
  /\ scheduled' = {} /\ finished' = {}
  /\ thread' = "top"
  /\ UNCHANGED <<handlerVars, incoming, error, held, generated, ending>>

-----------------------------------------------------------------------------
(* The engine thread dies *)

(* _run() records the error and enters _abort_everything().                 *)
RecordError ==
  /\ thread = "raised"
  /\ error' = TRUE
  /\ ending' = streams
  /\ thread' = "collect"
  /\ UNCHANGED <<handlerVars, incoming, stream, engineVars, workerVars>>

CollectQueued ==
  /\ thread = "collect" /\ incoming # <<>>
  /\ ending' = ending \cup Head(incoming).client
  /\ incoming' = Tail(incoming)
  /\ UNCHANGED <<handlerVars, stream, error, thread, engineVars, workerVars>>

EndEverything ==
  /\ thread = "collect" /\ incoming = <<>>
  /\ stream' = PutAll(ending, LAMBDA h : End("ABORTED"))
  /\ streams' = {} /\ ending' = {}
  /\ thread' = "dead"
  /\ UNCHANGED <<handlerVars, incoming, error, engineVars, deadlines, expired, queued>>

-----------------------------------------------------------------------------
(* The server *)

Init ==
  /\ handler = [c \in Clients |-> "new"] /\ inFlight = 0
  /\ incoming = <<>>
  /\ stream = [c \in Clients |-> <<>>]
  /\ error = FALSE /\ stop = FALSE
  /\ thread = "top"
  /\ held = {} /\ generated = [c \in Clients |-> 0]
  /\ streams = {} /\ deadlines = {} /\ expired = {} /\ queued = {}
  /\ scheduled = {} /\ finished = {}
  /\ ending = {}

Thread ==
  \/ LoopTop
  \/ DrainSubmission
  \/ DrainAbort
  \/ DrainDone
  \/ SweepTimeouts
  \/ SleepIdle
  \/ EngineStep
  \/ EngineRaises
  \/ EmitTokens
  \/ FinishStep
  \/ RecordError
  \/ CollectQueued
  \/ EndEverything

Next ==
  \/ Thread
  \/ Stop
  \/ \E id \in Ids : Expire(id)
  \/ \E c \in Clients :
       \/ Submit(c) \/ CheckError(c) \/ StartReading(c) \/ ReadToEnd(c) \/ Respond(c)
       \/ Disconnect(c) \/ CloseStream(c)

Spec == Init /\ [][Next]_vars

(* The thread keeps looping (a step() that never returns is not modelled),  *)
(* time passes, and a handler that is running continues.                    *)
FairSpec ==
  /\ Spec
  /\ WF_vars(Thread)
  /\ \A id \in Ids : WF_vars(Expire(id))
  /\ \A c \in Clients :
       /\ WF_vars(CheckError(c)) /\ WF_vars(StartReading(c))
       /\ WF_vars(ReadToEnd(c)) /\ WF_vars(Respond(c)) /\ WF_vars(CloseStream(c))

-----------------------------------------------------------------------------
(* Properties *)

Item == [token : 0..MaxTokens, end : {"no", "STOPPED", "ABORTED"}]

(* The types of the worker's state.                                         *)
TypeOK ==
  /\ handler \in [Clients -> {"new", "put", "open", "reading", "ended", "done", "leaving",
                              "gone"}]
  /\ incoming \in Seq([client : {{c} : c \in Clients} \cup {{}}, id : Ids])
  /\ stream \in [Clients -> Seq(Item)]
  /\ error \in BOOLEAN /\ stop \in BOOLEAN
  /\ thread \in {"top", "drain", "sweep", "step", "emit", "finish", "raised", "collect",
                 "dead", "exited"}
  /\ held \subseteq Clients
  /\ generated \in [Clients -> 0..MaxTokens]
  /\ streams \subseteq Clients
  /\ deadlines \subseteq Ids /\ expired \subseteq deadlines /\ queued \subseteq Ids
  /\ finished \subseteq scheduled /\ scheduled \subseteq Clients
  /\ ending \subseteq Clients

(* The positions of c's stream that hold a token.                           *)
Sent(c) == { i \in DOMAIN stream[c] : stream[c][i].end = "no" }

EndedAs(c, reason) == \E i \in DOMAIN stream[c] : stream[c][i].end = reason

(* StreamToken's docstring, "One newly-generated token for a request, in    *)
(* generation order": a stream carries the output's tokens one by one, is   *)
(* up to date after each step, and complete when the request finished by    *)
(* itself.                                                                  *)
StreamIsOutput ==
  \A c \in Clients :
    /\ \A i \in Sent(c) : stream[c][i].token = i
    /\ (thread = "top" /\ c \in held) \/ EndedAs(c, "STOPPED")
         => Sent(c) = 1..generated[c]

(* A reader stops at the first StreamEnd, so no token follows one.          *)
NothingAfterEnd ==
  \A c \in Clients : \A i, j \in DOMAIN stream[c] :
    i < j /\ stream[c][i].end # "no" => stream[c][j].end # "no"

(* A reader that stops at the first end has read the output, exactly.       *)
StreamCarriesOutput == StreamIsOutput /\ NothingAfterEnd

(* Between two rounds of the loop the worker's tables are exactly about the *)
(* requests in the engine: a leftover deadline would abort a later request  *)
(* with the same id, a leftover stream would never end, and the wait of a   *)
(* request that came and went unscheduled would never be forgotten.         *)
TablesMatchEngine ==
  thread \in {"top", "drain", "sweep", "step"} =>
    /\ streams = held
    /\ deadlines = IdsOf({ c \in held : HasDeadline(c) })
    /\ queued \subseteq IdsOf({ c \in held : generated[c] = 0 })

(* "Requests being streamed now": however a stream ends, it is taken off    *)
(* the gauge once.                                                          *)
GaugeIsExact ==
  inFlight = Cardinality({ c \in Clients : handler[c] \in {"reading", "leaving"} })

(* The worker's tables, the gauge, and the types of the state they speak    *)
(* of.                                                                      *)
WorkerIsConsistent == TypeOK /\ TablesMatchEngine /\ GaugeIsExact

(* "dead engine: nobody will ever pick this up (checked after the put: no   *)
(* gap)" and _abort_everything's docstring: once the engine thread has died *)
(* every stream a handler has been given has an end.                        *)
DeadEngineEndsEveryStream ==
  thread = "dead" =>
    \A c \in Clients : handler[c] \notin {"new", "put"} => HasEnd(c)

(* The backstop against a request that is stuck: unless the server is       *)
(* stopped, a stream with a deadline ends, whatever the engine does.        *)
EveryStreamEnds ==
  \A c \in Clients :
    HasDeadline(c) => (handler[c] = "open" ~> handler[c] \in {"done", "gone"} \/ stop)

(* _sse_stream's docstring: after a disconnect the request leaves the       *)
(* engine, without waiting for a timeout that it may not have.              *)
DisconnectFreesRequest ==
  \A c \in Clients :
    handler[c] = "gone" ~> \/ c \notin held /\ ~Contains(incoming, Submission(c))
                           \/ stop \/ error
=============================================================================
