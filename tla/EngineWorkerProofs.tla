------------------------- MODULE EngineWorkerProofs -------------------------
(***************************************************************************)
(* Proofs about EngineWorker, for any number of clients and any ids.       *)
(***************************************************************************)
EXTENDS EngineWorker, TLAPS, FiniteSetTheorems, SequenceTheorems

-----------------------------------------------------------------------------
(* The inductive invariant *)

InQueue(c) == \E i \in DOMAIN incoming : c \in incoming[i].client

(* A client whose submission the engine thread has not handled.             *)
Fresh(c) == handler[c] = "new" \/ InQueue(c)

(* A submission is put once.                                                *)
QueueInv ==
  \A c \in Clients :
    /\ handler[c] = "new" => ~InQueue(c)
    /\ \A i, j \in DOMAIN incoming :
         c \in incoming[i].client /\ c \in incoming[j].client => i = j

(* What the engine thread keeps, at every point of its loop.                *)
TablesInv ==
  /\ thread \notin {"emit", "finish"} => scheduled = {}
  /\ scheduled \subseteq streams
  /\ held \cap finished = {}
  /\ \A c, d \in held \cup finished : IdOf[c] = IdOf[d] => c = d
  /\ thread # "dead" =>
       /\ streams = held \cup finished
       /\ deadlines = IdsOf({ c \in streams : HasDeadline(c) })
       /\ queued \subseteq IdsOf({ c \in streams : generated[c] = 0 })
  /\ \A c \in Clients :
       Fresh(c) => generated[c] = 0 /\ c \notin streams /\ c \notin held

(* The gauge counts a finite number of readers.                             *)
Readers == { c \in Clients : handler[c] \in {"reading", "leaving"} }

GaugeInv == IsFiniteSet(Readers) /\ inFlight = Cardinality(Readers)

WorkerInv == TypeOK /\ QueueInv /\ TablesInv /\ GaugeInv

(* While the engine lives, a stream with an end is of a request that is     *)
(* over.                                                                    *)
EndsInv ==
  /\ error <=> thread \in {"collect", "dead"}
  /\ ~error => \A c \in Clients : HasEnd(c) => c \notin streams /\ ~Fresh(c)

(* The tokens that the current step has generated for c and not yet sent.   *)
Owed(c) == IF thread = "emit" /\ c \in scheduled /\ generated[c] > 0 THEN 1 ELSE 0

StreamInv ==
  \A c \in Clients :
    /\ Sent(c) = 1..(generated[c] - Owed(c))
    /\ \A i \in Sent(c) : stream[c][i].token = i

(* Who will end the stream of c, once it has been submitted.                *)
Ender(c) ==
  \/ HasEnd(c)
  \/ error /\ handler[c] = "put"
  \/ thread # "dead" /\ (c \in streams \/ c \in ending \/ InQueue(c))

EnderInv ==
  /\ thread = "collect" => streams \subseteq ending
  /\ thread # "collect" => ending = {}
  /\ \A c \in Clients : handler[c] # "new" => Ender(c)

-----------------------------------------------------------------------------
(* The queue of submissions *)

QueueItem == [client : {{c} : c \in Clients} \cup {{}}, id : Ids]

LEMMA ItemTypes ==
  ASSUME NEW c \in Clients
  PROVE  /\ IdOf[c] \in Ids
         /\ Submission(c) \in QueueItem /\ Submission(c).client = {c}
         /\ Abort(IdOf[c]) \in QueueItem /\ Abort(IdOf[c]).client = {}
  BY DEF Ids, QueueItem, Submission, Abort

LEMMA AppendQueue ==
  ASSUME incoming \in Seq(QueueItem), NEW x \in QueueItem, incoming' = Append(incoming, x)
  PROVE  /\ incoming' \in Seq(QueueItem)
         /\ \A c : InQueue(c)' <=> InQueue(c) \/ c \in x.client
         /\ QueueInv /\ (\A c \in x.client : ~InQueue(c)) =>
              \A c \in Clients : \A i, j \in DOMAIN incoming' :
                c \in incoming'[i].client /\ c \in incoming'[j].client => i = j
<1>1. /\ incoming' \in Seq(QueueItem)
      /\ DOMAIN incoming = 1..Len(incoming)
      /\ DOMAIN incoming' = 1..(Len(incoming) + 1)
      /\ Len(incoming) \in Nat
      /\ incoming'[Len(incoming) + 1] = x
      /\ \A i \in DOMAIN incoming : incoming'[i] = incoming[i]
  OBVIOUS
<1>2. \A i \in DOMAIN incoming' : i \in DOMAIN incoming \/ i = Len(incoming) + 1
  BY <1>1
<1>3. ASSUME NEW c PROVE InQueue(c)' <=> InQueue(c) \/ c \in x.client
  <2>1. Len(incoming) + 1 \in DOMAIN incoming' /\ DOMAIN incoming \subseteq DOMAIN incoming'
    BY <1>1
  <2>2. QED
    BY <1>1, <1>2, <2>1 DEF InQueue
<1>4. ASSUME QueueInv, \A c \in x.client : ~InQueue(c), NEW c \in Clients,
             NEW i \in DOMAIN incoming', NEW j \in DOMAIN incoming',
             c \in incoming'[i].client, c \in incoming'[j].client
      PROVE  i = j
  BY <1>1, <1>2, <1>4 DEF QueueInv, InQueue
<1>5. QED
  BY <1>1, <1>3, <1>4

LEMMA TakeFromQueue ==
  ASSUME incoming \in Seq(QueueItem), incoming # <<>>, incoming' = Tail(incoming)
  PROVE  /\ Head(incoming) \in QueueItem
         /\ incoming' \in Seq(QueueItem)
         /\ \A c : InQueue(c) <=> InQueue(c)' \/ c \in Head(incoming).client
         /\ QueueInv =>
              /\ \A c \in Head(incoming).client : c \in Clients => ~InQueue(c)'
              /\ \A c \in Clients : \A i, j \in DOMAIN incoming' :
                   c \in incoming'[i].client /\ c \in incoming'[j].client => i = j
<1>1. /\ incoming' \in Seq(QueueItem)
      /\ DOMAIN incoming = 1..Len(incoming) /\ Len(incoming) \in Nat \ {0}
      /\ DOMAIN incoming' = 1..(Len(incoming) - 1)
      /\ Head(incoming) = incoming[1]
      /\ \A i \in DOMAIN incoming' : incoming'[i] = incoming[i + 1]
  OBVIOUS
<1>2. 1 \in DOMAIN incoming /\ Head(incoming) \in QueueItem
  BY <1>1
<1>3. \A i \in DOMAIN incoming' : i + 1 \in DOMAIN incoming /\ i + 1 # 1
  BY <1>1
<1>4. ASSUME NEW c PROVE InQueue(c) <=> InQueue(c)' \/ c \in Head(incoming).client
  <2>1. \A i \in DOMAIN incoming : i = 1 \/ (i - 1 \in DOMAIN incoming' /\ (i - 1) + 1 = i)
    BY <1>1
  <2>2. QED
    BY <1>1, <1>2, <1>3, <2>1 DEF InQueue
<1>5. ASSUME QueueInv, NEW c \in Clients, c \in Head(incoming).client, InQueue(c)'
      PROVE  FALSE
  <2>1. PICK i \in DOMAIN incoming' : c \in incoming'[i].client
    BY <1>5 DEF InQueue
  <2>2. i + 1 = 1
    BY <1>1, <1>2, <1>3, <1>5, <2>1 DEF QueueInv
  <2>3. QED
    BY <1>3, <2>2
<1>6. ASSUME QueueInv, NEW c \in Clients,
             NEW i \in DOMAIN incoming', NEW j \in DOMAIN incoming',
             c \in incoming'[i].client, c \in incoming'[j].client
      PROVE  i = j
  <2>1. i + 1 = j + 1 /\ i \in Nat /\ j \in Nat
    BY <1>1, <1>3, <1>6 DEF QueueInv
  <2>2. QED
    BY <2>1
<1>7. QED
  BY <1>1, <1>2, <1>4, <1>5, <1>6

-----------------------------------------------------------------------------
(* What one more item on some streams does *)

LEMMA PutItems ==
  ASSUME stream \in [Clients -> Seq(Item)], NEW hs \in SUBSET Clients,
         NEW x \in [Clients -> Item],
         stream' = [c \in Clients |-> IF c \in hs THEN Append(stream[c], x[c]) ELSE stream[c]]
  PROVE  /\ stream' \in [Clients -> Seq(Item)]
         /\ \A c \in Clients \ hs : stream'[c] = stream[c]
         /\ \A c \in hs : HasEnd(c)' <=> HasEnd(c) \/ x[c].end # "no"
<1>1. stream' \in [Clients -> Seq(Item)] /\ \A c \in Clients \ hs : stream'[c] = stream[c]
  OBVIOUS
<1>2. ASSUME NEW c \in hs PROVE HasEnd(c)' <=> HasEnd(c) \/ x[c].end # "no"
  <2>1. /\ DOMAIN stream[c] = 1..Len(stream[c])
        /\ DOMAIN stream'[c] = 1..(Len(stream[c]) + 1)
        /\ Len(stream[c]) \in Nat
        /\ stream'[c][Len(stream[c]) + 1] = x[c]
        /\ \A i \in DOMAIN stream[c] : stream'[c][i] = stream[c][i]
    BY <1>1
  <2>2. \A i \in DOMAIN stream'[c] : i \in DOMAIN stream[c] \/ i = Len(stream[c]) + 1
    BY <2>1
  <2>3. Len(stream[c]) + 1 \in DOMAIN stream'[c] /\ DOMAIN stream[c] \subseteq DOMAIN stream'[c]
    BY <2>1
  <2>4. HasEnd(c)' => HasEnd(c) \/ x[c].end # "no"
    BY <2>1, <2>2 DEF HasEnd
  <2>5. HasEnd(c) \/ x[c].end # "no" => HasEnd(c)'
    BY <2>1, <2>3 DEF HasEnd
  <2>6. QED
    BY <2>4, <2>5
<1>3. QED
  BY <1>1, <1>2

LEMMA ItemType ==
  ASSUME NEW n \in 0..MaxTokens, NEW r \in {"STOPPED", "ABORTED"}
  PROVE  /\ Token(n) \in Item /\ Token(n).end = "no" /\ Token(n).token = n
         /\ End(r) \in Item /\ End(r).end = r /\ End(r).end # "no"
  BY WorkerAssumption DEF Token, End, Item

LEMMA AbortedType == End("ABORTED") \in Item
<1>1. 0 \in 0..MaxTokens
  BY WorkerAssumption
<1>2. QED
  BY <1>1, ItemType

-----------------------------------------------------------------------------
(* Type correctness *)

LEMMA FinishTypes ==
  ASSUME TypeOK, NEW rs \in SUBSET Clients, NEW reason \in {"STOPPED", "ABORTED"},
         Finish(rs, reason)
  PROVE  /\ streams' \subseteq streams
         /\ deadlines' \subseteq deadlines /\ expired' \subseteq deadlines'
         /\ queued' \subseteq queued
         /\ stream' \in [Clients -> Seq(Item)]
         /\ \A c \in Clients \ WithId(streams, IdsOf(rs)) : stream'[c] = stream[c]
         /\ \A c \in WithId(streams, IdsOf(rs)) : HasEnd(c)'
<1> DEFINE hs == WithId(streams, IdsOf(rs))
           x == [c \in Clients |-> End(reason)]
<1>1. hs \in SUBSET Clients /\ stream \in [Clients -> Seq(Item)]
  BY DEF TypeOK, WithId
<1>2. x \in [Clients -> Item] /\ \A c \in Clients : x[c].end # "no"
  BY ItemType, WorkerAssumption
<1>3. stream' = [c \in Clients |-> IF c \in hs THEN Append(stream[c], x[c]) ELSE stream[c]]
  BY DEF Finish, PutAll
<1> HIDE DEF x
<1>4. /\ stream' \in [Clients -> Seq(Item)]
      /\ \A c \in Clients \ hs : stream'[c] = stream[c]
      /\ \A c \in hs : HasEnd(c)'
  BY <1>1, <1>2, <1>3, PutItems
<1>5. /\ streams' \subseteq streams /\ deadlines' \subseteq deadlines
      /\ expired' \subseteq deadlines' /\ queued' \subseteq queued
  BY DEF Finish, TypeOK
<1>6. QED
  BY <1>4, <1>5

LEMMA TypeStep == TypeOK /\ [Next]_vars => TypeOK'
<1> SUFFICES ASSUME TypeOK, [Next]_vars PROVE TypeOK'
  OBVIOUS
<1> USE DEF TypeOK
<1>0. incoming \in Seq(QueueItem)
  BY DEF QueueItem
<1>1. ASSUME NEW c \in Clients, Submit(c) PROVE TypeOK'
  <2>1. incoming' \in Seq(QueueItem)
    BY <1>0, <1>1, ItemTypes, AppendQueue DEF Submit
  <2>2. QED
    BY <1>1, <2>1 DEF Submit, engineVars, workerVars, QueueItem
<1>2. ASSUME NEW c \in Clients, CheckError(c) PROVE TypeOK'
  <2>1. stream' \in [Clients -> Seq(Item)]
    BY <1>2, AbortedType DEF CheckError, PutAll
  <2>2. QED
    BY <1>2, <2>1 DEF CheckError, engineVars, workerVars
<1>3. ASSUME NEW c \in Clients, StartReading(c) \/ ReadToEnd(c) \/ Respond(c) \/ CloseStream(c)
      PROVE  TypeOK'
  BY <1>3 DEF StartReading, ReadToEnd, Respond, CloseStream, Moves, engineVars, workerVars
<1>4. ASSUME NEW c \in Clients, Disconnect(c) PROVE TypeOK'
  <2>1. incoming' \in Seq(QueueItem)
    BY <1>0, <1>4, ItemTypes, AppendQueue DEF Disconnect
  <2>2. QED
    BY <1>4, <2>1 DEF Disconnect, Moves, Left, engineVars, workerVars, QueueItem
<1>5. CASE Stop
  BY <1>5 DEF Stop, engineVars, workerVars
<1>6. ASSUME NEW id \in Ids, Expire(id) PROVE TypeOK'
  BY <1>6 DEF Expire, engineVars, handlerVars
<1>7. CASE LoopTop \/ DrainDone \/ SleepIdle \/ EngineRaises
  BY <1>7 DEF LoopTop, DrainDone, SleepIdle, EngineRaises, handlerVars, engineVars, workerVars
<1>8. CASE DrainSubmission
  <2>1. incoming' \in Seq(QueueItem)
    BY <1>0, <1>8, TakeFromQueue DEF DrainSubmission
  <2>2. PICK c \in Clients : IF IdOf[c] \in IdsOf(held) THEN RefuseSubmission
                                                        ELSE HandleSubmission(c)
    BY <1>8 DEF DrainSubmission
  <2>3. UNCHANGED <<handlerVars, error, ending>>
    BY <1>8 DEF DrainSubmission
  <2>4. CASE RefuseSubmission
    BY <2>1, <2>3, <2>4 DEF RefuseSubmission, handlerVars, engineVars, workerVars, QueueItem
  <2>5. CASE HandleSubmission(c)
    BY <2>1, <2>3, <2>5, ItemTypes DEF HandleSubmission, handlerVars, QueueItem, WithId
  <2>6. QED
    BY <2>2, <2>4, <2>5
<1>9. CASE DrainAbort
  <2>1. incoming' \in Seq(QueueItem)
    BY <1>0, <1>9, TakeFromQueue DEF DrainAbort
  <2>2. PICK rs \in SUBSET Clients : Finish(rs, "ABORTED") /\ held' = held \ rs
    BY <1>9 DEF DrainAbort, WithId
  <2>3. QED
    BY <1>9, <2>1, <2>2, FinishTypes DEF DrainAbort, handlerVars, QueueItem
<1>10. CASE SweepTimeouts
  <2>1. PICK rs \in SUBSET Clients : Finish(rs, "ABORTED") /\ held' = held \ rs
    BY <1>10 DEF SweepTimeouts, WithId
  <2>2. QED
    BY <1>10, <2>1, FinishTypes DEF SweepTimeouts, handlerVars
<1>11. CASE EngineStep
  <2>1. PICK batch, new, done :
          /\ batch \subseteq held /\ new \in [batch -> 0..TokensPerStep] /\ done \subseteq batch
          /\ \A c \in batch : generated[c] + new[c] <= MaxTokens
          /\ generated' = [c \in Clients |-> IF c \in batch THEN generated[c] + new[c]
                                                            ELSE generated[c]]
          /\ held' = held \ done
          /\ scheduled' = batch /\ finished' = done
          /\ RecordStep(batch)
    BY <1>11 DEF EngineStep
  <2>2. generated' \in [Clients -> 0..MaxTokens]
    BY <2>1, WorkerAssumption
  <2>3. QED
    BY <1>11, <2>1, <2>2 DEF EngineStep, RecordStep, handlerVars
<1>12. CASE EmitTokens
  <2> DEFINE cs == { c \in scheduled : generated[c] > 0 }
             n(h) == generated[CHOOSE c \in cs : IdOf[c] = IdOf[h]]
  <2>1. ASSUME NEW h \in WithId(streams, IdsOf(cs)) PROVE Token(n(h)) \in Item
    <3>1. \E c \in cs : IdOf[c] = IdOf[h]
      BY <2>1 DEF WithId, IdsOf
    <3>2. n(h) \in 0..MaxTokens
      BY <3>1
    <3>3. QED
      BY <3>2, ItemType
  <2>2. stream' = [c \in Clients |-> IF c \in WithId(streams, IdsOf(cs))
                                     THEN Append(stream[c], Token(n(c))) ELSE stream[c]]
    BY <1>12 DEF EmitTokens, PutAll
  <2> HIDE DEF n
  <2>3. stream' \in [Clients -> Seq(Item)]
    BY <2>1, <2>2
  <2>4. QED
    BY <1>12, <2>3 DEF EmitTokens, handlerVars, engineVars, workerVars
<1>13. CASE FinishStep
  BY <1>13, FinishTypes DEF FinishStep, handlerVars
<1>14. CASE RecordError
  BY <1>14 DEF RecordError, handlerVars, engineVars, workerVars
<1>15. CASE CollectQueued
  <2>1. incoming' \in Seq(QueueItem) /\ Head(incoming) \in QueueItem
    BY <1>0, <1>15, TakeFromQueue DEF CollectQueued
  <2>2. ending' \subseteq Clients
    BY <1>15, <2>1 DEF CollectQueued, QueueItem
  <2>3. QED
    BY <1>15, <2>1, <2>2 DEF CollectQueued, handlerVars, engineVars, workerVars, QueueItem
<1>16. CASE EndEverything
  <2>1. stream' \in [Clients -> Seq(Item)]
    BY <1>16, AbortedType DEF EndEverything, PutAll
  <2>2. QED
    BY <1>16, <2>1 DEF EndEverything, handlerVars, engineVars
<1>17. CASE UNCHANGED vars
  BY <1>17 DEF vars, handlerVars, engineVars, workerVars
<1>18. QED
  BY <1>1, <1>2, <1>3, <1>4, <1>5, <1>6, <1>7, <1>8, <1>9, <1>10, <1>11, <1>12, <1>13,
     <1>14, <1>15, <1>16, <1>17 DEF Next, Thread

-----------------------------------------------------------------------------
(* Submissions *)

(* A submission is handled once, and then never fresh again.                *)
LEMMA FreshStep ==
  ASSUME TypeOK, QueueInv, [Next]_vars
  PROVE  QueueInv' /\ \A c \in Clients : Fresh(c)' => Fresh(c)
<1>0. incoming \in Seq(QueueItem) /\ DOMAIN handler = Clients
  BY DEF TypeOK, QueueItem
<1>1. ASSUME UNCHANGED incoming, \A c \in Clients : handler'[c] = "new" => handler[c] = "new"
      PROVE  QueueInv' /\ \A c \in Clients : Fresh(c)' => Fresh(c)
  BY <1>1 DEF QueueInv, Fresh, InQueue
<1>2. ASSUME UNCHANGED handler, incoming # <<>>, incoming' = Tail(incoming)
      PROVE  QueueInv' /\ \A c \in Clients : Fresh(c)' => Fresh(c)
  <2>1. /\ \A c : InQueue(c)' => InQueue(c)
        /\ \A c \in Clients : \A i, j \in DOMAIN incoming' :
             c \in incoming'[i].client /\ c \in incoming'[j].client => i = j
    BY <1>0, <1>2, TakeFromQueue
  <2>2. QED
    BY <1>2, <2>1 DEF QueueInv, Fresh
<1>3. ASSUME NEW c \in Clients, Submit(c)
      PROVE  QueueInv' /\ \A d \in Clients : Fresh(d)' => Fresh(d)
  <2>1. ~InQueue(c) /\ handler[c] = "new" /\ handler' = [handler EXCEPT ![c] = "put"]
    BY <1>3 DEF Submit, QueueInv
  <2>2. /\ \A d : InQueue(d)' <=> InQueue(d) \/ d = c
        /\ \A d \in Clients : \A i, j \in DOMAIN incoming' :
             d \in incoming'[i].client /\ d \in incoming'[j].client => i = j
    BY <1>0, <1>3, <2>1, ItemTypes, AppendQueue DEF Submit
  <2>3. QED
    BY <1>0, <2>1, <2>2 DEF QueueInv, Fresh
<1>4. ASSUME NEW c \in Clients, Disconnect(c)
      PROVE  QueueInv' /\ \A d \in Clients : Fresh(d)' => Fresh(d)
  <2>1. handler' = [handler EXCEPT ![c] = Left(c)] /\ Left(c) # "new"
    BY <1>4 DEF Disconnect, Moves, Left
  <2>2. /\ \A d : InQueue(d)' <=> InQueue(d)
        /\ \A d \in Clients : \A i, j \in DOMAIN incoming' :
             d \in incoming'[i].client /\ d \in incoming'[j].client => i = j
    BY <1>0, <1>4, ItemTypes, AppendQueue DEF Disconnect
  <2>3. QED
    BY <1>0, <2>1, <2>2 DEF QueueInv, Fresh
<1>5. ASSUME NEW c \in Clients,
             CheckError(c) \/ StartReading(c) \/ ReadToEnd(c) \/ Respond(c) \/ CloseStream(c)
      PROVE  QueueInv' /\ \A d \in Clients : Fresh(d)' => Fresh(d)
  BY <1>0, <1>1, <1>5 DEF CheckError, StartReading, ReadToEnd, Respond, CloseStream, Moves
<1>6. CASE Stop \/ \E id \in Ids : Expire(id)
  BY <1>1, <1>6 DEF Stop, Expire, handlerVars
<1>7. CASE DrainSubmission \/ DrainAbort \/ CollectQueued
  BY <1>2, <1>7 DEF DrainSubmission, DrainAbort, CollectQueued, handlerVars
<1>8. CASE LoopTop \/ DrainDone \/ SweepTimeouts \/ SleepIdle \/ EngineStep \/ EngineRaises
           \/ EmitTokens \/ FinishStep \/ RecordError \/ EndEverything
  BY <1>1, <1>8 DEF LoopTop, DrainDone, SweepTimeouts, SleepIdle, EngineStep, EngineRaises,
     EmitTokens, FinishStep, RecordError, EndEverything, handlerVars
<1>9. CASE UNCHANGED vars
  BY <1>1, <1>9 DEF vars, handlerVars
<1>10. QED
  BY <1>3, <1>4, <1>5, <1>6, <1>7, <1>8, <1>9 DEF Next, Thread

-----------------------------------------------------------------------------
(* The tables of the engine thread *)

(* _finish() forgets exactly the requests it is given, because the ids of   *)
(* the requests in the engine differ.                                       *)
LEMMA FinishTables ==
  ASSUME TypeOK, TablesInv, thread # "dead", NEW rs \in SUBSET (held \cup finished),
         NEW reason, Finish(rs, reason)
  PROVE  /\ WithId(streams, IdsOf(rs)) = rs
         /\ streams' = streams \ rs
         /\ deadlines' = IdsOf({ c \in streams' : HasDeadline(c) })
         /\ queued' \subseteq IdsOf({ c \in streams' : generated[c] = 0 })
<1>1. /\ streams = held \cup finished
      /\ \A c, d \in streams : IdOf[c] = IdOf[d] => c = d
      /\ deadlines = IdsOf({ c \in streams : HasDeadline(c) })
      /\ queued \subseteq IdsOf({ c \in streams : generated[c] = 0 })
  BY DEF TablesInv
<1>2. WithId(streams, IdsOf(rs)) = rs
  BY <1>1 DEF WithId, IdsOf
<1>3. streams' = streams \ rs
  BY <1>2 DEF Finish
<1>4. ASSUME NEW S \in SUBSET streams
      PROVE  IdsOf(S) \ IdsOf(rs) = IdsOf(S \ rs)
  BY <1>1 DEF IdsOf
<1>5. deadlines' = IdsOf({ c \in streams' : HasDeadline(c) })
  <2> DEFINE S == { c \in streams : HasDeadline(c) }
  <2>1. IdsOf(S) \ IdsOf(rs) = IdsOf(S \ rs)
    BY <1>4
  <2>2. S \ rs = { c \in streams' : HasDeadline(c) }
    BY <1>3
  <2>3. QED
    BY <1>1, <2>1, <2>2 DEF Finish
<1>6. queued' \subseteq IdsOf({ c \in streams' : generated[c] = 0 })
  <2> DEFINE S == { c \in streams : generated[c] = 0 }
  <2>1. IdsOf(S) \ IdsOf(rs) = IdsOf(S \ rs)
    BY <1>4
  <2>2. S \ rs = { c \in streams' : generated[c] = 0 }
    BY <1>3
  <2>3. QED
    BY <1>1, <2>1, <2>2 DEF Finish
<1>7. QED
  BY <1>2, <1>3, <1>5, <1>6

LEMMA TablesStep ==
  ASSUME TypeOK, QueueInv, TablesInv, [Next]_vars
  PROVE  TablesInv'
<1>0. \A c \in Clients : Fresh(c)' => Fresh(c)
  BY FreshStep
<1>1. ASSUME UNCHANGED <<engineVars, streams, deadlines, queued>>,
             thread' # thread => /\ thread \notin {"emit", "finish", "dead"}
                                 /\ thread' \notin {"emit", "finish", "dead"}
      PROVE  TablesInv'
  <2>1. UNCHANGED <<held, generated, scheduled, finished, streams, deadlines, queued>>
    BY <1>1 DEF engineVars
  <2>2. QED
    BY <1>0, <1>1, <2>1 DEF TablesInv
<1>2. ASSUME NEW c \in Clients,
             \/ Submit(c) \/ CheckError(c) \/ StartReading(c) \/ ReadToEnd(c) \/ Respond(c)
             \/ Disconnect(c) \/ CloseStream(c)
      PROVE  TablesInv'
  BY <1>1, <1>2 DEF Submit, CheckError, StartReading, ReadToEnd, Respond, Disconnect,
     CloseStream, Moves, workerVars
<1>3. CASE Stop \/ \E id \in Ids : Expire(id)
  BY <1>1, <1>3 DEF Stop, Expire, workerVars
<1>4. CASE LoopTop \/ DrainDone \/ SleepIdle \/ EngineRaises \/ RecordError \/ CollectQueued
  BY <1>1, <1>4 DEF LoopTop, DrainDone, SleepIdle, EngineRaises, RecordError, CollectQueued,
     workerVars
<1>5. CASE DrainSubmission
  <2>1. PICK c \in Clients :
          /\ thread = "drain" /\ incoming # <<>>
          /\ c \in Head(incoming).client
          /\ incoming' = Tail(incoming)
          /\ IF IdOf[c] \in IdsOf(held) THEN RefuseSubmission ELSE HandleSubmission(c)
          /\ UNCHANGED <<handlerVars, error, ending>>
    BY <1>5 DEF DrainSubmission
  <2>2. CASE IdOf[c] \in IdsOf(held)
    BY <1>1, <2>1, <2>2 DEF RefuseSubmission, workerVars
  <2>3. CASE IdOf[c] \notin IdsOf(held)
    <3>1. HandleSubmission(c)
      BY <2>1, <2>3
    <3>2. /\ incoming \in Seq(QueueItem)
          /\ scheduled = {} /\ finished = {} /\ streams = held
      BY <2>1 DEF TypeOK, TablesInv, QueueItem
    <3>3. InQueue(c) /\ ~InQueue(c)'
      BY <2>1, <3>2, TakeFromQueue
    <3>4. handler[c] # "new" /\ UNCHANGED handler
      BY <2>1, <3>3 DEF QueueInv, handlerVars
    <3>5. Fresh(c) /\ ~(Fresh(c)')
      BY <3>3, <3>4 DEF Fresh
    <3>6. generated[c] = 0 /\ c \notin held /\ c \notin streams
      BY <3>5 DEF TablesInv
    <3>7. WithId(streams, {IdOf[c]}) = {}
      BY <2>3, <3>2 DEF WithId, IdsOf
    <3>8. /\ held' = held \cup {c} /\ streams' = streams \cup {c}
          /\ queued' = queued \cup {IdOf[c]}
          /\ deadlines' = IF HasDeadline(c) THEN deadlines \cup {IdOf[c]} ELSE deadlines
          /\ UNCHANGED <<thread, generated, scheduled, finished>>
      BY <3>1, <3>7 DEF HandleSubmission
    <3>9. deadlines' = IdsOf({ d \in streams' : HasDeadline(d) })
      BY <2>1, <3>8 DEF TablesInv, IdsOf
    <3>10. queued' \subseteq IdsOf({ d \in streams' : generated'[d] = 0 })
      BY <2>1, <3>6, <3>8 DEF TablesInv, IdsOf
    <3>11. \A d, e \in held' \cup finished' : IdOf[d] = IdOf[e] => d = e
      BY <2>3, <3>2, <3>8 DEF TablesInv, IdsOf
    <3>12. \A d \in Clients :
             Fresh(d)' => generated'[d] = 0 /\ d \notin streams' /\ d \notin held'
      BY <1>0, <3>5, <3>8 DEF TablesInv
    <3>13. QED
      BY <2>1, <3>2, <3>8, <3>9, <3>10, <3>11, <3>12 DEF TablesInv
  <2>4. QED
    BY <2>2, <2>3
<1>6. ASSUME NEW rs \in SUBSET held, Finish(rs, "ABORTED"), held' = held \ rs,
             thread \in {"drain", "sweep"}, thread' \in {"drain", "step"},
             UNCHANGED <<generated, scheduled, finished>>
      PROVE  TablesInv'
  <2>1. scheduled = {} /\ finished = {} /\ streams = held
    BY <1>6 DEF TypeOK, TablesInv
  <2>2. /\ streams' = streams \ rs
        /\ deadlines' = IdsOf({ c \in streams' : HasDeadline(c) })
        /\ queued' \subseteq IdsOf({ c \in streams' : generated[c] = 0 })
    BY <1>6, FinishTables
  <2>3. \A d \in Clients :
          Fresh(d)' => generated'[d] = 0 /\ d \notin streams' /\ d \notin held'
    BY <1>0, <1>6, <2>2 DEF TablesInv
  <2>4. \A d, e \in held' \cup finished' : IdOf[d] = IdOf[e] => d = e
    BY <1>6 DEF TablesInv
  <2>5. QED
    BY <1>6, <2>1, <2>2, <2>3, <2>4 DEF TablesInv
<1>7. CASE DrainAbort
  BY <1>6, <1>7 DEF DrainAbort, WithId
<1>8. CASE SweepTimeouts
  BY <1>6, <1>8 DEF SweepTimeouts, WithId
<1>9. CASE EngineStep
  <2>1. PICK batch, new, done :
          /\ batch \subseteq held /\ new \in [batch -> 0..TokensPerStep] /\ done \subseteq batch
          /\ generated' = [c \in Clients |-> IF c \in batch THEN generated[c] + new[c]
                                                            ELSE generated[c]]
          /\ held' = held \ done
          /\ scheduled' = batch /\ finished' = done
          /\ queued' = queued \ IdsOf(batch)
    BY <1>9 DEF EngineStep, RecordStep
  <2>2. /\ thread = "step" /\ thread' = "emit" /\ scheduled = {} /\ finished = {}
        /\ streams = held
        /\ UNCHANGED <<streams, deadlines>>
    BY <1>9 DEF EngineStep, TypeOK, TablesInv
  <2>3. \A c \in Clients \ batch : generated'[c] = generated[c]
    BY <2>1
  <2>4. queued' \subseteq IdsOf({ c \in streams : generated'[c] = 0 })
    <3>1. SUFFICES ASSUME NEW id \in queued, id \notin IdsOf(batch)
                   PROVE  id \in IdsOf({ c \in streams : generated'[c] = 0 })
      BY <2>1
    <3>2. PICK c \in streams : id = IdOf[c] /\ generated[c] = 0
      BY <2>2 DEF TablesInv, IdsOf
    <3>3. c \notin batch /\ c \in Clients
      BY <3>1, <3>2 DEF IdsOf, TypeOK
    <3>4. QED
      BY <2>3, <3>2, <3>3 DEF IdsOf
  <2>5. \A d \in Clients :
          Fresh(d)' => generated'[d] = 0 /\ d \notin streams' /\ d \notin held'
    BY <1>0, <2>1, <2>2, <2>3 DEF TablesInv
  <2>6. held' \cup finished' = streams' /\ held' \cap finished' = {}
    BY <2>1, <2>2
  <2>7. \A d, e \in held' \cup finished' : IdOf[d] = IdOf[e] => d = e
    BY <2>2, <2>6 DEF TablesInv
  <2>8. deadlines' = IdsOf({ c \in streams' : HasDeadline(c) })
    BY <2>2 DEF TablesInv
  <2>9. QED
    BY <2>1, <2>2, <2>4, <2>5, <2>6, <2>7, <2>8 DEF TablesInv
<1>10. CASE EmitTokens
  <2>1. thread = "emit" /\ thread' = "finish" /\ UNCHANGED <<held, generated, scheduled,
          finished, streams, deadlines, queued>>
    BY <1>10 DEF EmitTokens, engineVars, workerVars
  <2>2. QED
    BY <1>0, <2>1 DEF TablesInv
<1>11. CASE FinishStep
  <2>1. /\ thread = "finish" /\ thread' = "top" /\ Finish(finished, "STOPPED")
        /\ scheduled' = {} /\ finished' = {} /\ UNCHANGED <<held, generated>>
    BY <1>11 DEF FinishStep
  <2>2. /\ streams' = streams \ finished
        /\ deadlines' = IdsOf({ c \in streams' : HasDeadline(c) })
        /\ queued' \subseteq IdsOf({ c \in streams' : generated[c] = 0 })
    BY <2>1, FinishTables
  <2>3. streams' = held
    BY <2>1, <2>2 DEF TablesInv
  <2>4. QED
    BY <1>0, <2>1, <2>2, <2>3 DEF TablesInv
<1>12. CASE EndEverything
  <2>1. /\ thread = "collect" /\ thread' = "dead" /\ streams' = {}
        /\ UNCHANGED <<held, generated, scheduled, finished>>
    BY <1>12 DEF EndEverything, engineVars
  <2>2. scheduled = {}
    BY <2>1 DEF TablesInv
  <2>3. QED
    BY <1>0, <2>1, <2>2 DEF TablesInv
<1>13. CASE UNCHANGED vars
  BY <1>1, <1>13 DEF vars, workerVars
<1>14. QED
  BY <1>2, <1>3, <1>4, <1>5, <1>7, <1>8, <1>9, <1>10, <1>11, <1>12, <1>13 DEF Next, Thread

-----------------------------------------------------------------------------
(* The gauge *)

LEMMA GaugeStep ==
  ASSUME TypeOK, GaugeInv, [Next]_vars
  PROVE  GaugeInv'
<1>0. handler \in [Clients -> {"new", "put", "open", "reading", "ended", "done", "leaving",
                               "gone"}]
  BY DEF TypeOK
<1>1. ASSUME UNCHANGED <<handler, inFlight>> PROVE GaugeInv'
  BY <1>1 DEF GaugeInv, Readers
<1>2. ASSUME Readers' = Readers, UNCHANGED inFlight PROVE GaugeInv'
  BY <1>2 DEF GaugeInv
<1>3. ASSUME NEW c \in Clients, StartReading(c) PROVE GaugeInv'
  <2>1. c \notin Readers /\ Readers' = Readers \cup {c} /\ inFlight' = inFlight + 1
    BY <1>0, <1>3 DEF StartReading, Moves, Readers
  <2>2. QED
    BY <2>1, FS_AddElement DEF GaugeInv
<1>4. ASSUME NEW c \in Clients, ReadToEnd(c) \/ CloseStream(c) PROVE GaugeInv'
  <2>1. c \in Readers /\ Readers' = Readers \ {c} /\ inFlight' = inFlight - 1
    BY <1>0, <1>4 DEF ReadToEnd, CloseStream, Moves, Readers
  <2>2. QED
    BY <2>1, FS_RemoveElement DEF GaugeInv
<1>5. ASSUME NEW c \in Clients, Submit(c) \/ CheckError(c) PROVE GaugeInv'
  BY <1>0, <1>2, <1>5 DEF Submit, CheckError, Readers
<1>6. ASSUME NEW c \in Clients, Respond(c) \/ Disconnect(c) PROVE GaugeInv'
  <2>1. Readers' = Readers
    BY <1>0, <1>6 DEF Respond, Disconnect, Moves, Left, Readers
  <2>2. inFlight' = inFlight + 0
    BY <1>6 DEF Respond, Disconnect, Moves
  <2>3. inFlight \in Nat
    BY FS_CardinalityType DEF GaugeInv
  <2>4. QED
    BY <1>2, <2>1, <2>2, <2>3
<1>7. CASE Stop \/ \E id \in Ids : Expire(id)
  BY <1>1, <1>7 DEF Stop, Expire, handlerVars
<1>8. CASE Thread
  BY <1>1, <1>8 DEF Thread, LoopTop, DrainSubmission, DrainAbort, DrainDone, SweepTimeouts,
     SleepIdle, EngineStep, EngineRaises, EmitTokens, FinishStep, RecordError, CollectQueued,
     EndEverything, handlerVars
<1>9. CASE UNCHANGED vars
  BY <1>1, <1>9 DEF vars, handlerVars
<1>10. QED
  BY <1>3, <1>4, <1>5, <1>6, <1>7, <1>8, <1>9 DEF Next

LEMMA InitWorker == Init => WorkerInv
<1> SUFFICES ASSUME Init PROVE WorkerInv
  OBVIOUS
<1>1. TypeOK
  <2>1. 0 \in 0..MaxTokens /\ <<>> \in Seq(Item) /\ <<>> \in Seq(QueueItem)
    BY WorkerAssumption, EmptySeq
  <2>2. QED
    BY <2>1 DEF Init, TypeOK, QueueItem
<1>2. QueueInv
  BY DEF Init, QueueInv, InQueue
<1>3. TablesInv
  BY DEF Init, TablesInv, IdsOf
<1>4. Readers = {}
  BY DEF Init, Readers
<1>5. GaugeInv
  BY <1>4, FS_EmptySet DEF Init, GaugeInv
<1>6. QED
  BY <1>1, <1>2, <1>3, <1>5 DEF WorkerInv

LEMMA WorkerStep == WorkerInv /\ [Next]_vars => WorkerInv'
  BY TypeStep, FreshStep, TablesStep, GaugeStep DEF WorkerInv

LEMMA WorkerInvariant == Spec => []WorkerInv
<1>1. QED
  BY InitWorker, WorkerStep, PTL DEF Spec

(* engine_worker.py's tables: between two rounds of the loop _streams,      *)
(* _deadlines and _queued are exactly about the requests in the engine, and *)
(* the gauge of app.py's timed() counts each reader once; for any clients,  *)
(* also when they choose the same id.                                       *)
THEOREM WorkerStaysConsistent == Spec => []WorkerIsConsistent
<1>1. WorkerInv => WorkerIsConsistent
  <2> SUFFICES ASSUME WorkerInv PROVE WorkerIsConsistent
    OBVIOUS
  <2>1. TypeOK /\ GaugeIsExact
    BY DEF WorkerInv, GaugeInv, GaugeIsExact, Readers
  <2>2. TablesMatchEngine
    <3> SUFFICES ASSUME thread \in {"top", "drain", "sweep", "step"}
                 PROVE  /\ streams = held
                        /\ deadlines = IdsOf({ c \in held : HasDeadline(c) })
                        /\ queued \subseteq IdsOf({ c \in held : generated[c] = 0 })
      BY DEF TablesMatchEngine
    <3>1. scheduled = {} /\ finished = {} /\ thread # "dead"
      BY DEF WorkerInv, TypeOK, TablesInv
    <3>2. streams = held
      BY <3>1 DEF WorkerInv, TablesInv
    <3>3. QED
      BY <3>1, <3>2 DEF WorkerInv, TablesInv
  <2>3. QED
    BY <2>1, <2>2 DEF WorkerIsConsistent
<1>2. QED
  BY <1>1, WorkerInvariant, PTL

-----------------------------------------------------------------------------
(* Ends and tokens of a stream *)

LEMMA EndsStep ==
  ASSUME WorkerInv, WorkerInv', EndsInv, [Next]_vars
  PROVE  EndsInv'
<1>0. /\ \A c \in Clients : Fresh(c)' => Fresh(c)
      /\ stream \in [Clients -> Seq(Item)] /\ streams \subseteq Clients
  BY FreshStep DEF WorkerInv, TypeOK
<1>1. ASSUME UNCHANGED <<error, stream>>, streams' \subseteq streams,
             thread' # thread => /\ thread \notin {"collect", "dead"}
                                 /\ thread' \notin {"collect", "dead"}
      PROVE  EndsInv'
  BY <1>0, <1>1 DEF EndsInv, HasEnd
<1>2. ASSUME NEW c \in Clients,
             \/ Submit(c) \/ StartReading(c) \/ ReadToEnd(c) \/ Respond(c)
             \/ Disconnect(c) \/ CloseStream(c)
      PROVE  EndsInv'
  BY <1>1, <1>2 DEF Submit, StartReading, ReadToEnd, Respond, Disconnect, CloseStream, Moves,
     workerVars
<1>3. ASSUME NEW c \in Clients, CheckError(c) PROVE EndsInv'
  <2>1. CASE error
    BY <1>3, <2>1 DEF CheckError, EndsInv
  <2>2. CASE ~error
    BY <1>1, <1>3, <2>2 DEF CheckError, workerVars
  <2>3. QED
    BY <2>1, <2>2
<1>4. CASE Stop \/ \E id \in Ids : Expire(id)
  BY <1>1, <1>4 DEF Stop, Expire, workerVars
<1>5. CASE LoopTop \/ DrainDone \/ SleepIdle \/ EngineRaises \/ CollectQueued \/ EngineStep
  BY <1>1, <1>5 DEF LoopTop, DrainDone, SleepIdle, EngineRaises, CollectQueued, EngineStep,
     workerVars
<1>6. CASE DrainSubmission
  <2>1. PICK c \in Clients :
          /\ thread = "drain" /\ incoming # <<>> /\ c \in Head(incoming).client
          /\ IF IdOf[c] \in IdsOf(held) THEN RefuseSubmission ELSE HandleSubmission(c)
          /\ UNCHANGED error
    BY <1>6 DEF DrainSubmission
  <2>2. CASE RefuseSubmission
    BY <1>1, <2>1, <2>2 DEF RefuseSubmission, workerVars
  <2>3. CASE HandleSubmission(c)
    <3>1. incoming \in Seq(QueueItem)
      <4>1. TypeOK
        BY DEF WorkerInv
      <4>2. QED
        BY <4>1 DEF TypeOK, QueueItem
    <3>2. Fresh(c) /\ ~error
      <4>1. c \in Head(incoming).client /\ thread = "drain" /\ incoming # <<>>
        BY <2>1
      <4>2. Head(incoming) = incoming[1] /\ 1 \in DOMAIN incoming
        BY <3>1, <4>1
      <4>3. QED
        BY <4>1, <4>2 DEF Fresh, InQueue, EndsInv
    <3>3. streams' \subseteq streams \cup {c} /\ UNCHANGED <<stream, thread>>
      BY <2>3 DEF HandleSubmission
    <3>4. \A d \in Clients : HasEnd(d)' <=> HasEnd(d)
      BY <3>3 DEF HasEnd
    <3>5. QED
      BY <1>0, <2>1, <3>2, <3>3, <3>4 DEF EndsInv
  <2>4. QED
    BY <2>1, <2>2, <2>3
<1>7. ASSUME NEW rs \in SUBSET (held \cup finished), Finish(rs, "ABORTED") \/ Finish(rs, "STOPPED"),
             thread \in {"drain", "sweep", "finish"}, thread' \in {"drain", "step", "top"},
             UNCHANGED error
      PROVE  EndsInv'
  <2>1. WithId(streams, IdsOf(rs)) = rs /\ streams' = streams \ rs
    BY <1>7, FinishTables DEF WorkerInv
  <2>2. rs \subseteq streams
    BY <1>7 DEF WorkerInv, TablesInv
  <2>3. \A c \in Clients \ rs : stream'[c] = stream[c]
    BY <1>0, <1>7, <2>1, <2>2, FinishTypes DEF WorkerInv
  <2>4. \A c \in Clients \ rs : HasEnd(c)' <=> HasEnd(c)
    BY <2>3 DEF HasEnd
  <2>5. \A c \in rs : c \in Clients => ~(Fresh(c)')
    BY <1>0, <2>2 DEF WorkerInv, TablesInv
  <2>6. QED
    BY <1>0, <1>7, <2>1, <2>4, <2>5 DEF EndsInv
<1>8. CASE DrainAbort \/ SweepTimeouts \/ FinishStep
  BY <1>7, <1>8 DEF DrainAbort, SweepTimeouts, FinishStep, WithId
<1>9. CASE EmitTokens
  <2> DEFINE cs == { c \in scheduled : generated[c] > 0 }
             x == [h \in Clients |-> Token(generated[CHOOSE c \in cs : IdOf[c] = IdOf[h]])]
             hs == WithId(streams, IdsOf(cs))
  <2>1. /\ stream' = [c \in Clients |-> IF c \in hs THEN Append(stream[c], x[c]) ELSE stream[c]]
        /\ hs \subseteq Clients
        /\ \A c \in Clients : x[c].end = "no"
    BY <1>0, <1>9 DEF EmitTokens, PutAll, WithId, Token
  <2> HIDE DEF x, hs
  <2>2. ASSUME NEW c \in Clients, HasEnd(c)' PROVE HasEnd(c)
    <3>1. PICK i \in DOMAIN stream'[c] : stream'[c][i].end # "no"
      BY <2>2 DEF HasEnd
    <3>2. CASE c \in hs
      <4>1. stream'[c] = Append(stream[c], x[c])
        BY <2>1, <3>2
      <4>2. i \in DOMAIN stream[c] /\ stream'[c][i] = stream[c][i]
        BY <1>0, <2>1, <3>1, <4>1
      <4>3. QED
        BY <3>1, <4>2 DEF HasEnd
    <3>3. CASE c \notin hs
      BY <2>1, <3>1, <3>3 DEF HasEnd
    <3>4. QED
      BY <3>2, <3>3
  <2>3. UNCHANGED <<error, streams>> /\ thread = "emit" /\ thread' = "finish"
    BY <1>9 DEF EmitTokens, workerVars
  <2>4. QED
    BY <1>0, <2>2, <2>3 DEF EndsInv
<1>10. CASE RecordError \/ EndEverything
  BY <1>10 DEF RecordError, EndEverything, EndsInv
<1>11. CASE UNCHANGED vars
  BY <1>1, <1>11 DEF vars, workerVars
<1>12. QED
  BY <1>2, <1>3, <1>4, <1>5, <1>6, <1>8, <1>9, <1>10, <1>11 DEF Next, Thread

LEMMA EndsInvariant == Spec => []EndsInv
<1>1. Init => EndsInv
  BY DEF Init, EndsInv, HasEnd
<1>2. WorkerInv /\ WorkerInv' /\ EndsInv /\ [Next]_vars => EndsInv'
  BY EndsStep
<1>3. QED
  BY <1>1, <1>2, WorkerInvariant, PTL DEF Spec

(* What one more item does to the tokens of a stream.                       *)
LEMMA PutSent ==
  ASSUME stream \in [Clients -> Seq(Item)], NEW c \in Clients, NEW x \in Item,
         stream'[c] = Append(stream[c], x)
  PROVE  /\ Sent(c)' = IF x.end = "no" THEN Sent(c) \cup {Len(stream[c]) + 1} ELSE Sent(c)
         /\ \A i \in Sent(c) : stream'[c][i] = stream[c][i]
         /\ stream'[c][Len(stream[c]) + 1] = x
<1>1. /\ DOMAIN stream[c] = 1..Len(stream[c]) /\ Len(stream[c]) \in Nat
      /\ DOMAIN stream'[c] = 1..(Len(stream[c]) + 1)
      /\ stream'[c][Len(stream[c]) + 1] = x
      /\ \A i \in DOMAIN stream[c] : stream'[c][i] = stream[c][i]
  OBVIOUS
<1>2. \A i : i \in DOMAIN stream'[c] <=> i \in DOMAIN stream[c] \/ i = Len(stream[c]) + 1
  BY <1>1
<1>3. QED
  BY <1>1, <1>2 DEF Sent

LEMMA SameInterval ==
  ASSUME NEW m \in Nat, NEW n \in Nat, 1..m = 1..n
  PROVE  m = n
<1>1. ~(m < n)
  <2>1. m < n => n \in 1..n /\ n \notin 1..m
    OBVIOUS
  <2>2. QED
    BY <2>1
<1>2. ~(n < m)
  <2>1. n < m => m \in 1..m /\ m \notin 1..n
    OBVIOUS
  <2>2. QED
    BY <2>1
<1>3. QED
  BY <1>1, <1>2

(* One token per step, and no step without one once a request is past its   *)
(* prompt: the engine without drafts whose budget fits a recompute.         *)
OneTokenPerStep == TokensPerStep = 1 /\ ~ChunkedRecompute

LEMMA StreamStep ==
  ASSUME OneTokenPerStep, WorkerInv, WorkerInv', EndsInv, StreamInv, [Next]_vars
  PROVE  StreamInv'
<1>0. /\ stream \in [Clients -> Seq(Item)] /\ streams \subseteq Clients
      /\ generated \in [Clients -> 0..MaxTokens]
      /\ scheduled \subseteq streams /\ MaxTokens \in Nat
  BY WorkerAssumption DEF WorkerInv, TypeOK, TablesInv
<1>1. ASSUME NEW c \in Clients, stream'[c] = stream[c],
             generated'[c] - Owed(c)' = generated[c] - Owed(c)
      PROVE  /\ Sent(c)' = 1..(generated[c] - Owed(c))'
             /\ \A i \in Sent(c)' : stream'[c][i].token = i
  BY <1>1 DEF Sent, StreamInv
<1>2. ASSUME NEW hs \in SUBSET Clients, NEW x \in Item, x.end # "no",
             \A c \in hs : stream'[c] = Append(stream[c], x),
             \A c \in Clients \ hs : stream'[c] = stream[c],
             \A c \in Clients : generated'[c] - Owed(c)' = generated[c] - Owed(c)
      PROVE  StreamInv'
  <2>1. ASSUME NEW c \in hs
        PROVE  /\ Sent(c)' = 1..(generated[c] - Owed(c))'
               /\ \A i \in Sent(c)' : stream'[c][i].token = i
    <3>1. Sent(c)' = Sent(c) /\ \A i \in Sent(c) : stream'[c][i] = stream[c][i]
      BY <1>0, <1>2, PutSent
    <3>2. QED
      BY <1>2, <3>1 DEF StreamInv
  <2>2. QED
    BY <1>1, <1>2, <2>1 DEF StreamInv
<1>3. ASSUME UNCHANGED <<stream, generated>>, thread # "emit", thread' # "emit"
      PROVE  StreamInv'
  BY <1>1, <1>3 DEF Owed, StreamInv
<1>4. ASSUME UNCHANGED <<stream, generated, thread, scheduled>> PROVE StreamInv'
  BY <1>1, <1>4 DEF Owed, StreamInv
<1>5. ASSUME NEW c \in Clients,
             \/ Submit(c) \/ StartReading(c) \/ ReadToEnd(c) \/ Respond(c)
             \/ Disconnect(c) \/ CloseStream(c)
      PROVE  StreamInv'
  BY <1>4, <1>5 DEF Submit, StartReading, ReadToEnd, Respond, Disconnect, CloseStream, Moves,
     engineVars
<1>6. ASSUME NEW c \in Clients, CheckError(c) PROVE StreamInv'
  <2>1. UNCHANGED <<generated, thread, scheduled>>
    BY <1>6 DEF CheckError, engineVars
  <2>2. CASE error
    <3>1. stream' = [h \in Clients |-> IF h \in {c} THEN Append(stream[h], End("ABORTED"))
                                                    ELSE stream[h]]
      BY <1>6, <2>2 DEF CheckError, PutAll
    <3>2. End("ABORTED").end # "no"
      BY DEF End
    <3>3. QED
      BY <1>2, <2>1, <3>1, <3>2, AbortedType DEF Owed
  <2>3. CASE ~error
    BY <1>4, <1>6, <2>1, <2>3 DEF CheckError
  <2>4. QED
    BY <2>2, <2>3
<1>7. CASE Stop \/ \E id \in Ids : Expire(id)
  BY <1>4, <1>7 DEF Stop, Expire, engineVars
<1>8. CASE LoopTop \/ DrainDone \/ SleepIdle \/ EngineRaises \/ RecordError \/ CollectQueued
           \/ DrainSubmission
  BY <1>3, <1>8 DEF LoopTop, DrainDone, SleepIdle, EngineRaises, RecordError, CollectQueued,
     DrainSubmission, RefuseSubmission, HandleSubmission, engineVars
<1>9. ASSUME NEW rs \in SUBSET Clients, NEW reason \in {"STOPPED", "ABORTED"}, Finish(rs, reason),
             thread # "emit", thread' # "emit", UNCHANGED generated
      PROVE  StreamInv'
  <2> DEFINE hs == WithId(streams, IdsOf(rs))
  <2>1. stream' = [h \in Clients |-> IF h \in hs THEN Append(stream[h], End(reason))
                                                  ELSE stream[h]]
    BY <1>9 DEF Finish, PutAll
  <2>2. hs \subseteq Clients
    BY <1>0 DEF WithId
  <2>3. End(reason) \in Item /\ End(reason).end # "no"
    <3>1. 0 \in 0..MaxTokens
      BY <1>0
    <3>2. QED
      BY <3>1, ItemType
  <2>4. QED
    BY <1>2, <1>9, <2>1, <2>2, <2>3 DEF Owed
<1>10. CASE DrainAbort \/ SweepTimeouts \/ FinishStep
  <2>1. held \subseteq Clients /\ finished \subseteq Clients
    BY DEF WorkerInv, TypeOK
  <2>2. QED
    BY <1>9, <1>10, <2>1 DEF DrainAbort, SweepTimeouts, FinishStep, WithId
<1>11. CASE EngineStep
  <2>1. PICK batch, new :
          /\ batch \subseteq held /\ new \in [batch -> 0..TokensPerStep]
          /\ \A c \in batch : new[c] = 0 => generated[c] = 0 \/ ChunkedRecompute
          /\ generated' = [c \in Clients |-> IF c \in batch THEN generated[c] + new[c]
                                                            ELSE generated[c]]
          /\ scheduled' = batch
    BY <1>11 DEF EngineStep
  <2>2. thread = "step" /\ thread' = "emit" /\ UNCHANGED stream
    BY <1>11 DEF EngineStep
  <2>3. ASSUME NEW c \in Clients
        PROVE  generated'[c] - Owed(c)' = generated[c] - Owed(c)
    <3>1. CASE c \in batch
      <4>1. new[c] \in {0, 1} /\ (new[c] = 0 => generated[c] = 0)
        BY <2>1, <3>1 DEF OneTokenPerStep
      <4>2. generated'[c] = generated[c] + new[c] /\ c \in scheduled'
        BY <2>1, <3>1
      <4>3. QED
        BY <1>0, <2>2, <4>1, <4>2 DEF Owed
    <3>2. CASE c \notin batch
      BY <2>1, <2>2, <3>2 DEF Owed
    <3>3. QED
      BY <3>1, <3>2
  <2>4. QED
    BY <1>1, <2>2, <2>3 DEF StreamInv
<1>12. CASE EmitTokens
  <2> DEFINE cs == { c \in scheduled : generated[c] > 0 }
  <2>1. /\ thread = "emit" /\ thread' = "finish" /\ UNCHANGED <<generated, scheduled>>
        /\ stream' = [h \in Clients |->
             IF h \in WithId(streams, IdsOf(cs))
             THEN Append(stream[h], Token(generated[CHOOSE c \in cs : IdOf[c] = IdOf[h]]))
             ELSE stream[h]]
    BY <1>12 DEF EmitTokens, PutAll, engineVars
  <2>2. \A c, d \in streams : IdOf[c] = IdOf[d] => c = d
    BY <2>1 DEF WorkerInv, TablesInv
  <2>3. cs \subseteq streams /\ WithId(streams, IdsOf(cs)) = cs
    BY <1>0, <2>2 DEF WithId, IdsOf
  <2>4. ASSUME NEW h \in cs
        PROVE  (CHOOSE c \in cs : IdOf[c] = IdOf[h]) = h
    <3>1. \A c \in cs : IdOf[c] = IdOf[h] <=> c = h
      BY <2>2, <2>3
    <3>2. QED
      BY <3>1
  <2>5. ASSUME NEW h \in cs
        PROVE  /\ Sent(h)' = 1..(generated[h] - Owed(h))'
               /\ \A i \in Sent(h)' : stream'[h][i].token = i
    <3>1. h \in Clients /\ h \in streams /\ generated[h] \in 1..MaxTokens /\ Owed(h) = 1
      BY <1>0, <2>1, <2>3, <2>5 DEF Owed
    <3>2. stream'[h] = Append(stream[h], Token(generated[h]))
      BY <2>1, <2>3, <2>4, <2>5, <3>1
    <3>3. ~HasEnd(h)
      BY <2>1, <3>1 DEF EndsInv
    <3>4. Sent(h) = 1..Len(stream[h]) /\ Len(stream[h]) \in Nat
      <4>1. DOMAIN stream[h] = 1..Len(stream[h]) /\ Len(stream[h]) \in Nat
        BY <1>0, <3>1
      <4>2. QED
        BY <3>3, <4>1 DEF HasEnd, Sent
    <3>5. Sent(h) = 1..(generated[h] - 1) /\ generated[h] - 1 \in Nat
      BY <3>1 DEF StreamInv
    <3>6. Len(stream[h]) = generated[h] - 1
      BY <3>4, <3>5, SameInterval
    <3>7. /\ Token(generated[h]) \in Item /\ Token(generated[h]).end = "no"
          /\ Token(generated[h]).token = generated[h]
      <4>1. generated[h] \in 0..MaxTokens
        BY <1>0, <3>1
      <4>2. QED
        BY <4>1, ItemType
    <3>8. /\ Sent(h)' = Sent(h) \cup {generated[h]}
          /\ \A i \in Sent(h) : stream'[h][i] = stream[h][i]
          /\ stream'[h][generated[h]] = Token(generated[h])
      <4>1. Len(stream[h]) + 1 = generated[h]
        BY <3>1, <3>6
      <4>2. PICK x \in Item : x = Token(generated[h])
        BY <3>7
      <4>3. x.end = "no" /\ stream'[h] = Append(stream[h], x)
        BY <3>2, <3>7, <4>2
      <4>4. /\ Sent(h)' = IF x.end = "no" THEN Sent(h) \cup {Len(stream[h]) + 1} ELSE Sent(h)
            /\ \A i \in Sent(h) : stream'[h][i] = stream[h][i]
            /\ stream'[h][Len(stream[h]) + 1] = x
        BY <1>0, <3>1, <4>3, PutSent
      <4>5. QED
        BY <4>1, <4>2, <4>3, <4>4
    <3>9. generated'[h] = generated[h] /\ Owed(h)' = 0
      BY <2>1 DEF Owed
    <3>10. Sent(h)' = 1..(generated[h] - Owed(h))'
      <4>1. 1..generated[h] = (1..(generated[h] - 1)) \cup {generated[h]}
        BY <3>1
      <4>2. generated[h] - 0 = generated[h]
        BY <3>1
      <4>3. QED
        BY <3>5, <3>8, <3>9, <4>1, <4>2
    <3>11. QED
      BY <3>1, <3>7, <3>8, <3>10 DEF StreamInv
  <2>6. ASSUME NEW c \in Clients \ cs
        PROVE  stream'[c] = stream[c] /\ generated'[c] - Owed(c)' = generated[c] - Owed(c)
    BY <1>0, <2>1, <2>3, <2>6 DEF Owed
  <2>7. QED
    BY <1>1, <2>5, <2>6 DEF StreamInv
<1>13. CASE EndEverything
  <2>1. stream' = [h \in Clients |-> IF h \in ending THEN Append(stream[h], End("ABORTED"))
                                                     ELSE stream[h]]
    BY <1>13 DEF EndEverything, PutAll
  <2>2. End("ABORTED").end # "no" /\ ending \subseteq Clients
    BY DEF End, WorkerInv, TypeOK
  <2>3. thread = "collect" /\ thread' = "dead" /\ UNCHANGED generated
    BY <1>13 DEF EndEverything, engineVars
  <2>4. QED
    BY <1>2, <2>1, <2>2, <2>3, AbortedType DEF Owed
<1>14. CASE UNCHANGED vars
  BY <1>4, <1>14 DEF vars, engineVars
<1>15. QED
  BY <1>5, <1>6, <1>7, <1>8, <1>10, <1>11, <1>12, <1>13, <1>14 DEF Next, Thread

(* StreamToken's docstring: when every step yields at most one token of a   *)
(* request and no step past the prompt yields none, a stream carries the    *)
(* request's output, one token after the other, and nothing after its end.  *)
THEOREM StreamsCarryOutput ==
  ASSUME OneTokenPerStep
  PROVE  Spec => []StreamCarriesOutput
<1>1. Init => StreamInv
  BY DEF Init, StreamInv, Sent, Owed
<1>2. WorkerInv /\ WorkerInv' /\ EndsInv /\ StreamInv /\ [Next]_vars => StreamInv'
  BY StreamStep
<1>3. WorkerInv /\ EndsInv /\ StreamInv => StreamCarriesOutput
  <2> SUFFICES ASSUME WorkerInv, EndsInv, StreamInv PROVE StreamCarriesOutput
    OBVIOUS
  <2>1. /\ generated \in [Clients -> 0..MaxTokens] /\ MaxTokens \in Nat
        /\ stream \in [Clients -> Seq(Item)]
    BY WorkerAssumption DEF WorkerInv, TypeOK
  <2>2. ASSUME NEW c \in Clients, (thread = "top" /\ c \in held) \/ EndedAs(c, "STOPPED")
        PROVE  Sent(c) = 1..generated[c]
    <3>1. Owed(c) = 0
      <4>1. CASE thread = "emit" /\ c \in scheduled
        <5>1. c \in streams /\ ~error
          BY <4>1 DEF WorkerInv, TablesInv, EndsInv
        <5>2. HasEnd(c)
          BY <2>2, <4>1 DEF EndedAs, HasEnd
        <5>3. QED
          BY <5>1, <5>2 DEF EndsInv
      <4>2. QED
        BY <4>1 DEF Owed
    <3>2. generated[c] - 0 = generated[c]
      BY <2>1
    <3>3. QED
      BY <3>1, <3>2 DEF StreamInv
  <2>3. ASSUME NEW c \in Clients, NEW i \in DOMAIN stream[c], NEW j \in DOMAIN stream[c],
               i < j, stream[c][i].end # "no"
        PROVE  stream[c][j].end # "no"
    <3>1. i \in Nat \ {0} /\ j \in Nat /\ generated[c] \in Nat /\ Owed(c) \in {0, 1}
      BY <2>1 DEF Owed
    <3>2. j \in Sent(c) => i \in Sent(c)
      <4>1. Sent(c) = 1..(generated[c] - Owed(c))
        BY DEF StreamInv
      <4>2. QED
        BY <2>3, <3>1, <4>1
    <3>3. i \notin Sent(c)
      BY <2>3 DEF Sent
    <3>4. QED
      BY <3>2, <3>3 DEF Sent
  <2>4. QED
    BY <2>2, <2>3 DEF StreamCarriesOutput, StreamIsOutput, NothingAfterEnd, StreamInv
<1>4. QED
  BY <1>1, <1>2, <1>3, WorkerInvariant, EndsInvariant, PTL DEF Spec

-----------------------------------------------------------------------------
(* The engine thread dies *)

(* No two requests have the same id: what the server's own ids guarantee.   *)
DistinctIds == \A c, d \in Clients : IdOf[c] = IdOf[d] => c = d

LEMMA EnderStep ==
  ASSUME DistinctIds, WorkerInv, EndsInv, EndsInv', EnderInv, [Next]_vars
  PROVE  EnderInv'
<1>0. /\ stream \in [Clients -> Seq(Item)] /\ streams \subseteq Clients
      /\ incoming \in Seq(QueueItem) /\ DOMAIN handler = Clients
      /\ ending \subseteq Clients /\ TypeOK
  <2>1. TypeOK
    BY DEF WorkerInv
  <2>2. QED
    BY <2>1 DEF TypeOK, QueueItem
<1>1. ASSUME UNCHANGED <<streams, ending, thread, error>>,
             \A c \in Clients :
               /\ handler'[c] # "new" /\ handler[c] = "new" =>
                    (error /\ handler'[c] = "put") \/ (thread # "dead" /\ InQueue(c)')
               /\ handler[c] = "put" => handler'[c] = "put" \/ HasEnd(c)' \/ ~error
               /\ InQueue(c) => InQueue(c)'
               /\ HasEnd(c) => HasEnd(c)'
      PROVE  EnderInv'
  <2>1. \A c \in Clients : handler'[c] # "new" => Ender(c)'
    BY <1>1 DEF EnderInv, Ender
  <2>2. QED
    BY <1>1, <2>1 DEF EnderInv
<1>2. ASSUME NEW c \in Clients, Submit(c) PROVE EnderInv'
  <2>1. \A d \in Clients : InQueue(d)' <=> InQueue(d) \/ d = c
    BY <1>0, <1>2, ItemTypes, AppendQueue DEF Submit
  <2>2. /\ handler' = [handler EXCEPT ![c] = "put"] /\ handler[c] = "new"
        /\ UNCHANGED <<stream, streams, ending, thread, error>>
    BY <1>2 DEF Submit, workerVars
  <2>3. handler'[c] = "put" /\ InQueue(c)' /\ (error \/ thread # "dead")
    BY <1>0, <2>1, <2>2 DEF EndsInv
  <2>4. \A d \in Clients : HasEnd(d) => HasEnd(d)'
    BY <2>2 DEF HasEnd
  <2>5. \A d \in Clients : d # c => handler'[d] = handler[d]
    BY <1>0, <2>2
  <2>6. QED
    BY <1>1, <2>1, <2>2, <2>3, <2>4, <2>5
<1>3. ASSUME NEW c \in Clients, CheckError(c) PROVE EnderInv'
  <2>1. /\ handler' = [handler EXCEPT ![c] = "open"] /\ handler[c] = "put"
        /\ UNCHANGED <<incoming, streams, ending, thread, error>>
    BY <1>3 DEF CheckError, workerVars
  <2>2. \A d \in Clients : d # c => handler'[d] = handler[d]
    BY <1>0, <2>1
  <2>3. CASE error
    <3>1. /\ \A d \in Clients \ {c} : stream'[d] = stream[d]
          /\ HasEnd(c)'
      <4> DEFINE x == [d \in Clients |-> End("ABORTED")]
      <4>1. x \in [Clients -> Item] /\ \A d \in Clients : x[d].end # "no"
        BY AbortedType DEF End
      <4>2. stream' = [d \in Clients |-> IF d \in {c} THEN Append(stream[d], x[d]) ELSE stream[d]]
        BY <1>3, <2>3 DEF CheckError, PutAll
      <4> HIDE DEF x
      <4>3. QED
        BY <1>0, <4>1, <4>2, PutItems
    <3>2. \A d \in Clients : HasEnd(d) => HasEnd(d)'
      BY <3>1 DEF HasEnd
    <3>3. \A d \in Clients : InQueue(d) => InQueue(d)'
      BY <2>1 DEF InQueue
    <3>4. QED
      BY <1>1, <2>1, <2>2, <3>1, <3>2, <3>3
  <2>4. CASE ~error
    <3>1. \A d \in Clients : (HasEnd(d) => HasEnd(d)') /\ (InQueue(d) => InQueue(d)')
      BY <1>3, <2>1, <2>4 DEF HasEnd, InQueue, CheckError
    <3>2. QED
      BY <1>1, <2>1, <2>2, <2>4, <3>1
  <2>5. QED
    BY <2>3, <2>4
<1>4. ASSUME NEW c \in Clients,
             StartReading(c) \/ ReadToEnd(c) \/ Respond(c) \/ Disconnect(c) \/ CloseStream(c)
      PROVE  EnderInv'
  <2>1. /\ UNCHANGED <<stream, streams, ending, thread, error>>
        /\ handler[c] \notin {"new", "put"}
        /\ \A d \in Clients : d # c => handler'[d] = handler[d]
    BY <1>0, <1>4 DEF StartReading, ReadToEnd, Respond, Disconnect, CloseStream, Moves, workerVars
  <2>2. \A d \in Clients : InQueue(d) => InQueue(d)'
    <3>1. CASE Disconnect(c)
      BY <1>0, <3>1, ItemTypes, AppendQueue DEF Disconnect
    <3>2. CASE UNCHANGED incoming
      BY <3>2 DEF InQueue
    <3>3. QED
      BY <1>4, <3>1, <3>2 DEF StartReading, ReadToEnd, Respond, CloseStream
  <2>3. \A d \in Clients : HasEnd(d) => HasEnd(d)'
    BY <2>1 DEF HasEnd
  <2>4. QED
    BY <1>1, <2>1, <2>2, <2>3
(* The engine thread: handlers stay where they are.                         *)
<1>5. ASSUME UNCHANGED handler, thread' # "dead",
             \A c \in Clients :
               /\ c \in streams \/ c \in ending \/ InQueue(c) =>
                    c \in streams' \/ c \in ending' \/ InQueue(c)' \/ HasEnd(c)'
               /\ HasEnd(c) => HasEnd(c)'
               /\ error => error'
      PROVE  \A c \in Clients : handler'[c] # "new" => Ender(c)'
  BY <1>5 DEF EnderInv, Ender
<1>6. CASE Stop \/ \E id \in Ids : Expire(id)
  <2>1. UNCHANGED <<handler, incoming, stream, streams, ending, thread, error>>
    BY <1>6 DEF Stop, Expire, workerVars, handlerVars
  <2>2. QED
    BY <1>1, <2>1 DEF HasEnd, InQueue
<1>7. CASE LoopTop \/ DrainDone \/ SleepIdle \/ EngineStep \/ EngineRaises \/ UNCHANGED vars
  <2>1. /\ UNCHANGED <<handler, incoming, stream, streams, ending, error>>
        /\ \/ thread' = thread
           \/ thread \notin {"collect", "dead"} /\ thread' \notin {"collect", "dead"}
    BY <1>7 DEF LoopTop, DrainDone, SleepIdle, EngineStep, EngineRaises, vars, handlerVars,
       workerVars, engineVars
  <2>2. \A c \in Clients : (HasEnd(c)' <=> HasEnd(c)) /\ (InQueue(c)' <=> InQueue(c))
    BY <2>1 DEF HasEnd, InQueue
  <2>3. QED
    BY <2>1, <2>2 DEF EnderInv, Ender
<1>8. ASSUME NEW rs \in SUBSET (held \cup finished), Finish(rs, "ABORTED") \/ Finish(rs, "STOPPED"),
             thread \notin {"collect", "dead"}, thread' \notin {"collect", "dead"},
             \A c \in Clients : InQueue(c)' <=> InQueue(c),
             UNCHANGED <<handler, error, ending>>
      PROVE  EnderInv'
  <2>1. streams' = streams \ rs /\ WithId(streams, IdsOf(rs)) = rs
    BY <1>8, FinishTables DEF WorkerInv
  <2>2. /\ \A c \in Clients \ rs : stream'[c] = stream[c]
        /\ \A c \in rs : HasEnd(c)'
    <3>1. rs \in SUBSET Clients
      BY <1>0, <1>8 DEF TypeOK
    <3>2. QED
      BY <1>0, <1>8, <2>1, <3>1, FinishTypes
  <2>3. \A c \in Clients \ rs : HasEnd(c) => HasEnd(c)'
    BY <2>2 DEF HasEnd
  <2>4. QED
    BY <1>5, <1>8, <2>1, <2>2, <2>3 DEF EnderInv
<1>9. CASE DrainAbort
  <2>1. PICK rs \in SUBSET held : Finish(rs, "ABORTED")
    BY <1>9 DEF DrainAbort, WithId
  <2>2. \A c \in Clients : InQueue(c)' <=> InQueue(c)
    BY <1>0, <1>9, TakeFromQueue DEF DrainAbort
  <2>3. QED
    BY <1>8, <1>9, <2>1, <2>2 DEF DrainAbort, handlerVars
<1>10. CASE SweepTimeouts \/ FinishStep
  <2>1. PICK rs \in SUBSET (held \cup finished) : Finish(rs, "ABORTED") \/ Finish(rs, "STOPPED")
    BY <1>10 DEF SweepTimeouts, FinishStep, WithId
  <2>2. \A c \in Clients : InQueue(c)' <=> InQueue(c)
    BY <1>10 DEF SweepTimeouts, FinishStep, InQueue
  <2>3. QED
    BY <1>8, <1>10, <2>1, <2>2 DEF SweepTimeouts, FinishStep, handlerVars
<1>11. CASE DrainSubmission
  <2>1. PICK c \in Clients :
          /\ thread = "drain" /\ incoming # <<>> /\ c \in Head(incoming).client
          /\ incoming' = Tail(incoming)
          /\ IF IdOf[c] \in IdsOf(held) THEN RefuseSubmission ELSE HandleSubmission(c)
          /\ UNCHANGED <<handlerVars, error, ending>>
    BY <1>11 DEF DrainSubmission
  <2>2. /\ Head(incoming) \in QueueItem
        /\ \A d : InQueue(d) <=> InQueue(d)' \/ d \in Head(incoming).client
    BY <1>0, <2>1, TakeFromQueue
  <2>3. Head(incoming).client = {c}
    BY <2>1, <2>2 DEF QueueItem
  <2>4. c \notin held
    BY <2>2, <2>3 DEF Fresh, WorkerInv, TablesInv
  <2>5. HandleSubmission(c)
    <3>1. IdOf[c] \notin IdsOf(held)
      <4>1. held \subseteq Clients
        BY <1>0 DEF TypeOK
      <4>2. QED
        BY <2>4, <4>1 DEF IdsOf, DistinctIds
    <3>2. QED
      BY <2>1, <3>1
  <2>6. WithId(streams, {IdOf[c]}) \subseteq {c}
    BY <1>0 DEF WithId, DistinctIds
  <2>7. streams \cup {c} \subseteq streams' /\ UNCHANGED <<stream, thread, handler>>
    BY <2>1, <2>5, <2>6 DEF HandleSubmission, handlerVars
  <2>8. \A d \in Clients : HasEnd(d) => HasEnd(d)'
    BY <2>7 DEF HasEnd
  <2>9. QED
    BY <1>5, <2>1, <2>2, <2>3, <2>7, <2>8 DEF EnderInv
<1>12. CASE EmitTokens
  <2>1. /\ UNCHANGED <<handler, incoming, streams, ending, error>>
        /\ thread = "emit" /\ thread' = "finish"
    BY <1>12 DEF EmitTokens, handlerVars, workerVars
  <2>2. \A c \in Clients : HasEnd(c) => HasEnd(c)'
    <3>1. PICK hs, x : stream' = [c \in Clients |-> IF c \in hs THEN Append(stream[c], x[c])
                                                                ELSE stream[c]]
      <4> DEFINE cs == { c \in scheduled : generated[c] > 0 }
                 y == [h \in Clients |-> Token(generated[CHOOSE c \in cs : IdOf[c] = IdOf[h]])]
      <4>1. stream' = [c \in Clients |-> IF c \in WithId(streams, IdsOf(cs))
                                         THEN Append(stream[c], y[c]) ELSE stream[c]]
        BY <1>12 DEF EmitTokens, PutAll
      <4>2. QED
        BY <4>1
    <3>2. ASSUME NEW c \in Clients, HasEnd(c) PROVE HasEnd(c)'
      <4>1. PICK i \in DOMAIN stream[c] : stream[c][i].end # "no"
        BY <3>2 DEF HasEnd
      <4>2. stream'[c] = stream[c] \/ stream'[c] = Append(stream[c], x[c])
        BY <3>1
      <4>3. stream[c] \in Seq(Item)
        BY <1>0
      <4>4. i \in DOMAIN stream'[c] /\ stream'[c][i] = stream[c][i]
        BY <4>1, <4>2, <4>3
      <4>5. QED
        BY <4>1, <4>4 DEF HasEnd
    <3>3. QED
      BY <3>2
  <2>3. \A c \in Clients : InQueue(c) => InQueue(c)'
    BY <2>1 DEF InQueue
  <2>4. QED
    BY <1>5, <2>1, <2>2, <2>3 DEF EnderInv
<1>13. CASE RecordError
  <2>1. /\ UNCHANGED <<handler, incoming, stream, streams>>
        /\ thread = "raised" /\ thread' = "collect" /\ error' /\ ending' = streams
    BY <1>13 DEF RecordError, handlerVars, workerVars
  <2>2. \A c \in Clients : (HasEnd(c) => HasEnd(c)') /\ (InQueue(c) => InQueue(c)')
    BY <2>1 DEF HasEnd, InQueue
  <2>3. QED
    BY <1>5, <2>1, <2>2 DEF EnderInv
<1>14. CASE CollectQueued
  <2>1. /\ UNCHANGED <<handler, stream, streams, error, thread>> /\ thread = "collect"
        /\ ending' = ending \cup Head(incoming).client
        /\ incoming # <<>> /\ incoming' = Tail(incoming)
    BY <1>14 DEF CollectQueued, handlerVars, workerVars
  <2>2. \A d : InQueue(d) => InQueue(d)' \/ d \in Head(incoming).client
    BY <1>0, <2>1, TakeFromQueue
  <2>3. \A c \in Clients : HasEnd(c) => HasEnd(c)'
    BY <2>1 DEF HasEnd
  <2>4. QED
    BY <1>5, <2>1, <2>2, <2>3 DEF EnderInv
<1>15. CASE EndEverything
  <2>1. /\ UNCHANGED <<handler, error>> /\ thread = "collect" /\ thread' = "dead"
        /\ incoming = <<>> /\ ending' = {}
    BY <1>15 DEF EndEverything, handlerVars
  <2>2. \A c \in Clients : ~InQueue(c)
    BY <2>1 DEF InQueue
  <2>3. /\ \A c \in Clients \ ending : stream'[c] = stream[c]
        /\ \A c \in ending : HasEnd(c)'
    <3> DEFINE x == [d \in Clients |-> End("ABORTED")]
    <3>1. x \in [Clients -> Item] /\ \A d \in Clients : x[d].end # "no"
      BY AbortedType DEF End
    <3>2. stream' = [d \in Clients |-> IF d \in ending THEN Append(stream[d], x[d]) ELSE stream[d]]
      BY <1>15 DEF EndEverything, PutAll
    <3> HIDE DEF x
    <3>3. QED
      BY <1>0, <3>1, <3>2, PutItems
  <2>4. \A c \in Clients : HasEnd(c) => HasEnd(c)'
    BY <2>3 DEF HasEnd
  <2>5. QED
    BY <2>1, <2>2, <2>3, <2>4 DEF EnderInv, Ender
<1>16. QED
  BY <1>2, <1>3, <1>4, <1>6, <1>7, <1>9, <1>10, <1>11, <1>12, <1>13, <1>14, <1>15
  DEF Next, Thread

(* "dead engine: nobody will ever pick this up": however a submission meets *)
(* the death of the engine thread, its stream has an end from the moment    *)
(* the handler has it, provided no two requests share an id.                *)
THEOREM DeadEngineEndsStreams ==
  ASSUME DistinctIds
  PROVE  Spec => []DeadEngineEndsEveryStream
<1>1. Init => EnderInv
  BY DEF Init, EnderInv
<1>2. WorkerInv /\ EndsInv /\ EndsInv' /\ EnderInv /\ [Next]_vars => EnderInv'
  BY EnderStep
<1>3. EnderInv => DeadEngineEndsEveryStream
  BY DEF EnderInv, Ender, DeadEngineEndsEveryStream
<1>4. QED
  BY <1>1, <1>2, <1>3, WorkerInvariant, EndsInvariant, PTL DEF Spec
=============================================================================
