------------------------ MODULE GatewayServiceProofs ------------------------
(***************************************************************************)
(* The request path keeps the promises of InferService, for every number   *)
(* of requests, every queue capacity and every pair of pool bounds.        *)
(*                                                                         *)
(* What this rests on: where each job is, and what its oneshot channel     *)
(* holds while somebody may still look into it.                            *)
(***************************************************************************)
EXTENDS GatewayProofs

(* A job is in the queue once, in the dispatcher's hand, or with a worker: *)
(* in one of them if and only if its request was accepted.                 *)
JobPlaces ==
  /\ \A i, j \in 1 .. Len(queue) : queue[i] = queue[j] => i = j
  /\ \A i \in 1 .. Len(queue) :
       Accepted(queue[i]) /\ worker[queue[i]] = "none" /\ queue[i] # hand
  /\ hand # NoJob => Accepted(hand) /\ worker[hand] = "none"
  /\ \A r \in Requests :
       /\ worker[r] # "none" => Accepted(r)
       /\ Accepted(r) => \/ \E i \in 1 .. Len(queue) : queue[i] = r
                         \/ hand = r
                         \/ worker[r] # "none"

PermitsOwned == held = {r \in Requests : worker[r] \in {"calling", "sent"}}

(* Only a worker puts a value into a channel, once, and it does put one    *)
(* there if the handler is still to look.                                  *)
ChannelsInStep ==
  \A r \in Requests :
    /\ worker[r] \in {"none", "calling"} => channel[r] = "empty"
    /\ worker[r] \in {"sent", "done"} /\ ReceiverAlive(r) => channel[r] # "empty"

JobInvariant == TypeInvariant /\ JobPlaces /\ PermitsOwned /\ ChannelsInStep

LEMMA InitJobInvariant == Init => JobInvariant
<1> SUFFICES ASSUME Init PROVE JobPlaces /\ PermitsOwned /\ ChannelsInStep
  BY InitTypeInvariant DEF JobInvariant
<1>1. Len(queue) = 0
  BY DEF Init
<1>2. JobPlaces
  BY <1>1 DEF Init, JobPlaces, Accepted
<1>3. PermitsOwned /\ ChannelsInStep
  BY DEF Init, Pool!Init, PermitsOwned, ChannelsInStep
<1> QED
  BY <1>2, <1>3

(* A handler that goes on without leaving "accepted" moves no job.         *)
LEMMA HandlerOnly ==
  ASSUME JobInvariant, NEW r \in Requests, NEW state,
         handler' = [handler EXCEPT ![r] = state],
         Accepted(r) <=> state \notin {"arriving", "invalid_request", "queue_full"},
         state \in {"enqueued", "waiting"} => ReceiverAlive(r),
         UNCHANGED <<channel, queue, hand, worker, held>>
  PROVE  JobPlaces' /\ PermitsOwned' /\ ChannelsInStep'
<1>2. /\ handler'[r] = state
      /\ \A other \in Requests \ {r} : handler'[other] = handler[other]
  BY DEF JobInvariant, TypeInvariant, TypeOK
<1>3. \A q \in Requests : Accepted(q)' <=> Accepted(q)
  BY <1>2 DEF Accepted
<1>4. \A q \in Requests : ReceiverAlive(q)' => ReceiverAlive(q)
  BY <1>2 DEF ReceiverAlive
<1>5. /\ \A i \in 1 .. Len(queue) : queue[i] \in Requests
      /\ hand # NoJob => hand \in Requests
  BY ElementOfSeq DEF JobInvariant, TypeInvariant, TypeOK
<1>6. JobPlaces'
  BY <1>3, <1>5 DEF JobInvariant, JobPlaces
<1>7. PermitsOwned' /\ ChannelsInStep'
  BY <1>4 DEF JobInvariant, PermitsOwned, ChannelsInStep
<1> QED
  BY <1>6, <1>7

LEMMA EnqueueKeepsJobs ==
  ASSUME JobInvariant, NEW r \in Requests, Enqueue(r)
  PROVE  JobPlaces' /\ PermitsOwned' /\ ChannelsInStep'
<1>0. /\ handler = [q \in Requests |-> handler[q]]
      /\ queue \in Seq(Requests)
      /\ hand \in Requests \cup {NoJob}
  BY DEF JobInvariant, TypeInvariant, TypeOK
<1>1. /\ handler[r] = "arriving" /\ handler'[r] = "enqueued"
      /\ \A other \in Requests \ {r} : handler'[other] = handler[other]
      /\ queue' = Append(queue, r)
      /\ UNCHANGED <<channel, hand, worker, held>>
  BY <1>0 DEF Enqueue, poolVars
<1>2. /\ ~Accepted(r) /\ Accepted(r)'
      /\ \A other \in Requests \ {r} : Accepted(other)' <=> Accepted(other)
      /\ \A other \in Requests \ {r} : ReceiverAlive(other)' <=> ReceiverAlive(other)
  BY <1>1 DEF Accepted, ReceiverAlive
<1>3. /\ worker[r] = "none" /\ hand # r
      /\ \A i \in 1 .. Len(queue) : queue[i] \in Requests \ {r}
  BY <1>0, <1>2, ElementOfSeq, GatewayAssumption DEF JobInvariant, JobPlaces
<1>4. /\ Len(queue) \in Nat
      /\ Len(queue') = Len(queue) + 1
      /\ \A i \in 1 .. Len(queue) : queue'[i] = queue[i]
      /\ queue'[Len(queue) + 1] = r
  BY <1>0, <1>1, AppendProperties, LenProperties
<1>5. \A i \in 1 .. Len(queue') : i \in 1 .. Len(queue) \/ i = Len(queue) + 1
  BY <1>4
<1>6. \A i, j \in 1 .. Len(queue') : queue'[i] = queue'[j] => i = j
  BY <1>3, <1>4, <1>5 DEF JobInvariant, JobPlaces
<1>7. \A i \in 1 .. Len(queue') :
        (Accepted(queue[i]) /\ worker[queue[i]] = "none" /\ queue[i] # hand)'
  BY <1>1, <1>3, <1>4, <1>5 DEF JobInvariant, JobPlaces, Accepted
<1>8. hand' # NoJob => (Accepted(hand) /\ worker[hand] = "none")'
  BY <1>0, <1>1, <1>3 DEF JobInvariant, JobPlaces, Accepted
<1>9. ASSUME NEW q \in Requests
      PROVE  /\ worker'[q] # "none" => Accepted(q)'
             /\ Accepted(q)' => \/ \E i \in 1 .. Len(queue') : queue'[i] = q
                                \/ hand' = q
                                \/ worker'[q] # "none"
  <2>1. CASE q = r
    <3>1. Len(queue) + 1 \in 1 .. Len(queue')
      BY <1>4
    <3> QED
      BY <1>1, <1>3, <1>4, <2>1, <3>1
  <2>2. CASE q # r
    <3>1. \A i \in 1 .. Len(queue) : i \in 1 .. Len(queue')
      BY <1>4
    <3> QED
      BY <1>1, <1>2, <1>4, <2>2, <3>1 DEF JobInvariant, JobPlaces
  <2> QED
    BY <2>1, <2>2
<1>10. JobPlaces'
  BY <1>6, <1>7, <1>8, <1>9 DEF JobPlaces
<1>11. PermitsOwned' /\ ChannelsInStep'
  BY <1>1, <1>2, <1>3 DEF JobInvariant, PermitsOwned, ChannelsInStep
<1> QED
  BY <1>10, <1>11

LEMMA RecvKeepsJobs ==
  ASSUME JobInvariant, Recv
  PROVE  JobPlaces' /\ PermitsOwned' /\ ChannelsInStep'
<1>0. queue \in Seq(Requests) /\ hand = NoJob
  BY DEF JobInvariant, TypeInvariant, TypeOK, Recv
<1>1. /\ queue # <<>>
      /\ hand' = queue[1]
      /\ queue' = Tail(queue)
      /\ UNCHANGED <<handler, channel, worker, held>>
  BY DEF Recv, poolVars
<1>2. \A q : (Accepted(q)' <=> Accepted(q)) /\ (ReceiverAlive(q)' <=> ReceiverAlive(q))
  BY <1>1 DEF Accepted, ReceiverAlive
<1>3. /\ Len(queue) \in Nat \ {0}
      /\ Len(queue') = Len(queue) - 1
      /\ \A i \in 1 .. Len(queue') : queue'[i] = queue[i + 1]
  BY <1>0, <1>1, HeadTailProperties, EmptySeq
<1>4. /\ 1 \in 1 .. Len(queue)
      /\ \A i \in 1 .. Len(queue') : i + 1 \in 1 .. Len(queue) /\ i + 1 # 1
      /\ \A i, j \in 1 .. Len(queue') : i + 1 = j + 1 => i = j
  BY <1>3
<1>5. \A i \in 1 .. Len(queue) : i # 1 => i - 1 \in 1 .. Len(queue') /\ (i - 1) + 1 = i
  BY <1>3
<1>6. \A i, j \in 1 .. Len(queue') : queue'[i] = queue'[j] => i = j
  BY <1>3, <1>4 DEF JobInvariant, JobPlaces
<1>7. \A i \in 1 .. Len(queue') :
        (Accepted(queue[i]) /\ worker[queue[i]] = "none" /\ queue[i] # hand)'
  BY <1>1, <1>3, <1>4 DEF JobInvariant, JobPlaces, Accepted
<1>8. (Accepted(hand) /\ worker[hand] = "none")'
  BY <1>1, <1>4 DEF JobInvariant, JobPlaces, Accepted
<1>9. ASSUME NEW q \in Requests, Accepted(q)
      PROVE  \/ \E i \in 1 .. Len(queue') : queue'[i] = q
             \/ hand' = q
             \/ worker'[q] # "none"
  <2>1. ASSUME NEW i \in 1 .. Len(queue), queue[i] = q
        PROVE  hand' = q \/ \E j \in 1 .. Len(queue') : queue'[j] = q
    <3>1. CASE i = 1
      BY <1>1, <2>1, <3>1
    <3>2. CASE i # 1
      BY <1>3, <1>5, <2>1, <3>2
    <3> QED
      BY <3>1, <3>2
  <2> QED
    BY <1>0, <1>1, <1>9, <2>1, GatewayAssumption DEF JobInvariant, JobPlaces
<1>10. JobPlaces'
  BY <1>1, <1>2, <1>6, <1>7, <1>8, <1>9 DEF JobInvariant, JobPlaces
<1>11. PermitsOwned' /\ ChannelsInStep'
  BY <1>1, <1>2 DEF JobInvariant, PermitsOwned, ChannelsInStep
<1> QED
  BY <1>10, <1>11

LEMMA SpawnKeepsJobs ==
  ASSUME JobInvariant, SpawnWorker
  PROVE  JobPlaces' /\ PermitsOwned' /\ ChannelsInStep'
<1>0. /\ queue \in Seq(Requests)
      /\ hand \in Requests
      /\ worker = [q \in Requests |-> worker[q]]
  BY DEF JobInvariant, TypeInvariant, TypeOK, SpawnWorker
<1>1. /\ worker'[hand] = "calling"
      /\ \A other \in Requests \ {hand} : worker'[other] = worker[other]
      /\ hand' = NoJob
      /\ held' = held \cup {hand}
      /\ UNCHANGED <<handler, channel, queue>>
  BY <1>0 DEF SpawnWorker, Pool!Acquire
<1>2. \A q : (Accepted(q)' <=> Accepted(q)) /\ (ReceiverAlive(q)' <=> ReceiverAlive(q))
  BY <1>1 DEF Accepted, ReceiverAlive
<1>3. /\ \A i \in 1 .. Len(queue) : queue[i] \in Requests \ {hand}
      /\ worker[hand] = "none" /\ Accepted(hand)
  BY <1>0, ElementOfSeq, GatewayAssumption DEF JobInvariant, JobPlaces
<1>4. JobPlaces'
  <2>1. \A i \in 1 .. Len(queue) : worker'[queue[i]] = "none" /\ queue[i] # hand'
    BY <1>1, <1>3, GatewayAssumption DEF JobInvariant, JobPlaces
  <2>2. \A q \in Requests : worker'[q] # "none" => Accepted(q)
    BY <1>1, <1>3 DEF JobInvariant, JobPlaces
  <2>3. \A q \in Requests : Accepted(q) =>
          (\E i \in 1 .. Len(queue) : queue[i] = q) \/ worker'[q] # "none"
    BY <1>1 DEF JobInvariant, JobPlaces
  <2> QED
    BY <1>1, <1>2, <2>1, <2>2, <2>3 DEF JobInvariant, JobPlaces
<1>5. PermitsOwned'
  BY <1>0, <1>1 DEF JobInvariant, PermitsOwned
<1>6. ChannelsInStep'
  BY <1>1, <1>2, <1>3 DEF JobInvariant, ChannelsInStep
<1> QED
  BY <1>4, <1>5, <1>6

LEMMA WorkerKeepsJobs ==
  ASSUME JobInvariant, NEW r \in Requests, WorkerStep(r)
  PROVE  JobPlaces' /\ PermitsOwned' /\ ChannelsInStep'
<1>0. /\ worker = [q \in Requests |-> worker[q]]
      /\ channel = [q \in Requests |-> channel[q]]
      /\ \A i \in 1 .. Len(queue) : queue[i] \in Requests
      /\ hand # NoJob => hand \in Requests
  BY ElementOfSeq DEF JobInvariant, TypeInvariant, TypeOK
<1>1. /\ worker[r] \in {"calling", "sent"} /\ worker'[r] \in {"sent", "done"}
      /\ \A other \in Requests \ {r} : worker'[other] = worker[other]
      /\ UNCHANGED <<handler, queue, hand>>
  BY <1>0 DEF WorkerStep, CoreAnswers, WorkerCancelled, Deliver, ReleasePermit
<1>2. \A q : (Accepted(q)' <=> Accepted(q)) /\ (ReceiverAlive(q)' <=> ReceiverAlive(q))
  BY <1>1 DEF Accepted, ReceiverAlive
<1>3. \A q \in Requests : worker'[q] = "none" <=> worker[q] = "none"
  BY <1>1
<1>4. JobPlaces'
  BY <1>0, <1>1, <1>2, <1>3 DEF JobInvariant, JobPlaces
<1>5. ASSUME NEW value \in {"ok", "error", "closed"}, Deliver(r, value)
      PROVE  PermitsOwned' /\ ChannelsInStep'
  <2>1. /\ worker[r] = "calling" /\ worker'[r] = "sent" /\ held' = held
        /\ ReceiverAlive(r) => channel'[r] # "empty"
        /\ \A other \in Requests \ {r} : channel'[other] = channel[other]
    BY <1>0, <1>5 DEF Deliver, poolVars
  <2>2. PermitsOwned'
    BY <1>1, <2>1 DEF JobInvariant, PermitsOwned
  <2>3. ChannelsInStep'
    BY <1>1, <1>2, <2>1 DEF JobInvariant, ChannelsInStep
  <2> QED
    BY <2>2, <2>3
<1>6. CASE ReleasePermit(r)
  <2>1. /\ worker[r] = "sent" /\ worker'[r] = "done" /\ held' = held \ {r}
        /\ channel' = channel
    BY <1>0, <1>6 DEF ReleasePermit, Pool!Release
  <2>2. PermitsOwned'
    BY <1>1, <2>1 DEF JobInvariant, PermitsOwned
  <2>3. ChannelsInStep'
    BY <1>1, <1>2, <2>1 DEF JobInvariant, ChannelsInStep
  <2> QED
    BY <1>4, <2>2, <2>3
<1> QED
  BY <1>4, <1>5, <1>6 DEF WorkerStep, CoreAnswers, WorkerCancelled

LEMMA StepJobInvariant == JobInvariant /\ [Next]_vars => JobInvariant'
<1> SUFFICES ASSUME JobInvariant, [Next]_vars
             PROVE  JobPlaces' /\ PermitsOwned' /\ ChannelsInStep'
  BY StepTypeInvariant DEF JobInvariant
<1>1. ASSUME NEW r \in Requests,
             \/ RejectUnknownModel(r) \/ RejectQueueFull(r) \/ ClientDisconnect(r)
             \/ BeginRequest(r) \/ RespondOk(r) \/ RespondError(r) \/ TimeOut(r)
      PROVE  JobPlaces' /\ PermitsOwned' /\ ChannelsInStep'
  <2>1. /\ UNCHANGED <<channel, queue, hand, worker, held>>
        /\ \E state : /\ handler' = [handler EXCEPT ![r] = state]
                      /\ \/ /\ handler[r] = "arriving"
                            /\ state \in {"invalid_request", "queue_full"}
                         \/ handler[r] = "enqueued" /\ state = "waiting"
                         \/ /\ handler[r] = "waiting"
                            /\ state \in {"ok", "error", "timeout", "abandoned"}
    BY <1>1 DEF RejectUnknownModel, RejectQueueFull, ClientDisconnect, BeginRequest,
                RespondOk, RespondError, TimeOut, FinishRequest, poolVars
  <2> QED
    BY <2>1, HandlerOnly DEF Accepted, ReceiverAlive
<1>2. CASE BeginReconfigure \/ Resize \/ PublishPoolSize
  <2>1. UNCHANGED <<handler, channel, queue, hand, worker, held>>
    BY <1>2
       DEF BeginReconfigure, Resize, PublishPoolSize, poolVars, Pool!ReadCurrent,
           Pool!ReconfigureStep, Pool!AddPermits, Pool!ForgetPermits, Pool!Forget,
           Pool!SwapCurrent, Pool!RetryCurrent
  <2> QED
    BY <2>1 DEF JobInvariant, JobPlaces, PermitsOwned, ChannelsInStep, Accepted,
                ReceiverAlive
<1>3. CASE UNCHANGED vars
  BY <1>3 DEF vars, poolVars, JobInvariant, JobPlaces, PermitsOwned, ChannelsInStep,
              Accepted, ReceiverAlive
<1> QED
  BY <1>1, <1>2, <1>3, EnqueueKeepsJobs, RecvKeepsJobs, SpawnKeepsJobs,
     WorkerKeepsJobs
     DEF Next, Client, HandlerStep, DispatcherStep, Quiescent

(* Counting the places of a job.                                           *)
LEMMA JobsInOnePlace == JobInvariant => EveryJobInOnePlace
<1> SUFFICES ASSUME JobInvariant, NEW r \in Requests
             PROVE  Places(r) = IF Accepted(r) THEN 1 ELSE 0
  BY DEF JobInvariant, PermitsOwned, EveryJobInOnePlace
<1> DEFINE Indices == {i \in DOMAIN queue : queue[i] = r}
<1>1. DOMAIN queue = 1 .. Len(queue)
  BY LenProperties DEF JobInvariant, TypeInvariant, TypeOK
<1>2. CASE \E i \in 1 .. Len(queue) : queue[i] = r
  <2>1. PICK i \in 1 .. Len(queue) : queue[i] = r
    BY <1>2
  <2>2. Indices = {i}
    BY <1>1, <2>1 DEF JobInvariant, JobPlaces
  <2>3. Cardinality(Indices) = 1
    BY <2>2, FS_Singleton
  <2>4. Accepted(r) /\ worker[r] = "none" /\ hand # r
    BY <2>1 DEF JobInvariant, JobPlaces
  <2> QED
    BY <2>3, <2>4 DEF Places
<1>3. CASE ~\E i \in 1 .. Len(queue) : queue[i] = r
  <2>1. Indices = {}
    BY <1>1, <1>3
  <2>2. Cardinality(Indices) = 0
    BY <2>1, FS_EmptySet
  <2>3. /\ hand = r => Accepted(r) /\ worker[r] = "none"
        /\ worker[r] # "none" => Accepted(r)
        /\ Accepted(r) => hand = r \/ worker[r] # "none"
    BY <1>3, GatewayAssumption DEF JobInvariant, JobPlaces
  <2> QED
    BY <2>2, <2>3 DEF Places
<1> QED
  BY <1>2, <1>3

(* However requests, the dispatcher and workers interleave, no job is lost *)
(* and none is run twice: each accepted one is in exactly one place, and   *)
(* the permits owned are those of the workers that have not dropped theirs.*)
THEOREM NoJobLostOrDoubled == Spec => []EveryJobInOnePlace
BY InitJobInvariant, StepJobInvariant, JobsInOnePlace, PTL DEF Spec

-----------------------------------------------------------------------------
(* The refinement.  What each step does to the three abstract variables.   *)

LEMMA WorkOf ==
  ASSUME JobInvariant, NEW r \in Requests
  PROVE  /\ ~Accepted(r) => workBar[r] = "none"
         /\ Accepted(r) /\ worker[r] = "none" => workBar[r] = "queued"
         /\ worker[r] = "calling" => workBar[r] = "executing"
         /\ worker[r] \in {"sent", "done"} =>
              /\ channel[r] = "empty" => workBar[r] = "discarded"
              /\ channel[r] = "closed" => workBar[r] = "error"
              /\ channel[r] \in {"ok", "error"} => workBar[r] = channel[r]
<1>1. worker[r] # "none" => Accepted(r)
  BY DEF JobInvariant, JobPlaces
<1>2. /\ worker[r] \in {"none", "calling", "sent", "done"}
      /\ channel[r] \in {"empty", "ok", "error", "closed"}
  BY DEF JobInvariant, TypeInvariant, TypeOK
<1> QED
  BY <1>1, <1>2 DEF workBar, ResultOf

LEMMA WorkOfUnmoved ==
  ASSUME NEW r \in Requests, Accepted(r)' <=> Accepted(r),
         worker'[r] = worker[r], channel'[r] = channel[r]
  PROVE  workBar'[r] = workBar[r]
BY DEF workBar, ResultOf

LEMMA BarFunctions ==
  /\ answerBar = [r \in Requests |-> answerBar[r]]
  /\ workBar = [r \in Requests |-> workBar[r]]
  /\ workBar' = [r \in Requests |-> workBar'[r]]
BY DEF answerBar, workBar

(* Where the handler's state is not an answer yet the client has none.     *)
LEMMA AnswerOf ==
  ASSUME NEW r \in Requests
  PROVE  answerBar[r] = IF handler[r] \in {"arriving", "enqueued", "waiting"}
                        THEN "none" ELSE handler[r]
BY DEF answerBar

(* A handler that gives its client an answer.                              *)
LEMMA AnswerGiven ==
  ASSUME JobInvariant, NEW r \in Requests,
         NEW state \in {"invalid_request", "queue_full", "ok", "error", "timeout",
                        "abandoned"},
         handler[r] \in {"arriving", "waiting"},
         handler' = [handler EXCEPT ![r] = state],
         Accepted(r) <=> state \notin {"invalid_request", "queue_full"},
         UNCHANGED <<channel, queue, hand, worker>>
  PROVE  Service!Reply(r, state)
<1>1. /\ handler'[r] = state
      /\ \A other \in Requests \ {r} : handler'[other] = handler[other]
  BY DEF JobInvariant, TypeInvariant, TypeOK
<1>2. answerBar[r] = "none" /\ answerBar' = [answerBar EXCEPT ![r] = state]
  BY <1>1 DEF answerBar
<1>3. \A q \in Requests : Accepted(q)' <=> Accepted(q)
  BY <1>1 DEF Accepted
<1>4. \A q \in Requests : workBar'[q] = workBar[q]
  BY <1>3, WorkOfUnmoved
<1>5. workBar' = workBar
  BY <1>4, BarFunctions
<1>6. backlogBar' = backlogBar
  BY DEF backlogBar
<1> QED
  BY <1>2, <1>5, <1>6 DEF Service!Reply

LEMMA EnqueueAccepts ==
  ASSUME JobInvariant, NEW r \in Requests, Enqueue(r)
  PROVE  Service!Accept(r)
<1>0. /\ handler = [q \in Requests |-> handler[q]]
      /\ queue \in Seq(Requests)
      /\ hand \in Requests \cup {NoJob}
  BY DEF JobInvariant, TypeInvariant, TypeOK
<1>1. /\ handler[r] = "arriving" /\ handler'[r] = "enqueued"
      /\ \A other \in Requests \ {r} : handler'[other] = handler[other]
      /\ Len(queue) < QUEUE_CAPACITY
      /\ queue' = Append(queue, r)
      /\ UNCHANGED <<channel, hand, worker>>
  BY <1>0 DEF Enqueue
<1>2. /\ ~Accepted(r) /\ Accepted(r)'
      /\ \A other \in Requests \ {r} : Accepted(other)' <=> Accepted(other)
  BY <1>1 DEF Accepted
<1>3. Service!Fresh(r)
  BY <1>1, <1>2, AnswerOf, WorkOf DEF Service!Fresh
<1>4. /\ Len(backlogBar) <= QUEUE_CAPACITY
      /\ backlogBar' = Append(backlogBar, r)
  <2>1. CASE hand = NoJob
    BY <1>0, <1>1, <2>1, GatewayAssumption, LenProperties DEF backlogBar
  <2>2. CASE hand # NoJob
    <3>1. /\ hand \in Requests
          /\ <<hand>> \in Seq(Requests) /\ <<r>> \in Seq(Requests) /\ Len(<<hand>>) = 1
      BY <1>0, <2>2
    <3>2. /\ <<hand>> \o queue \in Seq(Requests)
          /\ Len(<<hand>> \o queue) = 1 + Len(queue)
          /\ Len(queue) \in Nat
      BY <1>0, <3>1, ConcatProperties, LenProperties
    <3>3. Append(<<hand>> \o queue, r) = <<hand>> \o Append(queue, r)
      BY <1>0, <3>1, <3>2, AppendIsConcat, ConcatAssociative
    <3> QED
      BY <1>1, <2>2, <3>2, <3>3, GatewayAssumption DEF backlogBar
  <2> QED
    BY <2>1, <2>2
<1>5. workBar' = [workBar EXCEPT ![r] = "queued"]
  <2>1. workBar'[r] = "queued"
    BY <1>1, <1>2 DEF JobInvariant, JobPlaces, workBar, ResultOf
  <2>2. \A other \in Requests \ {r} : workBar'[other] = workBar[other]
    BY <1>1, <1>2, WorkOfUnmoved
  <2> QED
    BY <2>1, <2>2, BarFunctions
<1>6. answerBar' = answerBar
  BY <1>1 DEF answerBar
<1> QED
  BY <1>3, <1>4, <1>5, <1>6 DEF Service!Accept

LEMMA SpawnStarts ==
  ASSUME JobInvariant, SpawnWorker
  PROVE  Service!Start
<1>0. /\ queue \in Seq(Requests)
      /\ hand \in Requests
      /\ worker = [q \in Requests |-> worker[q]]
  BY DEF JobInvariant, TypeInvariant, TypeOK, SpawnWorker
<1>1. /\ worker'[hand] = "calling"
      /\ \A other \in Requests \ {hand} : worker'[other] = worker[other]
      /\ hand' = NoJob
      /\ UNCHANGED <<handler, channel, queue>>
  BY <1>0 DEF SpawnWorker
<1>2. \A q : Accepted(q)' <=> Accepted(q)
  BY <1>1 DEF Accepted
<1>3. backlogBar = <<hand>> \o queue /\ backlogBar' = queue
  BY <1>0, <1>1, GatewayAssumption DEF backlogBar
<1>4. /\ <<hand>> \o queue # <<>>
      /\ Head(<<hand>> \o queue) = hand
      /\ Tail(<<hand>> \o queue) = queue
  BY <1>0
<1>5. workBar' = [workBar EXCEPT ![hand] = "executing"]
  <2>1. workBar'[hand] = "executing"
    BY <1>0, <1>1, <1>2, GatewayAssumption DEF JobInvariant, JobPlaces, workBar, ResultOf
  <2>2. \A other \in Requests \ {hand} : workBar'[other] = workBar[other]
    BY <1>1, <1>2, WorkOfUnmoved
  <2> QED
    BY <1>0, <2>1, <2>2, BarFunctions
<1>6. answerBar' = answerBar
  BY <1>1 DEF answerBar
<1> QED
  BY <1>3, <1>4, <1>5, <1>6 DEF Service!Start

(* A dropped sender is an error to the client; a value that finds no       *)
(* receiver is discarded.                                                  *)
LEMMA DeliverFinishes ==
  ASSUME JobInvariant, NEW r \in Requests, NEW value \in {"ok", "error", "closed"},
         Deliver(r, value)
  PROVE  \E result \in Service!Results : Service!Finish(r, result)
<1>0. /\ worker = [q \in Requests |-> worker[q]]
      /\ channel = [q \in Requests |-> channel[q]]
  BY DEF JobInvariant, TypeInvariant, TypeOK
<1>1. /\ worker[r] = "calling" /\ worker'[r] = "sent"
      /\ \A other \in Requests \ {r} : worker'[other] = worker[other]
      /\ channel'[r] = IF ReceiverAlive(r) THEN value ELSE channel[r]
      /\ \A other \in Requests \ {r} : channel'[other] = channel[other]
      /\ UNCHANGED <<handler, queue, hand>>
  BY <1>0 DEF Deliver
<1>2. \A q : Accepted(q)' <=> Accepted(q)
  BY <1>1 DEF Accepted
<1>3. Accepted(r) /\ channel[r] = "empty" /\ workBar[r] = "executing"
  BY <1>1, WorkOf DEF JobInvariant, JobPlaces, ChannelsInStep
<1>4. answerBar[r] = "none" <=> ReceiverAlive(r)
  <2>1. handler[r] \in {"enqueued", "waiting", "ok", "error", "timeout", "abandoned"}
    BY <1>3 DEF JobInvariant, TypeInvariant, TypeOK, Accepted
  <2> QED
    BY <2>1, AnswerOf DEF ReceiverAlive
<1> DEFINE result == IF value = "closed" THEN "error" ELSE value
<1>5. workBar'[r] = IF answerBar[r] = "none" THEN result ELSE "discarded"
  BY <1>1, <1>2, <1>3, <1>4 DEF workBar, ResultOf
<1>6. \A other \in Requests \ {r} : workBar'[other] = workBar[other]
  BY <1>1, <1>2, WorkOfUnmoved
<1>7. workBar' = [workBar EXCEPT
                    ![r] = IF answerBar[r] = "none" THEN result ELSE "discarded"]
  BY <1>5, <1>6, BarFunctions
<1>8. answerBar' = answerBar /\ backlogBar' = backlogBar
  BY <1>1 DEF answerBar, backlogBar
<1>9. Service!Finish(r, result) /\ result \in Service!Results
  BY <1>3, <1>7, <1>8 DEF Service!Finish, Service!Results
<1> QED
  BY <1>9

(* What a client cannot see: counting, resizing, and a job that goes from  *)
(* the queue to the dispatcher's hand, or a worker that drops its permit.  *)
LEMMA Hidden ==
  ASSUME JobInvariant,
         \/ \E r \in Requests : BeginRequest(r) \/ ReleasePermit(r)
         \/ Recv \/ BeginReconfigure \/ Resize \/ PublishPoolSize
         \/ UNCHANGED vars
  PROVE  UNCHANGED <<answerBar, backlogBar, workBar>>
<1>0. /\ handler = [q \in Requests |-> handler[q]]
      /\ worker = [q \in Requests |-> worker[q]]
  BY DEF JobInvariant, TypeInvariant, TypeOK
<1>1. ASSUME NEW r \in Requests, BeginRequest(r)
      PROVE  UNCHANGED <<answerBar, backlogBar, workBar>>
  <2>1. /\ handler[r] = "enqueued" /\ handler'[r] = "waiting"
        /\ \A other \in Requests \ {r} : handler'[other] = handler[other]
        /\ UNCHANGED <<channel, queue, hand, worker>>
    BY <1>0, <1>1 DEF BeginRequest
  <2>2. \A q \in Requests : Accepted(q)' <=> Accepted(q)
    BY <2>1 DEF Accepted
  <2>3. \A q \in Requests : workBar'[q] = workBar[q]
    BY <2>1, <2>2, WorkOfUnmoved
  <2>4. workBar' = workBar
    BY <2>3, BarFunctions
  <2> QED
    BY <2>1, <2>4 DEF answerBar, backlogBar
<1>2. ASSUME NEW r \in Requests, ReleasePermit(r)
      PROVE  UNCHANGED <<answerBar, backlogBar, workBar>>
  <2>1. /\ worker[r] = "sent" /\ worker'[r] = "done"
        /\ \A other \in Requests \ {r} : worker'[other] = worker[other]
        /\ UNCHANGED <<handler, channel, queue, hand>>
    BY <1>0, <1>2 DEF ReleasePermit
  <2>2. \A q : Accepted(q)' <=> Accepted(q)
    BY <2>1 DEF Accepted
  <2>3. workBar'[r] = workBar[r]
    BY <2>1, <2>2 DEF workBar, ResultOf
  <2>4. \A q \in Requests : workBar'[q] = workBar[q]
    BY <2>1, <2>2, <2>3, WorkOfUnmoved
  <2>5. workBar' = workBar
    BY <2>4, BarFunctions
  <2> QED
    BY <2>1, <2>5 DEF answerBar, backlogBar
<1>3. CASE Recv
  <2>1. /\ hand = NoJob /\ hand' = Head(queue) /\ queue' = Tail(queue)
        /\ queue # <<>> /\ queue \in Seq(Requests)
        /\ UNCHANGED <<handler, channel, worker>>
    BY <1>3 DEF Recv, JobInvariant, TypeInvariant, TypeOK
  <2>2. Head(queue) \in Requests
    BY <2>1, HeadTailProperties
  <2>3. <<Head(queue)>> \o Tail(queue) = queue
    BY <2>1
  <2>4. backlogBar' = backlogBar
    BY <2>1, <2>2, <2>3, GatewayAssumption DEF backlogBar
  <2> QED
    BY <2>1, <2>4 DEF answerBar, workBar, ResultOf, Accepted
<1>4. CASE BeginReconfigure \/ Resize \/ PublishPoolSize \/ UNCHANGED vars
  <2>1. UNCHANGED <<handler, channel, queue, hand, worker>>
    BY <1>4 DEF BeginReconfigure, Resize, PublishPoolSize, vars
  <2> QED
    BY <2>1 DEF answerBar, workBar, ResultOf, backlogBar, Accepted
<1> QED
  BY <1>1, <1>2, <1>3, <1>4

LEMMA InitImplementsService == Init => Service!Init
BY DEF Init, Service!Init, answerBar, backlogBar, workBar, Accepted

LEMMA StepImplementsService ==
  JobInvariant /\ [Next]_vars => [Service!Next]_Service!serviceVars
<1> SUFFICES ASSUME JobInvariant, [Next]_vars
             PROVE  Service!Next \/ UNCHANGED <<answerBar, backlogBar, workBar>>
  BY DEF Service!serviceVars
<1>1. ASSUME NEW r \in Requests, RejectUnknownModel(r) \/ RejectQueueFull(r)
      PROVE  Service!Next
  <2>1. handler[r] = "arriving" /\ ~Accepted(r)
    BY <1>1 DEF RejectUnknownModel, RejectQueueFull, Accepted
  <2>2. Service!Fresh(r)
    BY <2>1, AnswerOf, WorkOf DEF Service!Fresh
  <2>3. CASE RejectUnknownModel(r)
    <3>1. Service!Reply(r, "invalid_request")
      BY <2>1, <2>3, AnswerGiven DEF RejectUnknownModel
    <3> QED
      BY <2>2, <3>1 DEF Service!RejectInvalid, Service!Next
  <2>4. CASE RejectQueueFull(r)
    <3>1. Service!Reply(r, "queue_full")
      BY <2>1, <2>4, AnswerGiven DEF RejectQueueFull
    <3>2. Len(backlogBar) >= QUEUE_CAPACITY
      <4>1. /\ queue \in Seq(Requests) /\ hand \in Requests \cup {NoJob}
            /\ Len(queue) >= QUEUE_CAPACITY /\ Len(queue) \in Nat
        BY <2>4, LenProperties
           DEF RejectQueueFull, JobInvariant, TypeInvariant, TypeOK
      <4>2. hand \in Requests => Len(<<hand>> \o queue) = 1 + Len(queue)
        BY <4>1
      <4> QED
        BY <4>1, <4>2, GatewayAssumption DEF backlogBar
    <3> QED
      BY <2>2, <3>1, <3>2 DEF Service!RejectFull, Service!Next
  <2> QED
    BY <1>1, <2>3, <2>4
<1>2. ASSUME NEW r \in Requests,
             RespondOk(r) \/ RespondError(r) \/ TimeOut(r) \/ ClientDisconnect(r)
      PROVE  Service!Next
  <2>1. handler[r] = "waiting" /\ Accepted(r) /\ ReceiverAlive(r)
    BY <1>2 DEF RespondOk, RespondError, TimeOut, FinishRequest, ClientDisconnect,
                Accepted, ReceiverAlive
  <2>2. /\ worker[r] \in {"none", "calling", "sent", "done"}
        /\ worker[r] \in {"none", "calling"} <=> channel[r] = "empty"
    BY <2>1 DEF JobInvariant, TypeInvariant, TypeOK, ChannelsInStep
  <2>3. CASE RespondOk(r)
    <3>1. Service!Reply(r, "ok")
      BY <2>1, <2>3, AnswerGiven DEF RespondOk, FinishRequest
    <3>2. workBar[r] = "ok"
      BY <2>2, <2>3, WorkOf DEF RespondOk
    <3> QED
      BY <3>1, <3>2 DEF Service!Answer, Service!Results, Service!Next
  <2>4. CASE RespondError(r)
    <3>1. Service!Reply(r, "error")
      BY <2>1, <2>4, AnswerGiven DEF RespondError, FinishRequest
    <3>2. workBar[r] = "error"
      BY <2>2, <2>4, WorkOf DEF RespondError
    <3> QED
      BY <3>1, <3>2 DEF Service!Answer, Service!Results, Service!Next
  <2>5. CASE TimeOut(r)
    <3>1. Service!Reply(r, "timeout")
      BY <2>1, <2>5, AnswerGiven DEF TimeOut, FinishRequest
    <3>2. workBar[r] \in {"queued", "executing"}
      BY <2>1, <2>2, <2>5, WorkOf DEF TimeOut
    <3> QED
      BY <3>1, <3>2 DEF Service!TimeOut, Service!Next
  <2>6. CASE ClientDisconnect(r)
    <3>1. Service!Reply(r, "abandoned")
      BY <2>1, <2>6, AnswerGiven DEF ClientDisconnect
    <3>2. channel[r] \in {"empty", "ok", "error", "closed"}
      BY DEF JobInvariant, TypeInvariant, TypeOK
    <3>3. workBar[r] # "none"
      BY <2>1, <2>2, <3>2, WorkOf
    <3> QED
      BY <3>1, <3>3 DEF Service!Abandon, Service!Next
  <2> QED
    BY <1>2, <2>3, <2>4, <2>5, <2>6
<1>3. ASSUME NEW r \in Requests, Enqueue(r)
      PROVE  Service!Next
  BY <1>3, EnqueueAccepts DEF Service!Next
<1>4. ASSUME NEW r \in Requests, CoreAnswers(r) \/ WorkerCancelled(r)
      PROVE  Service!Next
  <2>1. \E value \in {"ok", "error", "closed"} : Deliver(r, value)
    BY <1>4 DEF CoreAnswers, WorkerCancelled
  <2>2. \E result \in Service!Results : Service!Finish(r, result)
    BY <2>1, DeliverFinishes
  <2> QED
    BY <2>2 DEF Service!Next
<1>5. CASE SpawnWorker
  BY <1>5, SpawnStarts DEF Service!Next
<1> QED
  BY <1>1, <1>2, <1>3, <1>4, <1>5, Hidden
     DEF Next, Client, HandlerStep, WorkerStep, DispatcherStep, Quiescent

(* For every number of requests and every capacity the request path keeps  *)
(* the promises of InferService: at most one answer, a request's own       *)
(* result, jobs started in the order they were accepted, 503 only at       *)
(* capacity, and late results dropped.                                     *)
THEOREM ServiceImplemented == Spec => ImplementsService
BY InitJobInvariant, StepJobInvariant, InitImplementsService,
   StepImplementsService, PTL DEF Spec, ImplementsService, Service!Spec

(* What InferService promises, of the state of the request path.           *)
Promises == INSTANCE InferServiceProofs
              WITH answer <- answerBar, backlog <- backlogBar, work <- workBar

LEMMA PromisesInitially == Service!Init => Promises!ServiceInvariant
<1>1. Service!Init => Promises!Init
  BY DEF Service!Init, Promises!Init
<1> QED
  BY <1>1, GatewayAssumption, Promises!InitServiceInvariant

LEMMA PromisesKeptByStep ==
  Promises!ServiceInvariant /\ [Service!Next]_Service!serviceVars
    => Promises!ServiceInvariant' /\ [Promises!AnswersKept]_Service!serviceVars
<1>1. /\ [Service!Next]_Service!serviceVars => [Promises!Next]_Promises!serviceVars
      /\ [Promises!AnswersKept]_Promises!serviceVars
           => [Promises!AnswersKept]_Service!serviceVars
  BY DEF Service!Next, Service!Start, Service!RejectInvalid, Service!RejectFull,
         Service!Accept, Service!Finish, Service!Answer, Service!TimeOut,
         Service!Abandon, Service!Reply, Service!Fresh, Service!Results,
         Service!serviceVars,
         Promises!Next, Promises!Start, Promises!RejectInvalid, Promises!RejectFull,
         Promises!Accept, Promises!Finish, Promises!Answer, Promises!TimeOut,
         Promises!Abandon, Promises!Reply, Promises!Fresh, Promises!Results,
         Promises!serviceVars
<1> QED
  BY <1>1, GatewayAssumption, Promises!StepServiceInvariant, Promises!StepKeepsAnswers

(* So a handler answers only what the execution of its own request         *)
(* returned, a refused request is never executed, no result is lost but    *)
(* after a timeout or a disconnect, and at most one job more than the      *)
(* queue holds is waiting, each accepted request once.                     *)
THEOREM ClientsGetTheirOwnResults ==
  Spec => [](/\ Promises!AnswersFit
             /\ Promises!BacklogIsQueued
             /\ Promises!BacklogBounded)
<1>1. Promises!ServiceInvariant => /\ Promises!AnswersFit
                                   /\ Promises!BacklogIsQueued
                                   /\ Promises!BacklogBounded
  BY DEF Promises!ServiceInvariant
<1> QED
  BY <1>1, PromisesInitially, PromisesKeptByStep, ServiceImplemented,
     PTL DEF ImplementsService, Service!Spec

(* And whatever a worker, the dispatcher or a timer still does, no request *)
(* that has been answered, or whose client has gone, is answered again.    *)
THEOREM ClientsGetOneAnswer == Spec => [][Promises!AnswersKept]_Service!serviceVars
BY PromisesInitially, PromisesKeptByStep, ServiceImplemented,
   PTL DEF ImplementsService, Service!Spec
=============================================================================
