------------------------------- MODULE Gateway -------------------------------
(***************************************************************************)
(* The request path of the gateway: the handlers of POST /infer and of the *)
(* gRPC Infer call, the bounded job queue, the dispatcher, the adaptive    *)
(* worker pool, the worker tasks with their oneshot channels, and the      *)
(* counters of /metrics these update.                                      *)
(*                                                                         *)
(*   client --> handler[r] --try_send--> queue --recv--> hand --spawn-->   *)
(*   worker[r] --> core;   core --> worker[r] --channel[r]--> handler[r]   *)
(*                                                                         *)
(* The tasks run on several threads of the tokio runtime; a step here is   *)
(* what a task does between two points where another task can see or touch *)
(* what it shares.  Time is abstract: a timer may fire whenever it runs.   *)
(***************************************************************************)
EXTENDS Integers, Sequences, FiniteSets

CONSTANTS
  Requests,         \* the inference requests of clients
  NoJob,            \* what the dispatcher holds between two jobs
  QUEUE_CAPACITY,
  MIN_CONCURRENCY,
  MAX_CONCURRENCY,
  MAX_PERMITS       \* Semaphore::MAX_PERMITS

ASSUME GatewayAssumption ==
  /\ NoJob \notin Requests
  /\ QUEUE_CAPACITY \in Nat \ {0}   \* mpsc::channel(0) panics at startup
  /\ MIN_CONCURRENCY \in Nat
  /\ MAX_CONCURRENCY \in Nat
  /\ MAX_PERMITS \in Nat

VARIABLES
  handler,     \* where the handler of each request stands
  channel,     \* the oneshot channel of each job
  queue,       \* the mpsc channel of jobs
  dispatcher,  \* where dispatcher_loop stands
  hand,        \* the job it has received and not yet dispatched
  worker,      \* where the worker task of each job stands
  metrics      \* the atomics of struct Metrics this path updates

VARIABLES permits, current, held, resize   \* the worker pool

poolVars == <<permits, current, held, resize>>

vars == <<handler, channel, queue, dispatcher, hand, worker, metrics, poolVars>>

Dispatcher == "dispatcher"

Pool == INSTANCE AdaptiveWorkerPool
          WITH Callers <- {Dispatcher},
               Owners <- Requests,
               QueueLengths <- 0 .. QUEUE_CAPACITY

Counters ==
  {"requests_total", "in_flight", "ok_total", "error_total", "timeout_total",
   "queue_full_total", "validation_errors_total", "pool_workers_current"}

Init ==
  /\ handler = [r \in Requests |-> "arriving"]
  /\ channel = [r \in Requests |-> "empty"]
  /\ queue = <<>>
  /\ dispatcher = "recv"
  /\ hand = NoJob
  /\ worker = [r \in Requests |-> "none"]
  /\ metrics = [counter \in Counters |->
                   IF counter = "pool_workers_current" THEN Pool!min_workers
                                                       ELSE 0]
  /\ Pool!Init

-----------------------------------------------------------------------------
(* The handlers.  Both front ends do the same to the state they share.     *)

RejectUnknownModel(r) ==
  /\ handler[r] = "arriving"
  /\ handler' = [handler EXCEPT ![r] = "invalid_request"]
  /\ metrics' = [metrics EXCEPT !.validation_errors_total = @ + 1]
  /\ UNCHANGED <<channel, queue, dispatcher, hand, worker, poolVars>>

RejectQueueFull(r) ==
  /\ handler[r] = "arriving"
  /\ Len(queue) >= QUEUE_CAPACITY
  /\ handler' = [handler EXCEPT ![r] = "queue_full"]
  /\ metrics' = [metrics EXCEPT !.queue_full_total = @ + 1]
  /\ UNCHANGED <<channel, queue, dispatcher, hand, worker, poolVars>>

(* Mutant of Enqueue: room for one job too many.                           *)
EnqueueBeyondCapacity(r) ==
  /\ handler[r] = "arriving"
  /\ Len(queue) <= QUEUE_CAPACITY
  /\ queue' = Append(queue, r)
  /\ handler' = [handler EXCEPT ![r] = "enqueued"]
  /\ UNCHANGED <<channel, dispatcher, hand, worker, metrics, poolVars>>

Enqueue(r) ==
  /\ handler[r] = "arriving"
  /\ Len(queue) < QUEUE_CAPACITY
  /\ queue' = Append(queue, r)
  /\ handler' = [handler EXCEPT ![r] = "enqueued"]
  /\ UNCHANGED <<channel, dispatcher, hand, worker, metrics, poolVars>>

(* The job is already in the queue: it may run, and even be answered,      *)
(* before its own request is counted.                                      *)
BeginRequest(r) ==
  /\ handler[r] = "enqueued"
  /\ handler' = [handler EXCEPT ![r] = "waiting"]
  /\ metrics' = [metrics EXCEPT !.requests_total = @ + 1, !.in_flight = @ + 1]
  /\ UNCHANGED <<channel, queue, dispatcher, hand, worker, poolVars>>

(* Mutant of FinishRequest: the gauge is not lowered.                      *)
FinishRequestKeepingGauge(r, outcome, total) ==
  /\ handler[r] = "waiting"
  /\ handler' = [handler EXCEPT ![r] = outcome]
  /\ metrics' = [metrics EXCEPT ![total] = @ + 1]
  /\ UNCHANGED <<channel, queue, dispatcher, hand, worker, poolVars>>

(* finish_request() and the response; the receiver is dropped with it.     *)
FinishRequest(r, outcome, total) ==
  /\ handler[r] = "waiting"
  /\ handler' = [handler EXCEPT ![r] = outcome]
  /\ metrics' = [metrics EXCEPT !.in_flight = @ - 1, ![total] = @ + 1]
  /\ UNCHANGED <<channel, queue, dispatcher, hand, worker, poolVars>>

RespondOk(r) ==
  channel[r] = "ok" /\ FinishRequest(r, "ok", "ok_total")

(* Mutant of RespondError: the wrong outcome is counted.                   *)
RespondErrorCountedOk(r) ==
  channel[r] \in {"error", "closed"} /\ FinishRequest(r, "error", "ok_total")

(* The core call failed, or the worker was dropped before it could send.   *)
RespondError(r) ==
  channel[r] \in {"error", "closed"} /\ FinishRequest(r, "error", "error_total")

(* Mutants of TimeOut: the timer wins over a result that is there; the     *)
(* timer starts only when the job is dispatched.                           *)
TimeOutOverResult(r) == FinishRequest(r, "timeout", "timeout_total")

TimeOutOnceDispatched(r) ==
  /\ channel[r] = "empty"
  /\ worker[r] # "none"
  /\ FinishRequest(r, "timeout", "timeout_total")

(* timeout() polls the channel before the timer: a result that is there    *)
(* wins even when the deadline has passed.                                 *)
TimeOut(r) ==
  channel[r] = "empty" /\ FinishRequest(r, "timeout", "timeout_total")

(* The client closes its connection: the server drops the handler's future *)
(* at its only await, and the code after it never runs.                    *)
ClientDisconnect(r) ==
  /\ handler[r] = "waiting"
  /\ handler' = [handler EXCEPT ![r] = "abandoned"]
  /\ UNCHANGED <<channel, queue, dispatcher, hand, worker, metrics, poolVars>>

-----------------------------------------------------------------------------
(* The dispatcher.                                                         *)

Recv ==
  /\ dispatcher = "recv"
  /\ queue # <<>>
  /\ hand' = Head(queue)
  /\ queue' = Tail(queue)
  /\ dispatcher' = "reconfigure"
  /\ UNCHANGED <<handler, channel, worker, metrics, poolVars>>

(* Mutants of BeginReconfigure: the job in hand is counted as queued; the  *)
(* pool never shrinks.                                                     *)
BeginReconfigureCountingHand ==
  /\ dispatcher = "reconfigure"
  /\ Pool!ReadCurrent(Dispatcher, Len(queue) + 1)
  /\ dispatcher' = "resizing"
  /\ UNCHANGED <<handler, channel, queue, hand, worker, metrics>>

BeginReconfigureGrowOnly ==
  /\ dispatcher = "reconfigure"
  /\ IF Pool!Plan(Len(queue)) < current
       THEN UNCHANGED poolVars
       ELSE Pool!ReadCurrent(Dispatcher, Len(queue))
  /\ dispatcher' = "resizing"
  /\ UNCHANGED <<handler, channel, queue, hand, worker, metrics>>

BeginReconfigure ==
  /\ dispatcher = "reconfigure"
  /\ Pool!ReadCurrent(Dispatcher, Len(queue))
  /\ dispatcher' = "resizing"
  /\ UNCHANGED <<handler, channel, queue, hand, worker, metrics>>

Resize ==
  /\ dispatcher = "resizing"
  /\ Pool!ReconfigureStep(Dispatcher)
  /\ UNCHANGED <<handler, channel, queue, dispatcher, hand, worker, metrics>>

PublishPoolSize ==
  /\ dispatcher = "resizing"
  /\ resize[Dispatcher].pc = "idle"
  /\ metrics' = [metrics EXCEPT
                   !.pool_workers_current = resize[Dispatcher].desired]
  /\ dispatcher' = "acquire"
  /\ UNCHANGED <<handler, channel, queue, hand, worker, poolVars>>

(* Mutant of SpawnWorker: the permit is not moved into the task.           *)
SpawnWithoutPermit ==
  /\ dispatcher = "acquire"
  /\ permits > 0
  /\ worker' = [worker EXCEPT ![hand] = "calling"]
  /\ hand' = NoJob
  /\ dispatcher' = "recv"
  /\ UNCHANGED <<handler, channel, queue, metrics, poolVars>>

SpawnWorker ==
  /\ dispatcher = "acquire"
  /\ Pool!Acquire(hand)
  /\ worker' = [worker EXCEPT ![hand] = "calling"]
  /\ hand' = NoJob
  /\ dispatcher' = "recv"
  /\ UNCHANGED <<handler, channel, queue, metrics>>

DispatcherStep ==
  \/ Recv
  \/ BeginReconfigure
  \/ Resize
  \/ PublishPoolSize
  \/ SpawnWorker

-----------------------------------------------------------------------------
(* The worker tasks.                                                       *)

ReceiverAlive(r) == handler[r] \in {"enqueued", "waiting"}

(* send() gives the value to a receiver that still exists; otherwise the   *)
(* worker logs that there is none, and the value is lost.                  *)
Deliver(r, value) ==
  /\ worker[r] = "calling"
  /\ worker' = [worker EXCEPT ![r] = "sent"]
  /\ channel' = IF ReceiverAlive(r) THEN [channel EXCEPT ![r] = value]
                                    ELSE channel
  /\ UNCHANGED <<handler, queue, dispatcher, hand, metrics, poolVars>>

CoreAnswers(r) == \E result \in {"ok", "error"} : Deliver(r, result)

(* A worker that unwinds drops the sender unused.                          *)
WorkerCancelled(r) == Deliver(r, "closed")

(* Mutants of ReleasePermit: the permit is lost with the task; it is       *)
(* dropped only after a send that found its receiver.                      *)
ReleaseLost(r) ==
  /\ worker[r] = "sent"
  /\ held' = held \ {r}
  /\ worker' = [worker EXCEPT ![r] = "done"]
  /\ UNCHANGED <<handler, channel, queue, dispatcher, hand, metrics,
                 permits, current, resize>>

ReleaseIfDelivered(r) ==
  /\ worker[r] = "sent"
  /\ channel[r] # "empty"
  /\ Pool!Release(r)
  /\ worker' = [worker EXCEPT ![r] = "done"]
  /\ UNCHANGED <<handler, channel, queue, dispatcher, hand, metrics>>

ReleasePermit(r) ==
  /\ worker[r] = "sent"
  /\ Pool!Release(r)
  /\ worker' = [worker EXCEPT ![r] = "done"]
  /\ UNCHANGED <<handler, channel, queue, dispatcher, hand, metrics>>

-----------------------------------------------------------------------------
Client(r) ==
  \/ RejectUnknownModel(r)
  \/ RejectQueueFull(r)
  \/ Enqueue(r)
  \/ ClientDisconnect(r)

(* What a handler does on its own once its job is in the queue.            *)
HandlerStep(r) ==
  \/ BeginRequest(r)
  \/ RespondOk(r)
  \/ RespondError(r)
  \/ TimeOut(r)

WorkerStep(r) == CoreAnswers(r) \/ WorkerCancelled(r) \/ ReleasePermit(r)

(* All requests are answered and nothing is left to do: not a deadlock.    *)
Quiescent ==
  /\ \A r \in Requests : /\ handler[r] \notin {"arriving", "enqueued", "waiting"}
                         /\ worker[r] \in {"none", "done"}
  /\ queue = <<>>
  /\ dispatcher = "recv"
  /\ UNCHANGED vars

Next ==
  \/ \E r \in Requests : Client(r) \/ HandlerStep(r) \/ WorkerStep(r)
  \/ DispatcherStep
  \/ Quiescent

Spec == Init /\ [][Next]_vars

(* Tasks that can run are run.  Nothing is assumed of clients, nor of the  *)
(* core: the program sets no timeout on a core call, so it may never       *)
(* return.                                                                 *)
FairSpec ==
  /\ Spec
  /\ WF_vars(DispatcherStep)
  /\ \A r \in Requests : WF_vars(HandlerStep(r)) /\ WF_vars(ReleasePermit(r))

-----------------------------------------------------------------------------
(* Safety.                                                                 *)

Accepted(r) == handler[r] \notin {"arriving", "invalid_request", "queue_full"}

(* The values the state takes; the oneshot of a request that is not in a   *)
(* worker's hands is empty, and the dispatcher holds a job exactly between *)
(* receiving and spawning.                                                 *)
TypeOK ==
  /\ handler \in [Requests -> {"arriving", "enqueued", "waiting", "ok", "error",
                               "timeout", "queue_full", "invalid_request",
                               "abandoned"}]
  /\ channel \in [Requests -> {"empty", "ok", "error", "closed"}]
  /\ queue \in Seq(Requests)
  /\ Len(queue) <= QUEUE_CAPACITY
  /\ dispatcher \in {"recv", "reconfigure", "resizing", "acquire"}
  /\ hand \in Requests \cup {NoJob}
  /\ hand = NoJob <=> dispatcher = "recv"
  /\ worker \in [Requests -> {"none", "calling", "sent", "done"}]
  /\ metrics \in [Counters -> Nat]
  /\ Pool!TypeOK

(* Every accepted job is in exactly one place (once in the queue, in the   *)
(* dispatcher's hand, or with a worker), however requests, the dispatcher  *)
(* and workers interleave; and the permits owned are those of the workers  *)
(* that have not dropped theirs.                                           *)
Places(r) ==
  Cardinality({i \in DOMAIN queue : queue[i] = r})
    + (IF hand = r THEN 1 ELSE 0)
    + (IF worker[r] # "none" THEN 1 ELSE 0)

EveryJobInOnePlace ==
  /\ \A r \in Requests : Places(r) = IF Accepted(r) THEN 1 ELSE 0
  /\ held = {r \in Requests : worker[r] \in {"calling", "sent"}}

(* dispatcher_loop only ever blocks in acquire() on a pool that is fully   *)
(* used: whatever was forgotten while workers ran, the permits are gone    *)
(* only if as many workers as the pool's size, and so at least one whose   *)
(* end wakes the dispatcher, are running.                                  *)
BlockedOnlyByAFullPool ==
  (dispatcher = "acquire" /\ permits = 0) => Cardinality(held) >= current

(* The pool never lags behind a shrunken backlog while the dispatcher      *)
(* waits: in recv() and in acquire() its size is no more than the plan for *)
(* the jobs now queued.  With nothing queued it has collapsed to           *)
(* min_workers, and /metrics shows the size it has.                        *)
PoolFollowsBacklog ==
  dispatcher \in {"recv", "acquire"} =>
    /\ current <= Pool!Plan(Len(queue))
    /\ metrics.pool_workers_current = current

(* Every request counted by begin_request() is in flight or counted under  *)
(* exactly one outcome, and no outcome is counted that no client received. *)
MetricsBalance ==
  /\ metrics.requests_total = metrics.in_flight + metrics.ok_total
                                + metrics.error_total + metrics.timeout_total
  /\ metrics.in_flight >= Cardinality({r \in Requests : handler[r] = "waiting"})
  /\ metrics.ok_total = Cardinality({r \in Requests : handler[r] = "ok"})

-----------------------------------------------------------------------------
(* Refinement.                                                             *)

(* What the client has been told, the jobs that have not started (the one  *)
(* in the dispatcher's hand before those in the queue), and the execution  *)
(* of each, as module InferService sees them.                              *)
answerBar ==
  [r \in Requests |-> IF handler[r] \in {"arriving", "enqueued", "waiting"}
                      THEN "none" ELSE handler[r]]

backlogBar == IF hand = NoJob THEN queue ELSE <<hand>> \o queue

(* What the worker's value has come to: nothing without a receiver.        *)
ResultOf(r) ==
  CASE channel[r] = "empty" -> "discarded"
    [] channel[r] = "closed" -> "error"
    [] OTHER -> channel[r]

workBar ==
  [r \in Requests |->
     CASE ~Accepted(r) -> "none"
       [] Accepted(r) /\ worker[r] = "none" -> "queued"
       [] worker[r] = "calling" -> "executing"
       [] OTHER -> ResultOf(r)]

Service == INSTANCE InferService
             WITH answer <- answerBar, backlog <- backlogBar, work <- workBar

(* The request path keeps every promise of InferService: one answer per    *)
(* request, its own result, FIFO start, 503 only at capacity, late results *)
(* dropped.                                                                *)
ImplementsService == Service!Spec

OutcomeTotals == {"ok_total", "error_total", "timeout_total"}

totalsBar ==
  [counter \in {"requests_total", "in_flight"} \cup OutcomeTotals |-> metrics[counter]]

Atomic == INSTANCE RequestCounters
            WITH totals <- totalsBar, Outcomes <- OutcomeTotals

(* Whatever the interleaving, rejections and disconnects, a request is     *)
(* counted in one step and leaves the gauge, which covers it, with exactly *)
(* one outcome: the counters module Metrics is shown to implement too.     *)
ImplementsCounters == Atomic!Spec

-----------------------------------------------------------------------------
(* Liveness, under FairSpec.                                               *)

(* Every accepted request is answered, with a result or with 504, or its   *)
(* client has gone, even if the core never answers, the dispatcher is      *)
(* blocked for good and the job never leaves the queue.                    *)
EveryRequestAnswered ==
  \A r \in Requests :
    handler[r] \in {"enqueued", "waiting"}
      ~> handler[r] \in {"ok", "error", "timeout", "abandoned"}

(* The core answers every call in the end.                                 *)
CoreReturns == \A r \in Requests : WF_vars(CoreAnswers(r))

(* With such a core every accepted job is sent to it, also one whose       *)
(* client has timed out or gone: nothing gets stuck behind a pool that     *)
(* has shrunk while its workers ran.                                       *)
EveryJobDispatched ==
  CoreReturns => \A r \in Requests : Accepted(r) ~> worker[r] # "none"

(* And once the traffic has stopped the pool is back at its minimum size   *)
(* with no worker left, for good.                                          *)
PoolSettles == CoreReturns => <>[](current = Pool!min_workers /\ held = {})

-----------------------------------------------------------------------------
(* What comments and documents say, and the code does not do.              *)

(* src/main.rs:397: the pool caps the number of worker tasks running       *)
(* concurrently, by src/worker_pool.rs:6 at max_workers.  Every shrink     *)
(* under load leaves permits behind that the next growth adds to.          *)
ConcurrencyWithinMax ==
  Cardinality({r \in Requests : worker[r] = "calling"}) <= Pool!max_workers

(* src/metrics.rs:112 and docs/api.md:65: in_flight is the number of       *)
(* requests being processed.  A client that disconnects leaves its count   *)
(* behind, also when nothing whatever is being processed any more.         *)
NothingInProgress ==
  /\ queue = <<>> /\ hand = NoJob
  /\ \A r \in Requests : /\ handler[r] \notin {"enqueued", "waiting"}
                         /\ worker[r] \in {"none", "done"}

InFlightReturnsToZero == NothingInProgress => metrics.in_flight = 0
=============================================================================
