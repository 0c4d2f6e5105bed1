---------------------------- MODULE GatewayProofs ----------------------------
(***************************************************************************)
(* Safety of the request path for every number of requests, every queue    *)
(* capacity and every pair of pool bounds.                                 *)
(*                                                                         *)
(* The gateway drives the pool with one caller, so what module             *)
(* AdaptiveWorkerPoolProofs proves of one caller carries over: every step  *)
(* of the gateway is a step of the pool or leaves the pool alone.          *)
(***************************************************************************)
EXTENDS Gateway, FiniteSetTheorems, SequenceTheorems, TLAPS

PoolProofs == INSTANCE AdaptiveWorkerPoolProofs
                WITH Callers <- {Dispatcher},
                     Owners <- Requests,
                     QueueLengths <- 0 .. QUEUE_CAPACITY

-----------------------------------------------------------------------------
(* The two instances of the pool are the same pool.                        *)

LEMMA PoolAssumed == PoolProofs!PoolAssumption
BY GatewayAssumption DEF PoolProofs!PoolAssumption

LEMMA SameBounds ==
  /\ PoolProofs!min_workers = Pool!min_workers
  /\ PoolProofs!max_workers = Pool!max_workers
BY DEF PoolProofs!min_workers, PoolProofs!max_workers,
       Pool!min_workers, Pool!max_workers

LEMMA SamePlan ==
  ASSUME NEW n
  PROVE  PoolProofs!Plan(n) = Pool!Plan(n)
BY SameBounds DEF PoolProofs!Plan, Pool!Plan

LEMMA SameTypeOK == PoolProofs!TypeOK <=> Pool!TypeOK
BY SameBounds DEF PoolProofs!TypeOK, Pool!TypeOK

LEMMA SameInit == Pool!Init => PoolProofs!Init
BY SameBounds DEF PoolProofs!Init, Pool!Init, PoolProofs!Returned, Pool!Returned

LEMMA SameNext == Pool!Next => PoolProofs!Next
<1>1. ASSUME NEW c \in {Dispatcher}, NEW n \in 0 .. QUEUE_CAPACITY,
             Pool!ReadCurrent(c, n)
      PROVE  PoolProofs!ReadCurrent(c, n)
  BY <1>1, SamePlan
     DEF Pool!ReadCurrent, PoolProofs!ReadCurrent, Pool!LoopHead,
         PoolProofs!LoopHead, Pool!Returned, PoolProofs!Returned
<1>2. ASSUME NEW c \in {Dispatcher}, Pool!ReconfigureStep(c)
      PROVE  PoolProofs!ReconfigureStep(c)
  BY <1>2
     DEF Pool!ReconfigureStep, PoolProofs!ReconfigureStep,
         Pool!AddPermits, PoolProofs!AddPermits,
         Pool!ForgetPermits, PoolProofs!ForgetPermits,
         Pool!Forget, PoolProofs!Forget,
         Pool!SwapCurrent, PoolProofs!SwapCurrent,
         Pool!RetryCurrent, PoolProofs!RetryCurrent,
         Pool!LoopHead, PoolProofs!LoopHead, Pool!Returned, PoolProofs!Returned
<1>3. ASSUME NEW w \in Requests, Pool!Acquire(w) \/ Pool!Release(w)
      PROVE  PoolProofs!Acquire(w) \/ PoolProofs!Release(w)
  BY <1>3 DEF Pool!Acquire, PoolProofs!Acquire, Pool!Release, PoolProofs!Release
<1> QED
  BY <1>1, <1>2, <1>3 DEF Pool!Next, PoolProofs!Next

LEMMA PoolBounds ==
  /\ Pool!min_workers \in Nat
  /\ Pool!max_workers \in Nat
  /\ 1 <= Pool!min_workers
  /\ Pool!min_workers <= Pool!max_workers
BY SameBounds, PoolAssumed, PoolProofs!BoundsClamped DEF PoolProofs!BoundsClamped

LEMMA PlanMonotone ==
  ASSUME NEW m \in Nat, NEW n \in Nat, m <= n
  PROVE  Pool!Plan(m) <= Pool!Plan(n)
BY SamePlan, PoolAssumed, PoolProofs!PlanMonotone

-----------------------------------------------------------------------------
(* Type correctness.  That in_flight never goes below zero needs more than *)
(* types: each handler that will subtract one is among those counted.      *)

Waiting == {r \in Requests : handler[r] = "waiting"}

InFlightCoversWaiting ==
  /\ IsFiniteSet(Waiting)
  /\ metrics.in_flight >= Cardinality(Waiting)

TypeInvariant == TypeOK /\ InFlightCoversWaiting

LEMMA InitTypeInvariant == Init => TypeInvariant
<1> SUFFICES ASSUME Init PROVE TypeInvariant
  OBVIOUS
<1>1. Waiting = {}
  BY DEF Init, Waiting
<1>2. InFlightCoversWaiting
  BY <1>1, FS_EmptySet DEF Init, InFlightCoversWaiting, Counters
<1>3. metrics \in [Counters -> Nat]
  BY PoolBounds DEF Init, Counters
<1>4. Pool!TypeOK
  BY PoolBounds DEF Init, Pool!Init, Pool!TypeOK, Pool!Returned
<1> QED
  BY <1>2, <1>3, <1>4, GatewayAssumption DEF Init, TypeInvariant, TypeOK

(* What a step does to the pool is a step of the pool.                     *)
LEMMA PoolStep == TypeOK /\ [Next]_vars => [PoolProofs!Next]_poolVars
<1> SUFFICES ASSUME TypeOK, [Next]_vars PROVE Pool!Next \/ UNCHANGED poolVars
  BY SameNext
<1>1. CASE BeginReconfigure
  <2>1. Len(queue) \in 0 .. QUEUE_CAPACITY
    BY GatewayAssumption DEF TypeOK
  <2> QED
    BY <1>1, <2>1 DEF BeginReconfigure, Pool!Next
<1>2. CASE Resize
  BY <1>2 DEF Resize, Pool!Next
<1>3. CASE SpawnWorker
  <2>1. hand \in Requests
    BY <1>3 DEF SpawnWorker, TypeOK
  <2> QED
    BY <1>3, <2>1 DEF SpawnWorker, Pool!Next
<1>4. ASSUME NEW r \in Requests, ReleasePermit(r)
      PROVE  Pool!Next
  BY <1>4 DEF ReleasePermit, Pool!Next
<1>5. CASE Recv \/ PublishPoolSize \/ Quiescent \/ UNCHANGED vars
  BY <1>5 DEF Recv, PublishPoolSize, Quiescent, vars
<1>6. ASSUME NEW r \in Requests, Client(r) \/ HandlerStep(r)
      PROVE  UNCHANGED poolVars
  BY <1>6 DEF Client, HandlerStep, RejectUnknownModel, RejectQueueFull, Enqueue,
              ClientDisconnect, BeginRequest, RespondOk, RespondError, TimeOut,
              FinishRequest
<1>7. ASSUME NEW r \in Requests, CoreAnswers(r) \/ WorkerCancelled(r)
      PROVE  UNCHANGED poolVars
  BY <1>7 DEF CoreAnswers, WorkerCancelled, Deliver
<1> QED
  BY <1>1, <1>2, <1>3, <1>4, <1>5, <1>6, <1>7
     DEF Next, DispatcherStep, WorkerStep

LEMMA StepPoolType == TypeOK /\ [Next]_vars => Pool!TypeOK'
<1> SUFFICES ASSUME TypeOK, [Next]_vars PROVE Pool!TypeOK'
  OBVIOUS
<1>1. PoolProofs!TypeOK /\ [PoolProofs!Next]_poolVars
  BY PoolStep, SameTypeOK DEF TypeOK
<1>2. PoolProofs!TypeOK'
  BY <1>1, PoolAssumed, PoolProofs!StepType
     DEF PoolProofs!StepType, PoolProofs!poolVars, poolVars
<1> QED
  BY <1>2, SameBounds DEF PoolProofs!TypeOK, Pool!TypeOK

LEMMA StepTypeInvariant == TypeInvariant /\ [Next]_vars => TypeInvariant'
<1> SUFFICES ASSUME TypeInvariant, [Next]_vars PROVE TypeInvariant'
  OBVIOUS
<1> USE DEF TypeInvariant
<1>0. Pool!TypeOK'
  BY StepPoolType
<1>1. Cardinality(Waiting) \in Nat /\ metrics.in_flight \in Nat
  BY FS_CardinalityType DEF InFlightCoversWaiting, TypeOK, Counters
<1>2. ASSUME NEW r \in Requests, RejectUnknownModel(r)
      PROVE  TypeInvariant'
  <2>1. Waiting' = Waiting
    BY <1>2 DEF RejectUnknownModel, Waiting, TypeOK
  <2>2. metrics' \in [Counters -> Nat] /\ metrics'.in_flight = metrics.in_flight
    <3>1. /\ metrics \in [Counters -> Nat]
          /\ metrics' = [metrics EXCEPT !.validation_errors_total = @ + 1]
      BY <1>2 DEF RejectUnknownModel, TypeOK
    <3> QED
      BY <3>1 DEF Counters
  <2> QED
    BY <1>0, <1>2, <2>1, <2>2
       DEF RejectUnknownModel, TypeOK, InFlightCoversWaiting
<1>3. ASSUME NEW r \in Requests, RejectQueueFull(r)
      PROVE  TypeInvariant'
  <2>1. Waiting' = Waiting
    BY <1>3 DEF RejectQueueFull, Waiting, TypeOK
  <2>2. metrics' \in [Counters -> Nat] /\ metrics'.in_flight = metrics.in_flight
    <3>1. /\ metrics \in [Counters -> Nat]
          /\ metrics' = [metrics EXCEPT !.queue_full_total = @ + 1]
      BY <1>3 DEF RejectQueueFull, TypeOK
    <3> QED
      BY <3>1 DEF Counters
  <2> QED
    BY <1>0, <1>3, <2>1, <2>2 DEF RejectQueueFull, TypeOK, InFlightCoversWaiting
<1>4. ASSUME NEW r \in Requests, Enqueue(r)
      PROVE  TypeInvariant'
  <2>1. Waiting' = Waiting
    BY <1>4 DEF Enqueue, Waiting, TypeOK
  <2>2. queue' \in Seq(Requests) /\ Len(queue') <= QUEUE_CAPACITY
    BY <1>4, GatewayAssumption DEF Enqueue, TypeOK
  <2> QED
    BY <1>0, <1>4, <2>1, <2>2 DEF Enqueue, TypeOK, InFlightCoversWaiting
<1>5. ASSUME NEW r \in Requests, BeginRequest(r)
      PROVE  TypeInvariant'
  <2>1. Waiting' = Waiting \cup {r} /\ r \notin Waiting
    BY <1>5 DEF BeginRequest, Waiting, TypeOK
  <2>2. /\ IsFiniteSet(Waiting')
        /\ Cardinality(Waiting') = Cardinality(Waiting) + 1
    BY <2>1, FS_AddElement DEF InFlightCoversWaiting
  <2>3. /\ metrics' \in [Counters -> Nat]
        /\ metrics'.in_flight = metrics.in_flight + 1
    <3>1. metrics.requests_total \in Nat /\ metrics \in [Counters -> Nat]
      BY DEF TypeOK, Counters
    <3>2. metrics' = [[metrics EXCEPT !.requests_total = metrics.requests_total + 1]
                        EXCEPT !.in_flight = metrics.in_flight + 1]
      BY <1>5, <3>1 DEF BeginRequest, Counters
    <3> DEFINE counted == [metrics EXCEPT !.requests_total = metrics.requests_total + 1]
    <3>3. counted \in [Counters -> Nat]
      BY <3>1 DEF Counters
    <3>4. "in_flight" \in Counters /\ metrics.in_flight + 1 \in Nat
      BY <1>1 DEF Counters
    <3> QED
      BY <3>2, <3>3, <3>4
  <2>4. InFlightCoversWaiting'
    BY <1>1, <2>2, <2>3 DEF InFlightCoversWaiting
  <2> QED
    BY <1>0, <1>5, <2>3, <2>4 DEF BeginRequest, TypeOK
<1>6. ASSUME NEW r \in Requests,
             NEW outcome \in {"ok", "error", "timeout"},
             NEW total \in {"ok_total", "error_total", "timeout_total"},
             FinishRequest(r, outcome, total)
      PROVE  TypeInvariant'
  <2>1. Waiting' = Waiting \ {r} /\ r \in Waiting
    BY <1>6 DEF FinishRequest, Waiting, TypeOK
  <2>2. /\ IsFiniteSet(Waiting')
        /\ Cardinality(Waiting') = Cardinality(Waiting) - 1
        /\ Cardinality(Waiting') \in Nat
    BY <2>1, FS_RemoveElement, FS_CardinalityType DEF InFlightCoversWaiting
  <2>3. metrics.in_flight - 1 \in Nat
    BY <1>1, <2>2 DEF InFlightCoversWaiting
  <2>4. /\ metrics' \in [Counters -> Nat]
        /\ metrics'.in_flight = metrics.in_flight - 1
    <3>1. metrics[total] \in Nat /\ metrics \in [Counters -> Nat] /\ total # "in_flight"
      BY DEF TypeOK, Counters
    <3>2. metrics' = [[metrics EXCEPT !.in_flight = metrics.in_flight - 1]
                        EXCEPT ![total] = metrics[total] + 1]
      BY <1>6, <3>1 DEF FinishRequest, Counters
    <3> QED
      BY <1>1, <2>3, <3>1, <3>2 DEF Counters
  <2>5. InFlightCoversWaiting'
    BY <1>1, <2>2, <2>4 DEF InFlightCoversWaiting
  <2> QED
    BY <1>0, <1>6, <2>4, <2>5 DEF FinishRequest, TypeOK
<1>7. ASSUME NEW r \in Requests, ClientDisconnect(r)
      PROVE  TypeInvariant'
  <2>1. Waiting' = Waiting \ {r} /\ r \in Waiting
    BY <1>7 DEF ClientDisconnect, Waiting, TypeOK
  <2>2. /\ IsFiniteSet(Waiting')
        /\ Cardinality(Waiting') = Cardinality(Waiting) - 1
        /\ Cardinality(Waiting') \in Nat
    BY <2>1, FS_RemoveElement, FS_CardinalityType DEF InFlightCoversWaiting
  <2>3. InFlightCoversWaiting'
    BY <1>1, <1>7, <2>2 DEF InFlightCoversWaiting, ClientDisconnect
  <2> QED
    BY <1>0, <1>7, <2>3 DEF ClientDisconnect, TypeOK
<1>8. CASE Recv
  <2>1. /\ Head(queue) \in Requests
        /\ Tail(queue) \in Seq(Requests)
        /\ Len(Tail(queue)) <= QUEUE_CAPACITY
    BY <1>8, HeadTailProperties, GatewayAssumption DEF Recv, TypeOK
  <2> QED
    BY <1>0, <1>8, <2>1, GatewayAssumption
       DEF Recv, TypeOK, InFlightCoversWaiting, Waiting
<1>9. CASE BeginReconfigure \/ Resize
  BY <1>0, <1>9 DEF BeginReconfigure, Resize, TypeOK, InFlightCoversWaiting, Waiting
<1>10. CASE PublishPoolSize
  <2>1. resize[Dispatcher].desired \in Nat
    BY PoolBounds DEF TypeOK, Pool!TypeOK
  <2>2. metrics' \in [Counters -> Nat] /\ metrics'.in_flight = metrics.in_flight
    BY <1>10, <2>1 DEF PublishPoolSize, TypeOK, Counters
  <2>3. Waiting' = Waiting
    BY <1>10 DEF PublishPoolSize, Waiting
  <2> QED
    BY <1>0, <1>10, <2>2, <2>3
       DEF PublishPoolSize, TypeOK, InFlightCoversWaiting
<1>11. CASE SpawnWorker
  BY <1>0, <1>11 DEF SpawnWorker, TypeOK, InFlightCoversWaiting, Waiting
<1>12. ASSUME NEW r \in Requests, WorkerStep(r)
       PROVE  TypeInvariant'
  <2>1. ASSUME NEW value \in {"ok", "error", "closed"}, Deliver(r, value)
        PROVE  TypeInvariant'
    <3>1. channel' \in [Requests -> {"empty", "ok", "error", "closed"}]
      BY <2>1 DEF Deliver, TypeOK
    <3>2. worker' \in [Requests -> {"none", "calling", "sent", "done"}]
      BY <2>1 DEF Deliver, TypeOK
    <3> QED
      BY <1>0, <2>1, <3>1, <3>2
         DEF Deliver, TypeOK, InFlightCoversWaiting, Waiting
  <2>2. CASE ReleasePermit(r)
    BY <1>0, <2>2 DEF ReleasePermit, TypeOK, InFlightCoversWaiting, Waiting
  <2> QED
    BY <1>12, <2>1, <2>2 DEF WorkerStep, CoreAnswers, WorkerCancelled
<1>13. CASE Quiescent \/ UNCHANGED vars
  BY <1>0, <1>13
     DEF Quiescent, vars, TypeOK, InFlightCoversWaiting, Waiting
<1> QED
  BY <1>2, <1>3, <1>4, <1>5, <1>6, <1>7, <1>8, <1>9, <1>10, <1>11, <1>12, <1>13
     DEF Next, Client, HandlerStep, RespondOk, RespondError, TimeOut,
         DispatcherStep

(* Every value the state takes is one the declarations allow; in           *)
(* particular the in_flight gauge, an unsigned counter, never wraps below  *)
(* zero, and the queue never exceeds its capacity.                         *)
THEOREM GatewayTypeCorrect == Spec => []TypeOK
<1>1. TypeInvariant => TypeOK
  BY DEF TypeInvariant
<1> QED
  BY <1>1, InitTypeInvariant, StepTypeInvariant, PTL DEF Spec

-----------------------------------------------------------------------------
(* The pool's size against the backlog.  While a call of reconfigure() is  *)
(* in progress the backlog can only grow, so what it planned is still no   *)
(* more than the plan for the queue as it is.                              *)

ResizeInStep ==
  /\ dispatcher # "resizing" => resize[Dispatcher].pc = "idle"
  /\ dispatcher = "resizing" =>
       /\ resize[Dispatcher].desired <= Pool!Plan(Len(queue))
       /\ resize[Dispatcher].pc = "idle" => resize[Dispatcher].desired = current

BacklogInvariant == TypeInvariant /\ ResizeInStep /\ PoolFollowsBacklog

LEMMA PlanNat ==
  ASSUME NEW n \in Nat
  PROVE  Pool!Plan(n) \in Nat
<1>1. Pool!Plan(n) \in Pool!min_workers .. Pool!max_workers
  BY PoolAssumed, SamePlan, SameBounds, PoolProofs!PlanBounded
<1> QED
  BY <1>1, PoolBounds

LEMMA PlanEmpty == Pool!Plan(0) = Pool!min_workers
<1>1. 0 \div 2 = 0
  OBVIOUS
<1> QED
  BY <1>1, PoolBounds DEF Pool!Plan

LEMMA InitBacklogInvariant == Init => BacklogInvariant
<1> SUFFICES ASSUME Init PROVE BacklogInvariant
  OBVIOUS
<1>1. Len(queue) = 0
  BY DEF Init
<1>2. ResizeInStep
  BY DEF Init, Pool!Init, Pool!Returned, ResizeInStep
<1>3. PoolFollowsBacklog
  BY <1>1, PlanEmpty, PoolBounds
     DEF Init, Pool!Init, PoolFollowsBacklog, Counters
<1> QED
  BY <1>2, <1>3, InitTypeInvariant DEF BacklogInvariant

(* A step that touches neither the pool, the dispatcher nor the gauge, and *)
(* takes no job out of the queue.                                          *)
LEMMA BacklogUntouched ==
  ASSUME BacklogInvariant, TypeInvariant',
         UNCHANGED <<poolVars, dispatcher>>,
         metrics'.pool_workers_current = metrics.pool_workers_current,
         Len(queue) <= Len(queue')
  PROVE  ResizeInStep' /\ PoolFollowsBacklog'
<1>1. Len(queue) \in Nat /\ Len(queue') \in Nat
  BY DEF BacklogInvariant, TypeInvariant, TypeOK
<1>2. Pool!Plan(Len(queue)) <= Pool!Plan(Len(queue'))
  BY <1>1, PlanMonotone
<1>3. Pool!Plan(Len(queue)) \in Nat /\ Pool!Plan(Len(queue')) \in Nat
  BY <1>1, PlanNat
<1>4. current \in Nat /\ resize[Dispatcher].desired \in Nat
  BY PoolBounds DEF BacklogInvariant, TypeInvariant, TypeOK, Pool!TypeOK
<1>5. ResizeInStep'
  <2>1. dispatcher = "resizing" =>
          resize[Dispatcher].desired <= Pool!Plan(Len(queue'))
    BY <1>2, <1>3, <1>4 DEF BacklogInvariant, ResizeInStep
  <2> QED
    BY <2>1 DEF BacklogInvariant, ResizeInStep, poolVars, Pool!Plan,
                Pool!min_workers, Pool!max_workers
<1>6. PoolFollowsBacklog'
  <2>1. dispatcher \in {"recv", "acquire"} =>
          current <= Pool!Plan(Len(queue'))
    BY <1>2, <1>3, <1>4 DEF BacklogInvariant, PoolFollowsBacklog
  <2> QED
    BY <2>1 DEF BacklogInvariant, PoolFollowsBacklog, poolVars, Pool!Plan,
                Pool!min_workers, Pool!max_workers
<1> QED
  BY <1>5, <1>6

LEMMA StepBacklogInvariant ==
  BacklogInvariant /\ [Next]_vars => BacklogInvariant'
<1> SUFFICES ASSUME BacklogInvariant, [Next]_vars
             PROVE  ResizeInStep' /\ PoolFollowsBacklog'
  BY StepTypeInvariant DEF BacklogInvariant
<1>0. TypeInvariant' /\ TypeOK
  BY StepTypeInvariant DEF BacklogInvariant, TypeInvariant
<1>1. ASSUME NEW r \in Requests, Client(r) \/ HandlerStep(r)
      PROVE  ResizeInStep' /\ PoolFollowsBacklog'
  <2>1. UNCHANGED <<poolVars, dispatcher>>
    BY <1>1 DEF Client, HandlerStep, RejectUnknownModel, RejectQueueFull, Enqueue,
                ClientDisconnect, BeginRequest, RespondOk, RespondError, TimeOut,
                FinishRequest
  <2>2. metrics'.pool_workers_current = metrics.pool_workers_current
    BY <1>0, <1>1
       DEF Client, HandlerStep, RejectUnknownModel, RejectQueueFull, Enqueue,
           ClientDisconnect, BeginRequest, RespondOk, RespondError, TimeOut,
           FinishRequest, TypeOK, Counters
  <2>3. Len(queue) <= Len(queue')
    <3>1. Len(queue) \in Nat
      BY <1>0 DEF TypeOK
    <3>2. CASE Enqueue(r)
      BY <1>0, <3>1, <3>2 DEF Enqueue, TypeOK
    <3>3. CASE ~Enqueue(r)
      BY <1>1, <3>1, <3>3
         DEF Client, HandlerStep, RejectUnknownModel, RejectQueueFull,
             ClientDisconnect, BeginRequest, RespondOk, RespondError, TimeOut,
             FinishRequest
    <3> QED
      BY <3>2, <3>3
  <2> QED
    BY <1>0, <2>1, <2>2, <2>3, BacklogUntouched
<1>2. ASSUME NEW r \in Requests, CoreAnswers(r) \/ WorkerCancelled(r)
      PROVE  ResizeInStep' /\ PoolFollowsBacklog'
  <2>1. UNCHANGED <<poolVars, dispatcher, metrics, queue>>
    BY <1>2 DEF CoreAnswers, WorkerCancelled, Deliver
  <2>2. Len(queue) \in Nat
    BY <1>0 DEF TypeOK
  <2> QED
    BY <1>0, <2>1, <2>2, BacklogUntouched
<1>3. ASSUME NEW r \in Requests, ReleasePermit(r)
      PROVE  ResizeInStep' /\ PoolFollowsBacklog'
  BY <1>3 DEF ReleasePermit, Pool!Release, BacklogInvariant, ResizeInStep,
              PoolFollowsBacklog
<1>4. CASE Recv
  BY <1>4 DEF Recv, poolVars, BacklogInvariant, ResizeInStep, PoolFollowsBacklog
<1>5. CASE BeginReconfigure
  <2>1. /\ resize'[Dispatcher] = Pool!LoopHead(Pool!Plan(Len(queue)), current)
        /\ UNCHANGED <<queue, current>>
    BY <1>0, <1>5 DEF BeginReconfigure, Pool!ReadCurrent, TypeOK, Pool!TypeOK
  <2>2. Pool!Plan(Len(queue)) \in Nat
    BY <1>0, PlanNat DEF TypeOK
  <2>3. /\ resize'[Dispatcher].desired = Pool!Plan(Len(queue))
        /\ resize'[Dispatcher].pc = "idle" =>
             resize'[Dispatcher].desired = current
    BY <2>1 DEF Pool!LoopHead, Pool!Returned
  <2> QED
    BY <1>5, <2>1, <2>2, <2>3 DEF BeginReconfigure, ResizeInStep, PoolFollowsBacklog
<1>6. CASE Resize
  <2>1. /\ resize'[Dispatcher].desired = resize[Dispatcher].desired
        /\ resize'[Dispatcher].pc = "idle" =>
             resize'[Dispatcher].desired = current'
    BY <1>0, <1>6
       DEF Resize, Pool!ReconfigureStep, Pool!AddPermits, Pool!ForgetPermits,
           Pool!SwapCurrent, Pool!RetryCurrent, Pool!LoopHead, Pool!Returned,
           TypeOK, Pool!TypeOK
  <2> QED
    BY <1>6, <2>1 DEF Resize, BacklogInvariant, ResizeInStep, PoolFollowsBacklog
<1>7. CASE PublishPoolSize
  <2>1. metrics'.pool_workers_current = resize[Dispatcher].desired
    BY <1>0, <1>7 DEF PublishPoolSize, TypeOK, Counters
  <2> QED
    BY <1>7, <2>1
       DEF PublishPoolSize, poolVars, BacklogInvariant, ResizeInStep,
           PoolFollowsBacklog
<1>8. CASE SpawnWorker
  BY <1>8 DEF SpawnWorker, Pool!Acquire, BacklogInvariant, ResizeInStep,
              PoolFollowsBacklog
<1>9. CASE Quiescent \/ UNCHANGED vars
  <2>1. Len(queue) \in Nat
    BY <1>0 DEF TypeOK
  <2> QED
    BY <1>0, <1>9, <2>1, BacklogUntouched DEF Quiescent, vars
<1> QED
  BY <1>1, <1>2, <1>3, <1>4, <1>5, <1>6, <1>7, <1>8, <1>9
     DEF Next, DispatcherStep, WorkerStep

(* Whenever the dispatcher waits, for a job or for a permit, the pool is   *)
(* no larger than planned for the jobs now queued, and the gauge shows it. *)
THEOREM PoolFollowsTheBacklog == Spec => []PoolFollowsBacklog
<1>1. BacklogInvariant => PoolFollowsBacklog
  BY DEF BacklogInvariant
<1> QED
  BY <1>1, InitBacklogInvariant, StepBacklogInvariant, PTL DEF Spec

(* Whenever it waits with an empty queue the pool has collapsed to its     *)
(* minimum.                                                                *)
THEOREM IdleCollapse ==
  Spec => []((dispatcher \in {"recv", "acquire"} /\ queue = <<>>)
               => current = Pool!min_workers)
<1>1. BacklogInvariant =>
        ((dispatcher \in {"recv", "acquire"} /\ queue = <<>>)
           => current = Pool!min_workers)
  <2> SUFFICES ASSUME BacklogInvariant, dispatcher \in {"recv", "acquire"},
                      queue = <<>>
               PROVE  current = Pool!min_workers
    OBVIOUS
  <2>1. current <= Pool!Plan(0)
    BY DEF BacklogInvariant, PoolFollowsBacklog
  <2>2. current \in Pool!min_workers .. Pool!max_workers
    BY DEF BacklogInvariant, TypeInvariant, TypeOK, Pool!TypeOK
  <2> QED
    BY <2>1, <2>2, PlanEmpty, PoolBounds
<1> QED
  BY <1>1, InitBacklogInvariant, StepBacklogInvariant, PTL DEF Spec

-----------------------------------------------------------------------------
(* The dispatcher is blocked only by a pool that is in full use.           *)

BlockedInvariant == BacklogInvariant /\ PoolProofs!PoolInvariant

LEMMA InitBlockedInvariant == Init => BlockedInvariant
BY InitBacklogInvariant, SameInit, PoolAssumed, PoolProofs!InitPoolInvariant
   DEF BlockedInvariant, Init, PoolProofs!InitPoolInvariant

LEMMA StepBlockedInvariant ==
  BlockedInvariant /\ [Next]_vars => BlockedInvariant'
<1> SUFFICES ASSUME BlockedInvariant, [Next]_vars
             PROVE  PoolProofs!PoolInvariant'
  BY StepBacklogInvariant DEF BlockedInvariant
<1>1. [PoolProofs!Next]_PoolProofs!poolVars
  BY PoolStep
     DEF BlockedInvariant, BacklogInvariant, TypeInvariant,
         PoolProofs!poolVars, poolVars
<1> QED
  BY <1>1, PoolAssumed, PoolProofs!StepPoolInvariant DEF BlockedInvariant

LEMMA SameCardinality ==
  ASSUME NEW S
  PROVE  PoolProofs!Cardinality(S) = Cardinality(S)
BY DEF PoolProofs!Cardinality, Cardinality

LEMMA SameFinite ==
  ASSUME NEW S
  PROVE  PoolProofs!IsFiniteSet(S) <=> IsFiniteSet(S)
BY DEF PoolProofs!IsFiniteSet, IsFiniteSet

LEMMA BlockedOnlyByFull == BlockedInvariant => BlockedOnlyByAFullPool
<1> SUFFICES ASSUME BlockedInvariant, dispatcher = "acquire", permits = 0
             PROVE  Cardinality(held) >= current
  BY DEF BlockedOnlyByAFullPool
<1>1. resize[Dispatcher].pc = "idle"
  BY DEF BlockedInvariant, BacklogInvariant, ResizeInStep
<1>2. PoolProofs!Total >= PoolProofs!Target(Dispatcher)
  BY DEF BlockedInvariant, PoolProofs!PoolInvariant, PoolProofs!PermitFloor
<1>3. Cardinality(held) \in Nat
  BY FS_CardinalityType, SameFinite DEF BlockedInvariant, PoolProofs!PoolInvariant
<1> QED
  BY <1>1, <1>2, <1>3, SameCardinality DEF PoolProofs!Total, PoolProofs!Target

(* If dispatcher_loop waits in acquire() with no permit left then as many  *)
(* workers as the pool's size, hence at least one, own a permit each:      *)
(* somebody will wake it.                                                  *)
THEOREM DispatcherNeverStarves == Spec => []BlockedOnlyByAFullPool
BY InitBlockedInvariant, StepBlockedInvariant, BlockedOnlyByFull, PTL DEF Spec

-----------------------------------------------------------------------------
(* The counters.  What one step does to them, with the handler it is done  *)
(* for; a step that changes neither is a step of everybody else.           *)

Begun(r) ==
  /\ handler[r] = "enqueued"
  /\ handler' = [handler EXCEPT ![r] = "waiting"]
  /\ totalsBar' = [totalsBar EXCEPT !.requests_total = @ + 1, !.in_flight = @ + 1]

Finished(r, outcome, total) ==
  /\ handler[r] = "waiting"
  /\ handler' = [handler EXCEPT ![r] = outcome]
  /\ totalsBar' = [totalsBar EXCEPT !.in_flight = @ - 1, ![total] = @ + 1]

NotCounted(r) ==
  /\ UNCHANGED totalsBar
  /\ handler[r] \in {"arriving", "waiting"}
  /\ \E state \in {"invalid_request", "queue_full", "enqueued", "abandoned"} :
       handler' = [handler EXCEPT ![r] = state]

CounterStep ==
  \/ \E r \in Requests :
       \/ Begun(r)
       \/ Finished(r, "ok", "ok_total")
       \/ Finished(r, "error", "error_total")
       \/ Finished(r, "timeout", "timeout_total")
       \/ NotCounted(r)
  \/ UNCHANGED <<handler, totalsBar>>

LEMMA NextIsCounterStep == TypeOK /\ [Next]_vars => CounterStep
<1> SUFFICES ASSUME TypeOK, [Next]_vars PROVE CounterStep
  OBVIOUS
<1>1. metrics \in [Counters -> Nat]
  BY DEF TypeOK
<1>2. ASSUME NEW r \in Requests, BeginRequest(r)
      PROVE  CounterStep
  <2>1. /\ metrics'.requests_total = metrics.requests_total + 1
        /\ metrics'.in_flight = metrics.in_flight + 1
        /\ \A total \in OutcomeTotals : metrics'[total] = metrics[total]
    BY <1>1, <1>2 DEF BeginRequest, Counters, OutcomeTotals
  <2>2. totalsBar' = [totalsBar EXCEPT !.requests_total = @ + 1, !.in_flight = @ + 1]
    BY <2>1 DEF totalsBar, OutcomeTotals
  <2> QED
    BY <1>2, <2>2 DEF BeginRequest, Begun, CounterStep
<1>3. ASSUME NEW r \in Requests, NEW outcome, NEW total \in OutcomeTotals,
             FinishRequest(r, outcome, total)
      PROVE  Finished(r, outcome, total)
  <2>1. /\ metrics'.requests_total = metrics.requests_total
        /\ metrics'.in_flight = metrics.in_flight - 1
        /\ metrics'[total] = metrics[total] + 1
        /\ \A other \in OutcomeTotals \ {total} : metrics'[other] = metrics[other]
    BY <1>1, <1>3 DEF FinishRequest, Counters, OutcomeTotals
  <2>2. totalsBar' = [totalsBar EXCEPT !.in_flight = @ - 1, ![total] = @ + 1]
    BY <2>1 DEF totalsBar, OutcomeTotals
  <2> QED
    BY <1>3, <2>2 DEF FinishRequest, Finished
<1>4. ASSUME NEW r \in Requests, RespondOk(r) \/ RespondError(r) \/ TimeOut(r)
      PROVE  CounterStep
  BY <1>3, <1>4 DEF RespondOk, RespondError, TimeOut, OutcomeTotals, CounterStep
<1>5. ASSUME NEW r \in Requests, Client(r) \/ RejectUnknownModel(r) \/ RejectQueueFull(r)
                                \/ Enqueue(r) \/ ClientDisconnect(r)
      PROVE  CounterStep
  <2>1. UNCHANGED totalsBar
    BY <1>1, <1>5
       DEF Client, RejectUnknownModel, RejectQueueFull, Enqueue,
           ClientDisconnect, Counters, totalsBar, OutcomeTotals
  <2>2. NotCounted(r)
    BY <1>5, <2>1
       DEF Client, RejectUnknownModel, RejectQueueFull, Enqueue,
           ClientDisconnect, NotCounted
  <2> QED
    BY <2>2 DEF CounterStep
<1>6. CASE PublishPoolSize
  <2>1. UNCHANGED <<handler, totalsBar>>
    BY <1>1, <1>6 DEF PublishPoolSize, Counters, totalsBar, OutcomeTotals
  <2> QED
    BY <2>1 DEF CounterStep
<1>7. CASE \/ Recv \/ BeginReconfigure \/ Resize \/ SpawnWorker \/ Quiescent
           \/ UNCHANGED vars \/ \E r \in Requests : WorkerStep(r)
  <2>1. UNCHANGED <<handler, metrics>>
    BY <1>7 DEF Recv, BeginReconfigure, Resize, SpawnWorker, Quiescent, vars,
                WorkerStep, CoreAnswers, WorkerCancelled, Deliver, ReleasePermit
  <2> QED
    BY <2>1 DEF CounterStep, totalsBar
<1> QED
  BY <1>2, <1>4, <1>5, <1>6, <1>7 DEF Next, Client, HandlerStep, DispatcherStep

(* Every step of the gateway is a step of the abstract counters or leaves  *)
(* them alone; a handler that finishes is still counted in the gauge.      *)
LEMMA StepImplementsCounters ==
  TypeInvariant /\ [Next]_vars => [Atomic!Next]_totalsBar
<1> SUFFICES ASSUME TypeInvariant, CounterStep PROVE [Atomic!Next]_totalsBar
  BY NextIsCounterStep DEF TypeInvariant
<1>1. ASSUME NEW r \in Requests, Begun(r)
      PROVE  Atomic!Next
  BY <1>1 DEF Begun, Atomic!Next, Atomic!Begin
<1>2. ASSUME NEW r \in Requests, NEW outcome, NEW total \in OutcomeTotals,
             Finished(r, outcome, total)
      PROVE  Atomic!Next
  <2>1. r \in Waiting
    BY <1>2 DEF Finished, Waiting
  <2>2. Cardinality(Waiting) \in Nat \ {0}
    BY <2>1, FS_CardinalityType, FS_EmptySet
       DEF TypeInvariant, InFlightCoversWaiting
  <2>3. metrics.in_flight \in Nat
    BY DEF TypeInvariant, TypeOK, Counters
  <2>4. totalsBar.in_flight > 0
    BY <2>2, <2>3 DEF totalsBar, TypeInvariant, InFlightCoversWaiting
  <2> QED
    BY <1>2, <2>4 DEF Finished, Atomic!Next, Atomic!Finish
<1>3. CASE UNCHANGED totalsBar
  BY <1>3
<1> QED
  BY <1>1, <1>2, <1>3 DEF CounterStep, NotCounted, OutcomeTotals

LEMMA InitImplementsCounters == Init => Atomic!Init
BY DEF Init, Atomic!Init, totalsBar, Counters, OutcomeTotals

(* The counters of the request path, whatever requests, timeouts and       *)
(* disconnects do, count each request in one step and each outcome in one. *)
THEOREM CountersImplemented == Spec => ImplementsCounters
BY InitTypeInvariant, StepTypeInvariant, InitImplementsCounters,
   StepImplementsCounters, PTL DEF Spec, ImplementsCounters, Atomic!Spec

(* The balance, with what it rests on: the requests that have their result *)
(* are finitely many, so that counting them makes sense.                   *)
AnsweredOk == {r \in Requests : handler[r] = "ok"}

Balanced ==
  totalsBar.requests_total = totalsBar.in_flight + totalsBar.ok_total
                               + totalsBar.error_total + totalsBar.timeout_total

OkCounted ==
  /\ IsFiniteSet(AnsweredOk)
  /\ totalsBar.ok_total = Cardinality(AnsweredOk)

BalanceInvariant == TypeInvariant /\ Balanced /\ OkCounted

LEMMA InitBalanceInvariant == Init => BalanceInvariant
<1> SUFFICES ASSUME Init PROVE Balanced /\ OkCounted
  BY InitTypeInvariant DEF BalanceInvariant
<1>1. AnsweredOk = {}
  BY DEF Init, AnsweredOk
<1>2. \A counter \in DOMAIN totalsBar : totalsBar[counter] = 0
  BY DEF Init, totalsBar, Counters, OutcomeTotals
<1>3. /\ totalsBar.requests_total = 0 /\ totalsBar.in_flight = 0
      /\ totalsBar.ok_total = 0 /\ totalsBar.error_total = 0
      /\ totalsBar.timeout_total = 0
  BY <1>2 DEF totalsBar, OutcomeTotals
<1> QED
  BY <1>1, <1>3, FS_EmptySet DEF Balanced, OkCounted

LEMMA StepBalanceInvariant ==
  BalanceInvariant /\ [Next]_vars => BalanceInvariant'
<1> SUFFICES ASSUME BalanceInvariant, CounterStep, TypeInvariant'
             PROVE  Balanced' /\ OkCounted'
  BY NextIsCounterStep, StepTypeInvariant DEF BalanceInvariant, TypeInvariant
<1>1. totalsBar \in [{"requests_total", "in_flight"} \cup OutcomeTotals -> Nat]
  BY DEF BalanceInvariant, TypeInvariant, TypeOK, totalsBar, Counters, OutcomeTotals
<1>2. handler = [r \in Requests |-> handler[r]]
  BY DEF BalanceInvariant, TypeInvariant, TypeOK
<1>3. /\ IsFiniteSet(AnsweredOk)
      /\ totalsBar.ok_total = Cardinality(AnsweredOk)
  BY DEF BalanceInvariant, OkCounted
<1>4. ASSUME NEW r \in Requests, Begun(r)
      PROVE  Balanced' /\ OkCounted'
  <2>1. Balanced'
    BY <1>1, <1>4 DEF Begun, BalanceInvariant, Balanced, OutcomeTotals
  <2>2. AnsweredOk' = AnsweredOk
    BY <1>2, <1>4 DEF Begun, AnsweredOk
  <2>3. totalsBar'.ok_total = totalsBar.ok_total
    BY <1>1, <1>4 DEF Begun, OutcomeTotals
  <2> QED
    BY <1>3, <2>1, <2>2, <2>3 DEF OkCounted
<1>5. ASSUME NEW r \in Requests, Finished(r, "ok", "ok_total")
      PROVE  Balanced' /\ OkCounted'
  <2>1. Balanced'
    BY <1>1, <1>5 DEF Finished, BalanceInvariant, Balanced, OutcomeTotals
  <2>2. AnsweredOk' = AnsweredOk \cup {r} /\ r \notin AnsweredOk
    BY <1>2, <1>5 DEF Finished, AnsweredOk
  <2>3. totalsBar'.ok_total = totalsBar.ok_total + 1
    BY <1>1, <1>5 DEF Finished, OutcomeTotals
  <2> QED
    BY <1>3, <2>1, <2>2, <2>3, FS_AddElement DEF OkCounted
<1>6. ASSUME NEW r \in Requests,
             \/ Finished(r, "error", "error_total")
             \/ Finished(r, "timeout", "timeout_total")
      PROVE  Balanced' /\ OkCounted'
  <2>1. Balanced'
    <3>1. CASE Finished(r, "error", "error_total")
      BY <1>1, <3>1 DEF Finished, BalanceInvariant, Balanced, OutcomeTotals
    <3>2. CASE Finished(r, "timeout", "timeout_total")
      BY <1>1, <3>2 DEF Finished, BalanceInvariant, Balanced, OutcomeTotals
    <3> QED
      BY <1>6, <3>1, <3>2
  <2>2. AnsweredOk' = AnsweredOk
    BY <1>2, <1>6 DEF Finished, AnsweredOk
  <2>3. totalsBar'.ok_total = totalsBar.ok_total
    BY <1>1, <1>6 DEF Finished, OutcomeTotals
  <2> QED
    BY <1>3, <2>1, <2>2, <2>3 DEF OkCounted
<1>7. ASSUME NEW r \in Requests, NotCounted(r)
      PROVE  Balanced' /\ OkCounted'
  <2>1. AnsweredOk' = AnsweredOk
    BY <1>2, <1>7 DEF NotCounted, AnsweredOk
  <2> QED
    BY <1>3, <1>7, <2>1 DEF NotCounted, BalanceInvariant, Balanced, OkCounted
<1>8. CASE UNCHANGED <<handler, totalsBar>>
  BY <1>8 DEF BalanceInvariant, Balanced, OkCounted, AnsweredOk
<1> QED
  BY <1>4, <1>5, <1>6, <1>7, <1>8 DEF CounterStep

(* For any number of requests and any disconnects: each counted request is *)
(* in flight or under one outcome, the gauge covers every waiting handler, *)
(* and ok_total is the number of clients that got a result.                *)
THEOREM CountersBalance == Spec => []MetricsBalance
<1>1. BalanceInvariant => MetricsBalance
  BY DEF BalanceInvariant, Balanced, OkCounted, MetricsBalance, totalsBar,
         OutcomeTotals, AnsweredOk, TypeInvariant, InFlightCoversWaiting, Waiting
<1> QED
  BY <1>1, InitBalanceInvariant, StepBalanceInvariant, PTL DEF Spec
=============================================================================
