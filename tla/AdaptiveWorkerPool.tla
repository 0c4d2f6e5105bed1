------------------------- MODULE AdaptiveWorkerPool -------------------------
(***************************************************************************)
(* The adaptive worker pool of src/worker_pool.rs: a counting semaphore    *)
(* plus an atomic counter of the permits the pool believes it has granted. *)
(*                                                                         *)
(* One call of reconfigure() is several steps, because between them other  *)
(* threads release permits or call reconfigure() themselves:               *)
(*                                                                         *)
(*   ReadCurrent       plan the size, load the counter                     *)
(*   AddPermits,                                                           *)
(*   ForgetPermits     apply the difference to the semaphore               *)
(*   SwapCurrent       the compare-exchange succeeds: the call returns     *)
(*   RetryCurrent      it fails: the loop starts over with the value found *)
(*                                                                         *)
(* The gateway has one caller, its dispatcher; module Gateway instantiates *)
(* this module with that one.  The method takes &self and is written for   *)
(* several, so Callers is a parameter.                                     *)
(***************************************************************************)
EXTENDS Integers, FiniteSets

CONSTANTS
  MIN_CONCURRENCY,  \* the two arguments of new(), before it clamps them
  MAX_CONCURRENCY,
  MAX_PERMITS,      \* Semaphore::MAX_PERMITS: adding beyond it panics
  Callers,          \* the threads that call reconfigure()
  Owners,           \* the worker tasks that may own a permit
  QueueLengths      \* the queue lengths a caller may report

ASSUME PoolAssumption ==
  /\ MIN_CONCURRENCY \in Nat
  /\ MAX_CONCURRENCY \in Nat
  /\ MAX_PERMITS \in Nat
  /\ QueueLengths \subseteq Nat

VARIABLES
  permits,   \* permits available in the semaphore
  current,   \* the AtomicUsize: the size the pool claims to have
  held,      \* the owners of an OwnedSemaphorePermit
  resize     \* per caller: where its call of reconfigure() stands

poolVars == <<permits, current, held, resize>>

max_workers == IF MAX_CONCURRENCY < 1 THEN 1 ELSE MAX_CONCURRENCY

min_workers ==
  IF MIN_CONCURRENCY < 1 THEN 1
  ELSE IF MIN_CONCURRENCY > max_workers THEN max_workers
  ELSE MIN_CONCURRENCY

(* Mutant of Plan: the upper clamp is lost.                                *)
PlanUncapped(queue_len) == min_workers + (queue_len \div 2)

Plan(queue_len) ==
  LET size == min_workers + (queue_len \div 2)
  IN  IF size > max_workers THEN max_workers ELSE size

-----------------------------------------------------------------------------
(* A call that has returned, and the head of the loop in reconfigure().    *)

Returned(size) == [pc |-> "idle", desired |-> size, seen |-> size]

LoopHead(desired, seen) ==
  IF desired = seen THEN Returned(desired)
  ELSE [pc |-> "apply", desired |-> desired, seen |-> seen]

Init ==
  /\ permits = min_workers
  /\ current = min_workers
  /\ held = {}
  /\ resize = [c \in Callers |-> Returned(min_workers)]

ReadCurrent(c, queue_len) ==
  /\ resize[c].pc = "idle"
  /\ resize' = [resize EXCEPT ![c] = LoopHead(Plan(queue_len), current)]
  /\ UNCHANGED <<permits, current, held>>

(* Mutant of AddPermits: adds the planned size, not the difference.        *)
AddPlannedSize(c) ==
  /\ resize[c].pc = "apply"
  /\ resize[c].desired > resize[c].seen
  /\ permits' = permits + resize[c].desired
  /\ resize' = [resize EXCEPT ![c].pc = "swap"]
  /\ UNCHANGED <<current, held>>

AddPermits(c) ==
  LET delta == resize[c].desired - resize[c].seen
  IN  /\ resize[c].pc = "apply"
      /\ delta > 0
      /\ permits + delta <= MAX_PERMITS
      /\ permits' = permits + delta
      /\ resize' = [resize EXCEPT ![c].pc = "swap"]
      /\ UNCHANGED <<current, held>>

(* forget_permits(n) removes at most the permits that are available: one   *)
(* that a worker owns cannot be forgotten.  Its result is not looked at.   *)
Forget(available, n) == IF available < n THEN 0 ELSE available - n

ForgetPermits(c) ==
  LET delta == resize[c].desired - resize[c].seen
  IN  /\ resize[c].pc = "apply"
      /\ delta < 0
      /\ permits' = Forget(permits, -delta)
      /\ resize' = [resize EXCEPT ![c].pc = "swap"]
      /\ UNCHANGED <<current, held>>

SwapCurrent(c) ==
  /\ resize[c].pc = "swap"
  /\ current = resize[c].seen
  /\ current' = resize[c].desired
  /\ resize' = [resize EXCEPT ![c] = Returned(resize[c].desired)]
  /\ UNCHANGED <<permits, held>>

RetryCurrent(c) ==
  /\ resize[c].pc = "swap"
  /\ current # resize[c].seen
  /\ resize' = [resize EXCEPT ![c] = LoopHead(resize[c].desired, current)]
  /\ UNCHANGED <<permits, current, held>>

ReconfigureStep(c) ==
  \/ AddPermits(c)
  \/ ForgetPermits(c)
  \/ SwapCurrent(c)
  \/ RetryCurrent(c)

Acquire(w) ==
  /\ w \notin held
  /\ permits > 0
  /\ permits' = permits - 1
  /\ held' = held \cup {w}
  /\ UNCHANGED <<current, resize>>

(* Mutant of Release: the worker's permit is forgotten, not dropped.       *)
ReleaseForgetting(w) ==
  /\ w \in held
  /\ held' = held \ {w}
  /\ UNCHANGED <<permits, current, resize>>

Release(w) ==
  /\ w \in held
  /\ permits' = permits + 1
  /\ held' = held \ {w}
  /\ UNCHANGED <<current, resize>>

Next ==
  \/ \E c \in Callers, n \in QueueLengths : ReadCurrent(c, n)
  \/ \E c \in Callers : ReconfigureStep(c)
  \/ \E w \in Owners : Acquire(w) \/ Release(w)

Spec == Init /\ [][Next]_poolVars

-----------------------------------------------------------------------------
(* Properties.                                                             *)

(* The pool size, and every size a call of reconfigure() is about to       *)
(* store, stays between the clamped bounds, however many callers race.     *)
TypeOK ==
  /\ permits \in Nat
  /\ current \in min_workers .. max_workers
  /\ held \subseteq Owners
  /\ resize \in [Callers -> [pc : {"idle", "apply", "swap"},
                             desired : min_workers .. max_workers,
                             seen : min_workers .. max_workers]]

(* Every permit that exists, available or owned by a worker.               *)
Total == permits + Cardinality(held)

(* The size the permits already follow: between the semaphore update of a  *)
(* call and its compare-exchange that is the planned size, not `current`.  *)
Target(c) == IF resize[c].pc = "swap" THEN resize[c].desired ELSE current

(* Resizing never takes more permits than the pool has to give up: with    *)
(* one caller there is always a permit for every worker the pool claims,   *)
(* whatever was forgotten while workers ran, so the pool cannot starve.    *)
PermitFloor == \A c \in Callers : Total >= Target(c)

(* A resize leaves the pool with more surplus permits than before only if  *)
(* some worker owned a permit: reconfigure() on an idle pool is exact.     *)
SurplusOnlyUnderLoad ==
  [][\A c \in Callers :
       Total' - Target(c)' > Total - Target(c) => held # {}]_poolVars

(* What the comment in the compare-exchange loop says of racing callers    *)
(* ("so we never add/forget more than needed"): once no call is in         *)
(* progress the permits are as many as the pool size says.                 *)
PermitsMatchPoolSize ==
  (\A c \in Callers : resize[c].pc = "idle") => Total = current
=============================================================================
