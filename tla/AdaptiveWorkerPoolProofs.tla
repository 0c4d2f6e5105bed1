---------------------- MODULE AdaptiveWorkerPoolProofs ----------------------
(***************************************************************************)
(* What reconfigure(), acquire() and the drop of a permit keep true, for   *)
(* every pair of bounds, every queue length and every set of workers.      *)
(*                                                                         *)
(*   PoolTypeCorrect   for any number of racing callers                    *)
(*   PoolPermitFloor,                                                      *)
(*   PoolSurplusOnlyUnderLoad   for one caller, as in the gateway          *)
(***************************************************************************)
EXTENDS AdaptiveWorkerPool, FiniteSetTheorems, TLAPS

(* The clamps of new() leave 1 <= min_workers <= max_workers.              *)
LEMMA BoundsClamped ==
  /\ min_workers \in Nat
  /\ max_workers \in Nat
  /\ 1 <= min_workers
  /\ min_workers <= max_workers
BY PoolAssumption DEF min_workers, max_workers

(* plan() stays between the bounds.                                        *)
LEMMA PlanBounded ==
  ASSUME NEW n \in Nat
  PROVE  Plan(n) \in min_workers .. max_workers
<1> n \div 2 \in Nat
  OBVIOUS
<1> QED
  BY BoundsClamped DEF Plan

(* A longer queue is never planned a smaller pool.                         *)
LEMMA PlanMonotone ==
  ASSUME NEW m \in Nat, NEW n \in Nat, m <= n
  PROVE  Plan(m) <= Plan(n)
<1> m \div 2 \in Nat /\ n \div 2 \in Nat /\ m \div 2 <= n \div 2
  OBVIOUS
<1> QED
  BY BoundsClamped DEF Plan

(* No branch of forget_permits() leaves a negative number of permits.      *)
LEMMA ForgetNat ==
  ASSUME NEW available \in Nat, NEW n \in Nat
  PROVE  Forget(available, n) \in Nat
BY DEF Forget

(* The head of the loop keeps a call of reconfigure() well-typed.          *)
LEMMA LoopHeadType ==
  ASSUME NEW desired \in min_workers .. max_workers,
         NEW seen \in min_workers .. max_workers
  PROVE  LoopHead(desired, seen) \in
           [pc : {"idle", "apply", "swap"},
            desired : min_workers .. max_workers,
            seen : min_workers .. max_workers]
BY DEF LoopHead, Returned

-----------------------------------------------------------------------------
LEMMA InitType == Init => TypeOK
BY BoundsClamped DEF Init, TypeOK, Returned

LEMMA StepType == TypeOK /\ [Next]_poolVars => TypeOK'
<1> SUFFICES ASSUME TypeOK, [Next]_poolVars PROVE TypeOK'
  OBVIOUS
<1> USE BoundsClamped
<1>1. ASSUME NEW c \in Callers, NEW n \in QueueLengths, ReadCurrent(c, n)
      PROVE  TypeOK'
  <2>1. Plan(n) \in min_workers .. max_workers
    BY PlanBounded, PoolAssumption
  <2> QED
    BY <1>1, <2>1, LoopHeadType DEF TypeOK, ReadCurrent
<1>2. ASSUME NEW c \in Callers, AddPermits(c)
      PROVE  TypeOK'
  BY <1>2 DEF TypeOK, AddPermits
<1>3. ASSUME NEW c \in Callers, ForgetPermits(c)
      PROVE  TypeOK'
  <2>1. -(resize[c].desired - resize[c].seen) \in Nat
    BY <1>3 DEF TypeOK, ForgetPermits
  <2> QED
    BY <1>3, <2>1, ForgetNat DEF TypeOK, ForgetPermits
<1>4. ASSUME NEW c \in Callers, SwapCurrent(c)
      PROVE  TypeOK'
  BY <1>4 DEF TypeOK, SwapCurrent, Returned
<1>5. ASSUME NEW c \in Callers, RetryCurrent(c)
      PROVE  TypeOK'
  BY <1>5, LoopHeadType DEF TypeOK, RetryCurrent
<1>6. ASSUME NEW w \in Owners, Acquire(w)
      PROVE  TypeOK'
  BY <1>6 DEF TypeOK, Acquire
<1>7. ASSUME NEW w \in Owners, Release(w)
      PROVE  TypeOK'
  BY <1>7 DEF TypeOK, Release
<1>8. CASE UNCHANGED poolVars
  BY <1>8 DEF TypeOK, poolVars
<1> QED
  BY <1>1, <1>2, <1>3, <1>4, <1>5, <1>6, <1>7, <1>8
     DEF Next, ReconfigureStep

(* The pool size and every planned size stay within the clamped bounds,    *)
(* and the semaphore never goes negative, however many callers race.       *)
THEOREM PoolTypeCorrect == Spec => []TypeOK
BY InitType, StepType, PTL DEF Spec

-----------------------------------------------------------------------------
(* One caller.  Between its load and its compare-exchange nobody else      *)
(* moves the counter, so the difference it applies is the right one.       *)
LoadIsCurrent ==
  \A c \in Callers :
    resize[c].pc # "idle" => resize[c].seen = current

(* PermitFloor is inductive with it.                                       *)
PoolInvariant ==
  /\ TypeOK
  /\ IsFiniteSet(held)
  /\ LoadIsCurrent
  /\ PermitFloor

LEMMA InitPoolInvariant == Init => PoolInvariant
<1> SUFFICES ASSUME Init PROVE PoolInvariant
  OBVIOUS
<1>1. IsFiniteSet(held) /\ Cardinality(held) = 0
  BY FS_EmptySet DEF Init
<1> QED
  BY <1>1, InitType, BoundsClamped
     DEF PoolInvariant, Init, LoadIsCurrent, PermitFloor, Total, Target, Returned

(* What acquiring and releasing do to the permits that exist: nothing.     *)
LEMMA OwnersKeepTotal ==
  ASSUME TypeOK, IsFiniteSet(held),
         NEW w \in Owners, Acquire(w) \/ Release(w)
  PROVE  IsFiniteSet(held') /\ Total' = Total
<1>1. Cardinality(held) \in Nat
  BY FS_CardinalityType
<1>2. CASE Acquire(w)
  <2>1. IsFiniteSet(held') /\ Cardinality(held') = Cardinality(held) + 1
    BY <1>2, FS_AddElement DEF Acquire
  <2> QED
    BY <1>1, <1>2, <2>1 DEF Acquire, Total, TypeOK
<1>3. CASE Release(w)
  <2>1. IsFiniteSet(held') /\ Cardinality(held') = Cardinality(held) - 1
    BY <1>3, FS_RemoveElement DEF Release
  <2> QED
    BY <1>1, <1>3, <2>1 DEF Release, Total, TypeOK
<1> QED
  BY <1>2, <1>3

LEMMA StepPoolInvariant ==
  ASSUME NEW only, Callers = {only}, PoolInvariant, [Next]_poolVars
  PROVE  PoolInvariant'
<1> DEFINE H == Cardinality(held)
<1> USE DEF PoolInvariant
<1>1. TypeOK'
  BY StepType
<1>2. H \in Nat /\ permits \in Nat /\ current \in Nat
  BY FS_CardinalityType, BoundsClamped DEF TypeOK
<1>3. \A c \in Callers : resize[c].desired \in Nat /\ resize[c].seen \in Nat
  BY BoundsClamped DEF TypeOK
<1>4. \A c \in Callers : c = only
  OBVIOUS
<1>5. ASSUME NEW c \in Callers, NEW n \in QueueLengths, ReadCurrent(c, n)
      PROVE  PoolInvariant'
  BY <1>1, <1>4, <1>5
     DEF ReadCurrent, LoopHead, Returned, LoadIsCurrent, PermitFloor, Total,
         Target, TypeOK
<1>6. ASSUME NEW c \in Callers, AddPermits(c)
      PROVE  PoolInvariant'
  <2>1. resize[c].seen = current /\ Total >= current
    BY <1>6 DEF AddPermits, LoadIsCurrent, PermitFloor, Target
  <2>2. Total' >= resize[c].desired
    BY <1>2, <1>3, <1>6, <2>1 DEF AddPermits, Total
  <2> QED
    BY <1>1, <1>4, <1>6, <2>1, <2>2
       DEF AddPermits, LoadIsCurrent, PermitFloor, Target, TypeOK
<1>7. ASSUME NEW c \in Callers, ForgetPermits(c)
      PROVE  PoolInvariant'
  <2>1. resize[c].seen = current /\ Total >= current
    BY <1>7 DEF ForgetPermits, LoadIsCurrent, PermitFloor, Target
  <2>2. Total' >= resize[c].desired
    BY <1>2, <1>3, <1>7, <2>1 DEF ForgetPermits, Forget, Total
  <2> QED
    BY <1>1, <1>4, <1>7, <2>1, <2>2
       DEF ForgetPermits, LoadIsCurrent, PermitFloor, Target, TypeOK
<1>8. ASSUME NEW c \in Callers, SwapCurrent(c)
      PROVE  PoolInvariant'
  BY <1>1, <1>4, <1>8
     DEF SwapCurrent, Returned, LoadIsCurrent, PermitFloor, Total, Target, TypeOK
<1>9. ASSUME NEW c \in Callers, RetryCurrent(c)
      PROVE  PoolInvariant'
  BY <1>9 DEF RetryCurrent, LoadIsCurrent
<1>10. ASSUME NEW w \in Owners, Acquire(w) \/ Release(w)
       PROVE  PoolInvariant'
  BY <1>1, <1>10, OwnersKeepTotal
     DEF Acquire, Release, LoadIsCurrent, PermitFloor, Target
<1>11. CASE UNCHANGED poolVars
  BY <1>1, <1>11 DEF poolVars, LoadIsCurrent, PermitFloor, Total, Target
<1> QED
  BY <1>5, <1>6, <1>7, <1>8, <1>9, <1>10, <1>11 DEF Next, ReconfigureStep

LEMMA PoolInvariantHolds ==
  ASSUME NEW only, Callers = {only}
  PROVE  Spec => []PoolInvariant
<1>1. Init => PoolInvariant
  BY InitPoolInvariant
<1>2. PoolInvariant /\ [Next]_poolVars => PoolInvariant'
  BY StepPoolInvariant
<1> QED
  BY <1>1, <1>2, PTL DEF Spec

(* With one caller there is a permit for every worker the pool claims to   *)
(* have: shrinking while workers run never starves the pool.               *)
THEOREM PoolPermitFloor ==
  ASSUME NEW only, Callers = {only}
  PROVE  Spec => []PermitFloor
<1>1. PoolInvariant => PermitFloor
  BY DEF PoolInvariant
<1> QED
  BY <1>1, PoolInvariantHolds, PTL

(* With one caller the only step that leaves more surplus than before is a *)
(* shrink that meets permits owned by running workers.                     *)
LEMMA StepSurplus ==
  ASSUME NEW only, Callers = {only}, PoolInvariant, [Next]_poolVars,
         NEW c \in Callers, held = {}
  PROVE  Total' - Target(c)' <= Total - Target(c)
<1> USE DEF PoolInvariant
<1>1. Cardinality(held) = 0
  BY FS_EmptySet
<1>2. permits \in Nat /\ current \in Nat /\ c = only
      /\ resize[c].desired \in Nat /\ resize[c].seen \in Nat
  BY BoundsClamped DEF TypeOK
<1>3. ASSUME NEW n \in QueueLengths, ReadCurrent(c, n)
      PROVE  Total' - Target(c)' <= Total - Target(c)
  BY <1>1, <1>2, <1>3
     DEF ReadCurrent, LoopHead, Returned, Total, Target, TypeOK
<1>4. CASE AddPermits(c)
  BY <1>1, <1>2, <1>4 DEF AddPermits, LoadIsCurrent, Total, Target, TypeOK
<1>5. CASE ForgetPermits(c)
  <2>1. permits >= current /\ resize[c].seen = current
    BY <1>1, <1>2, <1>5
       DEF ForgetPermits, LoadIsCurrent, PermitFloor, Total, Target
  <2> QED
    BY <1>1, <1>2, <1>5, <2>1
       DEF ForgetPermits, Forget, Total, Target, TypeOK
<1>6. CASE SwapCurrent(c)
  BY <1>1, <1>2, <1>6 DEF SwapCurrent, Returned, Total, Target, TypeOK
<1>7. CASE RetryCurrent(c)
  BY <1>7 DEF RetryCurrent, LoadIsCurrent
<1>8. ASSUME NEW w \in Owners, Acquire(w) \/ Release(w)
      PROVE  Total' - Target(c)' <= Total - Target(c)
  <2>1. Total' = Total
    BY <1>8, OwnersKeepTotal
  <2> QED
    BY <1>1, <1>2, <1>8, <2>1 DEF Acquire, Release, Total, Target
<1>9. CASE UNCHANGED poolVars
  BY <1>1, <1>2, <1>9 DEF poolVars, Total, Target
<1> QED
  BY <1>2, <1>3, <1>4, <1>5, <1>6, <1>7, <1>8, <1>9 DEF Next, ReconfigureStep

(* reconfigure() is exact on a pool with no running worker.                *)
THEOREM PoolSurplusOnlyUnderLoad ==
  ASSUME NEW only, Callers = {only}
  PROVE  Spec => SurplusOnlyUnderLoad
<1>1. PoolInvariant /\ PoolInvariant' /\ [Next]_poolVars =>
        [\A c \in Callers :
           Total' - Target(c)' > Total - Target(c) => held # {}]_poolVars
  <2> SUFFICES ASSUME PoolInvariant, PoolInvariant', [Next]_poolVars,
                      NEW c \in Callers,
                      Total' - Target(c)' > Total - Target(c),
                      held = {}
               PROVE  FALSE
    OBVIOUS
  <2>1. Total' - Target(c)' <= Total - Target(c)
    BY StepSurplus
  <2>2. Cardinality(held) \in Nat /\ Cardinality(held') \in Nat
    BY FS_CardinalityType DEF PoolInvariant
  <2>3. Total \in Nat /\ Total' \in Nat
    BY <2>2 DEF PoolInvariant, TypeOK, Total
  <2>4. Target(c) \in Nat
    BY BoundsClamped DEF PoolInvariant, TypeOK, Target
  <2>5. Target(c)' \in Nat
    BY BoundsClamped DEF PoolInvariant, TypeOK, Target
  <2> QED
    BY <2>1, <2>3, <2>4, <2>5
<1> QED
  BY <1>1, PoolInvariantHolds, PTL DEF Spec, SurplusOnlyUnderLoad
=============================================================================
