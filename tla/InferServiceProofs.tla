-------------------------- MODULE InferServiceProofs --------------------------
(***************************************************************************)
(* That the steps of InferService amount to the promises its header makes  *)
(* in words, for every set of requests and every capacity.                 *)
(***************************************************************************)
EXTENDS InferService, TLAPS

Answers == {"none", "timeout", "abandoned"} \cup Refusals \cup Results

Stages == {"none", "queued", "executing", "discarded"} \cup Results

TypeOK ==
  /\ answer \in [Requests -> Answers]
  /\ backlog \in Seq(Requests)
  /\ work \in [Requests -> Stages]

(* Each accepted request waits once, and nothing else does.                *)
BacklogIsQueued ==
  /\ \A i, j \in 1 .. Len(backlog) : backlog[i] = backlog[j] => i = j
  /\ \A i \in 1 .. Len(backlog) : work[backlog[i]] = "queued"
  /\ \A r \in Requests :
       work[r] = "queued" => \E i \in 1 .. Len(backlog) : backlog[i] = r

BacklogBounded == Len(backlog) <= QUEUE_CAPACITY + 1

(* A client is told a result only if it is what the execution of its own   *)
(* request returned, a refused request is never executed, and a result is  *)
(* thrown away only if the client was told something else before.          *)
AnswersFit ==
  \A r \in Requests :
    /\ answer[r] \in Results => work[r] = answer[r]
    /\ answer[r] \in Refusals => work[r] = "none"
    /\ work[r] = "discarded" => answer[r] \in {"timeout", "abandoned"}

ServiceInvariant == TypeOK /\ BacklogIsQueued /\ BacklogBounded /\ AnswersFit

LEMMA InitServiceInvariant == QUEUE_CAPACITY \in Nat /\ Init => ServiceInvariant
<1> SUFFICES ASSUME QUEUE_CAPACITY \in Nat, Init PROVE ServiceInvariant
  OBVIOUS
<1>1. Len(backlog) = 0 /\ backlog \in Seq(Requests)
  BY DEF Init
<1> QED
  BY <1>1 DEF Init, ServiceInvariant, TypeOK, BacklogIsQueued, BacklogBounded,
              AnswersFit, Answers, Stages, Refusals, Results

LEMMA ReplyKeeps ==
  ASSUME ServiceInvariant, NEW r \in Requests, NEW value \in Answers,
         Reply(r, value),
         value \in Results => work[r] = value,
         value \in Refusals => work[r] = "none"
  PROVE  ServiceInvariant'
<1>1. TypeOK' /\ BacklogIsQueued' /\ BacklogBounded'
  BY DEF ServiceInvariant, TypeOK, BacklogIsQueued, BacklogBounded, Reply
<1>2. AnswersFit'
  <2>1. /\ answer'[r] = value
        /\ answer[r] = "none"
        /\ \A q \in Requests \ {r} : answer'[q] = answer[q]
        /\ work' = work
    BY DEF Reply, ServiceInvariant, TypeOK
  <2>2. work[r] # "discarded"
    BY <2>1 DEF ServiceInvariant, AnswersFit
  <2> QED
    BY <2>1, <2>2 DEF ServiceInvariant, AnswersFit
<1> QED
  BY <1>1, <1>2 DEF ServiceInvariant

LEMMA AcceptKeeps ==
  ASSUME QUEUE_CAPACITY \in Nat, ServiceInvariant, NEW r \in Requests, Accept(r)
  PROVE  ServiceInvariant'
<1>0. /\ TypeOK
      /\ work'[r] = "queued"
      /\ \A q \in Requests \ {r} : work'[q] = work[q]
      /\ answer' = answer /\ answer[r] = "none" /\ work[r] = "none"
  BY DEF Accept, Fresh, ServiceInvariant, TypeOK
<1>1. /\ Len(backlog) \in Nat
      /\ Len(backlog') = Len(backlog) + 1
      /\ \A i \in 1 .. Len(backlog) : backlog'[i] = backlog[i] /\ backlog[i] \in Requests
      /\ backlog'[Len(backlog) + 1] = r
      /\ backlog' \in Seq(Requests)
  BY <1>0 DEF Accept, TypeOK
<1>2. TypeOK'
  BY <1>0, <1>1 DEF Accept, TypeOK, Stages
<1>3. \A i \in 1 .. Len(backlog) : backlog[i] # r
  BY <1>0 DEF ServiceInvariant, BacklogIsQueued
<1>4. BacklogIsQueued'
  <2>1. ASSUME NEW i \in 1 .. Len(backlog'), NEW j \in 1 .. Len(backlog'),
               backlog'[i] = backlog'[j]
        PROVE  i = j
    <3>1. CASE i \in 1 .. Len(backlog) /\ j \in 1 .. Len(backlog)
      BY <1>1, <2>1, <3>1 DEF ServiceInvariant, BacklogIsQueued
    <3>2. CASE ~(i \in 1 .. Len(backlog) /\ j \in 1 .. Len(backlog))
      BY <1>1, <1>3, <2>1, <3>2
    <3> QED
      BY <3>1, <3>2
  <2>2. ASSUME NEW i \in 1 .. Len(backlog')
        PROVE  work'[backlog'[i]] = "queued"
    <3>1. CASE i \in 1 .. Len(backlog)
      BY <1>0, <1>1, <1>3, <3>1 DEF ServiceInvariant, BacklogIsQueued
    <3>2. CASE i \notin 1 .. Len(backlog)
      BY <1>0, <1>1, <3>2
    <3> QED
      BY <3>1, <3>2
  <2>3. ASSUME NEW q \in Requests, work'[q] = "queued"
        PROVE  \E i \in 1 .. Len(backlog') : backlog'[i] = q
    <3>1. CASE q = r
      BY <1>1, <3>1
    <3>2. CASE q # r
      <4>1. PICK i \in 1 .. Len(backlog) : backlog[i] = q
        BY <1>0, <2>3, <3>2 DEF ServiceInvariant, BacklogIsQueued
      <4>2. i \in 1 .. Len(backlog') /\ backlog'[i] = q
        BY <1>1, <4>1
      <4> QED
        BY <4>2
    <3> QED
      BY <3>1, <3>2
  <2> QED
    BY <2>1, <2>2, <2>3 DEF BacklogIsQueued
<1>5. BacklogBounded'
  BY <1>1 DEF Accept, BacklogBounded
<1>6. AnswersFit'
  BY <1>0 DEF ServiceInvariant, AnswersFit, Refusals, Results
<1> QED
  BY <1>2, <1>4, <1>5, <1>6 DEF ServiceInvariant

(* Only a request that waits can start, so no result is ever overwritten.  *)
LEMMA StartKeeps ==
  ASSUME QUEUE_CAPACITY \in Nat, ServiceInvariant, Start
  PROVE  ServiceInvariant'
<1> DEFINE first == Head(backlog)
<1>0. /\ TypeOK /\ backlog # <<>>
      /\ Len(backlog) \in Nat /\ Len(backlog) >= 1
      /\ first = backlog[1] /\ first \in Requests
      /\ Len(backlog') = Len(backlog) - 1
      /\ \A i \in 1 .. Len(backlog') : backlog'[i] = backlog[i + 1]
      /\ backlog' \in Seq(Requests)
  BY DEF Start, ServiceInvariant, TypeOK
<1>1. /\ work'[first] = "executing"
      /\ \A q \in Requests \ {first} : work'[q] = work[q]
      /\ work[first] = "queued"
      /\ answer' = answer
  BY <1>0 DEF Start, ServiceInvariant, TypeOK, BacklogIsQueued
<1>2. TypeOK'
  BY <1>0 DEF Start, TypeOK, Stages
<1>3. \A i \in 1 .. Len(backlog') : /\ i + 1 \in 1 .. Len(backlog)
                                    /\ backlog'[i] # first
                                    /\ backlog'[i] \in Requests
  BY <1>0 DEF ServiceInvariant, TypeOK, BacklogIsQueued
<1>4. BacklogIsQueued'
  <2>1. \A i, j \in 1 .. Len(backlog') : backlog'[i] = backlog'[j] => i = j
    BY <1>0, <1>3 DEF ServiceInvariant, BacklogIsQueued
  <2>2. \A i \in 1 .. Len(backlog') : work'[backlog'[i]] = "queued"
    BY <1>0, <1>1, <1>3 DEF ServiceInvariant, BacklogIsQueued
  <2>3. ASSUME NEW q \in Requests, work'[q] = "queued"
        PROVE  \E i \in 1 .. Len(backlog') : backlog'[i] = q
    <3>1. q # first /\ work[q] = "queued"
      BY <1>1, <2>3
    <3>2. PICK i \in 1 .. Len(backlog) : backlog[i] = q
      BY <3>1 DEF ServiceInvariant, BacklogIsQueued
    <3>3. i # 1
      BY <1>0, <3>1, <3>2
    <3>4. i - 1 \in 1 .. Len(backlog') /\ backlog'[i - 1] = q
      BY <1>0, <3>2, <3>3
    <3> QED
      BY <3>4
  <2> QED
    BY <2>1, <2>2, <2>3 DEF BacklogIsQueued
<1>5. BacklogBounded'
  BY <1>0 DEF ServiceInvariant, BacklogBounded
<1>6. AnswersFit'
  BY <1>1 DEF ServiceInvariant, AnswersFit, Refusals, Results
<1> QED
  BY <1>2, <1>4, <1>5, <1>6 DEF ServiceInvariant

LEMMA FinishKeeps ==
  ASSUME ServiceInvariant, NEW r \in Requests, NEW result \in Results,
         Finish(r, result)
  PROVE  ServiceInvariant'
<1>1. /\ TypeOK
      /\ work[r] = "executing"
      /\ work'[r] = IF answer[r] = "none" THEN result ELSE "discarded"
      /\ \A q \in Requests \ {r} : work'[q] = work[q]
      /\ answer' = answer /\ backlog' = backlog
  BY DEF Finish, ServiceInvariant, TypeOK
<1>2. TypeOK'
  BY <1>1 DEF Finish, TypeOK, Stages
<1>3. BacklogIsQueued'
  <2>1. \A i \in 1 .. Len(backlog) : backlog[i] \in Requests /\ backlog[i] # r
    BY <1>1 DEF ServiceInvariant, TypeOK, BacklogIsQueued
  <2>2. work'[r] # "queued"
    BY <1>1 DEF Results
  <2> QED
    BY <1>1, <2>1, <2>2 DEF ServiceInvariant, BacklogIsQueued
<1>4. AnswersFit'
  <2>1. /\ answer[r] \notin Results
        /\ answer[r] \notin Refusals
        /\ answer[r] \in Answers
    BY <1>1 DEF ServiceInvariant, AnswersFit, TypeOK, Results, Refusals
  <2>2. work'[r] = "discarded" => answer[r] \in {"timeout", "abandoned"}
    BY <1>1, <2>1 DEF Answers, Results
  <2> QED
    BY <1>1, <2>1, <2>2 DEF ServiceInvariant, AnswersFit
<1> QED
  BY <1>1, <1>2, <1>3, <1>4 DEF ServiceInvariant, BacklogBounded

LEMMA StepServiceInvariant ==
  QUEUE_CAPACITY \in Nat /\ ServiceInvariant /\ [Next]_serviceVars => ServiceInvariant'
<1> SUFFICES ASSUME QUEUE_CAPACITY \in Nat, ServiceInvariant, [Next]_serviceVars
             PROVE  ServiceInvariant'
  OBVIOUS
<1>1. CASE Start
  BY <1>1, StartKeeps
<1>2. ASSUME NEW r \in Requests,
             RejectInvalid(r) \/ RejectFull(r) \/ TimeOut(r) \/ Abandon(r) \/ Answer(r)
      PROVE  ServiceInvariant'
  <2>1. CASE RejectInvalid(r) \/ RejectFull(r)
    BY <2>1, ReplyKeeps DEF RejectInvalid, RejectFull, Fresh, Answers, Refusals, Results
  <2>2. CASE TimeOut(r) \/ Abandon(r)
    BY <2>2, ReplyKeeps DEF TimeOut, Abandon, Answers, Refusals, Results
  <2>3. CASE Answer(r)
    BY <2>3, ReplyKeeps DEF Answer, Answers, Refusals, Results
  <2> QED
    BY <1>2, <2>1, <2>2, <2>3
<1>3. ASSUME NEW r \in Requests, Accept(r) \/ \E result \in Results : Finish(r, result)
      PROVE  ServiceInvariant'
  BY <1>3, AcceptKeeps, FinishKeeps
<1>4. CASE UNCHANGED serviceVars
  BY <1>4 DEF serviceVars, ServiceInvariant, TypeOK, BacklogIsQueued, BacklogBounded,
              AnswersFit
<1> QED
  BY <1>1, <1>2, <1>3, <1>4 DEF Next

(* What a client is told fits what happened to its request: a result is    *)
(* that of its own execution, a refusal means that nothing was executed,   *)
(* a result is lost only after a timeout or a disconnect; and no more than *)
(* one job beyond the queue's capacity waits, each of them once.           *)
THEOREM PromisesHold ==
  ASSUME QUEUE_CAPACITY \in Nat
  PROVE  Spec => [](BacklogIsQueued /\ BacklogBounded /\ AnswersFit)
<1>1. Init => ServiceInvariant
  BY InitServiceInvariant
<1>2. ServiceInvariant /\ [Next]_serviceVars => ServiceInvariant'
  BY StepServiceInvariant
<1>3. ServiceInvariant => BacklogIsQueued /\ BacklogBounded /\ AnswersFit
  BY DEF ServiceInvariant
<1> QED
  BY <1>1, <1>2, <1>3, PTL DEF Spec

AnswersKept == \A r \in Requests : answer[r] # "none" => answer'[r] = answer[r]

LEMMA StepKeepsAnswers ==
  ServiceInvariant /\ [Next]_serviceVars => [AnswersKept]_serviceVars
<1> SUFFICES ASSUME ServiceInvariant, Next PROVE AnswersKept
  BY DEF serviceVars
<1>1. ASSUME NEW r \in Requests, NEW value, Reply(r, value)
      PROVE  AnswersKept
  BY <1>1 DEF Reply, AnswersKept, ServiceInvariant, TypeOK
<1>2. ASSUME NEW r \in Requests, Accept(r) \/ \E result \in Results : Finish(r, result)
      PROVE  AnswersKept
  BY <1>2 DEF Accept, Finish, AnswersKept
<1>3. CASE Start
  BY <1>3 DEF Start, AnswersKept
<1> QED
  BY <1>1, <1>2, <1>3 DEF Next, RejectInvalid, RejectFull, Answer, TimeOut, Abandon

(* A request gets one answer: whatever its work and its timer still do,    *)
(* none replaces it.                                                       *)
THEOREM OneAnswerEach ==
  ASSUME QUEUE_CAPACITY \in Nat
  PROVE  Spec => [][AnswersKept]_serviceVars
<1>1. Init => ServiceInvariant
  BY InitServiceInvariant
<1>2. ServiceInvariant /\ [Next]_serviceVars => ServiceInvariant'
  BY StepServiceInvariant
<1> QED
  BY <1>1, <1>2, StepKeepsAnswers, PTL DEF Spec
=============================================================================
