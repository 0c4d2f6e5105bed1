--------------------------- MODULE FrontEndsProofs ---------------------------
(***************************************************************************)
(* What the front ends and the core promise for any clients, ids and       *)
(* options: an answer carries the id of its own request whatever the core  *)
(* does, and a failure of a call has one of two causes.                    *)
(***************************************************************************)
EXTENDS FrontEnds, TLAPS

(* The variables of the gateway and what comes back are functions of the   *)
(* requests.                                                               *)
Functional ==
  /\ protocol \in {"infer", "llama-chat"}
  /\ request = [r \in Requests |-> request[r]]
  /\ handler = [r \in Requests |-> handler[r]]
  /\ job_id = [r \in Requests |-> job_id[r]]
  /\ reply = [r \in Requests |-> reply[r]]
  /\ conn = [r \in Requests |-> conn[r]]
  /\ response = [r \in Requests |-> response[r]]

(* The id of a job is the id its request was given, also while a handler   *)
(* waits; who has not been heard of has no job and no answer.              *)
JobsKeepTheirId ==
  \A r \in Requests :
    /\ handler[r] = "none" => job_id[r] = NoId /\ reply[r] = NoReply
    /\ handler[r] = "waiting" =>
         job_id[r] = RequestId(r, request[r]) /\ reply[r] = NoReply
    /\ job_id[r] # NoId => job_id[r] = RequestId(r, request[r])

(* In llama-chat mode no thread of the C++ core exists, and an answer was  *)
(* built by a worker.                                                      *)
BuiltByWorkers ==
  protocol = "llama-chat" =>
    \A r \in Requests :
      /\ conn[r] = "none"
      /\ response[r].status = "ok" =>
           job_id[r] # NoId /\ response[r].id = job_id[r]

Correlated == Functional /\ JobsKeepTheirId /\ BuiltByWorkers /\ RepliesCorrelated

LEMMA InitCorrelated == Init => Correlated
BY DEF Init, Core!Init, Core!NoResponse, Correlated, Functional, JobsKeepTheirId,
       BuiltByWorkers, RepliesCorrelated, NoReply, Outcomes, Http, NoSubmission

LEMMA StepCorrelated ==
  ASSUME Correlated, [Next]_vars
  PROVE  Correlated'
<1> USE DEF Correlated
<1>1. ASSUME NEW r \in Requests, RejectUnknownModel(r)
      PROVE  Correlated'
  <2>1. PICK submission \in Submissions : Arrive(r, submission) /\ Respond(r, "invalid_request", NoId)
    BY <1>1 DEF RejectUnknownModel
  <2>2. /\ Functional'
        /\ \A other \in Requests \ {r} :
             /\ request'[other] = request[other]
             /\ handler'[other] = handler[other]
             /\ job_id'[other] = job_id[other]
             /\ reply'[other] = reply[other]
    BY <2>1 DEF Arrive, Respond, Functional, coreVars
  <2>3. /\ handler[r] = "none" /\ handler'[r] = "done"
        /\ request'[r] = submission /\ UNCHANGED <<protocol, job_id, coreVars>>
        /\ reply'[r] = [outcome |-> "invalid_request", id |-> NoId]
    BY <2>1 DEF Arrive, Respond, Functional, coreVars
  <2>4. JobsKeepTheirId'
    BY <2>2, <2>3 DEF JobsKeepTheirId, RequestId
  <2>5. BuiltByWorkers'
    BY <2>2, <2>3 DEF BuiltByWorkers, JobsKeepTheirId, coreVars
  <2>6. RepliesCorrelated'
    BY <2>2, <2>3 DEF RepliesCorrelated, JobsKeepTheirId, BuiltByWorkers,
       coreVars, Http, RequestId, EchoedId, NoReply, Outcomes
  <2> QED
    BY <2>2, <2>4, <2>5, <2>6
<1>2. ASSUME NEW r \in Requests, RejectQueueFull(r)
      PROVE  Correlated'
  <2>1. PICK submission \in Submissions : Arrive(r, submission) /\
          Respond(r, "queue_full", EchoedId(submission, RequestId(r, submission)))
    BY <1>2 DEF RejectQueueFull
  <2>2. /\ Functional'
        /\ \A other \in Requests \ {r} :
             /\ request'[other] = request[other]
             /\ handler'[other] = handler[other]
             /\ job_id'[other] = job_id[other]
             /\ reply'[other] = reply[other]
    BY <2>1 DEF Arrive, Respond, Functional, coreVars
  <2>3. /\ handler[r] = "none" /\ handler'[r] = "done"
        /\ request'[r] = submission /\ UNCHANGED <<protocol, job_id, coreVars>>
        /\ reply'[r] = [outcome |-> "queue_full",
                        id |-> EchoedId(submission, RequestId(r, submission))]
    BY <2>1 DEF Arrive, Respond, Functional, coreVars
  <2>4. JobsKeepTheirId'
    BY <2>2, <2>3 DEF JobsKeepTheirId, RequestId
  <2>5. BuiltByWorkers'
    BY <2>2, <2>3 DEF BuiltByWorkers, JobsKeepTheirId, coreVars
  <2>6. RepliesCorrelated'
    BY <2>2, <2>3 DEF RepliesCorrelated, JobsKeepTheirId, BuiltByWorkers,
       coreVars, Http, RequestId, EchoedId, NoReply, Outcomes
  <2> QED
    BY <2>2, <2>4, <2>5, <2>6
<1>3. ASSUME NEW r \in Requests, Enqueue(r)
      PROVE  Correlated'
  <2>1. PICK submission \in Submissions :
             /\ Arrive(r, submission)
             /\ handler' = [handler EXCEPT ![r] = "waiting"]
             /\ job_id' = [job_id EXCEPT ![r] = RequestId(r, submission)]
             /\ UNCHANGED <<protocol, reply, coreVars>>
    BY <1>3 DEF Enqueue
  <2>2. /\ Functional'
        /\ \A other \in Requests \ {r} :
             /\ request'[other] = request[other]
             /\ handler'[other] = handler[other]
             /\ job_id'[other] = job_id[other]
             /\ reply'[other] = reply[other]
    BY <2>1 DEF Arrive, Functional, coreVars
  <2>3. /\ handler[r] = "none" /\ handler'[r] = "waiting"
        /\ request'[r] = submission /\ UNCHANGED <<protocol, reply, coreVars>>
        /\ job_id'[r] = RequestId(r, submission)
    BY <2>1 DEF Arrive, Functional, coreVars
  <2>4. JobsKeepTheirId'
    BY <2>2, <2>3 DEF JobsKeepTheirId, RequestId
  <2>5. BuiltByWorkers'
    BY <2>2, <2>3 DEF BuiltByWorkers, JobsKeepTheirId, coreVars
  <2>6. RepliesCorrelated'
    BY <2>2, <2>3 DEF RepliesCorrelated, JobsKeepTheirId, BuiltByWorkers,
       coreVars, Http, RequestId, EchoedId, NoReply, Outcomes
  <2> QED
    BY <2>2, <2>4, <2>5, <2>6
<1>4. ASSUME NEW r \in Requests, RespondOk(r)
      PROVE  Correlated'
  <2>2. /\ Functional'
        /\ \A other \in Requests \ {r} :
             /\ request'[other] = request[other]
             /\ handler'[other] = handler[other]
             /\ job_id'[other] = job_id[other]
             /\ reply'[other] = reply[other]
    BY <1>4 DEF RespondOk, Respond, Functional, coreVars
  <2>3. /\ handler[r] = "waiting" /\ handler'[r] = "done"
        /\ response[r].status = "ok"
        /\ UNCHANGED <<protocol, request, job_id, coreVars>>
        /\ reply'[r] = [outcome |-> "ok",
             id |-> IF request[r].front = "http" THEN job_id[r]
                                                 ELSE response[r].id]
    BY <1>4 DEF RespondOk, Respond, Functional, coreVars
  <2>4. JobsKeepTheirId'
    BY <2>2, <2>3 DEF JobsKeepTheirId, RequestId
  <2>5. BuiltByWorkers'
    BY <2>2, <2>3 DEF BuiltByWorkers, JobsKeepTheirId, coreVars
  <2>6. RepliesCorrelated'
    BY <2>2, <2>3 DEF RepliesCorrelated, JobsKeepTheirId, BuiltByWorkers,
       coreVars, Http, RequestId, EchoedId, NoReply, Outcomes
  <2> QED
    BY <2>2, <2>4, <2>5, <2>6
<1>5. ASSUME NEW r \in Requests, RespondError(r) \/ TimeOut(r)
      PROVE  Correlated'
  <2>2. /\ Functional'
        /\ \A other \in Requests \ {r} :
             /\ request'[other] = request[other]
             /\ handler'[other] = handler[other]
             /\ job_id'[other] = job_id[other]
             /\ reply'[other] = reply[other]
    BY <1>5 DEF RespondError, TimeOut, Respond, Functional, coreVars
  <2>3. /\ handler[r] = "waiting" /\ handler'[r] = "done"
        /\ UNCHANGED <<protocol, request, job_id, coreVars>>
        /\ reply'[r].outcome \in {"error", "timeout"}
        /\ reply'[r].id = EchoedId(request[r], job_id[r])
    BY <1>5 DEF RespondError, TimeOut, Respond, Functional, coreVars
  <2>4. JobsKeepTheirId'
    BY <2>2, <2>3 DEF JobsKeepTheirId, RequestId
  <2>5. BuiltByWorkers'
    BY <2>2, <2>3 DEF BuiltByWorkers, JobsKeepTheirId, coreVars
  <2>6. RepliesCorrelated'
    BY <2>2, <2>3 DEF RepliesCorrelated, JobsKeepTheirId, BuiltByWorkers,
       coreVars, Http, RequestId, EchoedId, NoReply, Outcomes
  <2> QED
    BY <2>2, <2>4, <2>5, <2>6
<1>6. ASSUME NEW r \in Requests, CallInferProtocol(r)
      PROVE  Correlated'
  BY <1>6 DEF CallInferProtocol, Core!Connect, Functional, JobsKeepTheirId,
     BuiltByWorkers, RepliesCorrelated, handlerVars, Http, RequestId
<1>7. ASSUME NEW r \in Requests, CallLlamaChatProtocol(r)
      PROVE  Correlated'
  BY <1>7 DEF CallLlamaChatProtocol, Dispatched, Core!Failure, Core!Ok, Functional,
     JobsKeepTheirId, BuiltByWorkers, RepliesCorrelated, handlerVars, Http, RequestId
<1>8. ASSUME NEW r \in Requests, CoreThread(r)
      PROVE  Correlated'
  BY <1>8 DEF CoreThread, Core!ThreadStep, Core!Read, Core!Answer, Core!Terminate,
     Functional, JobsKeepTheirId, BuiltByWorkers, RepliesCorrelated, handlerVars,
     Http, RequestId
<1>9. CASE CoreRestart
  BY <1>9 DEF CoreRestart, Core!Restart, Functional, JobsKeepTheirId,
     BuiltByWorkers, RepliesCorrelated, handlerVars, Http, RequestId
<1>10. CASE UNCHANGED vars
  BY <1>10 DEF vars, handlerVars, coreVars, Functional, JobsKeepTheirId,
     BuiltByWorkers, RepliesCorrelated, Http, RequestId
<1> QED
  BY <1>1, <1>2, <1>3, <1>4, <1>5, <1>6, <1>7, <1>8, <1>9, <1>10
     DEF Next, HandlerStep, WorkerStep, Quiescent

(* For any clients and ids, an HTTP answer carries the id of its request,  *)
(* and so does a gRPC answer that the gateway has built.                   *)
THEOREM AnswersCarryTheirId == Spec => []RepliesCorrelated
<1>1. Correlated => RepliesCorrelated
  BY DEF Correlated
<1> QED
  BY <1>1, InitCorrelated, StepCorrelated, PTL DEF Spec

-----------------------------------------------------------------------------
(* The calls to the C++ core.  A call is made for a job and says what the  *)
(* request said; of the budget in it a thread reads leading digits, so     *)
(* never a larger one, and of a float what may be left of it; who is still *)
(* connected has no response yet, and before reading nothing is read.      *)

FrontTypes ==
  /\ protocol \in {"infer", "llama-chat"}
  /\ request \in [Requests -> Submissions \cup {NoSubmission}]
  /\ handler \in [Requests -> {"none", "waiting", "done"}]
  /\ job_id \in [Requests -> OutgoingIds \cup {NoId}]
  /\ reply \in [Requests -> [outcome : Outcomes \cup {"none"},
                             id : OutgoingIds \cup {NoId}]]

CoreTypes ==
  /\ process \in {"up", "down"}
  /\ clock \in 0 .. MAX_CLOCK
  /\ conn \in [Requests -> {"none", "open", "parsing", "closed"}]
  /\ sent = [r \in Requests |-> sent[r]]
  /\ received = [r \in Requests |-> received[r]]
  /\ response = [r \in Requests |-> response[r]]

ResponseTypes ==
  \A r \in Requests :
    /\ response[r].status \in {"none", "ok", "error"}
    /\ response[r].status = "ok" => response[r].id \in OutgoingIds
    /\ response[r].status = "ok" /\ protocol = "infer" =>
         response[r].tokens \in 1 .. INT_MAX

CallsAreOfJobs ==
  \A r \in Requests :
    /\ handler[r] = "none" => job_id[r] = NoId
    /\ Called(r) => /\ protocol = "infer"
                    /\ job_id[r] # NoId
                    /\ sent[r] = Body(r)
    /\ \/ received[r].max_tokens = Absent
       \/ /\ Called(r)
          /\ received[r].max_tokens \in Nat
          /\ request[r].max_tokens \in Nat
          /\ received[r].max_tokens <= request[r].max_tokens
    /\ received[r].temperature \in Core!FloatCuts(request[r].temperature)
    /\ received[r].top_p \in Core!FloatCuts(request[r].top_p)
    /\ conn[r] \in {"none", "open"} => received[r] = Core!NoBody
    /\ conn[r] \in {"open", "parsing"} => response[r].status = "none"

(* A thread has read a number that makes the parser throw.  It never reads *)
(* again, so this stays true.                                              *)
Thrown == \E r \in Requests : Called(r) /\ Core!Throws(received[r])

(* The process is only ended by such a thread, and without one only those  *)
(* whose body was cut off fail.                                            *)
EndedByThrow ==
  /\ process = "down" => Thrown
  /\ \A r \in Requests :
       Called(r) /\ response[r].status = "error" /\ ~CutOff(r) => Thrown

CallInvariant ==
  FrontTypes /\ CoreTypes /\ ResponseTypes /\ CallsAreOfJobs /\ EndedByThrow

(* Reading fewer digits gives a smaller number.                            *)
LEMMA DigitsBounded ==
  ASSUME NEW number \in Nat, NEW digits \in Core!LeadingDigits(number)
  PROVE  digits \in Nat /\ digits <= number
<1>1. Core!PowersOfTen \subseteq Nat \ {0}
  BY DEF Core!PowersOfTen
<1>2. ASSUME NEW power \in Nat \ {0}
      PROVE  number \div power \in Nat /\ number \div power <= number
  OBVIOUS
<1>3. number # Absent
  BY FrontEndsAssumption
<1>4. digits = number \/ \E power \in Core!PowersOfTen : digits = number \div power
  BY <1>3 DEF Core!LeadingDigits
<1> QED
  BY <1>1, <1>2, <1>4

LEMMA SubmittedOptions ==
  ASSUME FrontTypes, NEW r \in Requests
  PROVE  /\ request[r].max_tokens \in Nat \cup {Absent}
         /\ request[r].temperature \in Floats \cup {Absent}
         /\ request[r].top_p \in Floats \cup {Absent}
BY FrontEndsAssumption DEF FrontTypes, NoSubmission

(* What is left of a float throws only if the float was too small, or had  *)
(* a minus and was cut off.                                                *)
LEMMA CutFloats ==
  ASSUME NEW text \in Floats \cup {Absent}, NEW cut \in Core!FloatCuts(text),
         cut \in Core!NoFloat
  PROVE  text = "tiny" \/ (text = "negative" /\ cut # text)
BY FrontEndsAssumption DEF Floats, Core!FloatCuts, Core!CutShort, Core!NoFloat

LEMMA NothingIsCut ==
  ASSUME NEW text
  PROVE  Absent \in Core!FloatCuts(text) /\ text \in Core!FloatCuts(text)
BY DEF Core!FloatCuts

LEMMA NoBodyParses == ~Core!Throws(Core!NoBody)
BY FrontEndsAssumption DEF Core!Throws, Core!NoBody, Core!NoFloat

(* A thread that throws belongs to a call that endangers the others.       *)
LEMMA ThrownEndangers ==
  ASSUME FrontTypes, CallsAreOfJobs, NEW r \in Requests, Called(r),
         Core!Throws(received[r])
  PROVE  Endangers(r)
<1>0. sent[r] = Body(r)
  BY DEF CallsAreOfJobs
<1>1. CASE received[r].max_tokens # Absent /\ received[r].max_tokens > INT_MAX
  <2>1. /\ received[r].max_tokens \in Nat /\ request[r].max_tokens \in Nat
        /\ received[r].max_tokens <= request[r].max_tokens
    BY <1>1 DEF CallsAreOfJobs
  <2>2. request[r].max_tokens > INT_MAX /\ request[r].max_tokens # Absent
    BY <1>1, <2>1, FrontEndsAssumption
  <2> QED
    BY <2>2 DEF Endangers
<1>2. CASE received[r].temperature \in Core!NoFloat
  <2>1. received[r].temperature \in Core!FloatCuts(request[r].temperature)
    BY DEF CallsAreOfJobs
  <2>2. \/ request[r].temperature = "tiny"
        \/ /\ request[r].temperature = "negative"
           /\ received[r].temperature # request[r].temperature
    BY <1>2, <2>1, SubmittedOptions, CutFloats
  <2>3. sent[r].temperature = request[r].temperature
    BY <1>0 DEF Body
  <2> QED
    BY <2>2, <2>3 DEF Endangers, CutOff
<1>3. CASE received[r].top_p \in Core!NoFloat
  <2>1. received[r].top_p \in Core!FloatCuts(request[r].top_p)
    BY DEF CallsAreOfJobs
  <2>2. \/ request[r].top_p = "tiny"
        \/ /\ request[r].top_p = "negative"
           /\ received[r].top_p # request[r].top_p
    BY <1>3, <2>1, SubmittedOptions, CutFloats
  <2>3. sent[r].top_p = request[r].top_p
    BY <1>0 DEF Body
  <2> QED
    BY <2>2, <2>3 DEF Endangers, CutOff
<1> QED
  BY <1>1, <1>2, <1>3 DEF Core!Throws

LEMMA IdsAreOutgoing ==
  ASSUME NEW r \in Requests, NEW submission \in Submissions
  PROVE  RequestId(r, submission) \in OutgoingIds
BY FrontEndsAssumption DEF RequestId, OutgoingIds, NewId

(* Whatever a thread has of a body, its numbers are cut from those sent.   *)
LEMMA PrefixesAreCut ==
  ASSUME NEW r \in Requests, NEW body \in Core!Prefixes(Body(r)),
         request[r].max_tokens \in Nat \cup {Absent}
  PROVE  /\ \/ body.max_tokens = Absent
            \/ body.max_tokens \in Core!LeadingDigits(request[r].max_tokens)
         /\ body.temperature \in Core!FloatCuts(request[r].temperature)
         /\ body.top_p \in Core!FloatCuts(request[r].top_p)
<1> DEFINE texts == [Core!NoBody EXCEPT !.model = r, !.input = r]
           upTo_p == [Body(r) EXCEPT !.rest = Absent]
<1>1. request[r].max_tokens # Absent =>
        request[r].max_tokens \in Core!LeadingDigits(request[r].max_tokens)
  BY DEF Core!LeadingDigits
<1>2. CASE body \in {Core!NoBody, [Core!NoBody EXCEPT !.model = r], Body(r)}
  BY <1>1, <1>2, NothingIsCut DEF Core!NoBody, Body
<1>3. ASSUME NEW number \in {Absent} \cup Core!LeadingDigits(request[r].max_tokens),
             body = [texts EXCEPT !.max_tokens = number]
      PROVE  /\ body.max_tokens = number
             /\ body.temperature = Absent /\ body.top_p = Absent
  BY <1>3 DEF Core!NoBody
<1>4. ASSUME NEW text \in Core!FloatCuts(request[r].temperature),
             body = [upTo_p EXCEPT !.temperature = text, !.top_p = Absent]
      PROVE  /\ body.max_tokens = request[r].max_tokens
             /\ body.temperature = text /\ body.top_p = Absent
  BY <1>4 DEF Body
<1>5. ASSUME NEW text \in Core!FloatCuts(request[r].top_p),
             body = [upTo_p EXCEPT !.top_p = text]
      PROVE  /\ body.max_tokens = request[r].max_tokens
             /\ body.temperature = request[r].temperature /\ body.top_p = text
  BY <1>5 DEF Body
<1>6. /\ Body(r).model = r /\ Body(r).input = r
      /\ Body(r).max_tokens = request[r].max_tokens
      /\ Body(r).temperature = request[r].temperature
      /\ Body(r).top_p = request[r].top_p
  BY DEF Body
<1>7. \/ body \in {Core!NoBody, [Core!NoBody EXCEPT !.model = r], Body(r)}
      \/ \E number \in {Absent} \cup Core!LeadingDigits(request[r].max_tokens) :
           body = [texts EXCEPT !.max_tokens = number]
      \/ \E text \in Core!FloatCuts(request[r].temperature) :
           body = [upTo_p EXCEPT !.temperature = text, !.top_p = Absent]
      \/ \E text \in Core!FloatCuts(request[r].top_p) :
           body = [upTo_p EXCEPT !.top_p = text]
  BY <1>6 DEF Core!Prefixes
<1>8. CASE \E number \in {Absent} \cup Core!LeadingDigits(request[r].max_tokens) :
             body = [texts EXCEPT !.max_tokens = number]
  BY <1>3, <1>8, NothingIsCut
<1>9. CASE \E text \in Core!FloatCuts(request[r].temperature) :
             body = [upTo_p EXCEPT !.temperature = text, !.top_p = Absent]
  BY <1>1, <1>4, <1>9, NothingIsCut
<1>10. CASE \E text \in Core!FloatCuts(request[r].top_p) :
              body = [upTo_p EXCEPT !.top_p = text]
  BY <1>1, <1>5, <1>10, NothingIsCut
<1> QED
  BY <1>2, <1>7, <1>8, <1>9, <1>10

LEMMA InitCallInvariant == Init => CallInvariant
<1> SUFFICES ASSUME Init PROVE CallInvariant
  OBVIOUS
<1>1. FrontTypes
  BY DEF Init, FrontTypes, NoReply
<1>2. CoreTypes
  BY FrontEndsAssumption DEF Init, Core!Init, CoreTypes
<1>3. ResponseTypes /\ EndedByThrow
  BY DEF Init, Core!Init, Core!NoResponse, ResponseTypes, EndedByThrow, Called
<1>4. CallsAreOfJobs
  BY NothingIsCut
     DEF Init, Core!Init, Core!NoResponse, Core!NoBody, CallsAreOfJobs, Called
<1> QED
  BY <1>1, <1>2, <1>3, <1>4 DEF CallInvariant

(* A handler does not touch the calls, and changes the request of nobody   *)
(* who has one.                                                            *)
LEMMA HandlerCalls ==
  ASSUME CallInvariant, NEW r \in Requests, HandlerStep(r)
  PROVE  CallInvariant'
<1> USE DEF CallInvariant
<1>1. FrontTypes'
  <2>1. CASE RejectUnknownModel(r)
    BY <2>1 DEF RejectUnknownModel, Arrive, Respond, FrontTypes, Outcomes
  <2>2. ASSUME NEW submission \in Submissions, Arrive(r, submission),
               Respond(r, "queue_full", EchoedId(submission, RequestId(r, submission)))
        PROVE  FrontTypes'
    <3>1. EchoedId(submission, RequestId(r, submission)) \in OutgoingIds \cup {NoId}
      BY IdsAreOutgoing DEF EchoedId
    <3> QED
      BY <2>2, <3>1 DEF Arrive, Respond, FrontTypes, Outcomes
  <2>3. CASE Enqueue(r)
    BY <2>3, IdsAreOutgoing DEF Enqueue, Arrive, FrontTypes
  <2>4. ASSUME NEW id \in OutgoingIds \cup {NoId}, NEW outcome \in Outcomes,
               Respond(r, outcome, id), UNCHANGED request
        PROVE  FrontTypes'
    BY <2>4 DEF Respond, FrontTypes
  <2>5. CASE RespondOk(r)
    <3>1. response[r].id \in OutgoingIds /\ job_id[r] \in OutgoingIds \cup {NoId}
      BY <2>5 DEF RespondOk, ResponseTypes, FrontTypes
    <3> QED
      BY <2>4, <2>5, <3>1 DEF RespondOk, Outcomes
  <2>6. CASE RespondError(r) \/ TimeOut(r)
    <3>1. EchoedId(request[r], job_id[r]) \in OutgoingIds \cup {NoId}
      BY DEF EchoedId, FrontTypes
    <3> QED
      BY <2>4, <2>6, <3>1 DEF RespondError, TimeOut, Outcomes
  <2> QED
    BY <2>1, <2>2, <2>3, <2>5, <2>6 DEF HandlerStep, RejectQueueFull
<1>2. /\ UNCHANGED <<protocol, process, clock, conn, sent, received, response>>
      /\ \A other \in Requests \ {r} :
           /\ handler'[other] = handler[other]
           /\ request'[other] = request[other]
           /\ job_id'[other] = job_id[other]
      /\ handler[r] # "none" => request'[r] = request[r] /\ job_id'[r] = job_id[r]
      /\ handler'[r] # "none"
  BY DEF HandlerStep, RejectUnknownModel, RejectQueueFull, Enqueue, RespondOk,
         RespondError, TimeOut, Arrive, Respond, coreVars, FrontTypes
<1>3. CoreTypes' /\ ResponseTypes'
  BY <1>2 DEF CoreTypes, ResponseTypes, OutgoingIds, NewId
<1>4. CallsAreOfJobs'
  <2>1. ASSUME NEW other \in Requests, other # r \/ handler[r] # "none"
        PROVE  /\ handler'[other] = "none" => handler[other] = "none"
               /\ job_id'[other] = job_id[other]
               /\ request'[other] = request[other]
    BY <1>2, <2>1
  <2>2. CASE handler[r] = "none"
    <3>1. conn[r] = "none" /\ received[r] = Core!NoBody
      BY <2>2 DEF CallsAreOfJobs, Called
    <3>2. /\ received[r].max_tokens = Absent
          /\ received[r].temperature = Absent /\ received[r].top_p = Absent
      BY <3>1 DEF Core!NoBody
    <3> QED
      BY <1>2, <2>1, <3>1, <3>2, NothingIsCut DEF CallsAreOfJobs, Called, Body
  <2>3. CASE handler[r] # "none"
    BY <1>2, <2>1, <2>3 DEF CallsAreOfJobs, Called, Body
  <2> QED
    BY <2>2, <2>3
<1>5. EndedByThrow'
  BY <1>2 DEF EndedByThrow, Thrown, Called, CutOff
<1> QED
  BY <1>1, <1>3, <1>4, <1>5

LEMMA WorkerCalls ==
  ASSUME CallInvariant, NEW r \in Requests, WorkerStep(r)
  PROVE  CallInvariant'
<1> USE DEF CallInvariant
<1>1. CASE CallInferProtocol(r)
  <2>1. /\ protocol = "infer" /\ job_id[r] # NoId
        /\ conn[r] = "none" /\ response[r].status = "none"
        /\ UNCHANGED handlerVars /\ UNCHANGED <<process, clock, received>>
        /\ sent' = [sent EXCEPT ![r] = Body(r)]
        /\ conn' = [conn EXCEPT ![r] = IF process = "up" THEN "open" ELSE "closed"]
        /\ response' = IF process = "up" THEN response
                       ELSE [response EXCEPT ![r] = Core!Failure]
    BY <1>1 DEF CallInferProtocol, Dispatched, Core!Connect
  <2>2. FrontTypes' /\ CoreTypes'
    BY <2>1 DEF handlerVars, FrontTypes, CoreTypes, OutgoingIds, NewId
  <2>3. ResponseTypes'
    BY <2>1 DEF handlerVars, CoreTypes, ResponseTypes, Core!Failure, OutgoingIds, NewId
  <2>4. CallsAreOfJobs'
    BY <2>1 DEF handlerVars, CoreTypes, CallsAreOfJobs, Called, Core!Failure, Body
  <2>5. EndedByThrow'
    <3>1. /\ \A d \in Requests \ {r} : /\ conn'[d] = conn[d] /\ sent'[d] = sent[d]
                                       /\ response'[d] = response[d]
          /\ UNCHANGED received
      BY <2>1 DEF CoreTypes
    <3>2. Thrown => Thrown'
      BY <2>1, <3>1 DEF Thrown, Called
    <3>3. process = "up" => response'[r].status = "none"
      BY <2>1
    <3>4. process = "down" => Thrown
      BY DEF EndedByThrow
    <3> QED
      BY <2>1, <3>1, <3>2, <3>3, <3>4 DEF EndedByThrow, CoreTypes, Called, CutOff
  <2> QED
    BY <2>2, <2>3, <2>4, <2>5
<1>2. CASE CallLlamaChatProtocol(r)
  <2>1. PICK answer \in {Core!Failure,
                         Core!Ok(job_id[r], r, r, request[r].max_tokens)} :
          response' = [response EXCEPT ![r] = answer]
    BY <1>2 DEF CallLlamaChatProtocol
  <2>2. /\ protocol = "llama-chat" /\ job_id[r] # NoId
        /\ UNCHANGED <<handlerVars, process, clock, conn, sent, received>>
        /\ conn[r] = "none"
    BY <1>2 DEF CallLlamaChatProtocol, Dispatched
  <2>3. FrontTypes' /\ CoreTypes'
    BY <2>1, <2>2 DEF handlerVars, FrontTypes, CoreTypes, OutgoingIds, NewId
  <2>4. ResponseTypes'
    <3>1. /\ answer.status \in {"ok", "error"}
          /\ answer.status = "ok" => answer.id \in OutgoingIds
      BY <2>1, <2>2 DEF FrontTypes, Core!Failure, Core!Ok
    <3>2. /\ response'[r] = answer
          /\ \A other \in Requests \ {r} : response'[other] = response[other]
      BY <2>1 DEF CoreTypes
    <3>3. protocol' # "infer" /\ OutgoingIds' = OutgoingIds
      BY <2>2 DEF handlerVars, OutgoingIds, NewId
    <3> QED
      BY <3>1, <3>2, <3>3 DEF ResponseTypes
  <2>5. CallsAreOfJobs'
    BY <2>1, <2>2 DEF handlerVars, CoreTypes, CallsAreOfJobs, Called, Body
  <2>6. EndedByThrow'
    BY <2>1, <2>2 DEF CoreTypes, EndedByThrow, Thrown, Called, CutOff
  <2> QED
    BY <2>3, <2>4, <2>5, <2>6
<1> QED
  BY <1>1, <1>2 DEF WorkerStep

(* A thread reads once, so one that has thrown keeps what it has read; one *)
(* that answers without having read its body to the end may lose the       *)
(* response.                                                               *)
LEMMA ThreadCalls ==
  ASSUME CallInvariant, NEW r \in Requests, CoreThread(r)
  PROVE  CallInvariant'
<1> USE DEF CallInvariant
<1>0. UNCHANGED handlerVars
  BY DEF CoreThread
<1>1. FrontTypes'
  BY <1>0 DEF handlerVars, FrontTypes, OutgoingIds, NewId
<1>2. request[r].max_tokens \in Nat \cup {Absent}
  BY SubmittedOptions
<1>3. CASE Core!Read(r)
  <2>1. PICK body \in Core!Prefixes(sent[r]) :
          /\ conn[r] = "open"
          /\ received' = [received EXCEPT ![r] = body]
          /\ conn' = [conn EXCEPT ![r] = "parsing"]
          /\ UNCHANGED <<process, clock, sent, response>>
    BY <1>3 DEF Core!Read
  <2>2. sent[r] = Body(r) /\ received[r] = Core!NoBody
    BY <2>1 DEF CallsAreOfJobs, Called
  <2>3. /\ \/ body.max_tokens = Absent
           \/ body.max_tokens \in Core!LeadingDigits(request[r].max_tokens)
        /\ body.temperature \in Core!FloatCuts(request[r].temperature)
        /\ body.top_p \in Core!FloatCuts(request[r].top_p)
    BY <1>2, <2>1, <2>2, PrefixesAreCut
  <2>4. \/ body.max_tokens = Absent
        \/ /\ body.max_tokens \in Nat
           /\ request[r].max_tokens \in Nat
           /\ body.max_tokens <= request[r].max_tokens
    <3>1. Core!LeadingDigits(Absent) = {}
      BY DEF Core!LeadingDigits
    <3> QED
      BY <1>2, <2>3, <3>1, DigitsBounded
  <2>5. CoreTypes' /\ ResponseTypes'
    BY <1>0, <2>1 DEF handlerVars, CoreTypes, ResponseTypes, OutgoingIds, NewId
  <2>6. CallsAreOfJobs'
    BY <1>0, <2>1, <2>3, <2>4 DEF handlerVars, CoreTypes, CallsAreOfJobs, Called, Body
  <2>7. EndedByThrow'
    <3>1. /\ ~Core!Throws(received[r])
          /\ \A d \in Requests \ {r} : conn'[d] = conn[d] /\ received'[d] = received[d]
          /\ response'[r].status = "none"
      BY <2>1, <2>2, NoBodyParses DEF CoreTypes, CallsAreOfJobs
    <3>2. Thrown => Thrown'
      BY <3>1 DEF Thrown, Called
    <3> QED
      BY <2>1, <3>1, <3>2 DEF EndedByThrow, Called, CutOff
  <2> QED
    BY <1>1, <2>5, <2>6, <2>7
<1>4. CASE Core!Answer(r)
  <2> DEFINE request_ == Core!Parse(received[r])
             answer == Core!Ok([by |-> "core", of |-> clock'], request_.model,
                               request_.input, request_.max_tokens)
  <2>1. /\ conn[r] = "parsing"
        /\ ~Core!Throws(received[r])
        /\ clock' \in clock .. MAX_CLOCK
        /\ \/ response' = [response EXCEPT ![r] = answer]
           \/ /\ received[r] # sent[r]
              /\ response' = [response EXCEPT ![r] = Core!Failure]
        /\ conn' = [conn EXCEPT ![r] = "closed"]
        /\ UNCHANGED <<process, sent, received>>
    BY <1>4 DEF Core!Answer, Core!MakeRequestId
  <2>2. /\ answer.status = "ok"
        /\ answer.id = [by |-> "core", of |-> clock']
        /\ answer.tokens = Core!MaxTokens(received[r].max_tokens)
    BY DEF Core!Ok, Core!Parse
  <2> HIDE DEF answer
  <2>3. answer.tokens \in 1 .. INT_MAX
    <3>1. received[r].max_tokens \in Nat \cup {Absent}
      BY DEF CallsAreOfJobs
    <3>2. received[r].max_tokens = Absent \/ received[r].max_tokens <= INT_MAX
      BY <2>1, <3>1, FrontEndsAssumption DEF Core!Throws
    <3> QED
      BY <2>2, <3>1, <3>2, FrontEndsAssumption DEF Core!MaxTokens, Core!DefaultTokens
  <2>4. clock' \in 0 .. MAX_CLOCK /\ answer.id \in OutgoingIds
    BY <2>1, <2>2, FrontEndsAssumption DEF CoreTypes, OutgoingIds
  <2>5. CoreTypes'
    BY <2>1, <2>4 DEF CoreTypes
  <2>6. ResponseTypes'
    <3>1. /\ protocol' = protocol /\ OutgoingIds' = OutgoingIds
          /\ \A d \in Requests \ {r} : response'[d] = response[d]
          /\ response'[r] \in {answer, Core!Failure}
      BY <1>0, <2>1 DEF handlerVars, CoreTypes, OutgoingIds, NewId
    <3>2. Core!Failure.status = "error"
      BY DEF Core!Failure
    <3> QED
      BY <2>2, <2>3, <2>4, <3>1, <3>2 DEF ResponseTypes
  <2>7. CallsAreOfJobs'
    BY <1>0, <2>1 DEF handlerVars, CoreTypes, CallsAreOfJobs, Called, Body
  <2>8. EndedByThrow'
    <3>1. Thrown => Thrown'
      BY <2>1 DEF Thrown, CoreTypes, Called
    <3>2. \A d \in Requests \ {r} : response'[d] = response[d] /\ conn'[d] = conn[d]
      BY <2>1 DEF CoreTypes
    <3>3. response'[r].status = "error" => CutOff(r)
      BY <2>1, <2>2 DEF CoreTypes, CutOff
    <3> QED
      BY <2>1, <3>1, <3>2, <3>3 DEF EndedByThrow, Called, CutOff
  <2> QED
    BY <1>1, <2>5, <2>6, <2>7, <2>8
<1>5. CASE Core!Terminate(r)
  <2>1. /\ conn[r] = "parsing"
        /\ Core!Throws(received[r])
        /\ process' = "down"
        /\ conn' = [d \in Requests |-> IF Core!Lost(d) THEN "closed" ELSE conn[d]]
        /\ response' = [d \in Requests |->
                          IF Core!Lost(d) THEN Core!Failure ELSE response[d]]
        /\ UNCHANGED <<clock, sent, received>>
    BY <1>5 DEF Core!Terminate
  <2>2. CoreTypes'
    BY <2>1 DEF CoreTypes
  <2>3. ResponseTypes'
    BY <1>0, <2>1 DEF handlerVars, CoreTypes, ResponseTypes, Core!Failure, OutgoingIds,
                      NewId
  <2>4. CallsAreOfJobs'
    BY <1>0, <2>1 DEF handlerVars, CoreTypes, CallsAreOfJobs, Called, Core!Lost, Body
  <2>5. Thrown'
    BY <2>1 DEF Thrown, Called, Core!Lost
  <2>6. EndedByThrow'
    BY <2>5 DEF EndedByThrow
  <2> QED
    BY <1>1, <2>2, <2>3, <2>4, <2>6
<1> QED
  BY <1>3, <1>4, <1>5 DEF CoreThread, Core!ThreadStep

LEMMA StepCallInvariant ==
  CallInvariant /\ [Next]_vars => CallInvariant'
<1> SUFFICES ASSUME CallInvariant, [Next]_vars PROVE CallInvariant'
  OBVIOUS
<1>1. CASE CoreRestart
  BY <1>1 DEF CoreRestart, Core!Restart, handlerVars, CallInvariant, FrontTypes,
              CoreTypes, ResponseTypes, CallsAreOfJobs, EndedByThrow, Thrown,
              Called, CutOff, Body, OutgoingIds, NewId
<1>2. CASE UNCHANGED vars
  BY <1>2 DEF vars, handlerVars, coreVars, CallInvariant, FrontTypes, CoreTypes,
              ResponseTypes, CallsAreOfJobs, EndedByThrow, Thrown, Called, CutOff,
              Body, OutgoingIds, NewId
<1> QED
  BY <1>1, <1>2, HandlerCalls, WorkerCalls, ThreadCalls DEF Next, Quiescent

(* What the front ends and the core work with has the types it should: in  *)
(* particular every success of the C++ core is about at least one token    *)
(* and at most the largest int, whatever clients ask for and wherever      *)
(* their requests are cut off.                                             *)
THEOREM FrontEndsTypeCorrect == Spec => []TypeOK
<1>1. CallInvariant => TypeOK
  BY DEF CallInvariant, FrontTypes, CoreTypes, ResponseTypes, TypeOK
<1> QED
  BY <1>1, InitCallInvariant, StepCallInvariant, PTL DEF Spec

(* For any number of connections and any options: unless a call carries a  *)
(* number the parser of the core cannot take, the core's process stays up  *)
(* and a call fails only if bytes of its own body were left unread.        *)
THEOREM CoreFailuresExplained == Spec => []FailuresExplained
<1>1. CallInvariant => FailuresExplained
  <2> SUFFICES ASSUME CallInvariant,
                      \A r \in Requests : Called(r) => ~Endangers(r)
               PROVE  /\ process = "up"
                      /\ \A r \in Requests :
                           Called(r) /\ response[r].status = "error" => CutOff(r)
    BY DEF FailuresExplained
  <2>1. ~Thrown
    BY ThrownEndangers DEF CallInvariant, Thrown
  <2> QED
    BY <2>1 DEF CallInvariant, EndedByThrow, CoreTypes
<1> QED
  BY <1>1, InitCallInvariant, StepCallInvariant, PTL DEF Spec
=============================================================================
