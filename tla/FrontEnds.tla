------------------------------ MODULE FrontEnds ------------------------------
(***************************************************************************)
(* The two front ends and the two wire protocols: what POST /infer and the *)
(* gRPC Infer call make of a request and its correlation id, what a worker *)
(* sends to the core, and what becomes of the core's answer.               *)
(*                                                                         *)
(* Queue, pool and counters are module Gateway's; here a job may be        *)
(* refused, may start at any time after it was accepted, and may time out. *)
(***************************************************************************)
EXTENDS Integers

CONSTANTS
  Requests,     \* the requests of clients
  ClientIds,    \* the ids clients send
  Canonical,    \* of those that parse as a UUID, the form to_string() gives
  NoId,         \* no id is sent, or returned
  Submissions,  \* the requests clients make: front end, id and options
  Absent,
  INT_MAX,
  MAX_CLOCK

(* Floats as they are sent: within the normal range without or with a      *)
(* minus, or of either sign below it.  Neither is one that is not finite,  *)
(* which is sent as null.                                                  *)
Floats == {"fine", "negative", "tiny"}

ASSUME FrontEndsAssumption ==
  /\ NoId \notin ClientIds
  /\ Canonical \in [DOMAIN Canonical -> ClientIds]
  /\ DOMAIN Canonical \subseteq ClientIds
  /\ Absent \notin Nat \cup {"fine", "negative", "tiny", "minus"}
  /\ Submissions \subseteq [front : {"http", "grpc"}, id : ClientIds \cup {NoId},
                              max_tokens : Nat \cup {Absent},
                              temperature : Floats \cup {Absent},
                              top_p : Floats \cup {Absent}]
  /\ INT_MAX \in Nat
  /\ INT_MAX >= 32      \* the default of max_tokens is an int itself
  /\ MAX_CLOCK \in Nat

\* A client that has sent nothing yet.
NoSubmission ==
  [front |-> "none", id |-> NoId, max_tokens |-> Absent, temperature |-> Absent,
   top_p |-> Absent]

VARIABLES
  protocol,   \* CORE_PROTOCOL
  request,    \* what each client has sent
  handler,    \* where the handler of each request stands
  job_id,     \* the request_id of its job, once it is in the queue
  reply       \* what its client has been told

VARIABLES process, clock, conn, sent, received, response   \* the C++ core

coreVars == <<process, clock, conn, sent, received, response>>

handlerVars == <<protocol, request, handler, job_id, reply>>

vars == <<handlerVars, coreVars>>

Core == INSTANCE InferenceCore WITH Calls <- Requests

NoReply == [outcome |-> "none", id |-> NoId]

Init ==
  /\ protocol \in {"infer", "llama-chat"}
  /\ request = [r \in Requests |-> NoSubmission]
  /\ handler = [r \in Requests |-> "none"]
  /\ job_id = [r \in Requests |-> NoId]
  /\ reply = [r \in Requests |-> NoReply]
  /\ Core!Init

-----------------------------------------------------------------------------
(* The handlers.                                                           *)

NewId(r) == [by |-> "gateway", of |-> r]

(* HTTP takes the x-request-id header if it parses as a UUID, in its       *)
(* canonical form; gRPC any id that is not empty, as it is.                *)
RequestId(r, submission) ==
  LET id == submission.id
  IN  IF submission.front = "http" /\ id \in DOMAIN Canonical THEN Canonical[id]
      ELSE IF submission.front = "grpc" /\ id # NoId THEN id
      ELSE NewId(r)

(* The header x-request-id of HTTP; a gRPC status carries no id.           *)
EchoedId(submission, id) == IF submission.front = "http" THEN id ELSE NoId

Respond(r, outcome, id) ==
  /\ handler' = [handler EXCEPT ![r] = "done"]
  /\ reply' = [reply EXCEPT ![r] = [outcome |-> outcome, id |-> id]]
  /\ UNCHANGED <<protocol, job_id, coreVars>>

Arrive(r, submission) ==
  /\ handler[r] = "none"
  /\ request' = [request EXCEPT ![r] = submission]

(* The model is looked up before the id is resolved.                       *)
RejectUnknownModel(r) ==
  \E submission \in Submissions :
    Arrive(r, submission) /\ Respond(r, "invalid_request", NoId)

RejectQueueFull(r) ==
  \E submission \in Submissions :
    /\ Arrive(r, submission)
    /\ Respond(r, "queue_full", EchoedId(submission, RequestId(r, submission)))

Enqueue(r) ==
  \E submission \in Submissions :
    /\ Arrive(r, submission)
    /\ handler' = [handler EXCEPT ![r] = "waiting"]
    /\ job_id' = [job_id EXCEPT ![r] = RequestId(r, submission)]
    /\ UNCHANGED <<protocol, reply, coreVars>>

(* Mutant of RespondOk: HTTP passes on the id of the core, like gRPC.      *)
RespondOkAsIs(r) ==
  /\ handler[r] = "waiting"
  /\ response[r].status = "ok"
  /\ Respond(r, "ok", response[r].id)
  /\ UNCHANGED request

(* HTTP overwrites the id of the core's answer, gRPC passes it on.         *)
RespondOk(r) ==
  /\ handler[r] = "waiting"
  /\ response[r].status = "ok"
  /\ Respond(r, "ok", IF request[r].front = "http" THEN job_id[r]
                                                   ELSE response[r].id)
  /\ UNCHANGED request

RespondError(r) ==
  /\ handler[r] = "waiting"
  /\ response[r].status = "error"
  /\ Respond(r, "error", EchoedId(request[r], job_id[r]))
  /\ UNCHANGED request

TimeOut(r) ==
  /\ handler[r] = "waiting"
  /\ response[r].status = "none"
  /\ Respond(r, "timeout", EchoedId(request[r], job_id[r]))
  /\ UNCHANGED request

-----------------------------------------------------------------------------
(* The workers.  A job that is in the queue is run whatever its handler    *)
(* has done since.                                                         *)

Dispatched(r) == job_id[r] # NoId /\ conn[r] = "none" /\ response[r].status = "none"

(* The job as JSON, the request_id last; an option that is not set is      *)
(* null.                                                                   *)
Body(r) ==
  [model |-> r, input |-> r, max_tokens |-> request[r].max_tokens,
   temperature |-> request[r].temperature, top_p |-> request[r].top_p,
   rest |-> job_id[r]]

CallInferProtocol(r) ==
  /\ protocol = "infer"
  /\ Dispatched(r)
  /\ Core!Connect(r, Body(r))
  /\ UNCHANGED handlerVars

(* llama-server answers about the model and the input of the request, or   *)
(* fails; the gateway builds the response, with the id of the job.         *)
CallLlamaChatProtocol(r) ==
  /\ protocol = "llama-chat"
  /\ Dispatched(r)
  /\ \E answer \in {Core!Failure,
                    Core!Ok(job_id[r], r, r, request[r].max_tokens)} :
       response' = [response EXCEPT ![r] = answer]
  /\ UNCHANGED <<handlerVars, process, clock, conn, sent, received>>

CoreRestart == Core!Restart /\ UNCHANGED handlerVars

CoreThread(r) == Core!ThreadStep(r) /\ UNCHANGED handlerVars

HandlerStep(r) ==
  \/ RejectUnknownModel(r)
  \/ RejectQueueFull(r)
  \/ Enqueue(r)
  \/ RespondOk(r)
  \/ RespondError(r)
  \/ TimeOut(r)

WorkerStep(r) == CallInferProtocol(r) \/ CallLlamaChatProtocol(r)

(* Everybody has an answer and every call has returned: not a deadlock.    *)
Quiescent ==
  /\ \A r \in Requests : handler[r] = "done" /\ ~Dispatched(r)
                         /\ conn[r] \in {"none", "closed"}
  /\ UNCHANGED vars

Next ==
  \/ \E r \in Requests : HandlerStep(r) \/ WorkerStep(r) \/ CoreThread(r)
  \/ CoreRestart
  \/ Quiescent

Spec == Init /\ [][Next]_vars

(* The threads of the core run; nothing is assumed of clients, handlers,   *)
(* workers, or whoever restarts the core.                                  *)
FairSpec == Spec /\ \A r \in Requests : WF_vars(CoreThread(r))

-----------------------------------------------------------------------------
(* Properties.                                                             *)

Outcomes == {"invalid_request", "queue_full", "ok", "error", "timeout"}

OutgoingIds ==
  ClientIds \cup {NewId(r) : r \in Requests}
    \cup {[by |-> "core", of |-> t] : t \in 0 .. MAX_CLOCK}

(* What the core works with is between one and the largest C++ int.        *)
TypeOK ==
  /\ protocol \in {"infer", "llama-chat"}
  /\ request \in [Requests -> Submissions \cup {NoSubmission}]
  /\ handler \in [Requests -> {"none", "waiting", "done"}]
  /\ job_id \in [Requests -> OutgoingIds \cup {NoId}]
  /\ reply \in [Requests -> [outcome : Outcomes \cup {"none"},
                             id : OutgoingIds \cup {NoId}]]
  /\ conn \in [Requests -> {"none", "open", "parsing", "closed"}]
  /\ process \in {"up", "down"}
  /\ clock \in 0 .. MAX_CLOCK
  /\ \A r \in Requests :
       /\ response[r].status \in {"none", "ok", "error"}
       /\ response[r].status = "ok" => response[r].id \in OutgoingIds
       /\ response[r].status = "ok" /\ protocol = "infer" =>
            response[r].tokens \in 1 .. INT_MAX

Http(r) == request[r].front = "http"

(* A client of POST /infer can follow its request: whatever the answer,    *)
(* from the full queue on, and whatever the core put into it, it carries   *)
(* the id the client sent, or the one under which the job was run.  So     *)
(* does a gRPC answer when the gateway itself builds the response.         *)
RepliesCorrelated ==
  \A r \in Requests :
    /\ Http(r) /\ reply[r].outcome \in Outcomes \ {"invalid_request"} =>
         reply[r].id = RequestId(r, request[r])
    /\ protocol = "llama-chat" /\ reply[r].outcome = "ok" =>
         reply[r].id = RequestId(r, request[r])

Called(r) == conn[r] # "none"

CutOff(r) == received[r] # sent[r]

(* A call whose body can make the core's parser throw: it asks for more    *)
(* tokens than a C++ int holds, has a float too small to be a normal one,  *)
(* or has a negative one and was not read to its end.                      *)
Endangers(r) ==
  LET floats == {request[r].temperature, request[r].top_p}
  IN  \/ request[r].max_tokens # Absent /\ request[r].max_tokens > INT_MAX
      \/ "tiny" \in floats
      \/ "negative" \in floats /\ CutOff(r)

(* Without such a call the core's process stays up and a call fails only   *)
(* if some byte of its own body was not read, be it of the request_id.     *)
(* Whoever fails otherwise was ended by somebody else's request.           *)
FailuresExplained ==
  (\A r \in Requests : Called(r) => ~Endangers(r)) =>
     /\ process = "up"
     /\ \A r \in Requests :
          Called(r) /\ response[r].status = "error" => CutOff(r)

(* A call to this core always returns: every thread answers, or takes all  *)
(* connections with it.  This is what Gateway's CoreReturns assumes.       *)
EveryCallReturns ==
  \A r \in Requests : Called(r) ~> response[r].status \in {"ok", "error"}

-----------------------------------------------------------------------------
(* What comments and documents say, and the code does not do.              *)

(* docs/api.md:45 and src/main.rs:67: the response always carries the id   *)
(* the gateway assigned; proto/inference.proto:12: gRPC mirrors HTTP.      *)
GrpcRepliesCorrelated ==
  \A r \in Requests :
    ~Http(r) /\ reply[r].outcome = "ok" => reply[r].id = job_id[r]

(* cpp_inference/inference_core.cpp:366: with a Content-Length header the  *)
(* full body is read.  So a success is about the request that was sent.    *)
OkIsOwnWork ==
  \A r \in Requests :
    protocol = "infer" /\ reply[r].outcome = "ok" =>
      /\ response[r].model = r
      /\ response[r].input = r
      /\ response[r].tokens = Core!MaxTokens(request[r].max_tokens)
=============================================================================
