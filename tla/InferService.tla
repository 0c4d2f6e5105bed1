---------------------------- MODULE InferService ----------------------------
(***************************************************************************)
(* What the gateway promises the clients of POST /infer and of the gRPC    *)
(* Infer call, without queue, pool, channels, dispatcher or counters:      *)
(*                                                                         *)
(*   - a request gets at most one answer, and keeps it;                    *)
(*   - accepted requests start in the order in which they were accepted,   *)
(*     each exactly once;                                                  *)
(*   - a request is refused for load only when the backlog is full, and    *)
(*     the backlog never exceeds its capacity by more than one job;        *)
(*   - an answer "ok" or "error" is what that request's own execution      *)
(*     returned; a result that comes after the timeout is thrown away.     *)
(*                                                                         *)
(* Module Gateway states that the program implements this.                 *)
(***************************************************************************)
EXTENDS Integers, Sequences

CONSTANTS
  Requests,         \* the inference requests of clients
  QUEUE_CAPACITY    \* how many jobs may wait

VARIABLES
  answer,    \* what the client of each request has been told
  backlog,   \* the accepted requests that have not started, oldest first
  work       \* the execution of each request

serviceVars == <<answer, backlog, work>>

Refusals == {"invalid_request", "queue_full"}

Results == {"ok", "error"}

Init ==
  /\ answer = [r \in Requests |-> "none"]
  /\ backlog = <<>>
  /\ work = [r \in Requests |-> "none"]

Fresh(r) == answer[r] = "none" /\ work[r] = "none"

Reply(r, value) ==
  /\ answer[r] = "none"
  /\ answer' = [answer EXCEPT ![r] = value]
  /\ UNCHANGED <<backlog, work>>

RejectInvalid(r) == Fresh(r) /\ Reply(r, "invalid_request")

RejectFull(r) ==
  /\ Fresh(r)
  /\ Len(backlog) >= QUEUE_CAPACITY
  /\ Reply(r, "queue_full")

(* One job beyond the capacity: the one that has left the queue and waits  *)
(* for a worker.                                                           *)
Accept(r) ==
  /\ Fresh(r)
  /\ Len(backlog) <= QUEUE_CAPACITY
  /\ backlog' = Append(backlog, r)
  /\ work' = [work EXCEPT ![r] = "queued"]
  /\ UNCHANGED answer

Start ==
  /\ backlog # <<>>
  /\ backlog' = Tail(backlog)
  /\ work' = [work EXCEPT ![Head(backlog)] = "executing"]
  /\ UNCHANGED answer

Finish(r, result) ==
  /\ work[r] = "executing"
  /\ work' = [work EXCEPT
                ![r] = IF answer[r] = "none" THEN result ELSE "discarded"]
  /\ UNCHANGED <<answer, backlog>>

Answer(r) == work[r] \in Results /\ Reply(r, work[r])

TimeOut(r) == work[r] \in {"queued", "executing"} /\ Reply(r, "timeout")

Abandon(r) == work[r] # "none" /\ Reply(r, "abandoned")

Next ==
  \/ Start
  \/ \E r \in Requests :
       \/ RejectInvalid(r)
       \/ RejectFull(r)
       \/ Accept(r)
       \/ \E result \in Results : Finish(r, result)
       \/ Answer(r)
       \/ TimeOut(r)
       \/ Abandon(r)

Spec == Init /\ [][Next]_serviceVars
=============================================================================
