---------------------------- MODULE InferenceCore ----------------------------
(***************************************************************************)
(* The C++ inference core (cpp_inference/inference_core.cpp) as the        *)
(* gateway meets it: one process, one detached thread per connection, one  *)
(* connection per call.                                                    *)
(*                                                                         *)
(*   conn[c]  none -> open -> parsing -> closed                            *)
(*                                                                         *)
(* Texts are who wrote them; a field of a body may be Absent.  The bytes   *)
(* of a body are its fields in the order of NoBody; the rest is what the   *)
(* core does not look at, the request_id and the closing brackets, which   *)
(* the gateway always sends.                                               *)
(***************************************************************************)
EXTENDS Integers

CONSTANTS
  Calls,        \* the calls of the gateway's workers
  Absent,       \* a field that is not there
  INT_MAX,      \* the largest value of a C++ int
  MAX_CLOCK     \* bound on the system clock in ms

VARIABLES
  process,      \* the core's process is up or down
  clock,        \* the system clock at the last answer
  conn,         \* the connection of each call
  sent,         \* the body its client has sent
  received,     \* the body its thread has read
  response      \* what its client has got back

coreVars == <<process, clock, conn, sent, received, response>>

DefaultTokens == 32

NoBody ==
  [model |-> Absent, input |-> Absent, max_tokens |-> Absent,
   temperature |-> Absent, top_p |-> Absent, rest |-> Absent]

NoResponse == [status |-> "none"]

Failure == [status |-> "error"]

Ok(id, model, input, tokens) ==
  [status |-> "ok", id |-> id, model |-> model, input |-> input, tokens |-> tokens]

Init ==
  /\ process = "up"
  /\ clock = 0
  /\ conn = [c \in Calls |-> "none"]
  /\ sent = [c \in Calls |-> NoBody]
  /\ received = [c \in Calls |-> NoBody]
  /\ response = [c \in Calls |-> NoResponse]

(* A client sends a whole request, or finds nobody listening.              *)
Connect(c, body) ==
  /\ conn[c] = "none"
  /\ sent' = [sent EXCEPT ![c] = body]
  /\ IF process = "up"
       THEN conn' = [conn EXCEPT ![c] = "open"] /\ UNCHANGED response
       ELSE /\ conn' = [conn EXCEPT ![c] = "closed"]
            /\ response' = [response EXCEPT ![c] = Failure]
  /\ UNCHANGED <<process, clock, received>>

-----------------------------------------------------------------------------
(* Reading.  read_http_request() reads until it has the headers, at most   *)
(* 4096 bytes at a time, and goes on for the body only if it finds         *)
(* "Content-Length:" spelled so.  The gateway's client writes the names    *)
(* of headers in lower case: the body is what came with the headers.       *)

PowersOfTen ==
  {10, 100, 1000, 10000, 100000, 1000000, 10000000, 100000000, 1000000000}

LeadingDigits(number) ==
  IF number = Absent THEN {}
  ELSE {number} \cup ({number \div power : power \in PowersOfTen} \ {0})

(* The texts of a float: one in the range of normal floats without or with *)
(* a minus, and one below it, of either sign, as the gateway may send it.  *)
(* If it is cut off the minus may be all that is there, and an exponent    *)
(* that has lost a digit is in range again.                                *)
CutShort == {<<"negative", "minus">>, <<"tiny", "minus">>, <<"tiny", "fine">>}

FloatCuts(text) ==
  {Absent, text} \cup {cut \in {"minus", "fine"} : <<text, cut>> \in CutShort}

(* What a thread may have of a body.  A text without its closing quote is  *)
(* not found; a number that has been cut off is read as what is there.     *)
Prefixes(body) ==
  LET texts  == [NoBody EXCEPT !.model = body.model, !.input = body.input]
      upTo_p == [body EXCEPT !.rest = Absent]
  IN  { NoBody, [NoBody EXCEPT !.model = body.model], body }
        \cup { [texts EXCEPT !.max_tokens = number] :
                 number \in {Absent} \cup LeadingDigits(body.max_tokens) }
        \cup { [upTo_p EXCEPT !.temperature = text, !.top_p = Absent] :
                 text \in FloatCuts(body.temperature) }
        \cup { [upTo_p EXCEPT !.top_p = text] : text \in FloatCuts(body.top_p) }

(* Mutant of Read: the thread waits for a rest that may never come.        *)
ReadWaiting(c) ==
  \E body \in Prefixes(sent[c]) :
    /\ conn[c] = "open"
    /\ body.input # Absent
    /\ received' = [received EXCEPT ![c] = body]
    /\ conn' = [conn EXCEPT
                  ![c] = IF body = sent[c] THEN "parsing" ELSE "open"]
    /\ UNCHANGED <<process, clock, sent, response>>

Read(c) ==
  \E body \in Prefixes(sent[c]) :
    /\ conn[c] = "open"
    /\ received' = [received EXCEPT ![c] = body]
    /\ conn' = [conn EXCEPT ![c] = "parsing"]
    /\ UNCHANGED <<process, clock, sent, response>>

-----------------------------------------------------------------------------
(* Parsing and answering.                                                  *)

(* std::stof takes neither a lone minus nor a number that underflows.      *)
NoFloat == {"minus", "tiny"}

(* Mutant of Throws: an off-by-one at the limit of the type.               *)
ThrowsAtMax(body) ==
  \/ body.max_tokens # Absent /\ body.max_tokens >= INT_MAX
  \/ body.temperature \in NoFloat
  \/ body.top_p \in NoFloat

(* std::stoi and std::stof throw, and nothing on the thread catches.       *)
Throws(body) ==
  \/ body.max_tokens # Absent /\ body.max_tokens > INT_MAX
  \/ body.temperature \in NoFloat
  \/ body.top_p \in NoFloat

(* Mutant of MaxTokens: no value is replaced by the default.               *)
MaxTokensAsIs(number) == number

MaxTokens(number) ==
  IF number = Absent \/ number <= 0 THEN DefaultTokens ELSE number

(* Temperature and top_p show only in the wording of the output.           *)
Parse(body) ==
  [model |-> IF body.model = Absent THEN "llama-7b" ELSE body.model,
   input |-> IF body.input = Absent THEN "hello world" ELSE body.input,
   max_tokens |-> MaxTokens(body.max_tokens)]

(* Time has gone on, or not; ids are of the millisecond.                   *)
MakeRequestId == [by |-> "core", of |-> clock']

(* Closing a socket with bytes unread, be it only the request_id, resets   *)
(* the connection: the client may lose the response.                       *)
Answer(c) ==
  /\ conn[c] = "parsing"
  /\ ~Throws(received[c])
  /\ clock' \in clock .. MAX_CLOCK
  /\ LET request == Parse(received[c])
         reply   == Ok(MakeRequestId, request.model, request.input,
                       request.max_tokens)
     IN  \/ response' = [response EXCEPT ![c] = reply]
         \/ /\ received[c] # sent[c]
            /\ response' = [response EXCEPT ![c] = Failure]
  /\ conn' = [conn EXCEPT ![c] = "closed"]
  /\ UNCHANGED <<process, sent, received>>

Lost(c) == conn[c] \in {"open", "parsing"}

(* An exception that leaves a detached thread ends the process, with the   *)
(* connections of all threads.                                             *)
Terminate(c) ==
  /\ conn[c] = "parsing"
  /\ Throws(received[c])
  /\ process' = "down"
  /\ conn' = [d \in Calls |-> IF Lost(d) THEN "closed" ELSE conn[d]]
  /\ response' = [d \in Calls |-> IF Lost(d) THEN Failure ELSE response[d]]
  /\ UNCHANGED <<clock, sent, received>>

(* Whoever runs the core starts it again.                                  *)
Restart ==
  /\ process = "down"
  /\ process' = "up"
  /\ UNCHANGED <<clock, conn, sent, received, response>>

ThreadStep(c) == Read(c) \/ Answer(c) \/ Terminate(c)
=============================================================================
