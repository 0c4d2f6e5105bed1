------------------------------- MODULE Metrics -------------------------------
(***************************************************************************)
(* The metrics registry of src/metrics.rs, one step per atomic operation:  *)
(* handlers count their requests while GET /metrics renders.               *)
(*                                                                         *)
(* The atomics are all Ordering::Relaxed: only the mutex of the histogram  *)
(* orders the additions of a call among themselves, or the loads of        *)
(* render().  A call therefore has a set of operations left and does them  *)
(* in any order, on its side of the mutex; two operations on one counter   *)
(* keep their order.                                                       *)
(*                                                                         *)
(*   handler    idle -> begin -> finish -> histogram -> done               *)
(*                        |--> abandoned                                   *)
(*   render()   idle -> lock -> loads -> done -> lock -> ...               *)
(***************************************************************************)
EXTENDS Integers, FiniteSets

CONSTANTS
  Requests,   \* the accepted requests
  Outcomes,   \* the counters of enum Outcome
  Bounds,     \* LATENCY_BUCKETS_MS
  Latencies,  \* the latencies in ms that handlers measure
  Render,     \* the thread of render(), as owner of the mutex
  Free        \* the mutex has no owner

ASSUME MetricsAssumption ==
  /\ Outcomes \subseteq {"ok_total", "error_total", "timeout_total"}
  /\ Bounds \subseteq Nat
  /\ Latencies \subseteq Nat
  /\ Render \notin Requests
  /\ Free \notin Requests \cup {Render}

VARIABLES
  counters,   \* the AtomicU64 fields
  histogram,  \* latency_histogram: a count for each bound
  owner,      \* who holds its mutex
  call,       \* per request: where its handler stands and what is left to add
  scrape,     \* the same of render(), with the values it has loaded
  overlap     \* the requests with a call in progress during this render():
              \* a history variable of the properties, read by no action

vars == <<counters, histogram, owner, call, scrape, overlap>>

Begins == {"requests_total", "in_flight"}

Counters == Begins \cup {"latency_count"} \cup Outcomes

Calling(pc) == [pc |-> pc, todo |-> {}, left |-> {}, latency |-> 0]

Init ==
  /\ counters = [c \in Counters |-> 0]
  /\ histogram = [b \in Bounds |-> 0]
  /\ owner = Free
  /\ call = [r \in Requests |-> Calling("idle")]
  /\ scrape = [pc |-> "idle", todo |-> {}, left |-> {},
               seen |-> counters, buckets |-> histogram]
  /\ overlap = {}

-----------------------------------------------------------------------------
(* The handlers.                                                           *)

Rendering == scrape.pc \in {"lock", "loads"}

Overlaps(r) == overlap' = IF Rendering THEN overlap \cup {r} ELSE overlap

(* Mutant of BeginRequest: the gauge is not raised.                        *)
BeginForgettingGauge(r) ==
  /\ call[r].pc = "idle"
  /\ call' = [call EXCEPT ![r].pc = "begin", ![r].todo = {"requests_total"}]
  /\ Overlaps(r)
  /\ UNCHANGED <<counters, histogram, owner, scrape>>

BeginRequest(r) ==
  /\ call[r].pc = "idle"
  /\ call' = [call EXCEPT ![r].pc = "begin", ![r].todo = Begins]
  /\ Overlaps(r)
  /\ UNCHANGED <<counters, histogram, owner, scrape>>

AddBegin(r, c) ==
  /\ call[r].pc = "begin"
  /\ c \in call[r].todo
  /\ counters' = [counters EXCEPT ![c] = @ + 1]
  /\ call' = [call EXCEPT ![r].todo = @ \ {c}]
  /\ UNCHANGED <<histogram, owner, scrape, overlap>>

(* begin_request() has returned; the handler waits for its answer.         *)
Waiting(r) == call[r].pc = "begin" /\ call[r].todo = {}

(* The client goes away: finish_request() is never called.                 *)
Abandon(r) ==
  /\ Waiting(r)
  /\ call' = [call EXCEPT ![r].pc = "abandoned"]
  /\ UNCHANGED <<counters, histogram, owner, scrape, overlap>>

InCall(r) ==
  call[r].pc \in {"begin", "finish", "histogram"} /\ ~Waiting(r)

(* Mutant of FinishRequest: the latency is not counted with the outcome.   *)
FinishUncounted(r, outcome, latency_ms) ==
  /\ Waiting(r)
  /\ call' = [call EXCEPT
                ![r] = [pc |-> "finish", todo |-> {"in_flight", outcome},
                        left |-> {}, latency |-> latency_ms]]
  /\ Overlaps(r)
  /\ UNCHANGED <<counters, histogram, owner, scrape>>

FinishRequest(r, outcome, latency_ms) ==
  /\ Waiting(r)
  /\ call' = [call EXCEPT
                ![r] = [pc |-> "finish",
                        todo |-> {"in_flight", outcome, "latency_count"},
                        left |-> {}, latency |-> latency_ms]]
  /\ Overlaps(r)
  /\ UNCHANGED <<counters, histogram, owner, scrape>>

(* Mutant of AddFinish: the gauge is lowered by two.                       *)
AddFinishTwice(r, c) ==
  /\ call[r].pc = "finish"
  /\ c \in call[r].todo
  /\ counters' = [counters EXCEPT
                    ![c] = IF c = "in_flight" THEN @ - 2 ELSE @ + 1]
  /\ call' = [call EXCEPT ![r].todo = @ \ {c}]
  /\ UNCHANGED <<histogram, owner, scrape, overlap>>

AddFinish(r, c) ==
  /\ call[r].pc = "finish"
  /\ c \in call[r].todo
  /\ counters' = [counters EXCEPT
                    ![c] = IF c = "in_flight" THEN @ - 1 ELSE @ + 1]
  /\ call' = [call EXCEPT ![r].todo = @ \ {c}]
  /\ UNCHANGED <<histogram, owner, scrape, overlap>>

(* Mutant of LockHistogram: the buckets are updated without the mutex.     *)
SkipLock(r) ==
  /\ call[r].pc = "finish"
  /\ call[r].todo = {}
  /\ call' = [call EXCEPT ![r].pc = "histogram", ![r].left = Bounds]
  /\ UNCHANGED <<counters, histogram, owner, scrape, overlap>>

LockHistogram(r) ==
  /\ call[r].pc = "finish"
  /\ call[r].todo = {}
  /\ owner = Free
  /\ owner' = r
  /\ call' = [call EXCEPT ![r].pc = "histogram", ![r].left = Bounds]
  /\ UNCHANGED <<counters, histogram, scrape, overlap>>

(* The buckets are visited in the order of their bounds.                   *)
CountBucket(r, b) ==
  /\ call[r].pc = "histogram"
  /\ b \in call[r].left
  /\ \A other \in call[r].left : b <= other
  /\ histogram' = [histogram EXCEPT
                     ![b] = IF call[r].latency <= b THEN @ + 1 ELSE @]
  /\ call' = [call EXCEPT ![r].left = @ \ {b}]
  /\ UNCHANGED <<counters, owner, scrape, overlap>>

UnlockHistogram(r) ==
  /\ call[r].pc = "histogram"
  /\ call[r].left = {}
  /\ owner' = Free
  /\ call' = [call EXCEPT ![r] = Calling("done")]
  /\ UNCHANGED <<counters, histogram, scrape, overlap>>

HandlerStep(r) ==
  \/ BeginRequest(r)
  \/ \E c \in Counters : AddBegin(r, c) \/ AddFinish(r, c)
  \/ Abandon(r)
  \/ \E o \in Outcomes, l \in Latencies : FinishRequest(r, o, l)
  \/ LockHistogram(r)
  \/ \E b \in Bounds : CountBucket(r, b)
  \/ UnlockHistogram(r)

-----------------------------------------------------------------------------
(* render().                                                               *)

StartRender ==
  /\ ~Rendering
  /\ scrape' = [pc |-> "lock", todo |-> Counters, left |-> Bounds,
                seen |-> [c \in Counters |-> 0],
                buckets |-> [b \in Bounds |-> 0]]
  /\ overlap' = {r \in Requests : InCall(r)}
  /\ UNCHANGED <<counters, histogram, owner, call>>

LockRender ==
  /\ scrape.pc = "lock"
  /\ owner = Free
  /\ owner' = Render
  /\ scrape' = [scrape EXCEPT !.pc = "loads"]
  /\ UNCHANGED <<counters, histogram, call, overlap>>

(* latency_count alone is loaded before the mutex is taken, or later: an   *)
(* acquire does not keep an earlier relaxed load above it.                 *)
LoadCounter(c) ==
  /\ \/ scrape.pc = "loads"
     \/ scrape.pc = "lock" /\ c = "latency_count"
  /\ c \in scrape.todo
  /\ scrape' = [scrape EXCEPT !.todo = @ \ {c}, !.seen[c] = counters[c]]
  /\ UNCHANGED <<counters, histogram, owner, call, overlap>>

LoadBucket(b) ==
  /\ scrape.pc = "loads"
  /\ b \in scrape.left
  /\ \A other \in scrape.left : b <= other
  /\ scrape' = [scrape EXCEPT !.left = @ \ {b}, !.buckets[b] = histogram[b]]
  /\ UNCHANGED <<counters, histogram, owner, call, overlap>>

UnlockRender ==
  /\ scrape.pc = "loads"
  /\ scrape.todo = {}
  /\ scrape.left = {}
  /\ owner' = Free
  /\ scrape' = [scrape EXCEPT !.pc = "done"]
  /\ UNCHANGED <<counters, histogram, call, overlap>>

RenderStep ==
  \/ StartRender
  \/ LockRender
  \/ \E c \in Counters : LoadCounter(c)
  \/ \E b \in Bounds : LoadBucket(b)
  \/ UnlockRender

Next == RenderStep \/ \E r \in Requests : HandlerStep(r)

Spec == Init /\ [][Next]_vars

-----------------------------------------------------------------------------
(* Properties.                                                             *)

(* No counter ever wraps below zero, the gauge in particular, in whatever  *)
(* order the additions of different calls become visible.                  *)
TypeOK ==
  /\ counters \in [Counters -> Nat]
  /\ histogram \in [Bounds -> Nat]
  /\ owner \in Requests \cup {Render, Free}
  /\ call \in [Requests ->
                 [pc : {"idle", "begin", "abandoned", "finish",
                        "histogram", "done"},
                  todo : SUBSET Counters, left : SUBSET Bounds,
                  latency : Latencies \cup {0}]]
  /\ scrape \in [pc : {"idle", "lock", "loads", "done"},
                 todo : SUBSET Counters, left : SUBSET Bounds,
                 seen : [Counters -> Nat], buckets : [Bounds -> Nat]]
  /\ overlap \subseteq Requests

(* The buckets of a finished scrape are cumulative, as a reader of the     *)
(* exposition format takes them to be, whatever handlers did meanwhile.    *)
CumulativeBuckets ==
  scrape.pc = "done" =>
    \A a, b \in Bounds : a <= b => scrape.buckets[a] <= scrape.buckets[b]

(* The answered requests among some values of the counters.                *)
Answered(values) ==
  LET of(o) == IF o \in Outcomes THEN values[o] ELSE 0
  IN  of("ok_total") + of("error_total") + of("timeout_total")

(* A scrape is no snapshot, but its error is bounded by the requests that  *)
(* were being counted meanwhile: each can be missing from the gauge and    *)
(* from the outcomes, or be counted in both before it is in the total; and *)
(* the latency count, loaded first, may lag behind outcomes and buckets by *)
(* as many.  A scrape that no call overlaps balances exactly.              *)
ScrapeOffByOverlap ==
  LET n        == Cardinality(overlap)
      seen     == scrape.seen
      answered == Answered(seen)
      missing  == seen.requests_total - seen.in_flight - answered
  IN  scrape.pc = "done" =>
        /\ missing \in -(2 * n) .. n
        /\ seen.latency_count - answered \in -n .. n
        /\ \A b \in Bounds : scrape.buckets[b] <= seen.latency_count + n

(* The counters once every call in progress has done what is left of it:   *)
(* as if begin_request() and finish_request() were one step each.          *)
Left(c, pc) == Cardinality({r \in Requests : call[r].pc = pc /\ c \in call[r].todo})

totalsBar ==
  [c \in Begins \cup Outcomes |->
     counters[c] + Left(c, "begin")
       + (IF c = "in_flight" THEN -Left(c, "finish") ELSE Left(c, "finish"))]

Atomic == INSTANCE RequestCounters WITH totals <- totalsBar

(* No update is lost or doubled: the calls, interleaved atomic by atomic,  *)
(* add up to the atomic steps Gateway takes them for.                      *)
ImplementsCounters == Atomic!Spec
=============================================================================
