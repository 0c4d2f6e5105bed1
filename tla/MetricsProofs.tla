---------------------------- MODULE MetricsProofs ----------------------------
(***************************************************************************)
(* What a scrape of GET /metrics may rely on, for every set of requests,   *)
(* outcomes, bucket bounds and latencies.                                  *)
(***************************************************************************)
EXTENDS Metrics, FiniteSetTheorems, TLAPS

(* The types, but for the sign of the counters.                            *)
CallTypes ==
  call \in [Requests ->
              [pc : {"idle", "begin", "abandoned", "finish", "histogram", "done"},
               todo : SUBSET Counters, left : SUBSET Bounds,
               latency : Latencies \cup {0}]]

ScrapeTypes ==
  scrape \in [pc : {"idle", "lock", "loads", "done"},
              todo : SUBSET Counters, left : SUBSET Bounds,
              seen : [Counters -> Int], buckets : [Bounds -> Nat]]

Types ==
  /\ counters \in [Counters -> Int]
  /\ histogram \in [Bounds -> Nat]
  /\ owner \in Requests \cup {Render, Free}
  /\ CallTypes
  /\ ScrapeTypes
  /\ overlap \subseteq Requests

(* The mutex is held exactly by the thread that is at the buckets.         *)
MutexHeld ==
  /\ \A r \in Requests : call[r].pc = "histogram" <=> owner = r
  /\ scrape.pc = "loads" <=> owner = Render

LEMMA InitTypes == Init => Types /\ MutexHeld
<1> SUFFICES ASSUME Init PROVE Types /\ MutexHeld
  OBVIOUS
<1>1. CallTypes
  BY DEF Init, Calling, CallTypes
<1>2. counters \in [Counters -> Int] /\ histogram \in [Bounds -> Nat]
  BY DEF Init
<1>3. ScrapeTypes
  BY <1>2 DEF Init, ScrapeTypes
<1>4. MutexHeld
  BY MetricsAssumption DEF Init, Calling, MutexHeld
<1> QED
  BY <1>1, <1>2, <1>3, <1>4 DEF Init, Types

(* Two fields of a call change at once.                                    *)
LEMMA CallReplaced ==
  ASSUME CallTypes, NEW r \in Requests
  PROVE  /\ BeginRequest(r) =>
              call' = [call EXCEPT ![r] =
                         [pc |-> "begin", todo |-> Begins, left |-> call[r].left,
                          latency |-> call[r].latency]]
         /\ LockHistogram(r) =>
              call' = [call EXCEPT ![r] =
                         [pc |-> "histogram", todo |-> call[r].todo, left |-> Bounds,
                          latency |-> call[r].latency]]
<1>1. BeginRequest(r) =>
        call' = [call EXCEPT ![r] =
                   [pc |-> "begin", todo |-> Begins, left |-> call[r].left,
                    latency |-> call[r].latency]]
  BY DEF BeginRequest, CallTypes
<1>2. LockHistogram(r) =>
        call' = [call EXCEPT ![r] =
                   [pc |-> "histogram", todo |-> call[r].todo, left |-> Bounds,
                    latency |-> call[r].latency]]
  BY DEF LockHistogram, CallTypes
<1> QED
  BY <1>1, <1>2

(* A step of a handler, and a step of render().                            *)
LEMMA HandlerTypes ==
  ASSUME Types, MutexHeld, NEW r \in Requests, HandlerStep(r)
  PROVE  Types' /\ MutexHeld'
<1> USE DEF Types
<1>0. /\ call[r].pc \in {"idle", "begin", "abandoned", "finish", "histogram", "done"}
      /\ call[r].todo \subseteq Counters
      /\ call[r].left \subseteq Bounds
      /\ call[r].latency \in Latencies \cup {0}
  BY DEF CallTypes
<1>1. CASE BeginRequest(r)
  <2>1. CallTypes'
    BY <1>0, <1>1, CallReplaced DEF CallTypes, Begins, Counters
  <2>2. overlap' \subseteq Requests
    BY <1>1 DEF BeginRequest, Overlaps
  <2>3. MutexHeld'
    BY <1>1 DEF BeginRequest, CallTypes, MutexHeld
  <2> QED
    BY <1>1, <2>1, <2>2, <2>3 DEF BeginRequest, ScrapeTypes
<1>2. ASSUME NEW c \in Counters, AddBegin(r, c) \/ AddFinish(r, c)
      PROVE  Types' /\ MutexHeld'
  <2>1. counters' \in [Counters -> Int]
    BY <1>2 DEF AddBegin, AddFinish
  <2>2. CallTypes'
    BY <1>0, <1>2 DEF AddBegin, AddFinish, CallTypes
  <2>3. MutexHeld'
    BY <1>2 DEF AddBegin, AddFinish, CallTypes, MutexHeld
  <2> QED
    BY <1>2, <2>1, <2>2, <2>3 DEF AddBegin, AddFinish, ScrapeTypes
<1>3. CASE Abandon(r)
  <2>1. CallTypes'
    BY <1>0, <1>3 DEF Abandon, CallTypes
  <2>2. MutexHeld'
    BY <1>3 DEF Abandon, Waiting, CallTypes, MutexHeld
  <2> QED
    BY <1>3, <2>1, <2>2 DEF Abandon, ScrapeTypes
<1>4. ASSUME NEW o \in Outcomes, NEW l \in Latencies, FinishRequest(r, o, l)
      PROVE  Types' /\ MutexHeld'
  <2>1. CallTypes'
    BY <1>0, <1>4 DEF FinishRequest, CallTypes, Begins, Counters
  <2>2. overlap' \subseteq Requests
    BY <1>4 DEF FinishRequest, Overlaps
  <2>3. MutexHeld'
    BY <1>4 DEF FinishRequest, Waiting, CallTypes, MutexHeld
  <2> QED
    BY <1>4, <2>1, <2>2, <2>3 DEF FinishRequest, ScrapeTypes
<1>5. CASE LockHistogram(r)
  <2>1. CallTypes'
    BY <1>0, <1>5, CallReplaced DEF CallTypes
  <2>2. MutexHeld'
    BY <1>5, MetricsAssumption DEF LockHistogram, CallTypes, MutexHeld
  <2> QED
    BY <1>5, <2>1, <2>2 DEF LockHistogram, ScrapeTypes
<1>6. ASSUME NEW b \in Bounds, CountBucket(r, b)
      PROVE  Types' /\ MutexHeld'
  <2>1. histogram' \in [Bounds -> Nat]
    BY <1>6 DEF CountBucket
  <2>2. CallTypes'
    BY <1>0, <1>6 DEF CountBucket, CallTypes
  <2>3. MutexHeld'
    BY <1>6 DEF CountBucket, CallTypes, MutexHeld
  <2> QED
    BY <1>6, <2>1, <2>2, <2>3 DEF CountBucket, ScrapeTypes
<1>7. CASE UnlockHistogram(r)
  <2>1. CallTypes'
    BY <1>0, <1>7 DEF UnlockHistogram, Calling, CallTypes
  <2>2. MutexHeld'
    BY <1>7, MetricsAssumption DEF UnlockHistogram, Calling, CallTypes, MutexHeld
  <2> QED
    BY <1>7, <2>1, <2>2 DEF UnlockHistogram, ScrapeTypes
<1> QED
  BY <1>1, <1>2, <1>3, <1>4, <1>5, <1>6, <1>7 DEF HandlerStep

LEMMA RenderTypes ==
  ASSUME Types, MutexHeld, RenderStep
  PROVE  Types' /\ MutexHeld'
<1> USE DEF Types
<1>1. CASE StartRender
  <2>1. ScrapeTypes'
    BY <1>1 DEF StartRender, ScrapeTypes
  <2>2. overlap' \subseteq Requests
    BY <1>1 DEF StartRender
  <2>3. MutexHeld'
    BY <1>1 DEF StartRender, Rendering, MutexHeld
  <2> QED
    BY <1>1, <2>1, <2>2, <2>3 DEF StartRender, CallTypes
<1>2. CASE LockRender
  <2>1. ScrapeTypes'
    BY <1>2 DEF LockRender, ScrapeTypes
  <2>2. MutexHeld'
    BY <1>2, MetricsAssumption DEF LockRender, ScrapeTypes, MutexHeld
  <2> QED
    BY <1>2, <2>1, <2>2 DEF LockRender, CallTypes
<1>3. ASSUME NEW c \in Counters, LoadCounter(c)
      PROVE  Types' /\ MutexHeld'
  <2>1. ScrapeTypes'
    BY <1>3 DEF LoadCounter, ScrapeTypes
  <2>2. MutexHeld'
    BY <1>3 DEF LoadCounter, ScrapeTypes, MutexHeld
  <2> QED
    BY <1>3, <2>1, <2>2 DEF LoadCounter, CallTypes
<1>4. ASSUME NEW b \in Bounds, LoadBucket(b)
      PROVE  Types' /\ MutexHeld'
  <2>1. ScrapeTypes'
    BY <1>4 DEF LoadBucket, ScrapeTypes
  <2>2. MutexHeld'
    BY <1>4 DEF LoadBucket, ScrapeTypes, MutexHeld
  <2> QED
    BY <1>4, <2>1, <2>2 DEF LoadBucket, CallTypes
<1>5. CASE UnlockRender
  <2>1. ScrapeTypes'
    BY <1>5 DEF UnlockRender, ScrapeTypes
  <2>2. MutexHeld'
    BY <1>5, MetricsAssumption DEF UnlockRender, ScrapeTypes, MutexHeld
  <2> QED
    BY <1>5, <2>1, <2>2 DEF UnlockRender, CallTypes
<1> QED
  BY <1>1, <1>2, <1>3, <1>4, <1>5 DEF RenderStep

LEMMA StepTypes == Types /\ MutexHeld /\ [Next]_vars => Types' /\ MutexHeld'
<1> SUFFICES ASSUME Types, MutexHeld, [Next]_vars PROVE Types' /\ MutexHeld'
  OBVIOUS
<1>1. CASE UNCHANGED vars
  BY <1>1 DEF vars, Types, CallTypes, ScrapeTypes, MutexHeld
<1> QED
  BY <1>1, HandlerTypes, RenderTypes DEF Next

-----------------------------------------------------------------------------
(* The histogram is cumulative, up to the buckets that the owner of the    *)
(* mutex has still to count in.                                            *)

ToCount(b) ==
  \E r \in Requests : owner = r /\ b \in call[r].left /\ call[r].latency <= b

Settled(b) == histogram[b] + (IF ToCount(b) THEN 1 ELSE 0)

CumulativeHistogram == \A a, b \in Bounds : a <= b => Settled(a) <= Settled(b)

(* What render() has read of it is what it still is.                       *)
BucketsRead ==
  /\ scrape.pc = "lock" => scrape.left = Bounds
  /\ scrape.pc = "loads" =>
       \A b \in Bounds \ scrape.left : scrape.buckets[b] = histogram[b]

HistogramInvariant ==
  /\ Types
  /\ MutexHeld
  /\ CumulativeHistogram
  /\ BucketsRead
  /\ CumulativeBuckets

LEMMA InitHistogramInvariant == Init => HistogramInvariant
<1> SUFFICES ASSUME Init
             PROVE  CumulativeHistogram /\ BucketsRead /\ CumulativeBuckets
  BY InitTypes DEF HistogramInvariant
<1>1. \A b \in Bounds : ~ToCount(b)
  BY MetricsAssumption DEF Init, ToCount
<1>2. CumulativeHistogram
  BY <1>1 DEF Init, CumulativeHistogram, Settled
<1> QED
  BY <1>2 DEF Init, BucketsRead, CumulativeBuckets

LEMMA NothingToCount ==
  ASSUME owner \notin Requests, NEW b
  PROVE  ~ToCount(b)
BY DEF ToCount

LEMMA OthersAreNoRequests == Render \notin Requests /\ Free \notin Requests
BY MetricsAssumption

LEMMA LatenciesAreNatural == \A l \in Latencies \cup {0} : l \in Nat
BY MetricsAssumption

(* A step that leaves the histogram, its owner and the owner's work alone. *)
LEMMA HistogramUntouched ==
  ASSUME HistogramInvariant, Types',
         UNCHANGED <<histogram, owner>>,
         \A b \in Bounds : ToCount(b)' <=> ToCount(b)
  PROVE  CumulativeHistogram'
BY DEF HistogramInvariant, CumulativeHistogram, Settled

LEMMA HandlerHistogram ==
  ASSUME HistogramInvariant, NEW r \in Requests, HandlerStep(r)
  PROVE  HistogramInvariant'
<1>0. Types /\ MutexHeld /\ Types' /\ MutexHeld'
  BY HandlerTypes DEF HistogramInvariant
<1>1. CumulativeBuckets'
  <2>1. UNCHANGED scrape
    BY DEF HandlerStep, BeginRequest, AddBegin, AddFinish, Abandon, FinishRequest,
           LockHistogram, CountBucket, UnlockHistogram
  <2> QED
    BY <2>1 DEF HistogramInvariant, CumulativeBuckets
<1>2. ASSUME \/ BeginRequest(r) \/ Abandon(r)
             \/ \E c \in Counters : AddBegin(r, c) \/ AddFinish(r, c)
             \/ \E o \in Outcomes, l \in Latencies : FinishRequest(r, o, l)
      PROVE  CumulativeHistogram' /\ BucketsRead'
  <2>1. /\ UNCHANGED <<histogram, owner, scrape>>
        /\ owner # r
        /\ \A other \in Requests \ {r} : call'[other] = call[other]
    BY <1>0, <1>2
       DEF BeginRequest, Abandon, Waiting, AddBegin, AddFinish, FinishRequest,
           MutexHeld, Types, CallTypes
  <2>2. \A b \in Bounds : ToCount(b)' <=> ToCount(b)
    BY <2>1 DEF ToCount
  <2>3. CumulativeHistogram'
    BY <1>0, <2>1, <2>2, HistogramUntouched
  <2> QED
    BY <2>1, <2>3 DEF HistogramInvariant, BucketsRead
<1>3. ASSUME LockHistogram(r)
      PROVE  CumulativeHistogram' /\ BucketsRead'
  <2>1. /\ UNCHANGED <<histogram, scrape>>
        /\ owner' = r
        /\ call'[r].left = Bounds
        /\ call'[r].latency = call[r].latency
    BY <1>0, <1>3 DEF LockHistogram, Types, CallTypes
  <2>2. \A b \in Bounds : ~ToCount(b)
    BY <1>3, NothingToCount, MetricsAssumption DEF LockHistogram
  <2>3. \A b \in Bounds : ToCount(b)' <=> call[r].latency <= b
    BY <2>1 DEF ToCount
  <2>4. call[r].latency \in Nat
    <3>1. call[r].latency \in Latencies \cup {0}
      BY <1>0 DEF Types, CallTypes
    <3> QED
      BY <3>1, LatenciesAreNatural
  <2>5. \A b \in Bounds : Settled(b) = histogram[b]
    BY <1>0, <2>2 DEF Settled, Types
  <2>6. \A b \in Bounds :
          Settled(b)' = histogram[b] + (IF call[r].latency <= b THEN 1 ELSE 0)
    BY <2>1, <2>3 DEF Settled
  <2>7. ASSUME NEW a \in Bounds, NEW b \in Bounds, a <= b
        PROVE  Settled(a)' <= Settled(b)'
    <3>1. a \in Nat /\ b \in Nat /\ histogram[a] \in Nat /\ histogram[b] \in Nat
      BY <1>0, MetricsAssumption DEF Types
    <3>2. histogram[a] <= histogram[b]
      BY <2>5, <2>7 DEF HistogramInvariant, CumulativeHistogram
    <3> QED
      BY <2>4, <2>6, <2>7, <3>1, <3>2
  <2>8. CumulativeHistogram'
    BY <2>7 DEF CumulativeHistogram
  <2> QED
    BY <2>1, <2>8 DEF HistogramInvariant, BucketsRead
<1>4. ASSUME NEW b \in Bounds, CountBucket(r, b)
      PROVE  CumulativeHistogram' /\ BucketsRead'
  <2>1. /\ UNCHANGED <<owner, scrape>>
        /\ owner = r
        /\ b \in call[r].left
        /\ call'[r].left = call[r].left \ {b}
        /\ call'[r].latency = call[r].latency
    BY <1>0, <1>4 DEF CountBucket, Types, CallTypes, MutexHeld
  <2>2. \A a \in Bounds : ToCount(a) <=> a \in call[r].left /\ call[r].latency <= a
    BY <2>1 DEF ToCount
  <2>3. \A a \in Bounds :
          ToCount(a)' <=> a \in call[r].left \ {b} /\ call[r].latency <= a
    BY <2>1 DEF ToCount
  <2>4. ASSUME NEW a \in Bounds
        PROVE  Settled(a)' = Settled(a)
    <3>1. histogram[a] \in Nat
      BY <1>0 DEF Types
    <3>2. histogram'[a] = IF a = b /\ call[r].latency <= b THEN histogram[a] + 1
                                                         ELSE histogram[a]
      BY <1>0, <1>4 DEF CountBucket, Types
    <3> QED
      BY <2>1, <2>2, <2>3, <3>1, <3>2 DEF Settled
  <2>5. CumulativeHistogram'
    BY <2>4 DEF HistogramInvariant, CumulativeHistogram
  <2>6. scrape.pc # "loads"
    BY <1>0, <2>1, OthersAreNoRequests DEF MutexHeld
  <2> QED
    BY <2>1, <2>5, <2>6 DEF HistogramInvariant, BucketsRead
<1>5. ASSUME UnlockHistogram(r)
      PROVE  CumulativeHistogram' /\ BucketsRead'
  <2>1. UNCHANGED <<histogram, scrape>> /\ owner' = Free /\ owner = r
        /\ call[r].left = {}
    BY <1>0, <1>5 DEF UnlockHistogram, MutexHeld
  <2>2. \A b \in Bounds : ~ToCount(b) /\ ~ToCount(b)'
    BY <2>1, MetricsAssumption DEF ToCount
  <2>3. CumulativeHistogram'
    BY <2>1, <2>2 DEF HistogramInvariant, CumulativeHistogram, Settled
  <2> QED
    BY <2>1, <2>3 DEF HistogramInvariant, BucketsRead
<1> QED
  BY <1>0, <1>1, <1>2, <1>3, <1>4, <1>5 DEF HandlerStep, HistogramInvariant

LEMMA RenderHistogram ==
  ASSUME HistogramInvariant, RenderStep
  PROVE  HistogramInvariant'
<1>0. Types /\ MutexHeld /\ Types' /\ MutexHeld'
  BY RenderTypes DEF HistogramInvariant
<1>1. CumulativeHistogram'
  <2>1. UNCHANGED <<histogram, call>>
    BY DEF RenderStep, StartRender, LockRender, LoadCounter, LoadBucket, UnlockRender
  <2>2. \/ owner' = owner
        \/ owner \notin Requests /\ owner' \notin Requests
    <3>1. CASE LockRender \/ UnlockRender
      <4>1. owner \in {Render, Free} /\ owner' \in {Render, Free}
        BY <1>0, <3>1 DEF LockRender, UnlockRender, MutexHeld
      <4> QED
        BY <4>1, OthersAreNoRequests
    <3>2. StartRender => owner' = owner
      BY DEF StartRender
    <3>3. \A c \in Counters : LoadCounter(c) => owner' = owner
      BY DEF LoadCounter
    <3>4. \A b \in Bounds : LoadBucket(b) => owner' = owner
      BY DEF LoadBucket
    <3> QED
      BY <3>1, <3>2, <3>3, <3>4 DEF RenderStep
  <2>3. \A b \in Bounds : ToCount(b)' <=> ToCount(b)
    BY <2>1, <2>2 DEF ToCount
  <2> QED
    BY <2>1, <2>3 DEF HistogramInvariant, CumulativeHistogram, Settled
<1>2. ASSUME StartRender \/ \E c \in Counters : LoadCounter(c)
      PROVE  BucketsRead' /\ CumulativeBuckets'
  <2>1. CASE StartRender
    BY <2>1 DEF StartRender, BucketsRead, CumulativeBuckets
  <2>2. ASSUME NEW c \in Counters, LoadCounter(c)
        PROVE  BucketsRead' /\ CumulativeBuckets'
    <3>1. /\ scrape'.pc = scrape.pc
          /\ scrape'.left = scrape.left
          /\ scrape'.buckets = scrape.buckets
          /\ histogram' = histogram
      BY <1>0, <2>2 DEF LoadCounter, Types, ScrapeTypes
    <3> QED
      BY <3>1 DEF HistogramInvariant, BucketsRead, CumulativeBuckets
  <2> QED
    BY <1>2, <2>1, <2>2
<1>5. ASSUME LockRender
      PROVE  BucketsRead' /\ CumulativeBuckets'
  <2>1. scrape'.pc = "loads" /\ scrape'.left = scrape.left /\ scrape.left = Bounds
    BY <1>0, <1>5 DEF LockRender, Types, ScrapeTypes, HistogramInvariant, BucketsRead
  <2> QED
    BY <2>1 DEF BucketsRead, CumulativeBuckets
<1>3. ASSUME NEW b \in Bounds, LoadBucket(b)
      PROVE  BucketsRead' /\ CumulativeBuckets'
  BY <1>0, <1>3 DEF LoadBucket, HistogramInvariant, BucketsRead, Types,
                    ScrapeTypes, CumulativeBuckets
<1>4. ASSUME UnlockRender
      PROVE  BucketsRead' /\ CumulativeBuckets'
  <2>1. /\ scrape'.pc = "done"
        /\ scrape'.buckets = scrape.buckets
        /\ scrape.pc = "loads"
        /\ scrape.left = {}
    BY <1>0, <1>4 DEF UnlockRender, Types, ScrapeTypes
  <2>2. \A b \in Bounds : scrape.buckets[b] = histogram[b]
    BY <2>1 DEF HistogramInvariant, BucketsRead
  <2>3. \A b \in Bounds : Settled(b) = histogram[b]
    BY <1>0, <2>1, NothingToCount, MetricsAssumption DEF MutexHeld, Settled, Types
  <2>4. CumulativeBuckets'
    BY <2>1, <2>2, <2>3
       DEF HistogramInvariant, CumulativeHistogram, CumulativeBuckets
  <2> QED
    BY <2>1, <2>4 DEF BucketsRead
<1> QED
  BY <1>0, <1>1, <1>2, <1>3, <1>4, <1>5 DEF RenderStep, HistogramInvariant

LEMMA StepHistogramInvariant ==
  HistogramInvariant /\ [Next]_vars => HistogramInvariant'
<1> SUFFICES ASSUME HistogramInvariant, [Next]_vars PROVE HistogramInvariant'
  OBVIOUS
<1>1. CASE UNCHANGED vars
  <2>1. Types' /\ MutexHeld'
    BY <1>1, StepTypes DEF HistogramInvariant
  <2> QED
    BY <1>1, <2>1 DEF vars, HistogramInvariant, CumulativeHistogram, Settled,
                      ToCount, BucketsRead, CumulativeBuckets
<1> QED
  BY <1>1, HandlerHistogram, RenderHistogram DEF Next

(* Whatever handlers count while GET /metrics renders, the buckets it      *)
(* shows are cumulative: they are read under the mutex that each           *)
(* finish_request() holds over all of its buckets.                         *)
THEOREM BucketsAreCumulative == Spec => []CumulativeBuckets
<1>1. HistogramInvariant => CumulativeBuckets
  BY DEF HistogramInvariant
<1> QED
  BY <1>1, InitHistogramInvariant, StepHistogramInvariant, PTL DEF Spec

-----------------------------------------------------------------------------
(* The gauge never wraps: each request that still has to be taken out of   *)
(* it is counted in it, in whatever order begin_request() and              *)
(* finish_request() of different requests add to it.                       *)

InGauge(r) ==
  \/ call[r].pc = "begin" /\ "in_flight" \notin call[r].todo
  \/ call[r].pc = "finish" /\ "in_flight" \in call[r].todo

Gauged == {r \in Requests : InGauge(r)}

GaugeCovers ==
  /\ IsFiniteSet(Gauged)
  /\ counters.in_flight >= Cardinality(Gauged)

CountersNatural ==
  /\ \A c \in Counters : counters[c] \in Nat
  /\ \A c \in Counters : scrape.seen[c] \in Nat

GaugeInvariant == Types /\ MutexHeld /\ GaugeCovers /\ CountersNatural

LEMMA InitGaugeInvariant == Init => GaugeInvariant
<1> SUFFICES ASSUME Init PROVE GaugeCovers /\ CountersNatural
  BY InitTypes DEF GaugeInvariant
<1>1. Gauged = {}
  BY DEF Init, Calling, Gauged, InGauge
<1> QED
  BY <1>1, FS_EmptySet DEF Init, GaugeCovers, CountersNatural, Counters, Begins

LEMMA CountersOf ==
  ASSUME Types
  PROVE  /\ "in_flight" \in Counters
         /\ counters.in_flight \in Int
BY DEF Types, Counters, Begins

(* Only the calls of one handler change: who else is in the gauge is not   *)
(* affected.                                                               *)
LEMMA GaugeOfOthers ==
  ASSUME NEW r \in Requests,
         \A other \in Requests \ {r} : call'[other] = call[other]
  PROVE  /\ InGauge(r)' => Gauged' = Gauged \cup {r}
         /\ ~InGauge(r)' => Gauged' = Gauged \ {r}
         /\ InGauge(r) <=> r \in Gauged
BY DEF Gauged, InGauge

LEMMA HandlerGauge ==
  ASSUME GaugeInvariant, NEW r \in Requests, HandlerStep(r)
  PROVE  GaugeInvariant'
<1>0. Types /\ MutexHeld /\ Types' /\ MutexHeld'
  BY HandlerTypes DEF GaugeInvariant
<1>1. /\ IsFiniteSet(Gauged)
      /\ Cardinality(Gauged) \in Nat
      /\ counters.in_flight >= Cardinality(Gauged)
      /\ counters \in [Counters -> Nat]
      /\ "in_flight" \in Counters
  BY <1>0, FS_CardinalityType, CountersOf
     DEF GaugeInvariant, GaugeCovers, CountersNatural, Types
<1>2. UNCHANGED scrape
  BY DEF HandlerStep, BeginRequest, AddBegin, AddFinish, Abandon, FinishRequest,
         LockHistogram, CountBucket, UnlockHistogram
<1>3. \A other \in Requests \ {r} : call'[other] = call[other]
  BY <1>0 DEF HandlerStep, BeginRequest, AddBegin, AddFinish, Abandon,
              FinishRequest, LockHistogram, CountBucket, UnlockHistogram,
              Types, CallTypes
<1>4. ASSUME NEW c \in Counters, AddBegin(r, c)
      PROVE  GaugeCovers' /\ CountersNatural'
  <2>1. CountersNatural'
    BY <1>1, <1>2, <1>4 DEF AddBegin, GaugeInvariant, CountersNatural
  <2>2. CASE c = "in_flight"
    <3>1. ~InGauge(r) /\ InGauge(r)'
      BY <1>0, <1>4, <2>2 DEF AddBegin, InGauge, Types, CallTypes
    <3>2. Gauged' = Gauged \cup {r} /\ r \notin Gauged
      BY <1>3, <3>1, GaugeOfOthers
    <3>3. counters'.in_flight = counters.in_flight + 1
      BY <1>1, <1>4, <2>2 DEF AddBegin
    <3>4. /\ IsFiniteSet(Gauged')
          /\ Cardinality(Gauged') = Cardinality(Gauged) + 1
          /\ Cardinality(Gauged') \in Nat
      BY <1>1, <3>2, FS_AddElement, FS_CardinalityType
    <3> QED
      BY <1>1, <2>1, <3>3, <3>4 DEF GaugeCovers
  <2>3. CASE c # "in_flight"
    <3>1. InGauge(r)' <=> InGauge(r)
      BY <1>0, <1>4, <2>3 DEF AddBegin, InGauge, Types, CallTypes
    <3>2. Gauged' = Gauged
      BY <1>3, <3>1, GaugeOfOthers
    <3>3. counters'.in_flight = counters.in_flight
      BY <1>1, <1>4, <2>3 DEF AddBegin
    <3> QED
      BY <1>1, <2>1, <3>2, <3>3 DEF GaugeCovers
  <2> QED
    BY <2>2, <2>3
<1>5. ASSUME NEW c \in Counters, AddFinish(r, c)
      PROVE  GaugeCovers' /\ CountersNatural'
  <2>1. CASE c = "in_flight"
    <3>1. InGauge(r) /\ ~InGauge(r)'
      BY <1>0, <1>5, <2>1 DEF AddFinish, InGauge, Types, CallTypes
    <3>2. Gauged' = Gauged \ {r} /\ r \in Gauged
      BY <1>3, <3>1, GaugeOfOthers
    <3>3. /\ IsFiniteSet(Gauged')
          /\ Cardinality(Gauged') = Cardinality(Gauged) - 1
          /\ Cardinality(Gauged') \in Nat
      BY <1>1, <3>2, FS_RemoveElement, FS_CardinalityType
    <3>4. counters' = [counters EXCEPT !.in_flight = @ - 1]
      BY <1>5, <2>1 DEF AddFinish
    <3>5. CountersNatural'
      BY <1>1, <1>2, <3>3, <3>4 DEF GaugeInvariant, CountersNatural
    <3> QED
      BY <1>1, <3>3, <3>4, <3>5 DEF GaugeCovers
  <2>2. CASE c # "in_flight"
    <3>1. InGauge(r)' <=> InGauge(r)
      BY <1>0, <1>5, <2>2 DEF AddFinish, InGauge, Types, CallTypes
    <3>2. Gauged' = Gauged
      BY <1>3, <3>1, GaugeOfOthers
    <3>3. counters' = [counters EXCEPT ![c] = @ + 1]
      BY <1>5, <2>2 DEF AddFinish
    <3>4. CountersNatural'
      BY <1>1, <1>2, <3>3 DEF GaugeInvariant, CountersNatural
    <3> QED
      BY <1>1, <2>2, <3>2, <3>3, <3>4 DEF GaugeCovers
  <2> QED
    BY <2>1, <2>2
<1>6. CASE Abandon(r)
  <2>1. InGauge(r) /\ ~InGauge(r)'
    BY <1>0, <1>6 DEF Abandon, Waiting, InGauge, Types, CallTypes
  <2>2. Gauged' = Gauged \ {r} /\ r \in Gauged
    BY <1>3, <2>1, GaugeOfOthers
  <2>3. /\ IsFiniteSet(Gauged')
        /\ Cardinality(Gauged') = Cardinality(Gauged) - 1
        /\ Cardinality(Gauged') \in Nat
    BY <1>1, <2>2, FS_RemoveElement, FS_CardinalityType
  <2>4. GaugeCovers'
    BY <1>1, <1>6, <2>3 DEF Abandon, GaugeCovers
  <2>5. CountersNatural'
    BY <1>2, <1>6 DEF Abandon, GaugeInvariant, CountersNatural
  <2> QED
    BY <1>0, <2>4, <2>5 DEF GaugeInvariant
<1>7. CASE \/ BeginRequest(r) \/ LockHistogram(r) \/ UnlockHistogram(r)
           \/ \E o \in Outcomes, l \in Latencies : FinishRequest(r, o, l)
           \/ \E b \in Bounds : CountBucket(r, b)
  <2>1. InGauge(r)' <=> InGauge(r)
    <3>1. CASE BeginRequest(r)
      BY <1>0, <3>1 DEF BeginRequest, InGauge, Begins, Types, CallTypes
    <3>2. CASE LockHistogram(r) \/ UnlockHistogram(r)
      BY <1>0, <3>2 DEF LockHistogram, UnlockHistogram, Calling, InGauge, Types,
                        CallTypes
    <3>3. ASSUME NEW o \in Outcomes, NEW l \in Latencies, FinishRequest(r, o, l)
          PROVE  InGauge(r)' <=> InGauge(r)
      BY <1>0, <3>3 DEF FinishRequest, Waiting, InGauge, Types, CallTypes
    <3>4. ASSUME NEW b \in Bounds, CountBucket(r, b)
          PROVE  InGauge(r)' <=> InGauge(r)
      BY <1>0, <3>4 DEF CountBucket, InGauge, Types, CallTypes
    <3> QED
      BY <1>7, <3>1, <3>2, <3>3, <3>4
  <2>2. Gauged' = Gauged
    BY <1>3, <2>1, GaugeOfOthers
  <2>3. UNCHANGED counters
    BY <1>7 DEF BeginRequest, LockHistogram, UnlockHistogram, FinishRequest,
                CountBucket
  <2>4. GaugeCovers' /\ CountersNatural'
    BY <1>1, <1>2, <2>2, <2>3 DEF GaugeInvariant, GaugeCovers, CountersNatural
  <2> QED
    BY <1>0, <2>4 DEF GaugeInvariant
<1> QED
  BY <1>0, <1>4, <1>5, <1>6, <1>7 DEF HandlerStep, GaugeInvariant

LEMMA RenderGauge ==
  ASSUME GaugeInvariant, RenderStep
  PROVE  GaugeInvariant'
<1>0. Types /\ MutexHeld /\ Types' /\ MutexHeld'
  BY RenderTypes DEF GaugeInvariant
<1>1. UNCHANGED <<counters, call>>
  BY DEF RenderStep, StartRender, LockRender, LoadCounter, LoadBucket, UnlockRender
<1>2. GaugeCovers'
  BY <1>1 DEF GaugeInvariant, GaugeCovers, Gauged, InGauge
<1>3. \A c \in Counters : scrape'.seen[c] \in Nat
  <2>1. CASE StartRender
    BY <2>1 DEF StartRender
  <2>2. CASE LockRender \/ UnlockRender
    BY <1>0, <2>2 DEF LockRender, UnlockRender, GaugeInvariant, CountersNatural,
                      Types, ScrapeTypes
  <2>3. ASSUME NEW c \in Counters, LoadCounter(c)
        PROVE  \A d \in Counters : scrape'.seen[d] \in Nat
    BY <1>0, <2>3 DEF LoadCounter, GaugeInvariant, CountersNatural, Types,
                      ScrapeTypes
  <2>4. ASSUME NEW b \in Bounds, LoadBucket(b)
        PROVE  \A d \in Counters : scrape'.seen[d] \in Nat
    BY <1>0, <2>4 DEF LoadBucket, GaugeInvariant, CountersNatural, Types,
                      ScrapeTypes
  <2> QED
    BY <2>1, <2>2, <2>3, <2>4 DEF RenderStep
<1>4. CountersNatural'
  BY <1>1, <1>3 DEF GaugeInvariant, CountersNatural
<1> QED
  BY <1>0, <1>2, <1>4 DEF GaugeInvariant

LEMMA StepGaugeInvariant == GaugeInvariant /\ [Next]_vars => GaugeInvariant'
<1> SUFFICES ASSUME GaugeInvariant, [Next]_vars PROVE GaugeInvariant'
  OBVIOUS
<1>1. CASE UNCHANGED vars
  <2>1. Types' /\ MutexHeld'
    BY <1>1, StepTypes DEF GaugeInvariant
  <2> QED
    BY <1>1, <2>1 DEF vars, GaugeInvariant, GaugeCovers, Gauged, InGauge,
                      CountersNatural
<1> QED
  BY <1>1, HandlerGauge, RenderGauge DEF Next

(* No counter wraps below zero, however the atomic operations of any       *)
(* number of requests, abandoned ones included, and of a scrape interleave.*)
THEOREM MetricsTypeCorrect == Spec => []TypeOK
<1>1. GaugeInvariant => TypeOK
  <2> SUFFICES ASSUME GaugeInvariant PROVE TypeOK
    OBVIOUS
  <2>1. counters \in [Counters -> Nat]
    BY DEF GaugeInvariant, Types, CountersNatural
  <2>2. scrape.seen \in [Counters -> Nat]
    BY DEF GaugeInvariant, Types, ScrapeTypes, CountersNatural
  <2>3. scrape \in [pc : {"idle", "lock", "loads", "done"},
                    todo : SUBSET Counters, left : SUBSET Bounds,
                    seen : [Counters -> Nat], buckets : [Bounds -> Nat]]
    BY <2>2 DEF GaugeInvariant, Types, ScrapeTypes
  <2> QED
    BY <2>1, <2>3 DEF GaugeInvariant, Types, CallTypes, TypeOK
<1> QED
  BY <1>1, InitGaugeInvariant, StepGaugeInvariant, PTL DEF Spec
=============================================================================
