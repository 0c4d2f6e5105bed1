------------------------ MODULE MetricsCountingProofs ------------------------
(***************************************************************************)
(* What the counters count, for every set of requests, bounds and          *)
(* latencies: interleaved atomic by atomic, begin_request() and            *)
(* finish_request() still add up to one step each, and a scrape is off by  *)
(* no more than the requests it overlaps.                                  *)
(***************************************************************************)
EXTENDS MetricsProofs

-----------------------------------------------------------------------------
(* Sets of requests that differ in one of them at most.                    *)

One(condition) == IF condition THEN 1 ELSE 0

LEMMA OneMoved ==
  ASSUME NEW S, NEW T, NEW r, IsFiniteSet(S),
         \A other : other # r => (other \in T <=> other \in S)
  PROVE  /\ IsFiniteSet(T)
         /\ Cardinality(S) \in Nat
         /\ Cardinality(T) \in Nat
         /\ Cardinality(T) = Cardinality(S) + One(r \in T) - One(r \in S)
<1>1. Cardinality(S) \in Nat
  BY FS_CardinalityType
<1>2. CASE r \in T
  <2>1. T = S \cup {r}
    BY <1>2
  <2> QED
    BY <1>1, <1>2, <2>1, FS_AddElement, FS_CardinalityType DEF One
<1>3. CASE r \notin T
  <2>1. T = S \ {r}
    BY <1>3
  <2> QED
    BY <1>1, <1>3, <2>1, FS_RemoveElement, FS_CardinalityType DEF One
<1> QED
  BY <1>2, <1>3

(* Only finitely many requests have come so far.                           *)
Started == {r \in Requests : call[r].pc # "idle"}

(* A call works on the counters of its phase, and on one outcome.          *)
TodoOfPhase ==
  \A r \in Requests :
    /\ call[r].pc = "begin" => call[r].todo \subseteq Begins
    /\ call[r].pc = "finish" =>
         /\ call[r].todo \subseteq {"in_flight", "latency_count"} \cup Outcomes
         /\ \A o, p \in Outcomes \cap call[r].todo : o = p
    /\ call[r].pc \notin {"begin", "finish"} => call[r].todo = {}

CallInvariant ==
  /\ GaugeInvariant
  /\ IsFiniteSet(Started)
  /\ TodoOfPhase

LEMMA InitCallInvariant == Init => CallInvariant
<1> SUFFICES ASSUME Init PROVE IsFiniteSet(Started) /\ TodoOfPhase
  BY InitGaugeInvariant DEF CallInvariant
<1>1. Started = {}
  BY DEF Init, Calling, Started
<1> QED
  BY <1>1, FS_EmptySet DEF Init, Calling, TodoOfPhase

LEMMA OutcomesApart ==
  Outcomes \cap {"requests_total", "in_flight", "latency_count"} = {}
BY MetricsAssumption

LEMMA CallOf ==
  ASSUME Types, NEW r \in Requests
  PROVE  /\ call = [q \in Requests |-> call[q]]
         /\ call[r] = [pc |-> call[r].pc, todo |-> call[r].todo,
                       left |-> call[r].left, latency |-> call[r].latency]
         /\ call[r].pc \in {"idle", "begin", "abandoned", "finish", "histogram",
                            "done"}
         /\ call[r].todo \subseteq Counters
         /\ call[r].left \subseteq Bounds
BY DEF Types, CallTypes

(* A handler's step changes its own call, in one of these ways.            *)
CallBecomes(r, pc, todo, left) ==
  /\ call'[r].pc = pc
  /\ call'[r].todo = todo
  /\ call'[r].left = left
  /\ \A other \in Requests \ {r} : call'[other] = call[other]

LEMMA CallChanges ==
  ASSUME Types, NEW r \in Requests
  PROVE  /\ BeginRequest(r) =>
              call[r].pc = "idle" /\ CallBecomes(r, "begin", Begins, call[r].left)
         /\ \A c : AddBegin(r, c) =>
              call[r].pc = "begin" /\ c \in call[r].todo
                /\ CallBecomes(r, "begin", call[r].todo \ {c}, call[r].left)
         /\ Abandon(r) =>
              Waiting(r) /\ CallBecomes(r, "abandoned", call[r].todo, call[r].left)
         /\ \A o, l : FinishRequest(r, o, l) =>
              Waiting(r)
                /\ CallBecomes(r, "finish", {"in_flight", o, "latency_count"}, {})
         /\ \A c : AddFinish(r, c) =>
              call[r].pc = "finish" /\ c \in call[r].todo
                /\ CallBecomes(r, "finish", call[r].todo \ {c}, call[r].left)
         /\ LockHistogram(r) =>
              call[r].pc = "finish" /\ call[r].todo = {}
                /\ CallBecomes(r, "histogram", call[r].todo, Bounds)
         /\ \A b : CountBucket(r, b) =>
              call[r].pc = "histogram" /\ b \in call[r].left
                /\ CallBecomes(r, "histogram", call[r].todo, call[r].left \ {b})
         /\ UnlockHistogram(r) =>
              call[r].pc = "histogram" /\ call[r].left = {}
                /\ CallBecomes(r, "done", {}, {})
<1> USE DEF CallBecomes
<1>0. /\ CallTypes
      /\ call = [q \in Requests |-> call[q]]
      /\ call[r] = [pc |-> call[r].pc, todo |-> call[r].todo,
                    left |-> call[r].left, latency |-> call[r].latency]
  BY CallOf DEF Types
<1>1. BeginRequest(r) =>
        call[r].pc = "idle" /\ CallBecomes(r, "begin", Begins, call[r].left)
  <2>1. ASSUME BeginRequest(r)
        PROVE  call' = [call EXCEPT ![r] =
                          [pc |-> "begin", todo |-> Begins, left |-> call[r].left,
                           latency |-> call[r].latency]]
    BY <1>0, <2>1, CallReplaced
  <2>2. BeginRequest(r) => call[r].pc = "idle"
    BY DEF BeginRequest
  <2> QED
    BY <1>0, <2>1, <2>2
<1>2. ASSUME NEW c, AddBegin(r, c)
      PROVE  call[r].pc = "begin" /\ c \in call[r].todo
               /\ CallBecomes(r, "begin", call[r].todo \ {c}, call[r].left)
  BY <1>0, <1>2 DEF AddBegin
<1>3. Abandon(r) =>
        Waiting(r) /\ CallBecomes(r, "abandoned", call[r].todo, call[r].left)
  BY <1>0 DEF Abandon
<1>4. ASSUME NEW o, NEW l, FinishRequest(r, o, l)
      PROVE  Waiting(r)
               /\ CallBecomes(r, "finish", {"in_flight", o, "latency_count"}, {})
  BY <1>0, <1>4 DEF FinishRequest
<1>5. ASSUME NEW c, AddFinish(r, c)
      PROVE  call[r].pc = "finish" /\ c \in call[r].todo
               /\ CallBecomes(r, "finish", call[r].todo \ {c}, call[r].left)
  BY <1>0, <1>5 DEF AddFinish
<1>6. LockHistogram(r) =>
        call[r].pc = "finish" /\ call[r].todo = {}
          /\ CallBecomes(r, "histogram", call[r].todo, Bounds)
  <2>1. ASSUME LockHistogram(r)
        PROVE  call' = [call EXCEPT ![r] =
                          [pc |-> "histogram", todo |-> call[r].todo, left |-> Bounds,
                           latency |-> call[r].latency]]
    BY <1>0, <2>1, CallReplaced
  <2>2. LockHistogram(r) => call[r].pc = "finish" /\ call[r].todo = {}
    BY DEF LockHistogram
  <2> QED
    BY <1>0, <2>1, <2>2
<1>7. ASSUME NEW b, CountBucket(r, b)
      PROVE  call[r].pc = "histogram" /\ b \in call[r].left
               /\ CallBecomes(r, "histogram", call[r].todo, call[r].left \ {b})
  BY <1>0, <1>7 DEF CountBucket
<1>8. UnlockHistogram(r) =>
        call[r].pc = "histogram" /\ call[r].left = {}
          /\ CallBecomes(r, "done", {}, {})
  BY <1>0 DEF UnlockHistogram, Calling
<1> QED
  BY <1>1, <1>2, <1>3, <1>4, <1>5, <1>6, <1>7, <1>8

LEMMA HandlerCallInvariant ==
  ASSUME CallInvariant, NEW r \in Requests, HandlerStep(r)
  PROVE  CallInvariant'
<1>0. Types /\ GaugeInvariant'
  BY HandlerGauge DEF CallInvariant, GaugeInvariant
<1>1. \A other \in Requests \ {r} : call'[other] = call[other]
  BY <1>0, CallChanges DEF HandlerStep, CallBecomes
<1>2. IsFiniteSet(Started')
  <2>1. \A other : other # r => (other \in Started' <=> other \in Started)
    BY <1>1 DEF Started
  <2> QED
    BY <2>1, OneMoved DEF CallInvariant
<1>3. /\ call'[r].pc = "begin" => call'[r].todo \subseteq Begins
      /\ call'[r].pc = "finish" =>
           /\ call'[r].todo \subseteq {"in_flight", "latency_count"} \cup Outcomes
           /\ \A o, p \in Outcomes \cap call'[r].todo : o = p
      /\ call'[r].pc \notin {"begin", "finish"} => call'[r].todo = {}
  <2>1. CASE BeginRequest(r) \/ \E c \in Counters : AddBegin(r, c)
    BY <1>0, <2>1, CallChanges DEF CallBecomes, CallInvariant, TodoOfPhase
  <2>2. CASE Abandon(r)
    BY <1>0, <2>2, CallChanges DEF CallBecomes, Waiting
  <2>3. ASSUME NEW o \in Outcomes, NEW l \in Latencies, FinishRequest(r, o, l)
        PROVE  /\ call'[r].pc = "finish"
               /\ call'[r].todo \subseteq {"in_flight", "latency_count"} \cup Outcomes
               /\ \A p \in Outcomes \cap call'[r].todo : p = o
    BY <1>0, <2>3, CallChanges, OutcomesApart DEF CallBecomes
  <2>4. ASSUME NEW c \in Counters, AddFinish(r, c)
        PROVE  /\ call'[r].pc = "finish"
               /\ call'[r].todo \subseteq call[r].todo
               /\ call[r].todo \subseteq {"in_flight", "latency_count"} \cup Outcomes
               /\ \A o, p \in Outcomes \cap call[r].todo : o = p
    BY <1>0, <2>4, CallChanges DEF CallBecomes, CallInvariant, TodoOfPhase
  <2>5. CASE LockHistogram(r) \/ (\E b \in Bounds : CountBucket(r, b))
             \/ UnlockHistogram(r)
    BY <1>0, <2>5, CallChanges DEF CallBecomes, CallInvariant, TodoOfPhase
  <2> QED
    BY <2>1, <2>2, <2>3, <2>4, <2>5 DEF HandlerStep
<1>4. TodoOfPhase'
  BY <1>1, <1>3 DEF CallInvariant, TodoOfPhase
<1> QED
  BY <1>0, <1>2, <1>4 DEF CallInvariant

LEMMA RenderCallInvariant ==
  ASSUME CallInvariant, RenderStep
  PROVE  CallInvariant'
<1>1. UNCHANGED call
  BY DEF RenderStep, StartRender, LockRender, LoadCounter, LoadBucket, UnlockRender
<1>2. GaugeInvariant'
  BY RenderGauge DEF CallInvariant
<1> QED
  BY <1>1, <1>2 DEF CallInvariant, Started, TodoOfPhase

LEMMA StepCallInvariant == CallInvariant /\ [Next]_vars => CallInvariant'
<1> SUFFICES ASSUME CallInvariant, [Next]_vars PROVE CallInvariant'
  OBVIOUS
<1>1. CASE UNCHANGED vars
  <2>1. GaugeInvariant'
    BY StepGaugeInvariant DEF CallInvariant
  <2> QED
    BY <1>1, <2>1 DEF vars, CallInvariant, Started, TodoOfPhase
<1> QED
  BY <1>1, HandlerCallInvariant, RenderCallInvariant DEF Next

-----------------------------------------------------------------------------
(* The refinement.  What is left to add to a counter changes by the call   *)
(* that makes the step, and by nothing else.                               *)

ToAdd(r, c, pc) == call[r].pc = pc /\ c \in call[r].todo

LEMMA LeftNat ==
  ASSUME CallInvariant, NEW c, NEW pc \in {"begin", "finish"}
  PROVE  /\ IsFiniteSet({r \in Requests : ToAdd(r, c, pc)})
         /\ Left(c, pc) = Cardinality({r \in Requests : ToAdd(r, c, pc)})
         /\ Left(c, pc) \in Nat
<1>1. {r \in Requests : ToAdd(r, c, pc)} \subseteq Started
  BY DEF ToAdd, Started
<1> QED
  BY <1>1, FS_Subset, FS_CardinalityType DEF CallInvariant, Left, ToAdd

LEMMA LeftChanges ==
  ASSUME CallInvariant, NEW r \in Requests,
         \A other \in Requests \ {r} : call'[other] = call[other],
         NEW c, NEW pc \in {"begin", "finish"}
  PROVE  Left(c, pc)' = Left(c, pc) + One(ToAdd(r, c, pc)') - One(ToAdd(r, c, pc))
<1> DEFINE Before == {q \in Requests : ToAdd(q, c, pc)}
           After  == {q \in Requests : ToAdd(q, c, pc)'}
<1>1. \A other : other # r => (other \in After <=> other \in Before)
  BY DEF ToAdd
<1>2. r \in After <=> ToAdd(r, c, pc)'
  OBVIOUS
<1>3. r \in Before <=> ToAdd(r, c, pc)
  OBVIOUS
<1>4. IsFiniteSet(Before) /\ Left(c, pc) = Cardinality(Before)
  BY LeftNat
<1>5. Left(c, pc)' = Cardinality(After)
  BY DEF Left, ToAdd
<1> HIDE DEF Before, After
<1>6. Cardinality(After) = Cardinality(Before) + One(r \in After) - One(r \in Before)
  BY <1>1, <1>4, OneMoved
<1> QED
  BY <1>2, <1>3, <1>4, <1>5, <1>6 DEF One

LEMMA TotalOf ==
  ASSUME CallInvariant, NEW c \in Begins \cup Outcomes
  PROVE  /\ c \in Counters
         /\ counters[c] \in Nat
         /\ Left(c, "begin") \in Nat
         /\ Left(c, "finish") \in Nat
         /\ totalsBar[c] = IF c = "in_flight"
                           THEN counters[c] + Left(c, "begin") - Left(c, "finish")
                           ELSE counters[c] + Left(c, "begin") + Left(c, "finish")
<1>1. c \in Counters /\ counters[c] \in Nat
  BY DEF CallInvariant, GaugeInvariant, CountersNatural, Counters
<1>2. Left(c, "begin") \in Nat /\ Left(c, "finish") \in Nat
  BY LeftNat
<1> QED
  BY <1>1, <1>2 DEF totalsBar

LEMMA BarFunction ==
  /\ totalsBar = [c \in Begins \cup Outcomes |-> totalsBar[c]]
  /\ totalsBar' = [c \in Begins \cup Outcomes |-> totalsBar'[c]]
BY DEF totalsBar

(* How far a step of a handler moves the total that is seen through the    *)
(* counter and what is left to add to it.                                  *)
LEMMA TotalMoves ==
  ASSUME CallInvariant, CallInvariant', NEW r \in Requests,
         \A other \in Requests \ {r} : call'[other] = call[other],
         NEW c \in Begins \cup Outcomes
  PROVE  totalsBar'[c] =
           totalsBar[c] + (counters'[c] - counters[c])
             + One(ToAdd(r, c, "begin")') - One(ToAdd(r, c, "begin"))
             + (IF c = "in_flight"
                THEN One(ToAdd(r, c, "finish")) - One(ToAdd(r, c, "finish")')
                ELSE One(ToAdd(r, c, "finish")') - One(ToAdd(r, c, "finish")))
<1>1. /\ counters'[c] \in Nat
      /\ Left(c, "begin")' \in Nat
      /\ Left(c, "finish")' \in Nat
      /\ totalsBar'[c] = IF c = "in_flight"
                         THEN counters'[c] + Left(c, "begin")' - Left(c, "finish")'
                         ELSE counters'[c] + Left(c, "begin")' + Left(c, "finish")'
  <2>1. CallInvariant' => /\ counters'[c] \in Nat
                          /\ IsFiniteSet(Started')
    BY DEF CallInvariant, GaugeInvariant, CountersNatural, Counters
  <2>2. Left(c, "begin")' \in Nat /\ Left(c, "finish")' \in Nat
    <3>1. ASSUME NEW pc \in {"begin", "finish"}
          PROVE  Left(c, pc)' \in Nat
      <4>1. {q \in Requests : call'[q].pc = pc /\ c \in call'[q].todo} \subseteq Started'
        BY DEF Started
      <4> QED
        BY <2>1, <4>1, FS_Subset, FS_CardinalityType DEF Left
    <3> QED
      BY <3>1
  <2> QED
    BY <2>1, <2>2 DEF totalsBar
<1>2. /\ Left(c, "begin")' = Left(c, "begin") + One(ToAdd(r, c, "begin")')
                                - One(ToAdd(r, c, "begin"))
      /\ Left(c, "finish")' = Left(c, "finish") + One(ToAdd(r, c, "finish")')
                                - One(ToAdd(r, c, "finish"))
  BY LeftChanges
<1>3. /\ One(ToAdd(r, c, "begin")) \in Nat /\ One(ToAdd(r, c, "begin")') \in Nat
      /\ One(ToAdd(r, c, "finish")) \in Nat /\ One(ToAdd(r, c, "finish")') \in Nat
  BY DEF One
<1> HIDE DEF One
<1> QED
  BY <1>1, <1>2, <1>3, TotalOf

(* What is counted but not yet added, or taken out but not yet subtracted, *)
(* makes no difference to the totals.                                      *)
LEMMA AddMovesNothing ==
  ASSUME CallInvariant, CallInvariant', NEW r \in Requests, NEW c \in Counters,
         AddBegin(r, c) \/ AddFinish(r, c)
  PROVE  UNCHANGED totalsBar
<1>0. Types /\ counters \in [Counters -> Nat]
  BY DEF CallInvariant, GaugeInvariant, Types, CountersNatural
<1>1. ASSUME NEW d \in Begins \cup Outcomes
      PROVE  totalsBar'[d] = totalsBar[d]
  <2>1. d \in Counters /\ counters[d] \in Nat /\ totalsBar[d] \in Int
    BY TotalOf
  <2>2. CASE AddBegin(r, c)
    <3>1. /\ call[r].pc = "begin" /\ call'[r].pc = "begin" /\ c \in call[r].todo
          /\ call'[r].todo = call[r].todo \ {c}
          /\ \A other \in Requests \ {r} : call'[other] = call[other]
          /\ counters'[d] = IF d = c THEN counters[d] + 1 ELSE counters[d]
      BY <1>0, <2>1, <2>2, CallChanges DEF CallBecomes, AddBegin
    <3>2. /\ One(ToAdd(r, d, "begin")) - One(ToAdd(r, d, "begin")')
               = IF d = c THEN 1 ELSE 0
          /\ One(ToAdd(r, d, "finish")) = 0 /\ One(ToAdd(r, d, "finish")') = 0
          /\ One(ToAdd(r, d, "begin")) \in Nat /\ One(ToAdd(r, d, "begin")') \in Nat
      BY <3>1 DEF One, ToAdd
    <3> QED
      BY <2>1, <3>1, <3>2, TotalMoves
  <2>3. CASE AddFinish(r, c)
    <3>1. /\ call[r].pc = "finish" /\ call'[r].pc = "finish" /\ c \in call[r].todo
          /\ call'[r].todo = call[r].todo \ {c}
          /\ \A other \in Requests \ {r} : call'[other] = call[other]
          /\ counters'[d] = IF d = c THEN (IF c = "in_flight" THEN counters[d] - 1
                                                              ELSE counters[d] + 1)
                                     ELSE counters[d]
      BY <1>0, <2>1, <2>3, CallChanges DEF CallBecomes, AddFinish
    <3>2. /\ One(ToAdd(r, d, "finish")) - One(ToAdd(r, d, "finish")')
               = IF d = c THEN 1 ELSE 0
          /\ One(ToAdd(r, d, "begin")) = 0 /\ One(ToAdd(r, d, "begin")') = 0
          /\ One(ToAdd(r, d, "finish")) \in Nat /\ One(ToAdd(r, d, "finish")') \in Nat
      BY <3>1 DEF One, ToAdd
    <3> QED
      BY <2>1, <3>1, <3>2, TotalMoves
  <2> QED
    BY <2>2, <2>3
<1> QED
  BY <1>1, BarFunction

LEMMA BeginCounts ==
  ASSUME CallInvariant, CallInvariant', NEW r \in Requests, BeginRequest(r)
  PROVE  Atomic!Begin
<1>0. Types /\ counters' = counters
  BY DEF CallInvariant, GaugeInvariant, BeginRequest
<1>1. /\ call[r].pc = "idle" /\ call'[r].pc = "begin" /\ call'[r].todo = Begins
      /\ \A other \in Requests \ {r} : call'[other] = call[other]
  BY <1>0, CallChanges DEF CallBecomes
<1>2. ASSUME NEW d \in Begins \cup Outcomes
      PROVE  totalsBar'[d] = IF d \in Begins THEN totalsBar[d] + 1 ELSE totalsBar[d]
  <2>1. counters[d] \in Nat /\ counters'[d] = counters[d] /\ totalsBar[d] \in Int
    BY <1>0, TotalOf
  <2>2. /\ One(ToAdd(r, d, "begin")) = 0
        /\ One(ToAdd(r, d, "begin")') = IF d \in Begins THEN 1 ELSE 0
        /\ One(ToAdd(r, d, "finish")) = 0 /\ One(ToAdd(r, d, "finish")') = 0
    BY <1>1 DEF One, ToAdd
  <2> QED
    BY <1>1, <2>1, <2>2, TotalMoves
<1>3. totalsBar' = [totalsBar EXCEPT !.requests_total = @ + 1, !.in_flight = @ + 1]
  BY <1>2, BarFunction, OutcomesApart DEF Begins
<1> QED
  BY <1>3 DEF Atomic!Begin

LEMMA FinishCounts ==
  ASSUME CallInvariant, CallInvariant', NEW r \in Requests, NEW o \in Outcomes,
         NEW l \in Latencies, FinishRequest(r, o, l)
  PROVE  Atomic!Finish(o)
<1>0. Types /\ counters' = counters
  BY DEF CallInvariant, GaugeInvariant, FinishRequest
<1>1. /\ call[r].pc = "begin" /\ call[r].todo = {}
      /\ call'[r].pc = "finish"
      /\ call'[r].todo = {"in_flight", o, "latency_count"}
      /\ \A other \in Requests \ {r} : call'[other] = call[other]
  BY <1>0, CallChanges DEF CallBecomes, Waiting
<1>2. ASSUME NEW d \in Begins \cup Outcomes
      PROVE  totalsBar'[d] = IF d = "in_flight" THEN totalsBar[d] - 1
                             ELSE IF d = o THEN totalsBar[d] + 1 ELSE totalsBar[d]
  <2>1. counters[d] \in Nat /\ counters'[d] = counters[d] /\ totalsBar[d] \in Int
    BY <1>0, TotalOf
  <2>2. /\ One(ToAdd(r, d, "begin")) = 0 /\ One(ToAdd(r, d, "begin")') = 0
        /\ One(ToAdd(r, d, "finish")) = 0
        /\ One(ToAdd(r, d, "finish")') = IF d \in {"in_flight", o} THEN 1 ELSE 0
    BY <1>1, OutcomesApart DEF One, ToAdd, Begins
  <2> QED
    BY <1>1, <2>1, <2>2, TotalMoves
<1>3. totalsBar' = [totalsBar EXCEPT !.in_flight = @ - 1, ![o] = @ + 1]
  BY <1>2, BarFunction, OutcomesApart DEF Begins
<1>4. totalsBar.in_flight > 0
  <2> DEFINE Sub == {q \in Requests : ToAdd(q, "in_flight", "finish")}
  <2>1. "in_flight" \in Begins
    BY DEF Begins
  <2>2. /\ counters.in_flight \in Nat
        /\ Left("in_flight", "begin") \in Nat
        /\ totalsBar.in_flight = counters.in_flight + Left("in_flight", "begin")
                                   - Left("in_flight", "finish")
    BY <2>1, TotalOf
  <2>3. /\ IsFiniteSet(Sub)
        /\ Left("in_flight", "finish") = Cardinality(Sub)
        /\ Cardinality(Sub) \in Nat
    BY LeftNat
  <2>4. Sub \cup {r} \subseteq Gauged /\ r \notin Sub
    BY <1>1 DEF Gauged, InGauge, ToAdd
  <2>5. /\ IsFiniteSet(Gauged)
        /\ Cardinality(Gauged) \in Nat
        /\ counters.in_flight >= Cardinality(Gauged)
    BY FS_CardinalityType DEF CallInvariant, GaugeInvariant, GaugeCovers
  <2>6. Cardinality(Sub \cup {r}) = Cardinality(Sub) + 1
    BY <2>3, <2>4, FS_AddElement
  <2>7. Cardinality(Sub \cup {r}) <= Cardinality(Gauged)
    BY <2>4, <2>5, FS_Subset
  <2> QED
    BY <2>2, <2>3, <2>5, <2>6, <2>7
<1> QED
  BY <1>3, <1>4 DEF Atomic!Finish

LEMMA OtherMovesNothing ==
  ASSUME CallInvariant, CallInvariant', NEW r \in Requests,
         \/ Abandon(r) \/ LockHistogram(r) \/ UnlockHistogram(r)
         \/ \E b \in Bounds : CountBucket(r, b)
  PROVE  UNCHANGED totalsBar
<1>0. Types /\ counters' = counters
  BY DEF CallInvariant, GaugeInvariant, Abandon, LockHistogram, CountBucket,
         UnlockHistogram
<1>1. /\ call[r].todo = {} \/ call[r].pc = "histogram"
      /\ call'[r].pc \in {"abandoned", "histogram", "done"}
      /\ \A other \in Requests \ {r} : call'[other] = call[other]
  BY <1>0, CallChanges DEF CallBecomes, Waiting
<1>2. ASSUME NEW d \in Begins \cup Outcomes
      PROVE  totalsBar'[d] = totalsBar[d]
  <2>1. counters[d] \in Nat /\ counters'[d] = counters[d] /\ totalsBar[d] \in Int
    BY <1>0, TotalOf
  <2>2. /\ One(ToAdd(r, d, "begin")) = 0 /\ One(ToAdd(r, d, "begin")') = 0
        /\ One(ToAdd(r, d, "finish")) = 0 /\ One(ToAdd(r, d, "finish")') = 0
    BY <1>1 DEF One, ToAdd
  <2> QED
    BY <1>1, <2>1, <2>2, TotalMoves
<1> QED
  BY <1>2, BarFunction

LEMMA InitCountsNothing == Init => Atomic!Init
<1> SUFFICES ASSUME Init PROVE Atomic!Init
  OBVIOUS
<1>1. \A c : Left(c, "begin") = 0 /\ Left(c, "finish") = 0
  BY FS_EmptySet DEF Init, Calling, Left
<1>2. \A c \in Begins \cup Outcomes : counters[c] = 0
  BY DEF Init, Counters
<1>3. \A c \in Begins \cup Outcomes : totalsBar[c] = 0
  BY <1>1, <1>2 DEF totalsBar
<1> QED
  BY <1>3, BarFunction DEF Atomic!Init, Begins

LEMMA StepCounts ==
  CallInvariant /\ CallInvariant' /\ [Next]_vars => [Atomic!Next]_totalsBar
<1> SUFFICES ASSUME CallInvariant, CallInvariant', [Next]_vars
             PROVE  Atomic!Next \/ UNCHANGED totalsBar
  OBVIOUS
<1>1. CASE RenderStep \/ UNCHANGED vars
  <2>1. UNCHANGED <<counters, call>>
    BY <1>1 DEF RenderStep, StartRender, LockRender, LoadCounter, LoadBucket,
                UnlockRender, vars
  <2> QED
    BY <2>1 DEF totalsBar, Left
<1>2. ASSUME NEW r \in Requests, HandlerStep(r)
      PROVE  Atomic!Next \/ UNCHANGED totalsBar
  BY <1>2, AddMovesNothing, BeginCounts, FinishCounts, OtherMovesNothing
     DEF HandlerStep, Atomic!Next
<1> QED
  BY <1>1, <1>2 DEF Next

(* No update is lost or doubled, for any number of requests: the atomic    *)
(* operations of all calls, in whatever order they become visible, add up  *)
(* to one step for each begin_request() and one for each finish_request(), *)
(* and the gauge covers every request that is taken out of it.             *)
THEOREM MetricsImplementCounters == Spec => ImplementsCounters
BY InitCallInvariant, StepCallInvariant, InitCountsNothing, StepCounts,
   PTL DEF Spec, ImplementsCounters, Atomic!Spec

-----------------------------------------------------------------------------
(* What each counter counts: the requests whose addition it has seen.  The *)
(* outcomes are taken together, and the latency buckets count no request   *)
(* that has not been at the histogram.                                     *)

Counted(what, r) ==
  \/ /\ what = "requests_total"
     /\ call[r].pc # "idle"
     /\ ~(call[r].pc = "begin" /\ "requests_total" \in call[r].todo)
  \/ /\ what = "in_flight"
     /\ InGauge(r) \/ call[r].pc = "abandoned"
  \/ /\ what = "latency_count"
     /\ \/ call[r].pc = "finish" /\ "latency_count" \notin call[r].todo
        \/ call[r].pc \in {"histogram", "done"}
  \/ /\ what = "answered"
     /\ \/ call[r].pc = "finish" /\ call[r].todo \cap Outcomes = {}
        \/ call[r].pc \in {"histogram", "done"}
  \/ /\ what = "buckets"
     /\ call[r].pc \in {"histogram", "done"}

CountedBy(what) == {r \in Requests : Counted(what, r)}

InBucket(b, r) ==
  \/ call[r].pc = "done"
  \/ call[r].pc = "histogram" /\ b \notin call[r].left

BucketOf(b) == {r \in Requests : InBucket(b, r)}

Single == {"requests_total", "in_flight", "latency_count"}

CountersMean ==
  /\ \A c \in Single : counters[c] = Cardinality(CountedBy(c))
  /\ Answered(counters) = Cardinality(CountedBy("answered"))
  /\ \A b \in Bounds : histogram[b] <= Cardinality(BucketOf(b))

LEMMA AnsweredInt ==
  ASSUME NEW f, \A o \in Outcomes : f[o] \in Int
  PROVE  Answered(f) \in Int
BY DEF Answered

LEMMA AnsweredMonotone ==
  ASSUME NEW f, NEW g, \A o \in Outcomes : f[o] \in Int /\ g[o] \in Int,
         \A o \in Outcomes : f[o] <= g[o]
  PROVE  Answered(f) <= Answered(g)
BY DEF Answered

LEMMA AnsweredSame ==
  ASSUME NEW f, NEW g, \A o \in Outcomes : f[o] = g[o]
  PROVE  Answered(f) = Answered(g)
BY DEF Answered

LEMMA AnsweredOneMore ==
  ASSUME NEW f, NEW g, NEW outcome \in Outcomes, \A o \in Outcomes : f[o] \in Int,
         \A o \in Outcomes : g[o] = IF o = outcome THEN f[o] + 1 ELSE f[o]
  PROVE  Answered(g) = Answered(f) + 1
BY MetricsAssumption DEF Answered

LEMMA CountedFinite ==
  ASSUME CallInvariant, NEW what
  PROVE  IsFiniteSet(CountedBy(what)) /\ Cardinality(CountedBy(what)) \in Nat
<1>1. CountedBy(what) \subseteq Started
  BY DEF CountedBy, Counted, InGauge, Started
<1> QED
  BY <1>1, FS_Subset, FS_CardinalityType DEF CallInvariant

LEMMA BucketFinite ==
  ASSUME CallInvariant, NEW b
  PROVE  IsFiniteSet(BucketOf(b)) /\ Cardinality(BucketOf(b)) \in Nat
<1>1. BucketOf(b) \subseteq Started
  BY DEF BucketOf, InBucket, Started
<1> QED
  BY <1>1, FS_Subset, FS_CardinalityType DEF CallInvariant

LEMMA CountMoves ==
  ASSUME CallInvariant, NEW r \in Requests,
         \A other \in Requests \ {r} : call'[other] = call[other], NEW what
  PROVE  Cardinality(CountedBy(what))' =
           Cardinality(CountedBy(what)) + One(Counted(what, r)') - One(Counted(what, r))
<1> DEFINE Before == CountedBy(what)
           After  == CountedBy(what)'
<1>1. \A other : other # r => (other \in After <=> other \in Before)
  BY DEF CountedBy, Counted, InGauge
<1>2. /\ r \in After <=> Counted(what, r)'
      /\ r \in Before <=> Counted(what, r)
  BY DEF CountedBy
<1>3. IsFiniteSet(Before)
  BY CountedFinite
<1> HIDE DEF Before, After
<1>4. Cardinality(After) = Cardinality(Before) + One(r \in After) - One(r \in Before)
  BY <1>1, <1>3, OneMoved
<1> QED
  BY <1>2, <1>4 DEF One, Before, After

LEMMA BucketMoves ==
  ASSUME CallInvariant, NEW r \in Requests,
         \A other \in Requests \ {r} : call'[other] = call[other], NEW b
  PROVE  Cardinality(BucketOf(b))' =
           Cardinality(BucketOf(b)) + One(InBucket(b, r)') - One(InBucket(b, r))
<1> DEFINE Before == BucketOf(b)
           After  == BucketOf(b)'
<1>1. \A other : other # r => (other \in After <=> other \in Before)
  BY DEF BucketOf, InBucket
<1>2. /\ r \in After <=> InBucket(b, r)'
      /\ r \in Before <=> InBucket(b, r)
  BY DEF BucketOf
<1>3. IsFiniteSet(Before)
  BY BucketFinite
<1> HIDE DEF Before, After
<1>4. Cardinality(After) = Cardinality(Before) + One(r \in After) - One(r \in Before)
  BY <1>1, <1>3, OneMoved
<1> QED
  BY <1>2, <1>4 DEF One, Before, After

(* The steps that add to a counter, or take from it, and the others.       *)
LEMMA AddsMean ==
  ASSUME CallInvariant, CountersMean, NEW r \in Requests, NEW c \in Counters,
         AddBegin(r, c) \/ AddFinish(r, c)
  PROVE  CountersMean'
<1>0. /\ Types
      /\ counters \in [Counters -> Nat]
      /\ Single \subseteq Counters /\ Outcomes \subseteq Counters
      /\ Single \cap Outcomes = {}
  BY OutcomesApart
     DEF CallInvariant, GaugeInvariant, Types, CountersNatural, Counters, Begins, Single
<1>1. /\ \A other \in Requests \ {r} : call'[other] = call[other]
      /\ call'[r].pc = call[r].pc
      /\ c \in call[r].todo /\ call'[r].todo = call[r].todo \ {c}
      /\ call[r].pc \in {"begin", "finish"}
  BY <1>0, CallChanges DEF CallBecomes
<1>2. /\ call[r].pc = "begin" => c \in Begins
      /\ call[r].pc = "finish" => c \in {"in_flight", "latency_count"} \cup Outcomes
      /\ call[r].pc = "finish" => \A o, p \in Outcomes \cap call[r].todo : o = p
  BY <1>1 DEF CallInvariant, TodoOfPhase
<1>3. \A d \in Counters : counters'[d] =
        IF d # c THEN counters[d]
        ELSE IF c = "in_flight" /\ call[r].pc = "finish" THEN counters[d] - 1
        ELSE counters[d] + 1
  BY <1>0, CallChanges DEF AddBegin, AddFinish
<1>4. ASSUME NEW d \in Single
      PROVE  counters'[d] = Cardinality(CountedBy(d))'
  <2>1. counters'[d] = counters[d] + One(Counted(d, r)') - One(Counted(d, r))
    <3>1. CASE d # c
      <4>1. Counted(d, r)' <=> Counted(d, r)
        BY <1>1, <3>1 DEF Counted, InGauge, Single
      <4> QED
        BY <1>0, <1>3, <3>1, <4>1 DEF One
    <3>2. CASE d = c /\ call[r].pc = "finish" /\ d = "in_flight"
      <4>1. ~Counted(d, r)' /\ Counted(d, r)
        BY <1>1, <3>2 DEF Counted, InGauge
      <4> QED
        BY <1>0, <1>3, <3>2, <4>1 DEF One
    <3>3. CASE d = c /\ ~(call[r].pc = "finish" /\ d = "in_flight")
      <4>1. Counted(d, r)' /\ ~Counted(d, r)
        BY <1>0, <1>1, <1>2, <3>3, OutcomesApart DEF Counted, InGauge, Single, Begins
      <4> QED
        BY <1>0, <1>3, <3>3, <4>1 DEF One
    <3> QED
      BY <3>1, <3>2, <3>3
  <2> QED
    BY <1>1, <2>1, CountMoves DEF CountersMean
<1>5. Answered(counters') = Cardinality(CountedBy("answered"))'
  <2>1. CASE c \in Outcomes
    <3>1. Counted("answered", r)' /\ ~Counted("answered", r)
      BY <1>1, <1>2, <2>1, OutcomesApart DEF Counted, Begins
    <3>2. Answered(counters') = Answered(counters) + 1
      <4>1. c # "in_flight"
        BY <2>1, OutcomesApart
      <4>2. \A o \in Outcomes :
              counters'[o] = IF o = c THEN counters[o] + 1 ELSE counters[o]
        BY <1>0, <1>3, <4>1
      <4> QED
        BY <1>0, <2>1, <4>2, AnsweredOneMore
    <3>3. Cardinality(CountedBy("answered"))' = Cardinality(CountedBy("answered")) + 1
      BY <1>1, <3>1, CountMoves, CountedFinite DEF One
    <3> QED
      BY <3>2, <3>3 DEF CountersMean
  <2>2. CASE c \notin Outcomes
    <3>1. Counted("answered", r)' <=> Counted("answered", r)
      BY <1>1, <2>2 DEF Counted
    <3>2. Answered(counters') = Answered(counters)
      BY <1>0, <1>3, <2>2, AnsweredSame
    <3>3. Cardinality(CountedBy("answered"))' = Cardinality(CountedBy("answered"))
      BY <1>1, <3>1, CountMoves, CountedFinite DEF One
    <3> QED
      BY <3>2, <3>3 DEF CountersMean
  <2> QED
    BY <2>1, <2>2
<1>6. ASSUME NEW b \in Bounds
      PROVE  histogram'[b] <= Cardinality(BucketOf(b))'
  <2>1. InBucket(b, r)' <=> InBucket(b, r)
    BY <1>1 DEF InBucket
  <2>2. Cardinality(BucketOf(b))' = Cardinality(BucketOf(b))
    BY <1>1, <2>1, BucketMoves, BucketFinite DEF One
  <2>3. histogram' = histogram
    BY DEF AddBegin, AddFinish
  <2> QED
    BY <2>2, <2>3 DEF CountersMean
<1> QED
  BY <1>4, <1>5, <1>6 DEF CountersMean

LEMMA OthersMean ==
  ASSUME CallInvariant, CountersMean, NEW r \in Requests,
         \/ BeginRequest(r) \/ Abandon(r) \/ LockHistogram(r) \/ UnlockHistogram(r)
         \/ \E o \in Outcomes, l \in Latencies : FinishRequest(r, o, l)
         \/ \E b \in Bounds : CountBucket(r, b)
  PROVE  CountersMean'
<1>0. Types /\ counters' = counters /\ histogram \in [Bounds -> Nat]
  BY DEF CallInvariant, GaugeInvariant, Types, BeginRequest, Abandon, LockHistogram,
         UnlockHistogram, FinishRequest, CountBucket
<1>1. \A other \in Requests \ {r} : call'[other] = call[other]
  BY <1>0, CallChanges DEF CallBecomes
<1>2. ASSUME NEW what \in Single \cup {"answered"}
      PROVE  Counted(what, r)' <=> Counted(what, r)
  <2>1. CASE BeginRequest(r)
    BY <1>0, <2>1, CallChanges DEF CallBecomes, Counted, InGauge, Begins, Single
  <2>2. CASE Abandon(r)
    BY <1>0, <2>2, CallChanges DEF CallBecomes, Counted, InGauge, Waiting, Single
  <2>3. ASSUME NEW o \in Outcomes, NEW l \in Latencies, FinishRequest(r, o, l)
        PROVE  Counted(what, r)' <=> Counted(what, r)
    BY <1>0, <2>3, CallChanges DEF CallBecomes, Counted, InGauge, Waiting, Single
  <2>4. CASE LockHistogram(r)
    BY <1>0, <2>4, CallChanges DEF CallBecomes, Counted, InGauge, Single
  <2>5. CASE UnlockHistogram(r) \/ \E b \in Bounds : CountBucket(r, b)
    BY <1>0, <2>5, CallChanges DEF CallBecomes, Counted, InGauge, Single
  <2> QED
    BY <2>1, <2>2, <2>3, <2>4, <2>5
<1>3. ASSUME NEW what \in Single \cup {"answered"}
      PROVE  Cardinality(CountedBy(what))' = Cardinality(CountedBy(what))
  BY <1>1, <1>2, CountMoves, CountedFinite DEF One
<1>4. ASSUME NEW b \in Bounds
      PROVE  histogram'[b] <= Cardinality(BucketOf(b))'
  <2>0. histogram[b] \in Nat /\ histogram[b] <= Cardinality(BucketOf(b))
        /\ Cardinality(BucketOf(b)) \in Nat
    BY <1>0, BucketFinite DEF CountersMean
  <2>1. CASE CountBucket(r, b)
    <3>1. InBucket(b, r)' /\ ~InBucket(b, r)
      BY <1>0, <2>1, CallChanges DEF CallBecomes, InBucket
    <3>2. histogram'[b] <= histogram[b] + 1
      BY <1>0, <2>0, <2>1 DEF CountBucket
    <3>3. histogram'[b] \in Nat
      BY <1>0, <2>0, <2>1 DEF CountBucket
    <3>4. Cardinality(BucketOf(b))' = Cardinality(BucketOf(b)) + 1
      BY <1>1, <2>0, <3>1, BucketMoves DEF One
    <3> QED
      BY <2>0, <3>2, <3>3, <3>4
  <2>2. CASE ~CountBucket(r, b)
    <3>1. InBucket(b, r)' <=> InBucket(b, r)
      <4>1. ASSUME NEW other \in Bounds, other # b, CountBucket(r, other)
            PROVE  InBucket(b, r)' <=> InBucket(b, r)
        BY <1>0, <4>1, CallChanges DEF CallBecomes, InBucket
      <4>2. CASE BeginRequest(r) \/ Abandon(r) \/ LockHistogram(r) \/ UnlockHistogram(r)
                 \/ \E o \in Outcomes, l \in Latencies : FinishRequest(r, o, l)
        BY <1>0, <4>2, CallChanges DEF CallBecomes, InBucket, Waiting
      <4> QED
        BY <2>2, <4>1, <4>2
    <3>2. histogram'[b] = histogram[b]
      <4>1. ASSUME NEW other \in Bounds, other # b, CountBucket(r, other)
            PROVE  histogram'[b] = histogram[b]
        BY <1>0, <4>1 DEF CountBucket
      <4>2. CASE BeginRequest(r) \/ Abandon(r) \/ LockHistogram(r) \/ UnlockHistogram(r)
                 \/ \E o \in Outcomes, l \in Latencies : FinishRequest(r, o, l)
        BY <4>2 DEF BeginRequest, Abandon, LockHistogram, UnlockHistogram, FinishRequest
      <4> QED
        BY <2>2, <4>1, <4>2
    <3>3. Cardinality(BucketOf(b))' = Cardinality(BucketOf(b))
      BY <1>1, <2>0, <3>1, BucketMoves DEF One
    <3> QED
      BY <2>0, <3>2, <3>3
  <2> QED
    BY <2>1, <2>2
<1> QED
  BY <1>0, <1>3, <1>4 DEF CountersMean

-----------------------------------------------------------------------------
(* The scrape.  Whoever is in a call while render() runs is in overlap, so *)
(* the others, as counted, change only by joining it.  What has been       *)
(* loaded lies between the count of the others and that count with all of  *)
(* overlap added; the outcomes, which only grow, are bounded through what  *)
(* their sum would be if the rest were loaded now.                         *)

Outside(what) == Cardinality(CountedBy(what) \ overlap)

Width == Cardinality(overlap)

IfLoadedNow ==
  [c \in Counters |-> IF c \in scrape.todo THEN counters[c] ELSE scrape.seen[c]]

LoadsBounded ==
  /\ \A r \in Requests : InCall(r) => r \in overlap
  /\ \A c \in Single \ scrape.todo :
       scrape.seen[c] >= Outside(c) /\ scrape.seen[c] <= Outside(c) + Width
  /\ \A o \in Outcomes : IfLoadedNow[o] <= counters[o]
  /\ Answered(IfLoadedNow) >= Outside("answered")
  /\ \A b \in Bounds \ scrape.left :
       scrape.buckets[b] <= Outside("buckets") + Width

ScrapeInvariant ==
  /\ CallInvariant
  /\ CountersMean
  /\ overlap \subseteq Started
  /\ Rendering => LoadsBounded
  /\ ScrapeOffByOverlap

LEMMA InitScrapeInvariant == Init => ScrapeInvariant
<1> SUFFICES ASSUME Init
             PROVE  /\ CountersMean
                    /\ overlap \subseteq Started
                    /\ Rendering => LoadsBounded
                    /\ ScrapeOffByOverlap
  BY InitCallInvariant DEF ScrapeInvariant
<1>1. /\ \A what : CountedBy(what) = {}
      /\ \A b : BucketOf(b) = {}
  BY DEF Init, Calling, CountedBy, Counted, InGauge, BucketOf, InBucket
<1>2. /\ \A c \in Counters : counters[c] = 0
      /\ \A b \in Bounds : histogram[b] = 0
      /\ Single \subseteq Counters /\ Outcomes \subseteq Counters
  BY DEF Init, Single, Counters, Begins
<1>3. Answered(counters) = 0
  BY <1>2 DEF Answered
<1>4. CountersMean
  BY <1>1, <1>2, <1>3, FS_EmptySet DEF CountersMean
<1> QED
  BY <1>4 DEF Init, Rendering, ScrapeOffByOverlap

LEMMA WidthNat ==
  ASSUME ScrapeInvariant
  PROVE  /\ IsFiniteSet(overlap)
         /\ Width \in Nat
         /\ \A what : Outside(what) \in Nat
         /\ \A what : /\ Outside(what) <= Cardinality(CountedBy(what))
                      /\ Cardinality(CountedBy(what)) <= Outside(what) + Width
<1>1. IsFiniteSet(overlap) /\ Width \in Nat
  BY FS_Subset, FS_CardinalityType DEF ScrapeInvariant, CallInvariant, Width
<1>2. ASSUME NEW what
      PROVE  /\ Outside(what) \in Nat
             /\ Outside(what) <= Cardinality(CountedBy(what))
             /\ Cardinality(CountedBy(what)) <= Outside(what) + Width
  <2>1. IsFiniteSet(CountedBy(what)) /\ Cardinality(CountedBy(what)) \in Nat
    BY CountedFinite DEF ScrapeInvariant
  <2>2. /\ IsFiniteSet(CountedBy(what) \ overlap)
        /\ Outside(what) = Cardinality(CountedBy(what))
                             - Cardinality(CountedBy(what) \cap overlap)
    BY <2>1, FS_Difference DEF Outside
  <2>3. /\ IsFiniteSet(CountedBy(what) \cap overlap)
        /\ Cardinality(CountedBy(what) \cap overlap) <= Width
    BY <1>1, FS_Intersection DEF Width
  <2>4. /\ Outside(what) \in Nat
        /\ Cardinality(CountedBy(what) \cap overlap) \in Nat
    BY <2>2, <2>3, FS_CardinalityType DEF Outside
  <2> QED
    BY <1>1, <2>1, <2>2, <2>3, <2>4
<1> QED
  BY <1>1, <1>2

LEMMA BucketsCounted ==
  ASSUME ScrapeInvariant, NEW b \in Bounds
  PROVE  histogram[b] <= Cardinality(CountedBy("buckets"))
<1>1. BucketOf(b) \subseteq CountedBy("buckets")
  BY DEF BucketOf, InBucket, CountedBy, Counted
<1>2. IsFiniteSet(CountedBy("buckets")) /\ Cardinality(CountedBy("buckets")) \in Nat
  BY CountedFinite DEF ScrapeInvariant
<1>3. Cardinality(BucketOf(b)) <= Cardinality(CountedBy("buckets"))
  BY <1>1, <1>2, FS_Subset
<1>4. Cardinality(BucketOf(b)) \in Nat /\ histogram[b] \in Nat
  BY BucketFinite DEF ScrapeInvariant, CallInvariant, GaugeInvariant, Types
<1> QED
  BY <1>2, <1>3, <1>4 DEF ScrapeInvariant, CountersMean

(* A handler either stays where it is, joins overlap, or is in it.         *)
LEMMA HandlerOverlap ==
  ASSUME ScrapeInvariant, NEW r \in Requests, HandlerStep(r)
  PROVE  /\ ~Rendering => overlap' = overlap
         /\ Rendering =>
              \/ r \in overlap /\ overlap' = overlap
              \/ r \notin overlap /\ overlap' = overlap \cup {r}
              \/ /\ r \notin overlap /\ overlap' = overlap
                 /\ \A what : Counted(what, r)' <=> Counted(what, r)
                 /\ ~InCall(r)'
<1>0. Types
  BY DEF ScrapeInvariant, CallInvariant, GaugeInvariant
<1>1. CASE BeginRequest(r) \/ \E o \in Outcomes, l \in Latencies : FinishRequest(r, o, l)
  <2>1. overlap' = IF Rendering THEN overlap \cup {r} ELSE overlap
    BY <1>1 DEF BeginRequest, FinishRequest, Overlaps
  <2> QED
    BY <2>1
<1>2. CASE Abandon(r)
  <2>1. overlap' = overlap
    BY <1>2 DEF Abandon
  <2>2. \A what : Counted(what, r)' <=> Counted(what, r)
    BY <1>0, <1>2, CallChanges DEF CallBecomes, Counted, InGauge, Waiting
  <2>3. ~InCall(r)'
    BY <1>0, <1>2, CallChanges DEF CallBecomes, InCall
  <2> QED
    BY <2>1, <2>2, <2>3
<1>3. ASSUME \/ \E c \in Counters : AddBegin(r, c) \/ AddFinish(r, c)
             \/ LockHistogram(r) \/ UnlockHistogram(r)
             \/ \E b \in Bounds : CountBucket(r, b)
      PROVE  overlap' = overlap /\ (Rendering => r \in overlap)
  <2>1. overlap' = overlap
    BY <1>3 DEF AddBegin, AddFinish, LockHistogram, UnlockHistogram, CountBucket
  <2>2. InCall(r)
    BY <1>0, <1>3, CallChanges DEF InCall, Waiting
  <2> QED
    BY <2>1, <2>2 DEF ScrapeInvariant, LoadsBounded
<1> QED
  BY <1>1, <1>2, <1>3 DEF HandlerStep

LEMMA OutsideShrinks ==
  ASSUME ScrapeInvariant, Rendering, NEW r \in Requests, HandlerStep(r), NEW what
  PROVE  /\ Outside(what)' \in Nat /\ Width' \in Nat
         /\ Outside(what)' <= Outside(what)
         /\ Outside(what) + Width <= Outside(what)' + Width'
<1> DEFINE Before == CountedBy(what) \ overlap
           After  == (CountedBy(what) \ overlap)'
<1>0. /\ IsFiniteSet(Before) /\ IsFiniteSet(overlap)
      /\ Width \in Nat /\ Outside(what) \in Nat
  BY WidthNat, CountedFinite, FS_Difference DEF ScrapeInvariant
<1>1. \A other \in Requests \ {r} : call'[other] = call[other]
  BY CallChanges DEF HandlerStep, CallBecomes, ScrapeInvariant, CallInvariant,
                     GaugeInvariant
<1>2. \A other \in Requests \ {r} : Counted(what, other)' <=> Counted(what, other)
  BY <1>1 DEF Counted, InGauge
<1>3. ASSUME overlap' = overlap
      PROVE  After = Before /\ Width' = Width
  <2>1. r \in overlap \/ (Counted(what, r)' <=> Counted(what, r))
    BY <1>3, HandlerOverlap
  <2> QED
    BY <1>2, <1>3, <2>1 DEF CountedBy, Width
<1>4. ASSUME r \notin overlap, overlap' = overlap \cup {r}
      PROVE  After = Before \ {r} /\ Width' = Width + 1
  <2>1. After = Before \ {r}
    BY <1>2, <1>4 DEF CountedBy
  <2>2. Width' = Width + 1
    BY <1>0, <1>4, FS_AddElement DEF Width
  <2> QED
    BY <2>1, <2>2
<1>5. Outside(what) = Cardinality(Before) /\ Outside(what)' = Cardinality(After)
  BY DEF Outside
<1> HIDE DEF Before, After
<1>6. /\ IsFiniteSet(Before \ {r})
      /\ Cardinality(Before \ {r}) \in Nat
      /\ \/ Cardinality(Before \ {r}) = Cardinality(Before)
         \/ Cardinality(Before \ {r}) = Cardinality(Before) - 1
  BY <1>0, FS_RemoveElement, FS_CardinalityType
<1>7. \/ After = Before /\ Width' = Width
      \/ After = Before \ {r} /\ Width' = Width + 1
  BY <1>3, <1>4, HandlerOverlap
<1> QED
  BY <1>0, <1>5, <1>6, <1>7

LEMMA HandlerLoads ==
  ASSUME ScrapeInvariant, Rendering, NEW r \in Requests, HandlerStep(r)
  PROVE  LoadsBounded'
<1>0. /\ Types /\ Types'
      /\ counters \in [Counters -> Nat]
      /\ scrape.seen \in [Counters -> Int] /\ scrape.buckets \in [Bounds -> Nat]
      /\ Single \subseteq Counters /\ Outcomes \subseteq Counters
      /\ LoadsBounded
  BY HandlerTypes DEF ScrapeInvariant, CallInvariant, GaugeInvariant, Types, ScrapeTypes,
                      CountersNatural, Single, Counters, Begins
<1>1. UNCHANGED scrape
  BY DEF HandlerStep, BeginRequest, AddBegin, AddFinish, Abandon, FinishRequest,
         LockHistogram, CountBucket, UnlockHistogram
<1>2. \A other \in Requests \ {r} : call'[other] = call[other]
  BY <1>0, CallChanges DEF HandlerStep, CallBecomes
<1>3. \A what : /\ Outside(what) \in Nat /\ Width \in Nat
                /\ Outside(what)' \in Nat /\ Width' \in Nat
                /\ Outside(what)' <= Outside(what)
                /\ Outside(what) + Width <= Outside(what)' + Width'
  BY OutsideShrinks, WidthNat
<1>4. \A q \in Requests : InCall(q)' => q \in overlap'
  <2>1. \A q \in Requests \ {r} : InCall(q)' => q \in overlap
    BY <1>0, <1>2 DEF LoadsBounded, InCall, Waiting
  <2> QED
    BY <2>1, HandlerOverlap
<1>5. \A c \in Single \ scrape.todo :
        scrape.seen[c] >= Outside(c)' /\ scrape.seen[c] <= Outside(c)' + Width'
  <2>1. ASSUME NEW c \in Single \ scrape.todo
        PROVE  scrape.seen[c] >= Outside(c)' /\ scrape.seen[c] <= Outside(c)' + Width'
    <3>1. /\ scrape.seen[c] \in Int
          /\ scrape.seen[c] >= Outside(c)
          /\ scrape.seen[c] <= Outside(c) + Width
      BY <1>0 DEF LoadsBounded
    <3> QED
      BY <1>3, <3>1
  <2> QED
    BY <2>1
<1>6. \A o \in Outcomes : counters'[o] \in Int /\ counters'[o] >= counters[o]
  <2>1. ASSUME NEW c \in Counters, AddBegin(r, c) \/ AddFinish(r, c), NEW o \in Outcomes
        PROVE  counters'[o] \in Int /\ counters'[o] >= counters[o]
    <3>1. o # "in_flight" /\ o \in Counters /\ counters[o] \in Nat
      BY <1>0, OutcomesApart
    <3> QED
      BY <1>0, <2>1, <3>1 DEF AddBegin, AddFinish
  <2>2. CASE \/ BeginRequest(r) \/ Abandon(r) \/ LockHistogram(r) \/ UnlockHistogram(r)
             \/ \E o \in Outcomes, l \in Latencies : FinishRequest(r, o, l)
             \/ \E b \in Bounds : CountBucket(r, b)
    <3>1. counters' = counters
      BY <2>2 DEF BeginRequest, Abandon, LockHistogram, UnlockHistogram, FinishRequest,
                  CountBucket
    <3> QED
      BY <1>0, <3>1
  <2> QED
    BY <2>1, <2>2 DEF HandlerStep
<1>7. \A o \in Outcomes : /\ IfLoadedNow[o] \in Int /\ IfLoadedNow'[o] \in Int
                          /\ IfLoadedNow[o] <= IfLoadedNow'[o]
                          /\ IfLoadedNow'[o] <= counters'[o]
  <2>1. ASSUME NEW o \in Outcomes
        PROVE  /\ IfLoadedNow[o] \in Int /\ IfLoadedNow'[o] \in Int
               /\ IfLoadedNow[o] <= IfLoadedNow'[o]
               /\ IfLoadedNow'[o] <= counters'[o]
    <3>1. /\ o \in Counters /\ counters[o] \in Int /\ scrape.seen[o] \in Int
          /\ counters'[o] \in Int /\ counters'[o] >= counters[o]
          /\ IfLoadedNow[o] <= counters[o]
      BY <1>0, <1>6 DEF LoadsBounded
    <3>2. /\ IfLoadedNow[o] = IF o \in scrape.todo THEN counters[o] ELSE scrape.seen[o]
          /\ IfLoadedNow'[o] = IF o \in scrape.todo THEN counters'[o] ELSE scrape.seen[o]
      BY <1>1, <3>1 DEF IfLoadedNow
    <3> QED
      BY <3>1, <3>2
  <2> QED
    BY <2>1
<1>8. Answered(IfLoadedNow') >= Outside("answered")'
  <2>1. Answered(IfLoadedNow) <= Answered(IfLoadedNow')
    BY <1>7, AnsweredMonotone
  <2>2. Answered(IfLoadedNow) \in Int /\ Answered(IfLoadedNow') \in Int
    BY <1>7, AnsweredInt
  <2> QED
    BY <1>0, <1>3, <2>1, <2>2 DEF LoadsBounded
<1>9. \A b \in Bounds \ scrape.left :
        scrape.buckets[b] <= Outside("buckets")' + Width'
  <2>1. ASSUME NEW b \in Bounds \ scrape.left
        PROVE  scrape.buckets[b] <= Outside("buckets")' + Width'
    <3>1. scrape.buckets[b] \in Nat /\ scrape.buckets[b] <= Outside("buckets") + Width
      BY <1>0 DEF LoadsBounded
    <3> QED
      BY <1>3, <3>1
  <2> QED
    BY <2>1
<1>10. Answered(IfLoadedNow)' = Answered(IfLoadedNow')
  BY DEF Answered
<1> QED
  BY <1>1, <1>4, <1>5, <1>7, <1>8, <1>9, <1>10 DEF LoadsBounded

LEMMA HandlerScrape ==
  ASSUME ScrapeInvariant, NEW r \in Requests, HandlerStep(r)
  PROVE  ScrapeInvariant'
<1>1. CallInvariant' /\ Types /\ Types'
  BY HandlerCallInvariant DEF ScrapeInvariant, CallInvariant, GaugeInvariant
<1>2. CountersMean'
  BY AddsMean, OthersMean DEF ScrapeInvariant, HandlerStep
<1>3. UNCHANGED scrape
  BY DEF HandlerStep, BeginRequest, AddBegin, AddFinish, Abandon, FinishRequest,
         LockHistogram, CountBucket, UnlockHistogram
<1>4. Rendering' => LoadsBounded'
  BY <1>3, HandlerLoads DEF Rendering
<1>5. ScrapeOffByOverlap'
  <2>1. scrape.pc = "done" => overlap' = overlap
    BY HandlerOverlap DEF Rendering
  <2> QED
    BY <1>3, <2>1 DEF ScrapeInvariant, ScrapeOffByOverlap
<1>6. Started \subseteq Started' /\ r \in Started'
  <2>1. /\ \A other \in Requests \ {r} : call'[other] = call[other]
        /\ call'[r].pc # "idle"
    BY <1>1, CallChanges DEF HandlerStep, CallBecomes
  <2> QED
    BY <2>1 DEF Started
<1>7. overlap' \subseteq overlap \cup {r}
  BY HandlerOverlap
<1> QED
  BY <1>1, <1>2, <1>4, <1>5, <1>6, <1>7 DEF ScrapeInvariant

(* The requests outside overlap are between two calls, so that each of     *)
(* them is counted in full: in the total, and in the gauge or as answered. *)
LEMMA OutsideBalances ==
  ASSUME ScrapeInvariant, LoadsBounded
  PROVE  /\ Outside("requests_total") = Outside("in_flight") + Outside("answered")
         /\ Outside("latency_count") = Outside("answered")
         /\ Outside("buckets") = Outside("answered")
<1> DEFINE Out(what) == CountedBy(what) \ overlap
<1>1. ASSUME NEW r \in Requests, r \notin overlap
      PROVE  /\ Counted("requests_total", r)
                  <=> Counted("in_flight", r) \/ Counted("answered", r)
             /\ ~(Counted("in_flight", r) /\ Counted("answered", r))
             /\ Counted("latency_count", r) <=> Counted("answered", r)
             /\ Counted("buckets", r) <=> Counted("answered", r)
  <2>1. \/ call[r].pc = "begin" /\ call[r].todo = {}
        \/ call[r].pc \in {"idle", "abandoned", "done"}
    <3>1. ~InCall(r)
      BY <1>1 DEF LoadsBounded
    <3>2. call[r].pc \in {"idle", "begin", "abandoned", "finish", "histogram", "done"}
      BY CallOf DEF ScrapeInvariant, CallInvariant, GaugeInvariant
    <3> QED
      BY <3>1, <3>2 DEF InCall, Waiting
  <2> QED
    BY <2>1 DEF Counted, InGauge
<1>2. /\ Out("requests_total") = Out("in_flight") \cup Out("answered")
      /\ Out("in_flight") \cap Out("answered") = {}
      /\ Out("latency_count") = Out("answered")
      /\ Out("buckets") = Out("answered")
  BY <1>1 DEF CountedBy
<1>3. \A what : /\ IsFiniteSet(Out(what))
                /\ Cardinality(Out(what)) \in Nat
                /\ Outside(what) = Cardinality(Out(what))
  BY CountedFinite, FS_Difference, FS_CardinalityType DEF ScrapeInvariant, Outside
<1> HIDE DEF Out
<1>4. Cardinality(Out("in_flight") \cup Out("answered"))
        = Cardinality(Out("in_flight")) + Cardinality(Out("answered"))
  <2>1. Cardinality(Out("in_flight") \cup Out("answered"))
          = Cardinality(Out("in_flight")) + Cardinality(Out("answered"))
              - Cardinality(Out("in_flight") \cap Out("answered"))
    BY <1>3, FS_Union
  <2>2. Cardinality(Out("in_flight") \cap Out("answered")) = 0
    BY <1>2, FS_EmptySet
  <2> QED
    BY <1>3, <2>1, <2>2
<1> QED
  BY <1>2, <1>3, <1>4

LEMMA ScrapeBalances ==
  ASSUME ScrapeInvariant, LoadsBounded, scrape.todo = {}, scrape.left = {}
  PROVE  LET answered == Answered(scrape.seen)
             missing  == scrape.seen.requests_total - scrape.seen.in_flight - answered
         IN  /\ missing \in -(2 * Width) .. Width
             /\ scrape.seen.latency_count - answered \in -Width .. Width
             /\ \A b \in Bounds : scrape.buckets[b] <= scrape.seen.latency_count + Width
<1>0. /\ counters \in [Counters -> Nat]
      /\ \A c \in Counters : scrape.seen[c] \in Nat
      /\ scrape.buckets \in [Bounds -> Nat]
      /\ Outcomes \subseteq Counters
  BY DEF ScrapeInvariant, CallInvariant, GaugeInvariant, Types, ScrapeTypes,
         CountersNatural, Counters
<1>1. \A what : Outside(what) \in Nat /\ Width \in Nat
  BY WidthNat
<1>2. \A c \in Single : /\ scrape.seen[c] \in Nat
                        /\ scrape.seen[c] >= Outside(c)
                        /\ scrape.seen[c] <= Outside(c) + Width
  BY <1>0 DEF LoadsBounded, Single, Counters, Begins
<1>3. /\ Answered(scrape.seen) \in Int
      /\ Answered(scrape.seen) >= Outside("answered")
      /\ Answered(scrape.seen) <= Outside("answered") + Width
  <2>1. \A o \in Outcomes : /\ IfLoadedNow[o] = scrape.seen[o]
                            /\ scrape.seen[o] \in Int /\ counters[o] \in Int
                            /\ scrape.seen[o] <= counters[o]
    BY <1>0 DEF IfLoadedNow, LoadsBounded
  <2>2. Answered(IfLoadedNow) = Answered(scrape.seen)
    BY <2>1, AnsweredSame
  <2>3. Answered(scrape.seen) <= Answered(counters)
    BY <2>1, AnsweredMonotone
  <2>4. Answered(scrape.seen) \in Int /\ Answered(counters) \in Int
    BY <2>1, AnsweredInt
  <2>5. /\ Answered(counters) = Cardinality(CountedBy("answered"))
        /\ Cardinality(CountedBy("answered")) <= Outside("answered") + Width
    BY WidthNat DEF ScrapeInvariant, CountersMean
  <2> QED
    BY <1>1, <2>2, <2>3, <2>4, <2>5 DEF LoadsBounded
<1>4. /\ scrape.seen.requests_total \in Nat
      /\ scrape.seen.requests_total >= Outside("requests_total")
      /\ scrape.seen.requests_total <= Outside("requests_total") + Width
      /\ scrape.seen.in_flight \in Nat
      /\ scrape.seen.in_flight >= Outside("in_flight")
      /\ scrape.seen.in_flight <= Outside("in_flight") + Width
      /\ scrape.seen.latency_count \in Nat
      /\ scrape.seen.latency_count >= Outside("latency_count")
      /\ scrape.seen.latency_count <= Outside("latency_count") + Width
  BY <1>2 DEF Single
<1>5. \A b \in Bounds : scrape.buckets[b] \in Nat
                        /\ scrape.buckets[b] <= Outside("buckets") + Width
  BY <1>0 DEF LoadsBounded
<1> QED
  BY <1>1, <1>3, <1>4, <1>5, OutsideBalances

LEMMA RenderScrape ==
  ASSUME ScrapeInvariant, RenderStep
  PROVE  ScrapeInvariant'
<1>0. /\ CallInvariant' /\ Types /\ ScrapeTypes
      /\ counters \in [Counters -> Nat]
      /\ \A c \in Counters : scrape.seen[c] \in Nat
      /\ histogram \in [Bounds -> Nat]
      /\ Single \subseteq Counters /\ Outcomes \subseteq Counters
  BY RenderCallInvariant
     DEF ScrapeInvariant, CallInvariant, GaugeInvariant, Types, CountersNatural, Single,
         Counters, Begins
<1>1. UNCHANGED <<counters, histogram, call>>
  BY DEF RenderStep, StartRender, LockRender, LoadCounter, LoadBucket, UnlockRender
<1>2. /\ \A what : CountedBy(what)' = CountedBy(what)
      /\ \A b : BucketOf(b)' = BucketOf(b)
      /\ \A r : InCall(r)' <=> InCall(r)
      /\ Started' = Started
  BY <1>1 DEF CountedBy, Counted, InGauge, BucketOf, InBucket, InCall, Waiting, Started
<1>3. CountersMean'
  <2>1. Answered(counters)' = Answered(counters)
    BY <1>1 DEF Answered
  <2> QED
    BY <1>1, <1>2, <2>1 DEF ScrapeInvariant, CountersMean
<1>4. \A what : /\ Outside(what) \in Nat /\ Width \in Nat
                /\ Outside(what) <= Cardinality(CountedBy(what))
                /\ Cardinality(CountedBy(what)) <= Outside(what) + Width
                /\ Cardinality(CountedBy(what)) \in Nat
  BY WidthNat, CountedFinite DEF ScrapeInvariant
<1>5. Answered(IfLoadedNow)' = Answered(IfLoadedNow')
  BY DEF Answered
<1>6. ASSUME UNCHANGED overlap
      PROVE  /\ \A what : Outside(what)' = Outside(what)
             /\ Width' = Width
             /\ overlap' \subseteq Started'
  BY <1>2, <1>6 DEF Outside, Width, ScrapeInvariant
<1>7. ASSUME StartRender
      PROVE  /\ overlap' \subseteq Started'
             /\ LoadsBounded'
             /\ ScrapeOffByOverlap'
  <2>1. /\ overlap' = {r \in Requests : InCall(r)}
        /\ scrape'.pc = "lock" /\ scrape'.todo = Counters /\ scrape'.left = Bounds
    BY <1>7 DEF StartRender
  <2>2. overlap' \subseteq Started'
    BY <1>2, <2>1 DEF Started, InCall
  <2>3. \A o \in Outcomes : IfLoadedNow'[o] = counters[o]
    BY <1>0, <1>1, <2>1 DEF IfLoadedNow
  <2>4. Answered(IfLoadedNow') >= Outside("answered")'
    <3>1. Answered(IfLoadedNow') = Cardinality(CountedBy("answered"))
      BY <2>3, AnsweredSame DEF ScrapeInvariant, CountersMean
    <3>2. /\ Outside("answered")' <= Cardinality(CountedBy("answered"))
          /\ Outside("answered")' \in Nat
      <4>1. Outside("answered")' = Cardinality(CountedBy("answered") \ overlap')
        BY <1>2 DEF Outside
      <4>2. IsFiniteSet(CountedBy("answered"))
        BY CountedFinite DEF ScrapeInvariant
      <4>3. CountedBy("answered") \ overlap' \subseteq CountedBy("answered")
        OBVIOUS
      <4> QED
        BY <4>1, <4>2, <4>3, FS_Subset, FS_CardinalityType
    <3> QED
      BY <1>4, <3>1, <3>2
  <2>5. \A o \in Outcomes : IfLoadedNow'[o] <= counters'[o]
    BY <1>0, <1>1, <2>3
  <2>6. LoadsBounded'
    BY <1>0, <1>2, <1>5, <2>1, <2>4, <2>5 DEF LoadsBounded
  <2> QED
    BY <2>1, <2>2, <2>6 DEF ScrapeOffByOverlap
<1>8. ASSUME LockRender
      PROVE  /\ overlap' \subseteq Started'
             /\ LoadsBounded'
             /\ ScrapeOffByOverlap'
  <2>1. /\ UNCHANGED overlap
        /\ scrape'.pc = "loads" /\ scrape'.todo = scrape.todo
        /\ scrape'.left = scrape.left /\ scrape'.seen = scrape.seen
        /\ scrape'.buckets = scrape.buckets
        /\ LoadsBounded
    BY <1>0, <1>8 DEF LockRender, ScrapeTypes, ScrapeInvariant, Rendering
  <2>2. IfLoadedNow' = IfLoadedNow
    BY <1>1, <2>1 DEF IfLoadedNow
  <2>3. LoadsBounded'
    BY <1>1, <1>2, <1>5, <1>6, <2>1, <2>2 DEF LoadsBounded
  <2> QED
    BY <1>6, <2>1, <2>3 DEF ScrapeOffByOverlap
<1>9. ASSUME NEW c \in Counters, LoadCounter(c)
      PROVE  /\ overlap' \subseteq Started'
             /\ LoadsBounded'
             /\ ScrapeOffByOverlap'
  <2>1. /\ UNCHANGED overlap
        /\ scrape'.pc = scrape.pc /\ scrape'.todo = scrape.todo \ {c}
        /\ c \in scrape.todo
        /\ scrape'.left = scrape.left /\ scrape'.buckets = scrape.buckets
        /\ \A d \in Counters :
             scrape'.seen[d] = IF d = c THEN counters[c] ELSE scrape.seen[d]
        /\ scrape.pc \in {"lock", "loads"}
    BY <1>0, <1>9 DEF LoadCounter, ScrapeTypes
  <2>2. LoadsBounded
    BY <2>1 DEF ScrapeInvariant, Rendering
  <2>3. IfLoadedNow' = IfLoadedNow
    BY <1>1, <2>1 DEF IfLoadedNow
  <2>4. ASSUME NEW d \in Single \ scrape'.todo
        PROVE  scrape'.seen[d] >= Outside(d) /\ scrape'.seen[d] <= Outside(d) + Width
    <3>1. CASE d = c
      <4>1. scrape'.seen[d] = Cardinality(CountedBy(d))
        BY <1>0, <2>1, <3>1 DEF ScrapeInvariant, CountersMean
      <4> QED
        BY <1>4, <4>1
    <3>2. CASE d # c
      BY <1>0, <2>1, <2>2, <3>2 DEF LoadsBounded
    <3> QED
      BY <3>1, <3>2
  <2>5. LoadsBounded'
    BY <1>1, <1>2, <1>5, <1>6, <2>1, <2>2, <2>3, <2>4 DEF LoadsBounded
  <2> QED
    BY <1>6, <2>1, <2>5 DEF ScrapeOffByOverlap
<1>10. ASSUME NEW b \in Bounds, LoadBucket(b)
       PROVE  /\ overlap' \subseteq Started'
              /\ LoadsBounded'
              /\ ScrapeOffByOverlap'
  <2>1. /\ UNCHANGED overlap
        /\ scrape'.pc = "loads" /\ scrape.pc = "loads" /\ scrape'.todo = scrape.todo
        /\ scrape'.left = scrape.left \ {b} /\ scrape'.seen = scrape.seen
        /\ \A a \in Bounds :
             scrape'.buckets[a] = IF a = b THEN histogram[b] ELSE scrape.buckets[a]
    BY <1>0, <1>10 DEF LoadBucket, ScrapeTypes
  <2>2. LoadsBounded
    BY <2>1 DEF ScrapeInvariant, Rendering
  <2>3. IfLoadedNow' = IfLoadedNow
    BY <1>1, <2>1 DEF IfLoadedNow
  <2>4. ASSUME NEW a \in Bounds \ scrape'.left
        PROVE  scrape'.buckets[a] <= Outside("buckets") + Width
    <3>1. CASE a = b
      <4>1. scrape'.buckets[a] \in Nat
            /\ scrape'.buckets[a] <= Cardinality(CountedBy("buckets"))
        BY <1>0, <2>1, <3>1, BucketsCounted
      <4> QED
        BY <1>4, <4>1
    <3>2. CASE a # b
      BY <2>1, <2>2, <3>2 DEF LoadsBounded
    <3> QED
      BY <3>1, <3>2
  <2>5. LoadsBounded'
    BY <1>1, <1>2, <1>5, <1>6, <2>1, <2>2, <2>3, <2>4 DEF LoadsBounded
  <2> QED
    BY <1>6, <2>1, <2>5 DEF ScrapeOffByOverlap
<1>11. ASSUME UnlockRender
       PROVE  /\ overlap' \subseteq Started'
              /\ ~Rendering'
              /\ ScrapeOffByOverlap'
  <2>1. /\ UNCHANGED overlap
        /\ scrape.pc = "loads" /\ scrape.todo = {} /\ scrape.left = {}
        /\ scrape'.pc = "done" /\ scrape'.seen = scrape.seen
        /\ scrape'.buckets = scrape.buckets
    BY <1>0, <1>11 DEF UnlockRender, ScrapeTypes
  <2>2. LoadsBounded
    BY <2>1 DEF ScrapeInvariant, Rendering
  <2>3. ScrapeOffByOverlap'
    BY <2>1, <2>2, ScrapeBalances DEF ScrapeOffByOverlap, Width
  <2> QED
    BY <1>6, <2>1, <2>3 DEF Rendering
<1> QED
  BY <1>0, <1>3, <1>7, <1>8, <1>9, <1>10, <1>11 DEF RenderStep, ScrapeInvariant

LEMMA StepScrapeInvariant == ScrapeInvariant /\ [Next]_vars => ScrapeInvariant'
<1> SUFFICES ASSUME ScrapeInvariant, [Next]_vars PROVE ScrapeInvariant'
  OBVIOUS
<1>1. CASE UNCHANGED vars
  <2>1. CallInvariant'
    BY StepCallInvariant DEF ScrapeInvariant
  <2>2. /\ \A what : CountedBy(what)' = CountedBy(what)
        /\ \A b : BucketOf(b)' = BucketOf(b)
        /\ \A r : InCall(r)' <=> InCall(r)
        /\ Started' = Started
    BY <1>1 DEF vars, CountedBy, Counted, InGauge, BucketOf, InBucket, InCall, Waiting,
                Started
  <2>3. CountersMean'
    BY <1>1, <2>2 DEF vars, ScrapeInvariant, CountersMean, Answered
  <2>4. Rendering' => LoadsBounded'
    <3>1. /\ \A what : Outside(what)' = Outside(what)
          /\ Width' = Width
          /\ IfLoadedNow' = IfLoadedNow
      BY <1>1, <2>2 DEF vars, Outside, Width, IfLoadedNow
    <3>2. Answered(IfLoadedNow)' = Answered(IfLoadedNow)
      BY <3>1 DEF Answered
    <3> QED
      BY <1>1, <2>2, <3>1, <3>2 DEF vars, ScrapeInvariant, LoadsBounded, Rendering
  <2>5. ScrapeOffByOverlap' /\ overlap' \subseteq Started'
    BY <1>1, <2>2 DEF vars, ScrapeInvariant, ScrapeOffByOverlap, Answered
  <2> QED
    BY <2>1, <2>3, <2>4, <2>5 DEF ScrapeInvariant
<1> QED
  BY <1>1, HandlerScrape, RenderScrape DEF Next

(* What GET /metrics shows is off by no more than the calls it overlaps,   *)
(* whatever their number and in whatever order the relaxed additions and   *)
(* loads become visible: a scrape that overlaps none balances exactly.     *)
THEOREM ScrapeErrorBounded == Spec => []ScrapeOffByOverlap
<1>1. ScrapeInvariant => ScrapeOffByOverlap
  BY DEF ScrapeInvariant
<1> QED
  BY <1>1, InitScrapeInvariant, StepScrapeInvariant, PTL DEF Spec
=============================================================================
