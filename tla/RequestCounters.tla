--------------------------- MODULE RequestCounters ---------------------------
(***************************************************************************)
(* What the counters of the request path mean: counting a request is one   *)
(* step, and so is counting its outcome, which takes it out of the gauge.  *)
(*                                                                         *)
(* Gateway updates its counters in such steps; Metrics, where each update  *)
(* is several atomic operations, is shown to implement them as well.       *)
(***************************************************************************)
EXTENDS Integers

CONSTANTS Outcomes   \* the counters of enum Outcome

VARIABLES totals

Init == totals = [c \in {"requests_total", "in_flight"} \cup Outcomes |-> 0]

Begin == totals' = [totals EXCEPT !.requests_total = @ + 1, !.in_flight = @ + 1]

Finish(outcome) ==
  /\ totals.in_flight > 0
  /\ totals' = [totals EXCEPT !.in_flight = @ - 1, ![outcome] = @ + 1]

Next == Begin \/ \E outcome \in Outcomes : Finish(outcome)

Spec == Init /\ [][Next]_totals
=============================================================================
