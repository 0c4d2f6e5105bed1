------------------------------ MODULE MCMetrics ------------------------------
(* Two of the three outcomes (they differ only in the counter they raise)  *)
(* and two of the nine buckets, with a latency in each.                    *)
EXTENDS Metrics, TLC

MCOutcomes == {"ok_total", "timeout_total"}

MCBounds == {1, 5}

MCLatencies == {1, 5}

Symmetry == Permutations(Requests)
=============================================================================
