------------------------------ MODULE MCGateway ------------------------------
(* The request path: symmetry of the requests for TLC.                     *)
EXTENDS Gateway, TLC

Symmetry == Permutations(Requests)

(* Behaviours in which every request is accepted and answered: enough to   *)
(* exhibit what the pool does under load, and far fewer.                   *)
NothingLost == \A r \in Requests :
  /\ handler[r] \in {"arriving", "enqueued", "waiting", "ok"}
  /\ channel[r] \in {"empty", "ok"}
=============================================================================
