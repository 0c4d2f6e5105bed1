----------------------------- MODULE MCFrontEnds -----------------------------
(* Ids: none and a UUID in capital letters on either front end, a text     *)
(* that is no UUID over HTTP.  Budgets: none, the default of zero, the     *)
(* largest int, and one beyond it whose leading digit is an int again.     *)
(* Floats: of every kind, in either place.                                 *)
EXTENDS FrontEnds, TLC

CONSTANTS uuid, UUID, text

MCClientIds == {uuid, UUID, text}

MCCanonical == (uuid :> uuid) @@ (UUID :> uuid)

Submit(front, id, max_tokens, temperature, top_p) ==
  [front |-> front, id |-> id, max_tokens |-> max_tokens,
   temperature |-> temperature, top_p |-> top_p]

MCSubmissions ==
  { Submit("http", UUID, Absent, Absent, Absent),
    Submit("http", NoId, 0, "tiny", Absent),
    Submit("http", text, 64, "fine", Absent),
    Submit("http", uuid, 100, Absent, Absent),
    Submit("grpc", NoId, Absent, Absent, Absent),
    Submit("grpc", UUID, Absent, Absent, "negative") }
=============================================================================
