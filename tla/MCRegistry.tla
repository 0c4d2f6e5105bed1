----------------------------- MODULE MCRegistry -----------------------------
(* Two lists of a core: a model that stays, in two spellings, one that is  *)
(* added, and an alias with a capital letter; the static list has a name   *)
(* that the core never serves.                                             *)
EXTENDS ModelRegistry, TLC

MCNames == {"Qwen", "qwen", "Chat", "chat", "coder", "llama-7b"}

MCLower ==
  ("Qwen" :> "qwen") @@ ("Chat" :> "chat") @@ [name \in MCNames |-> name]

MCStatic == {"qwen", "llama-7b"}

MCCatalogs ==
  { [models |-> {"Qwen"}, aliases |-> {"Chat"}],
    [models |-> {"qwen", "coder"}, aliases |-> {}] }
=============================================================================
