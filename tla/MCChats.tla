------------------------------ MODULE MCChats ------------------------------
(* Instances of the chats for TLC: one user, whose two requests overlap or  *)
(* follow each other. *)
EXTENDS Chats

\* LLM_MODEL_* is empty, so that the default model is that of the strict mode.
ModelsOfEnv == [p \in Reachable |-> <<NoModel, "m1", NoModel>>]
SameQuery == [r \in Requests |-> "q1"]

SomeUpdates ==
  {[mode |-> "unstrict", provider |-> Unset, model |-> Unset],
   [mode |-> Unset, provider |-> "local", model |-> Unset],
   [mode |-> Unset, provider |-> Unset, model |-> "m1"]}
=============================================================================
