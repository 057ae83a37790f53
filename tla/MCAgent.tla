------------------------------- MODULE MCAgent -------------------------------
(***************************************************************************)
(* An agent with two outputs, one feedback round, no or one retry and one  *)
(* free retry.                                                             *)
(***************************************************************************)
EXTENDS AgentAttempt

MCOutputs == {"plan", "code"}
MCRetries == {0, 1}
=============================================================================
