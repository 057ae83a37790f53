----------------------------- MODULE MCRecords -----------------------------
(* A chain of three stages: a gate, a fanout and an agent that needs a key. *)
EXTENDS RecordsProperties

MCNone == {}
MCGates == {1}
MCAgents == {3}
MCFanouts == {2}
MCKeyed == {3}
MCBound == [k \in Kinds |-> 1]
=============================================================================
