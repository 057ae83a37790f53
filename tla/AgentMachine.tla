---------------------------- MODULE AgentMachine ----------------------------
(***************************************************************************)
(* The turn-level machine of one agent query (createAgentMachine) and the  *)
(* adapter that turns SDK messages into its events (createSdkAdapter): a   *)
(* record and one operator per event, each the whole macrostep.            *)
(*                                                                         *)
(* An interrupt lets the agent finish what it is doing: from the start it  *)
(* ends the machine, otherwise it is armed and ends it on the return from  *)
(* the next, or the current, tool round or compaction.                     *)
(***************************************************************************)
EXTENDS Naturals

Machines ==
  [at : {"starting", "waiting", "dispatching", "compacting", "done", "error"},
   pending : Nat,           \* pendingToolUseIds
   armed : BOOLEAN,         \* interruptArmed
   summaryUsed : BOOLEAN,   \* summaryTurnUsed
   returns : Nat,           \* observation: returns to waiting since armed
   result : {"none", "success", "error", "interrupted"}]

NewMachine == [at |-> "starting", pending |-> 0, armed |-> FALSE, summaryUsed |-> FALSE,
               returns |-> 0, result |-> "none"]

Final(m) == m.at \in {"done", "error"}

Ended(m, at, result) == [m EXCEPT !.at = at, !.result = result]

\* Entering waiting_for_claude.
Back(m) ==
  IF m.armed THEN [m EXCEPT !.at = "waiting", !.returns = @ + 1] ELSE [m EXCEPT !.at = "waiting"]

\* With its always transition.
Waiting(m) == IF m.armed /\ m.summaryUsed THEN Ended(Back(m), "done", "interrupted") ELSE Back(m)

SdkInit(m) == IF m.at = "starting" THEN Waiting(m) ELSE m

\* markSummaryTurnUsed
Marked(m) == [m EXCEPT !.summaryUsed = @ \/ m.armed]

ToolUse(m) ==
  CASE m.at = "waiting"     -> [Marked(m) EXCEPT !.at = "dispatching", !.pending = @ + 1]
    [] m.at = "dispatching" -> [m EXCEPT !.pending = @ + 1]
    [] OTHER -> m

\* The result of one of the pending tool uses.
ToolResult(m) ==
  CASE m.at = "dispatching" /\ m.pending = 1 -> Waiting([m EXCEPT !.pending = 0])
    [] m.at = "dispatching" /\ m.pending > 1 -> [m EXCEPT !.pending = @ - 1]
    [] OTHER -> m

CompactStarted(m) == IF m.at = "waiting" THEN [Marked(m) EXCEPT !.at = "compacting"] ELSE m
CompactEnded(m)   == IF m.at = "compacting" THEN Waiting(m) ELSE m

ResultSuccess(m) ==
  IF m.at \in {"waiting", "dispatching", "compacting"} THEN Ended(m, "done", "success") ELSE m
ResultError(m) ==
  IF m.at \in {"waiting", "dispatching", "compacting"} THEN Ended(m, "error", "error") ELSE m

\* Mutant: the tool round in flight does not count as the last one.
InterruptedOneRoundMore(m) ==
  CASE m.at = "starting" -> Ended([m EXCEPT !.armed = TRUE], "done", "interrupted")
    [] Final(m) -> m
    [] OTHER -> [m EXCEPT !.armed = TRUE]

Interrupted(m) ==
  CASE m.at = "starting" -> Ended(m, "done", "interrupted")
    [] m.at = "waiting"  -> [m EXCEPT !.armed = TRUE]
    [] m.at \in {"dispatching", "compacting"} -> [m EXCEPT !.armed = TRUE, !.summaryUsed = TRUE]
    [] OTHER -> m

-----------------------------------------------------------------------------
\* What an SDK message does to the machine.  compact is the adapter's memory
\* of a compact boundary: the next other message ends the window first.
Arriving(m, compact) == IF compact THEN CompactEnded(m) ELSE m

Assistant(m, compact, tools) ==
  CASE tools = 0 -> Arriving(m, compact)
    [] tools = 1 -> ToolUse(Arriving(m, compact))
    [] OTHER     -> ToolUse(ToolUse(Arriving(m, compact)))
=============================================================================
