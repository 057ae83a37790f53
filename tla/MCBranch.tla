------------------------------ MODULE MCBranch ------------------------------
(***************************************************************************)
(* A gate with three answers: build, write, or both.  plan feeds the gate  *)
(* and both branches, and nobody reads its notes.  build is a script that  *)
(* is tried twice; write runs only if a guard on the brief lets it.        *)
(***************************************************************************)
EXTENDS PipelineProperties

MCPorts  == {"brief", "outline", "notes", "comment", "binary", "pages"}
MCOwner  == [p \in MCPorts |->
    CASE p \in {"brief"} -> "external"
      [] p \in {"outline", "notes"} -> "plan"
      [] p \in {"comment"} -> "choose"
      [] p \in {"binary"} -> "build"
      [] p \in {"pages"} -> "write"]
MCValues == {"empty", "value"}
Wire(p, s) == [port |-> p, to |-> s, accepts |-> MCValues]
MCWires == {
    Wire("brief", "plan"), Wire("outline", "choose"), Wire("outline", "build"),
    Wire("outline", "write"), [Wire("brief", "write") EXCEPT !.accepts = {"value"}]}
MCFeedback   == [g \in {"choose"} |-> "comment"]
MCRoutes     == [g \in {"choose"} |-> <<{"build"}, {"write"}, {"build", "write"}>>]
MCBackTo     == [s \in {"build"} |-> "build"]
MCMaxRetries == [s \in {"build"} |-> 1]

\* With a stage slow that write also waits for: a retry of build then comes
\* while write is picked and has not begun.
SlowPorts == MCPorts \cup {"data"}
SlowOwner == [p \in SlowPorts |-> IF p = "data" THEN "slow" ELSE MCOwner[p]]
SlowWires == MCWires \cup {Wire("outline", "slow"), Wire("data", "write")}

\* What the theorems of PipelineOutcomeProofs assume of a pipeline holds here.  No
\* retry reaches a gate, hence RetriesComeBeforeGates and RetriesRewindNoGate.
ASSUME BranchIsCovered ==
  /\ RejectsTakeFeedback /\ RejectsRewindOneGate
  /\ \A s \in Retrying : ({BackTo[s]} \cup DownstreamOf[BackTo[s]]) \cap Gates = {}
  /\ RewindsTargetsToo /\ AnswersAreApart

\* Who picks both releases write before its data are there, unless it needs none.
ASSUME BranchIsTold == AnswersAreTold <=> "slow" \notin Stages
=============================================================================
