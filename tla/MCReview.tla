------------------------------ MODULE MCReview ------------------------------
(***************************************************************************)
(* A draft under human review while a script renders it: draft feeds review*)
(* and render, whose image goes to publish unless it is left out; a guard  *)
(* on the brief decides whether render runs.  Approve releases publish,    *)
(* reject sends the work back to draft, which reads the comment and may    *)
(* correct its text after writing it.                                      *)
(***************************************************************************)
EXTENDS PipelineProperties

MCPorts  == {"brief", "text", "comment", "image", "page"}
MCOwner  == [p \in MCPorts |->
    CASE p \in {"brief"} -> "external"
      [] p \in {"text"} -> "draft"
      [] p \in {"comment"} -> "review"
      [] p \in {"image"} -> "render"
      [] p \in {"page"} -> "publish"]
MCValues == {"empty", "value"}
Wire(p, s) == [port |-> p, to |-> s, accepts |-> MCValues]
MCWires == {
    Wire("brief", "draft"), Wire("comment", "draft"), Wire("text", "review"),
    Wire("text", "render"), Wire("image", "publish"),
    [Wire("brief", "render") EXCEPT !.accepts = {"value"}]}
MCFeedback   == [g \in {"review"} |-> "comment"]
MCRoutes     == [g \in {"review"} |-> <<{"publish"}, {"draft"}>>]
MCBackTo     == [s \in {} |-> "none"]
MCMaxRetries == [s \in {} |-> 0]

\* What the theorems of PipelineOutcomeProofs assume of a pipeline holds here,
\* as long as render is not retried.
ASSUME ReviewIsCovered ==
  /\ RejectsTakeFeedback /\ RejectsRewindOneGate
  /\ RewindsTargetsToo /\ AnswersAreApart /\ AnswersAreTold
  /\ Retrying = {} => RetriesComeBeforeGates /\ RetriesRewindNoGate

\* With a render that sends the run back to draft, past a gate that may be open
\* or have been answered with a comment.
RetryBackTo == [s \in {"render"} |-> "draft"]
RetryMax    == [s \in {"render"} |-> 1]
=============================================================================
