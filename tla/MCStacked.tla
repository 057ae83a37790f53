------------------------------ MODULE MCStacked -----------------------------
(***************************************************************************)
(* Two review gates in a row that both send the work back to plan: what the*)
(* first one decided is taken back when the second one rejects.            *)
(***************************************************************************)
EXTENDS PipelineProperties

MCPorts  == {"brief", "outline", "planNote", "text", "textNote", "page"}
MCOwner  == [p \in MCPorts |->
    CASE p \in {"brief"} -> "external"
      [] p \in {"outline"} -> "plan"
      [] p \in {"planNote"} -> "first"
      [] p \in {"text"} -> "write"
      [] p \in {"textNote"} -> "second"
      [] p \in {"page"} -> "publish"]
MCValues == {"empty", "value"}
Wire(p, s) == [port |-> p, to |-> s, accepts |-> MCValues]
MCWires == {
    Wire("brief", "plan"), Wire("planNote", "plan"), Wire("textNote", "plan"),
    Wire("outline", "first"), Wire("outline", "write"), Wire("text", "second"),
    Wire("text", "publish")}
MCFeedback   == [g \in {"first", "second"} |->
    CASE g = "first" -> "planNote"
      [] g = "second" -> "textNote"]
MCRoutes     == [g \in {"first", "second"} |->
    CASE g = "first" -> <<{"write"}, {"plan"}>>
      [] g = "second" -> <<{"publish"}, {"plan"}>>]
MCBackTo     == [s \in {} |-> "none"]
MCMaxRetries == [s \in {} |-> 0]

\* What PickedOnly, OneExecutor, LatestRunOnly and NothingIsStale assume of a
\* pipeline holds here, wherever the second gate sends the work back to.
ASSUME StackedOrder == RewindsTargetsToo /\ WorkStopsAtGates /\ EveryStageWrites

\* With a second gate that sends the work back to write only.
ShortWires  == (MCWires \ {Wire("textNote", "plan")}) \cup {Wire("textNote", "write")}
ShortRoutes == [MCRoutes EXCEPT !["second"] = <<{"publish"}, {"write"}>>]
=============================================================================
