----------------------------- MODULE PipelineIR -----------------------------
(***************************************************************************)
(* A pipeline version: the static part of what the runner executes.  It    *)
(* is the PipelineIR after structural validation, reduced to what decides  *)
(* control: which stage owns which port, which wire feeds which stage and  *)
(* under which guard, where a gate's answers lead, and where a failed      *)
(* script retries from.  The graph computations of the compiler            *)
(* (ancestors of a gate, rollback closure, cancellation closure) are       *)
(* constant functions of it.                                               *)
(***************************************************************************)
EXTENDS Naturals, Sequences, FiniteSets

CONSTANTS
  Stages,      \* stage names
  Gates,       \* the stages of type "gate"
  Scripts,     \* the stages of type "script"; the others are agents
  External,    \* the pseudo-stage "__external__" owning the seed ports
  Ports,       \* every output port, one feedback port per gate included
  Owner,       \* [Ports -> Stages \cup {External}]
  Feedback,    \* [Gates -> Ports]: the gate's __gate_feedback__ port
  Wires,       \* [port, to, accepts]: accepts is the set of values the guard lets through
  Values,      \* what a port may hold
  Seed,        \* the empty string every feedback port starts with
  Routes,      \* [Gates -> Seq(SUBSET Stages)]: routing.routes in declaration order
  BackTo,      \* [retrying scripts -> Stages]: config.retry.backToStage
  MaxRetries   \* [retrying scripts -> Nat]: config.retry.maxRetries

Retrying == DOMAIN BackTo

ASSUME StagesAssumption ==
  /\ Gates \subseteq Stages /\ Scripts \subseteq Stages /\ Gates \cap Scripts = {}
  /\ External \notin Stages
  /\ IsFiniteSet(Stages)

ASSUME PortsAssumption ==
  /\ Owner \in [Ports -> Stages \cup {External}]
  /\ Feedback \in [Gates -> Ports]
  /\ \A g \in Gates : {p \in Ports : Owner[p] = g} = {Feedback[g]}
  /\ Seed \in Values

ASSUME WiresAssumption ==
  /\ Wires \subseteq [port : Ports, to : Stages, accepts : SUBSET Values]
  \* A wire that reads a gate's feedback carries no guard.
  /\ \A w \in Wires, g \in Gates : w.port = Feedback[g] => w.accepts = Values

ASSUME RoutesAssumption ==
  /\ Routes \in [Gates -> Seq(SUBSET Stages)]
  /\ \A g \in Gates : \A i \in DOMAIN Routes[g] : Routes[g][i] # {}

ASSUME RetryAssumption ==
  /\ Retrying \subseteq Scripts
  /\ BackTo \in [Retrying -> Stages]
  /\ MaxRetries \in [Retrying -> Nat]

-----------------------------------------------------------------------------
Agents    == Stages \ (Gates \cup Scripts)
Inbound   == [s \in Stages |-> {w \in Wires : w.to = s}]
Inputs    == [s \in Stages |-> {w.port : w \in Inbound[s]}]
IsFeedback(p) == \E g \in Gates : p = Feedback[g]

\* A gate declares no output: its feedback port is written by answerGate.
Outputs == [s \in Stages |-> {p \in Ports : Owner[p] = s /\ s \notin Gates}]

\* The stages reachable from S along the edges E, S included.
Reach(E, S) ==
  {t \in Stages : \A C \in SUBSET Stages :
      (S \subseteq C /\ \A e \in E : e[1] \in C => e[2] \in C) => t \in C}

AllEdges     == {<<Owner[w.port], w.to>> : w \in {x \in Wires : Owner[x.port] # External}}
ForwardEdges == {<<Owner[w.port], w.to>> :
                   w \in {x \in Wires : Owner[x.port] # External /\ ~IsFeedback(x.port)}}

\* The stage and everything downstream of it, feedback back-edges left out.
ForwardFrom == [s \in Stages |-> Reach(ForwardEdges, {s})]

\* Everything downstream along any wire, feedback included, the stage left out.
DownstreamOf == [s \in Stages |-> Reach(AllEdges, {s}) \ {s}]

\* buildDag refuses a cycle of forward wires.
ASSUME DagAssumption ==
  \A e \in ForwardEdges : e[1] \notin ForwardFrom[e[2]]

\* Strict ancestors of a gate along forward wires.
GateAncestors == [g \in Gates |-> {s \in Stages \ {g} : g \in ForwardFrom[s]}]

Siblings == [g \in Gates |-> UNION {Routes[g][i] : i \in DOMAIN Routes[g]}]

\* The targets of g an answer leaves out; mutants: none, and all those of other answers.
UnpickedNone(g, targets)  == {}
UnpickedOther(g, targets) ==
  UNION {Routes[g][i] : i \in {j \in DOMAIN Routes[g] : Routes[g][j] # targets}}
Unpicked(g, targets)      == Siblings[g] \ targets

\* Forward routing targets: they wait for an answer; a rollback target does not.
GateRouted == UNION {Siblings[g] \ GateAncestors[g] : g \in Gates}

\* The answers of g all of whose targets lead back to g.
RollbackAnswers ==
  [g \in Gates |-> {i \in DOMAIN Routes[g] : \A t \in Routes[g][i] : g \in ForwardFrom[t]}]

\* Only the first one is recorded as the gate's reject answer.
IsReject(g, i) ==
  i \in RollbackAnswers[g] /\ \A j \in RollbackAnswers[g] : i <= j

\* Where it leads.
RejectTargets ==
  [g \in Gates |-> UNION {Routes[g][i] : i \in {j \in DOMAIN Routes[g] : IsReject(g, j)}}]

\* Mutant: no closure at all.
AffectedTargetsOnly == RejectTargets

\* What a reject of g rewinds: its targets and everything downstream of them.
Affected == [g \in Gates |-> UNION {ForwardFrom[t] : t \in RejectTargets[g]}]

\* Mutant: the gate that released the target is rewound with it.
ToResetWithGate ==
  [s \in Retrying |-> {BackTo[s]} \cup DownstreamOf[BackTo[s]] \cup
     {g \in Gates : BackTo[s] \in Siblings[g]}]

\* What a retry of s rewinds.
ToReset == [s \in Retrying |-> {BackTo[s]} \cup DownstreamOf[BackTo[s]]]
=============================================================================
