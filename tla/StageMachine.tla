---------------------------- MODULE StageMachine ----------------------------
(***************************************************************************)
(* The state machine compileIRToMachine builds: one region per stage       *)
(* (waiting -> executing -> done | error) over a shared context.  A        *)
(* machine is a record; every operator returns the machine after the       *)
(* event's whole macrostep.  The eventless transitions of a region read    *)
(* only its own state and context they do not change, so taking them all   *)
(* at once (Settle) is the macrostep's fixpoint.                           *)
(*                                                                         *)
(* finalizedStages is the set of stages in done or error, with reason.     *)
(***************************************************************************)
EXTENDS PipelineIR

Absent == [val |-> Seed, run |-> 0, present |-> FALSE]

\* run is the attempt_idx of the writer, kept to tell one run's output from another's.
Cell(v, n)  == [val |-> v, run |-> n, present |-> TRUE]
Cells       == [val : Values, run : Nat, present : BOOLEAN]

Regions == {"waiting", "executing", "done", "error"}
RootCauses == {"executor_failed", "no_active_wire"}
Reasons == {"none", "upstream_cancelled"} \cup RootCauses

Machines ==
  [region     : [Stages -> Regions],
   reason     : [Stages -> Reasons],
   cells      : [Ports -> Cells],
   authorized : SUBSET Stages,
   skipped    : SUBSET Stages,
   retries    : [Retrying -> Nat]]

Waiting(m)   == {s \in Stages : m.region[s] = "waiting"}
Executing(m) == {s \in Stages : m.region[s] = "executing"}
Done(m)      == {s \in Stages : m.region[s] = "done"}
Failed(m)    == {s \in Stages : m.region[s] = "error"}
Final(m)     == Done(m) \cup Failed(m)

Settled(m, w)  == m.cells[w.port].present
Delivers(m, w) == Settled(m, w) /\ m.cells[w.port].val \in w.accepts

WiresDeliver(m, s) == \A w \in Inbound[s] : Delivers(m, w)
WiresDead(m, s) ==
  /\ \A w \in Inbound[s] : Settled(m, w)
  /\ \E w \in Inbound[s] : ~Delivers(m, w)

Released(m, s)            == s \in GateRouted => s \in m.authorized
AllInboundDelivered(m, s) == Released(m, s) /\ WiresDeliver(m, s)
NoDeliverableWire(m, s)   == Released(m, s) /\ WiresDead(m, s)

\* Mutant: one output is enough.
SomeOutboundPresent(m, s) ==
  s \notin Gates /\ (Outputs[s] # {} => \E p \in Outputs[s] : m.cells[p].present)

AllOutboundPresent(m, s)  == s \notin Gates /\ \A p \in Outputs[s] : m.cells[p].present

\* The eventless transitions out of waiting and executing, to their fixpoint.
Settle(m) ==
  LET enters(s) == /\ s \in Waiting(m) \ m.skipped
                   /\ AllInboundDelivered(m, s)
      dead(s)   == /\ s \in Waiting(m) \ m.skipped
                   /\ NoDeliverableWire(m, s)
      done(s)   == \/ s \in Waiting(m) \cap m.skipped
                   \/ (s \in Executing(m) \/ enters(s)) /\ AllOutboundPresent(m, s)
  IN [m EXCEPT
        !.region = [s \in Stages |-> CASE done(s) -> "done"
                                       [] enters(s) /\ ~done(s) -> "executing"
                                       [] dead(s) -> "error"
                                       [] OTHER -> m.region[s]],
        !.reason = [s \in Stages |-> IF dead(s) THEN "no_active_wire" ELSE m.reason[s]]]

\* S enters its error final; a region already final has no handler left.
Fail(m, S, why) ==
  LET hit == S \ Final(m)
  IN [m EXCEPT !.region = [s \in Stages |-> IF s \in hit THEN "error" ELSE m.region[s]],
               !.reason = [s \in Stages |-> IF s \in hit THEN why ELSE m.reason[s]]]

\* PORT_WRITTEN for the ports of P: the root assign, then the guards.
PortWritten(m, P, c) ==
  Settle([m EXCEPT !.cells = [p \in Ports |-> IF p \in P THEN c ELSE m.cells[p]]])

\* Mutant: one retry too many.
RetriesOnOnceMore(m, s) ==
  s \in Retrying /\ m.region[s] = "executing" /\ m.retries[s] <= MaxRetries[s]

\* STAGE_FAILED of an executing script with retry budget left.
RetriesOn(m, s) ==
  /\ s \in Retrying
  /\ m.region[s] = "executing"
  /\ m.retries[s] < MaxRetries[s]

\* STAGE_FAILED otherwise.
StageFailed(m, s) == Settle(Fail(m, {s}, "executor_failed"))

\* STAGE_CANCELLED, one event per member of S.
StageCancelled(m, S) == Fail(m, S, "upstream_cancelled")

\* GATE_ANSWERED: every region guards on the context as it was before the event.
GateAnswered(m, g, targets) ==
  LET mine   == m.region[g] = "executing"
      skip   == Unpicked(g, targets) \cap Waiting(m)
      picked == targets \cap Waiting(m)
      start  == {s \in picked : WiresDeliver(m, s)}
      dead   == {s \in picked : WiresDead(m, s)}
  IN Settle(
     [m EXCEPT
        !.region = [s \in Stages |-> CASE s = g /\ mine -> "done"
                                       [] s \in skip -> "done"
                                       [] s \in start -> "executing"
                                       [] s \in dead -> "error"
                                       [] OTHER -> m.region[s]],
        !.reason = [s \in Stages |-> IF s \in dead THEN "no_active_wire" ELSE m.reason[s]],
        !.authorized = @ \cup start \cup dead \cup (IF mine THEN targets ELSE {}),
        !.skipped = @ \cup skip \cup (IF mine THEN Unpicked(g, targets) ELSE {})])

-----------------------------------------------------------------------------
\* A compiled machine before START: external seeds present, feedback ports empty.
Fresh(seeds) ==
  [region     |-> [s \in Stages |-> "waiting"],
   reason     |-> [s \in Stages |-> "none"],
   cells      |-> [p \in Ports |-> IF Owner[p] = External THEN Cell(seeds[p], 0)
                                   ELSE IF IsFeedback(p) THEN Cell(Seed, 0) ELSE Absent],
   authorized |-> {},
   skipped    |-> {},
   retries    |-> [s \in Retrying |-> 0]]

\* Mutant: the feedback port is reset with the gate.
SurvivesOutsideOnly(p, reset, keep) == Owner[p] \notin reset

\* keep is the set of ports of reset stages whose value survives.
Survives(p, reset, keep) == Owner[p] \notin reset \/ p \in keep

\* Mutant: a stage cancelled by the cascade is not run again.
RewoundKeepsCancelled(m, reset, keep) ==
  LET again == {s \in reset : m.reason[s] # "upstream_cancelled"} \cup (Stages \ Final(m))
  IN [m EXCEPT
        !.region = [s \in Stages |-> IF s \in again THEN "waiting" ELSE m.region[s]],
        !.reason = [s \in Stages |-> IF s \in again THEN "none" ELSE m.reason[s]],
        !.cells  = [p \in Ports |-> IF Survives(p, reset, keep) THEN m.cells[p]
                                    ELSE IF IsFeedback(p) THEN Cell(Seed, 0) ELSE Absent]]

\* A rebuilt machine before START: stages that were final stay final, the
\* stages of reset and whatever was still in flight start over in waiting.
Rewound(m, reset, keep) ==
  LET again == reset \cup (Stages \ Final(m))
  IN [m EXCEPT
        !.region = [s \in Stages |-> IF s \in again THEN "waiting" ELSE m.region[s]],
        !.reason = [s \in Stages |-> IF s \in again THEN "none" ELSE m.reason[s]],
        !.cells  = [p \in Ports |-> IF Survives(p, reset, keep) THEN m.cells[p]
                                    ELSE IF IsFeedback(p) THEN Cell(Seed, 0) ELSE Absent]]

\* Mutant: the approvals given downstream of the rollback target stay.
PrunedKeepsApproval(m, reset) ==
  [m EXCEPT !.skipped = @ \ reset,
            !.retries = [s \in Retrying |-> IF s \in reset THEN 0 ELSE @[s]]]

\* A rollback also takes back what was decided about the stages it rewinds.
Pruned(m, reset) ==
  [m EXCEPT !.authorized = @ \ reset,
            !.skipped = @ \ reset,
            !.retries = [s \in Retrying |-> IF s \in reset THEN 0 ELSE @[s]]]
=============================================================================
