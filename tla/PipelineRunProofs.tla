-------------------------- MODULE PipelineRunProofs --------------------------
(***************************************************************************)
(* Safety of a run, proved for every pipeline, every attempt limit and     *)
(* every choice of secret stages and unreliable scripts.                   *)
(*                                                                         *)
(* Almost every action ends in Observe, the one place where the runner     *)
(* reacts to a snapshot, or in Rebuild, which ends in it: the lemmas about *)
(* those two carry most of the argument.  The first half of the module is  *)
(* about the compiled stage machine alone, one lemma per operator: what    *)
(* every event preserves, whatever the pipeline.                           *)
(***************************************************************************)
EXTENDS PipelineProperties, TLAPS

-----------------------------------------------------------------------------
(* The stage machine. *)

\* A forward target of a gate executes only when some answer has authorized it.
ReleasedOnly(m) ==
  \A s \in Stages : m.region[s] = "executing" /\ s \in GateRouted => s \in m.authorized

\* An event that leaves the retry counters alone.
KeepsRetries(m, n) == n.retries = m.retries

\* The parts of a typed machine.
LEMMA MachineFields ==
  ASSUME NEW m \in Machines
  PROVE  /\ m.region \in [Stages -> Regions]
         /\ m.reason \in [Stages -> Reasons]
         /\ m.cells \in [Ports -> Cells]
         /\ m.authorized \subseteq Stages
         /\ m.skipped \subseteq Stages
         /\ m.retries \in [Retrying -> Nat]
BY DEF Machines

\* A written value is a cell.
LEMMA CellType ==
  ASSUME NEW v \in Values, NEW n \in Nat
  PROVE  Cell(v, n) \in Cells
BY DEF Cell, Cells

\* So is a port nobody has written.
LEMMA AbsentType == Absent \in Cells
BY PortsAssumption DEF Absent, Cells

\* A machine put together from its parts.
Machine(R, Q, C, A, K, T) ==
  [region |-> R, reason |-> Q, cells |-> C, authorized |-> A, skipped |-> K, retries |-> T]

\* What a machine put together holds.
LEMMA MachineParts ==
  ASSUME NEW R, NEW Q, NEW C, NEW A, NEW K, NEW T
  PROVE  /\ Machine(R, Q, C, A, K, T).region = R
         /\ Machine(R, Q, C, A, K, T).reason = Q
         /\ Machine(R, Q, C, A, K, T).cells = C
         /\ Machine(R, Q, C, A, K, T).authorized = A
         /\ Machine(R, Q, C, A, K, T).skipped = K
         /\ Machine(R, Q, C, A, K, T).retries = T
BY DEF Machine

\* A machine put together from typed parts is typed.
LEMMA MachineBuilt ==
  ASSUME NEW R \in [Stages -> Regions],
         NEW Q \in [Stages -> Reasons],
         NEW C \in [Ports -> Cells],
         NEW A \in SUBSET Stages,
         NEW K \in SUBSET Stages,
         NEW T \in [Retrying -> Nat]
  PROVE  Machine(R, Q, C, A, K, T) \in Machines
BY DEF Machine, Machines

\* The eventless transitions: Settle never starts a stage nobody released.
LEMMA SettlePreserves ==
  ASSUME NEW m \in Machines
  PROVE  /\ Settle(m) \in Machines
         /\ KeepsRetries(m, Settle(m))
         /\ Settle(m).authorized = m.authorized
         /\ Settle(m).cells = m.cells
         /\ ReleasedOnly(m) => ReleasedOnly(Settle(m))
<1> DEFINE enters(s) == /\ s \in Waiting(m) \ m.skipped
                        /\ AllInboundDelivered(m, s)
           dead(s)   == /\ s \in Waiting(m) \ m.skipped
                        /\ NoDeliverableWire(m, s)
           done(s)   == \/ s \in Waiting(m) \cap m.skipped
                        \/ (s \in Executing(m) \/ enters(s)) /\ AllOutboundPresent(m, s)
           R == [s \in Stages |-> CASE done(s) -> "done"
                                    [] enters(s) /\ ~done(s) -> "executing"
                                    [] dead(s) -> "error"
                                    [] OTHER -> m.region[s]]
           Q == [s \in Stages |-> IF dead(s) THEN "no_active_wire" ELSE m.reason[s]]
<1>1. m.region \in [Stages -> Regions] /\ m.reason \in [Stages -> Reasons]
  BY MachineFields
<1>2. ASSUME NEW s \in Stages
      PROVE  /\ R[s] \in Regions
             /\ R[s] = "executing" => m.region[s] = "executing" \/ enters(s)
  <2> HIDE DEF enters, dead, done
  <2>1. R[s] = CASE done(s) -> "done"
                 [] enters(s) /\ ~done(s) -> "executing"
                 [] dead(s) -> "error"
                 [] OTHER -> m.region[s]
    OBVIOUS
  <2>2. CASE done(s)
    <3>1. R[s] = "done" \/ (dead(s) /\ R[s] = "error")
      BY <2>1, <2>2
    <3> QED BY <3>1 DEF Regions
  <2>3. CASE ~done(s) /\ enters(s)
    <3>1. R[s] = "executing" \/ (dead(s) /\ R[s] = "error")
      BY <2>1, <2>3
    <3> QED BY <2>3, <3>1 DEF Regions
  <2>4. CASE ~done(s) /\ ~enters(s) /\ dead(s)
    <3>1. R[s] = "error"
      BY <2>1, <2>4
    <3> QED BY <3>1 DEF Regions
  <2>5. CASE ~done(s) /\ ~enters(s) /\ ~dead(s)
    <3>1. R[s] = m.region[s]
      BY <2>1, <2>5
    <3> QED BY <1>1, <3>1
  <2> QED BY <2>2, <2>3, <2>4, <2>5
<1>3. R \in [Stages -> Regions]
  BY <1>2
<1>4. Q \in [Stages -> Reasons]
  <2> HIDE DEF dead
  <2> QED BY <1>1 DEF Reasons, RootCauses
<1>5. Settle(m) = Machine(R, Q, m.cells, m.authorized, m.skipped, m.retries)
  <2>1. Settle(m) = [m EXCEPT !.region = R, !.reason = Q]
    BY DEF Settle
  <2> HIDE DEF R, Q
  <2> QED BY <2>1 DEF Machine, Machines
<1>6. ASSUME ReleasedOnly(m) PROVE ReleasedOnly(Settle(m))
  <2> SUFFICES ASSUME NEW s \in Stages, Settle(m).region[s] = "executing", s \in GateRouted
               PROVE  s \in Settle(m).authorized
    BY DEF ReleasedOnly
  <2>1. Settle(m).region = R /\ Settle(m).authorized = m.authorized
    BY <1>5, MachineParts
  <2>2. m.region[s] = "executing" \/ enters(s)
    BY <1>2, <2>1
  <2>3. enters(s) => s \in m.authorized
    BY DEF AllInboundDelivered, Released
  <2> QED BY <1>6, <2>1, <2>2, <2>3 DEF ReleasedOnly
<1> HIDE DEF R, Q
<1>7. Settle(m) \in Machines
  BY <1>3, <1>4, <1>5, MachineFields, MachineBuilt
<1> QED BY <1>5, <1>6, <1>7, MachineParts DEF KeepsRetries

\* Error finals: failing stages starts none.
LEMMA FailPreserves ==
  ASSUME NEW m \in Machines, NEW S, NEW why \in Reasons
  PROVE  /\ Fail(m, S, why) \in Machines
         /\ KeepsRetries(m, Fail(m, S, why))
         /\ Fail(m, S, why).authorized = m.authorized
         /\ Fail(m, S, why).cells = m.cells
         /\ ReleasedOnly(m) => ReleasedOnly(Fail(m, S, why))
<1> DEFINE hit == S \ Final(m)
           R == [s \in Stages |-> IF s \in hit THEN "error" ELSE m.region[s]]
           Q == [s \in Stages |-> IF s \in hit THEN why ELSE m.reason[s]]
<1>1. /\ R \in [Stages -> Regions]
      /\ \A s \in Stages : R[s] = "executing" => m.region[s] = "executing"
  <2> HIDE DEF hit
  <2> QED BY MachineFields DEF Regions
<1>2. Q \in [Stages -> Reasons]
  <2> HIDE DEF hit
  <2> QED BY MachineFields
<1>3. Fail(m, S, why) = Machine(R, Q, m.cells, m.authorized, m.skipped, m.retries)
  <2>1. Fail(m, S, why) = [m EXCEPT !.region = R, !.reason = Q]
    BY DEF Fail
  <2> HIDE DEF R, Q
  <2> QED BY <2>1 DEF Machine, Machines
<1> HIDE DEF R, Q
<1>4. Fail(m, S, why) \in Machines
  BY <1>1, <1>2, <1>3, MachineFields, MachineBuilt
<1> QED BY <1>1, <1>3, <1>4, MachineParts DEF KeepsRetries, ReleasedOnly

\* STAGE_CANCELLED starts nobody and touches no counter.
LEMMA StageCancelledPreserves ==
  ASSUME NEW m \in Machines, NEW S
  PROVE  /\ StageCancelled(m, S) \in Machines
         /\ KeepsRetries(m, StageCancelled(m, S))
         /\ StageCancelled(m, S).authorized = m.authorized
         /\ StageCancelled(m, S).cells = m.cells
         /\ ReleasedOnly(m) => ReleasedOnly(StageCancelled(m, S))
<1>1. "upstream_cancelled" \in Reasons
  BY DEF Reasons
<1> QED BY <1>1, FailPreserves DEF StageCancelled

\* STAGE_FAILED without a retry starts nobody unreleased and touches no counter.
LEMMA StageFailedPreserves ==
  ASSUME NEW m \in Machines, NEW s \in Stages
  PROVE  /\ StageFailed(m, s) \in Machines
         /\ KeepsRetries(m, StageFailed(m, s))
         /\ StageFailed(m, s).authorized = m.authorized
         /\ ReleasedOnly(m) => ReleasedOnly(StageFailed(m, s))
<1>1. "executor_failed" \in Reasons
  BY DEF Reasons, RootCauses
<1> DEFINE f == Fail(m, {s}, "executor_failed")
<1>2. /\ f \in Machines /\ KeepsRetries(m, f) /\ f.authorized = m.authorized
      /\ ReleasedOnly(m) => ReleasedOnly(f)
  BY <1>1, FailPreserves
<1>3. StageFailed(m, s) = Settle(f)
  BY DEF StageFailed
<1> HIDE DEF f
<1> QED BY <1>2, <1>3, SettlePreserves DEF KeepsRetries

\* A write changes cells only, then the guards run.
LEMMA PortWrittenPreserves ==
  ASSUME NEW m \in Machines, NEW P, NEW c \in Cells
  PROVE  /\ PortWritten(m, P, c) \in Machines
         /\ KeepsRetries(m, PortWritten(m, P, c))
         /\ PortWritten(m, P, c).authorized = m.authorized
         /\ ReleasedOnly(m) => ReleasedOnly(PortWritten(m, P, c))
<1> DEFINE C == [p \in Ports |-> IF p \in P THEN c ELSE m.cells[p]]
           w == Machine(m.region, m.reason, C, m.authorized, m.skipped, m.retries)
<1>1. C \in [Ports -> Cells]
  BY MachineFields
<1>2. PortWritten(m, P, c) = Settle(w)
  <2>1. PortWritten(m, P, c) = Settle([m EXCEPT !.cells = C])
    BY DEF PortWritten
  <2> HIDE DEF C
  <2>2. [m EXCEPT !.cells = C] = w
    BY DEF Machine, Machines
  <2> QED BY <2>1, <2>2
<1> HIDE DEF C
<1>3. w \in Machines
  BY <1>1, MachineFields, MachineBuilt
<1>4. /\ KeepsRetries(m, w) /\ w.authorized = m.authorized
      /\ ReleasedOnly(m) => ReleasedOnly(w)
  BY MachineParts DEF KeepsRetries, ReleasedOnly
<1> HIDE DEF w
<1> QED BY <1>2, <1>3, <1>4, SettlePreserves DEF KeepsRetries

-----------------------------------------------------------------------------
\* An answer leads to stages.
LEMMA RouteType ==
  ASSUME NEW g \in Gates, NEW i \in DOMAIN Routes[g]
  PROVE  /\ Routes[g][i] \in SUBSET Stages
         /\ Routes[g][i] \subseteq Siblings[g]
<1>1. Routes[g] \in Seq(SUBSET Stages)
  BY RoutesAssumption
<1> QED BY <1>1 DEF Siblings

\* So do all answers of a gate together.
LEMMA SiblingsType ==
  ASSUME NEW g \in Gates
  PROVE  Siblings[g] \subseteq Stages
<1>1. Routes[g] \in Seq(SUBSET Stages)
  BY RoutesAssumption
<1> QED BY <1>1 DEF Siblings

\* An answer starts only what it authorizes, and authorizes only its targets.
LEMMA GateAnsweredPreserves ==
  ASSUME NEW m \in Machines, NEW g \in Gates, NEW targets \in SUBSET Stages
  PROVE  /\ GateAnswered(m, g, targets) \in Machines
         /\ KeepsRetries(m, GateAnswered(m, g, targets))
         /\ GateAnswered(m, g, targets).authorized \subseteq m.authorized \cup targets
         /\ ReleasedOnly(m) => ReleasedOnly(GateAnswered(m, g, targets))
<1> DEFINE mine   == m.region[g] = "executing"
           skip   == Unpicked(g, targets) \cap Waiting(m)
           picked == targets \cap Waiting(m)
           start  == {s \in picked : WiresDeliver(m, s)}
           dead   == {s \in picked : WiresDead(m, s)}
           R == [s \in Stages |-> CASE s = g /\ mine -> "done"
                                    [] s \in skip -> "done"
                                    [] s \in start -> "executing"
                                    [] s \in dead -> "error"
                                    [] OTHER -> m.region[s]]
           Q == [s \in Stages |-> IF s \in dead THEN "no_active_wire" ELSE m.reason[s]]
           A == m.authorized \cup start \cup dead \cup (IF mine THEN targets ELSE {})
           K == m.skipped \cup skip \cup (IF mine THEN Unpicked(g, targets) ELSE {})
           w == Machine(R, Q, m.cells, A, K, m.retries)
<1>1. start \subseteq targets /\ dead \subseteq targets
  OBVIOUS
<1>2. Unpicked(g, targets) \subseteq Stages /\ skip \subseteq Stages
  BY SiblingsType DEF Unpicked
<1>3. ASSUME NEW s \in Stages
      PROVE  /\ R[s] \in Regions
             /\ R[s] = "executing" => m.region[s] = "executing" \/ s \in start
  <2> HIDE DEF mine, skip, start, dead
  <2>1. R[s] = CASE s = g /\ mine -> "done"
                 [] s \in skip -> "done"
                 [] s \in start -> "executing"
                 [] s \in dead -> "error"
                 [] OTHER -> m.region[s]
    OBVIOUS
  <2>2. CASE s \in start
    BY <2>1, <2>2 DEF Regions
  <2>3. CASE s \notin start /\ ((s = g /\ mine) \/ s \in skip \/ s \in dead)
    BY <2>1, <2>3 DEF Regions
  <2>4. CASE s \notin start /\ ~(s = g /\ mine) /\ s \notin skip /\ s \notin dead
    <3>1. R[s] = m.region[s]
      BY <2>1, <2>4
    <3> QED BY <3>1, MachineFields
  <2> QED BY <2>2, <2>3, <2>4
<1>4. R \in [Stages -> Regions]
  BY <1>3
<1>5. Q \in [Stages -> Reasons]
  <2> HIDE DEF dead
  <2> QED BY MachineFields DEF Reasons, RootCauses
<1>6. /\ A \in SUBSET Stages /\ K \in SUBSET Stages
      /\ A \subseteq m.authorized \cup targets /\ start \subseteq A /\ m.authorized \subseteq A
  <2> HIDE DEF mine, skip, start, dead
  <2> QED BY <1>1, <1>2, MachineFields
<1>7. GateAnswered(m, g, targets) = Settle(w)
  <2> DEFINE x == [m EXCEPT !.region = R, !.reason = Q, !.authorized = A, !.skipped = K]
  <2>1. GateAnswered(m, g, targets) = Settle(x)
    BY DEF GateAnswered
  <2> HIDE DEF R, Q, A, K
  <2>2. PICK y : y = x
    OBVIOUS
  <2>3. y = w
    BY <2>2 DEF Machine, Machines
  <2> HIDE DEF w, x
  <2> QED BY <2>1, <2>2, <2>3
<1> HIDE DEF R, Q, A, K
<1>8. w \in Machines
  BY <1>4, <1>5, <1>6, MachineFields, MachineBuilt
<1>9. /\ KeepsRetries(m, w) /\ w.authorized = A
      /\ ReleasedOnly(m) => ReleasedOnly(w)
  BY <1>3, <1>6, MachineParts DEF KeepsRetries, ReleasedOnly
<1> HIDE DEF w
<1> QED BY <1>6, <1>7, <1>8, <1>9, SettlePreserves DEF KeepsRetries

-----------------------------------------------------------------------------
\* A machine in which nothing is executing.
Idle(m) == \A s \in Stages : m.region[s] # "executing"

\* A machine with nothing in flight breaks no release rule.
LEMMA IdleReleased ==
  ASSUME NEW m, Idle(m)
  PROVE  ReleasedOnly(m)
BY DEF Idle, ReleasedOnly

\* A compiled machine before START is typed, idle and unauthorized.
LEMMA FreshType ==
  ASSUME NEW seeds \in [{p \in Ports : Owner[p] = External} -> Values]
  PROVE  /\ Fresh(seeds) \in Machines
         /\ Idle(Fresh(seeds))
         /\ Fresh(seeds).authorized = {}
         /\ Fresh(seeds).retries = [s \in Retrying |-> 0]
<1> DEFINE C == [p \in Ports |-> IF Owner[p] = External THEN Cell(seeds[p], 0)
                                  ELSE IF IsFeedback(p) THEN Cell(Seed, 0) ELSE Absent]
           R == [s \in Stages |-> "waiting"]
           Q == [s \in Stages |-> "none"]
           T == [s \in Retrying |-> 0]
<1>1. C \in [Ports -> Cells]
  <2> SUFFICES ASSUME NEW p \in Ports PROVE C[p] \in Cells
    OBVIOUS
  <2>1. CASE Owner[p] = External
    BY <2>1, CellType
  <2>2. CASE Owner[p] # External
    BY <2>2, CellType, AbsentType, PortsAssumption
  <2> QED BY <2>1, <2>2
<1>2. R \in [Stages -> Regions] /\ Q \in [Stages -> Reasons] /\ T \in [Retrying -> Nat]
  BY DEF Regions, Reasons
<1>3. Fresh(seeds) = Machine(R, Q, C, {}, {}, T)
  BY DEF Fresh, Machine
<1>4. \A s \in Stages : R[s] # "executing"
  OBVIOUS
<1> HIDE DEF C, R, Q, T
<1> QED BY <1>1, <1>2, <1>3, <1>4, MachineParts, MachineBuilt DEF Idle, T

\* Rewinding leaves nothing in flight.
LEMMA RewoundPreserves ==
  ASSUME NEW m \in Machines, NEW reset, NEW keep
  PROVE  /\ Rewound(m, reset, keep) \in Machines
         /\ Idle(Rewound(m, reset, keep))
         /\ KeepsRetries(m, Rewound(m, reset, keep))
         /\ Rewound(m, reset, keep).authorized = m.authorized
<1> DEFINE again == reset \cup (Stages \ Final(m))
           R == [s \in Stages |-> IF s \in again THEN "waiting" ELSE m.region[s]]
           Q == [s \in Stages |-> IF s \in again THEN "none" ELSE m.reason[s]]
           C == [p \in Ports |-> IF Survives(p, reset, keep) THEN m.cells[p]
                                  ELSE IF IsFeedback(p) THEN Cell(Seed, 0) ELSE Absent]
<1>1. \A s \in Stages : R[s] \in Regions /\ R[s] # "executing"
  BY MachineFields DEF Final, Done, Failed, Regions
<1>2. Q \in [Stages -> Reasons]
  <2> HIDE DEF again
  <2> QED BY MachineFields DEF Reasons
<1>3. C \in [Ports -> Cells]
  <2>1. Cell(Seed, 0) \in Cells
    BY CellType, PortsAssumption
  <2> QED BY <2>1, AbsentType, MachineFields
<1>4. Rewound(m, reset, keep) = Machine(R, Q, C, m.authorized, m.skipped, m.retries)
  <2>1. Rewound(m, reset, keep) = [m EXCEPT !.region = R, !.reason = Q, !.cells = C]
    BY DEF Rewound
  <2> HIDE DEF R, Q, C
  <2> QED BY <2>1 DEF Machine, Machines
<1>5. R \in [Stages -> Regions]
  <2> HIDE DEF again
  <2> QED BY <1>1
<1> HIDE DEF R, Q, C
<1> QED BY <1>1, <1>2, <1>3, <1>4, <1>5, MachineFields, MachineParts, MachineBuilt
        DEF Idle, KeepsRetries

\* A rollback takes authorizations back and refills retry budgets.
LEMMA PrunedPreserves ==
  ASSUME NEW m \in Machines, NEW reset
  PROVE  /\ Pruned(m, reset) \in Machines
         /\ Idle(m) => Idle(Pruned(m, reset))
         /\ Pruned(m, reset).authorized = m.authorized \ reset
         /\ \A s \in Retrying : Pruned(m, reset).retries[s] \in {0, m.retries[s]}
<1> DEFINE A == m.authorized \ reset
           K == m.skipped \ reset
           T == [s \in Retrying |-> IF s \in reset THEN 0 ELSE m.retries[s]]
<1>1. A \in SUBSET Stages /\ K \in SUBSET Stages
  BY MachineFields
<1>2. T \in [Retrying -> Nat] /\ \A s \in Retrying : T[s] \in {0, m.retries[s]}
  BY MachineFields
<1>3. Pruned(m, reset) = Machine(m.region, m.reason, m.cells, A, K, T)
  <2>1. Pruned(m, reset) = [m EXCEPT !.authorized = A, !.skipped = K, !.retries = T]
    BY DEF Pruned, Machines
  <2> HIDE DEF A, K, T
  <2> QED BY <2>1 DEF Machine, Machines
<1>4. A = m.authorized \ reset
  OBVIOUS
<1> HIDE DEF A, K, T
<1> QED BY <1>1, <1>2, <1>3, <1>4, MachineFields, MachineParts, MachineBuilt DEF Idle

\* A retry uses up one unit of the script's budget.
LEMMA RetriedPreserves ==
  ASSUME NEW m \in Machines, NEW s \in Retrying
  PROVE  /\ [m EXCEPT !.retries[s] = @ + 1] \in Machines
         /\ Idle(m) => Idle([m EXCEPT !.retries[s] = @ + 1])
         /\ [m EXCEPT !.retries[s] = @ + 1].authorized = m.authorized
         /\ [m EXCEPT !.retries[s] = @ + 1].retries = [m.retries EXCEPT ![s] = @ + 1]
<1> DEFINE T == [m.retries EXCEPT ![s] = @ + 1]
<1>1. T \in [Retrying -> Nat]
  BY MachineFields
<1>2. PICK y : y = [m EXCEPT !.retries[s] = @ + 1]
  OBVIOUS
<1>3. y = Machine(m.region, m.reason, m.cells, m.authorized, m.skipped, T)
  BY <1>2 DEF Machine, Machines
<1> HIDE DEF T
<1>4. y \in Machines /\ (Idle(m) => Idle(y)) /\ y.authorized = m.authorized /\ y.retries = T
  BY <1>1, <1>3, MachineFields, MachineParts, MachineBuilt DEF Idle
<1> QED BY <1>2, <1>4 DEF T

-----------------------------------------------------------------------------
(* The run. *)

Books   == [published : SUBSET Stages, cancelled : SUBSET Stages,
            dispatched : SUBSET Gates, rejected : SUBSET Gates]
Budgets == [running : BOOLEAN, gated : BOOLEAN, expired : BOOLEAN]
Rows    == [gate : Gates, run : Nat]

-----------------------------------------------------------------------------
\* Types of the constant functions the actions use.

\* A cancellation closure holds stages only (computeTransitiveDownstreams).
LEMMA DownstreamType ==
  ASSUME NEW s \in Stages
  PROVE  DownstreamOf[s] \subseteq Stages
BY DEF DownstreamOf, Reach

\* So does the set a retry rewinds.
LEMMA ToResetType ==
  ASSUME NEW s \in Retrying
  PROVE  ToReset[s] \subseteq Stages
BY RetryAssumption, DownstreamType DEF ToReset

\* The outputs of a stage are ports.
LEMMA OutputsType ==
  ASSUME NEW s \in Stages
  PROVE  Outputs[s] \in SUBSET Ports
BY DEF Outputs

\* startAttempt: the executors of S carry the next attempt_idx.
LEMMA StartedType ==
  ASSUME NEW S \in SUBSET Stages, NEW rn \in [Stages -> Nat], NEW n \in Nat
  PROVE  Started(S, rn, n) \subseteq Executor
BY OutputsType DEF Started, Executor

\* Attempt indices stay numbers.
LEMMA BumpedType ==
  ASSUME NEW S, NEW rn \in [Stages -> Nat]
  PROVE  Bumped(rn, S) \in [Stages -> Nat]
BY DEF Bumped

\* Pausing and resuming keeps the budget a budget.
LEMMA ToggledType ==
  ASSUME NEW b \in Budgets, NEW m
  PROVE  Toggled(b, m) \in Budgets
<1> DEFINE r == CASE GateOpen(m) /\ ~b.gated -> FALSE
                  [] ~GateOpen(m) /\ b.gated -> ~b.expired
                  [] OTHER -> b.running
<1>1. GateOpen(m) \in BOOLEAN
  BY DEF GateOpen
<1>2. r \in BOOLEAN
  <2>1. CASE GateOpen(m) /\ ~b.gated
    BY <2>1
  <2>2. CASE ~GateOpen(m) /\ b.gated
    BY <2>2
  <2>3. CASE ~(GateOpen(m) /\ ~b.gated) /\ ~(~GateOpen(m) /\ b.gated)
    BY <2>3 DEF Budgets
  <2> QED BY <2>1, <2>2, <2>3
<1>3. Toggled(b, m) = [b EXCEPT !.gated = GateOpen(m), !.running = r]
  BY DEF Toggled, Budgets
<1> HIDE DEF r
<1> QED BY <1>1, <1>2, <1>3 DEF Budgets

\* Dropping the stages of a rewind keeps the book a book.
LEMMA ClearedType ==
  ASSUME NEW bk \in Books, NEW reset
  PROVE  Cleared(bk, reset) \in Books
BY DEF Cleared, Books

\* finishAttempt sets an attempt row to a status.
LEMMA SettlesType ==
  ASSUME NEW e \in Executor, NEW status \in AttemptStates,
         attempt \in [Stages -> AttemptStates]
  PROVE  Settles(e, status) \in [Stages -> AttemptStates]
BY DEF Settles, Executor

\* answerGate closes the attempt row of its gate.
LEMMA ClosedType ==
  ASSUME NEW r \in Rows, attempt \in [Stages -> AttemptStates]
  PROVE  Closed(r) \in [Stages -> AttemptStates]
BY StagesAssumption DEF Closed, Rows, AttemptStates

\* createGate adds rows of gates.
LEMMA OpenedType ==
  ASSUME NEW m1, NEW bk, NEW rows \in SUBSET Rows, NEW rn \in [Stages -> Nat]
  PROVE  Opened(m1, bk, rows, rn) \in SUBSET Rows
BY StagesAssumption DEF Opened, Undispatched, Rows

-----------------------------------------------------------------------------
\* The part of TypeOK that Observe and Rebuild determine.
ActorTypes ==
  /\ machine \in Machines
  /\ generation \in 1..MaxTotalAttempts
  /\ actorUp \in BOOLEAN
  /\ phase \in {"live", "draining", "over"}
  /\ verdict \in {"none", "completed", "thrown"}
  /\ book \in Books
  /\ budget \in Budgets
  /\ executors \in SUBSET Executor
  /\ runs \in [Stages -> Nat]
  /\ attempt \in [Stages -> AttemptStates]
  /\ consumed \in [Stages -> [Ports -> Cells]]

\* The part the other assignments determine.
OutsideTypes ==
  /\ interrupt \in [seen : BOOLEAN, grace : 0..MaxTotalAttempts]
  /\ secretPending \in BOOLEAN
  /\ finals \in {"none", "completed", "failed", "cancelled"}
  /\ runFinal \in {"none", "completed", "failed"}
  /\ standing \subseteq Gates \X Nat
  /\ correction \in [Gates -> Nat]

\* TypeOK by parts: what the actor changes, what it leaves alone, the gate rows.
LEMMA TypeParts == TypeOK <=> ActorTypes /\ OutsideTypes /\ openGates \in SUBSET Rows
BY DEF TypeOK, ActorTypes, OutsideTypes, Books, Budgets, Rows

\* The same after a step.
LEMMA TypePartsNext == TypeOK' <=> ActorTypes' /\ OutsideTypes' /\ openGates' \in SUBSET Rows
BY DEF TypeOK, ActorTypes, OutsideTypes, Books, Budgets, Rows

\* What an actor's reaction to a snapshot preserves.
LEMMA ObserveType ==
  ASSUME NEW m0 \in Machines, NEW m1 \in Machines, NEW n \in 1..MaxTotalAttempts,
         NEW bk \in Books, NEW bud \in Budgets, NEW ex \in SUBSET Executor,
         NEW rn \in [Stages -> Nat], NEW at \in [Stages -> AttemptStates],
         consumed \in [Stages -> [Ports -> Cells]],
         Observe(m0, m1, n, bk, bud, ex, rn, at)
  PROVE  ActorTypes'
<1> DEFINE starts == Invoked(m0, m1)
           gates  == Undispatched(m1, bk)
           doomed == Propagation(m1, bk)
           m2     == StageCancelled(m1, doomed)
           ended  == Final(m2) = Stages
<1>1. starts \in SUBSET Stages
  BY DEF Invoked, Executing
<1>2. gates \in SUBSET Gates
  BY DEF Undispatched
<1>3. doomed \in SUBSET Stages
  BY DownstreamType DEF Propagation, Failed
<1>4. m2 \in Machines
  BY StageCancelledPreserves
<1>5. Final(m2) \in SUBSET Stages /\ Done(m2) \in SUBSET Stages
  BY DEF Final, Done, Failed
<1>6. n \in Nat
  BY RunAssumption
<1>7. m1.cells \in [Ports -> Cells]
  BY MachineFields
<1>8. /\ machine' = m2
      /\ generation' = n
      /\ actorUp' = ~ended
      /\ phase' = IF ended THEN "draining" ELSE "live"
      /\ verdict' = IF ended THEN "completed" ELSE "none"
      /\ book' = [published  |-> bk.published \cup Final(m2),
                  cancelled  |-> bk.cancelled \cup doomed,
                  dispatched |-> bk.dispatched \cup gates,
                  rejected   |-> bk.rejected \ (Done(m2) \ bk.published)]
      /\ budget' = Toggled(bud, m2)
      /\ executors' = ex \cup Started(starts, rn, n)
      /\ runs' = Bumped(rn, starts \cup gates)
      /\ attempt' = [s \in Stages |-> IF s \in starts \cup gates THEN "running" ELSE at[s]]
      /\ consumed' = [s \in Stages |->
                        IF s \in starts
                          THEN [p \in Ports |-> IF p \in Inputs[s] THEN m1.cells[p] ELSE Absent]
                          ELSE consumed[s]]
  BY DEF Observe
<1> HIDE DEF starts, gates, doomed, m2, ended
<1>9. book' \in Books
  BY <1>2, <1>3, <1>5, <1>8 DEF Books
<1>10. budget' \in Budgets
  BY <1>8, ToggledType
<1>11. executors' \in SUBSET Executor
  BY <1>1, <1>6, <1>8, StartedType
<1>12. runs' \in [Stages -> Nat]
  BY <1>8, BumpedType
<1>13. attempt' \in [Stages -> AttemptStates]
  BY <1>8 DEF AttemptStates
<1>14. consumed' \in [Stages -> [Ports -> Cells]]
  BY <1>7, <1>8, AbsentType
<1>15. actorUp' \in BOOLEAN
  BY <1>8 DEF ended
<1> QED BY <1>4, <1>8, <1>9, <1>10, <1>11, <1>12, <1>13, <1>14, <1>15 DEF ActorTypes

\* An event without an actor to take it keeps the types.
LEMMA UnheardType ==
  ASSUME ActorTypes, NEW ex \in SUBSET Executor, NEW at \in [Stages -> AttemptStates],
         Unheard(ex, at)
  PROVE  ActorTypes'
BY DEF ActorTypes, Unheard

\* The replay of gate answers keeps the machine typed and starts nobody unreleased.
LEMMA ReplayedPreserves ==
  ASSUME NEW m \in Machines, NEW bk
  PROVE  /\ Replayed(m, bk) \in Machines
         /\ KeepsRetries(m, Replayed(m, bk))
         /\ Replayed(m, bk).authorized = m.authorized
         /\ ReleasedOnly(m) => ReleasedOnly(Replayed(m, bk))
<1> DEFINE gs == {g \in Gates \cap Done(m) : g \notin bk.rejected /\ Recovered(m, g) # {}}
           route(g) == CHOOSE i \in Recovered(m, g) : \A j \in Recovered(m, g) : i <= j
           skip == Waiting(Settle(m)) \cap UNION {Siblings[g] \ Routes[g][route(g)] : g \in gs}
           R == [s \in Stages |-> IF s \in skip THEN "done" ELSE Settle(m).region[s]]
           K == Settle(m).skipped \cup skip
           w == Machine(R, Settle(m).reason, Settle(m).cells, Settle(m).authorized, K,
                        Settle(m).retries)
<1>1. skip \in SUBSET Stages
  BY DEF Waiting
<1>2. Settle(m) \in Machines
  BY SettlePreserves
<1>3. /\ R \in [Stages -> Regions]
      /\ \A s \in Stages : R[s] = "executing" => Settle(m).region[s] = "executing"
  <2> HIDE DEF skip
  <2> QED BY <1>2, MachineFields DEF Regions
<1>4. K \in SUBSET Stages
  BY <1>1, <1>2, MachineFields
<1>5. Replayed(m, bk) = Settle(w)
  <2> DEFINE x == [Settle(m) EXCEPT
                     !.region = [s \in Stages |-> IF s \in skip THEN "done" ELSE @[s]],
                     !.skipped = @ \cup skip]
  <2>1. Replayed(m, bk) = Settle(x)
    BY DEF Replayed
  <2>2. PICK z : z = Settle(m)
    OBVIOUS
  <2>3. PICK y : y = [z EXCEPT !.region = R, !.skipped = K]
    OBVIOUS
  <2>4. x = y
    <3> HIDE DEF skip
    <3> QED BY <2>2, <2>3
  <2> HIDE DEF R, K, x
  <2>5. y = w
    BY <1>2, <2>2, <2>3 DEF Machine, Machines
  <2> HIDE DEF w
  <2> QED BY <2>1, <2>4, <2>5
<1> HIDE DEF R, K
<1>6. w \in Machines
  BY <1>2, <1>3, <1>4, MachineFields, MachineBuilt
<1>7. /\ KeepsRetries(m, w) /\ w.authorized = m.authorized
      /\ ReleasedOnly(m) => ReleasedOnly(w)
  BY <1>3, SettlePreserves, MachineParts DEF KeepsRetries, ReleasedOnly
<1> HIDE DEF w
<1> QED BY <1>5, <1>6, <1>7, SettlePreserves DEF KeepsRetries

\* A rebuild keeps the types, past the attempt limit too.
LEMMA RebuildType ==
  ASSUME ActorTypes,
         NEW m \in Machines, NEW bk \in Books, NEW ex \in SUBSET Executor,
         NEW rn \in [Stages -> Nat], NEW at \in [Stages -> AttemptStates],
         NEW rows \in SUBSET Rows,
         Rebuild(m, bk, ex, rn, at, rows)
  PROVE  ActorTypes' /\ openGates' \in SUBSET Rows
<1>1. CASE Exhausted
  BY <1>1 DEF Rebuild, ActorTypes
<1>2. CASE ~Exhausted
  <2>1. generation + 1 \in 1..MaxTotalAttempts
    BY <1>2, RunAssumption DEF Exhausted, ActorTypes
  <2>2. Replayed(m, bk) \in Machines
    BY ReplayedPreserves
  <2>3. /\ Observe(m, Replayed(m, bk), generation + 1, bk, budget, ex, rn, at)
        /\ openGates' = Opened(Replayed(m, bk), bk, rows, rn)
    BY <1>2 DEF Rebuild
  <2>4. budget \in Budgets /\ consumed \in [Stages -> [Ports -> Cells]]
    BY DEF ActorTypes
  <2>5. ActorTypes'
    BY <2>1, <2>2, <2>3, <2>4, ObserveType
  <2> QED BY <2>3, <2>5, OpenedType
<1> QED BY <1>1, <1>2

-----------------------------------------------------------------------------
\* Type correctness, action by action.

\* The first actor is well typed, whatever the seeds.
LEMMA InitType == Init => TypeOK
<1> SUFFICES ASSUME Init PROVE TypeOK
  OBVIOUS
<1> DEFINE none == [s \in Stages |-> 0]
           bk == [published |-> {}, cancelled |-> {}, dispatched |-> {}, rejected |-> {}]
           b0 == [running |-> TRUE, gated |-> FALSE, expired |-> FALSE]
<1>1. PICK seeds \in [{p \in Ports : Owner[p] = External} -> Values] : Init!(seeds)
  BY DEF Init
<1> DEFINE m0 == Fresh(seeds)
           m1 == Settle(m0)
           starts == Executing(m1) \ Gates
           gates == Executing(m1) \cap Gates
           m2 == StageCancelled(m1, Propagation(m1, bk))
           ended == Final(m2) = Stages
<1>2. m1 \in Machines /\ m2 \in Machines
  BY FreshType, SettlePreserves, StageCancelledPreserves
<1>2a. m1.cells \in [Ports -> Cells]
  BY <1>2, MachineFields
<1>3. starts \in SUBSET Stages /\ gates \in SUBSET Gates
  BY DEF Executing
<1>4. Propagation(m1, bk) \in SUBSET Stages
  BY DownstreamType DEF Propagation, Failed
<1>5. Final(m2) \in SUBSET Stages
  BY DEF Final, Done, Failed
<1>6. none \in [Stages -> Nat] /\ b0 \in Budgets /\ 1 \in 1..MaxTotalAttempts
  BY RunAssumption DEF Budgets
<1>7. Started(starts, none, 1) \in SUBSET Executor
  BY <1>3, <1>6, StartedType
<1>8. Bumped(none, starts \cup gates) \in [Stages -> Nat]
  BY <1>6, BumpedType
<1>9. Toggled(b0, m2) \in Budgets
  BY <1>6, ToggledType
<1>10. Opened(m1, bk, {}, none) \in SUBSET Rows
  BY <1>6, OpenedType
<1>11. [s \in Stages |-> IF s \in starts \cup gates THEN "running" ELSE "none"]
         \in [Stages -> AttemptStates]
  BY DEF AttemptStates
<1>12. /\ machine = m2
       /\ generation = 1
       /\ actorUp = ~ended
       /\ phase = IF ended THEN "draining" ELSE "live"
       /\ verdict = IF ended THEN "completed" ELSE "none"
       /\ book = [published |-> Final(m2), cancelled |-> Propagation(m1, bk),
                  dispatched |-> gates, rejected |-> {}]
       /\ budget = Toggled(b0, m2)
       /\ interrupt = [seen |-> FALSE, grace |-> 0]
       /\ secretPending = FALSE
       /\ executors = Started(starts, none, 1)
       /\ runs = Bumped(none, starts \cup gates)
       /\ attempt = [s \in Stages |-> IF s \in starts \cup gates THEN "running" ELSE "none"]
       /\ openGates = Opened(m1, bk, {}, none)
       /\ finals = "none"
       /\ runFinal = "none"
       /\ consumed = [s \in Stages |-> [p \in Ports |->
                        IF s \in starts /\ p \in Inputs[s] THEN m1.cells[p] ELSE Absent]]
       /\ standing = {}
       /\ correction = [g \in Gates |-> 0]
  BY <1>1
<1> HIDE DEF m2, starts, gates, bk, b0, none
<1>13. ActorTypes
  <2>1. book \in Books
    BY <1>3, <1>4, <1>5, <1>12 DEF Books
  <2>2. consumed \in [Stages -> [Ports -> Cells]]
    BY <1>2a, <1>12, AbsentType
  <2> QED BY <1>2, <1>6, <1>7, <1>8, <1>9, <1>11, <1>12, <2>1, <2>2 DEF ActorTypes
<1>14. OutsideTypes
  <2>1. 0 \in 0..MaxTotalAttempts
    BY RunAssumption
  <2>2. interrupt \in [seen : BOOLEAN, grace : 0..MaxTotalAttempts]
    BY <1>12, <2>1
  <2>3. correction \in [Gates -> Nat] /\ standing \subseteq Gates \X Nat
    BY <1>12
  <2> QED BY <1>12, <2>2, <2>3 DEF OutsideTypes
<1> QED BY <1>10, <1>12, <1>13, <1>14, TypeParts

\* Writing ports keeps the types.
LEMMA WriteType ==
  ASSUME TypeOK, NEW e \in Executor, NEW P, NEW v \in Values,
         NEW ex \in SUBSET Executor, NEW at \in [Stages -> AttemptStates],
         Write(e, P, v, ex, at)
  PROVE  TypeOK'
<1>1. OutsideTypes'
  BY TypeParts DEF Write, OutsideTypes
<1>2. CASE Live
  <2> DEFINE m1 == PortWritten(machine, P, Cell(v, e.run))
  <2>1. Cell(v, e.run) \in Cells
    BY CellType DEF Executor
  <2>2. m1 \in Machines
    BY <2>1, TypeParts, PortWrittenPreserves DEF ActorTypes
  <2>3. Observe(machine, m1, generation, book, budget, ex, runs, at)
    BY <1>2 DEF Write
  <2>4. openGates' = Opened(m1, book, openGates, runs)
    BY <1>2 DEF Write
  <2> HIDE DEF m1
  <2>5. ActorTypes'
    BY <2>2, <2>3, TypeParts, ObserveType DEF ActorTypes
  <2> QED BY <1>1, <2>4, <2>5, TypeParts, TypePartsNext, OpenedType DEF ActorTypes
<1>3. CASE ~Live
  <2>1. ActorTypes'
    BY <1>3, TypeParts, UnheardType DEF Write
  <2> QED BY <1>1, <1>3, <2>1, TypeParts, TypePartsNext DEF Write
<1> QED BY <1>2, <1>3

\* write_port keeps the types.
LEMMA AgentWriteType ==
  ASSUME TypeOK, NEW e \in executors, NEW p \in Ports, NEW v \in Values, AgentWrite(e, p, v)
  PROVE  TypeOK'
<1> DEFINE ex == (executors \ {e}) \cup {[e EXCEPT !.pending = @ \ {p}]}
<1>1. e \in Executor /\ executors \in SUBSET Executor /\ attempt \in [Stages -> AttemptStates]
  BY TypeParts DEF ActorTypes
<1>2. ex \in SUBSET Executor
  BY <1>1 DEF Executor
<1>3. Write(e, {p}, v, ex, attempt)
  BY DEF AgentWrite
<1> HIDE DEF ex
<1> QED BY <1>1, <1>2, <1>3, WriteType

\* The end of an agent's turn keeps the types.
LEMMA AgentFinishType ==
  ASSUME TypeOK, NEW e \in executors, AgentFinish(e)
  PROVE  TypeOK'
<1>1. e \in Executor /\ executors \ {e} \in SUBSET Executor
  BY TypeParts DEF ActorTypes
<1>2. Settles(e, "success") \in [Stages -> AttemptStates]
  BY <1>1, TypeParts, SettlesType DEF ActorTypes, AttemptStates
<1>3. ActorTypes'
  BY <1>1, <1>2, TypeParts, UnheardType DEF AgentFinish
<1> QED BY <1>3, TypeParts, TypePartsNext DEF AgentFinish, OutsideTypes

\* The return of a script module keeps the types.
LEMMA ScriptReturnType ==
  ASSUME TypeOK, NEW e \in executors, NEW P, NEW v \in Values, ScriptReturn(e, P, v)
  PROVE  TypeOK'
<1>1. e \in Executor /\ executors \ {e} \in SUBSET Executor
  BY TypeParts DEF ActorTypes
<1>2. Settles(e, "success") \in [Stages -> AttemptStates]
  BY <1>1, TypeParts, SettlesType DEF ActorTypes, AttemptStates
<1>3. Write(e, P, v, executors \ {e}, Settles(e, "success"))
  BY DEF ScriptReturn
<1> QED BY <1>1, <1>2, <1>3, WriteType

\* The machine a failed script's retry is rebuilt from.
RetryMachine(s) == [Rewound(machine, ToReset[s], {}) EXCEPT !.retries[s] = @ + 1]

\* STAGE_FAILED keeps the types, whether it fails the stage or rewinds the run.
LEMMA FailureType ==
  ASSUME TypeOK, NEW e \in Executor, NEW ex \in SUBSET Executor,
         NEW at \in [Stages -> AttemptStates], Failure(e, ex, at)
  PROVE  ActorTypes' /\ openGates' \in SUBSET Rows
<1> DEFINE s == e.stage
<1>0. s \in Stages /\ ActorTypes /\ openGates \in SUBSET Rows
  BY TypeParts DEF Executor
<1>1. CASE ~Live
  <2>1. Unheard(ex, at) /\ UNCHANGED openGates
    BY <1>1 DEF Failure
  <2> QED BY <1>0, <2>1, UnheardType
<1>2. CASE Live /\ ~RetriesOn(machine, s)
  <2> DEFINE m1 == StageFailed(machine, s)
  <2>1. m1 \in Machines
    BY <1>0, StageFailedPreserves DEF ActorTypes
  <2>2. Observe(machine, m1, generation, book, budget, ex, runs, at)
    BY <1>2 DEF Failure
  <2>3. openGates' = Opened(m1, book, openGates, runs)
    BY <1>2 DEF Failure
  <2> HIDE DEF m1
  <2> QED BY <1>0, <2>1, <2>2, <2>3, ObserveType, OpenedType DEF ActorTypes
<1>3. CASE Live /\ RetriesOn(machine, s)
  <2> DEFINE ghosts == Executing(Settle([machine EXCEPT !.region[s] = "waiting"])) \cap {s}
             at2 == [at EXCEPT ![s] = IF s \in ghosts THEN "running" ELSE @]
             ex2 == ex \cup Started(ghosts, runs, generation)
             rn2 == Bumped(runs, ghosts)
             bk2 == Cleared(book, ToReset[s])
             m2  == RetryMachine(s)
  <2>1. Rebuild(m2, bk2, ex2, rn2, at2, openGates)
    BY <1>3 DEF Failure, RetryMachine
  <2>2. ghosts \in SUBSET Stages
    BY DEF Executing
  <2>3. at2 \in [Stages -> AttemptStates]
    <3> HIDE DEF ghosts
    <3> QED BY <1>0 DEF AttemptStates
  <2>4. ex2 \in SUBSET Executor
    <3>1. runs \in [Stages -> Nat] /\ generation \in Nat
      BY <1>0, RunAssumption DEF ActorTypes
    <3> HIDE DEF ghosts
    <3> QED BY <2>2, <3>1, StartedType
  <2>5. rn2 \in [Stages -> Nat] /\ bk2 \in Books
    BY <1>0, BumpedType, ClearedType DEF ActorTypes
  <2>6. m2 \in Machines
    BY <1>0, <1>3, RewoundPreserves, RetriedPreserves DEF ActorTypes, RetriesOn, RetryMachine
  <2> HIDE DEF ghosts, at2, ex2, rn2, bk2, m2
  <2> QED BY <1>0, <2>1, <2>3, <2>4, <2>5, <2>6, RebuildType
<1> QED BY <1>1, <1>2, <1>3

\* A failing executor keeps the types.
LEMMA ExecutorFailType ==
  ASSUME TypeOK, NEW e \in executors, ExecutorFail(e)
  PROVE  TypeOK'
<1>1. e \in Executor /\ executors \ {e} \in SUBSET Executor
  BY TypeParts DEF ActorTypes
<1>2. Settles(e, "error") \in [Stages -> AttemptStates]
  BY <1>1, TypeParts, SettlesType DEF ActorTypes, AttemptStates
<1>3. ActorTypes' /\ openGates' \in SUBSET Rows
  BY <1>1, <1>2, FailureType DEF ExecutorFail
<1> QED BY <1>3, TypeParts, TypePartsNext DEF ExecutorFail, OutsideTypes

\* Pausing for a secret keeps the types.
LEMMA SecretPendingType ==
  ASSUME TypeOK, NEW e \in executors, ExecutorSecretPending(e)
  PROVE  TypeOK'
<1> DEFINE paused == [budget EXCEPT !.running = FALSE]
           at == Settles(e, "secret_pending")
           m1 == StageFailed(machine, e.stage)
<1>1. /\ e \in Executor /\ e.stage \in Stages /\ executors \ {e} \in SUBSET Executor
      /\ ActorTypes /\ openGates \in SUBSET Rows
  BY TypeParts DEF ActorTypes, Executor
<1>2. at \in [Stages -> AttemptStates]
  BY <1>1, SettlesType DEF ActorTypes, AttemptStates
<1>3. paused \in Budgets
  BY <1>1 DEF ActorTypes, Budgets
<1>4. m1 \in Machines
  BY <1>1, StageFailedPreserves DEF ActorTypes
<1> HIDE DEF at, m1, paused
<1>5. CASE Live
  <2>1. /\ Observe(machine, m1, generation, book, paused, executors \ {e}, runs, at)
        /\ openGates' = Opened(m1, book, openGates, runs)
    BY <1>5 DEF ExecutorSecretPending, paused, at, m1
  <2>2. ActorTypes' /\ openGates' \in SUBSET Rows
    BY <1>1, <1>2, <1>3, <1>4, <2>1, ObserveType, OpenedType DEF ActorTypes
  <2> QED BY <2>2, TypeParts, TypePartsNext DEF ExecutorSecretPending, OutsideTypes
<1>6. CASE ~Live
  <2>1. /\ executors' = executors \ {e}
        /\ attempt' = at
        /\ budget' = paused
        /\ UNCHANGED <<machine, generation, actorUp, phase, verdict, book, runs,
                       consumed, openGates>>
    BY <1>6 DEF ExecutorSecretPending, paused, at
  <2>2. ActorTypes' /\ openGates' \in SUBSET Rows
    BY <1>1, <1>2, <1>3, <2>1 DEF ActorTypes
  <2> QED BY <2>2, TypeParts, TypePartsNext DEF ExecutorSecretPending, OutsideTypes
<1> QED BY <1>5, <1>6

\* The machine a reject of row r is rebuilt from.
RejectMachine(r) ==
  LET now == IF actorUp THEN Answered(r) ELSE machine
  IN Pruned(Rewound(now, Affected[r.gate], {Feedback[r.gate]}), Affected[r.gate])

\* The feedback port takes an answer without releasing anybody.
LEMMA AnsweredPreserves ==
  ASSUME machine \in Machines, NEW r \in Rows
  PROVE  /\ Answered(r) \in Machines
         /\ KeepsRetries(machine, Answered(r))
         /\ Answered(r).authorized = machine.authorized
         /\ ReleasedOnly(machine) => ReleasedOnly(Answered(r))
<1>1. Cell(Seed, r.run) \in Cells
  BY CellType, PortsAssumption DEF Rows
<1> QED BY <1>1, PortWrittenPreserves DEF Answered

\* A forward answer keeps the types.
LEMMA ApproveType ==
  ASSUME TypeOK, NEW r \in openGates, NEW i \in DOMAIN Routes[r.gate], Approve(r, i)
  PROVE  TypeOK'
<1>1. /\ r \in Rows /\ r.gate \in Gates /\ ActorTypes /\ OutsideTypes
      /\ openGates \in SUBSET Rows /\ openGates \ {r} \in SUBSET Rows
  BY TypeParts DEF Rows
<1>2. i \in Nat /\ Routes[r.gate][i] \in SUBSET Stages
  <2>1. Routes[r.gate] \in Seq(SUBSET Stages)
    BY <1>1, RoutesAssumption
  <2> QED BY <2>1
<1>3. Closed(r) \in [Stages -> AttemptStates]
  BY <1>1, ClosedType DEF ActorTypes
<1>4. OutsideTypes'
  <2>1. standing' \subseteq Gates \X Nat
    <3>1. standing' \subseteq standing \cup {<<r.gate, i>>}
      BY DEF Approve
    <3> QED BY <1>1, <1>2, <3>1 DEF OutsideTypes
  <2>2. correction' \in [Gates -> Nat]
    <3>1. correction' = [correction EXCEPT ![r.gate] = 0]
      BY DEF Approve
    <3> QED BY <1>1, <3>1 DEF OutsideTypes
  <2>3. UNCHANGED <<interrupt, secretPending, finals, runFinal>>
    BY DEF Approve
  <2> QED BY <1>1, <2>1, <2>2, <2>3 DEF OutsideTypes
<1>5. CASE Live
  <2> DEFINE m1 == GateAnswered(Answered(r), r.gate, Routes[r.gate][i])
  <2>1. m1 \in Machines
    BY <1>1, <1>2, AnsweredPreserves, GateAnsweredPreserves DEF ActorTypes
  <2>2. /\ Observe(machine, m1, generation, book, budget, executors, runs, Closed(r))
        /\ openGates' = Opened(m1, book, openGates \ {r}, runs)
    BY <1>5 DEF Approve
  <2> HIDE DEF m1
  <2>3. ActorTypes' /\ openGates' \in SUBSET Rows
    BY <1>1, <1>3, <2>1, <2>2, ObserveType, OpenedType DEF ActorTypes
  <2> QED BY <1>4, <2>3, TypePartsNext
<1>6. CASE ~Live
  <2>1. Unheard(executors, Closed(r)) /\ openGates' = openGates \ {r}
    BY <1>6 DEF Approve
  <2>2. executors \in SUBSET Executor
    BY <1>1 DEF ActorTypes
  <2>3. ActorTypes'
    BY <1>1, <1>3, <2>1, <2>2, UnheardType
  <2> QED BY <1>1, <1>4, <2>1, <2>3, TypePartsNext
<1> QED BY <1>5, <1>6

\* The rewound context of a reject is typed and idle: nothing is in flight.
LEMMA RejectMachinePreserves ==
  ASSUME machine \in Machines, NEW r \in Rows
  PROVE  /\ RejectMachine(r) \in Machines
         /\ Idle(RejectMachine(r))
         /\ RejectMachine(r).authorized = machine.authorized \ Affected[r.gate]
         /\ \A s \in Retrying : RejectMachine(r).retries[s] \in {0, machine.retries[s]}
<1> DEFINE now == IF actorUp THEN Answered(r) ELSE machine
           w == Rewound(now, Affected[r.gate], {Feedback[r.gate]})
<1>1. now \in Machines /\ KeepsRetries(machine, now) /\ now.authorized = machine.authorized
  BY AnsweredPreserves DEF KeepsRetries
<1> HIDE DEF now
<1>2. w \in Machines /\ Idle(w) /\ KeepsRetries(now, w) /\ w.authorized = now.authorized
  BY <1>1, RewoundPreserves
<1>3. RejectMachine(r) = Pruned(w, Affected[r.gate])
  BY DEF RejectMachine, now
<1> HIDE DEF w
<1> QED BY <1>1, <1>2, <1>3, PrunedPreserves DEF KeepsRetries

\* A reject keeps the types.
LEMMA RejectType ==
  ASSUME TypeOK, NEW r \in openGates, NEW i \in DOMAIN Routes[r.gate], Reject(r, i)
  PROVE  TypeOK'
<1>1. /\ r \in Rows /\ r.gate \in Gates /\ r.run \in Nat /\ ActorTypes /\ OutsideTypes
      /\ openGates \in SUBSET Rows /\ openGates \ {r} \in SUBSET Rows
      /\ executors \in SUBSET Executor
  BY TypeParts DEF Rows, ActorTypes
<1>2. Closed(r) \in [Stages -> AttemptStates]
  BY <1>1, ClosedType DEF ActorTypes
<1>3. UNCHANGED <<interrupt, secretPending, finals, runFinal>>
  BY DEF Reject
<1>4. CASE phase = "live"
  <2> DEFINE reset == Affected[r.gate]
             bk2 == [Cleared(book, reset) EXCEPT !.rejected = @ \cup {r.gate}]
  <2>1. bk2 \in Books
    <3>1. Cleared(book, reset) \in Books
      BY <1>1, ClearedType DEF ActorTypes
    <3> QED BY <1>1, <3>1 DEF Books
  <2>2. RejectMachine(r) \in Machines
    BY <1>1, RejectMachinePreserves DEF ActorTypes
  <2>3. Rebuild(RejectMachine(r), bk2, executors, runs, Closed(r), openGates \ {r})
    BY <1>4 DEF Reject, RejectMachine
  <2> HIDE DEF bk2
  <2>4. ActorTypes' /\ openGates' \in SUBSET Rows
    BY <1>1, <1>2, <2>1, <2>2, <2>3, RebuildType DEF ActorTypes
  <2>5. standing' \subseteq standing
    BY <1>4 DEF Reject
  <2>6. correction' \in [Gates -> Nat]
    <3>1. correction' = [x \in Gates |-> IF x = r.gate THEN (IF actorUp THEN r.run ELSE 0)
                                         ELSE IF x \in reset THEN 0 ELSE correction[x]]
      BY <1>4 DEF Reject
    <3> QED BY <1>1, <3>1 DEF OutsideTypes
  <2> QED BY <1>1, <1>3, <2>4, <2>5, <2>6, TypePartsNext DEF OutsideTypes
<1>5. CASE phase # "live"
  <2>1. /\ Unheard(executors, Closed(r)) /\ openGates' = openGates \ {r}
        /\ UNCHANGED <<standing, correction>>
    BY <1>5 DEF Reject
  <2>2. ActorTypes'
    BY <1>1, <1>2, <2>1, UnheardType
  <2> QED BY <1>1, <1>3, <2>1, <2>2, TypePartsNext DEF OutsideTypes
<1> QED BY <1>4, <1>5

\* Interrupt, grace, cancel and timeout keep the types.
LEMMA OperatorType ==
  ASSUME TypeOK, Interrupt \/ GraceExpires \/ CancelTask \/ Timeout \/ Finish
  PROVE  TypeOK'
<1>1. generation \in 0..MaxTotalAttempts
  BY RunAssumption DEF TypeOK
<1>2. ASSUME Interrupted PROVE interrupt' \in [seen : BOOLEAN, grace : 0..MaxTotalAttempts]
  BY <1>1, <1>2 DEF Interrupted
<1>3. CASE Interrupt
  BY <1>2, <1>3 DEF Interrupt, TypeOK, Observations
<1>4. CASE GraceExpires
  <2>1. /\ actorUp' = FALSE
        /\ UNCHANGED <<machine, generation, phase, verdict, book, budget, interrupt,
                       secretPending, executors, runs, attempt, openGates, finals, runFinal>>
        /\ UNCHANGED Observations
    BY <1>4 DEF GraceExpires
  <2>2. ActorTypes'
    BY <2>1, TypeParts DEF ActorTypes, Observations
  <2>3. OutsideTypes' /\ openGates' \in SUBSET Rows
    BY <2>1, TypeParts DEF OutsideTypes, Observations
  <2> QED BY <2>2, <2>3, TypePartsNext
<1>5. CASE CancelTask
  <2>1. interrupt' \in [seen : BOOLEAN, grace : 0..MaxTotalAttempts]
    BY <1>2, <1>5 DEF CancelTask, TypeOK
  <2>2. /\ finals' = "cancelled" /\ openGates' = {}
        /\ UNCHANGED <<machine, generation, actorUp, phase, verdict, book, budget,
                       secretPending, executors, runs, attempt, runFinal>>
        /\ UNCHANGED Observations
    BY <1>5 DEF CancelTask
  <2> QED BY <2>1, <2>2 DEF TypeOK, Observations
<1>6. CASE Timeout
  BY <1>6 DEF Timeout, TypeOK, Observations
<1>7. CASE Finish
  <2>1. finals' \in {"none", "completed", "failed", "cancelled"}
    BY <1>7 DEF Finish, Recorded, Classified, TypeOK
  <2>2. runFinal' \in {"none", "completed", "failed"}
    BY <1>7 DEF Finish, Reported, TypeOK
  <2>3. budget' \in Budgets
    BY <1>7 DEF Finish, TypeOK, Budgets
  <2> QED BY <1>7, <2>1, <2>2, <2>3 DEF Finish, TypeOK, Observations, Budgets
<1> QED BY <1>3, <1>4, <1>5, <1>6, <1>7

\* A stuttering step keeps the types.
LEMMA StutterType ==
  ASSUME TypeOK, UNCHANGED vars
  PROVE  TypeOK'
BY DEF TypeOK, vars

\* Every step preserves types.
LEMMA NextType ==
  ASSUME TypeOK, [Next]_vars
  PROVE  TypeOK'
<1>1. CASE \E e \in executors : ExecutorStep(e)
  <2>1. PICK e \in executors : ExecutorStep(e)
    BY <1>1
  <2>2. CASE \E p \in Ports, v \in Values \ {Seed} : AgentWrite(e, p, v)
    BY <2>2, AgentWriteType
  <2>3. CASE AgentFinish(e)
    BY <2>3, AgentFinishType
  <2>4. CASE \E P \in SUBSET e.pending, v \in Values \ {Seed} : ScriptReturn(e, P, v)
    BY <2>4, ScriptReturnType
  <2>5. CASE ExecutorFail(e)
    BY <2>5, ExecutorFailType
  <2>6. CASE ExecutorSecretPending(e)
    BY <2>6, SecretPendingType
  <2> QED BY <2>1, <2>2, <2>3, <2>4, <2>5, <2>6 DEF ExecutorStep
<1>2. CASE \E r \in openGates : Answer(r)
  <2>1. PICK r \in openGates : Answer(r)
    BY <1>2
  <2>2. PICK i \in DOMAIN Routes[r.gate] : Approve(r, i) \/ Reject(r, i)
    BY <2>1 DEF Answer
  <2> QED BY <2>2, ApproveType, RejectType
<1>3. CASE Finish \/ Interrupt \/ GraceExpires \/ CancelTask \/ Timeout
  BY <1>3, OperatorType
<1>4. CASE Quiet \/ UNCHANGED vars
  BY <1>4, StutterType DEF Quiet
<1> QED BY <1>1, <1>2, <1>3, <1>4 DEF Next, Work

\* Every variable keeps its type, in every run of every pipeline.
THEOREM TypeCorrect == Spec => []TypeOK
<1>1. Init => TypeOK
  BY InitType
<1>2. TypeOK /\ [Next]_vars => TypeOK'
  BY NextType
<1> QED BY <1>1, <1>2, PTL DEF Spec

-----------------------------------------------------------------------------
\* The machine of the next state, per kind of step.

\* After an observed step the machine differs from m1 by cancellations only.
LEMMA ObserveMachine ==
  ASSUME NEW m0, NEW m1 \in Machines, NEW n, NEW bk, NEW bud, NEW ex, NEW rn, NEW at,
         ReleasedOnly(m1), Observe(m0, m1, n, bk, bud, ex, rn, at)
  PROVE  /\ ReleasedOnly(machine') /\ machine'.authorized = m1.authorized
         /\ machine'.retries = m1.retries
<1>1. machine' = StageCancelled(m1, Propagation(m1, bk))
  BY DEF Observe
<1> QED BY <1>1, StageCancelledPreserves DEF KeepsRetries

\* A rebuild either leaves the machine alone or replays answers on m.
LEMMA RebuildMachine ==
  ASSUME NEW m \in Machines, Idle(m), NEW bk, NEW ex, NEW rn, NEW at, NEW rows,
         Rebuild(m, bk, ex, rn, at, rows)
  PROVE  \/ Exhausted /\ machine' = machine
         \/ /\ ~Exhausted /\ ReleasedOnly(machine')
            /\ machine'.authorized = m.authorized /\ machine'.retries = m.retries
<1>1. CASE Exhausted
  BY <1>1 DEF Rebuild
<1>2. CASE ~Exhausted
  <2>1. /\ Replayed(m, bk) \in Machines
        /\ Replayed(m, bk).retries = m.retries
        /\ Replayed(m, bk).authorized = m.authorized
        /\ ReleasedOnly(Replayed(m, bk))
    BY IdleReleased, ReplayedPreserves DEF KeepsRetries
  <2>2. Observe(m, Replayed(m, bk), generation + 1, bk, budget, ex, rn, at)
    BY <1>2 DEF Rebuild
  <2> QED BY <1>2, <2>1, <2>2, ObserveMachine
<1> QED BY <1>1, <1>2

\* Executors: they never authorize anything, and retry within the budget.
LEMMA ExecutorMachine ==
  ASSUME TypeOK, ReleasedOnly(machine), NEW e \in executors, ExecutorStep(e)
  PROVE  /\ ReleasedOnly(machine')
         /\ machine'.authorized = machine.authorized
         /\ standing' = standing
         /\ RetriesWithinBudget => RetriesWithinBudget'
<1>1. e \in Executor /\ machine \in Machines /\ e.stage \in Stages
  BY DEF TypeOK, Executor
<1>2. ASSUME NEW P, NEW v \in Values, NEW ex, NEW at, Write(e, P, v, ex, at)
      PROVE  /\ ReleasedOnly(machine') /\ machine'.authorized = machine.authorized
             /\ machine'.retries = machine.retries /\ standing' = standing
  <2> DEFINE m1 == PortWritten(machine, P, Cell(v, e.run))
  <2>1. Cell(v, e.run) \in Cells
    BY <1>1, CellType DEF Executor
  <2>2. /\ m1 \in Machines /\ ReleasedOnly(m1) /\ m1.authorized = machine.authorized
        /\ m1.retries = machine.retries
    BY <1>1, <2>1, PortWrittenPreserves DEF KeepsRetries
  <2>3. standing' = standing
    BY <1>2 DEF Write
  <2>4. \/ Observe(machine, m1, generation, book, budget, ex, runs, at)
        \/ machine' = machine
    BY <1>2 DEF Write, Unheard
  <2> HIDE DEF m1
  <2> QED BY <2>2, <2>3, <2>4, ObserveMachine
<1>3. ASSUME NEW p \in Ports, NEW v \in Values \ {Seed}, AgentWrite(e, p, v)
      PROVE  /\ ReleasedOnly(machine') /\ machine'.authorized = machine.authorized
             /\ machine'.retries = machine.retries /\ standing' = standing
  BY <1>2, <1>3 DEF AgentWrite
<1>4. ASSUME NEW P, NEW v \in Values \ {Seed}, ScriptReturn(e, P, v)
      PROVE  /\ ReleasedOnly(machine') /\ machine'.authorized = machine.authorized
             /\ machine'.retries = machine.retries /\ standing' = standing
  BY <1>2, <1>4 DEF ScriptReturn
<1>5. ASSUME AgentFinish(e)
      PROVE  machine' = machine /\ standing' = standing
  BY <1>5 DEF AgentFinish, Unheard
<1>6. ASSUME ExecutorSecretPending(e)
      PROVE  /\ ReleasedOnly(machine') /\ machine'.authorized = machine.authorized
             /\ machine'.retries = machine.retries /\ standing' = standing
  <2> DEFINE m1 == StageFailed(machine, e.stage)
             paused == [budget EXCEPT !.running = FALSE]
             at == Settles(e, "secret_pending")
  <2>1. /\ m1 \in Machines /\ ReleasedOnly(m1) /\ m1.authorized = machine.authorized
        /\ m1.retries = machine.retries
    BY <1>1, StageFailedPreserves DEF KeepsRetries
  <2>2. \/ Observe(machine, m1, generation, book, paused, executors \ {e}, runs, at)
        \/ machine' = machine
    BY <1>6 DEF ExecutorSecretPending
  <2>3. standing' = standing
    BY <1>6 DEF ExecutorSecretPending
  <2> HIDE DEF m1, paused, at
  <2> QED BY <2>1, <2>2, <2>3, ObserveMachine
<1>7. ASSUME ExecutorFail(e)
      PROVE  /\ ReleasedOnly(machine') /\ machine'.authorized = machine.authorized
             /\ standing' = standing
             /\ RetriesWithinBudget => RetriesWithinBudget'
  <2> DEFINE ex == executors \ {e}
             at == Settles(e, "error")
             s  == e.stage
  <2>1. standing' = standing /\ Failure(e, ex, at)
    BY <1>7 DEF ExecutorFail
  <2>2. CASE ~Live
    BY <2>1, <2>2 DEF Failure, Unheard, RetriesWithinBudget
  <2>3. CASE Live /\ ~RetriesOn(machine, s)
    <3> DEFINE m1 == StageFailed(machine, s)
    <3>1. /\ m1 \in Machines /\ ReleasedOnly(m1) /\ m1.authorized = machine.authorized
          /\ m1.retries = machine.retries
      BY <1>1, StageFailedPreserves DEF KeepsRetries
    <3>2. Observe(machine, m1, generation, book, budget, ex, runs, at)
      BY <2>1, <2>3 DEF Failure
    <3> HIDE DEF m1, ex, at
    <3> QED BY <2>1, <3>1, <3>2, ObserveMachine DEF RetriesWithinBudget
  <2>4. CASE Live /\ RetriesOn(machine, s)
    <3> DEFINE m2 == RetryMachine(s)
               w == Rewound(machine, ToReset[s], {})
    <3>1. s \in Retrying /\ machine.retries[s] < MaxRetries[s]
      BY <2>4 DEF RetriesOn
    <3>2. w \in Machines /\ Idle(w) /\ w.retries = machine.retries
          /\ w.authorized = machine.authorized
      BY <1>1, RewoundPreserves DEF KeepsRetries
    <3>3. m2 = [w EXCEPT !.retries[s] = @ + 1]
      BY DEF RetryMachine
    <3> HIDE DEF w
    <3>4. /\ m2 \in Machines /\ Idle(m2) /\ m2.authorized = machine.authorized
          /\ m2.retries = [machine.retries EXCEPT ![s] = @ + 1]
      BY <3>1, <3>2, <3>3, RetriedPreserves
    <3>5. \E bk, x, rn, a, rows : Rebuild(m2, bk, x, rn, a, rows)
      BY <2>1, <2>4 DEF Failure, RetryMachine
    <3> HIDE DEF m2
    <3>6. \/ machine' = machine
          \/ /\ ReleasedOnly(machine') /\ machine'.authorized = machine.authorized
             /\ machine'.retries = [machine.retries EXCEPT ![s] = @ + 1]
      BY <3>4, <3>5, RebuildMachine
    <3>7. ASSUME RetriesWithinBudget, machine'.retries = [machine.retries EXCEPT ![s] = @ + 1]
          PROVE  RetriesWithinBudget'
      <4>1. machine.retries \in [Retrying -> Nat] /\ MaxRetries \in [Retrying -> Nat]
        BY <1>1, MachineFields, RetryAssumption
      <4> SUFFICES ASSUME NEW t \in Retrying PROVE machine'.retries[t] <= MaxRetries[t]
        BY DEF RetriesWithinBudget
      <4> QED BY <3>1, <3>7, <4>1 DEF RetriesWithinBudget
    <3> QED BY <2>1, <3>6, <3>7 DEF RetriesWithinBudget
  <2> QED BY <2>2, <2>3, <2>4
<1> QED BY <1>3, <1>4, <1>5, <1>6, <1>7 DEF ExecutorStep, RetriesWithinBudget

\* An approval authorizes its targets and nothing else, and stands from then on.
LEMMA ApproveMachine ==
  ASSUME TypeOK, ReleasedOnly(machine), NEW r \in openGates,
         NEW i \in DOMAIN Routes[r.gate], Approve(r, i)
  PROVE  /\ ReleasedOnly(machine')
         /\ machine'.retries = machine.retries
         /\ \/ machine' = machine /\ standing' = standing
            \/ /\ machine'.authorized \subseteq machine.authorized \cup Routes[r.gate][i]
               /\ standing' = standing \cup {<<r.gate, i>>}
<1>1. r \in Rows /\ r.gate \in Gates /\ machine \in Machines
  BY DEF TypeOK, Rows
<1>2. Routes[r.gate][i] \in SUBSET Stages
  BY <1>1, RouteType
<1>3. CASE Live
  <2> DEFINE m1 == GateAnswered(Answered(r), r.gate, Routes[r.gate][i])
  <2>1. /\ m1 \in Machines /\ ReleasedOnly(m1) /\ m1.retries = machine.retries
        /\ m1.authorized \subseteq machine.authorized \cup Routes[r.gate][i]
    BY <1>1, <1>2, AnsweredPreserves, GateAnsweredPreserves DEF KeepsRetries
  <2>2. /\ Observe(machine, m1, generation, book, budget, executors, runs, Closed(r))
        /\ standing' = standing \cup {<<r.gate, i>>}
    BY <1>3 DEF Approve
  <2> HIDE DEF m1
  <2> QED BY <2>1, <2>2, ObserveMachine
<1>4. CASE ~Live
  BY <1>4 DEF Approve, Unheard
<1> QED BY <1>3, <1>4

\* A reject takes authorizations back with the stages it rewinds.
LEMMA RejectMachineStep ==
  ASSUME TypeOK, ReleasedOnly(machine), NEW r \in openGates,
         NEW i \in DOMAIN Routes[r.gate], Reject(r, i)
  PROVE  /\ ReleasedOnly(machine')
         /\ \A s \in Retrying : machine'.retries[s] \in {0, machine.retries[s]}
         /\ \/ machine' = machine /\ standing' = standing
            \/ /\ machine'.authorized = machine.authorized \ Affected[r.gate]
               /\ standing' = {a \in standing : a[1] \notin Affected[r.gate]}
<1>1. r \in Rows /\ machine \in Machines
  BY DEF TypeOK, Rows
<1>2. CASE phase = "live"
  <2>1. \E bk, ex, rn, at, rows : Rebuild(RejectMachine(r), bk, ex, rn, at, rows)
    BY <1>2 DEF Reject, RejectMachine
  <2>2. standing' = IF Exhausted THEN standing
                    ELSE {a \in standing : a[1] \notin Affected[r.gate]}
    BY <1>2 DEF Reject
  <2>3. \/ Exhausted /\ machine' = machine
        \/ /\ ~Exhausted /\ ReleasedOnly(machine')
           /\ machine'.authorized = RejectMachine(r).authorized
           /\ machine'.retries = RejectMachine(r).retries
    BY <1>1, <2>1, RejectMachinePreserves, RebuildMachine
  <2> QED BY <1>1, <2>2, <2>3, RejectMachinePreserves
<1>3. CASE phase # "live"
  BY <1>3 DEF Reject, Unheard
<1> QED BY <1>2, <1>3

\* Operators, timers and the end of the run leave the machine alone.
LEMMA OperatorMachine ==
  ASSUME Interrupt \/ GraceExpires \/ CancelTask \/ Timeout \/ Finish \/ Quiet \/ UNCHANGED vars
  PROVE  machine' = machine /\ standing' = standing
BY DEF Interrupt, GraceExpires, CancelTask, Timeout, Finish, Quiet, Observations, vars

\* The first actor starts no stage behind a gate.
LEMMA InitMachine ==
  ASSUME Init
  PROVE  /\ ReleasedOnly(machine) /\ machine.authorized = {}
         /\ machine.retries = [s \in Retrying |-> 0]
<1>1. PICK seeds \in [{p \in Ports : Owner[p] = External} -> Values] : Init!(seeds)
  BY DEF Init
<1> DEFINE m1 == Settle(Fresh(seeds))
           bk == [published |-> {}, cancelled |-> {}, dispatched |-> {}, rejected |-> {}]
<1>2. /\ m1 \in Machines /\ ReleasedOnly(m1) /\ m1.authorized = {}
      /\ m1.retries = [s \in Retrying |-> 0]
  BY FreshType, IdleReleased, SettlePreserves DEF KeepsRetries
<1>3. machine = StageCancelled(m1, Propagation(m1, bk))
  BY <1>1
<1> HIDE DEF m1, bk
<1> QED BY <1>2, <1>3, StageCancelledPreserves DEF KeepsRetries

-----------------------------------------------------------------------------
\* No stage behind a gate executes unauthorized, and no retry exceeds its budget.
SafeInv == TypeOK /\ ReleasedOnly(machine) /\ RetriesWithinBudget

\* Every step keeps the inductive invariant.
LEMMA SafeNext ==
  ASSUME SafeInv, [Next]_vars
  PROVE  SafeInv'
<1>1. TypeOK'
  BY NextType DEF SafeInv
<1>2. TypeOK /\ ReleasedOnly(machine) /\ RetriesWithinBudget
  BY DEF SafeInv
<1>3. CASE \E e \in executors : ExecutorStep(e)
  BY <1>1, <1>2, <1>3, ExecutorMachine DEF SafeInv, ReleasedOnly
<1>4. CASE \E r \in openGates : Answer(r)
  <2>1. PICK r \in openGates : Answer(r)
    BY <1>4
  <2>2. PICK i \in DOMAIN Routes[r.gate] : Approve(r, i) \/ Reject(r, i)
    BY <2>1 DEF Answer
  <2>3. /\ ReleasedOnly(machine')
        /\ \A s \in Retrying : machine'.retries[s] \in {0, machine.retries[s]}
    BY <1>2, <2>2, ApproveMachine, RejectMachineStep
  <2>4. \A s \in Retrying : MaxRetries[s] \in Nat
    BY RetryAssumption
  <2>5. RetriesWithinBudget'
    BY <1>2, <2>3, <2>4 DEF RetriesWithinBudget
  <2> QED BY <1>1, <2>3, <2>5 DEF SafeInv, ReleasedOnly
<1>5. CASE Finish \/ Interrupt \/ GraceExpires \/ CancelTask \/ Timeout \/ Quiet \/ UNCHANGED vars
  BY <1>1, <1>2, <1>5, OperatorMachine DEF SafeInv, ReleasedOnly, RetriesWithinBudget
<1> QED BY <1>3, <1>4, <1>5 DEF Next, Work

\* The inductive invariant holds at the start.
LEMMA SafeInit == Init => SafeInv
<1> SUFFICES ASSUME Init PROVE SafeInv
  OBVIOUS
<1>1. RetriesWithinBudget
  BY InitMachine, RetryAssumption DEF RetriesWithinBudget
<1> QED BY <1>1, InitType, InitMachine DEF SafeInv

\* A script sends the run back at most maxRetries times between two rejects:
\* the counter survives rebuilds, approvals and late writes alike.
THEOREM RetryBudget == Spec => []RetriesWithinBudget
<1>1. SafeInv => RetriesWithinBudget
  BY DEF SafeInv
<1>2. SafeInv /\ [Next]_vars => SafeInv'
  BY SafeNext
<1> QED BY <1>1, <1>2, SafeInit, PTL DEF Spec

-----------------------------------------------------------------------------
\* Every authorization is owed to an answer that still stands.
ApprovalsStand ==
  \A s \in machine.authorized \cap GateRouted :
    \E a \in standing : s \in Routes[a[1]][a[2]]

PickedInv == SafeInv /\ ApprovalsStand /\ \A a \in standing : a[2] \in DOMAIN Routes[a[1]]

\* Every step keeps authorizations covered by standing answers.
LEMMA PickedNext ==
  ASSUME RewindsTargetsToo, PickedInv, [Next]_vars
  PROVE  PickedInv'
<1>1. SafeInv'
  BY SafeNext DEF PickedInv
<1>2. TypeOK /\ ReleasedOnly(machine) /\ standing \subseteq Gates \X Nat
  BY DEF PickedInv, SafeInv, TypeOK
<1>3. CASE machine'.authorized = machine.authorized /\ standing' = standing
  BY <1>1, <1>3 DEF PickedInv, ApprovalsStand
<1>4. CASE \E e \in executors : ExecutorStep(e)
  BY <1>2, <1>3, <1>4, ExecutorMachine
<1>5. CASE \E r \in openGates : Answer(r)
  <2>1. PICK r \in openGates : Answer(r)
    BY <1>5
  <2>2. PICK i \in DOMAIN Routes[r.gate] : Approve(r, i) \/ Reject(r, i)
    BY <2>1 DEF Answer
  <2>3. r.gate \in Gates
    BY <1>2 DEF TypeOK
  <2>4. CASE /\ machine'.authorized \subseteq machine.authorized \cup Routes[r.gate][i]
             /\ standing' = standing \cup {<<r.gate, i>>}
    <3>1. ASSUME NEW s \in machine'.authorized \cap GateRouted
          PROVE  \E a \in standing' : s \in Routes[a[1]][a[2]]
      <4>1. CASE s \in machine.authorized
        <5>1. PICK a \in standing : s \in Routes[a[1]][a[2]]
          BY <3>1, <4>1 DEF PickedInv, ApprovalsStand
        <5> QED BY <2>4, <5>1
      <4>2. CASE s \in Routes[r.gate][i]
        <5> DEFINE a == <<r.gate, i>>
        <5>1. a \in standing' /\ a[1] = r.gate /\ a[2] = i
          BY <2>4
        <5>2. s \in Routes[a[1]][a[2]]
          BY <4>2, <5>1
        <5> HIDE DEF a
        <5> QED BY <5>1, <5>2
      <4> QED BY <2>4, <3>1, <4>1, <4>2
    <3>2. ASSUME NEW a \in standing' PROVE a[2] \in DOMAIN Routes[a[1]]
      BY <2>2, <2>4, <3>2 DEF PickedInv
    <3> QED BY <1>1, <3>1, <3>2 DEF PickedInv, ApprovalsStand
  <2>5. CASE /\ machine'.authorized = machine.authorized \ Affected[r.gate]
             /\ standing' = {a \in standing : a[1] \notin Affected[r.gate]}
    <3>1. ASSUME NEW s \in machine'.authorized \cap GateRouted
          PROVE  \E a \in standing' : s \in Routes[a[1]][a[2]]
      <4>1. s \in machine.authorized /\ s \notin Affected[r.gate]
        BY <2>5, <3>1
      <4>2. PICK a \in standing : s \in Routes[a[1]][a[2]]
        BY <3>1, <4>1 DEF PickedInv, ApprovalsStand
      <4>3. a[1] \in Gates /\ a[2] \in DOMAIN Routes[a[1]]
        BY <1>2, <4>2 DEF PickedInv
      <4>4. s \in Siblings[a[1]]
        BY <4>2, <4>3, RouteType
      <4>5. a[1] \notin Affected[r.gate]
        BY <2>3, <3>1, <4>1, <4>3, <4>4 DEF RewindsTargetsToo
      <4> QED BY <2>5, <4>2, <4>5
    <3> QED BY <1>1, <2>5, <3>1 DEF PickedInv, ApprovalsStand
  <2> QED BY <1>2, <1>3, <2>2, <2>4, <2>5, ApproveMachine, RejectMachineStep
<1>6. CASE Finish \/ Interrupt \/ GraceExpires \/ CancelTask \/ Timeout \/ Quiet \/ UNCHANGED vars
  BY <1>3, <1>6, OperatorMachine
<1> QED BY <1>4, <1>5, <1>6 DEF Next, Work

\* A stage the person did not choose never runs, in every pipeline whose
\* rollbacks rewind a gate's targets with the gate, through any mixture of
\* answers, rejects, retries, interrupts and late writes.
THEOREM PickedOnly ==
  ASSUME RewindsTargetsToo
  PROVE  Spec => []OnlyPickedStagesRun
<1>1. Init => PickedInv
  <2> SUFFICES ASSUME Init PROVE PickedInv
    OBVIOUS
  <2>1. standing = {} /\ machine.authorized = {}
    BY InitMachine DEF Init
  <2> QED BY <2>1, SafeInit DEF PickedInv, ApprovalsStand
<1>2. PickedInv /\ [Next]_vars => PickedInv'
  BY PickedNext
<1>3. PickedInv => OnlyPickedStagesRun
  BY DEF PickedInv, SafeInv, ApprovalsStand, ReleasedOnly, OnlyPickedStagesRun, Executing
<1> QED BY <1>1, <1>2, <1>3, PTL DEF Spec

-----------------------------------------------------------------------------
\* While the run is registered the only verdict on record is a cancellation.
VerdictInv == finals # "none" /\ phase # "over" => finals = "cancelled"

\* No step changes a verdict that was already recorded.
LEMMA VerdictStep ==
  ASSUME [Next]_vars
  PROVE  \/ finals' = finals /\ (phase = "over" => phase' = "over")
         \/ finals = "none" /\ finals' = "cancelled"
         \/ phase = "draining" /\ phase' = "over" /\ finals' = Recorded
<1> DEFINE Kept == finals' = finals /\ (phase = "over" => phase' = "over")
<1>1. ASSUME NEW e, NEW P, NEW v, NEW ex, NEW at, Write(e, P, v, ex, at)
      PROVE  Kept
  BY <1>1 DEF Write, Live, Unheard
<1>2. ASSUME NEW e, ExecutorStep(e)
      PROVE  Kept
  <2>1. CASE \E p \in Ports, v \in Values \ {Seed} : AgentWrite(e, p, v)
    BY <1>1, <2>1 DEF AgentWrite
  <2>2. CASE AgentFinish(e)
    BY <2>2 DEF AgentFinish, Unheard
  <2>3. CASE \E P \in SUBSET e.pending, v \in Values \ {Seed} : ScriptReturn(e, P, v)
    BY <1>1, <2>3 DEF ScriptReturn
  <2>4. CASE ExecutorFail(e)
    BY <2>4 DEF ExecutorFail, Failure, Live, Unheard
  <2>5. CASE ExecutorSecretPending(e)
    BY <2>5 DEF ExecutorSecretPending, Live
  <2> QED BY <1>2, <2>1, <2>2, <2>3, <2>4, <2>5 DEF ExecutorStep
<1>3. ASSUME NEW r, Answer(r)
      PROVE  Kept
  <2>1. PICK i : Approve(r, i) \/ Reject(r, i)
    BY <1>3 DEF Answer
  <2>2. CASE Approve(r, i)
    BY <2>2 DEF Approve, Live, Unheard
  <2>3. CASE Reject(r, i)
    BY <2>3 DEF Reject, Unheard
  <2> QED BY <2>1, <2>2, <2>3
<1>4. CASE Finish
  BY <1>4 DEF Finish
<1>5. CASE CancelTask
  BY <1>5 DEF CancelTask
<1>6. CASE Interrupt \/ GraceExpires \/ Timeout \/ Quiet \/ UNCHANGED vars
  BY <1>6 DEF Interrupt, GraceExpires, Timeout, Registered, Quiet, vars
<1> QED BY <1>2, <1>3, <1>4, <1>5, <1>6 DEF Next, Work

\* The first verdict in task_finals stands: cancelTask and the runner's own
\* finally race for the row, and whoever comes second leaves it alone.
THEOREM FirstVerdict == Spec => FirstVerdictStands
<1>1. Init => VerdictInv
  BY DEF Init, VerdictInv
<1>2. VerdictInv /\ [Next]_vars => VerdictInv'
  BY VerdictStep DEF VerdictInv
<1>3. VerdictInv /\ [Next]_vars => [finals # "none" => finals' = finals]_vars
  BY VerdictStep DEF VerdictInv, Recorded
<1> QED BY <1>1, <1>2, <1>3, PTL DEF Spec, FirstVerdictStands
=============================================================================
