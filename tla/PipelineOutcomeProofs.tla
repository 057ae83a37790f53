----------------------- MODULE PipelineOutcomeProofs ------------------------
(***************************************************************************)
(* How a run may end and what it asks on the way, proved for every         *)
(* pipeline: cancellations have causes, a completed task left nothing out, *)
(* a gate has one open question, is not asked again while its answer       *)
(* stands, and the reviewer's comment survives until the next answer; and, *)
(* where gates come one after another, no two executors work on a stage,   *)
(* outputs are those of the latest run and inputs are never stale; and,    *)
(* where answers can be told apart, who was picked is not skipped.         *)
(*                                                                         *)
(* Everything rests on one relation between machines: an event only grows  *)
(* a machine (Grows), and only a rewind takes anything back (RewoundFacts).*)
(* The part about order adds what the regions move by (Follows) and what   *)
(* the executors still have to write (Tidy), the last one what the answers *)
(* and the context tell of each other (Told).                              *)
(***************************************************************************)
EXTENDS PipelineRunProofs, WellFoundedInduction

Present(m, p) == m.cells[p].present

\* Every wire into s has a value to look at.
FedAt(m, s) == \A w \in Inbound[s] : Present(m, w.port)

OutputsPresent(m, s) == \A p \in Outputs[s] : Present(m, p)

\* What every event does to a machine: finals, values and skips stay, a new
\* failure has a cause of its own, a new done stage has its outputs or was
\* skipped, a stage that starts has its inputs.
Grows(m, n) ==
  /\ m.skipped \subseteq n.skipped
  /\ \A p \in Ports : Present(m, p) => Present(n, p)
  /\ \A s \in Final(m) : n.region[s] = m.region[s] /\ n.reason[s] = m.reason[s]
  /\ \A s \in Failed(n) \ Failed(m) : n.reason[s] \in RootCauses
  /\ \A s \in Done(n) \ Done(m) : s \in n.skipped \/ OutputsPresent(n, s)
  /\ \A s \in Executing(n) \ Executing(m) : FedAt(n, s)

\* Growing twice is growing.
LEMMA GrowsTransitive ==
  ASSUME NEW m, NEW n, NEW k, Grows(m, n), Grows(n, k)
  PROVE  Grows(m, k)
<1>1. \A s \in Final(m) : s \in Final(n)
  BY DEF Grows, Final, Done, Failed
<1>2. ASSUME NEW s \in Failed(k) \ Failed(m)
      PROVE  k.reason[s] \in RootCauses
  <2>1. CASE s \in Failed(n)
    <3>1. k.reason[s] = n.reason[s]
      BY <2>1 DEF Grows, Final
    <3> QED BY <1>2, <2>1, <3>1 DEF Grows
  <2>2. CASE s \notin Failed(n)
    BY <1>2, <2>2 DEF Grows
  <2> QED BY <2>1, <2>2
<1>3. ASSUME NEW s \in Done(k) \ Done(m)
      PROVE  s \in k.skipped \/ OutputsPresent(k, s)
  <2>1. CASE s \in Done(n)
    <3>1. s \in n.skipped \/ OutputsPresent(n, s)
      BY <1>3, <2>1 DEF Grows
    <3>2. OutputsPresent(n, s) => OutputsPresent(k, s)
      BY DEF Grows, OutputsPresent, Outputs, Done
    <3> QED BY <3>1, <3>2 DEF Grows
  <2>2. CASE s \notin Done(n)
    BY <1>3, <2>2 DEF Grows
  <2> QED BY <2>1, <2>2
<1>4. ASSUME NEW s \in Executing(k) \ Executing(m)
      PROVE  FedAt(k, s)
  <2>1. CASE s \in Executing(n)
    <3>1. FedAt(n, s)
      BY <1>4, <2>1 DEF Grows
    <3>2. \A w \in Inbound[s] : w.port \in Ports
      BY <2>1, WiresAssumption DEF Inbound, Executing
    <3> QED BY <3>1, <3>2 DEF Grows, FedAt
  <2>2. CASE s \notin Executing(n)
    BY <1>4, <2>2 DEF Grows
  <2> QED BY <2>1, <2>2
<1>5. \A s \in Final(m) : k.region[s] = m.region[s] /\ k.reason[s] = m.reason[s]
  BY <1>1 DEF Grows
<1>6. \A p \in Ports : Present(m, p) => Present(k, p)
  BY DEF Grows
<1>7. m.skipped \subseteq k.skipped
  BY DEF Grows
<1> QED BY <1>2, <1>3, <1>4, <1>5, <1>6, <1>7 DEF Grows

\* A wire that delivers has a value.
LEMMA DeliveredIsFed ==
  ASSUME NEW m, NEW s \in Stages, WiresDeliver(m, s)
  PROVE  FedAt(m, s)
BY DEF WiresDeliver, Delivers, Settled, FedAt, Present

\* The eventless transitions grow a machine, and leave no stage executing whose
\* outputs are all there.
LEMMA SettleGrows ==
  ASSUME NEW m \in Machines
  PROVE  /\ Grows(m, Settle(m))
         /\ \A s \in Executing(Settle(m)) \ Gates : ~OutputsPresent(Settle(m), s)
<1> DEFINE n == Settle(m)
           enters(s) == /\ s \in Waiting(m) \ m.skipped
                        /\ AllInboundDelivered(m, s)
           dead(s)   == /\ s \in Waiting(m) \ m.skipped
                        /\ NoDeliverableWire(m, s)
           done(s)   == \/ s \in Waiting(m) \cap m.skipped
                        \/ (s \in Executing(m) \/ enters(s)) /\ AllOutboundPresent(m, s)
           R == [s \in Stages |-> CASE done(s) -> "done"
                                    [] enters(s) /\ ~done(s) -> "executing"
                                    [] dead(s) -> "error"
                                    [] OTHER -> m.region[s]]
           Q == [s \in Stages |-> IF dead(s) THEN "no_active_wire" ELSE m.reason[s]]
<1>1. n = [m EXCEPT !.region = R, !.reason = Q]
  BY DEF Settle
<1>2. \A s \in Stages : dead(s) => ~done(s) /\ ~enters(s)
  BY DEF NoDeliverableWire, WiresDead, AllInboundDelivered, WiresDeliver, Waiting, Executing
<1>3. \A s \in Stages : dead(s) \/ enters(s) => m.region[s] = "waiting"
  BY DEF Waiting
<1>4. \A s \in Stages : done(s) => m.region[s] \in {"waiting", "executing"}
  BY <1>3 DEF Waiting, Executing
<1>5. \A s \in Stages : done(s) => s \in m.skipped \/ OutputsPresent(m, s)
  BY DEF AllOutboundPresent, OutputsPresent, Present
<1>6. \A s \in Stages : enters(s) => FedAt(m, s)
  BY DeliveredIsFed DEF AllInboundDelivered
<1>7. \A s \in Stages \ Gates : (m.region[s] = "executing" \/ enters(s)) /\ OutputsPresent(m, s)
                                  => done(s)
  BY DEF AllOutboundPresent, OutputsPresent, Present, Executing
<1> HIDE DEF enters, dead, done, n
<1>8. /\ n.region = R /\ n.reason = Q /\ n.cells = m.cells /\ n.skipped = m.skipped
  <2> HIDE DEF R, Q
  <2> QED BY <1>1 DEF Machines
<1>9. ASSUME NEW s \in Stages
      PROVE  /\ done(s) => R[s] = "done"
             /\ enters(s) /\ ~done(s) => R[s] = "executing"
             /\ dead(s) => R[s] = "error"
             /\ ~done(s) /\ ~enters(s) /\ ~dead(s) => R[s] = m.region[s]
  BY <1>2
<1>10. \A s \in Final(m) : R[s] = m.region[s] /\ Q[s] = m.reason[s]
  BY <1>3, <1>4, <1>9 DEF Final, Done, Failed
<1>11. \A s \in Failed(n) \ Failed(m) : n.reason[s] \in RootCauses
  BY <1>8, <1>9 DEF Failed, RootCauses
<1>12. \A s \in Done(n) \ Done(m) : s \in n.skipped \/ OutputsPresent(n, s)
  <2>1. \A s \in Done(n) \ Done(m) : done(s)
    BY <1>8, <1>9 DEF Done
  <2> QED BY <1>5, <1>8, <2>1 DEF Done, OutputsPresent, Present
<1>13. \A s \in Executing(n) \ Executing(m) : FedAt(n, s)
  <2>1. \A s \in Executing(n) \ Executing(m) : enters(s)
    BY <1>8, <1>9 DEF Executing
  <2> QED BY <1>6, <1>8, <2>1 DEF Executing, FedAt, Present
<1>14. \A s \in Executing(n) \ Gates : ~OutputsPresent(n, s)
  <2>1. \A s \in Executing(n) : ~done(s) /\ (m.region[s] = "executing" \/ enters(s))
    BY <1>8, <1>9 DEF Executing
  <2> QED BY <1>7, <1>8, <2>1 DEF Executing, OutputsPresent, Present
<1> HIDE DEF R, Q
<1>15. Grows(m, n)
  BY <1>8, <1>10, <1>11, <1>12, <1>13 DEF Grows, Final, Done, Failed, Present
<1> QED BY <1>14, <1>15 DEF n

\* A failure with a cause grows a machine.
LEMMA FailGrows ==
  ASSUME NEW m \in Machines, NEW S, NEW why \in RootCauses
  PROVE  Grows(m, Fail(m, S, why))
<1> DEFINE n == Fail(m, S, why)
           hit == S \ Final(m)
           R == [s \in Stages |-> IF s \in hit THEN "error" ELSE m.region[s]]
           Q == [s \in Stages |-> IF s \in hit THEN why ELSE m.reason[s]]
<1>1. n = [m EXCEPT !.region = R, !.reason = Q]
  BY DEF Fail
<1> HIDE DEF R, Q, n
<1>2. n.region = R /\ n.reason = Q /\ n.cells = m.cells /\ n.skipped = m.skipped
  BY <1>1 DEF Machines
<1>3. ASSUME NEW s \in Stages
      PROVE  /\ s \in hit => R[s] = "error" /\ Q[s] = why
             /\ s \notin hit => R[s] = m.region[s] /\ Q[s] = m.reason[s]
  BY DEF R, Q
<1>4. \A s \in Final(m) : R[s] = m.region[s] /\ Q[s] = m.reason[s]
  BY <1>3 DEF Final, Done, Failed
<1>5. \A s \in Failed(n) \ Failed(m) : n.reason[s] \in RootCauses
  BY <1>2, <1>3 DEF Failed
<1>6. Done(n) \subseteq Done(m) /\ Executing(n) \subseteq Executing(m)
  BY <1>2, <1>3 DEF Done, Executing
<1>7. \A s \in Final(m) : n.region[s] = m.region[s] /\ n.reason[s] = m.reason[s]
  BY <1>2, <1>4
<1>8. \A p : Present(m, p) => Present(n, p)
  BY <1>2 DEF Present
<1>9. /\ \A s \in Done(n) \ Done(m) : s \in n.skipped \/ OutputsPresent(n, s)
      /\ \A s \in Executing(n) \ Executing(m) : FedAt(n, s)
  BY <1>6
<1>10. m.skipped \subseteq n.skipped
  BY <1>2
<1>11. Grows(m, n)
  BY <1>5, <1>7, <1>8, <1>9, <1>10 DEF Grows
<1> QED BY <1>11 DEF n

\* A write grows a machine.
LEMMA PortWrittenGrows ==
  ASSUME NEW m \in Machines, NEW P, NEW v \in Values, NEW k \in Nat
  PROVE  /\ Grows(m, PortWritten(m, P, Cell(v, k)))
         /\ \A s \in Executing(PortWritten(m, P, Cell(v, k))) \ Gates :
              ~OutputsPresent(PortWritten(m, P, Cell(v, k)), s)
         /\ PortWritten(m, P, Cell(v, k)).cells =
              [p \in Ports |-> IF p \in P THEN Cell(v, k) ELSE m.cells[p]]
<1> DEFINE C == [p \in Ports |-> IF p \in P THEN Cell(v, k) ELSE m.cells[p]]
           w == Machine(m.region, m.reason, C, m.authorized, m.skipped, m.retries)
<1>1. C \in [Ports -> Cells]
  BY MachineFields, CellType
<1>2. PortWritten(m, P, Cell(v, k)) = Settle(w)
  <2>1. PortWritten(m, P, Cell(v, k)) = Settle([m EXCEPT !.cells = C])
    BY DEF PortWritten
  <2> HIDE DEF C
  <2>2. [m EXCEPT !.cells = C] = w
    BY DEF Machine, Machines
  <2> QED BY <2>1, <2>2
<1>3. \A p \in Ports : m.cells[p].present => C[p].present
  BY DEF Cell
<1> HIDE DEF C
<1>4. w \in Machines
  BY <1>1, MachineFields, MachineBuilt
<1>5. /\ w.region = m.region /\ w.reason = m.reason /\ w.cells = C
      /\ w.skipped = m.skipped
  BY MachineParts
<1> HIDE DEF w
<1>6. Grows(m, w)
  BY <1>3, <1>5 DEF Grows, Final, Done, Failed, Executing, Present
<1>7. Settle(w).cells = C
  BY <1>4, <1>5, SettlePreserves
<1> QED BY <1>2, <1>4, <1>6, <1>7, SettleGrows, GrowsTransitive DEF C

\* An answer grows a machine: it puts the stages it leaves out down as skipped.
LEMMA GateAnsweredGrows ==
  ASSUME NEW m \in Machines, NEW g \in Gates, NEW targets \in SUBSET Stages
  PROVE  /\ Grows(m, GateAnswered(m, g, targets))
         /\ \A s \in Executing(GateAnswered(m, g, targets)) \ Gates :
              ~OutputsPresent(GateAnswered(m, g, targets), s)
         /\ GateAnswered(m, g, targets).cells = m.cells
<1> DEFINE mine   == m.region[g] = "executing"
           skip   == Unpicked(g, targets) \cap Waiting(m)
           picked == targets \cap Waiting(m)
           start  == {s \in picked : WiresDeliver(m, s)}
           dead   == {s \in picked : WiresDead(m, s)}
           R == [s \in Stages |-> CASE s = g /\ mine -> "done"
                                    [] s \in skip -> "done"
                                    [] s \in start -> "executing"
                                    [] s \in dead -> "error"
                                    [] OTHER -> m.region[s]]
           Q == [s \in Stages |-> IF s \in dead THEN "no_active_wire" ELSE m.reason[s]]
           A == m.authorized \cup start \cup dead \cup (IF mine THEN targets ELSE {})
           K == m.skipped \cup skip \cup (IF mine THEN Unpicked(g, targets) ELSE {})
           w == Machine(R, Q, m.cells, A, K, m.retries)
<1>1. Unpicked(g, targets) \subseteq Stages /\ skip \subseteq Stages
  BY SiblingsType DEF Unpicked
<1>2. /\ skip \cap start = {} /\ skip \cap dead = {} /\ start \cap dead = {}
  BY DEF Unpicked, WiresDeliver, WiresDead
<1>3. \A s \in skip \cup start \cup dead : s \in Stages /\ m.region[s] = "waiting"
  BY <1>1 DEF Waiting
<1>4. mine => g \notin skip \cup start \cup dead
  BY <1>3
<1>5. \A s \in start : FedAt(m, s)
  BY <1>3, DeliveredIsFed
<1>6. /\ start \in SUBSET Stages /\ dead \in SUBSET Stages
  BY <1>3
<1>7. A \in SUBSET Stages /\ K \in SUBSET Stages /\ m.skipped \subseteq K /\ skip \subseteq K
  <2> HIDE DEF mine, skip, start, dead
  <2> QED BY <1>1, <1>6, MachineFields
<1>8. GateAnswered(m, g, targets) = Settle(w)
  <2> DEFINE x == [m EXCEPT !.region = R, !.reason = Q, !.authorized = A, !.skipped = K]
  <2>1. GateAnswered(m, g, targets) = Settle(x)
    BY DEF GateAnswered
  <2> HIDE DEF R, Q, A, K
  <2>2. PICK y : y = x
    OBVIOUS
  <2>3. y = w
    BY <2>2 DEF Machine, Machines
  <2> HIDE DEF w, x
  <2> QED BY <2>1, <2>2, <2>3
<1> HIDE DEF skip, start, dead, A, K
<1>9. ASSUME NEW s \in Stages
      PROVE  /\ s = g /\ mine => R[s] = "done"
             /\ s \in skip => R[s] = "done"
             /\ s \in start => R[s] = "executing"
             /\ s \in dead => R[s] = "error"
             /\ ~(s = g /\ mine) /\ s \notin skip \cup start \cup dead => R[s] = m.region[s]
  BY <1>2, <1>4
<1> HIDE DEF mine
<1>10. R \in [Stages -> Regions] /\ Q \in [Stages -> Reasons]
  <2>1. ASSUME NEW s \in Stages PROVE R[s] \in Regions
    <3>1. m.region[s] \in Regions
      BY MachineFields
    <3> HIDE DEF R
    <3> QED BY <1>9, <3>1 DEF Regions
  <2>2. R = [s \in Stages |-> R[s]]
    OBVIOUS
  <2>3. Q \in [Stages -> Reasons]
    BY MachineFields DEF Reasons, RootCauses
  <2> HIDE DEF R, Q
  <2> QED BY <2>1, <2>2, <2>3
<1>11. w \in Machines
  <2> HIDE DEF R, Q
  <2> QED BY <1>7, <1>10, MachineFields, MachineBuilt
<1>12. /\ w.region = R /\ w.reason = Q /\ w.cells = m.cells /\ w.skipped = K
  <2> HIDE DEF R, Q
  <2> QED BY MachineParts
<1>13. \A s \in Stages : /\ s \in dead => Q[s] = "no_active_wire"
                         /\ s \notin dead => Q[s] = m.reason[s]
  OBVIOUS
<1> HIDE DEF R, Q, w
<1>14. \A s \in Final(m) : w.region[s] = m.region[s] /\ w.reason[s] = m.reason[s]
  BY <1>3, <1>9, <1>12, <1>13 DEF Final, Done, Failed, mine
<1>15. \A s \in Failed(w) \ Failed(m) : w.reason[s] \in RootCauses
  BY <1>9, <1>12, <1>13 DEF Failed, RootCauses
<1>16. \A s \in Done(w) \ Done(m) : s \in w.skipped \/ OutputsPresent(w, s)
  <2>1. \A s \in Done(w) \ Done(m) : s = g \/ s \in skip
    BY <1>9, <1>12 DEF Done
  <2>2. Outputs[g] = {}
    BY StagesAssumption DEF Outputs
  <2> QED BY <1>7, <1>12, <2>1, <2>2 DEF OutputsPresent
<1>17. \A s \in Executing(w) \ Executing(m) : FedAt(w, s)
  <2>1. \A s \in Executing(w) \ Executing(m) : s \in start
    BY <1>9, <1>12 DEF Executing
  <2> QED BY <1>5, <1>12, <2>1 DEF FedAt, Present
<1>18. Grows(m, w)
  BY <1>7, <1>12, <1>14, <1>15, <1>16, <1>17 DEF Grows, Present
<1>19. Settle(w).cells = m.cells
  BY <1>11, <1>12, SettlePreserves
<1> QED BY <1>8, <1>11, <1>18, <1>19, SettleGrows, GrowsTransitive

\* So does the replay of the answers after a rebuild.
LEMMA ReplayedGrows ==
  ASSUME NEW m \in Machines, NEW bk
  PROVE  /\ Grows(m, Replayed(m, bk))
         /\ \A s \in Executing(Replayed(m, bk)) \ Gates : ~OutputsPresent(Replayed(m, bk), s)
         /\ Replayed(m, bk).cells = m.cells
<1> DEFINE gs == {g \in Gates \cap Done(m) : g \notin bk.rejected /\ Recovered(m, g) # {}}
           route(g) == CHOOSE i \in Recovered(m, g) : \A j \in Recovered(m, g) : i <= j
           skip == Waiting(Settle(m)) \cap UNION {Siblings[g] \ Routes[g][route(g)] : g \in gs}
           z == Settle(m)
           R == [s \in Stages |-> IF s \in skip THEN "done" ELSE z.region[s]]
           K == z.skipped \cup skip
           w == Machine(R, z.reason, z.cells, z.authorized, K, z.retries)
<1>1. skip \in SUBSET Stages /\ \A s \in skip : z.region[s] = "waiting"
  BY DEF Waiting
<1>2. z \in Machines /\ z.cells = m.cells /\ Grows(m, z)
  BY SettlePreserves, SettleGrows
<1>3. Replayed(m, bk) = Settle(w)
  <2> DEFINE x == [Settle(m) EXCEPT
                     !.region = [s \in Stages |-> IF s \in skip THEN "done" ELSE @[s]],
                     !.skipped = @ \cup skip]
  <2>1. Replayed(m, bk) = Settle(x)
    BY DEF Replayed
  <2>2. PICK y : y = [z EXCEPT !.region = R, !.skipped = K]
    OBVIOUS
  <2>3. x = y
    <3>1. PICK zz : zz = Settle(m)
      OBVIOUS
    <3> HIDE DEF skip
    <3> QED BY <2>2, <3>1
  <2> HIDE DEF R, K, x, z
  <2>4. y = w
    BY <1>2, <2>2 DEF Machine, Machines
  <2> HIDE DEF w
  <2> QED BY <2>1, <2>3, <2>4
<1> HIDE DEF skip, z
<1>4. /\ R \in [Stages -> Regions]
      /\ \A s \in Stages \cap skip : R[s] = "done"
      /\ \A s \in Stages \ skip : R[s] = z.region[s]
  BY <1>2, MachineFields DEF Regions
<1>5. K \in SUBSET Stages
  BY <1>1, <1>2, MachineFields
<1> HIDE DEF R
<1>6. w \in Machines
  <2> HIDE DEF K
  <2> QED BY <1>2, <1>4, <1>5, MachineFields, MachineBuilt
<1>7. w.region = R /\ w.reason = z.reason /\ w.cells = z.cells /\ w.skipped = z.skipped \cup skip
  BY MachineParts
<1> HIDE DEF w
<1>8. \A s \in Final(z) : w.region[s] = z.region[s]
  BY <1>1, <1>4, <1>7 DEF Final, Done, Failed
<1>9. /\ Failed(w) \subseteq Failed(z) /\ Executing(w) \subseteq Executing(z)
      /\ Done(w) \subseteq Done(z) \cup skip
  BY <1>4, <1>7 DEF Failed, Executing, Done
<1>10. Grows(z, w)
  BY <1>7, <1>8, <1>9 DEF Grows, Present
<1>11. Settle(w).cells = m.cells
  BY <1>2, <1>6, <1>7, SettlePreserves
<1>12. Grows(m, Settle(w))
  BY <1>2, <1>6, <1>10, SettleGrows, GrowsTransitive
<1> QED BY <1>3, <1>6, <1>11, <1>12, SettleGrows

\* So does a failure without a retry.
LEMMA StageFailedGrows ==
  ASSUME NEW m \in Machines, NEW s \in Stages
  PROVE  /\ Grows(m, StageFailed(m, s))
         /\ \A t \in Executing(StageFailed(m, s)) \ Gates : ~OutputsPresent(StageFailed(m, s), t)
         /\ StageFailed(m, s).cells = m.cells
<1> DEFINE f == Fail(m, {s}, "executor_failed")
<1>1. "executor_failed" \in RootCauses /\ "executor_failed" \in Reasons
  BY DEF Reasons, RootCauses
<1>2. f \in Machines /\ f.cells = m.cells /\ Grows(m, f)
  BY <1>1, FailPreserves, FailGrows
<1>3. StageFailed(m, s) = Settle(f)
  BY DEF StageFailed
<1> HIDE DEF f
<1>4. Settle(f).cells = m.cells
  BY <1>2, SettlePreserves
<1> QED BY <1>2, <1>3, <1>4, SettleGrows, GrowsTransitive

-----------------------------------------------------------------------------
\* What a machine of a run looks like between two events.

\* CancelledHasRootCause, of any machine.
Rooted(m) ==
  \A s \in Failed(m) : m.reason[s] = "upstream_cancelled" =>
    \E r \in Failed(m) : s \in DownstreamOf[r] /\ m.reason[r] \in RootCauses

\* A stage is done with its outputs, or was skipped.
Full(m) == \A s \in Done(m) : s \in m.skipped \/ OutputsPresent(m, s)

\* What executes has its inputs.
Fed(m) == \A s \in Executing(m) : FedAt(m, s)

\* A script module that leaves no declared output out has delivered all or none.
AllOrNothing(m) ==
  \A s \in Scripts \ PartialScripts :
    OutputsPresent(m, s) \/ \A p \in Outputs[s] : ~Present(m, p)

\* An executing stage still owes an output.
Owing(m) == \A s \in Executing(m) \ Gates : ~OutputsPresent(m, s)

Sound(m) == m \in Machines /\ Rooted(m) /\ Full(m) /\ Fed(m)

\* Growing keeps a machine sound.
LEMMA GrowsSound ==
  ASSUME NEW m, Sound(m), NEW n \in Machines, Grows(m, n)
  PROVE  Sound(n)
<1>1. ASSUME NEW s \in Failed(n), n.reason[s] = "upstream_cancelled"
      PROVE  \E r \in Failed(n) : s \in DownstreamOf[r] /\ n.reason[r] \in RootCauses
  <2>1. s \in Failed(m)
    BY <1>1 DEF Grows, RootCauses
  <2>2. m.reason[s] = "upstream_cancelled"
    BY <1>1, <2>1 DEF Grows, Final
  <2>3. PICK r \in Failed(m) : s \in DownstreamOf[r] /\ m.reason[r] \in RootCauses
    BY <2>1, <2>2 DEF Sound, Rooted
  <2>4. r \in Failed(n) /\ n.reason[r] = m.reason[r]
    BY <2>3 DEF Grows, Final, Failed
  <2> QED BY <2>3, <2>4
<1>2. ASSUME NEW s \in Done(n)
      PROVE  s \in n.skipped \/ OutputsPresent(n, s)
  <2>1. CASE s \in Done(m)
    <3>1. s \in m.skipped \/ OutputsPresent(m, s)
      BY <2>1 DEF Sound, Full
    <3>2. OutputsPresent(m, s) => OutputsPresent(n, s)
      BY <1>2 DEF Grows, OutputsPresent, Outputs, Done
    <3> QED BY <3>1, <3>2 DEF Grows
  <2> QED BY <1>2, <2>1 DEF Grows
<1>3. ASSUME NEW s \in Executing(n)
      PROVE  FedAt(n, s)
  <2>1. CASE s \in Executing(m)
    <3>1. FedAt(m, s)
      BY <2>1 DEF Sound, Fed
    <3>2. \A w \in Inbound[s] : w.port \in Ports
      BY <2>1, WiresAssumption DEF Inbound, Executing
    <3> QED BY <3>1, <3>2 DEF Grows, FedAt
  <2> QED BY <1>3, <2>1 DEF Grows
<1> QED BY <1>1, <1>2, <1>3 DEF Sound, Rooted, Full, Fed

\* The cancellation that follows a failure names a failure downstream of which
\* it happens, and starts, finishes and writes nothing.
LEMMA CancelSound ==
  ASSUME NEW m, Sound(m), NEW bk
  PROVE  /\ Sound(StageCancelled(m, Propagation(m, bk)))
         /\ StageCancelled(m, Propagation(m, bk)).cells = m.cells
         /\ Executing(StageCancelled(m, Propagation(m, bk))) \subseteq Executing(m)
<1> DEFINE S == Propagation(m, bk)
           n == StageCancelled(m, S)
           hit == S \ Final(m)
           R == [s \in Stages |-> IF s \in hit THEN "error" ELSE m.region[s]]
           Q == [s \in Stages |-> IF s \in hit THEN "upstream_cancelled" ELSE m.reason[s]]
<1>1. m \in Machines /\ n \in Machines
  BY StageCancelledPreserves DEF Sound
<1>2. n = [m EXCEPT !.region = R, !.reason = Q]
  BY DEF StageCancelled, Fail
<1>3. \A s \in S : \E r \in Failed(m) : s \in DownstreamOf[r] /\ m.reason[r] \in RootCauses
  BY DEF Propagation
<1> HIDE DEF R, Q, n, S
<1>4. n.region = R /\ n.reason = Q /\ n.cells = m.cells /\ n.skipped = m.skipped
  BY <1>1, <1>2 DEF Machines
<1>5. \A s \in Stages \cap hit : R[s] = "error" /\ Q[s] = "upstream_cancelled"
  BY DEF R, Q
<1>6. \A s \in Stages \ hit : R[s] = m.region[s] /\ Q[s] = m.reason[s]
  BY DEF R, Q
<1>7. \A r \in Failed(m) : r \in Failed(n) /\ n.reason[r] = m.reason[r]
  BY <1>4, <1>6 DEF Final, Failed
<1>8. Rooted(n)
  <2> SUFFICES ASSUME NEW s \in Failed(n), n.reason[s] = "upstream_cancelled"
               PROVE  \E r \in Failed(n) : s \in DownstreamOf[r] /\ n.reason[r] \in RootCauses
    BY DEF Rooted
  <2>1. \E r \in Failed(m) : s \in DownstreamOf[r] /\ m.reason[r] \in RootCauses
    <3>1. CASE s \in hit
      BY <1>3, <3>1
    <3>2. CASE s \notin hit
      <4>1. s \in Failed(m) /\ m.reason[s] = "upstream_cancelled"
        BY <1>4, <1>6, <3>2 DEF Failed
      <4> QED BY <4>1 DEF Sound, Rooted
    <3> QED BY <3>1, <3>2
  <2> QED BY <1>7, <2>1
<1>9. Done(n) \subseteq Done(m) /\ Executing(n) \subseteq Executing(m)
  BY <1>4, <1>5, <1>6 DEF Done, Executing
<1>10. Full(n)
  BY <1>4, <1>9 DEF Sound, Full, OutputsPresent, Present
<1>11. Fed(n)
  BY <1>4, <1>9 DEF Sound, Fed, FedAt, Present
<1> QED BY <1>1, <1>4, <1>8, <1>9, <1>10, <1>11 DEF Sound, n, S

-----------------------------------------------------------------------------
\* Rewinds.  A set is closed when it contains what is downstream of its members.
DownClosed(S) == \A r \in S : DownstreamOf[r] \subseteq S

\* Reachability composes.
LEMMA ReachComposes ==
  ASSUME NEW E, NEW s, NEW t \in Reach(E, {s}), NEW u \in Reach(E, {t})
  PROVE  u \in Reach(E, {s})
<1> SUFFICES ASSUME NEW C \in SUBSET Stages,
                    {s} \subseteq C, \A e \in E : e[1] \in C => e[2] \in C
             PROVE  u \in C
  BY DEF Reach
<1>1. t \in C
  BY DEF Reach
<1> QED BY <1>1 DEF Reach

\* An edge leads from what is reached to what is reached.
LEMMA ReachStep ==
  ASSUME NEW E, NEW s, NEW e \in E, e[1] \in Reach(E, {s}), e[2] \in Stages
  PROVE  e[2] \in Reach(E, {s})
BY DEF Reach

\* A stage reaches itself.
LEMMA ReachSelf ==
  ASSUME NEW E, NEW s \in Stages
  PROVE  s \in Reach(E, {s})
BY DEF Reach

\* What a retry rewinds is closed.
LEMMA ToResetClosed ==
  ASSUME NEW s \in Retrying
  PROVE  DownClosed(ToReset[s])
<1> DEFINE b == BackTo[s]
<1>1. b \in Stages /\ ToReset[s] = {b} \cup DownstreamOf[b] /\ ToReset[s] \subseteq Stages
  BY RetryAssumption, ToResetType DEF ToReset
<1> SUFFICES ASSUME NEW r \in ToReset[s], NEW u \in DownstreamOf[r]
             PROVE  u \in ToReset[s]
  BY DEF DownClosed
<1>2. r \in Stages /\ u \in Reach(AllEdges, {r})
  BY <1>1 DEF DownstreamOf
<1>3. r \in Reach(AllEdges, {b})
  BY <1>1, ReachSelf DEF DownstreamOf
<1>4. u \in Reach(AllEdges, {b})
  BY <1>2, <1>3, ReachComposes
<1> QED BY <1>1, <1>4 DEF DownstreamOf

\* An edge out of a closed set stays in it.
LEMMA ClosedEdge ==
  ASSUME NEW S \in SUBSET Stages, DownClosed(S), NEW w \in Wires, Owner[w.port] \in S
  PROVE  w.to \in S
<1> DEFINE o == Owner[w.port]
           e == <<o, w.to>>
<1>1. o \in Stages /\ o # External /\ w.to \in Stages
  BY StagesAssumption, WiresAssumption
<1>2. e \in AllEdges /\ e[1] = o /\ e[2] = w.to
  BY <1>1 DEF AllEdges
<1> HIDE DEF e
<1>3. w.to \in Reach(AllEdges, {o})
  BY <1>1, <1>2, ReachSelf, ReachStep
<1>4. CASE w.to = o
  BY <1>4
<1>5. CASE w.to # o
  <2>1. w.to \in DownstreamOf[o]
    BY <1>1, <1>3, <1>5 DEF DownstreamOf
  <2> QED BY <2>1 DEF DownClosed
<1> QED BY <1>4, <1>5

\* What a rewind keeps and what it takes back.
LEMMA RewoundFacts ==
  ASSUME NEW m \in Machines, NEW reset, NEW keep, NEW n, n = Rewound(m, reset, keep)
  PROVE  /\ n \in Machines /\ n.skipped = m.skipped /\ Executing(n) = {}
         /\ \A s \in Final(m) \ reset : n.region[s] = m.region[s] /\ n.reason[s] = m.reason[s]
         /\ \A s \in Stages \ (Final(m) \ reset) : n.region[s] = "waiting"
         /\ \A p \in Ports : Survives(p, reset, keep) => n.cells[p] = m.cells[p]
         /\ \A p \in Ports : ~Survives(p, reset, keep) /\ IsFeedback(p) => n.cells[p] = Cell(Seed, 0)
         /\ \A p \in Ports : ~Survives(p, reset, keep) /\ ~IsFeedback(p) => n.cells[p] = Absent
<1> DEFINE again == reset \cup (Stages \ Final(m))
           R == [s \in Stages |-> IF s \in again THEN "waiting" ELSE m.region[s]]
           Q == [s \in Stages |-> IF s \in again THEN "none" ELSE m.reason[s]]
           C == [p \in Ports |-> IF Survives(p, reset, keep) THEN m.cells[p]
                                  ELSE IF IsFeedback(p) THEN Cell(Seed, 0) ELSE Absent]
<1>1. n \in Machines /\ Executing(n) = {}
  BY RewoundPreserves DEF Idle, Executing
<1>2. n = [m EXCEPT !.region = R, !.reason = Q, !.cells = C]
  BY DEF Rewound
<1>3. \A s \in Final(m) \ reset : s \in Stages /\ s \notin again
  BY DEF Final, Done, Failed
<1>4. \A s \in Stages \ (Final(m) \ reset) : s \in again
  OBVIOUS
<1> HIDE DEF again
<1>5. \A s \in Stages : (s \in again => R[s] = "waiting")
                       /\ (s \notin again => R[s] = m.region[s] /\ Q[s] = m.reason[s])
  OBVIOUS
<1>6. \A p \in Ports :
        /\ Survives(p, reset, keep) => C[p] = m.cells[p]
        /\ ~Survives(p, reset, keep) /\ IsFeedback(p) => C[p] = Cell(Seed, 0)
        /\ ~Survives(p, reset, keep) /\ ~IsFeedback(p) => C[p] = Absent
  <2> HIDE DEF Survives, IsFeedback
  <2> QED OBVIOUS
<1> HIDE DEF R, Q, C
<1>7. n.region = R /\ n.reason = Q /\ n.cells = C /\ n.skipped = m.skipped
  BY <1>2 DEF Machines
<1> HIDE DEF Survives, IsFeedback
<1>8. \A s \in Final(m) \ reset : n.region[s] = m.region[s] /\ n.reason[s] = m.reason[s]
  BY <1>3, <1>5, <1>7
<1>9. \A s \in Stages \ (Final(m) \ reset) : n.region[s] = "waiting"
  BY <1>4, <1>5, <1>7
<1> QED BY <1>1, <1>6, <1>7, <1>8, <1>9

\* Rewinding a closed set keeps a machine sound: no cancellation outlives its cause.
LEMMA RewoundSound ==
  ASSUME NEW m, Sound(m), NEW reset \in SUBSET Stages, DownClosed(reset), NEW keep,
         NEW n, n = Rewound(m, reset, keep)
  PROVE  Sound(n) /\ \A s \in reset : s \notin Final(n)
<1>1. m \in Machines
  BY DEF Sound
<1>2. \A s \in Final(n) : s \in Final(m) \ reset
  BY <1>1, RewoundFacts DEF Final, Done, Failed
<1>3. \A s \in Final(m) \ reset : n.region[s] = m.region[s] /\ n.reason[s] = m.reason[s]
  BY <1>1, RewoundFacts
<1>4. \A s \in Failed(n) : s \in Failed(m) \ reset /\ n.reason[s] = m.reason[s]
  BY <1>2, <1>3 DEF Failed, Final, Done
<1>5. \A s \in Done(n) : s \in Done(m) \ reset
  BY <1>2, <1>3 DEF Failed, Final, Done
<1>6. ASSUME NEW s \in Failed(n), n.reason[s] = "upstream_cancelled"
      PROVE  \E r \in Failed(n) : s \in DownstreamOf[r] /\ n.reason[r] \in RootCauses
  <2>1. PICK r \in Failed(m) : s \in DownstreamOf[r] /\ m.reason[r] \in RootCauses
    BY <1>4, <1>6 DEF Sound, Rooted
  <2>2. r \notin reset
    BY <1>4, <1>6, <2>1 DEF DownClosed
  <2>3. r \in Failed(n) /\ n.reason[r] = m.reason[r]
    BY <1>3, <2>1, <2>2 DEF Failed, Final
  <2> QED BY <2>1, <2>3
<1>7. ASSUME NEW s \in Done(n)
      PROVE  s \in n.skipped \/ OutputsPresent(n, s)
  <2>1. s \in m.skipped \/ OutputsPresent(m, s)
    BY <1>5, <1>7 DEF Sound, Full
  <2>2. n.skipped = m.skipped
    BY <1>1, RewoundFacts
  <2>3. \A p \in Outputs[s] : p \in Ports /\ Owner[p] = s
    BY <1>7 DEF Outputs, Done
  <2>4. \A p \in Outputs[s] : n.cells[p] = m.cells[p]
    BY <1>1, <1>5, <1>7, <2>3, RewoundFacts DEF Survives
  <2> QED BY <2>1, <2>2, <2>4 DEF OutputsPresent, Present
<1>8. Fed(n) /\ n \in Machines
  BY <1>1, RewoundFacts DEF Fed
<1>9. \A s \in reset : s \notin Final(n)
  BY <1>2
<1> QED BY <1>6, <1>7, <1>8, <1>9 DEF Sound, Rooted, Full

\* Taking decisions back about stages that are not final keeps a machine sound.
LEMMA PrunedSound ==
  ASSUME NEW m, Sound(m), NEW reset, \A s \in reset : s \notin Final(m),
         NEW n, n = Pruned(m, reset)
  PROVE  Sound(n) /\ n.cells = m.cells /\ Executing(n) = Executing(m)
<1> DEFINE T == [s \in Retrying |-> IF s \in reset THEN 0 ELSE m.retries[s]]
<1>1. m \in Machines /\ n \in Machines
  BY PrunedPreserves DEF Sound
<1>2. n = [m EXCEPT !.authorized = m.authorized \ reset, !.skipped = m.skipped \ reset, !.retries = T]
  BY <1>1 DEF Pruned, Machines
<1> HIDE DEF T
<1>3. /\ n.region = m.region /\ n.reason = m.reason /\ n.cells = m.cells
      /\ n.skipped = m.skipped \ reset
  BY <1>1, <1>2 DEF Machines
<1>4. /\ Failed(n) = Failed(m) /\ Done(n) = Done(m) /\ Executing(n) = Executing(m)
  BY <1>3 DEF Failed, Done, Executing
<1>5. Rooted(n)
  BY <1>3, <1>4 DEF Sound, Rooted
<1>6. Full(n)
  BY <1>3, <1>4 DEF Sound, Full, OutputsPresent, Present, Final
<1>7. Fed(n)
  BY <1>3, <1>4 DEF Sound, Fed, FedAt, Present
<1> QED BY <1>1, <1>3, <1>4, <1>5, <1>6, <1>7 DEF Sound

\* Using up a retry changes nothing else.
LEMMA RetriedCells ==
  ASSUME NEW m \in Machines, NEW s \in Retrying, NEW n, n = [m EXCEPT !.retries[s] = @ + 1]
  PROVE  n \in Machines /\ n.cells = m.cells /\ Executing(n) = Executing(m)
<1> DEFINE T == [m.retries EXCEPT ![s] = @ + 1]
<1>1. n \in Machines
  BY RetriedPreserves
<1>2. n = [m EXCEPT !.retries = T]
  BY DEF Machines
<1> HIDE DEF T
<1>3. n.region = m.region /\ n.cells = m.cells
  BY <1>2 DEF Machines
<1> QED BY <1>1, <1>3 DEF Executing

\* Taking decisions back changes neither values nor states.
LEMMA PrunedCells ==
  ASSUME NEW m \in Machines, NEW reset, NEW n, n = Pruned(m, reset)
  PROVE  n \in Machines /\ n.cells = m.cells /\ Executing(n) = Executing(m)
<1> DEFINE T == [s \in Retrying |-> IF s \in reset THEN 0 ELSE m.retries[s]]
<1>1. n \in Machines
  BY PrunedPreserves
<1>2. n = [m EXCEPT !.authorized = m.authorized \ reset, !.skipped = m.skipped \ reset, !.retries = T]
  BY DEF Pruned, Machines
<1> HIDE DEF T
<1>3. n.region = m.region /\ n.cells = m.cells
  BY <1>2 DEF Machines
<1> QED BY <1>1, <1>3 DEF Executing

\* Using up a retry keeps a machine sound.
LEMMA RetriedSound ==
  ASSUME NEW m, Sound(m), NEW s \in Retrying, NEW n, n = [m EXCEPT !.retries[s] = @ + 1]
  PROVE  Sound(n) /\ n.cells = m.cells /\ Executing(n) = Executing(m)
<1> DEFINE T == [m.retries EXCEPT ![s] = @ + 1]
<1>1. m \in Machines /\ n \in Machines
  BY RetriedPreserves DEF Sound
<1>2. n = [m EXCEPT !.retries = T]
  BY <1>1 DEF Machines
<1> HIDE DEF T
<1>3. /\ n.region = m.region /\ n.reason = m.reason /\ n.cells = m.cells
      /\ n.skipped = m.skipped
  BY <1>1, <1>2 DEF Machines
<1> QED BY <1>1, <1>3 DEF Sound, Rooted, Full, Fed, OutputsPresent, FedAt, Present,
                          Failed, Done, Executing

\* A compiled machine before START is sound.
LEMMA FreshSound ==
  ASSUME NEW seeds \in [{p \in Ports : Owner[p] = External} -> Values]
  PROVE  Sound(Fresh(seeds)) /\ Executing(Fresh(seeds)) = {}
<1>1. \A s \in Stages : Fresh(seeds).region[s] = "waiting"
  BY DEF Fresh
<1>2. Fresh(seeds) \in Machines
  BY FreshType
<1> QED BY <1>1, <1>2 DEF Sound, Rooted, Full, Fed, Failed, Done, Executing

-----------------------------------------------------------------------------
\* The main loop completes only when every region is final.
EndsFinal == verdict = "completed" => phase # "live" /\ Final(machine) = Stages

\* What an actor's reaction to a snapshot leaves behind.
LEMMA ObserveSound ==
  ASSUME NEW m0, NEW m1, Sound(m1), NEW n, NEW bk, NEW bud, NEW ex, NEW rn, NEW at,
         Observe(m0, m1, n, bk, bud, ex, rn, at)
  PROVE  /\ Sound(machine') /\ EndsFinal'
         /\ machine'.cells = m1.cells /\ Executing(machine') \subseteq Executing(m1)
<1>1. machine' = StageCancelled(m1, Propagation(m1, bk))
  BY DEF Observe
<1>2. EndsFinal'
  BY DEF Observe, EndsFinal
<1> QED BY <1>1, <1>2, CancelSound

\* A rebuild over a sound context leaves a sound machine, past the limit too.
LEMMA RebuildSound ==
  ASSUME Sound(machine), NEW m, Sound(m), NEW bk, NEW ex, NEW rn, NEW at, NEW rows,
         Rebuild(m, bk, ex, rn, at, rows)
  PROVE  Sound(machine') /\ EndsFinal'
<1>1. CASE Exhausted
  BY <1>1 DEF Rebuild, EndsFinal
<1>2. CASE ~Exhausted
  <2>1. Replayed(m, bk) \in Machines /\ Grows(m, Replayed(m, bk))
    BY ReplayedPreserves, ReplayedGrows DEF Sound
  <2>2. Sound(Replayed(m, bk))
    BY <2>1, GrowsSound
  <2>3. Observe(m, Replayed(m, bk), generation + 1, bk, budget, ex, rn, at)
    BY <1>2 DEF Rebuild
  <2> QED BY <2>2, <2>3, ObserveSound
<1> QED BY <1>1, <1>2

\* The machine of the next state is sound, and the end of the main loop is the
\* machine's; once the main loop has been left nothing moves the machine any more.
Outcome == Sound(machine') /\ EndsFinal' /\ (phase # "live" => UNCHANGED <<machine, verdict>>)

\* A step without a reaction of the actor.
LEMMA StillOutcome ==
  ASSUME Sound(machine), EndsFinal, UNCHANGED <<machine, verdict>>,
         phase' = "live" => phase = "live"
  PROVE  Outcome
BY DEF Outcome, EndsFinal, Sound, Rooted, Full, Fed

\* A failure whose stage has retries left rewinds a closed set.
LEMMA RetryMachineSound ==
  ASSUME Sound(machine), NEW s \in Retrying
  PROVE  Sound(RetryMachine(s)) /\ Executing(RetryMachine(s)) = {}
<1>1. PICK w : w = Rewound(machine, ToReset[s], {})
  OBVIOUS
<1>2. Sound(w) /\ Executing(w) = {}
  BY <1>1, ToResetType, ToResetClosed, RewoundSound, RewoundFacts DEF Sound
<1>3. RetryMachine(s) = [w EXCEPT !.retries[s] = @ + 1]
  BY <1>1 DEF RetryMachine
<1> QED BY <1>2, <1>3, RetriedSound

\* What a reject rewinds is a set of stages.
LEMMA AffectedType ==
  ASSUME NEW g \in Gates
  PROVE  Affected[g] \in SUBSET Stages
<1>1. ASSUME NEW t \in RejectTargets[g] PROVE t \in Stages
  BY <1>1, RouteType DEF RejectTargets
<1>2. ASSUME NEW t \in RejectTargets[g] PROVE ForwardFrom[t] \subseteq Stages
  BY <1>1, <1>2 DEF ForwardFrom, Reach
<1>3. Affected[g] = UNION {ForwardFrom[t] : t \in RejectTargets[g]}
  BY DEF Affected
<1> QED BY <1>2, <1>3

\* The machine a reject is rebuilt from is sound, when rollbacks are closed.
LEMMA RejectMachineSound ==
  ASSUME RejectsTakeFeedback, Sound(machine), NEW r \in Rows
  PROVE  Sound(RejectMachine(r)) /\ Executing(RejectMachine(r)) = {}
<1> DEFINE reset == Affected[r.gate]
<1>0. r.gate \in Gates /\ r.run \in Nat
  BY DEF Rows
<1>1. PICK now : now = IF actorUp THEN Answered(r) ELSE machine
  OBVIOUS
<1>2. Sound(now)
  <2>1. Answered(r) \in Machines /\ Grows(machine, Answered(r))
    BY <1>0, AnsweredPreserves, PortWrittenGrows, PortsAssumption DEF Answered, Sound
  <2>2. Sound(Answered(r))
    BY <2>1, GrowsSound
  <2> QED BY <1>1, <2>2
<1>3. PICK w : w = Rewound(now, reset, {Feedback[r.gate]})
  OBVIOUS
<1>4. reset \in SUBSET Stages /\ DownClosed(reset)
  BY <1>0, AffectedType DEF RejectsTakeFeedback, DownClosed
<1>5. Sound(w) /\ Executing(w) = {} /\ \A s \in reset : s \notin Final(w)
  BY <1>2, <1>3, <1>4, RewoundSound, RewoundFacts DEF Sound
<1>6. RejectMachine(r) = Pruned(w, reset)
  BY <1>1, <1>3 DEF RejectMachine
<1> QED BY <1>5, <1>6, PrunedSound

\* Executors' steps.
LEMMA ExecutorOutcome ==
  ASSUME TypeOK, Sound(machine), EndsFinal, NEW e \in executors, ExecutorStep(e)
  PROVE  Outcome
<1>1. e \in Executor /\ machine \in Machines /\ e.stage \in Stages /\ e.run \in Nat
  BY DEF TypeOK, Executor
<1>2. ASSUME NEW P, NEW v \in Values, NEW ex, NEW at, Write(e, P, v, ex, at)
      PROVE  Outcome
  <2>1. CASE Live
    <3>1. PICK m1 : m1 = PortWritten(machine, P, Cell(v, e.run))
      OBVIOUS
    <3>2. m1 \in Machines /\ Grows(machine, m1)
      BY <1>1, <3>1, CellType, PortWrittenPreserves, PortWrittenGrows
    <3>3. Observe(machine, m1, generation, book, budget, ex, runs, at)
      BY <1>2, <2>1, <3>1 DEF Write
    <3> QED BY <2>1, <3>2, <3>3, GrowsSound, ObserveSound DEF Outcome, Live
  <2>2. CASE ~Live
    BY <1>2, <2>2, StillOutcome DEF Write, Unheard
  <2> QED BY <2>1, <2>2
<1>3. ASSUME NEW p \in Ports, NEW v \in Values \ {Seed}, AgentWrite(e, p, v)
      PROVE  Outcome
  BY <1>2, <1>3 DEF AgentWrite
<1>4. ASSUME NEW P, NEW v \in Values \ {Seed}, ScriptReturn(e, P, v)
      PROVE  Outcome
  BY <1>2, <1>4 DEF ScriptReturn
<1>5. ASSUME AgentFinish(e)
      PROVE  Outcome
  BY <1>5, StillOutcome DEF AgentFinish, Unheard
<1>6. PICK m1 : m1 = StageFailed(machine, e.stage)
  OBVIOUS
<1>7. Sound(m1)
  BY <1>1, <1>6, StageFailedPreserves, StageFailedGrows, GrowsSound
<1>8. ASSUME ExecutorSecretPending(e)
      PROVE  Outcome
  <2>1. CASE Live
    <3>1. \E bud, ex, at : Observe(machine, m1, generation, book, bud, ex, runs, at)
      BY <1>6, <1>8, <2>1 DEF ExecutorSecretPending
    <3> QED BY <1>7, <2>1, <3>1, ObserveSound DEF Outcome, Live
  <2>2. CASE ~Live
    BY <1>8, <2>2, StillOutcome DEF ExecutorSecretPending
  <2> QED BY <2>1, <2>2
<1>9. ASSUME ExecutorFail(e)
      PROVE  Outcome
  <2> DEFINE ex == executors \ {e}
             at == Settles(e, "error")
             s  == e.stage
  <2>1. Failure(e, ex, at)
    BY <1>9 DEF ExecutorFail
  <2>2. CASE ~Live
    BY <2>1, <2>2, StillOutcome DEF Failure, Unheard
  <2>3. CASE Live /\ ~RetriesOn(machine, s)
    <3>1. Observe(machine, m1, generation, book, budget, ex, runs, at)
      BY <1>6, <2>1, <2>3 DEF Failure
    <3> QED BY <1>7, <2>3, <3>1, ObserveSound DEF Outcome, Live
  <2>4. CASE Live /\ RetriesOn(machine, s)
    <3>1. \E bk, x, rn, a, rows : Rebuild(RetryMachine(s), bk, x, rn, a, rows)
      BY <2>1, <2>4 DEF Failure, RetryMachine
    <3>2. s \in Retrying
      BY <2>4 DEF RetriesOn
    <3> QED BY <2>4, <3>1, <3>2, RetryMachineSound, RebuildSound DEF Outcome, Live
  <2> QED BY <2>2, <2>3, <2>4
<1> QED BY <1>3, <1>4, <1>5, <1>8, <1>9 DEF ExecutorStep

\* Answers.
LEMMA AnswerOutcome ==
  ASSUME RejectsTakeFeedback, TypeOK, Sound(machine), EndsFinal, NEW r \in openGates, Answer(r)
  PROVE  Outcome
<1>1. PICK i \in DOMAIN Routes[r.gate] : Approve(r, i) \/ Reject(r, i)
  BY DEF Answer
<1>2. r \in Rows /\ r.gate \in Gates /\ r.run \in Nat /\ machine \in Machines
  BY DEF TypeOK, Rows
<1>3. CASE Approve(r, i) /\ Live
  <2>1. PICK m1 : m1 = GateAnswered(Answered(r), r.gate, Routes[r.gate][i])
    OBVIOUS
  <2>2. Answered(r) \in Machines /\ Grows(machine, Answered(r))
    BY <1>2, AnsweredPreserves, PortWrittenGrows, PortsAssumption DEF Answered
  <2>3. Sound(Answered(r))
    BY <2>2, GrowsSound
  <2>4. m1 \in Machines /\ Grows(Answered(r), m1)
    BY <1>2, <2>1, <2>2, RouteType, GateAnsweredPreserves, GateAnsweredGrows
  <2>5. Sound(m1)
    BY <2>3, <2>4, GrowsSound
  <2>6. Observe(machine, m1, generation, book, budget, executors, runs, Closed(r))
    BY <1>3, <2>1 DEF Approve
  <2> QED BY <1>3, <2>5, <2>6, ObserveSound DEF Outcome, Live
<1>4. CASE Approve(r, i) /\ ~Live
  BY <1>4, StillOutcome DEF Approve, Unheard
<1>5. CASE Reject(r, i) /\ phase = "live"
  <2>1. \E bk, ex, rn, at, rows : Rebuild(RejectMachine(r), bk, ex, rn, at, rows)
    BY <1>5 DEF Reject, RejectMachine
  <2> QED BY <1>2, <1>5, <2>1, RejectMachineSound, RebuildSound DEF Outcome
<1>6. CASE Reject(r, i) /\ phase # "live"
  BY <1>6, StillOutcome DEF Reject, Unheard
<1> QED BY <1>1, <1>3, <1>4, <1>5, <1>6

\* Operators, timers and the end of the run.
LEMMA OperatorOutcome ==
  ASSUME Sound(machine), EndsFinal,
         Interrupt \/ GraceExpires \/ CancelTask \/ Timeout \/ Finish \/ Quiet \/ UNCHANGED vars
  PROVE  Outcome
<1>1. UNCHANGED <<machine, verdict>> /\ (phase' = "live" => phase = "live")
  BY DEF Interrupt, GraceExpires, CancelTask, Timeout, Finish, Quiet, vars
<1> QED BY <1>1, StillOutcome

\* Every step.
LEMMA OutcomeNext ==
  ASSUME RejectsTakeFeedback, TypeOK, Sound(machine), EndsFinal, [Next]_vars
  PROVE  Outcome
<1>1. CASE \E e \in executors : ExecutorStep(e)
  BY <1>1, ExecutorOutcome
<1>2. CASE \E r \in openGates : Answer(r)
  BY <1>2, AnswerOutcome
<1>3. CASE Finish \/ Interrupt \/ GraceExpires \/ CancelTask \/ Timeout \/ Quiet \/ UNCHANGED vars
  BY <1>3, OperatorOutcome
<1> QED BY <1>1, <1>2, <1>3 DEF Next, Work

\* The first machine is sound.
LEMMA OutcomeInit ==
  ASSUME Init
  PROVE  Sound(machine) /\ EndsFinal
<1>1. PICK seeds \in [{p \in Ports : Owner[p] = External} -> Values] : Init!(seeds)
  BY DEF Init
<1>2. PICK m1 : m1 = Settle(Fresh(seeds))
  OBVIOUS
<1>3. PICK bk : bk = [published |-> {}, cancelled |-> {}, dispatched |-> {}, rejected |-> {}]
  OBVIOUS
<1>4. m1 \in Machines /\ Grows(Fresh(seeds), m1)
  BY <1>2, FreshType, SettlePreserves, SettleGrows
<1>5. Sound(m1)
  BY <1>4, FreshSound, GrowsSound
<1>6. PICK m2 : m2 = StageCancelled(m1, Propagation(m1, bk))
  OBVIOUS
<1>7. /\ machine = m2
      /\ phase = IF Final(m2) = Stages THEN "draining" ELSE "live"
      /\ verdict = IF Final(m2) = Stages THEN "completed" ELSE "none"
  BY <1>1, <1>2, <1>3, <1>6
<1> QED BY <1>5, <1>6, <1>7, CancelSound DEF EndsFinal

\* A verdict "completed" on record is the main loop's, and nothing failed.
FinalsTrue == finals = "completed" => phase = "over" /\ verdict = "completed" /\ StageErrors = {}

OutcomeInv == TypeOK /\ Sound(machine) /\ EndsFinal /\ FinalsTrue

\* Every step keeps it.
LEMMA OutcomeInvNext ==
  ASSUME RejectsTakeFeedback, OutcomeInv, [Next]_vars
  PROVE  OutcomeInv'
<1>1. TypeOK /\ Sound(machine) /\ EndsFinal
  BY DEF OutcomeInv
<1>2. TypeOK' /\ Outcome
  BY <1>1, NextType, OutcomeNext
<1>3. Sound(machine)' /\ EndsFinal'
  BY <1>2 DEF Outcome, Sound, Rooted, Full, Fed
<1>4. ASSUME phase # "live"
      PROVE  verdict' = verdict /\ StageErrors' = StageErrors
  BY <1>2, <1>4 DEF Outcome, StageErrors
<1>5. FinalsTrue'
  <2>1. CASE finals' = finals /\ (phase = "over" => phase' = "over")
    BY <1>4, <2>1 DEF OutcomeInv, FinalsTrue
  <2>2. CASE finals = "none" /\ finals' = "cancelled"
    BY <2>2 DEF FinalsTrue
  <2>3. CASE phase = "draining" /\ phase' = "over" /\ finals' = Recorded
    <3>1. finals # "completed"
      BY <2>3 DEF OutcomeInv, FinalsTrue
    <3>2. finals' = "completed" => verdict = "completed" /\ StageErrors = {}
      BY <2>3, <3>1 DEF Recorded, Classified
    <3> QED BY <1>4, <2>3, <3>2 DEF FinalsTrue
  <2> QED BY <2>1, <2>2, <2>3, VerdictStep
<1> QED BY <1>2, <1>3, <1>5 DEF OutcomeInv

\* And it holds at the start.
LEMMA OutcomeInvInit == Init => OutcomeInv
<1> SUFFICES ASSUME Init PROVE OutcomeInv
  OBVIOUS
<1>1. finals = "none"
  BY DEF Init
<1> QED BY <1>1, InitType, OutcomeInit DEF OutcomeInv, FinalsTrue

\* Cancellation is always somebody's fault: whatever mixture of failures, late
\* writes, retries and rollbacks led here, upstream of a cancelled stage stands
\* one that failed for a cause of its own.
THEOREM CancellationHasCause ==
  ASSUME RejectsTakeFeedback
  PROVE  Spec => []CancelledHasRootCause
<1>1. OutcomeInv /\ [Next]_vars => OutcomeInv'
  BY OutcomeInvNext
<1>2. OutcomeInv => CancelledHasRootCause
  BY DEF OutcomeInv, Sound, Rooted, CancelledHasRootCause
<1> QED BY <1>1, <1>2, OutcomeInvInit, PTL DEF Spec

\* A task recorded as completed left nothing out: the finals row counts root
\* causes only, and that is enough because cancellations have them.
THEOREM CompletedIsComplete ==
  ASSUME RejectsTakeFeedback
  PROVE  Spec => []CompletedMeansAllDone
<1>1. OutcomeInv /\ [Next]_vars => OutcomeInv'
  BY OutcomeInvNext
<1>2. ASSUME OutcomeInv
      PROVE  CompletedMeansAllDone
  <2> SUFFICES ASSUME finals = "completed", NEW s \in Stages
               PROVE  /\ s \in Done(machine)
                      /\ s \in machine.skipped \/ OutputsPresent(machine, s)
    BY DEF CompletedMeansAllDone, OutputsPresent, Present
  <2>1. Final(machine) = Stages /\ StageErrors = {}
    BY <1>2 DEF OutcomeInv, FinalsTrue, EndsFinal
  <2>2. Failed(machine) = {}
    <3>1. \A f \in Failed(machine) : machine.reason[f] = "upstream_cancelled"
      BY <2>1 DEF StageErrors
    <3>2. \A f \in Failed(machine) : machine.reason[f] \notin RootCauses
      BY <3>1 DEF RootCauses
    <3> QED BY <1>2, <3>1, <3>2 DEF OutcomeInv, Sound, Rooted
  <2>3. s \in Done(machine)
    BY <2>1, <2>2 DEF Final
  <2> QED BY <1>2, <2>3 DEF OutcomeInv, Sound, Full
<1> QED BY <1>1, <1>2, OutcomeInvInit, PTL DEF Spec

-----------------------------------------------------------------------------
\* Executors hold outputs of their own stage; a script's all of them until it returns.
Own(ex) ==
  \A e \in ex : /\ e.pending \subseteq Outputs[e.stage]
                /\ e.stage \in Scripts => e.pending = Outputs[e.stage]

\* startAttempt hands out all the outputs.
LEMMA StartedOwn ==
  ASSUME NEW S \in SUBSET Stages, NEW rn, NEW n, NEW ex, Own(ex)
  PROVE  Own(ex \cup Started(S, rn, n))
BY DEF Own, Started

\* Reactions of the actor only start executors.
LEMMA ObserveOwn ==
  ASSUME NEW m0, NEW m1, NEW n, NEW bk, NEW bud, NEW ex, Own(ex), NEW rn, NEW at,
         Observe(m0, m1, n, bk, bud, ex, rn, at)
  PROVE  Own(executors')
<1>1. Invoked(m0, m1) \in SUBSET Stages
  BY DEF Invoked, Executing
<1>2. executors' = ex \cup Started(Invoked(m0, m1), rn, n)
  BY DEF Observe
<1> QED BY <1>1, <1>2, StartedOwn

\* So do rebuilds.
LEMMA RebuildOwn ==
  ASSUME NEW m, NEW bk, NEW ex, Own(ex), NEW rn, NEW at, NEW rows,
         Rebuild(m, bk, ex, rn, at, rows)
  PROVE  Own(executors')
<1>1. CASE Exhausted
  BY <1>1 DEF Rebuild
<1>2. CASE ~Exhausted
  BY <1>2, ObserveOwn DEF Rebuild
<1> QED BY <1>1, <1>2

\* Executors give up what they write, and leave with what they hold.
LEMMA ExecutorOwn ==
  ASSUME TypeOK, Own(executors), NEW e \in executors, ExecutorStep(e)
  PROVE  Own(executors')
<1>1. e \in Executor /\ e.stage \in Stages
  BY DEF TypeOK, Executor
<1>2. Own(executors \ {e})
  BY DEF Own
<1>3. ASSUME NEW P, NEW v, NEW ex, Own(ex), NEW at, Write(e, P, v, ex, at)
      PROVE  Own(executors')
  BY <1>3, ObserveOwn DEF Write, Unheard
<1>4. ASSUME NEW p, NEW v, AgentWrite(e, p, v)
      PROVE  Own(executors')
  <2>1. PICK d : d = [e EXCEPT !.pending = @ \ {p}]
    OBVIOUS
  <2>2. d.stage = e.stage /\ d.pending = e.pending \ {p} /\ e.stage \notin Scripts
    BY <1>1, <1>4, <2>1 DEF Executor, AgentWrite, Agents
  <2>3. Own((executors \ {e}) \cup {d})
    BY <1>2, <2>2 DEF Own
  <2>4. Write(e, {p}, v, (executors \ {e}) \cup {d}, attempt)
    BY <1>4, <2>1 DEF AgentWrite
  <2> QED BY <1>3, <2>3, <2>4
<1>5. ASSUME AgentFinish(e)
      PROVE  Own(executors')
  BY <1>2, <1>5 DEF AgentFinish, Unheard
<1>6. ASSUME NEW P, NEW v, ScriptReturn(e, P, v)
      PROVE  Own(executors')
  BY <1>2, <1>3, <1>6 DEF ScriptReturn
<1>7. ASSUME ExecutorSecretPending(e)
      PROVE  Own(executors')
  BY <1>2, <1>7, ObserveOwn DEF ExecutorSecretPending
<1>8. ASSUME ExecutorFail(e)
      PROVE  Own(executors')
  <2> DEFINE s == e.stage
             ghosts == Executing(Settle([machine EXCEPT !.region[s] = "waiting"])) \cap {s}
  <2>1. Failure(e, executors \ {e}, Settles(e, "error"))
    BY <1>8 DEF ExecutorFail
  <2>2. CASE ~Live
    BY <1>2, <2>1, <2>2 DEF Failure, Unheard
  <2>3. CASE Live /\ ~RetriesOn(machine, s)
    BY <1>2, <2>1, <2>3, ObserveOwn DEF Failure
  <2>4. CASE Live /\ RetriesOn(machine, s)
    <3>1. ghosts \in SUBSET Stages
      BY DEF Executing
    <3>2. \E m, bk, rn, at, rows :
            Rebuild(m, bk, (executors \ {e}) \cup Started(ghosts, runs, generation), rn, at, rows)
      BY <2>1, <2>4 DEF Failure
    <3> HIDE DEF ghosts
    <3> QED BY <1>2, <3>1, <3>2, StartedOwn, RebuildOwn
  <2> QED BY <2>2, <2>3, <2>4
<1> QED BY <1>4, <1>5, <1>6, <1>7, <1>8 DEF ExecutorStep

\* Every step keeps it.
LEMMA OwnNext ==
  ASSUME TypeOK, Own(executors), [Next]_vars
  PROVE  Own(executors')
<1>1. CASE \E e \in executors : ExecutorStep(e)
  BY <1>1, ExecutorOwn
<1>2. CASE \E r \in openGates : Answer(r)
  <2>1. PICK r, i : Approve(r, i) \/ Reject(r, i)
    BY <1>2 DEF Answer
  <2>2. CASE Approve(r, i)
    BY <2>2, ObserveOwn DEF Approve, Unheard
  <2>3. CASE Reject(r, i)
    BY <2>3, RebuildOwn DEF Reject, Unheard
  <2> QED BY <2>1, <2>2, <2>3
<1>3. CASE Finish \/ Interrupt \/ GraceExpires \/ CancelTask \/ Timeout \/ Quiet \/ UNCHANGED vars
  <2>1. executors' = executors
    BY <1>3 DEF Finish, Interrupt, GraceExpires, CancelTask, Timeout, Quiet, vars
  <2> QED BY <2>1
<1> QED BY <1>1, <1>2, <1>3 DEF Next, Work

\* It holds at the start.
LEMMA OwnInit == Init => Own(executors)
<1> SUFFICES ASSUME Init PROVE Own(executors)
  OBVIOUS
<1>1. PICK seeds \in [{p \in Ports : Owner[p] = External} -> Values] : Init!(seeds)
  BY DEF Init
<1>2. \E S \in SUBSET Stages : \E rn : executors = {} \cup Started(S, rn, 1)
  <2> DEFINE S == Executing(Settle(Fresh(seeds))) \ Gates
             none == [s \in Stages |-> 0]
  <2>1. executors = Started(S, none, 1)
    BY <1>1
  <2>2. S \in SUBSET Stages
    BY DEF Executing
  <2> HIDE DEF S, none
  <2> QED BY <2>1, <2>2
<1>3. Own({})
  BY DEF Own
<1> QED BY <1>2, <1>3, StartedOwn

-----------------------------------------------------------------------------
\* The feedback port of a gate is its own and nobody's output.
LEMMA FeedbackFacts ==
  ASSUME NEW g \in Gates
  PROVE  /\ Feedback[g] \in Ports /\ Owner[Feedback[g]] = g /\ IsFeedback(Feedback[g])
         /\ \A s \in Stages : Feedback[g] \notin Outputs[s]
         /\ \A h \in Gates : Feedback[h] = Feedback[g] => h = g
<1>1. \A h \in Gates : Feedback[h] \in Ports /\ Owner[Feedback[h]] = h
  BY PortsAssumption
<1>2. \A s \in Stages : Feedback[g] \notin Outputs[s]
  BY <1>1 DEF Outputs
<1>3. IsFeedback(Feedback[g])
  BY DEF IsFeedback
<1> QED BY <1>1, <1>2, <1>3

\* An answered gate's own port is written, and no other.
LEMMA AnsweredCells ==
  ASSUME machine \in Machines, NEW r \in Rows
  PROVE  /\ Answered(r) \in Machines
         /\ Grows(machine, Answered(r)) /\ Owing(Answered(r))
         /\ Answered(r).cells = [p \in Ports |-> IF p = Feedback[r.gate] THEN Cell(Seed, r.run)
                                                  ELSE machine.cells[p]]
<1>1. r.run \in Nat /\ Seed \in Values
  BY PortsAssumption DEF Rows
<1>2. \A p : p \in {Feedback[r.gate]} <=> p = Feedback[r.gate]
  OBVIOUS
<1>3. PICK c : c = Cell(Seed, r.run)
  OBVIOUS
<1>4. PICK q : q = PortWritten(machine, {Feedback[r.gate]}, c)
  OBVIOUS
<1>5. /\ Grows(machine, q) /\ Owing(q)
      /\ q.cells = [p \in Ports |-> IF p \in {Feedback[r.gate]} THEN c ELSE machine.cells[p]]
  BY <1>1, <1>3, <1>4, PortWrittenGrows DEF Owing
<1>6. q.cells = [p \in Ports |-> IF p = Feedback[r.gate] THEN c ELSE machine.cells[p]]
  BY <1>5
<1>7. Answered(r) = q
  BY <1>3, <1>4 DEF Answered
<1> QED BY <1>3, <1>5, <1>6, <1>7, AnsweredPreserves

\* The comment on record for a gate, while the run is live.
CorrectionHeld ==
  phase = "live" =>
    \A g \in Gates : correction[g] # 0 => machine.cells[Feedback[g]].run = correction[g]

\* Values of a feedback port after a reaction of the actor to m1.
LEMMA ObserveCells ==
  ASSUME NEW m0, NEW m1 \in Machines, NEW n, NEW bk, NEW bud, NEW ex, NEW rn, NEW at,
         Observe(m0, m1, n, bk, bud, ex, rn, at)
  PROVE  machine'.cells = m1.cells
<1>1. machine' = StageCancelled(m1, Propagation(m1, bk))
  BY DEF Observe
<1> QED BY <1>1, StageCancelledPreserves

\* A reaction to a machine with the same comments keeps them.
LEMMA ObserveCorrection ==
  ASSUME CorrectionHeld, phase = "live", correction' = correction,
         NEW m0, NEW m1 \in Machines, NEW n, NEW bk, NEW bud, NEW ex, NEW rn, NEW at,
         Observe(m0, m1, n, bk, bud, ex, rn, at),
         \A g \in Gates : m1.cells[Feedback[g]] = machine.cells[Feedback[g]]
  PROVE  CorrectionHeld'
<1>1. machine'.cells = m1.cells
  BY ObserveCells
<1>2. \A g \in Gates : machine'.cells[Feedback[g]] = machine.cells[Feedback[g]]
  BY <1>1
<1> QED BY <1>2 DEF CorrectionHeld

\* A rebuild shows the comments of the machine it is built from.
LEMMA RebuildCells ==
  ASSUME NEW m \in Machines, NEW bk, NEW ex, NEW rn, NEW at, NEW rows,
         Rebuild(m, bk, ex, rn, at, rows)
  PROVE  phase' = "live" => machine'.cells = m.cells
<1>1. CASE Exhausted
  BY <1>1 DEF Rebuild
<1>2. CASE ~Exhausted
  <2>1. Replayed(m, bk) \in Machines /\ Replayed(m, bk).cells = m.cells
    BY ReplayedPreserves, ReplayedGrows
  <2>2. Observe(m, Replayed(m, bk), generation + 1, bk, budget, ex, rn, at)
    BY <1>2 DEF Rebuild
  <2> QED BY <2>1, <2>2, ObserveCells
<1> QED BY <1>1, <1>2

\* Executors write their own outputs, and no comment is among them.
LEMMA ExecutorCorrection ==
  ASSUME RetriesRewindNoGate, TypeOK, Own(executors), CorrectionHeld,
         NEW e \in executors, ExecutorStep(e)
  PROVE  CorrectionHeld'
<1>1. /\ e \in Executor /\ machine \in Machines /\ e.stage \in Stages /\ e.run \in Nat
      /\ e.pending \subseteq Outputs[e.stage]
  <2>1. e \in Executor /\ machine \in Machines
    BY DEF TypeOK
  <2>2. e.pending \subseteq Outputs[e.stage]
    BY DEF Own
  <2> QED BY <2>1, <2>2 DEF Executor
<1>2. ASSUME NEW P, P \subseteq Outputs[e.stage], NEW v \in Values, NEW ex, NEW at,
             Write(e, P, v, ex, at)
      PROVE  CorrectionHeld'
  <2>0. correction' = correction
    BY <1>2 DEF Write
  <2>1. CASE Live
    <3>1. PICK m1 : m1 = PortWritten(machine, P, Cell(v, e.run))
      OBVIOUS
    <3>2. m1 \in Machines
      BY <1>1, <3>1, CellType, PortWrittenPreserves
    <3>3. m1.cells = [p \in Ports |-> IF p \in P THEN Cell(v, e.run) ELSE machine.cells[p]]
      BY <1>1, <3>1, PortWrittenGrows
    <3>4. ASSUME NEW g \in Gates
          PROVE  m1.cells[Feedback[g]] = machine.cells[Feedback[g]]
      <4>1. Feedback[g] \in Ports /\ Feedback[g] \notin P
        BY <1>1, <1>2, FeedbackFacts
      <4> QED BY <3>3, <4>1
    <3>5. Observe(machine, m1, generation, book, budget, ex, runs, at)
      BY <1>2, <2>1, <3>1 DEF Write
    <3> QED BY <2>0, <2>1, <3>2, <3>4, <3>5, ObserveCorrection DEF Live
  <2>2. CASE ~Live
    BY <1>2, <2>0, <2>2 DEF Write, Unheard, CorrectionHeld
  <2> QED BY <2>1, <2>2
<1>3. ASSUME NEW p \in Ports, NEW v \in Values \ {Seed}, AgentWrite(e, p, v)
      PROVE  CorrectionHeld'
  <2>1. {p} \subseteq Outputs[e.stage]
    BY <1>1, <1>3 DEF AgentWrite
  <2> QED BY <1>2, <1>3, <2>1 DEF AgentWrite
<1>4. ASSUME NEW P \in SUBSET e.pending, NEW v \in Values \ {Seed}, ScriptReturn(e, P, v)
      PROVE  CorrectionHeld'
  BY <1>1, <1>2, <1>4 DEF ScriptReturn
<1>5. ASSUME AgentFinish(e)
      PROVE  CorrectionHeld'
  BY <1>5 DEF AgentFinish, Unheard, CorrectionHeld
<1>6. PICK m1 : m1 = StageFailed(machine, e.stage)
  OBVIOUS
<1>7. m1 \in Machines /\ m1.cells = machine.cells
  BY <1>1, <1>6, StageFailedPreserves, StageFailedGrows
<1>8. ASSUME ExecutorSecretPending(e)
      PROVE  CorrectionHeld'
  <2>1. correction' = correction
    BY <1>8 DEF ExecutorSecretPending
  <2>2. CASE Live
    <3>1. \E bud, ex, at : Observe(machine, m1, generation, book, bud, ex, runs, at)
      BY <1>6, <1>8, <2>2 DEF ExecutorSecretPending
    <3> QED BY <1>7, <2>1, <2>2, <3>1, ObserveCorrection DEF Live
  <2>3. CASE ~Live
    BY <1>8, <2>1, <2>3 DEF ExecutorSecretPending, CorrectionHeld
  <2> QED BY <2>2, <2>3
<1>9. ASSUME ExecutorFail(e)
      PROVE  CorrectionHeld'
  <2> DEFINE s == e.stage
  <2>1. Failure(e, executors \ {e}, Settles(e, "error")) /\ correction' = correction
    BY <1>9 DEF ExecutorFail
  <2>2. CASE ~Live
    BY <2>1, <2>2 DEF Failure, Unheard, CorrectionHeld
  <2>3. CASE Live /\ ~RetriesOn(machine, s)
    <3>1. \E ex, at : Observe(machine, m1, generation, book, budget, ex, runs, at)
      BY <1>6, <2>1, <2>3 DEF Failure
    <3> QED BY <1>7, <2>1, <2>3, <3>1, ObserveCorrection DEF Live
  <2>4. CASE Live /\ RetriesOn(machine, s)
    <3>1. \E bk, x, rn, a, rows : Rebuild(RetryMachine(s), bk, x, rn, a, rows)
      BY <2>1, <2>4 DEF Failure, RetryMachine
    <3>2. s \in Retrying
      BY <2>4 DEF RetriesOn
    <3>3. PICK w : w = Rewound(machine, ToReset[s], {})
      OBVIOUS
    <3>4. RetryMachine(s) = [w EXCEPT !.retries[s] = @ + 1] /\ w \in Machines
      BY <1>1, <3>3, RewoundPreserves DEF RetryMachine
    <3>5. RetryMachine(s) \in Machines /\ RetryMachine(s).cells = w.cells
      BY <3>2, <3>4, RetriedCells
    <3>6. ASSUME NEW g \in Gates
          PROVE  w.cells[Feedback[g]] = machine.cells[Feedback[g]]
      <4>1. Feedback[g] \in Ports /\ Owner[Feedback[g]] \notin ToReset[s]
        BY <3>2, FeedbackFacts DEF RetriesRewindNoGate
      <4> QED BY <1>1, <3>3, <4>1, RewoundFacts DEF Survives
    <3>7. phase' = "live" => machine'.cells = w.cells
      BY <3>1, <3>5, RebuildCells
    <3> QED BY <2>1, <2>4, <3>6, <3>7 DEF CorrectionHeld, Live
  <2> QED BY <2>2, <2>3, <2>4
<1> QED BY <1>3, <1>4, <1>5, <1>8, <1>9 DEF ExecutorStep

\* A forward answer withdraws the comment on its own gate only.
LEMMA ApproveCorrection ==
  ASSUME TypeOK, CorrectionHeld, NEW r \in openGates, NEW i, Approve(r, i)
  PROVE  CorrectionHeld'
<1>1. r \in Rows /\ r.gate \in Gates /\ machine \in Machines
  BY DEF TypeOK, Rows
<1>2. i \in DOMAIN Routes[r.gate] /\ correction' = [correction EXCEPT ![r.gate] = 0]
  BY DEF Approve
<1>3. \A g \in Gates : correction'[g] # 0 => g # r.gate /\ correction'[g] = correction[g]
  BY <1>1, <1>2 DEF TypeOK
<1>4. CASE Live
  <2>1. PICK a : a = Answered(r)
    OBVIOUS
  <2>2. PICK m1 : m1 = GateAnswered(a, r.gate, Routes[r.gate][i])
    OBVIOUS
  <2>3. /\ a \in Machines
        /\ \A p \in Ports : p # Feedback[r.gate] => a.cells[p] = machine.cells[p]
    BY <1>1, <2>1, AnsweredCells
  <2>4. m1 \in Machines /\ m1.cells = a.cells
    BY <1>1, <1>2, <2>2, <2>3, RouteType, GateAnsweredPreserves, GateAnsweredGrows
  <2>5. Observe(machine, m1, generation, book, budget, executors, runs, Closed(r))
    BY <1>4, <2>1, <2>2 DEF Approve
  <2>6. machine'.cells = a.cells
    BY <2>4, <2>5, ObserveCells
  <2>7. ASSUME NEW g \in Gates, correction'[g] # 0
        PROVE  machine'.cells[Feedback[g]].run = correction'[g]
    <3>1. g # r.gate /\ correction'[g] = correction[g]
      BY <1>3, <2>7
    <3>2. Feedback[g] \in Ports /\ Feedback[g] # Feedback[r.gate]
      BY <1>1, <3>1, FeedbackFacts
    <3>3. machine'.cells[Feedback[g]] = machine.cells[Feedback[g]]
      BY <2>3, <2>6, <3>2
    <3> QED BY <1>4, <2>7, <3>1, <3>3 DEF CorrectionHeld, Live
  <2> QED BY <2>7 DEF CorrectionHeld
<1>5. CASE ~Live
  BY <1>3, <1>5 DEF Approve, Unheard, CorrectionHeld
<1> QED BY <1>4, <1>5

\* A reject leaves its own comment behind, and those of the gates it does not rewind.
LEMMA RejectCorrection ==
  ASSUME TypeOK, CorrectionHeld, NEW r \in openGates, NEW i, Reject(r, i)
  PROVE  CorrectionHeld'
<1> DEFINE g == r.gate
           reset == Affected[g]
<1>1. r \in Rows /\ g \in Gates /\ r.run \in Nat /\ machine \in Machines
  BY DEF TypeOK, Rows
<1>2. CASE phase # "live"
  BY <1>2 DEF Reject, Unheard, CorrectionHeld
<1>3. CASE phase = "live"
  <2>1. PICK now : now = IF actorUp THEN Answered(r) ELSE machine
    OBVIOUS
  <2>2. PICK w : w = Rewound(now, reset, {Feedback[g]})
    OBVIOUS
  <2>3. PICK m : m = Pruned(w, reset)
    OBVIOUS
  <2>4. /\ Answered(r) \in Machines
        /\ \A p \in Ports : p # Feedback[g] => Answered(r).cells[p] = machine.cells[p]
        /\ Answered(r).cells[Feedback[g]].run = r.run
    <3>1. PICK c : c = Cell(Seed, r.run)
      OBVIOUS
    <3>2. Answered(r).cells = [p \in Ports |-> IF p = Feedback[g] THEN c ELSE machine.cells[p]]
      BY <1>1, <3>1, AnsweredCells
    <3>3. Feedback[g] \in Ports
      BY <1>1, FeedbackFacts
    <3>4. Answered(r).cells[Feedback[g]] = c /\ c.run = r.run
      BY <3>1, <3>2, <3>3 DEF Cell
    <3> QED BY <1>1, <3>2, <3>4, AnsweredCells
  <2>5. /\ now \in Machines
        /\ \A p \in Ports : p # Feedback[g] => now.cells[p] = machine.cells[p]
    BY <1>1, <2>1, <2>4
  <2>6. m \in Machines /\ m.cells = w.cells
    BY <2>2, <2>3, <2>5, RewoundFacts, PrunedCells
  <2>7. \E bk, ex, rn, at, rows : Rebuild(m, bk, ex, rn, at, rows)
    BY <1>3, <2>1, <2>2, <2>3 DEF Reject
  <2>8. correction' = [x \in Gates |-> IF x = g THEN (IF actorUp THEN r.run ELSE 0)
                                       ELSE IF x \in reset THEN 0 ELSE correction[x]]
    BY <1>3 DEF Reject
  <2>9. SUFFICES ASSUME phase' = "live", NEW x \in Gates, correction'[x] # 0
                 PROVE  machine'.cells[Feedback[x]].run = correction'[x]
    BY DEF CorrectionHeld
  <2>10. machine'.cells = w.cells
    BY <2>6, <2>7, <2>9, RebuildCells
  <2>11. CASE x = g
    <3>1. actorUp /\ correction'[x] = r.run
      BY <2>8, <2>9, <2>11
    <3>2. Feedback[g] \in Ports
      BY <1>1, FeedbackFacts
    <3>3. w.cells[Feedback[g]] = now.cells[Feedback[g]]
      <4>1. Survives(Feedback[g], reset, {Feedback[g]})
        BY DEF Survives
      <4>2. \A p \in Ports : Survives(p, reset, {Feedback[g]}) => w.cells[p] = now.cells[p]
        BY <2>2, <2>5, RewoundFacts
      <4> QED BY <3>2, <4>1, <4>2
    <3>4. now = Answered(r)
      BY <2>1, <3>1
    <3> QED BY <2>4, <2>10, <2>11, <3>1, <3>3, <3>4
  <2>12. CASE x # g
    <3>1. x \notin reset /\ correction'[x] = correction[x]
      BY <2>8, <2>9, <2>12
    <3>2. Feedback[x] \in Ports /\ Owner[Feedback[x]] = x /\ Feedback[x] # Feedback[g]
      BY <1>1, <2>12, FeedbackFacts
    <3>3. w.cells[Feedback[x]] = machine.cells[Feedback[x]]
      BY <2>2, <2>5, <3>1, <3>2, RewoundFacts DEF Survives
    <3> QED BY <1>3, <2>9, <2>10, <3>1, <3>3 DEF CorrectionHeld
  <2> QED BY <2>11, <2>12
<1> QED BY <1>2, <1>3

\* Every step keeps the comments.
LEMMA CorrectionNext ==
  ASSUME RetriesRewindNoGate, TypeOK, Own(executors), CorrectionHeld, [Next]_vars
  PROVE  CorrectionHeld'
<1>1. CASE \E e \in executors : ExecutorStep(e)
  BY <1>1, ExecutorCorrection
<1>2. CASE \E r \in openGates : Answer(r)
  BY <1>2, ApproveCorrection, RejectCorrection DEF Answer
<1>3. CASE Finish \/ Interrupt \/ GraceExpires \/ CancelTask \/ Timeout \/ Quiet \/ UNCHANGED vars
  <2>1. UNCHANGED <<machine, correction>> /\ (phase' = "live" => phase = "live")
    BY <1>3 DEF Finish, Interrupt, GraceExpires, CancelTask, Timeout, Quiet, Observations, vars
  <2> QED BY <2>1 DEF CorrectionHeld
<1> QED BY <1>1, <1>2, <1>3 DEF Next, Work

\* The reviewer's comment survives until its gate is answered again: late
\* writes, other gates' answers and rollbacks, and rebuilds leave it alone.
THEOREM CorrectionSurvives ==
  ASSUME RetriesRewindNoGate
  PROVE  Spec => []CorrectionIsKept
<1> DEFINE Inv == TypeOK /\ Own(executors) /\ CorrectionHeld
<1>1. Init => Inv
  <2>1. Init => CorrectionHeld
    BY DEF Init, CorrectionHeld
  <2> QED BY <2>1, InitType, OwnInit
<1>2. Inv /\ [Next]_vars => Inv'
  <2> SUFFICES ASSUME Inv, [Next]_vars PROVE Inv'
    OBVIOUS
  <2>1. Own(executors')
    BY OwnNext
  <2> QED BY <2>1, NextType, CorrectionNext DEF Own
<1>3. Inv => CorrectionIsKept
  BY DEF CorrectionHeld, CorrectionIsKept, Live
<1> QED BY <1>1, <1>2, <1>3, PTL DEF Spec

-----------------------------------------------------------------------------
\* What a gate's question rests on.  D is the set of gates on the books as
\* dispatched; a gate gets there by executing, so its inputs are in place, and
\* a rewind that takes them back takes the gate off the books.
Served(m, D) ==
  /\ m \in Machines
  /\ Fed(m) /\ AllOrNothing(m) /\ Owing(m)
  /\ \A g \in D : FedAt(m, g)

\* Growing keeps what executes fed.
LEMMA GrowsFed ==
  ASSUME NEW m, NEW n \in Machines, Grows(m, n), Fed(m)
  PROVE  Fed(n)
<1> SUFFICES ASSUME NEW s \in Executing(n) PROVE FedAt(n, s)
  BY DEF Fed
<1>1. CASE s \in Executing(m)
  <2>1. FedAt(m, s)
    BY <1>1 DEF Fed
  <2>2. \A w \in Inbound[s] : w.port \in Ports
    BY <1>1, WiresAssumption DEF Inbound, Executing
  <2> QED BY <2>1, <2>2 DEF Grows, FedAt
<1> QED BY <1>1 DEF Grows

\* Growing keeps a machine served, if it delivers a script's outputs together.
LEMMA GrowsServed ==
  ASSUME NEW m, NEW D \in SUBSET Gates, Served(m, D),
         NEW n \in Machines, Grows(m, n), AllOrNothing(n), Owing(n)
  PROVE  Served(n, D)
<1>1. Fed(n)
  BY GrowsFed DEF Served
<1>2. ASSUME NEW g \in D PROVE FedAt(n, g)
  <2>1. \A w \in Inbound[g] : w.port \in Ports
    BY <1>2, StagesAssumption, WiresAssumption DEF Inbound
  <2> QED BY <1>2, <2>1 DEF Grows, FedAt, Served
<1> QED BY <1>1, <1>2 DEF Served

\* An event that writes nothing.
LEMMA StillServed ==
  ASSUME NEW m, NEW D \in SUBSET Gates, Served(m, D),
         NEW n \in Machines, Grows(m, n), n.cells = m.cells, Owing(n)
  PROVE  Served(n, D)
<1>1. AllOrNothing(n)
  BY DEF Served, AllOrNothing, OutputsPresent, Present
<1> QED BY <1>1, GrowsServed

\* A write to ports of P, which holds all the outputs of a script that leaves none
\* out, or none of them.
LEMMA WrittenServed ==
  ASSUME NEW m, NEW D \in SUBSET Gates, Served(m, D),
         NEW P, NEW v \in Values, NEW k \in Nat,
         \A s \in Scripts \ PartialScripts : Outputs[s] \subseteq P \/ Outputs[s] \cap P = {}
  PROVE  Served(PortWritten(m, P, Cell(v, k)), D)
<1>1. PICK c : c = Cell(v, k)
  OBVIOUS
<1>2. PICK n : n = PortWritten(m, P, c)
  OBVIOUS
<1>3. /\ n \in Machines /\ Grows(m, n) /\ Owing(n)
      /\ n.cells = [p \in Ports |-> IF p \in P THEN c ELSE m.cells[p]]
  <2>1. m \in Machines
    BY DEF Served
  <2>2. n \in Machines
    BY <1>1, <1>2, <2>1, CellType, PortWrittenPreserves
  <2>3. /\ Grows(m, n) /\ \A s \in Executing(n) \ Gates : ~OutputsPresent(n, s)
        /\ n.cells = [p \in Ports |-> IF p \in P THEN c ELSE m.cells[p]]
    BY <1>1, <1>2, <2>1, PortWrittenGrows
  <2> QED BY <2>2, <2>3 DEF Owing
<1>4. /\ \A p \in Ports \cap P : Present(n, p)
      /\ \A p \in Ports \ P : Present(n, p) <=> Present(m, p)
  BY <1>1, <1>3 DEF Present, Cell
<1>5. ASSUME NEW s \in Scripts \ PartialScripts
      PROVE  OutputsPresent(n, s) \/ \A p \in Outputs[s] : ~Present(n, p)
  <2>1. Outputs[s] \subseteq Ports
    BY StagesAssumption, OutputsType
  <2>2. CASE Outputs[s] \subseteq P
    BY <1>4, <2>1, <2>2 DEF OutputsPresent
  <2>3. CASE Outputs[s] \cap P = {}
    <3>1. OutputsPresent(m, s) \/ \A p \in Outputs[s] : ~Present(m, p)
      BY DEF Served, AllOrNothing
    <3>2. \A p \in Outputs[s] : Present(n, p) <=> Present(m, p)
      BY <1>4, <2>1, <2>3
    <3> QED BY <3>1, <3>2 DEF OutputsPresent
  <2> QED BY <2>2, <2>3
<1>6. AllOrNothing(n)
  BY <1>5 DEF AllOrNothing
<1>7. Served(n, D)
  BY <1>3, <1>6, GrowsServed
<1> QED BY <1>1, <1>2, <1>7

\* A set no forward wire leaves.
ForwardClosed(S) ==
  \A w \in Wires : Owner[w.port] \in S /\ ~IsFeedback(w.port) => w.to \in S

\* A rewind of such a set leaves the gates outside it fed.
LEMMA RewoundServed ==
  ASSUME NEW m, NEW D \in SUBSET Gates, Served(m, D),
         NEW reset \in SUBSET Stages, ForwardClosed(reset),
         NEW keep, \A p \in keep : IsFeedback(p),
         NEW n, n = Rewound(m, reset, keep)
  PROVE  Served(n, D \ reset)
<1>1. m \in Machines
  BY DEF Served
<1>2. /\ n \in Machines /\ Executing(n) = {}
      /\ \A p \in Ports : Owner[p] \notin reset => n.cells[p] = m.cells[p]
  BY <1>1, RewoundFacts DEF Survives
<1>3. \A p \in Ports : Owner[p] \in reset /\ ~IsFeedback(p) => n.cells[p] = Absent
  BY <1>1, RewoundFacts DEF Survives
<1>4. ASSUME NEW s \in Scripts \ PartialScripts
      PROVE  OutputsPresent(n, s) \/ \A p \in Outputs[s] : ~Present(n, p)
  <2>1. \A p \in Outputs[s] : p \in Ports /\ Owner[p] = s /\ ~IsFeedback(p)
    <3>1. s \in Stages
      BY StagesAssumption
    <3> QED BY <3>1, FeedbackFacts DEF Outputs, IsFeedback
  <2>2. CASE s \in reset
    BY <1>3, <2>1, <2>2 DEF Present, Absent
  <2>3. CASE s \notin reset
    <3>1. OutputsPresent(m, s) \/ \A p \in Outputs[s] : ~Present(m, p)
      BY DEF Served, AllOrNothing
    <3> QED BY <1>2, <2>1, <2>3, <3>1 DEF OutputsPresent, Present
  <2> QED BY <2>2, <2>3
<1>5. ASSUME NEW g \in D \ reset, NEW w \in Inbound[g]
      PROVE  Present(n, w.port)
  <2>1. w \in Wires /\ w.to = g /\ w.port \in Ports
    BY <1>5, StagesAssumption, WiresAssumption DEF Inbound
  <2>2. Present(m, w.port)
    BY <1>5 DEF Served, FedAt
  <2>3. CASE Owner[w.port] \notin reset
    BY <1>2, <2>1, <2>2, <2>3 DEF Present
  <2>4. CASE Owner[w.port] \in reset
    <3>1. IsFeedback(w.port)
      BY <2>1, <2>4 DEF ForwardClosed
    <3>2. n.cells[w.port] = m.cells[w.port] \/ n.cells[w.port] = Cell(Seed, 0)
      BY <1>1, <2>1, <3>1, RewoundFacts
    <3> QED BY <2>2, <3>2 DEF Present, Cell
  <2> QED BY <2>3, <2>4
<1>6. Fed(n) /\ Owing(n) /\ AllOrNothing(n)
  BY <1>2, <1>4 DEF Fed, Owing, AllOrNothing
<1> QED BY <1>2, <1>5, <1>6 DEF Served, FedAt

\* Bookkeeping of a machine with the same values and nobody executing.
LEMMA SameServed ==
  ASSUME NEW m, NEW D, Served(m, D),
         NEW n \in Machines, n.cells = m.cells, Executing(n) \subseteq Executing(m)
  PROVE  Served(n, D)
BY DEF Served, Fed, FedAt, Owing, AllOrNothing, OutputsPresent, Present

\* A cancellation starts nothing.
LEMMA CancelShrinks ==
  ASSUME NEW m1 \in Machines, NEW bk, NEW m2, m2 = StageCancelled(m1, Propagation(m1, bk))
  PROVE  Executing(m2) \subseteq Executing(m1)
<1> DEFINE hit == Propagation(m1, bk) \ Final(m1)
           R == [s \in Stages |-> IF s \in hit THEN "error" ELSE m1.region[s]]
           Q == [s \in Stages |-> IF s \in hit THEN "upstream_cancelled" ELSE m1.reason[s]]
<1>1. m2 = [m1 EXCEPT !.region = R, !.reason = Q]
  BY DEF StageCancelled, Fail
<1>2. \A s \in Stages : R[s] \in {m1.region[s], "error"}
  BY DEF R
<1> HIDE DEF R, Q
<1>3. m2.region = R
  BY <1>1 DEF Machines
<1> QED BY <1>2, <1>3 DEF Executing

\* A reaction of the actor puts gates on the books that execute, hence are fed.
LEMMA ObserveServed ==
  ASSUME NEW m0, NEW m1, NEW n, NEW bk, Served(m1, bk.dispatched), NEW bud, NEW ex,
         NEW rn, NEW at, Observe(m0, m1, n, bk, bud, ex, rn, at)
  PROVE  Served(machine', book'.dispatched)
<1>1. PICK m2 : m2 = StageCancelled(m1, Propagation(m1, bk))
  OBVIOUS
<1>2. m2 \in Machines /\ m2.cells = m1.cells
  BY <1>1, StageCancelledPreserves DEF Served
<1>3. Executing(m2) \subseteq Executing(m1)
  BY <1>1, CancelShrinks DEF Served
<1>4. Served(m2, bk.dispatched)
  BY <1>2, <1>3, SameServed
<1>5. \A g \in Undispatched(m1, bk) : FedAt(m2, g)
  <2>1. \A g \in Undispatched(m1, bk) : FedAt(m1, g)
    BY DEF Undispatched, Served, Fed
  <2> QED BY <1>2, <2>1 DEF FedAt, Present
<1>6. machine' = m2
  BY <1>1 DEF Observe
<1>7. book'.dispatched = bk.dispatched \cup Undispatched(m1, bk)
  BY DEF Observe
<1> QED BY <1>4, <1>5, <1>6, <1>7 DEF Served

-----------------------------------------------------------------------------
\* The open questions: one per gate, of gates on the books as dispatched.
RowsOk(rows, D) ==
  /\ \A r \in rows : r.gate \in D
  /\ \A q, r \in rows : q.gate = r.gate => q = r

\* Answers that stand are those of gates on the books.
Stands(answers, D) == \A a \in answers : a[1] \in D

\* A step opens no question on a gate whose answer stands after it.
AskedStep == \A r \in openGates' \ openGates : \A a \in standing' : a[1] # r.gate

\* What the gates' books and rows keep to.
AskInv ==
  /\ Served(machine, book.dispatched)
  /\ RowsOk(openGates, book.dispatched)
  /\ Stands(standing, book.dispatched)

\* What a step does to them.
Asks ==
  /\ Served(machine', book'.dispatched)
  /\ RowsOk(openGates', book'.dispatched)
  /\ Stands(standing', book'.dispatched)
  /\ AskedStep

\* Questions open on gates that are not on the books yet.
LEMMA OpenedRows ==
  ASSUME NEW m1, NEW bk, NEW rows, rows \subseteq openGates, RowsOk(rows, bk.dispatched),
         Stands(standing', bk.dispatched), NEW rn,
         openGates' = Opened(m1, bk, rows, rn),
         NEW D, D = bk.dispatched \cup Undispatched(m1, bk)
  PROVE  RowsOk(openGates', D) /\ Stands(standing', D) /\ AskedStep
<1> DEFINE U == Undispatched(m1, bk)
           row(g) == [gate |-> g, run |-> rn[g] + 1]
<1>1. openGates' = rows \cup {row(g) : g \in U}
  BY DEF Opened
<1>2. \A g \in U : g \notin bk.dispatched
  BY DEF Undispatched
<1>3. \A g : row(g).gate = g
  OBVIOUS
<1> HIDE DEF row, U
<1>4. \A r \in openGates' : r \in rows \/ (r.gate \in U /\ r = row(r.gate))
  BY <1>1, <1>3
<1>5. \A r \in openGates' : r.gate \in D
  BY <1>4 DEF RowsOk, U
<1>6. ASSUME NEW q \in openGates', NEW r \in openGates', q.gate = r.gate
      PROVE  q = r
  <2>1. CASE q.gate \in U
    <3>1. q \notin rows /\ r \notin rows
      BY <1>2, <1>6, <2>1 DEF RowsOk
    <3> QED BY <1>4, <1>6, <3>1
  <2>2. CASE q.gate \notin U
    <3>1. q \in rows /\ r \in rows
      BY <1>4, <1>6, <2>2
    <3> QED BY <1>6, <3>1 DEF RowsOk
  <2> QED BY <2>1, <2>2
<1>7. Stands(standing', D)
  BY DEF Stands
<1>8. AskedStep
  <2>1. \A r \in openGates' \ openGates : r.gate \in U
    BY <1>4
  <2> QED BY <1>2, <2>1 DEF AskedStep, Stands
<1> QED BY <1>5, <1>6, <1>7, <1>8 DEF RowsOk

\* A reaction of the actor asks what it may.
LEMMA ObserveAsks ==
  ASSUME NEW m0, NEW m1, NEW n, NEW bk, Served(m1, bk.dispatched), NEW bud, NEW ex,
         NEW rn, NEW at, Observe(m0, m1, n, bk, bud, ex, rn, at),
         NEW rows, rows \subseteq openGates, RowsOk(rows, bk.dispatched),
         Stands(standing', bk.dispatched), openGates' = Opened(m1, bk, rows, rn)
  PROVE  Asks
<1>1. book'.dispatched = bk.dispatched \cup Undispatched(m1, bk)
  BY DEF Observe
<1> QED BY <1>1, ObserveServed, OpenedRows DEF Asks

\* A step that only closes questions.
LEMMA ClosesAsks ==
  ASSUME AskInv, UNCHANGED <<machine, book>>, standing' = standing, openGates' \subseteq openGates
  PROVE  Asks
<1>1. RowsOk(openGates', book'.dispatched)
  BY DEF AskInv, RowsOk
<1>2. Served(machine', book'.dispatched) /\ Stands(standing', book'.dispatched)
  BY DEF AskInv
<1> QED BY <1>1, <1>2 DEF Asks, AskedStep

\* A rebuild over a served machine.
LEMMA RebuildAsks ==
  ASSUME AskInv, NEW m, NEW bk, bk.dispatched \in SUBSET Gates, Served(m, bk.dispatched),
         NEW ex, NEW rn, NEW at, NEW rows, rows \subseteq openGates, RowsOk(rows, bk.dispatched),
         Rebuild(m, bk, ex, rn, at, rows),
         ~Exhausted => Stands(standing', bk.dispatched),
         Exhausted => standing' = standing
  PROVE  Asks
<1>1. CASE Exhausted
  BY <1>1, ClosesAsks DEF Rebuild
<1>2. CASE ~Exhausted
  <2>1. PICK q : q = Replayed(m, bk)
    OBVIOUS
  <2>2. q \in Machines /\ Grows(m, q) /\ q.cells = m.cells /\ Owing(q)
    BY <2>1, ReplayedPreserves, ReplayedGrows DEF Served, Owing
  <2>3. Served(q, bk.dispatched)
    BY <2>2, StillServed
  <2>4. /\ Observe(m, q, generation + 1, bk, budget, ex, rn, at)
        /\ openGates' = Opened(q, bk, rows, rn)
    BY <1>2, <2>1 DEF Rebuild
  <2> QED BY <1>2, <2>3, <2>4, ObserveAsks
<1> QED BY <1>1, <1>2

\* A script that has yet to return has not been read by any gate on the books, so
\* its retry takes no question back.
LEMMA RetryAsks ==
  ASSUME RetriesComeBeforeGates, TypeOK, AskInv, NEW s, RetriesOn(machine, s)
  PROVE  /\ ToReset[s] \cap book.dispatched = {}
         /\ Served(RetryMachine(s), book.dispatched)
<1>1. s \in Retrying /\ s \in Stages /\ s \in Scripts /\ s \in Executing(machine)
  BY RetryAssumption, StagesAssumption DEF RetriesOn, Executing
<1>2. book.dispatched \in SUBSET Gates
  BY DEF TypeOK
<1>3. ASSUME NEW g \in book.dispatched, g \in ToReset[s]
      PROVE  FALSE
  <2>1. PICK w \in Inbound[g] : s \notin PartialScripts /\ Owner[w.port] = s
    BY <1>1, <1>2, <1>3 DEF RetriesComeBeforeGates
  <2>2. Present(machine, w.port)
    BY <1>3 DEF AskInv, Served, FedAt
  <2>3. w.port \in Outputs[s]
    <3>1. w.port \in Ports
      BY <1>2, <1>3, StagesAssumption, WiresAssumption DEF Inbound
    <3> QED BY <1>1, <2>1, <3>1, StagesAssumption DEF Outputs
  <2>4. OutputsPresent(machine, s)
    BY <1>1, <2>1, <2>2, <2>3 DEF AskInv, Served, AllOrNothing
  <2>5. s \notin Gates
    BY <1>1, StagesAssumption
  <2> QED BY <1>1, <2>4, <2>5 DEF AskInv, Served, Owing
<1>4. ForwardClosed(ToReset[s]) /\ ToReset[s] \in SUBSET Stages
  BY <1>1, ToResetType, ToResetClosed, ClosedEdge DEF ForwardClosed
<1>5. PICK w : w = Rewound(machine, ToReset[s], {})
  OBVIOUS
<1>6. book.dispatched \ ToReset[s] = book.dispatched
  BY <1>3
<1>7. Served(w, book.dispatched)
  <2>1. Served(w, book.dispatched \ ToReset[s])
    BY <1>2, <1>4, <1>5, RewoundServed DEF AskInv
  <2> QED BY <1>6, <2>1
<1>8. RetryMachine(s) = [w EXCEPT !.retries[s] = @ + 1]
  BY <1>5 DEF RetryMachine
<1>9. Served(RetryMachine(s), book.dispatched)
  <2>1. w \in Machines
    BY <1>7 DEF Served
  <2>2. /\ RetryMachine(s) \in Machines /\ RetryMachine(s).cells = w.cells
        /\ Executing(RetryMachine(s)) \subseteq Executing(w)
    BY <1>1, <1>8, <2>1, RetriedCells
  <2> QED BY <1>7, <2>2, SameServed
<1> QED BY <1>3, <1>9

\* Executors' steps.
LEMMA ExecutorAsks ==
  ASSUME RetriesComeBeforeGates, TypeOK, Own(executors), AskInv,
         NEW e \in executors, ExecutorStep(e)
  PROVE  Asks
<1>1. /\ e \in Executor /\ machine \in Machines /\ e.stage \in Stages /\ e.run \in Nat
      /\ book.dispatched \in SUBSET Gates
  BY DEF TypeOK, Executor
<1>2. /\ e.pending \subseteq Outputs[e.stage]
      /\ e.stage \in Scripts => e.pending = Outputs[e.stage]
  BY DEF Own
<1>3. ASSUME NEW P, NEW v \in Values, NEW ex, NEW at, Write(e, P, v, ex, at),
             \A s \in Scripts \ PartialScripts : Outputs[s] \subseteq P \/ Outputs[s] \cap P = {}
      PROVE  Asks
  <2>0. standing' = standing
    BY <1>3 DEF Write
  <2>1. CASE Live
    <3>1. PICK m1 : m1 = PortWritten(machine, P, Cell(v, e.run))
      OBVIOUS
    <3>2. Served(m1, book.dispatched)
      BY <1>1, <1>3, <3>1, WrittenServed DEF AskInv
    <3>3. /\ Observe(machine, m1, generation, book, budget, ex, runs, at)
          /\ openGates' = Opened(m1, book, openGates, runs)
      BY <1>3, <2>1, <3>1 DEF Write
    <3> QED BY <2>0, <3>2, <3>3, ObserveAsks DEF AskInv
  <2>2. CASE ~Live
    BY <1>3, <2>0, <2>2, ClosesAsks DEF Write, Unheard
  <2> QED BY <2>1, <2>2
<1>4. ASSUME NEW P \in SUBSET Outputs[e.stage],
             e.stage \in Scripts \ PartialScripts => P = Outputs[e.stage],
             NEW s \in Scripts \ PartialScripts
      PROVE  Outputs[s] \subseteq P \/ Outputs[s] \cap P = {}
  <2>1. \A p \in Outputs[s] : Owner[p] = s
    BY StagesAssumption DEF Outputs
  <2>2. \A p \in P : Owner[p] = e.stage
    BY <1>1 DEF Outputs
  <2> QED BY <1>4, <2>1, <2>2
<1>5. ASSUME NEW p \in Ports, NEW v \in Values \ {Seed}, AgentWrite(e, p, v)
      PROVE  Asks
  <2>1. {p} \in SUBSET Outputs[e.stage] /\ e.stage \notin Scripts
    BY <1>2, <1>5 DEF AgentWrite, Agents
  <2>2. \A s \in Scripts \ PartialScripts : Outputs[s] \subseteq {p} \/ Outputs[s] \cap {p} = {}
    BY <1>4, <2>1
  <2>3. \E ex, at : Write(e, {p}, v, ex, at)
    BY <1>5 DEF AgentWrite
  <2> QED BY <1>3, <2>2, <2>3
<1>6. ASSUME NEW P \in SUBSET e.pending, NEW v \in Values \ {Seed}, ScriptReturn(e, P, v)
      PROVE  Asks
  <2>1. /\ e.stage \in Scripts /\ P \in SUBSET Outputs[e.stage]
        /\ e.stage \notin PartialScripts => P = Outputs[e.stage]
    BY <1>2, <1>6 DEF ScriptReturn
  <2>2. \A s \in Scripts \ PartialScripts : Outputs[s] \subseteq P \/ Outputs[s] \cap P = {}
    BY <1>4, <2>1
  <2>3. \E ex, at : Write(e, P, v, ex, at)
    BY <1>6 DEF ScriptReturn
  <2> QED BY <1>3, <2>2, <2>3
<1>7. ASSUME AgentFinish(e)
      PROVE  Asks
  BY <1>7, ClosesAsks DEF AgentFinish, Unheard
<1>8. PICK m1 : m1 = StageFailed(machine, e.stage)
  OBVIOUS
<1>9. Served(m1, book.dispatched)
  <2>1. m1 \in Machines /\ Grows(machine, m1) /\ m1.cells = machine.cells /\ Owing(m1)
    BY <1>1, <1>8, StageFailedPreserves, StageFailedGrows DEF Owing
  <2> QED BY <1>1, <2>1, StillServed DEF AskInv
<1>10. ASSUME ExecutorSecretPending(e)
       PROVE  Asks
  <2>1. standing' = standing
    BY <1>10 DEF ExecutorSecretPending
  <2>2. CASE Live
    <3>1. \E bud, ex, at :
            /\ Observe(machine, m1, generation, book, bud, ex, runs, at)
            /\ openGates' = Opened(m1, book, openGates, runs)
      BY <1>8, <1>10, <2>2 DEF ExecutorSecretPending
    <3> QED BY <1>9, <2>1, <3>1, ObserveAsks DEF AskInv
  <2>3. CASE ~Live
    BY <1>10, <2>1, <2>3, ClosesAsks DEF ExecutorSecretPending
  <2> QED BY <2>2, <2>3
<1>11. ASSUME ExecutorFail(e)
       PROVE  Asks
  <2> DEFINE s == e.stage
  <2>1. Failure(e, executors \ {e}, Settles(e, "error")) /\ standing' = standing
    BY <1>11 DEF ExecutorFail
  <2>2. CASE ~Live
    BY <2>1, <2>2, ClosesAsks DEF Failure, Unheard
  <2>3. CASE Live /\ ~RetriesOn(machine, s)
    <3>1. \E ex, at : /\ Observe(machine, m1, generation, book, budget, ex, runs, at)
                      /\ openGates' = Opened(m1, book, openGates, runs)
      BY <1>8, <2>1, <2>3 DEF Failure
    <3> QED BY <1>9, <2>1, <3>1, ObserveAsks DEF AskInv
  <2>4. CASE Live /\ RetriesOn(machine, s)
    <3>1. \E x, rn, a :
            Rebuild(RetryMachine(s), Cleared(book, ToReset[s]), x, rn, a, openGates)
      BY <2>1, <2>4 DEF Failure, RetryMachine
    <3>2. PICK bk : bk = Cleared(book, ToReset[s])
      OBVIOUS
    <3>3. bk.dispatched = book.dispatched
      <4>1. bk.dispatched = book.dispatched \ ToReset[s]
        BY <3>2 DEF Cleared, TypeOK
      <4> QED BY <2>4, <4>1, RetryAsks
    <3>4. Served(RetryMachine(s), book.dispatched)
      BY <2>4, RetryAsks
    <3>5. \E x, rn, a : Rebuild(RetryMachine(s), bk, x, rn, a, openGates)
      BY <3>1, <3>2
    <3> QED BY <1>1, <2>1, <3>3, <3>4, <3>5, RebuildAsks DEF AskInv
  <2> QED BY <2>2, <2>3, <2>4
<1> QED BY <1>5, <1>6, <1>7, <1>10, <1>11 DEF ExecutorStep

\* No forward wire leaves what a reject rewinds.
LEMMA AffectedClosed ==
  ASSUME NEW g \in Gates
  PROVE  ForwardClosed(Affected[g])
<1> SUFFICES ASSUME NEW w \in Wires, Owner[w.port] \in Affected[g], ~IsFeedback(w.port)
             PROVE  w.to \in Affected[g]
  BY DEF ForwardClosed
<1>1. Affected[g] = UNION {ForwardFrom[t] : t \in RejectTargets[g]}
  BY DEF Affected
<1>2. PICK t \in RejectTargets[g] : Owner[w.port] \in ForwardFrom[t]
  BY <1>1
<1>3. t \in Stages /\ w.to \in Stages /\ Owner[w.port] # External
  <2>1. t \in Stages
    BY RouteType DEF RejectTargets
  <2>2. Owner[w.port] \in Stages
    BY <1>2, <2>1 DEF ForwardFrom, Reach
  <2> QED BY <2>1, <2>2, StagesAssumption, WiresAssumption
<1>4. PICK e : e = <<Owner[w.port], w.to>>
  OBVIOUS
<1>5. e \in ForwardEdges /\ e[1] = Owner[w.port] /\ e[2] = w.to
  BY <1>3, <1>4 DEF ForwardEdges
<1>6. w.to \in ForwardFrom[t]
  BY <1>2, <1>3, <1>5, ReachStep DEF ForwardFrom
<1> QED BY <1>1, <1>6

\* A human's comment completes no script.
LEMMA AnsweredServed ==
  ASSUME TypeOK, AskInv, NEW r \in Rows
  PROVE  Served(Answered(r), book.dispatched)
<1>1. r.gate \in Gates /\ r.run \in Nat /\ Seed \in Values /\ book.dispatched \in SUBSET Gates
  BY PortsAssumption DEF Rows, TypeOK
<1>2. \A s \in Scripts : Outputs[s] \cap {Feedback[r.gate]} = {}
  BY <1>1, FeedbackFacts, StagesAssumption
<1> QED BY <1>1, <1>2, WrittenServed DEF AskInv, Answered

\* Forward answers.
LEMMA ApproveAsks ==
  ASSUME TypeOK, AskInv, NEW r \in openGates, NEW i, Approve(r, i)
  PROVE  Asks
<1>1. r \in Rows /\ r.gate \in Gates /\ machine \in Machines /\ book.dispatched \in SUBSET Gates
  BY DEF TypeOK, Rows
<1>2. i \in DOMAIN Routes[r.gate]
  BY DEF Approve
<1>3. CASE Live
  <2>1. PICK a : a = Answered(r)
    OBVIOUS
  <2>2. PICK m1 : m1 = GateAnswered(a, r.gate, Routes[r.gate][i])
    OBVIOUS
  <2>3. Served(a, book.dispatched) /\ a \in Machines
    BY <1>1, <2>1, AnsweredServed DEF Served
  <2>4. m1 \in Machines /\ Grows(a, m1) /\ m1.cells = a.cells /\ Owing(m1)
    BY <1>1, <1>2, <2>2, <2>3, RouteType, GateAnsweredPreserves, GateAnsweredGrows DEF Owing
  <2>5. Served(m1, book.dispatched)
    BY <1>1, <2>3, <2>4, StillServed
  <2>6. /\ Observe(machine, m1, generation, book, budget, executors, runs, Closed(r))
        /\ openGates' = Opened(m1, book, openGates \ {r}, runs)
    BY <1>3, <2>1, <2>2 DEF Approve
  <2>7. Stands(standing', book.dispatched)
    <3>1. r.gate \in book.dispatched
      BY DEF AskInv, RowsOk
    <3>2. standing' = standing \cup {<<r.gate, i>>}
      BY <1>3 DEF Approve
    <3> QED BY <3>1, <3>2 DEF AskInv, Stands
  <2>8. RowsOk(openGates \ {r}, book.dispatched)
    BY DEF AskInv, RowsOk
  <2> QED BY <2>5, <2>6, <2>7, <2>8, ObserveAsks
<1>4. CASE ~Live
  BY <1>4, ClosesAsks DEF Approve, Unheard
<1> QED BY <1>3, <1>4

\* A reject takes its own gate off the books, whose only question it answers, and
\* with it the answer given there before.
LEMMA RejectAsks ==
  ASSUME RejectsRewindOneGate, TypeOK, AskInv, NEW r \in openGates, NEW i, Reject(r, i)
  PROVE  Asks
<1> DEFINE g == r.gate
           reset == Affected[g]
           D == book.dispatched
<1>1. r \in Rows /\ g \in Gates /\ machine \in Machines /\ D \in SUBSET Gates
  BY DEF TypeOK, Rows
<1>2. CASE phase # "live"
  BY <1>2, ClosesAsks DEF Reject, Unheard
<1>3. CASE phase = "live"
  <2>1. PICK now : now = IF actorUp THEN Answered(r) ELSE machine
    OBVIOUS
  <2>2. PICK w : w = Rewound(now, reset, {Feedback[g]})
    OBVIOUS
  <2>3. PICK m : m = Pruned(w, reset)
    OBVIOUS
  <2>4. PICK bk : bk = [Cleared(book, reset) EXCEPT !.rejected = @ \cup {g}]
    OBVIOUS
  <2>5. bk.dispatched = D \ reset
    BY <2>4 DEF TypeOK, Cleared
  <2>6. Served(now, D)
    BY <1>1, <2>1, AnsweredServed DEF AskInv
  <2>7. Served(w, D \ reset)
    <3>1. reset \in SUBSET Stages /\ ForwardClosed(reset)
      BY <1>1, AffectedType, AffectedClosed
    <3>2. \A p \in {Feedback[g]} : IsFeedback(p)
      BY <1>1, FeedbackFacts
    <3> QED BY <1>1, <2>2, <2>6, <3>1, <3>2, RewoundServed
  <2>8. Served(m, D \ reset)
    <3>1. w \in Machines
      BY <2>7 DEF Served
    <3> QED BY <2>3, <2>7, <3>1, PrunedCells, SameServed
  <2>9. /\ Rebuild(m, bk, executors, runs, Closed(r), openGates \ {r})
        /\ standing' = IF Exhausted THEN standing ELSE {a \in standing : a[1] \notin reset}
    BY <1>3, <2>1, <2>2, <2>3, <2>4 DEF Reject
  <2>10. \A h \in D : h # g => h \in D \ reset
    BY <1>1 DEF RejectsRewindOneGate
  <2>11. RowsOk(openGates \ {r}, D \ reset)
    <3>1. \A q \in openGates \ {r} : q.gate \in D /\ q.gate # g
      BY DEF AskInv, RowsOk
    <3> QED BY <2>10, <3>1 DEF AskInv, RowsOk
  <2>12. ~Exhausted => Stands(standing', D \ reset)
    BY <2>9 DEF AskInv, Stands
  <2> QED BY <1>1, <2>5, <2>8, <2>9, <2>11, <2>12, RebuildAsks
<1> QED BY <1>2, <1>3

\* Every step.
LEMMA AsksNext ==
  ASSUME RetriesComeBeforeGates, RejectsRewindOneGate, TypeOK, Own(executors), AskInv,
         [Next]_vars
  PROVE  Asks
<1>1. CASE \E e \in executors : ExecutorStep(e)
  BY <1>1, ExecutorAsks
<1>2. CASE \E r \in openGates : Answer(r)
  BY <1>2, ApproveAsks, RejectAsks DEF Answer
<1>3. CASE Finish \/ Interrupt \/ GraceExpires \/ CancelTask \/ Timeout \/ Quiet \/ UNCHANGED vars
  <2>1. UNCHANGED <<machine, book>> /\ standing' = standing /\ openGates' \subseteq openGates
    BY <1>3 DEF Finish, Interrupt, GraceExpires, CancelTask, Timeout, Quiet, Observations, vars
  <2> QED BY <2>1, ClosesAsks
<1> QED BY <1>1, <1>2, <1>3 DEF Next, Work

\* A compiled machine before START is served.
LEMMA FreshServed ==
  ASSUME NEW seeds \in [{p \in Ports : Owner[p] = External} -> Values]
  PROVE  Served(Fresh(seeds), {})
<1>1. PICK m : m = Fresh(seeds)
  OBVIOUS
<1>2. m \in Machines /\ Executing(m) = {}
  BY <1>1, FreshType, FreshSound
<1>3. \A s \in Scripts : \A p \in Outputs[s] : ~Present(m, p)
  <2> SUFFICES ASSUME NEW s \in Scripts, NEW p \in Outputs[s] PROVE ~Present(m, p)
    OBVIOUS
  <2>1. s \in Stages
    BY StagesAssumption
  <2>2. p \in Ports /\ Owner[p] # External /\ ~IsFeedback(p)
    BY <2>1, StagesAssumption, FeedbackFacts DEF Outputs, IsFeedback
  <2>3. m.cells[p] = Absent
    BY <1>1, <2>2 DEF Fresh
  <2> QED BY <2>3 DEF Present, Absent
<1>4. Served(m, {})
  BY <1>2, <1>3 DEF Served, Fed, Owing, AllOrNothing
<1> QED BY <1>1, <1>4

\* The first actor asks each gate once.
LEMMA AskInit == Init => AskInv
<1> SUFFICES ASSUME Init PROVE AskInv
  OBVIOUS
<1>1. PICK seeds \in [{p \in Ports : Owner[p] = External} -> Values] : Init!(seeds)
  BY DEF Init
<1>2. PICK m1 : m1 = Settle(Fresh(seeds))
  OBVIOUS
<1>3. PICK bk : bk = [published |-> {}, cancelled |-> {}, dispatched |-> {}, rejected |-> {}]
  OBVIOUS
<1>4. PICK m2 : m2 = StageCancelled(m1, Propagation(m1, bk))
  OBVIOUS
<1>5. PICK none : none = [s \in Stages |-> 0]
  OBVIOUS
<1>6. Served(m1, {})
  <2>1. Fresh(seeds) \in Machines /\ Served(Fresh(seeds), {})
    BY FreshType, FreshServed
  <2>2. m1 \in Machines /\ Grows(Fresh(seeds), m1) /\ m1.cells = Fresh(seeds).cells /\ Owing(m1)
    BY <1>2, <2>1, SettlePreserves, SettleGrows DEF Owing
  <2> QED BY <2>1, <2>2, StillServed
<1>7. /\ machine = m2 /\ book.dispatched = Executing(m1) \cap Gates
      /\ openGates = Opened(m1, bk, {}, none) /\ standing = {}
  BY <1>1, <1>2, <1>3, <1>4, <1>5
<1>8. m1 \in Machines
  BY <1>6 DEF Served
<1>9. Served(m2, book.dispatched)
  <2>1. m2 \in Machines /\ m2.cells = m1.cells
    BY <1>4, <1>8, StageCancelledPreserves
  <2>2. Executing(m2) \subseteq Executing(m1)
    BY <1>4, <1>8, CancelShrinks
  <2>3. Served(m2, {})
    BY <1>6, <2>1, <2>2, SameServed
  <2>4. \A g \in book.dispatched : FedAt(m2, g)
    BY <1>6, <1>7, <2>1 DEF Served, Fed, FedAt, Present
  <2> QED BY <2>3, <2>4 DEF Served
<1>10. RowsOk(openGates, book.dispatched)
  <2>1. \A r \in openGates : \E g \in Executing(m1) \cap Gates :
          r = [gate |-> g, run |-> none[g] + 1]
    BY <1>7 DEF Opened, Undispatched
  <2> QED BY <1>7, <2>1 DEF RowsOk
<1> QED BY <1>7, <1>9, <1>10 DEF AskInv, Stands

QuestionInv == TypeOK /\ Own(executors) /\ AskInv

\* Every step keeps it.
LEMMA QuestionNext ==
  ASSUME RetriesComeBeforeGates, RejectsRewindOneGate, QuestionInv, [Next]_vars
  PROVE  QuestionInv' /\ AskedStep
<1>1. TypeOK /\ Own(executors) /\ AskInv
  BY DEF QuestionInv
<1>2. TypeOK' /\ Own(executors') /\ Asks
  BY <1>1, NextType, OwnNext, AsksNext
<1>3. AskInv'
  BY <1>2 DEF Asks, AskInv, Served, Fed, FedAt, AllOrNothing, Owing, OutputsPresent, Present,
              RowsOk, Stands, Executing
<1> QED BY <1>2, <1>3 DEF QuestionInv, Asks, Own

\* One question per gate: a second open row would be a second person's answer,
\* driving a gate that the first one has already moved on.
THEOREM OneQuestion ==
  ASSUME RetriesComeBeforeGates, RejectsRewindOneGate
  PROVE  Spec => []OneOpenRowPerGate
<1>1. Init => QuestionInv
  BY InitType, OwnInit, AskInit DEF QuestionInv
<1>2. QuestionInv /\ [Next]_vars => QuestionInv'
  BY QuestionNext
<1>3. QuestionInv => OneOpenRowPerGate
  BY DEF QuestionInv, AskInv, RowsOk, OneOpenRowPerGate
<1> QED BY <1>1, <1>2, <1>3, PTL DEF Spec

\* A gate that has been approved is not asked again while its answer stands:
\* rebuilds forget the actor but not which gates were dispatched.
THEOREM NotAskedAgain ==
  ASSUME RetriesComeBeforeGates, RejectsRewindOneGate
  PROVE  Spec => AskedOnce
<1>1. Init => QuestionInv
  BY InitType, OwnInit, AskInit DEF QuestionInv
<1>2. QuestionInv /\ [Next]_vars => QuestionInv' /\ AskedStep
  BY QuestionNext
<1>3. AskedStep => [\A r \in openGates' \ openGates : \A a \in standing' : a[1] # r.gate]_vars
  BY DEF AskedStep
<1> QED BY <1>1, <1>2, <1>3, PTL DEF Spec, AskedOnce

-----------------------------------------------------------------------------
(***************************************************************************)
(* Order in a run whose gates come one after another (WorkStopsAtGates):   *)
(* a question is open only when everything before its gate is delivered    *)
(* and everything behind it is asleep (Asleep, Held), so a reject finds no *)
(* executor at work that it could leave behind (QuietUnderQuestion).       *)
(***************************************************************************)

\* How a macrostep moves the regions, A being what it may authorize: nobody goes
\* back to waiting, who starts has been released and delivered to, and an executor
\* is done when its outputs are there.
Follows(m, n, A) ==
  /\ m.authorized \subseteq n.authorized /\ n.authorized \subseteq m.authorized \cup A
  /\ Waiting(n) \subseteq Waiting(m)
  /\ \A s \in Executing(n) \ Executing(m) : AllInboundDelivered(n, s)
  /\ \A s \in Done(n) \ Done(m) : s \in Waiting(m) \cup Gates \/ OutputsPresent(n, s)

\* One after the other, if the second writes nothing.
LEMMA FollowsTransitive ==
  ASSUME NEW m, NEW n, NEW k, NEW A, NEW B,
         Follows(m, n, A), Follows(n, k, B), k.cells = n.cells
  PROVE  Follows(m, k, A \cup B)
<1>1. \A s : AllInboundDelivered(n, s) => AllInboundDelivered(k, s)
  BY DEF Follows, AllInboundDelivered, Released, WiresDeliver, Delivers, Settled
<1>2. \A s : OutputsPresent(n, s) => OutputsPresent(k, s)
  BY DEF OutputsPresent, Present
<1>3. \A s \in Executing(k) \ Executing(m) : AllInboundDelivered(k, s)
  BY <1>1 DEF Follows
<1>4. \A s \in Done(k) \ Done(m) : s \in Waiting(m) \cup Gates \/ OutputsPresent(k, s)
  BY <1>2 DEF Follows
<1> QED BY <1>3, <1>4 DEF Follows

\* What becomes of a question: final regions stay, a gate that executes goes on or
\* fails, but for those of H, and nothing is put down as skipped but K.
Turns(m, n, H, K) ==
  /\ n.skipped \subseteq m.skipped \cup K
  /\ \A s \in Final(m) : n.region[s] = m.region[s]
  /\ \A g \in (Executing(m) \cap Gates) \ H : g \in Executing(n) \cup Failed(n)

\* One after the other, if the second answers nothing.
LEMMA TurnsTransitive ==
  ASSUME NEW m, NEW n, NEW k, NEW H, NEW K, Turns(m, n, H, K), Turns(n, k, {}, {})
  PROVE  Turns(m, k, H, K)
<1>1. \A s \in Final(m) : s \in Final(n)
  BY DEF Turns, Final, Done, Failed
<1>2. \A s \in Failed(n) : s \in Failed(k)
  BY DEF Turns, Final, Failed
<1>3. \A s \in Final(m) : k.region[s] = m.region[s]
  BY <1>1 DEF Turns
<1>4. k.skipped \subseteq m.skipped \cup K
  BY DEF Turns
<1> QED BY <1>2, <1>3, <1>4 DEF Turns

\* The regions of a machine.
LEMMA RegionCases ==
  ASSUME NEW m \in Machines, NEW s \in Stages
  PROVE  /\ s \in Waiting(m) \/ s \in Executing(m) \/ s \in Done(m) \/ s \in Failed(m)
         /\ s \in Executing(m) => s \notin Waiting(m) /\ s \notin Done(m) /\ s \notin Failed(m)
         /\ s \in Waiting(m) => s \notin Done(m) /\ s \notin Failed(m) /\ s \notin Executing(m)
         /\ s \in Done(m) => s \notin Failed(m)
BY MachineFields DEF Regions, Waiting, Executing, Done, Failed

\* The eventless transitions.
LEMMA SettleFollows ==
  ASSUME NEW m \in Machines
  PROVE  Follows(m, Settle(m), {}) /\ Turns(m, Settle(m), {}, {})
<1> DEFINE n == Settle(m)
           enters(s) == /\ s \in Waiting(m) \ m.skipped
                        /\ AllInboundDelivered(m, s)
           dead(s)   == /\ s \in Waiting(m) \ m.skipped
                        /\ NoDeliverableWire(m, s)
           done(s)   == \/ s \in Waiting(m) \cap m.skipped
                        \/ (s \in Executing(m) \/ enters(s)) /\ AllOutboundPresent(m, s)
           R == [s \in Stages |-> CASE done(s) -> "done"
                                    [] enters(s) /\ ~done(s) -> "executing"
                                    [] dead(s) -> "error"
                                    [] OTHER -> m.region[s]]
           Q == [s \in Stages |-> IF dead(s) THEN "no_active_wire" ELSE m.reason[s]]
<1>1. n = [m EXCEPT !.region = R, !.reason = Q]
  BY DEF Settle
<1>2. \A s \in Stages : dead(s) => ~done(s) /\ ~enters(s)
  BY DEF NoDeliverableWire, WiresDead, AllInboundDelivered, WiresDeliver, Waiting, Executing
<1>3. \A s \in Stages : enters(s) => AllInboundDelivered(m, s)
  OBVIOUS
<1>4. \A s \in Stages : done(s) => s \in Waiting(m) \/ OutputsPresent(m, s)
  BY DEF AllOutboundPresent, OutputsPresent, Present
<1>t. ASSUME NEW s \in Stages
      PROVE  /\ done(s) => s \in Waiting(m) \/ (s \in Executing(m) /\ s \notin Gates)
             /\ enters(s) \/ dead(s) => s \in Waiting(m)
  BY DEF AllOutboundPresent
<1> HIDE DEF enters, dead, done, n
<1>5. /\ n.region = R /\ n.cells = m.cells /\ n.authorized = m.authorized
      /\ n.skipped = m.skipped
  <2> HIDE DEF R, Q
  <2> QED BY <1>1 DEF Machines
<1>6. ASSUME NEW s \in Stages
      PROVE  /\ done(s) => R[s] = "done"
             /\ enters(s) /\ ~done(s) => R[s] = "executing"
             /\ dead(s) => R[s] = "error"
             /\ ~done(s) /\ ~enters(s) /\ ~dead(s) => R[s] = m.region[s]
  BY <1>2
<1> HIDE DEF R, Q
<1>7. Waiting(n) \subseteq Waiting(m)
  BY <1>5, <1>6 DEF Waiting
<1>8. \A s \in Executing(n) \ Executing(m) : AllInboundDelivered(n, s)
  <2>1. \A s \in Executing(n) \ Executing(m) : enters(s)
    BY <1>5, <1>6 DEF Executing
  <2>2. \A s : AllInboundDelivered(m, s) => AllInboundDelivered(n, s)
    BY <1>5 DEF AllInboundDelivered, Released, WiresDeliver, Delivers, Settled
  <2> QED BY <1>3, <2>1, <2>2 DEF Executing
<1>9. \A s \in Done(n) \ Done(m) : s \in Waiting(m) \cup Gates \/ OutputsPresent(n, s)
  <2>1. \A s \in Done(n) \ Done(m) : done(s)
    BY <1>5, <1>6 DEF Done
  <2> QED BY <1>4, <1>5, <2>1 DEF Done, OutputsPresent, Present
<1>10. Follows(m, n, {})
  BY <1>5, <1>7, <1>8, <1>9 DEF Follows
<1>11. \A s \in Final(m) : n.region[s] = m.region[s]
  <2> SUFFICES ASSUME NEW s \in Final(m) PROVE n.region[s] = m.region[s]
    OBVIOUS
  <2>1. s \in Stages /\ s \notin Waiting(m) /\ s \notin Executing(m)
    BY RegionCases DEF Final, Done, Failed
  <2>2. ~done(s) /\ ~enters(s) /\ ~dead(s)
    BY <1>t, <2>1
  <2> QED BY <1>5, <1>6, <2>1, <2>2
<1>12. \A g \in Executing(m) \cap Gates : g \in Executing(n)
  <2> SUFFICES ASSUME NEW g \in Executing(m) \cap Gates PROVE g \in Executing(n)
    OBVIOUS
  <2>1. g \in Stages /\ m.region[g] = "executing" /\ g \notin Waiting(m)
    BY DEF Waiting, Executing
  <2>2. ~done(g) /\ ~enters(g) /\ ~dead(g)
    BY <1>t, <2>1
  <2> QED BY <1>5, <1>6, <2>1, <2>2 DEF Executing
<1>13. Turns(m, n, {}, {})
  <2>1. n.skipped \subseteq m.skipped \cup {}
    BY <1>5
  <2> QED BY <1>11, <1>12, <2>1 DEF Turns
<1> QED BY <1>10, <1>13 DEF n

\* A failure.
LEMMA FailFollows ==
  ASSUME NEW m \in Machines, NEW S, NEW why
  PROVE  Follows(m, Fail(m, S, why), {}) /\ Turns(m, Fail(m, S, why), {}, {})
<1> DEFINE n == Fail(m, S, why)
           hit == S \ Final(m)
           R == [s \in Stages |-> IF s \in hit THEN "error" ELSE m.region[s]]
           Q == [s \in Stages |-> IF s \in hit THEN why ELSE m.reason[s]]
<1>1. n = [m EXCEPT !.region = R, !.reason = Q]
  BY DEF Fail
<1>2. \A s \in Stages : R[s] \in {m.region[s], "error"} /\ (s \in Final(m) => R[s] = m.region[s])
  BY DEF R
<1> HIDE DEF R, Q, n
<1>3. n.region = R /\ n.authorized = m.authorized /\ n.skipped = m.skipped
  BY <1>1 DEF Machines
<1>4. /\ Waiting(n) \subseteq Waiting(m) /\ Executing(n) \subseteq Executing(m)
      /\ Done(n) \subseteq Done(m)
  BY <1>2, <1>3 DEF Waiting, Executing, Done
<1>5. Follows(m, n, {})
  BY <1>3, <1>4 DEF Follows
<1>6. Turns(m, n, {}, {})
  BY <1>2, <1>3 DEF Turns, Final, Done, Failed, Executing
<1> QED BY <1>5, <1>6 DEF n

\* STAGE_FAILED without a retry.
LEMMA StageFailedFollows ==
  ASSUME NEW m \in Machines, NEW s \in Stages
  PROVE  Follows(m, StageFailed(m, s), {}) /\ Turns(m, StageFailed(m, s), {}, {})
<1> DEFINE f == Fail(m, {s}, "executor_failed")
<1>1. "executor_failed" \in Reasons
  BY DEF Reasons, RootCauses
<1>2. f \in Machines /\ Follows(m, f, {}) /\ Turns(m, f, {}, {})
  BY <1>1, FailPreserves, FailFollows
<1>3. StageFailed(m, s) = Settle(f)
  BY DEF StageFailed
<1> HIDE DEF f
<1>4. Settle(f).cells = f.cells /\ Follows(f, Settle(f), {}) /\ Turns(f, Settle(f), {}, {})
  BY <1>2, SettlePreserves, SettleFollows
<1>5. Follows(m, Settle(f), {} \cup {})
  BY <1>2, <1>4, FollowsTransitive
<1>6. {} \cup {} = {}
  OBVIOUS
<1>7. Turns(m, Settle(f), {}, {})
  BY <1>2, <1>4, TurnsTransitive
<1> QED BY <1>3, <1>5, <1>6, <1>7

\* PORT_WRITTEN: the regions move by the values written.
LEMMA PortWrittenFollows ==
  ASSUME NEW m \in Machines, NEW P, NEW c \in Cells
  PROVE  Follows(m, PortWritten(m, P, c), {}) /\ Turns(m, PortWritten(m, P, c), {}, {})
<1> DEFINE C == [p \in Ports |-> IF p \in P THEN c ELSE m.cells[p]]
           w == Machine(m.region, m.reason, C, m.authorized, m.skipped, m.retries)
<1>1. C \in [Ports -> Cells]
  BY MachineFields
<1>2. PortWritten(m, P, c) = Settle(w)
  <2>1. PortWritten(m, P, c) = Settle([m EXCEPT !.cells = C])
    BY DEF PortWritten
  <2> HIDE DEF C
  <2>2. [m EXCEPT !.cells = C] = w
    BY DEF Machine, Machines
  <2> QED BY <2>1, <2>2
<1> HIDE DEF C
<1>3. w \in Machines
  BY <1>1, MachineFields, MachineBuilt
<1>4. w.region = m.region /\ w.authorized = m.authorized /\ w.skipped = m.skipped
  BY MachineParts
<1> HIDE DEF w
<1>5. Follows(m, w, {}) /\ Turns(m, w, {}, {})
  BY <1>4 DEF Follows, Turns, Waiting, Executing, Done
<1>6. Settle(w).cells = w.cells /\ Follows(w, Settle(w), {}) /\ Turns(w, Settle(w), {}, {})
  BY <1>3, SettlePreserves, SettleFollows
<1>7. Follows(m, Settle(w), {} \cup {})
  BY <1>5, <1>6, FollowsTransitive
<1>8. {} \cup {} = {}
  OBVIOUS
<1>9. Turns(m, Settle(w), {}, {})
  BY <1>5, <1>6, TurnsTransitive
<1> QED BY <1>2, <1>7, <1>8, <1>9

\* GATE_ANSWERED authorizes the targets only, puts down as skipped what the gate
\* leads to besides, and the gate is done.
LEMMA GateAnsweredFollows ==
  ASSUME NEW m \in Machines, NEW g \in Gates, NEW targets \in SUBSET Stages
  PROVE  /\ Follows(m, GateAnswered(m, g, targets), targets)
         /\ Turns(m, GateAnswered(m, g, targets), {g}, Unpicked(g, targets))
         /\ g \in Executing(m) => /\ g \in Final(GateAnswered(m, g, targets))
                                  /\ targets \subseteq GateAnswered(m, g, targets).authorized
<1> DEFINE mine   == m.region[g] = "executing"
           skip   == Unpicked(g, targets) \cap Waiting(m)
           picked == targets \cap Waiting(m)
           start  == {s \in picked : WiresDeliver(m, s)}
           dead   == {s \in picked : WiresDead(m, s)}
           R == [s \in Stages |-> CASE s = g /\ mine -> "done"
                                    [] s \in skip -> "done"
                                    [] s \in start -> "executing"
                                    [] s \in dead -> "error"
                                    [] OTHER -> m.region[s]]
           Q == [s \in Stages |-> IF s \in dead THEN "no_active_wire" ELSE m.reason[s]]
           A == m.authorized \cup start \cup dead \cup (IF mine THEN targets ELSE {})
           K == m.skipped \cup skip \cup (IF mine THEN Unpicked(g, targets) ELSE {})
           w == Machine(R, Q, m.cells, A, K, m.retries)
<1>1. Unpicked(g, targets) \subseteq Stages /\ skip \subseteq Stages
  BY SiblingsType DEF Unpicked
<1>2. /\ skip \cap start = {} /\ skip \cap dead = {} /\ start \cap dead = {}
  BY DEF Unpicked, WiresDeliver, WiresDead
<1>3. \A s \in skip \cup start \cup dead : s \in Stages /\ m.region[s] = "waiting"
  BY <1>1 DEF Waiting
<1>4. mine => g \notin skip \cup start \cup dead
  BY <1>3
<1>5. \A s \in start : WiresDeliver(m, s)
  OBVIOUS
<1>6. /\ start \in SUBSET Stages /\ dead \in SUBSET Stages
      /\ start \subseteq targets /\ dead \subseteq targets
  BY <1>3
<1>7. /\ A \in SUBSET Stages /\ K \in SUBSET Stages
      /\ m.authorized \subseteq A /\ A \subseteq m.authorized \cup targets /\ start \subseteq A
  <2> HIDE DEF mine, skip, start, dead
  <2> QED BY <1>1, <1>6, MachineFields
<1>8. GateAnswered(m, g, targets) = Settle(w)
  <2> DEFINE x == [m EXCEPT !.region = R, !.reason = Q, !.authorized = A, !.skipped = K]
  <2>1. GateAnswered(m, g, targets) = Settle(x)
    BY DEF GateAnswered
  <2> HIDE DEF R, Q, A, K
  <2>2. PICK y : y = x
    OBVIOUS
  <2>3. y = w
    BY <2>2 DEF Machine, Machines
  <2> HIDE DEF w, x
  <2> QED BY <2>1, <2>2, <2>3
<1>k. /\ K \subseteq m.skipped \cup Unpicked(g, targets)
      /\ mine => targets \subseteq A
      /\ mine => m.region[g] = "executing"
  OBVIOUS
<1> HIDE DEF skip, start, dead, A, K
<1>9. ASSUME NEW s \in Stages
      PROVE  /\ s = g /\ mine => R[s] = "done"
             /\ s \in skip => R[s] = "done"
             /\ s \in start => R[s] = "executing"
             /\ s \in dead => R[s] = "error"
             /\ ~(s = g /\ mine) /\ s \notin skip \cup start \cup dead => R[s] = m.region[s]
  BY <1>2, <1>4
<1>10. g \in Executing(m) => mine /\ g \in Stages
  BY DEF Executing
<1> HIDE DEF mine
<1>11. R \in [Stages -> Regions] /\ Q \in [Stages -> Reasons]
  <2>1. ASSUME NEW s \in Stages PROVE R[s] \in Regions
    <3>1. m.region[s] \in Regions
      BY MachineFields
    <3> HIDE DEF R
    <3> QED BY <1>9, <3>1 DEF Regions
  <2>2. R = [s \in Stages |-> R[s]]
    OBVIOUS
  <2>3. Q \in [Stages -> Reasons]
    BY MachineFields DEF Reasons, RootCauses
  <2> HIDE DEF R, Q
  <2> QED BY <2>1, <2>2, <2>3
<1> HIDE DEF R, Q
<1>12. w \in Machines
  BY <1>7, <1>11, MachineFields, MachineBuilt
<1>13. /\ w.region = R /\ w.cells = m.cells /\ w.authorized = A /\ w.skipped = K
  BY MachineParts
<1> HIDE DEF w
<1>14. Waiting(w) \subseteq Waiting(m)
  BY <1>3, <1>9, <1>13 DEF Waiting
<1>15. \A s \in Executing(w) \ Executing(m) : AllInboundDelivered(w, s)
  <2>1. \A s \in Executing(w) \ Executing(m) : s \in start
    BY <1>9, <1>13 DEF Executing
  <2>2. \A s : WiresDeliver(m, s) => WiresDeliver(w, s)
    BY <1>13 DEF WiresDeliver, Delivers, Settled
  <2> QED BY <1>5, <1>7, <1>13, <2>1, <2>2 DEF AllInboundDelivered, Released
<1>16. \A s \in Done(w) \ Done(m) : s \in Waiting(m) \cup Gates
  <2>1. \A s \in Done(w) \ Done(m) : s = g \/ s \in skip
    BY <1>9, <1>13 DEF Done
  <2> QED BY <1>3, <2>1 DEF Waiting
<1>17. Follows(m, w, targets)
  BY <1>7, <1>13, <1>14, <1>15, <1>16 DEF Follows
<1>18. /\ Settle(w).cells = w.cells /\ Follows(w, Settle(w), {})
       /\ Turns(w, Settle(w), {}, {}) /\ Settle(w).authorized = w.authorized
  BY <1>12, SettlePreserves, SettleFollows
<1>19. Follows(m, Settle(w), targets \cup {})
  BY <1>17, <1>18, FollowsTransitive
<1>20. targets \cup {} = targets
  OBVIOUS
<1>21. g \in Executing(m) => g \in Final(w)
  BY <1>9, <1>13, <1>10 DEF Final, Done
<1>22. g \in Final(w) => g \in Final(Settle(w))
  BY <1>12, SettleGrows DEF Grows, Final, Done, Failed
<1>23. Turns(m, w, {g}, Unpicked(g, targets))
  <2>1. \A s \in Final(m) : w.region[s] = m.region[s]
    <3> SUFFICES ASSUME NEW s \in Final(m) PROVE w.region[s] = m.region[s]
      OBVIOUS
    <3>1. s \in Stages /\ m.region[s] \in {"done", "error"}
      BY DEF Final, Done, Failed
    <3>2. ~(s = g /\ mine) /\ s \notin skip \cup start \cup dead
      BY <1>3, <1>k, <3>1
    <3> QED BY <1>9, <1>13, <3>1, <3>2
  <2>2. \A s \in Executing(m) \ {g} : w.region[s] = "executing"
    BY <1>3, <1>9, <1>13 DEF Executing
  <2>3. \A h \in (Executing(m) \cap Gates) \ {g} : h \in Executing(w)
    BY <2>2 DEF Executing
  <2>4. w.skipped \subseteq m.skipped \cup Unpicked(g, targets)
    BY <1>k, <1>13
  <2> QED BY <2>1, <2>3, <2>4 DEF Turns
<1>24. Turns(m, Settle(w), {g}, Unpicked(g, targets))
  BY <1>18, <1>23, TurnsTransitive
<1>25. g \in Executing(m) => targets \subseteq Settle(w).authorized
  BY <1>k, <1>10, <1>13, <1>18
<1> QED BY <1>8, <1>19, <1>20, <1>21, <1>22, <1>24, <1>25

\* A nonempty set of numbers has a least one.
LEMMA LeastOf ==
  ASSUME NEW T \in SUBSET Nat, T # {}
  PROVE  \E x \in T : \A y \in T : x <= y
<1> DEFINE R == OpToRel(<, Nat)
<1>1. IsWellFoundedOn(R, Nat)
  BY NatLessThanWellFounded
<1>2. R = {ss \in Nat \X Nat : ss[1] < ss[2]}
  BY DEF OpToRel
<1>3. \A x, y \in Nat : x < y => <<x, y>> \in R
  BY <1>2
<1> HIDE DEF R
<1>4. PICK x \in T : \A y \in T : ~(<<y, x>> \in R)
  BY <1>1, WFMin
<1>5. \A y \in T : ~(y < x)
  BY <1>3, <1>4
<1> QED BY <1>5

\* Who waits and is left out by an answer that may be taken for the one given.
ReplaySkips(m) ==
  {s \in Waiting(Settle(m)) :
     \E g \in Gates \cap Done(m) : \E i \in Recovered(m, g) : s \in Siblings[g] \ Routes[g][i]}

\* The replay of the answers after a rebuild authorizes nobody.
LEMMA ReplayedFollows ==
  ASSUME NEW m \in Machines, NEW bk
  PROVE  /\ Follows(m, Replayed(m, bk), {})
         /\ Turns(Settle(m), Replayed(m, bk), {}, ReplaySkips(m))
<1> DEFINE gs == {g \in Gates \cap Done(m) : g \notin bk.rejected /\ Recovered(m, g) # {}}
           route(g) == CHOOSE i \in Recovered(m, g) : \A j \in Recovered(m, g) : i <= j
           skip == Waiting(Settle(m)) \cap UNION {Siblings[g] \ Routes[g][route(g)] : g \in gs}
           z == Settle(m)
           R == [s \in Stages |-> IF s \in skip THEN "done" ELSE z.region[s]]
           K == z.skipped \cup skip
           w == Machine(R, z.reason, z.cells, z.authorized, K, z.retries)
<1>1. skip \in SUBSET Stages /\ \A s \in skip : z.region[s] = "waiting"
  BY DEF Waiting
<1>2. z \in Machines /\ z.cells = m.cells /\ Follows(m, z, {})
  BY SettlePreserves, SettleFollows
<1>3. Replayed(m, bk) = Settle(w)
  <2> DEFINE x == [Settle(m) EXCEPT
                     !.region = [s \in Stages |-> IF s \in skip THEN "done" ELSE @[s]],
                     !.skipped = @ \cup skip]
  <2>1. Replayed(m, bk) = Settle(x)
    BY DEF Replayed
  <2>2. PICK y : y = [z EXCEPT !.region = R, !.skipped = K]
    OBVIOUS
  <2>3. x = y
    <3>1. PICK zz : zz = Settle(m)
      OBVIOUS
    <3> HIDE DEF skip
    <3> QED BY <2>2, <3>1
  <2> HIDE DEF R, K, x, z
  <2>4. y = w
    BY <1>2, <2>2 DEF Machine, Machines
  <2> HIDE DEF w
  <2> QED BY <2>1, <2>3, <2>4
<1>k. skip \subseteq ReplaySkips(m)
  <2> SUFFICES ASSUME NEW s \in skip PROVE s \in ReplaySkips(m)
    OBVIOUS
  <2>1. PICK g \in gs : s \in Siblings[g] \ Routes[g][route(g)]
    OBVIOUS
  <2>2. Recovered(m, g) \in SUBSET Nat
    BY RoutesAssumption DEF Recovered
  <2>3. route(g) \in Recovered(m, g)
    BY <2>2, LeastOf
  <2> QED BY <2>1, <2>3 DEF ReplaySkips
<1> HIDE DEF skip, z
<1>4. /\ R \in [Stages -> Regions]
      /\ \A s \in Stages \cap skip : R[s] = "done"
      /\ \A s \in Stages \ skip : R[s] = z.region[s]
  BY <1>2, MachineFields DEF Regions
<1>5. K \in SUBSET Stages
  BY <1>1, <1>2, MachineFields
<1> HIDE DEF R
<1>6. w \in Machines
  <2> HIDE DEF K
  <2> QED BY <1>2, <1>4, <1>5, MachineFields, MachineBuilt
<1>7. w.region = R /\ w.cells = z.cells /\ w.authorized = z.authorized /\ w.skipped = K
  BY MachineParts
<1> HIDE DEF w
<1>8. /\ Waiting(w) \subseteq Waiting(z) /\ Executing(w) \subseteq Executing(z)
      /\ \A s \in Done(w) \ Done(z) : s \in Waiting(z)
  BY <1>1, <1>4, <1>7 DEF Waiting, Executing, Done
<1>9. Follows(z, w, {})
  BY <1>7, <1>8 DEF Follows
<1>10. Settle(w).cells = w.cells /\ Follows(w, Settle(w), {}) /\ Turns(w, Settle(w), {}, {})
  BY <1>6, SettlePreserves, SettleFollows
<1>11. Follows(m, w, {} \cup {})
  BY <1>2, <1>7, <1>9, FollowsTransitive
<1>12. {} \cup {} = {}
  OBVIOUS
<1>13. Follows(m, Settle(w), {} \cup {})
  BY <1>10, <1>11, <1>12, FollowsTransitive
<1>14. Turns(z, w, {}, ReplaySkips(m))
  <2>1. \A s \in Stages \cap skip : z.region[s] = "waiting"
    BY <1>1
  <2>2. \A s \in Final(z) \cup Executing(z) : w.region[s] = z.region[s]
    BY <1>4, <1>7, <2>1 DEF Final, Done, Failed, Executing
  <2> QED BY <1>k, <1>7, <2>2 DEF Turns, Executing
<1>15. Turns(Settle(m), Settle(w), {}, ReplaySkips(m))
  BY <1>10, <1>14, TurnsTransitive DEF z
<1> QED BY <1>3, <1>12, <1>13, <1>15

-----------------------------------------------------------------------------
\* Executors with writes to make.
Working(ex) == {e \in ex : e.pending # {}}

\* A stage that waits has no output, and no output comes before its inputs.
Silent(m) == \A s \in Waiting(m) : \A p \in Outputs[s] : ~Present(m, p)
Grounded(m) ==
  \A s \in Stages : \A p \in Outputs[s] : Present(m, p) =>
    \A w \in Inbound[s] : ~IsFeedback(w.port) => Present(m, w.port)

\* Whoever works does so for the latest run of a stage that has begun, has its
\* inputs and has not failed to wait for what is still to be written.
AtWork(m, ex, rn) ==
  \A e \in Working(ex) :
    /\ e.stage \in Executing(m) \cup Failed(m)
    /\ e.run = rn[e.stage]
    /\ FedAt(m, e.stage)
    /\ e.pending \subseteq Outputs[e.stage]
    /\ \A p \in e.pending : ~Present(m, p)

OneEach(ex) == \A d, e \in Working(ex) : d.stage = e.stage => d = e

\* What is there comes from the latest run.
Newest(m, rn) == \A s \in Stages : \A p \in Outputs[s] : Present(m, p) => m.cells[p].run = rn[s]

Tidy(m, ex, rn) ==
  /\ m \in Machines
  /\ Full(m) /\ Fed(m) /\ Owing(m) /\ Silent(m) /\ Grounded(m)
  /\ AtWork(m, ex, rn) /\ OneEach(ex) /\ Newest(m, rn)

\* The ports of P were written, each by a working executor or by an answer.
Written(m, n, ex, P) ==
  /\ \A p \in Ports \ P : n.cells[p] = m.cells[p]
  /\ \A p \in P : IsFeedback(p) \/ \E e \in Working(ex) : p \in e.pending /\ n.cells[p].run = e.run

\* Executors go on with what is left of their work.
GoesOn(x, ex, P) ==
  /\ \A d \in Working(x) : \E e \in Working(ex) :
       d.stage = e.stage /\ d.run = e.run /\ d.pending \subseteq e.pending \ P
  /\ OneEach(x)

\* The outputs of a stage.
LEMMA OutputFacts ==
  ASSUME NEW s \in Stages, NEW p \in Outputs[s]
  PROVE  p \in Ports /\ Owner[p] = s /\ s \notin Gates /\ ~IsFeedback(p)
BY FeedbackFacts DEF Outputs, IsFeedback

\* An output that is new was written by the executor at work on its stage.
LEMMA OutputWritten ==
  ASSUME NEW m, NEW ex, NEW rn, Tidy(m, ex, rn), NEW n, NEW P, Written(m, n, ex, P),
         NEW s \in Stages, NEW p \in Outputs[s]
  PROVE  \/ n.cells[p] = m.cells[p]
         \/ ~Present(m, p) /\ \E e \in Working(ex) : e.stage = s /\ n.cells[p].run = e.run
<1>1. p \in Ports /\ Owner[p] = s /\ ~IsFeedback(p)
  BY OutputFacts
<1>2. CASE p \notin P
  BY <1>1, <1>2 DEF Written
<1>3. CASE p \in P
  <2>1. PICK e \in Working(ex) : p \in e.pending /\ n.cells[p].run = e.run
    BY <1>1, <1>3 DEF Written
  <2>2. e.stage \in Stages /\ e.pending \subseteq Outputs[e.stage] /\ ~Present(m, p)
    BY <2>1 DEF Tidy, AtWork, Executing, Failed
  <2>3. e.stage = s
    BY <1>1, <2>1, <2>2, OutputFacts
  <2> QED BY <2>1, <2>2, <2>3
<1> QED BY <1>2, <1>3

\* Who starts was waiting, and has written nothing.
LEMMA StartsSilent ==
  ASSUME NEW m, NEW ex, NEW rn, Tidy(m, ex, rn), NEW n \in Machines, Grows(m, n),
         NEW P, Written(m, n, ex, P)
  PROVE  /\ \A s \in Executing(n) \ Executing(m) : s \in Waiting(m)
         /\ \A s \in Waiting(m) : \A p \in Outputs[s] : ~Present(n, p)
         /\ \A e \in Working(ex) : e.stage \notin Waiting(m)
<1>1. \A e \in Working(ex) : e.stage \notin Waiting(m)
  <2> SUFFICES ASSUME NEW e \in Working(ex) PROVE e.stage \notin Waiting(m)
    OBVIOUS
  <2>1. e.stage \in Executing(m) \cup Failed(m)
    BY DEF Tidy, AtWork
  <2> QED BY <2>1 DEF Waiting, Executing, Failed
<1>2. \A s \in Executing(n) \ Executing(m) : s \in Waiting(m)
  <2> SUFFICES ASSUME NEW s \in Executing(n) \ Executing(m) PROVE s \in Waiting(m)
    OBVIOUS
  <2>1. s \in Stages /\ s \notin Final(m)
    BY DEF Grows, Executing, Final, Done, Failed
  <2> QED BY <2>1, RegionCases DEF Tidy, Final
<1>3. \A s \in Waiting(m) : \A p \in Outputs[s] : ~Present(n, p)
  <2> SUFFICES ASSUME NEW s \in Waiting(m), NEW p \in Outputs[s], Present(n, p) PROVE FALSE
    OBVIOUS
  <2>1. s \in Stages /\ ~Present(m, p)
    BY DEF Waiting, Tidy, Silent
  <2>2. PICK e \in Working(ex) : e.stage = s
    BY <2>1, OutputWritten DEF Present
  <2> QED BY <1>1, <2>2
<1> QED BY <1>1, <1>2, <1>3

\* The machine of an event: everything but the executors.
LEMMA EventMachine ==
  ASSUME NEW m, NEW ex, NEW rn, Tidy(m, ex, rn), NEW n \in Machines, NEW A,
         Grows(m, n), Follows(m, n, A), Owing(n), NEW P, Written(m, n, ex, P)
  PROVE  Full(n) /\ Fed(n) /\ Silent(n) /\ Grounded(n)
<1>1. Full(n)
  <2> SUFFICES ASSUME NEW s \in Done(n) PROVE s \in n.skipped \/ OutputsPresent(n, s)
    BY DEF Full
  <2>1. CASE s \in Done(m)
    <3>1. s \in m.skipped \/ OutputsPresent(m, s)
      BY <2>1 DEF Tidy, Full
    <3>2. OutputsPresent(m, s) => OutputsPresent(n, s)
      BY DEF Grows, OutputsPresent, Outputs, Done
    <3> QED BY <3>1, <3>2 DEF Grows
  <2> QED BY <2>1 DEF Grows
<1>2. Fed(n)
  BY GrowsFed DEF Tidy
<1>3. Silent(n)
  BY StartsSilent DEF Silent, Follows
<1>4. Grounded(n)
  <2> SUFFICES ASSUME NEW s \in Stages, NEW p \in Outputs[s], Present(n, p),
                      NEW w \in Inbound[s], ~IsFeedback(w.port)
               PROVE  Present(n, w.port)
    BY DEF Grounded
  <2>1. w.port \in Ports
    BY WiresAssumption DEF Inbound
  <2>2. CASE Present(m, p)
    BY <2>1, <2>2 DEF Tidy, Grounded, Grows
  <2>3. CASE ~Present(m, p)
    <3>1. PICK e \in Working(ex) : e.stage = s
      BY <2>3, OutputWritten DEF Present
    <3>2. FedAt(m, s)
      BY <3>1 DEF Tidy, AtWork
    <3> QED BY <2>1, <3>2 DEF FedAt, Grows
  <2> QED BY <2>2, <2>3
<1> QED BY <1>1, <1>2, <1>3, <1>4

\* Executors that go on, in the machine of the event.
LEMMA GoesOnWork ==
  ASSUME NEW m, NEW ex, NEW rn, Tidy(m, ex, rn), NEW n \in Machines, NEW A,
         Grows(m, n), Follows(m, n, A), NEW P, Written(m, n, ex, P), NEW x, GoesOn(x, ex, P)
  PROVE  AtWork(n, x, rn) /\ \A d \in Working(x) : d.stage \notin Waiting(m) /\ d.stage \notin Gates
<1> SUFFICES ASSUME NEW d \in Working(x)
             PROVE  /\ d.stage \in Executing(n) \cup Failed(n)
                    /\ d.run = rn[d.stage]
                    /\ FedAt(n, d.stage)
                    /\ d.pending \subseteq Outputs[d.stage]
                    /\ \A p \in d.pending : ~Present(n, p)
                    /\ d.stage \notin Waiting(m) /\ d.stage \notin Gates
  BY DEF AtWork
<1>1. PICK e \in Working(ex) :
        d.stage = e.stage /\ d.run = e.run /\ d.pending \subseteq e.pending \ P
  BY DEF GoesOn
<1>2. PICK s : s = d.stage
  OBVIOUS
<1>3. /\ s \in Executing(m) \cup Failed(m) /\ d.run = rn[s] /\ FedAt(m, s)
      /\ e.pending \subseteq Outputs[s] /\ \A p \in e.pending : ~Present(m, p)
  BY <1>1, <1>2 DEF Tidy, AtWork
<1>4. s \in Stages /\ m \in Machines
  BY <1>3 DEF Executing, Failed, Tidy
<1>5. \A p \in d.pending : ~Present(n, p)
  <2> SUFFICES ASSUME NEW p \in d.pending PROVE ~Present(n, p)
    OBVIOUS
  <2>1. p \in Ports \ P /\ ~Present(m, p)
    BY <1>1, <1>3, <1>4, OutputFacts
  <2> QED BY <2>1 DEF Written, Present
<1>6. s \notin Gates /\ ~OutputsPresent(n, s)
  <2>1. PICK p \in d.pending : TRUE
    BY DEF Working
  <2>2. p \in Outputs[s]
    BY <1>1, <1>3
  <2> QED BY <1>4, <1>5, <2>2, OutputFacts DEF OutputsPresent
<1>7. FedAt(n, s)
  <2>1. \A w \in Inbound[s] : w.port \in Ports
    BY <1>4, WiresAssumption DEF Inbound
  <2> QED BY <1>3, <2>1 DEF Grows, FedAt
<1>8. s \in Executing(n) \cup Failed(n)
  <2>1. CASE s \in Failed(m)
    BY <1>4, <2>1 DEF Grows, Final, Failed
  <2>2. CASE s \in Executing(m)
    <3>1. s \notin Waiting(m) /\ s \notin Done(m)
      BY <1>4, <2>2, RegionCases
    <3>2. s \notin Done(n)
      BY <1>6, <3>1 DEF Follows
    <3>3. s \notin Waiting(n)
      BY <3>1 DEF Follows
    <3> QED BY <1>4, <3>2, <3>3, RegionCases
  <2> QED BY <1>3, <2>1, <2>2
<1>9. s \notin Waiting(m)
  BY <1>3 DEF Waiting, Executing, Failed
<1> QED BY <1>1, <1>2, <1>3, <1>5, <1>6, <1>7, <1>8, <1>9

\* An event and the executors it starts leave everything tidy.
LEMMA EventTidy ==
  ASSUME NEW m, NEW ex, NEW rn \in [Stages -> Nat], Tidy(m, ex, rn), NEW n \in Machines, NEW A,
         Grows(m, n), Follows(m, n, A), Owing(n), NEW P, Written(m, n, ex, P),
         NEW x, GoesOn(x, ex, P), NEW k, NEW G \in SUBSET Gates
  PROVE  Tidy(n, x \cup Started(Invoked(m, n), rn, k), Bumped(rn, Invoked(m, n) \cup G))
<1> DEFINE S == Invoked(m, n)
           y == x \cup Started(S, rn, k)
           rn1 == Bumped(rn, S \cup G)
<1>1. /\ S \subseteq Executing(n) \ Gates /\ S \subseteq Waiting(m) /\ S \subseteq Stages
  BY StartsSilent DEF Invoked, Waiting
<1>2. \A s \in S : FedAt(n, s) /\ \A p \in Outputs[s] : ~Present(n, p)
  BY <1>1, StartsSilent DEF Invoked, Grows
<1>3. /\ \A s \in Stages \ (S \cup G) : rn1[s] = rn[s]
      /\ \A s \in S : rn1[s] = rn[s] + 1
  BY <1>1 DEF Bumped
<1>4. AtWork(n, x, rn) /\ \A d \in Working(x) : d.stage \notin Waiting(m) /\ d.stage \notin Gates
  BY GoesOnWork
<1>5. \A d \in Started(S, rn, k) :
        /\ d.stage \in S /\ d.run = rn[d.stage] + 1 /\ d.pending = Outputs[d.stage]
        /\ d = [stage |-> d.stage, run |-> rn[d.stage] + 1, born |-> k,
                pending |-> Outputs[d.stage]]
  BY DEF Started
<1> HIDE DEF S, rn1
<1>6. \A d \in Working(y) : d \in Working(x) \/ d \in Started(S, rn, k)
  BY DEF Working
<1>7. AtWork(n, y, rn1)
  <2> SUFFICES ASSUME NEW d \in Working(y)
               PROVE  /\ d.stage \in Executing(n) \cup Failed(n)
                      /\ d.run = rn1[d.stage]
                      /\ FedAt(n, d.stage)
                      /\ d.pending \subseteq Outputs[d.stage]
                      /\ \A p \in d.pending : ~Present(n, p)
    BY DEF AtWork
  <2>1. CASE d \in Working(x)
    <3>1. d.stage \in Stages /\ d.stage \notin S \cup G
      BY <1>1, <1>4, <2>1 DEF AtWork, Executing, Failed
    <3> QED BY <1>3, <1>4, <2>1, <3>1 DEF AtWork
  <2>2. CASE d \in Started(S, rn, k)
    BY <1>1, <1>2, <1>3, <1>5, <2>2
  <2> QED BY <1>6, <2>1, <2>2
<1>8. OneEach(y)
  <2> SUFFICES ASSUME NEW d \in Working(y), NEW e \in Working(y), d.stage = e.stage
               PROVE  d = e
    BY DEF OneEach
  <2>1. CASE d \in Working(x) /\ e \in Working(x)
    BY <2>1 DEF GoesOn, OneEach
  <2>2. CASE d \in Started(S, rn, k) /\ e \in Started(S, rn, k)
    BY <1>5, <2>2
  <2>3. ~(d \in Working(x) /\ e \in Started(S, rn, k))
    BY <1>1, <1>4, <1>5
  <2>4. ~(e \in Working(x) /\ d \in Started(S, rn, k))
    BY <1>1, <1>4, <1>5
  <2> QED BY <1>6, <2>1, <2>2, <2>3, <2>4
<1>9. Newest(n, rn1)
  <2> SUFFICES ASSUME NEW s \in Stages, NEW p \in Outputs[s], Present(n, p)
               PROVE  n.cells[p].run = rn1[s]
    BY DEF Newest
  <2>1. s \notin S \cup G
    BY <1>2, OutputFacts
  <2>2. CASE n.cells[p] = m.cells[p]
    BY <1>3, <2>1, <2>2 DEF Present, Tidy, Newest
  <2>3. CASE \E e \in Working(ex) : e.stage = s /\ n.cells[p].run = e.run
    BY <1>3, <2>1, <2>3 DEF Tidy, AtWork
  <2> QED BY <2>2, <2>3, OutputWritten
<1>10. Full(n) /\ Fed(n) /\ Silent(n) /\ Grounded(n)
  BY EventMachine
<1>11. Tidy(n, y, rn1)
  BY <1>7, <1>8, <1>9, <1>10 DEF Tidy
<1> QED BY <1>11 DEF S, rn1

\* A cancellation leaves everything tidy: who is cancelled writes on.
LEMMA CancelTidy ==
  ASSUME NEW m, NEW ex, NEW rn, Tidy(m, ex, rn), NEW S
  PROVE  /\ Tidy(StageCancelled(m, S), ex, rn)
         /\ StageCancelled(m, S).cells = m.cells
         /\ StageCancelled(m, S).authorized = m.authorized
         /\ StageCancelled(m, S).skipped = m.skipped
         /\ Executing(StageCancelled(m, S)) \subseteq Executing(m)
         /\ Waiting(StageCancelled(m, S)) \subseteq Waiting(m)
         /\ Done(StageCancelled(m, S)) = Done(m)
         /\ Final(m) \subseteq Final(StageCancelled(m, S))
<1> DEFINE n == StageCancelled(m, S)
           hit == S \ Final(m)
           R == [s \in Stages |-> IF s \in hit THEN "error" ELSE m.region[s]]
           Q == [s \in Stages |-> IF s \in hit THEN "upstream_cancelled" ELSE m.reason[s]]
<1>1. m \in Machines /\ n \in Machines
  BY StageCancelledPreserves DEF Tidy
<1>2. n = [m EXCEPT !.region = R, !.reason = Q]
  BY DEF StageCancelled, Fail
<1>3. \A s \in Stages : \/ R[s] = "error" /\ m.region[s] # "done"
                        \/ R[s] = m.region[s]
  BY DEF Final, Done, Failed
<1> HIDE DEF R, Q, n
<1>4. /\ n.region = R /\ n.cells = m.cells /\ n.skipped = m.skipped
      /\ n.authorized = m.authorized
  BY <1>1, <1>2 DEF Machines
<1>5. /\ Executing(n) \subseteq Executing(m) /\ Waiting(n) \subseteq Waiting(m)
      /\ Done(n) = Done(m) /\ Failed(m) \subseteq Failed(n)
      /\ \A s \in Executing(m) : s \in Executing(n) \/ s \in Failed(n)
  BY <1>3, <1>4 DEF Executing, Waiting, Done, Failed
<1>6. /\ \A p : Present(n, p) <=> Present(m, p)
      /\ \A s : FedAt(n, s) <=> FedAt(m, s)
      /\ \A s : OutputsPresent(n, s) <=> OutputsPresent(m, s)
  BY <1>4 DEF Present, FedAt, OutputsPresent
<1>7. Full(n) /\ Fed(n) /\ Owing(n) /\ Silent(n) /\ Grounded(n)
  BY <1>4, <1>5, <1>6 DEF Tidy, Full, Fed, Owing, Silent, Grounded
<1>8. AtWork(n, ex, rn)
  BY <1>5, <1>6 DEF Tidy, AtWork
<1>9. Newest(n, rn)
  BY <1>4, <1>6 DEF Tidy, Newest
<1>10. Tidy(n, ex, rn)
  BY <1>1, <1>7, <1>8, <1>9 DEF Tidy
<1>11. Final(m) \subseteq Final(n)
  BY <1>5 DEF Final
<1> QED BY <1>4, <1>5, <1>10, <1>11 DEF n

-----------------------------------------------------------------------------
\* A gate whose question is still to be answered, or to be asked.
Asking(m, rows, g) == g \notin Final(m) \/ \E r \in rows : r.gate = g

\* Until then nothing has happened behind it.
Untouched(m, ex, rows, g) ==
  /\ Releases(g) \cap m.authorized = {}
  /\ \A s \in After(g) : /\ s \notin Executing(m)
                         /\ \A p \in Outputs[s] : ~Present(m, p)
                         /\ \A e \in Working(ex) : e.stage # s
                         /\ \A r \in rows : r.gate # s

Asleep(m, ex, rows) == \A g \in Gates : Asking(m, rows, g) => Untouched(m, ex, rows, g)

\* What an open question is about has been delivered.
Held(m, rows, D) ==
  /\ RowsOk(rows, D)
  /\ \A r \in rows : /\ r.gate \notin Waiting(m)
                     /\ \A s \in GateAncestors[r.gate] : OutputsPresent(m, s)

Order(m, ex, rn, rows, D) == Tidy(m, ex, rn) /\ Asleep(m, ex, rows) /\ Held(m, rows, D)

\* What a gate releases, and what follows, are stages.
LEMMA AfterType ==
  ASSUME NEW g \in Gates
  PROVE  Releases(g) \subseteq Stages /\ After(g) \subseteq Stages /\ Releases(g) \subseteq GateRouted
<1>1. Releases(g) \subseteq Stages
  BY SiblingsType DEF Releases
<1>2. \A t \in Releases(g) : ForwardFrom[t] \subseteq Stages
  BY <1>1 DEF ForwardFrom, Reach
<1>3. Releases(g) \subseteq GateRouted
  BY DEF Releases, GateRouted
<1> QED BY <1>1, <1>2, <1>3 DEF After

\* A wire that is not a comment carries the output of the stage it comes from.
LEMMA WireOutput ==
  ASSUME NEW w \in Wires, ~IsFeedback(w.port), Owner[w.port] \in Stages
  PROVE  w.port \in Outputs[Owner[w.port]]
<1>1. w.port \in Ports
  BY WiresAssumption
<1>2. Owner[w.port] \notin Gates
  BY <1>1, PortsAssumption DEF IsFeedback
<1> QED BY <1>1, <1>2 DEF Outputs

\* What follows a gate is released by it or reads something that follows it.
LEMMA AfterStep ==
  ASSUME NEW g \in Gates, NEW s \in After(g), s \notin Releases(g)
  PROVE  \E w \in Inbound[s] : /\ ~IsFeedback(w.port) /\ Owner[w.port] \in After(g)
                               /\ w.port \in Outputs[Owner[w.port]]
<1>1. PICK t \in Releases(g) : s \in ForwardFrom[t]
  BY DEF After
<1>2. t \in Stages /\ s \in Reach(ForwardEdges, {t}) /\ s # t /\ s \in Stages
  BY <1>1, AfterType DEF ForwardFrom
<1> DEFINE C == Reach(ForwardEdges, {t}) \ {s}
<1>3. C \in SUBSET Stages /\ {t} \subseteq C
  BY <1>2, ReachSelf DEF Reach
<1>4. PICK e \in ForwardEdges : e[1] \in C /\ e[2] \notin C
  <2> HIDE DEF C
  <2>1. s \notin C
    BY DEF C
  <2> QED BY <1>2, <1>3, <2>1 DEF Reach
<1>5. PICK w \in Wires : /\ Owner[w.port] # External /\ ~IsFeedback(w.port)
                         /\ e = <<Owner[w.port], w.to>>
  BY <1>4 DEF ForwardEdges
<1>6. e[1] = Owner[w.port] /\ e[2] = w.to /\ w.to \in Stages
  BY <1>5, WiresAssumption
<1>7. w.to \in Reach(ForwardEdges, {t})
  BY <1>4, <1>6, ReachStep
<1>8. w.to = s
  BY <1>4, <1>6, <1>7
<1>9. Owner[w.port] \in After(g) /\ Owner[w.port] \in Stages
  <2>1. Owner[w.port] \in ForwardFrom[t]
    BY <1>2, <1>4, <1>6 DEF ForwardFrom
  <2> QED BY <1>1, <2>1, AfterType DEF After
<1>10. w \in Inbound[s]
  BY <1>2, <1>8 DEF Inbound
<1> QED BY <1>5, <1>9, <1>10, WireOutput

\* A gate that has its inputs has everything they came from.
LEMMA FedAncestors ==
  ASSUME WorkStopsAtGates, NEW m, Grounded(m), NEW g \in Gates, FedAt(m, g)
  PROVE  \A s \in GateAncestors[g] : OutputsPresent(m, s)
<1> DEFINE lacks(t) == \E w \in Inbound[t] : ~IsFeedback(w.port) /\ ~Present(m, w.port)
           U == {t \in Stages : lacks(t)}
<1>1. g \notin U
  BY DEF FedAt
<1>2. ASSUME NEW e \in ForwardEdges, e[1] \in U
      PROVE  e[2] \in U
  <2>1. PICK w \in Wires : /\ Owner[w.port] # External /\ ~IsFeedback(w.port)
                           /\ e = <<Owner[w.port], w.to>>
    BY DEF ForwardEdges
  <2>2. PICK o : o = Owner[w.port]
    OBVIOUS
  <2>3. e[1] = o /\ e[2] = w.to /\ w.to \in Stages /\ o \in Stages
    BY <1>2, <2>1, <2>2, WiresAssumption
  <2>4. w.port \in Outputs[o]
    BY <2>1, <2>2, <2>3, WireOutput
  <2>5. ~Present(m, w.port)
    BY <1>2, <2>3, <2>4 DEF Grounded
  <2>6. w \in Inbound[w.to]
    BY <2>3 DEF Inbound
  <2> QED BY <2>1, <2>3, <2>5, <2>6
<1>3. ASSUME NEW t \in GateAncestors[g]
      PROVE  t \in Stages /\ t \notin U
  <2>1. t \in Stages /\ g \in Reach(ForwardEdges, {t})
    BY DEF GateAncestors, ForwardFrom
  <2>2. U \in SUBSET Stages
    OBVIOUS
  <2> HIDE DEF U
  <2> QED BY <1>1, <1>2, <2>1, <2>2 DEF Reach
<1>4. ASSUME NEW s \in GateAncestors[g], NEW p \in Outputs[s]
      PROVE  Present(m, p)
  <2>1. PICK w \in Wires : w.port = p /\ w.to \in GateAncestors[g] \cup {g}
    BY DEF WorkStopsAtGates
  <2>2. w.to \notin U /\ w.to \in Stages /\ s \in Stages
    BY <1>1, <1>3, <2>1, StagesAssumption
  <2>3. w \in Inbound[w.to]
    BY <2>2 DEF Inbound
  <2>4. ~IsFeedback(p)
    BY <2>2, OutputFacts
  <2> QED BY <2>1, <2>2, <2>3, <2>4
<1> QED BY <1>4 DEF OutputsPresent

\* An event wakes nothing behind a gate that is still asking: an executor there
\* would need a release by a later gate or an output from there.
LEMMA EventAsleep ==
  ASSUME NEW m, NEW ex, NEW rn, Tidy(m, ex, rn), NEW rows, Asleep(m, ex, rows),
         NEW n \in Machines, NEW A, Grows(m, n), Follows(m, n, A),
         NEW P, Written(m, n, ex, P), NEW x, GoesOn(x, ex, P), NEW k,
         NEW kept \in SUBSET rows,
         \A g \in Gates : \/ Releases(g) \cap A = {}
                          \/ \E r \in rows : r.gate \in After(g)
                          \/ g \in Final(n) /\ \A r \in kept : r.gate # g,
         NEW new, \A r \in new : r.gate \in Executing(n)
  PROVE  Asleep(n, x \cup Started(Invoked(m, n), rn, k), kept \cup new)
<1> DEFINE y == x \cup Started(Invoked(m, n), rn, k)
<1> SUFFICES ASSUME NEW g \in Gates, Asking(n, kept \cup new, g)
             PROVE  Untouched(n, y, kept \cup new, g)
  BY DEF Asleep
<1>1. g \notin Final(n) \/ \E r \in kept : r.gate = g
  <2>1. g \in Stages
    BY StagesAssumption
  <2>2. g \in Executing(n) => g \notin Final(n)
    BY <2>1, RegionCases DEF Final
  <2> QED BY <2>2 DEF Asking
<1>2. Untouched(m, ex, rows, g)
  <2>1. g \notin Final(n) => g \notin Final(m)
    BY DEF Grows, Final, Done, Failed
  <2> QED BY <1>1, <2>1 DEF Asleep, Asking
<1>3. Releases(g) \cap n.authorized = {}
  BY <1>1, <1>2 DEF Untouched, Follows
<1>4. ASSUME NEW s \in After(g), NEW p \in Outputs[s]
      PROVE  ~Present(n, p)
  <2>1. s \in Stages
    BY <1>4, AfterType
  <2> QED BY <1>2, <1>4, <2>1, OutputWritten DEF Untouched, Present
<1>5. ASSUME NEW s \in After(g), s \in Executing(n)
      PROVE  FALSE
  <2>1. s \notin Executing(m)
    BY <1>2, <1>5 DEF Untouched
  <2>2. AllInboundDelivered(n, s)
    BY <1>5, <2>1 DEF Follows
  <2>3. CASE s \in Releases(g)
    <3>1. s \in GateRouted
      BY <2>3, AfterType
    <3> QED BY <1>3, <2>2, <2>3, <3>1 DEF AllInboundDelivered, Released
  <2>4. CASE s \notin Releases(g)
    <3>1. PICK w \in Inbound[s] : Owner[w.port] \in After(g) /\ w.port \in Outputs[Owner[w.port]]
      BY <1>5, <2>4, AfterStep
    <3>2. Present(n, w.port)
      BY <1>5, <2>2, <3>1 DEF AllInboundDelivered, WiresDeliver, Delivers, Settled, Present
    <3> QED BY <1>4, <3>1, <3>2
  <2> QED BY <2>3, <2>4
<1>6. ASSUME NEW s \in After(g), NEW e \in Working(y)
      PROVE  e.stage # s
  <2>1. CASE e \in Working(x)
    BY <1>2, <1>6, <2>1 DEF GoesOn, Untouched
  <2>2. CASE e \in Started(Invoked(m, n), rn, k)
    <3>1. e.stage \in Executing(n)
      BY <2>2 DEF Started, Invoked
    <3> QED BY <1>5, <1>6, <3>1
  <2> QED BY <1>6, <2>1, <2>2 DEF Working
<1>7. ASSUME NEW s \in After(g), NEW r \in kept \cup new
      PROVE  r.gate # s
  BY <1>2, <1>5, <1>7 DEF Untouched
<1> HIDE DEF y
<1> QED BY <1>3, <1>4, <1>5, <1>6, <1>7 DEF Untouched

\* Nor does it disturb what an open question is about.
LEMMA EventHeld ==
  ASSUME WorkStopsAtGates, NEW m, NEW n, NEW A, Grows(m, n), Follows(m, n, A),
         Fed(n), Grounded(n), NEW rows, rows \in SUBSET Rows,
         \A r \in rows : /\ r.gate \notin Waiting(m)
                         /\ \A s \in GateAncestors[r.gate] : OutputsPresent(m, s),
         NEW new, \A r \in new : r.gate \in Executing(n) \cap Gates
  PROVE  \A r \in rows \cup new :
           /\ r.gate \notin Waiting(n)
           /\ \A s \in GateAncestors[r.gate] : OutputsPresent(n, s)
<1> SUFFICES ASSUME NEW r \in rows \cup new
             PROVE  /\ r.gate \notin Waiting(n)
                    /\ \A s \in GateAncestors[r.gate] : OutputsPresent(n, s)
  OBVIOUS
<1>1. CASE r \in rows
  <2>1. r.gate \in Gates /\ r.gate \notin Waiting(n)
    BY <1>1 DEF Rows, Follows
  <2>2. \A s \in GateAncestors[r.gate] : s \in Stages
    BY <2>1 DEF GateAncestors
  <2>3. \A s \in GateAncestors[r.gate] : OutputsPresent(m, s) => OutputsPresent(n, s)
    BY <2>2 DEF Grows, OutputsPresent, Outputs
  <2> QED BY <1>1, <2>1, <2>3
<1>2. CASE r \in new
  <2>1. r.gate \in Gates /\ FedAt(n, r.gate) /\ r.gate \notin Waiting(n)
    BY <1>2 DEF Fed, Executing, Waiting
  <2> QED BY <2>1, FedAncestors
<1> QED BY <1>1, <1>2

\* An event in m, to n: it may authorize A and writes P, the executors of x are left
\* of ex and the questions of kept of rows.  What it may authorize behind a gate is
\* behind an open one, or the gate has just been answered.
Moves(m, n, A, P, ex, x, rows, kept) ==
  /\ n \in Machines /\ Grows(m, n) /\ Follows(m, n, A) /\ Owing(n)
  /\ Written(m, n, ex, P) /\ GoesOn(x, ex, P)
  /\ kept \subseteq rows
  /\ \A r \in kept : /\ r.gate \notin Waiting(m)
                     /\ \A s \in GateAncestors[r.gate] : OutputsPresent(m, s)
  /\ \A g \in Gates : \/ Releases(g) \cap A = {}
                      \/ \E r \in rows : r.gate \in After(g)
                      \/ g \in Final(n) /\ \A r \in kept : r.gate # g

\* An event with everything the actor does about it keeps the order.
LEMMA ReactOrder ==
  ASSUME WorkStopsAtGates,
         NEW m, NEW ex, NEW rn \in [Stages -> Nat], NEW rows, Tidy(m, ex, rn), Asleep(m, ex, rows),
         NEW n, NEW A, NEW P, NEW x, NEW kept \in SUBSET Rows,
         Moves(m, n, A, P, ex, x, rows, kept),
         NEW k, NEW doomed, NEW U \in SUBSET (Executing(n) \cap Gates),
         NEW new, \A r \in new : r.gate \in U,
         NEW D, RowsOk(kept \cup new, D)
  PROVE  Order(StageCancelled(n, doomed), x \cup Started(Invoked(m, n), rn, k),
               Bumped(rn, Invoked(m, n) \cup U), kept \cup new, D)
<1> DEFINE y == x \cup Started(Invoked(m, n), rn, k)
           rn1 == Bumped(rn, Invoked(m, n) \cup U)
           z == StageCancelled(n, doomed)
<1>0. /\ n \in Machines /\ Grows(m, n) /\ Follows(m, n, A) /\ Owing(n)
      /\ Written(m, n, ex, P) /\ GoesOn(x, ex, P)
      /\ kept \subseteq rows
  BY DEF Moves
<1>1. Tidy(n, y, rn1)
  <2>1. U \in SUBSET Gates
    OBVIOUS
  <2> QED BY <1>0, <2>1, EventTidy
<1>2. \A r \in new : r.gate \in Executing(n)
  OBVIOUS
<1>3. Asleep(n, y, kept \cup new)
  <2>1. \A g \in Gates : \/ Releases(g) \cap A = {}
                         \/ \E r \in rows : r.gate \in After(g)
                         \/ g \in Final(n) /\ \A r \in kept : r.gate # g
    BY DEF Moves
  <2> QED BY <1>0, <1>2, <2>1, EventAsleep
<1>4. Fed(n) /\ Grounded(n)
  BY <1>1 DEF Tidy
<1>5. \A r \in new : r.gate \in Executing(n) \cap Gates
  OBVIOUS
<1>6. \A r \in kept \cup new : /\ r.gate \notin Waiting(n)
                               /\ \A s \in GateAncestors[r.gate] : OutputsPresent(n, s)
  <2>1. \A r \in kept : /\ r.gate \notin Waiting(m)
                        /\ \A s \in GateAncestors[r.gate] : OutputsPresent(m, s)
    BY DEF Moves
  <2> QED BY <1>0, <1>4, <1>5, <2>1, EventHeld
<1> HIDE DEF y, rn1
<1>7. /\ Tidy(z, y, rn1) /\ z.cells = n.cells /\ z.authorized = n.authorized
      /\ Executing(z) \subseteq Executing(n) /\ Waiting(z) \subseteq Waiting(n)
      /\ Final(n) \subseteq Final(z)
  BY <1>1, CancelTidy
<1> HIDE DEF z
<1>8. PICK q : q = kept \cup new
  OBVIOUS
<1>9. Asleep(z, y, q)
  BY <1>3, <1>7, <1>8 DEF Asleep, Asking, Untouched, Present
<1>10. Held(z, q, D)
  BY <1>6, <1>7, <1>8 DEF Held, OutputsPresent, Present
<1>11. Order(z, y, rn1, q, D)
  BY <1>7, <1>9, <1>10 DEF Order
<1> QED BY <1>8, <1>11 DEF y, z, rn1

-----------------------------------------------------------------------------
\* Whoever has begun read what its inputs hold.
Current(m, cons) ==
  \A s \in ((Done(m) \cup Executing(m)) \ Gates) \ m.skipped :
    \A p \in {q \in Inputs[s] : ~IsFeedback(q)} : Present(m, p) /\ cons[s][p] = m.cells[p]

\* A value that is there is not written again, comments excepted.
LEMMA PresentStays ==
  ASSUME NEW m, NEW ex, NEW rn, Tidy(m, ex, rn), NEW n, NEW P, Written(m, n, ex, P),
         NEW p \in Ports, ~IsFeedback(p), Present(m, p)
  PROVE  n.cells[p] = m.cells[p]
<1>1. p \notin P
  <2> SUFFICES ASSUME p \in P PROVE FALSE
    OBVIOUS
  <2>1. PICK e \in Working(ex) : p \in e.pending
    BY DEF Written
  <2> QED BY <2>1 DEF Tidy, AtWork
<1> QED BY <1>1 DEF Written

\* What a stage reads.
LEMMA InputFacts ==
  ASSUME NEW s \in Stages, NEW p \in Inputs[s]
  PROVE  p \in Ports /\ \E w \in Inbound[s] : w \in Wires /\ w.to = s /\ w.port = p
<1>1. PICK w \in Inbound[s] : w.port = p
  BY DEF Inputs
<1>2. w \in Wires /\ w.to = s
  BY DEF Inbound
<1> QED BY <1>1, <1>2, WiresAssumption

\* A stage that writes and is found done has begun before, or was skipped.
LEMMA DoneHasBegun ==
  ASSUME EveryStageWrites, NEW m, NEW ex, NEW rn, Tidy(m, ex, rn),
         NEW n \in Machines, NEW A, Grows(m, n), Follows(m, n, A), NEW P, Written(m, n, ex, P),
         Full(n), NEW s \in Done(n), s \notin Gates, s \notin n.skipped
  PROVE  s \in Done(m) \cup Executing(m) /\ s \notin m.skipped
<1>1. s \in Stages /\ s \notin m.skipped
  BY DEF Done, Grows
<1>2. s \notin Waiting(m)
  <2>1. PICK p \in Outputs[s] : TRUE
    BY <1>1 DEF EveryStageWrites
  <2>2. Present(n, p)
    BY <2>1 DEF Full, OutputsPresent
  <2> QED BY <2>1, <2>2, StartsSilent
<1>3. s \notin Failed(m)
  BY DEF Grows, Final, Failed, Done
<1> QED BY <1>1, <1>2, <1>3, RegionCases DEF Tidy

\* An event leaves what has been read alone, and who starts reads what is there.
LEMMA EventCurrent ==
  ASSUME EveryStageWrites, NEW m, NEW ex, NEW rn, Tidy(m, ex, rn),
         NEW n \in Machines, NEW A, Grows(m, n), Follows(m, n, A), Owing(n),
         NEW P, Written(m, n, ex, P), NEW cons, Current(m, cons),
         NEW new, \A s \in Invoked(m, n) : \A p \in Inputs[s] : new[s][p] = n.cells[p],
         \A s \in Stages \ Invoked(m, n) : \A p \in Inputs[s] : new[s][p] = cons[s][p],
         NEW doomed
  PROVE  Current(StageCancelled(n, doomed), new)
<1>1. Full(n) /\ Fed(n)
  BY EventMachine
<1>2. PICK z : z = StageCancelled(n, doomed)
  OBVIOUS
<1>3. z.cells = n.cells
  BY <1>2, StageCancelledPreserves
<1>4. Done(z) \subseteq Done(n) /\ Executing(z) \subseteq Executing(n) /\ z.skipped = n.skipped
  <2> DEFINE hit == doomed \ Final(n)
             R == [s \in Stages |-> IF s \in hit THEN "error" ELSE n.region[s]]
             Q == [s \in Stages |-> IF s \in hit THEN "upstream_cancelled" ELSE n.reason[s]]
  <2>1. z = [n EXCEPT !.region = R, !.reason = Q]
    BY <1>2 DEF StageCancelled, Fail
  <2>2. \A s \in Stages : R[s] \in {n.region[s], "error"}
    BY DEF R
  <2> HIDE DEF R, Q
  <2>3. z.region = R /\ z.skipped = n.skipped
    BY <2>1 DEF Machines
  <2> QED BY <2>2, <2>3 DEF Done, Executing
<1>5. ASSUME NEW s \in ((Done(n) \cup Executing(n)) \ Gates) \ n.skipped,
             NEW p \in Inputs[s], ~IsFeedback(p)
      PROVE  Present(n, p) /\ new[s][p] = n.cells[p]
  <2>1. s \in Stages
    BY DEF Done, Executing
  <2>2. PICK w \in Inbound[s] : w.port = p /\ p \in Ports
    BY <2>1, InputFacts
  <2>3. CASE s \in Invoked(m, n)
    <3>1. Present(n, p)
      BY <1>1, <2>2, <2>3 DEF Invoked, Fed, FedAt
    <3> QED BY <2>3, <3>1
  <2>4. CASE s \notin Invoked(m, n)
    <3>1. s \in Done(m) \cup Executing(m) /\ s \notin m.skipped
      <4>1. CASE s \in Done(n)
        BY <1>1, <4>1, DoneHasBegun
      <4>2. CASE s \in Executing(n)
        BY <2>4, <4>2 DEF Invoked, Grows
      <4> QED BY <4>1, <4>2
    <3>2. Present(m, p) /\ cons[s][p] = m.cells[p]
      BY <1>5, <3>1 DEF Current
    <3>3. n.cells[p] = m.cells[p]
      BY <1>5, <2>2, <3>2, PresentStays
    <3> QED BY <2>1, <2>4, <3>2, <3>3 DEF Present
  <2> QED BY <2>3, <2>4
<1>6. Current(z, new)
  BY <1>3, <1>4, <1>5 DEF Current, Present
<1> QED BY <1>2, <1>6

-----------------------------------------------------------------------------
\* Under an open question nothing else goes on.
LEMMA QuietUnderQuestion ==
  ASSUME WorkStopsAtGates, NEW m, NEW ex, NEW rn, NEW rows, rows \in SUBSET Rows, NEW D,
         Order(m, ex, rn, rows, D), NEW r \in rows
  PROVE  rows = {r} /\ Working(ex) = {} /\ Executing(m) \subseteq Gates
<1>1. PICK g : g = r.gate
  OBVIOUS
<1>2. g \in Gates /\ Untouched(m, ex, rows, g)
  BY <1>1 DEF Rows, Order, Asleep, Asking
<1>3. \A s \in GateAncestors[g] : OutputsPresent(m, s)
  BY <1>1 DEF Order, Held
<1>4. \A s \in Stages \ Gates : s \in GateAncestors[g] \cup After(g)
  BY <1>2 DEF WorkStopsAtGates
<1>5. ASSUME NEW q \in rows
      PROVE  q = r
  <2>1. q.gate \in Gates /\ Untouched(m, ex, rows, q.gate)
    BY DEF Rows, Order, Asleep, Asking
  <2>2. q.gate = g
    <3>1. q.gate \notin After(g) /\ g \notin After(q.gate)
      BY <1>1, <1>2, <2>1 DEF Untouched
    <3> QED BY <1>2, <2>1, <3>1 DEF WorkStopsAtGates
  <2> QED BY <1>1, <2>2 DEF Order, Held, RowsOk
<1>6. ASSUME NEW e \in Working(ex)
      PROVE  FALSE
  <2>1. /\ e.stage \in Stages /\ e.pending \subseteq Outputs[e.stage]
        /\ \A p \in e.pending : ~Present(m, p)
    BY DEF Order, Tidy, AtWork, Executing, Failed
  <2>2. PICK p \in e.pending : TRUE
    BY DEF Working
  <2>3. e.stage \notin Gates /\ ~OutputsPresent(m, e.stage)
    BY <2>1, <2>2, OutputFacts DEF OutputsPresent
  <2>4. e.stage \notin After(g)
    BY <1>2 DEF Untouched
  <2> QED BY <1>3, <1>4, <2>1, <2>3, <2>4
<1>7. ASSUME NEW s \in Executing(m), s \notin Gates
      PROVE  FALSE
  <2>1. s \in Stages /\ ~OutputsPresent(m, s)
    BY <1>7 DEF Executing, Order, Tidy, Owing
  <2>2. s \notin After(g)
    BY <1>2 DEF Untouched
  <2> QED BY <1>3, <1>4, <1>7, <2>1, <2>2
<1> QED BY <1>5, <1>6, <1>7

\* A rollback takes back what the gates it rewinds have released, and all that follows.
LEMMA AffectedAfter ==
  ASSUME RewindsTargetsToo, NEW h \in Gates, NEW g \in Affected[h] \cap Gates
  PROVE  Releases(g) \subseteq Affected[h] /\ After(g) \subseteq Affected[h]
<1>1. Releases(g) \subseteq Affected[h]
  BY AfterType DEF RewindsTargetsToo, Releases
<1>2. Affected[h] = UNION {ForwardFrom[t] : t \in RejectTargets[h]}
  BY DEF Affected
<1>3. \A t \in RejectTargets[h] : t \in Stages
  BY RouteType DEF RejectTargets
<1>4. ASSUME NEW t \in Releases(g), NEW s \in ForwardFrom[t]
      PROVE  s \in Affected[h]
  <2>1. PICK u \in RejectTargets[h] : t \in ForwardFrom[u]
    BY <1>1, <1>2
  <2>2. u \in Stages /\ t \in Stages /\ t \in Reach(ForwardEdges, {u})
    BY <1>3, <2>1, AfterType DEF ForwardFrom
  <2>3. s \in Reach(ForwardEdges, {u})
    BY <1>4, <2>2, ReachComposes DEF ForwardFrom
  <2> QED BY <1>2, <2>1, <2>2, <2>3 DEF ForwardFrom
<1> QED BY <1>1, <1>4 DEF After

\* The machine a reject is rebuilt from: w is the rewound one, now the one the
\* answer was written to.
LEMMA RejectFacts ==
  ASSUME NEW m \in Machines, NEW reset, NEW g \in Gates,
         NEW w, w = Pruned(Rewound(m, reset, {Feedback[g]}), reset)
  PROVE  /\ w \in Machines /\ Executing(w) = {}
         /\ w.authorized = m.authorized \ reset /\ w.skipped = m.skipped \ reset
         /\ Done(w) = Done(m) \ reset /\ Final(w) = Final(m) \ reset
         /\ \A p \in Ports : Owner[p] \notin reset => w.cells[p] = m.cells[p]
         /\ \A p \in Ports : Owner[p] \in reset /\ ~IsFeedback(p) => w.cells[p] = Absent
<1>1. PICK v : v = Rewound(m, reset, {Feedback[g]})
  OBVIOUS
<1>2. /\ v \in Machines /\ v.skipped = m.skipped /\ Executing(v) = {}
      /\ \A s \in Final(m) \ reset : v.region[s] = m.region[s]
      /\ \A s \in Stages \ (Final(m) \ reset) : v.region[s] = "waiting"
      /\ \A p \in Ports : Survives(p, reset, {Feedback[g]}) => v.cells[p] = m.cells[p]
      /\ \A p \in Ports : ~Survives(p, reset, {Feedback[g]}) /\ ~IsFeedback(p) => v.cells[p] = Absent
  BY <1>1, RewoundFacts
<1>3. v.authorized = m.authorized
  BY <1>1, RewoundPreserves
<1>4. w = Pruned(v, reset)
  BY <1>1
<1>5. /\ w \in Machines /\ w.authorized = v.authorized \ reset
      /\ w.cells = v.cells /\ Executing(w) = Executing(v)
  <2>1. v \in Machines
    BY <1>2
  <2>2. w \in Machines /\ w.authorized = v.authorized \ reset
    <3>1. /\ Pruned(v, reset) \in Machines
          /\ Pruned(v, reset).authorized = v.authorized \ reset
      BY <2>1, PrunedPreserves
    <3> QED BY <1>4, <3>1
  <2>3. w.cells = v.cells /\ Executing(w) = Executing(v)
    BY <1>4, <2>1, PrunedCells
  <2> QED BY <2>2, <2>3
<1>6. w.region = v.region /\ w.skipped = v.skipped \ reset
  BY <1>2, <1>4 DEF Pruned, Machines
<1>7. Done(w) = Done(m) \ reset /\ Final(w) = Final(m) \ reset
  BY <1>2, <1>6 DEF Done, Final, Failed
<1>8. IsFeedback(Feedback[g])
  BY FeedbackFacts
<1> QED BY <1>2, <1>3, <1>5, <1>6, <1>7, <1>8 DEF Survives

\* A rollback under an open question keeps the order.
LEMMA RewoundOrder ==
  ASSUME WorkStopsAtGates, RewindsTargetsToo,
         NEW m, NEW ex, NEW rn, NEW rows, rows \in SUBSET Rows, NEW D,
         Order(m, ex, rn, rows, D), NEW r \in rows,
         NEW n \in Machines, Grows(m, n), Follows(m, n, {}), Owing(n),
         Written(m, n, ex, {Feedback[r.gate]}),
         NEW w, w = Pruned(Rewound(n, Affected[r.gate], {Feedback[r.gate]}), Affected[r.gate])
  PROVE  Tidy(w, ex, rn) /\ Asleep(w, ex, {})
<1> DEFINE reset == Affected[r.gate]
<1>1. Tidy(m, ex, rn) /\ m \in Machines
  BY DEF Order, Tidy
<1>2. /\ r.gate \in Gates /\ reset \in SUBSET Stages /\ ForwardClosed(reset)
  BY AffectedType, AffectedClosed DEF Rows
<1>3. Working(ex) = {} /\ Executing(m) \subseteq Gates
  BY QuietUnderQuestion
<1>4. Full(n) /\ Silent(n) /\ Grounded(n)
  BY <1>1, EventMachine
<1>5. /\ w \in Machines /\ Executing(w) = {}
      /\ w.authorized = n.authorized \ reset /\ w.skipped = n.skipped \ reset
      /\ Done(w) = Done(n) \ reset /\ Final(w) = Final(n) \ reset
      /\ \A p \in Ports : Owner[p] \notin reset => w.cells[p] = n.cells[p]
      /\ \A p \in Ports : Owner[p] \in reset /\ ~IsFeedback(p) => w.cells[p] = Absent
  BY <1>2, RejectFacts
<1>6. ASSUME NEW s \in Stages, NEW p \in Outputs[s]
      PROVE  /\ n.cells[p] = m.cells[p]
             /\ s \in reset => ~Present(w, p)
             /\ s \notin reset => w.cells[p] = n.cells[p]
  <2>1. p \in Ports /\ Owner[p] = s /\ ~IsFeedback(p)
    BY OutputFacts
  <2>2. p # Feedback[r.gate]
    BY <1>2, <2>1, FeedbackFacts
  <2>3. n.cells[p] = m.cells[p]
    BY <2>1, <2>2 DEF Written
  <2>4. /\ s \in reset => w.cells[p] = Absent
        /\ s \notin reset => w.cells[p] = n.cells[p]
    BY <1>5, <2>1
  <2> QED BY <2>3, <2>4 DEF Present, Absent
<1> HIDE DEF reset
<1>7. Full(w)
  <2> SUFFICES ASSUME NEW s \in Done(w) PROVE s \in w.skipped \/ OutputsPresent(w, s)
    BY DEF Full
  <2>1. s \in Done(n) /\ s \notin reset /\ s \in Stages
    BY <1>5 DEF Done
  <2>2. OutputsPresent(n, s) => OutputsPresent(w, s)
    BY <1>6, <2>1 DEF OutputsPresent, Present
  <2> QED BY <1>4, <1>5, <2>1, <2>2 DEF Full
<1>8. Silent(w)
  <2> SUFFICES ASSUME NEW s \in Waiting(w), NEW p \in Outputs[s] PROVE ~Present(w, p)
    BY DEF Silent
  <2>1. s \in Stages /\ s \notin Final(w)
    BY <1>5, RegionCases DEF Waiting, Final
  <2>2. CASE s \in reset
    BY <1>6, <2>1, <2>2
  <2>3. CASE s \notin reset
    <3>1. s \notin Gates
      BY <2>1, OutputFacts
    <3>2. s \in Waiting(n) \/ s \in Executing(n)
      BY <1>5, <2>1, <2>3, RegionCases DEF Final
    <3>3. s \in Waiting(m)
      BY <1>1, <1>3, <3>1, <3>2, StartsSilent DEF Follows
    <3>4. ~Present(n, p)
      BY <1>1, <3>3, StartsSilent
    <3> QED BY <1>6, <2>1, <2>3, <3>4 DEF Present
  <2> QED BY <2>2, <2>3
<1>9. Grounded(w)
  <2> SUFFICES ASSUME NEW s \in Stages, NEW p \in Outputs[s], Present(w, p),
                      NEW v \in Inbound[s], ~IsFeedback(v.port)
               PROVE  Present(w, v.port)
    BY DEF Grounded
  <2>1. s \notin reset /\ Present(n, p)
    BY <1>6 DEF Present
  <2>2. Present(n, v.port) /\ v \in Wires /\ v.to = s /\ v.port \in Ports
    BY <1>4, <2>1, WiresAssumption DEF Grounded, Inbound
  <2>3. Owner[v.port] \notin reset
    BY <1>2, <2>1, <2>2 DEF ForwardClosed
  <2> QED BY <1>5, <2>2, <2>3 DEF Present
<1>10. AtWork(w, ex, rn) /\ OneEach(ex)
  BY <1>3 DEF AtWork, OneEach
<1>11. Newest(w, rn)
  <2> SUFFICES ASSUME NEW s \in Stages, NEW p \in Outputs[s], Present(w, p)
               PROVE  w.cells[p].run = rn[s]
    BY DEF Newest
  <2>1. w.cells[p] = m.cells[p]
    BY <1>6
  <2> QED BY <1>1, <2>1 DEF Tidy, Newest, Present
<1>12. Fed(w) /\ Owing(w)
  BY <1>5 DEF Fed, Owing
<1>13. Tidy(w, ex, rn)
  BY <1>5, <1>7, <1>8, <1>9, <1>10, <1>11, <1>12 DEF Tidy
<1>14. Asleep(w, ex, {})
  <2> SUFFICES ASSUME NEW g \in Gates, g \notin Final(w)
               PROVE  /\ Releases(g) \cap w.authorized = {}
                      /\ \A s \in After(g) : \A p \in Outputs[s] : ~Present(w, p)
    BY <1>3, <1>5 DEF Asleep, Asking, Untouched
  <2>0. After(g) \subseteq Stages
    BY AfterType
  <2>1. CASE g \in reset
    <3>1. Releases(g) \subseteq reset /\ After(g) \subseteq reset
      BY <1>2, <2>1, AffectedAfter DEF reset
    <3> QED BY <1>5, <1>6, <2>0, <3>1
  <2>2. CASE g \notin reset
    <3>1. g \notin Final(m)
      BY <1>5, <2>2 DEF Grows, Final, Done, Failed
    <3>2. /\ Releases(g) \cap m.authorized = {}
          /\ \A s \in After(g) : \A p \in Outputs[s] : ~Present(m, p)
      BY <3>1 DEF Order, Asleep, Asking, Untouched
    <3>3. \A s \in After(g) : \A p \in Outputs[s] : ~Present(w, p)
      BY <1>6, <2>0, <3>2 DEF Present
    <3> QED BY <1>5, <3>2, <3>3 DEF Follows
  <2> QED BY <2>1, <2>2
<1> QED BY <1>13, <1>14

\* A rollback leaves what the finished stages it keeps have read alone.
LEMMA RewoundCurrent ==
  ASSUME WorkStopsAtGates, EveryStageWrites,
         NEW m, NEW ex, NEW rn, NEW rows, rows \in SUBSET Rows, NEW D,
         Order(m, ex, rn, rows, D), NEW r \in rows, NEW cons, Current(m, cons),
         NEW n \in Machines, Grows(m, n), Follows(m, n, {}), Owing(n),
         Written(m, n, ex, {Feedback[r.gate]}),
         NEW w, w = Pruned(Rewound(n, Affected[r.gate], {Feedback[r.gate]}), Affected[r.gate])
  PROVE  Current(w, cons)
<1> DEFINE reset == Affected[r.gate]
<1>1. Tidy(m, ex, rn)
  BY DEF Order
<1>2. r.gate \in Gates /\ ForwardClosed(reset)
  BY AffectedClosed DEF Rows
<1>3. Full(n)
  BY <1>1, EventMachine
<1>4. /\ Executing(w) = {} /\ w.skipped = n.skipped \ reset /\ Done(w) = Done(n) \ reset
      /\ \A p \in Ports : Owner[p] \notin reset => w.cells[p] = n.cells[p]
  BY <1>2, RejectFacts
<1> HIDE DEF reset
<1> SUFFICES ASSUME NEW s \in Done(w), s \notin Gates, s \notin w.skipped,
                    NEW p \in Inputs[s], ~IsFeedback(p)
             PROVE  Present(w, p) /\ cons[s][p] = w.cells[p]
  BY <1>4 DEF Current
<1>5. s \in Done(n) /\ s \notin reset /\ s \notin n.skipped /\ s \in Stages
  BY <1>4 DEF Done
<1>6. s \in Done(m) \cup Executing(m) /\ s \notin m.skipped
  BY <1>1, <1>3, <1>5, DoneHasBegun
<1>7. Present(m, p) /\ cons[s][p] = m.cells[p]
  BY <1>6 DEF Current
<1>8. p \in Ports /\ Owner[p] \notin reset
  BY <1>2, <1>5, InputFacts DEF ForwardClosed
<1>9. n.cells[p] = m.cells[p]
  BY <1>1, <1>7, <1>8, PresentStays
<1> QED BY <1>4, <1>7, <1>8, <1>9 DEF Present

-----------------------------------------------------------------------------
\* The order of the run, and what a step does to it.
InOrder ==
  /\ Order(machine, executors, runs, openGates, book.dispatched)
  /\ Stands(standing, book.dispatched)

KeepsOrder ==
  /\ Order(machine', executors', runs', openGates', book'.dispatched)
  /\ Stands(standing', book'.dispatched)
  /\ AskedStep
  /\ EveryStageWrites /\ Current(machine, consumed) => Current(machine', consumed')

\* Executors that go on as they are.
LEMMA GoesOnAll ==
  ASSUME NEW ex, OneEach(ex)
  PROVE  GoesOn(ex, ex, {})
BY DEF GoesOn, OneEach, Working

\* One executor returns, or goes on with less.
LEMMA GoesOnBut ==
  ASSUME NEW m, NEW ex, NEW rn, Tidy(m, ex, rn), NEW e \in ex, NEW P \in SUBSET e.pending,
         NEW y, \A d \in y : d.stage = e.stage /\ d.run = e.run /\ d.pending \subseteq e.pending \ P,
         \A c, d \in y : c = d
  PROVE  GoesOn((ex \ {e}) \cup y, ex, P) /\ GoesOn((ex \ {e}) \cup y, ex, {})
<1> DEFINE x == (ex \ {e}) \cup y
<1>1. ASSUME NEW d \in Working(x), d \in y
      PROVE  e \in Working(ex)
  BY <1>1 DEF Working
<1>2. ASSUME NEW d \in Working(x), d \notin y
      PROVE  d \in Working(ex) /\ d # e
  BY <1>2 DEF Working
<1>3. ASSUME NEW d \in Working(x), d \notin y
      PROVE  d.pending \subseteq d.pending \ P
  <2> SUFFICES ASSUME NEW p \in d.pending, p \in P PROVE FALSE
    OBVIOUS
  <2>1. d \in Working(ex) /\ d # e /\ e \in Working(ex)
    BY <1>2, <1>3 DEF Working
  <2>2. /\ d.stage \in Stages /\ p \in Outputs[d.stage]
        /\ e.stage \in Stages /\ p \in Outputs[e.stage]
    BY <2>1 DEF Tidy, AtWork, Executing, Failed
  <2>3. d.stage = e.stage
    BY <2>2, OutputFacts
  <2> QED BY <2>1, <2>3 DEF Tidy, OneEach
<1>4. OneEach(x)
  <2> SUFFICES ASSUME NEW c \in Working(x), NEW d \in Working(x), c.stage = d.stage PROVE c = d
    BY DEF OneEach
  <2>1. CASE c \in y /\ d \in y
    BY <2>1
  <2>2. CASE c \notin y /\ d \notin y
    BY <1>2, <2>2 DEF Tidy, OneEach
  <2>3. ~(c \in y /\ d \notin y)
    BY <1>1, <1>2 DEF Tidy, OneEach
  <2>4. ~(c \notin y /\ d \in y)
    BY <1>1, <1>2 DEF Tidy, OneEach
  <2> QED BY <2>1, <2>2, <2>3, <2>4
<1>5. ASSUME NEW d \in Working(x)
      PROVE  \E c \in Working(ex) :
               d.stage = c.stage /\ d.run = c.run /\ d.pending \subseteq c.pending \ P
  BY <1>1, <1>2, <1>3
<1> HIDE DEF x
<1>6. GoesOn(x, ex, P)
  BY <1>4, <1>5 DEF GoesOn
<1>7. GoesOn(x, ex, {})
  BY <1>4, <1>5 DEF GoesOn
<1> QED BY <1>6, <1>7 DEF x

\* A step that moves no region: executors return, questions are closed.
LEMMA StillOrder ==
  ASSUME InOrder, machine' = machine, runs' = runs, book'.dispatched = book.dispatched,
         consumed' = consumed, standing' = standing,
         GoesOn(executors', executors, {}), openGates' \subseteq openGates
  PROVE  KeepsOrder
<1>1. PICK x : x = executors'
  OBVIOUS
<1>2. PICK q : q = openGates'
  OBVIOUS
<1>3. /\ Tidy(machine, executors, runs) /\ Asleep(machine, executors, openGates)
      /\ Held(machine, openGates, book.dispatched) /\ Stands(standing, book.dispatched)
  BY DEF InOrder, Order
<1>4. \A d \in Working(x) : \E e \in Working(executors) :
        d.stage = e.stage /\ d.run = e.run /\ d.pending \subseteq e.pending
  BY <1>1 DEF GoesOn
<1>5. AtWork(machine, x, runs)
  <2> SUFFICES ASSUME NEW d \in Working(x)
               PROVE  /\ d.stage \in Executing(machine) \cup Failed(machine)
                      /\ d.run = runs[d.stage]
                      /\ FedAt(machine, d.stage)
                      /\ d.pending \subseteq Outputs[d.stage]
                      /\ \A p \in d.pending : ~Present(machine, p)
    BY DEF AtWork
  <2>1. PICK e \in Working(executors) :
          d.stage = e.stage /\ d.run = e.run /\ d.pending \subseteq e.pending
    BY <1>4
  <2> QED BY <1>3, <2>1 DEF Tidy, AtWork
<1>6. Tidy(machine, x, runs)
  <2>1. OneEach(x)
    BY <1>1 DEF GoesOn
  <2> QED BY <1>3, <1>5, <2>1 DEF Tidy
<1>7. Asleep(machine, x, q)
  BY <1>2, <1>3, <1>4 DEF Asleep, Asking, Untouched
<1>8. Held(machine, q, book.dispatched)
  BY <1>2, <1>3 DEF Held, RowsOk
<1>9. Order(machine, x, runs, q, book.dispatched)
  BY <1>6, <1>7, <1>8 DEF Order
<1>10. AskedStep
  BY DEF AskedStep
<1> QED BY <1>1, <1>2, <1>3, <1>9, <1>10 DEF KeepsOrder

\* A reaction of the actor, to an event or after a rebuild.
LEMMA ObserveOrder ==
  ASSUME WorkStopsAtGates, runs \in [Stages -> Nat], openGates \in SUBSET Rows,
         NEW m, NEW rows \in SUBSET openGates, Tidy(m, executors, runs), Asleep(m, executors, rows),
         EveryStageWrites /\ Current(machine, consumed) => Current(m, consumed),
         NEW n, NEW A, NEW P, NEW x, NEW kept, Moves(m, n, A, P, executors, x, rows, kept),
         NEW k, NEW bk, RowsOk(kept, bk.dispatched), Stands(standing', bk.dispatched),
         NEW bud, NEW at, Observe(m, n, k, bk, bud, x, runs, at),
         openGates' = Opened(n, bk, kept, runs)
  PROVE  KeepsOrder
<1>1. PICK U : U = Undispatched(n, bk)
  OBVIOUS
<1>2. U \in SUBSET (Executing(n) \cap Gates)
  BY <1>1 DEF Undispatched
<1>3. PICK D : D = bk.dispatched \cup U
  OBVIOUS
<1>4. /\ machine' = StageCancelled(n, Propagation(n, bk))
      /\ executors' = x \cup Started(Invoked(m, n), runs, k)
      /\ runs' = Bumped(runs, Invoked(m, n) \cup U)
      /\ book'.dispatched = D
      /\ consumed' = [s \in Stages |->
                       IF s \in Invoked(m, n)
                         THEN [p \in Ports |-> IF p \in Inputs[s] THEN n.cells[p] ELSE Absent]
                         ELSE consumed[s]]
  BY <1>1, <1>3 DEF Observe
<1>5. RowsOk(openGates', D) /\ Stands(standing', D) /\ AskedStep
  <2>1. kept \subseteq openGates
    BY DEF Moves
  <2> QED BY <1>1, <1>3, <2>1, OpenedRows
<1>6. PICK new : new = {[gate |-> g, run |-> runs[g] + 1] : g \in U}
  OBVIOUS
<1>7. openGates' = kept \cup new /\ \A r \in new : r.gate \in U
  BY <1>1, <1>6 DEF Opened
<1>8. kept \in SUBSET Rows
  BY DEF Moves
<1>9. RowsOk(kept \cup new, D)
  BY <1>5, <1>7
<1>10. Order(machine', executors', runs', openGates', D)
  <2>1. PICK doomed : doomed = Propagation(n, bk)
    OBVIOUS
  <2>2. \A r \in new : r.gate \in U
    BY <1>7
  <2>3. PICK rn : rn = runs
    OBVIOUS
  <2>4. rn \in [Stages -> Nat] /\ Tidy(m, executors, rn)
    BY <2>3
  <2>5. Order(StageCancelled(n, doomed), x \cup Started(Invoked(m, n), rn, k),
              Bumped(rn, Invoked(m, n) \cup U), kept \cup new, D)
    BY <1>2, <1>8, <1>9, <2>2, <2>4, ReactOrder
  <2> QED BY <1>4, <1>7, <2>1, <2>3, <2>5
<1>11. ASSUME EveryStageWrites, Current(machine, consumed)
       PROVE  Current(machine', consumed')
  <2>1. PICK c : c = consumed'
    OBVIOUS
  <2>2. \A s \in Invoked(m, n) : \A p \in Inputs[s] : c[s][p] = n.cells[p]
    <3> SUFFICES ASSUME NEW s \in Invoked(m, n), NEW p \in Inputs[s] PROVE c[s][p] = n.cells[p]
      OBVIOUS
    <3>1. s \in Stages /\ p \in Ports
      BY InputFacts DEF Invoked, Executing
    <3> QED BY <1>4, <2>1, <3>1
  <2>3. \A s \in Stages \ Invoked(m, n) : \A p \in Inputs[s] : c[s][p] = consumed[s][p]
    BY <1>4, <2>1
  <2>4. Current(m, consumed)
    BY <1>11
  <2> HIDE <1>4
  <2>5. Current(StageCancelled(n, Propagation(n, bk)), c)
    <3>1. /\ n \in Machines /\ Grows(m, n) /\ Follows(m, n, A) /\ Owing(n)
          /\ Written(m, n, executors, P)
      BY DEF Moves
    <3> QED BY <1>11, <2>2, <2>3, <2>4, <3>1, EventCurrent
  <2> QED BY <1>4, <2>1, <2>5
<1> QED BY <1>4, <1>5, <1>10, <1>11 DEF KeepsOrder

\* The same for an event in the actor, whatever is open.
LEMMA ObserveEventOrder ==
  ASSUME WorkStopsAtGates, TypeOK, InOrder,
         NEW n \in Machines, NEW A, Grows(machine, n), Follows(machine, n, A), Owing(n),
         NEW P, Written(machine, n, executors, P), NEW x, GoesOn(x, executors, P),
         NEW kept \in SUBSET openGates,
         \A g \in Gates : \/ Releases(g) \cap A = {}
                          \/ \E r \in openGates : r.gate \in After(g)
                          \/ g \in Final(n) /\ \A r \in kept : r.gate # g,
         Stands(standing', book.dispatched),
         NEW k, NEW bud, NEW at, Observe(machine, n, k, book, bud, x, runs, at),
         openGates' = Opened(n, book, kept, runs)
  PROVE  KeepsOrder
<1>1. runs \in [Stages -> Nat] /\ openGates \in SUBSET Rows
  BY DEF TypeOK, Rows
<1>2. /\ Tidy(machine, executors, runs) /\ Asleep(machine, executors, openGates)
      /\ Held(machine, openGates, book.dispatched)
  BY DEF InOrder, Order
<1>3. \A r \in kept : /\ r.gate \notin Waiting(machine)
                      /\ \A s \in GateAncestors[r.gate] : OutputsPresent(machine, s)
  BY <1>2 DEF Held
<1>4. RowsOk(kept, book.dispatched)
  BY <1>2 DEF Held, RowsOk
<1>5. Moves(machine, n, A, P, executors, x, openGates, kept)
  BY <1>3 DEF Moves
<1> QED BY <1>1, <1>2, <1>4, <1>5, ObserveOrder

\* A write by an executor of what it has still to write.
LEMMA WriteOrder ==
  ASSUME WorkStopsAtGates, TypeOK, InOrder, NEW e \in executors, NEW P \in SUBSET e.pending,
         NEW v \in Values, NEW x, GoesOn(x, executors, P), GoesOn(x, executors, {}), NEW at,
         Write(e, P, v, x, at)
  PROVE  KeepsOrder
<1>1. machine \in Machines /\ e.run \in Nat /\ standing' = standing
  BY DEF TypeOK, Executor, Write
<1>2. CASE Live
  <2>1. PICK c : c = Cell(v, e.run)
    OBVIOUS
  <2>2. PICK n : n = PortWritten(machine, P, c)
    OBVIOUS
  <2>3. c \in Cells /\ c.run = e.run
    BY <1>1, <2>1, CellType DEF Cell
  <2>4. n \in Machines /\ Follows(machine, n, {})
    BY <1>1, <2>2, <2>3, PortWrittenPreserves, PortWrittenFollows
  <2>5. /\ Grows(machine, n) /\ Owing(n)
        /\ n.cells = [p \in Ports |-> IF p \in P THEN c ELSE machine.cells[p]]
    BY <1>1, <2>1, <2>2, PortWrittenGrows DEF Owing
  <2>6. Written(machine, n, executors, P)
    <3>1. \A p \in P : e \in Working(executors) /\ p \in e.pending /\ p \in Ports
      <4>1. e.pending \subseteq Ports
        BY DEF TypeOK, Executor
      <4> QED BY <4>1 DEF Working
    <3> QED BY <2>3, <2>5, <3>1 DEF Written
  <2>7. /\ Observe(machine, n, generation, book, budget, x, runs, at)
        /\ openGates' = Opened(n, book, openGates, runs)
    BY <1>2, <2>1, <2>2 DEF Write
  <2>8. Stands(standing', book.dispatched)
    BY <1>1 DEF InOrder
  <2>9. \A g \in Gates : Releases(g) \cap {} = {}
    OBVIOUS
  <2> QED BY <2>4, <2>5, <2>6, <2>7, <2>8, <2>9, ObserveEventOrder
<1>3. CASE ~Live
  BY <1>1, <1>3, StillOrder DEF Write, Unheard
<1> QED BY <1>2, <1>3

\* Executors' steps.
LEMMA ExecutorOrder ==
  ASSUME WorkStopsAtGates, Retrying = {}, Rewriters = {}, TypeOK, InOrder,
         NEW e \in executors, ExecutorStep(e)
  PROVE  KeepsOrder
<1>1. /\ machine \in Machines /\ e.stage \in Stages
      /\ Tidy(machine, executors, runs) /\ Stands(standing, book.dispatched)
  BY DEF TypeOK, Executor, InOrder, Order
<1>2. PICK rest : rest = executors \ {e}
  OBVIOUS
<1>3. \A P \in SUBSET e.pending : GoesOn(rest, executors, P)
  <2>1. ASSUME NEW P \in SUBSET e.pending PROVE GoesOn((executors \ {e}) \cup {}, executors, P)
    <3>1. PICK none : none = {}
      OBVIOUS
    <3>2. /\ \A d \in none : /\ d.stage = e.stage /\ d.run = e.run
                             /\ d.pending \subseteq e.pending \ P
          /\ \A c, d \in none : c = d
      BY <3>1
    <3>3. GoesOn((executors \ {e}) \cup none, executors, P)
      BY <1>1, <3>2, GoesOnBut
    <3> QED BY <3>1, <3>3
  <2>2. (executors \ {e}) \cup {} = rest
    BY <1>2
  <2> QED BY <2>1, <2>2
<1>4. GoesOn(rest, executors, {})
  BY <1>3
<1>5. PICK f : f = StageFailed(machine, e.stage)
  OBVIOUS
<1>6. ASSUME NEW bud, NEW at, Observe(machine, f, generation, book, bud, rest, runs, at),
             openGates' = Opened(f, book, openGates, runs), standing' = standing
      PROVE  KeepsOrder
  <2>1. f \in Machines /\ Follows(machine, f, {})
    BY <1>1, <1>5, StageFailedPreserves, StageFailedFollows
  <2>2. Grows(machine, f) /\ Owing(f) /\ f.cells = machine.cells
    BY <1>1, <1>5, StageFailedGrows DEF Owing
  <2>3. Written(machine, f, executors, {})
    BY <2>2 DEF Written
  <2>4. \A g \in Gates : Releases(g) \cap {} = {}
    OBVIOUS
  <2> QED BY <1>1, <1>4, <1>6, <2>1, <2>2, <2>3, <2>4, ObserveEventOrder
<1>7. ASSUME NEW p \in Ports, NEW v \in Values \ {Seed}, AgentWrite(e, p, v)
      PROVE  KeepsOrder
  <2>1. {p} \in SUBSET e.pending
    BY <1>7 DEF AgentWrite
  <2>2. PICK d : d = [e EXCEPT !.pending = @ \ {p}]
    OBVIOUS
  <2>3. d.stage = e.stage /\ d.run = e.run /\ d.pending \subseteq e.pending \ {p}
    BY <2>2 DEF TypeOK, Executor
  <2>4. PICK x : x = (executors \ {e}) \cup {d}
    OBVIOUS
  <2>5. GoesOn(x, executors, {p}) /\ GoesOn(x, executors, {})
    <3>1. PICK y : y = {d}
      OBVIOUS
    <3>2. /\ \A c \in y : /\ c.stage = e.stage /\ c.run = e.run
                          /\ c.pending \subseteq e.pending \ {p}
          /\ \A a, c \in y : a = c
      BY <2>3, <3>1
    <3>3. x = (executors \ {e}) \cup y
      BY <2>4, <3>1
    <3> QED BY <1>1, <2>1, <3>2, <3>3, GoesOnBut
  <2>6. Write(e, {p}, v, x, attempt)
    BY <1>7, <2>2, <2>4 DEF AgentWrite
  <2> QED BY <2>1, <2>5, <2>6, WriteOrder
<1>8. ASSUME NEW P \in SUBSET e.pending, NEW v \in Values \ {Seed}, ScriptReturn(e, P, v)
      PROVE  KeepsOrder
  <2>1. Write(e, P, v, rest, Settles(e, "success"))
    BY <1>2, <1>8 DEF ScriptReturn
  <2> QED BY <1>3, <1>4, <2>1, WriteOrder
<1>9. ASSUME AgentFinish(e)
      PROVE  KeepsOrder
  BY <1>2, <1>4, <1>9, StillOrder DEF AgentFinish, Unheard
<1>10. ASSUME ExecutorFail(e)
       PROVE  KeepsOrder
  <2>1. Failure(e, rest, Settles(e, "error")) /\ standing' = standing
    BY <1>2, <1>10 DEF ExecutorFail
  <2>2. ~RetriesOn(machine, e.stage)
    BY DEF RetriesOn
  <2>3. CASE Live
    BY <1>5, <1>6, <2>1, <2>2, <2>3 DEF Failure
  <2>4. CASE ~Live
    BY <1>4, <2>1, <2>4, StillOrder DEF Failure, Unheard
  <2> QED BY <2>3, <2>4
<1>11. ASSUME ExecutorSecretPending(e)
       PROVE  KeepsOrder
  <2>1. standing' = standing
    BY <1>11 DEF ExecutorSecretPending
  <2>2. CASE Live
    <3>1. \E bud, at : Observe(machine, f, generation, book, bud, rest, runs, at)
      BY <1>2, <1>5, <1>11, <2>2 DEF ExecutorSecretPending
    <3>2. openGates' = Opened(f, book, openGates, runs)
      BY <1>5, <1>11, <2>2 DEF ExecutorSecretPending
    <3> QED BY <1>6, <2>1, <3>1, <3>2
  <2>3. CASE ~Live
    <3>1. /\ executors' = rest /\ openGates' = openGates
          /\ UNCHANGED <<machine, runs, book, consumed>>
      BY <1>2, <1>11, <2>3 DEF ExecutorSecretPending
    <3> QED BY <1>4, <2>1, <3>1, StillOrder
  <2> QED BY <2>2, <2>3
<1> QED BY <1>7, <1>8, <1>9, <1>10, <1>11 DEF ExecutorStep

-----------------------------------------------------------------------------
\* The answer's comment, written before the answer is heard.
LEMMA AnsweredMoves ==
  ASSUME machine \in Machines, NEW r \in Rows, NEW ex
  PROVE  /\ Answered(r) \in Machines /\ Grows(machine, Answered(r))
         /\ Follows(machine, Answered(r), {}) /\ Owing(Answered(r))
         /\ Written(machine, Answered(r), ex, {Feedback[r.gate]})
<1>1. r.gate \in Gates /\ r.run \in Nat /\ Seed \in Values
  BY PortsAssumption DEF Rows
<1>2. PICK c : c = Cell(Seed, r.run)
  OBVIOUS
<1>3. c \in Cells
  BY <1>1, <1>2, CellType
<1>4. Follows(machine, PortWritten(machine, {Feedback[r.gate]}, c), {})
  BY <1>3, PortWrittenFollows
<1>5. PICK a : a = Answered(r)
  OBVIOUS
<1>6. Follows(machine, a, {})
  BY <1>2, <1>4, <1>5 DEF Answered
<1>7. /\ a \in Machines /\ Grows(machine, a) /\ Owing(a)
      /\ a.cells = [p \in Ports |-> IF p = Feedback[r.gate] THEN Cell(Seed, r.run)
                                    ELSE machine.cells[p]]
  BY <1>5, AnsweredCells
<1>8. Written(machine, a, ex, {Feedback[r.gate]})
  <2>1. IsFeedback(Feedback[r.gate])
    BY <1>1, FeedbackFacts
  <2> QED BY <1>7, <2>1 DEF Written
<1> QED BY <1>5, <1>6, <1>7, <1>8

\* Forward answers: what they release is behind their own gate, which is answered
\* now, or behind one that comes first, whose question cannot be open.
LEMMA ApproveOrder ==
  ASSUME WorkStopsAtGates, TypeOK, InOrder, NEW r \in openGates, NEW i, Approve(r, i)
  PROVE  KeepsOrder
<1>1. /\ r \in Rows /\ r.gate \in Gates /\ machine \in Machines
      /\ i \in DOMAIN Routes[r.gate]
  BY DEF TypeOK, Rows, Approve
<1>2. /\ Tidy(machine, executors, runs) /\ Held(machine, openGates, book.dispatched)
      /\ Stands(standing, book.dispatched)
  BY DEF InOrder, Order
<1>3. GoesOn(executors, executors, {})
  BY <1>2, GoesOnAll DEF Tidy
<1>4. PICK g : g = r.gate
  OBVIOUS
<1>5. PICK T : T = Routes[g][i]
  OBVIOUS
<1>6. T \in SUBSET Stages /\ T \subseteq Siblings[g]
  BY <1>1, <1>4, <1>5, RouteType
<1>7. CASE Live
  <2>1. PICK a : a = Answered(r)
    OBVIOUS
  <2>2. PICK n : n = GateAnswered(a, g, T)
    OBVIOUS
  <2>3. /\ a \in Machines /\ Grows(machine, a) /\ Follows(machine, a, {})
        /\ Written(machine, a, executors, {Feedback[g]})
    BY <1>1, <1>4, <2>1, AnsweredMoves
  <2>4. n \in Machines /\ Grows(a, n) /\ Owing(n) /\ n.cells = a.cells
    BY <1>1, <1>4, <1>6, <2>2, <2>3, GateAnsweredPreserves, GateAnsweredGrows DEF Owing
  <2>5. Follows(a, n, T) /\ (g \in Executing(a) => g \in Final(n))
    BY <1>1, <1>4, <1>6, <2>2, <2>3, GateAnsweredFollows
  <2>6. Grows(machine, n)
    BY <2>3, <2>4, GrowsTransitive
  <2>7. Follows(machine, n, T)
    <3>1. Follows(machine, n, {} \cup T)
      BY <2>3, <2>4, <2>5, FollowsTransitive
    <3>2. {} \cup T = T
      OBVIOUS
    <3> QED BY <3>1, <3>2
  <2>8. Written(machine, n, executors, {Feedback[g]})
    BY <2>3, <2>4 DEF Written
  <2>9. g \in Final(n)
    <3>1. g \notin Waiting(a)
      BY <1>2, <1>4, <2>3 DEF Held, Follows
    <3>2. g \in Executing(a) \/ g \in Final(a)
      BY <1>1, <1>4, <2>3, <3>1, StagesAssumption, RegionCases DEF Final
    <3>3. g \in Final(a) => g \in Final(n)
      BY <2>4 DEF Grows, Final, Done, Failed
    <3> QED BY <2>5, <3>2, <3>3
  <2>10. GoesOn(executors, executors, {Feedback[g]})
    <3>1. \A e \in Working(executors) : e.pending \subseteq e.pending \ {Feedback[g]}
      <4> SUFFICES ASSUME NEW e \in Working(executors) PROVE Feedback[g] \notin e.pending
        OBVIOUS
      <4>1. e.stage \in Stages /\ e.pending \subseteq Outputs[e.stage]
        BY <1>2 DEF Tidy, AtWork, Executing, Failed
      <4> QED BY <1>1, <1>4, <4>1, FeedbackFacts
    <3> QED BY <1>2, <3>1 DEF GoesOn, Tidy
  <2>11. \A h \in Gates : \/ Releases(h) \cap T = {}
                          \/ \E q \in openGates : q.gate \in After(h)
                          \/ h \in Final(n) /\ \A q \in openGates \ {r} : q.gate # h
    <3> SUFFICES ASSUME NEW h \in Gates, Releases(h) \cap T # {}, g \notin After(h)
                 PROVE  h \in Final(n) /\ \A q \in openGates \ {r} : q.gate # h
      BY <1>4
    <3>1. h = g
      <4>1. Releases(h) \cap Siblings[g] # {}
        BY <1>6
      <4> QED BY <1>1, <1>4, <4>1 DEF WorkStopsAtGates
    <3>2. \A q \in openGates \ {r} : q.gate # g
      BY <1>2, <1>4 DEF Held, RowsOk
    <3> QED BY <2>9, <3>1, <3>2
  <2>12. Stands(standing', book.dispatched)
    <3>1. g \in book.dispatched
      BY <1>2, <1>4 DEF Held, RowsOk
    <3>2. standing' = standing \cup {<<g, i>>}
      BY <1>4, <1>7 DEF Approve
    <3> QED BY <1>2, <3>1, <3>2 DEF Stands
  <2>13. PICK kept : kept = openGates \ {r}
    OBVIOUS
  <2>14. /\ Observe(machine, n, generation, book, budget, executors, runs, Closed(r))
         /\ openGates' = Opened(n, book, kept, runs)
    BY <1>4, <1>5, <1>7, <2>1, <2>2, <2>13 DEF Approve
  <2>15. Moves(machine, n, T, {Feedback[g]}, executors, executors, openGates, kept)
    <3>1. \A q \in kept : /\ q.gate \notin Waiting(machine)
                          /\ \A s \in GateAncestors[q.gate] : OutputsPresent(machine, s)
      BY <1>2, <2>13 DEF Held
    <3>2. \A h \in Gates : \/ Releases(h) \cap T = {}
                           \/ \E q \in openGates : q.gate \in After(h)
                           \/ h \in Final(n) /\ \A q \in kept : q.gate # h
      BY <2>11, <2>13
    <3> QED BY <2>4, <2>6, <2>7, <2>8, <2>10, <2>13, <3>1, <3>2 DEF Moves
  <2>16. RowsOk(kept, book.dispatched)
    BY <1>2, <2>13 DEF Held, RowsOk
  <2>17. runs \in [Stages -> Nat] /\ openGates \in SUBSET Rows /\ openGates \in SUBSET openGates
    BY DEF TypeOK, Rows
  <2>18. Asleep(machine, executors, openGates)
    BY DEF InOrder, Order
  <2> QED BY <1>2, <2>12, <2>14, <2>15, <2>16, <2>17, <2>18, ObserveOrder
<1>8. CASE ~Live
  BY <1>3, <1>8, StillOrder DEF Approve, Unheard
<1> QED BY <1>7, <1>8

\* Rejects: nothing else goes on, and what is taken back takes all that follows along.
LEMMA RejectOrder ==
  ASSUME WorkStopsAtGates, RewindsTargetsToo, TypeOK, InOrder,
         NEW r \in openGates, NEW i, Reject(r, i)
  PROVE  KeepsOrder
<1> DEFINE g == r.gate
           reset == Affected[g]
<1>1. /\ r \in Rows /\ g \in Gates /\ machine \in Machines
      /\ runs \in [Stages -> Nat] /\ openGates \in SUBSET Rows
  BY DEF TypeOK, Rows
<1>2. /\ Tidy(machine, executors, runs) /\ Stands(standing, book.dispatched)
      /\ Order(machine, executors, runs, openGates, book.dispatched)
  BY DEF InOrder, Order
<1>3. GoesOn(executors, executors, {})
  BY <1>2, GoesOnAll DEF Tidy
<1>4. CASE phase # "live"
  BY <1>3, <1>4, StillOrder DEF Reject, Unheard
<1>5. CASE phase = "live"
  <2>1. PICK now : now = IF actorUp THEN Answered(r) ELSE machine
    OBVIOUS
  <2>2. PICK m : m = Pruned(Rewound(now, reset, {Feedback[g]}), reset)
    OBVIOUS
  <2>3. PICK bk : bk = [Cleared(book, reset) EXCEPT !.rejected = @ \cup {g}]
    OBVIOUS
  <2>4. /\ Rebuild(m, bk, executors, runs, Closed(r), openGates \ {r})
        /\ standing' = IF Exhausted THEN standing ELSE {a \in standing : a[1] \notin reset}
    BY <1>5, <2>1, <2>2, <2>3 DEF Reject
  <2>5. CASE Exhausted
    BY <1>3, <2>4, <2>5, StillOrder DEF Rebuild
  <2>6. CASE ~Exhausted
    <3>1. /\ now \in Machines /\ Grows(machine, now) /\ Follows(machine, now, {}) /\ Owing(now)
          /\ Written(machine, now, executors, {Feedback[g]})
      <4>1. CASE actorUp
        BY <1>1, <2>1, <4>1, AnsweredMoves
      <4>2. CASE ~actorUp
        <5>1. now = machine
          BY <2>1, <4>2
        <5>2. IsFeedback(Feedback[g])
          BY <1>1, FeedbackFacts
        <5>3. Grows(machine, machine) /\ Follows(machine, machine, {})
          BY DEF Grows, Follows
        <5> QED BY <1>1, <1>2, <5>1, <5>2, <5>3 DEF Written, Tidy
      <4> QED BY <4>1, <4>2
    <3>2. Tidy(m, executors, runs) /\ Asleep(m, executors, {})
      BY <1>1, <1>2, <2>2, <3>1, RewoundOrder
    <3>3. EveryStageWrites /\ Current(machine, consumed) => Current(m, consumed)
      BY <1>1, <1>2, <2>2, <3>1, RewoundCurrent
    <3>4. m \in Machines
      BY <3>2 DEF Tidy
    <3>5. PICK n : n = Replayed(m, bk)
      OBVIOUS
    <3>6. n \in Machines /\ Grows(m, n) /\ n.cells = m.cells /\ Owing(n) /\ Follows(m, n, {})
      BY <3>4, <3>5, ReplayedPreserves, ReplayedGrows, ReplayedFollows DEF Owing
    <3>7. PICK none : none = {}
      OBVIOUS
    <3>8. Moves(m, n, none, none, executors, executors, none, none)
      <4>1. Written(m, n, executors, {})
        BY <3>6 DEF Written
      <4> QED BY <1>3, <3>6, <3>7, <4>1 DEF Moves
    <3>9. openGates \ {r} = none
      BY <1>1, <1>2, <3>7, QuietUnderQuestion
    <3>10. /\ Observe(m, n, generation + 1, bk, budget, executors, runs, Closed(r))
           /\ openGates' = Opened(n, bk, none, runs)
      BY <2>4, <2>6, <3>5, <3>9 DEF Rebuild
    <3>11. Stands(standing', bk.dispatched)
      <4>1. bk.dispatched = book.dispatched \ reset
        BY <2>3 DEF TypeOK, Cleared
      <4> QED BY <1>2, <2>4, <2>6, <4>1 DEF Stands
    <3>12. RowsOk(none, bk.dispatched) /\ none \in SUBSET openGates
      BY <3>7 DEF RowsOk
    <3>13. Asleep(m, executors, none)
      BY <3>2, <3>7
    <3> QED BY <1>1, <3>2, <3>3, <3>8, <3>10, <3>11, <3>12, <3>13, ObserveOrder
  <2> QED BY <2>5, <2>6
<1> QED BY <1>4, <1>5

\* Every step.
LEMMA OrderNext ==
  ASSUME WorkStopsAtGates, RewindsTargetsToo, Retrying = {}, Rewriters = {},
         TypeOK, InOrder, [Next]_vars
  PROVE  KeepsOrder
<1>1. CASE \E e \in executors : ExecutorStep(e)
  BY <1>1, ExecutorOrder
<1>2. CASE \E r \in openGates : Answer(r)
  BY <1>2, ApproveOrder, RejectOrder DEF Answer
<1>3. CASE Finish \/ Interrupt \/ GraceExpires \/ CancelTask \/ Timeout \/ Quiet \/ UNCHANGED vars
  <2>1. /\ machine' = machine /\ runs' = runs /\ book' = book /\ consumed' = consumed
        /\ standing' = standing /\ executors' = executors /\ openGates' \subseteq openGates
    BY <1>3 DEF Finish, Interrupt, GraceExpires, CancelTask, Timeout, Quiet, Observations, vars
  <2>2. GoesOn(executors, executors, {})
    BY GoesOnAll DEF InOrder, Order, Tidy
  <2> QED BY <2>1, <2>2, StillOrder
<1> QED BY <1>1, <1>2, <1>3 DEF Next, Work

\* A compiled machine before START is in order: nothing has happened.
LEMMA FreshOrder ==
  ASSUME NEW seeds \in [{p \in Ports : Owner[p] = External} -> Values],
         NEW m, m = Fresh(seeds), NEW rn, NEW cons
  PROVE  Tidy(m, {}, rn) /\ Asleep(m, {}, {}) /\ Current(m, cons)
<1>1. m \in Machines /\ m.authorized = {} /\ Executing(m) = {}
  BY FreshType, FreshSound
<1>2. \A s \in Stages : m.region[s] = "waiting"
  BY DEF Fresh
<1>3. Done(m) = {} /\ Failed(m) = {}
  BY <1>2 DEF Done, Failed
<1>4. \A s \in Stages : \A p \in Outputs[s] : ~Present(m, p)
  <2> SUFFICES ASSUME NEW s \in Stages, NEW p \in Outputs[s] PROVE ~Present(m, p)
    OBVIOUS
  <2>1. p \in Ports /\ Owner[p] # External /\ ~IsFeedback(p)
    BY StagesAssumption, OutputFacts
  <2>2. m.cells[p] = Absent
    BY <2>1 DEF Fresh
  <2> QED BY <2>2 DEF Present, Absent
<1>5. Working({}) = {}
  BY DEF Working
<1>6. Tidy(m, {}, rn)
  BY <1>1, <1>3, <1>4, <1>5 DEF Tidy, Full, Fed, Owing, Silent, Grounded, AtWork, OneEach,
                                 Newest, Waiting
<1>7. Asleep(m, {}, {})
  <2>1. \A g \in Gates : After(g) \subseteq Stages
    BY AfterType
  <2> QED BY <1>1, <1>4, <1>5, <2>1 DEF Asleep, Untouched
<1> QED BY <1>1, <1>3, <1>6, <1>7 DEF Current

\* The first actor finds and leaves everything in order.
LEMMA OrderInit ==
  ASSUME WorkStopsAtGates, Init
  PROVE  InOrder /\ (EveryStageWrites => Current(machine, consumed))
<1>1. PICK seeds \in [{p \in Ports : Owner[p] = External} -> Values] : Init!(seeds)
  BY DEF Init
<1>2. PICK m : m = Fresh(seeds)
  OBVIOUS
<1>3. PICK n : n = Settle(m)
  OBVIOUS
<1>4. PICK bk : bk = [published |-> {}, cancelled |-> {}, dispatched |-> {}, rejected |-> {}]
  OBVIOUS
<1>5. PICK none : none = [s \in Stages |-> 0]
  OBVIOUS
<1>6. PICK doomed : doomed = Propagation(n, bk)
  OBVIOUS
<1>7. PICK nil : nil = {}
  OBVIOUS
<1>8. /\ m \in Machines /\ Executing(m) = {} /\ n \in Machines /\ n.cells = m.cells
      /\ Grows(m, n) /\ Owing(n) /\ Follows(m, n, {})
  <2>1. m \in Machines /\ Executing(m) = {}
    BY <1>2, FreshType, FreshSound
  <2> QED BY <1>3, <2>1, SettlePreserves, SettleGrows, SettleFollows DEF Owing
<1>9. none \in [Stages -> Nat]
  BY <1>5
<1>10. /\ Tidy(m, nil, none) /\ Asleep(m, nil, nil)
       /\ Current(m, [s \in Stages |-> [p \in Ports |-> Absent]])
  BY <1>2, <1>7, FreshOrder
<1>11. Moves(m, n, nil, nil, nil, nil, nil, nil)
  <2>1. Written(m, n, {}, {})
    BY <1>8 DEF Written
  <2>2. GoesOn({}, {}, {})
    BY GoesOnAll DEF OneEach, Working
  <2> QED BY <1>7, <1>8, <2>1, <2>2 DEF Moves
<1>12. PICK U : U = Executing(n) \cap Gates
  OBVIOUS
<1>13. Invoked(m, n) = Executing(n) \ Gates
  BY <1>8 DEF Invoked
<1>14. /\ machine = StageCancelled(n, doomed)
       /\ executors = Started(Executing(n) \ Gates, none, 1)
       /\ runs = Bumped(none, (Executing(n) \ Gates) \cup (Executing(n) \cap Gates))
       /\ book.dispatched = Executing(n) \cap Gates
       /\ openGates = Opened(n, bk, {}, none)
       /\ standing = {}
       /\ consumed = [s \in Stages |-> [p \in Ports |->
                        IF s \in Executing(n) \ Gates /\ p \in Inputs[s] THEN n.cells[p]
                        ELSE Absent]]
  BY <1>1, <1>2, <1>3, <1>4, <1>5, <1>6
<1>15. \A r \in openGates : r.gate \in U /\ r = [gate |-> r.gate, run |-> none[r.gate] + 1]
  BY <1>12, <1>14 DEF Opened, Undispatched
<1>16. RowsOk({} \cup openGates, U)
  BY <1>15 DEF RowsOk
<1>17. Order(StageCancelled(n, doomed), {} \cup Started(Invoked(m, n), none, 1),
             Bumped(none, Invoked(m, n) \cup U), {} \cup openGates, U)
  <2>1. nil \in SUBSET Rows /\ U \in SUBSET (Executing(n) \cap Gates)
    BY <1>7, <1>12
  <2>2. PICK new : new = openGates
    OBVIOUS
  <2>3. RowsOk(nil \cup new, U) /\ \A r \in new : r.gate \in U
    BY <1>7, <1>15, <1>16, <2>2
  <2>4. Order(StageCancelled(n, doomed), nil \cup Started(Invoked(m, n), none, 1),
              Bumped(none, Invoked(m, n) \cup U), nil \cup new, U)
    BY <1>9, <1>10, <1>11, <2>1, <2>3, ReactOrder
  <2> QED BY <1>7, <2>2, <2>4
<1>18. Order(machine, executors, runs, openGates, book.dispatched)
  <2>1. {} \cup openGates = openGates /\ \A S : {} \cup S = S
    OBVIOUS
  <2> QED BY <1>12, <1>13, <1>14, <1>17, <2>1
<1>19. ASSUME EveryStageWrites
       PROVE  Current(machine, consumed)
  <2>1. PICK c : c = consumed
    OBVIOUS
  <2>2. PICK void : void = [s \in Stages |-> [p \in Ports |-> Absent]]
    OBVIOUS
  <2>3. ASSUME NEW s \in Stages, NEW p \in Inputs[s]
        PROVE  c[s][p] = IF s \in Invoked(m, n) THEN n.cells[p] ELSE void[s][p]
    <3>1. p \in Ports
      BY InputFacts
    <3> QED BY <1>13, <1>14, <2>1, <2>2, <3>1
  <2>4. Invoked(m, n) \subseteq Stages
    BY DEF Invoked, Executing
  <2>5. Written(m, n, nil, nil)
    BY <1>11 DEF Moves
  <2>6. Current(m, void)
    BY <1>10, <2>2
  <2>7. Current(StageCancelled(n, doomed), c)
    <3>1. \A s \in Invoked(m, n) : \A p \in Inputs[s] : c[s][p] = n.cells[p]
      BY <2>3, <2>4
    <3>2. \A s \in Stages \ Invoked(m, n) : \A p \in Inputs[s] : c[s][p] = void[s][p]
      BY <2>3
    <3> QED BY <1>8, <1>10, <1>19, <2>5, <2>6, <3>1, <3>2, EventCurrent
  <2> QED BY <1>14, <2>1, <2>7
<1> QED BY <1>14, <1>18, <1>19 DEF InOrder, Stands

OrderInv == TypeOK /\ InOrder

\* Every step keeps it.
LEMMA OrderInvNext ==
  ASSUME WorkStopsAtGates, RewindsTargetsToo, Retrying = {}, Rewriters = {},
         OrderInv, [Next]_vars
  PROVE  /\ OrderInv' /\ AskedStep
         /\ EveryStageWrites /\ Current(machine, consumed) => Current(machine, consumed)'
<1>1. TypeOK' /\ KeepsOrder
  BY NextType, OrderNext DEF OrderInv
<1>2. InOrder'
  BY <1>1 DEF KeepsOrder, InOrder
<1>3. EveryStageWrites /\ Current(machine, consumed) => Current(machine', consumed')
  BY <1>1 DEF KeepsOrder
<1> QED BY <1>1, <1>2, <1>3 DEF OrderInv, KeepsOrder

\* At most one executor works on a stage, where nothing goes on beside an open
\* question: rebuilds leave executors running, but a reject finds none at work.
THEOREM OneExecutor ==
  ASSUME WorkStopsAtGates, RewindsTargetsToo, Retrying = {}, Rewriters = {}
  PROVE  Spec => []OneExecutorPerStage
<1>1. Init => OrderInv
  BY InitType, OrderInit DEF OrderInv
<1>2. OrderInv /\ [Next]_vars => OrderInv'
  BY OrderInvNext
<1>3. OrderInv => OneExecutorPerStage
  BY DEF OrderInv, InOrder, Order, Tidy, OneEach, Working, OneExecutorPerStage
<1> QED BY <1>1, <1>2, <1>3, PTL DEF Spec

\* No mixture of runs there: an output of a finished stage was written by the
\* executor of its latest run, not by one a rollback left behind.
THEOREM LatestRunOnly ==
  ASSUME WorkStopsAtGates, RewindsTargetsToo, Retrying = {}, Rewriters = {}
  PROVE  Spec => []OutputsAreFromLatestRun
<1>1. Init => OrderInv
  BY InitType, OrderInit DEF OrderInv
<1>2. OrderInv /\ [Next]_vars => OrderInv'
  BY OrderInvNext
<1>3. OrderInv => OutputsAreFromLatestRun
  <2> SUFFICES ASSUME OrderInv, NEW s \in Done(machine), s \notin machine.skipped,
                      NEW p \in Outputs[s]
               PROVE  machine.cells[p].run = runs[s]
    BY DEF OutputsAreFromLatestRun
  <2>1. Full(machine) /\ Newest(machine, runs) /\ s \in Stages
    BY DEF OrderInv, InOrder, Order, Tidy, Done
  <2> QED BY <2>1 DEF Full, Newest, OutputsPresent
<1> QED BY <1>1, <1>2, <1>3, PTL DEF Spec

\* A stage never stays built on replaced data there: whatever a rollback rewinds,
\* it rewinds the readers too, and nobody writes again what has been read.
THEOREM NothingIsStale ==
  ASSUME WorkStopsAtGates, EveryStageWrites, RewindsTargetsToo, Retrying = {}, Rewriters = {}
  PROVE  Spec => []InputsAreCurrent
<1>1. Init => OrderInv /\ Current(machine, consumed)
  BY InitType, OrderInit DEF OrderInv
<1>2. OrderInv /\ Current(machine, consumed) /\ [Next]_vars
        => OrderInv' /\ Current(machine, consumed)'
  BY OrderInvNext
<1>3. Current(machine, consumed) => InputsAreCurrent
  BY DEF Current, InputsAreCurrent
<1> QED BY <1>1, <1>2, <1>3, PTL DEF Spec

\* With gates one after another one question is open at a time, and so one per
\* gate, although a reject of a later gate rewinds the earlier ones.
THEOREM OneQuestionInSequence ==
  ASSUME WorkStopsAtGates, RewindsTargetsToo, Retrying = {}, Rewriters = {}
  PROVE  Spec => []OneOpenRowPerGate
<1>1. Init => OrderInv
  BY InitType, OrderInit DEF OrderInv
<1>2. OrderInv /\ [Next]_vars => OrderInv'
  BY OrderInvNext
<1>3. OrderInv => OneOpenRowPerGate
  BY DEF OrderInv, InOrder, Order, Held, RowsOk, OneOpenRowPerGate
<1> QED BY <1>1, <1>2, <1>3, PTL DEF Spec

\* And a gate whose answer stands is not asked again.
THEOREM NotAskedAgainInSequence ==
  ASSUME WorkStopsAtGates, RewindsTargetsToo, Retrying = {}, Rewriters = {}
  PROVE  Spec => AskedOnce
<1>1. Init => OrderInv
  BY InitType, OrderInit DEF OrderInv
<1>2. OrderInv /\ [Next]_vars => OrderInv' /\ AskedStep
  BY OrderInvNext
<1>3. AskedStep => [\A r \in openGates' \ openGates : \A a \in standing' : a[1] # r.gate]_vars
  BY DEF AskedStep
<1> QED BY <1>1, <1>2, <1>3, PTL DEF Spec, AskedOnce

-----------------------------------------------------------------------------
(***************************************************************************)
(* Answers that can be told apart: what a rebuild recovers from the        *)
(* authorizations is the answer that stands, or one that leaves out nobody *)
(* who still waits.                                                        *)
(***************************************************************************)

\* Seeds and comments are there from the start.
Seeded(m) == \A p \in Ports : Owner[p] = External \/ IsFeedback(p) => Present(m, p)

\* The answers that stand are forward answers, one per gate.
OneAnswer(S) ==
  /\ \A a \in S : a[1] \in Gates /\ a[2] \in DOMAIN Routes[a[1]] /\ ~IsReject(a[1], a[2])
  /\ \A a, b \in S : a[1] = b[1] => a = b

\* Who is authorized was picked by one of them.
Owed(m, S) == \A s \in m.authorized : \E a \in S : s \in Routes[a[1]][a[2]]

\* Who is put down as skipped was left out: a gate leads there, and if one leads there
\* by a forward answer, the answer that stands is another.
LeftOut(m, S) ==
  \A s \in m.skipped :
    /\ \E g \in Gates : s \in Siblings[g]
    /\ \A g \in Gates : \A i \in DOMAIN Routes[g] :
         ~IsReject(g, i) /\ s \in Routes[g][i] => \E a \in S : a[1] = g /\ s \notin Routes[g][a[2]]

\* Only rollbacks that take the answer of g back take back the release of s.
Firm(g, s) == \A h \in Gates : s \in Affected[h] => g \in Affected[h]

\* A gate whose answer stands is final, and if done has released what it picked.
Heard(m, S) ==
  \A a \in S :
    /\ a[1] \in Final(m)
    /\ a[1] \in Done(m) => \A s \in Routes[a[1]][a[2]] : Firm(a[1], s) => s \in m.authorized

\* A gate with an open question is at work or has failed, and has no answer that stands.
Unanswered(m, S, rows) ==
  \A r \in rows :
    /\ r.gate \in Gates
    /\ r.gate \in Executing(m) \cup Failed(m)
    /\ Released(m, r.gate)
    /\ \A a \in S : a[1] # r.gate

Told(m, S, rows) ==
  /\ m \in Machines
  /\ Seeded(m) /\ ReleasedOnly(m)
  /\ OneAnswer(S) /\ Owed(m, S) /\ LeftOut(m, S) /\ Heard(m, S)
  /\ Unanswered(m, S, rows)

\* An event that is no answer.
LEMMA TurnsTold ==
  ASSUME NEW m, NEW S, NEW rows, Told(m, S, rows),
         NEW n \in Machines, Seeded(n), ReleasedOnly(n), Follows(m, n, {}), Turns(m, n, {}, {})
  PROVE  Told(n, S, rows)
<1>1. n.authorized = m.authorized /\ n.skipped \subseteq m.skipped
  BY DEF Follows, Turns
<1>2. Owed(n, S) /\ LeftOut(n, S)
  BY <1>1 DEF Told, Owed, LeftOut
<1>3. \A s \in Final(m) : s \in Final(n) /\ (s \in Done(n) => s \in Done(m))
  BY DEF Turns, Final, Done, Failed
<1>4. Heard(n, S)
  BY <1>1, <1>3 DEF Told, Heard
<1>5. Unanswered(n, S, rows)
  <2> SUFFICES ASSUME NEW r \in rows
               PROVE  r.gate \in Executing(n) \cup Failed(n) /\ Released(n, r.gate)
    BY DEF Told, Unanswered
  <2>1. /\ r.gate \in Gates /\ r.gate \in Executing(m) \cup Failed(m)
        /\ Released(m, r.gate)
    BY DEF Told, Unanswered
  <2>2. Released(n, r.gate)
    BY <1>1, <2>1 DEF Released
  <2>3. r.gate \in Failed(m) => r.gate \in Failed(n)
    BY DEF Turns, Final, Failed
  <2>4. r.gate \in Executing(m) => r.gate \in Executing(n) \cup Failed(n)
    BY <2>1 DEF Turns
  <2> QED BY <2>1, <2>2, <2>3, <2>4
<1> QED BY <1>2, <1>4, <1>5 DEF Told

\* A forward answer to an open question.
LEMMA AnswerTold ==
  ASSUME AnswersAreApart, NEW m, NEW S, NEW rows, Told(m, S, rows),
         NEW D, RowsOk(rows, D), NEW r \in rows, NEW i \in DOMAIN Routes[r.gate],
         ~IsReject(r.gate, i), NEW n, n = GateAnswered(m, r.gate, Routes[r.gate][i]),
         NEW T, T = S \cup {<<r.gate, i>>}
  PROVE  Told(n, T, rows \ {r})
<1> DEFINE g == r.gate
           targets == Routes[g][i]
           b == <<g, i>>
<1>1. /\ m \in Machines /\ g \in Gates /\ targets \in SUBSET Stages
      /\ g \in Executing(m) \cup Failed(m) /\ \A a \in S : a[1] # g
  BY RouteType DEF Told, Unanswered
<1>2. b[1] = g /\ b[2] = i /\ \A a \in T : a \in S \/ a = b
  OBVIOUS
<1>3. /\ n \in Machines /\ Grows(m, n) /\ n.cells = m.cells
      /\ ReleasedOnly(m) => ReleasedOnly(n)
  BY <1>1, GateAnsweredPreserves, GateAnsweredGrows
<1>4. /\ Follows(m, n, targets) /\ Turns(m, n, {g}, Unpicked(g, targets))
      /\ g \in Executing(m) => g \in Final(n) /\ targets \subseteq n.authorized
  BY <1>1, GateAnsweredFollows
<1> HIDE DEF b
<1>5. Seeded(n) /\ ReleasedOnly(n)
  BY <1>3 DEF Told, Seeded, Grows
<1>6. OneAnswer(T)
  <2>1. \A a \in T : a[1] \in Gates /\ a[2] \in DOMAIN Routes[a[1]] /\ ~IsReject(a[1], a[2])
    BY <1>1, <1>2 DEF Told, OneAnswer
  <2>2. \A a, c \in T : a[1] = c[1] => a = c
    BY <1>1, <1>2 DEF Told, OneAnswer
  <2> QED BY <2>1, <2>2 DEF OneAnswer
<1>7. Owed(n, T)
  <2> SUFFICES ASSUME NEW s \in n.authorized
               PROVE  \E a \in T : s \in Routes[a[1]][a[2]]
    BY DEF Owed
  <2>1. s \in m.authorized \/ s \in targets
    BY <1>4 DEF Follows
  <2>2. b \in T
    BY DEF b
  <2> QED BY <1>2, <2>1, <2>2 DEF Told, Owed
<1>8. LeftOut(n, T)
  <2> SUFFICES ASSUME NEW s \in n.skipped
               PROVE  /\ \E h \in Gates : s \in Siblings[h]
                      /\ \A h \in Gates : \A j \in DOMAIN Routes[h] :
                           ~IsReject(h, j) /\ s \in Routes[h][j] =>
                             \E a \in T : a[1] = h /\ s \notin Routes[h][a[2]]
    BY DEF LeftOut
  <2>1. s \in m.skipped \/ s \in Siblings[g] \ targets
    BY <1>4 DEF Turns, Unpicked
  <2>2. CASE s \in m.skipped
    BY <1>2, <2>2 DEF Told, LeftOut
  <2>3. CASE s \in Siblings[g] \ targets
    <3>1. ASSUME NEW h \in Gates, NEW j \in DOMAIN Routes[h], ~IsReject(h, j), s \in Routes[h][j]
          PROVE  h = g
      BY <1>1, <2>3, <3>1 DEF AnswersAreApart
    <3>2. b \in T
      BY DEF b
    <3> QED BY <1>1, <1>2, <2>3, <3>1, <3>2
  <2> QED BY <2>1, <2>2, <2>3
<1>9. Heard(n, T)
  <2> SUFFICES ASSUME NEW a \in T
               PROVE  /\ a[1] \in Final(n)
                      /\ a[1] \in Done(n) => \A s \in Routes[a[1]][a[2]] :
                                               Firm(a[1], s) => s \in n.authorized
    BY DEF Heard
  <2>0. \A s \in Final(m) : s \in Final(n) /\ (s \in Done(n) => s \in Done(m))
    BY <1>4 DEF Turns, Final, Done, Failed
  <2>1. CASE a \in S
    BY <1>4, <2>0, <2>1 DEF Told, Heard, Follows
  <2>2. CASE a = b /\ g \in Executing(m)
    BY <1>2, <1>4, <2>2
  <2>3. CASE a = b /\ g \in Failed(m)
    <3>1. g \in Final(n) /\ g \notin Done(n)
      BY <1>1, <2>0, <2>3, RegionCases DEF Final, Failed
    <3> QED BY <1>2, <2>3, <3>1
  <2> QED BY <1>1, <1>2, <2>1, <2>2, <2>3
<1>10. Unanswered(n, T, rows \ {r})
  <2> SUFFICES ASSUME NEW q \in rows \ {r}
               PROVE  /\ q.gate \in Gates
                      /\ q.gate \in Executing(n) \cup Failed(n)
                      /\ Released(n, q.gate)
                      /\ \A a \in T : a[1] # q.gate
    BY DEF Unanswered
  <2>1. q.gate # g
    BY DEF RowsOk
  <2>2. /\ q.gate \in Gates /\ q.gate \in Executing(m) \cup Failed(m)
        /\ Released(m, q.gate) /\ \A a \in S : a[1] # q.gate
    BY DEF Told, Unanswered
  <2>3. Released(n, q.gate)
    BY <1>4, <2>2 DEF Follows, Released
  <2>4. q.gate \in Failed(m) => q.gate \in Failed(n)
    BY <1>4 DEF Turns, Final, Failed
  <2>5. q.gate \in Executing(m) => q.gate \in Executing(n) \cup Failed(n)
    BY <1>4, <2>1, <2>2 DEF Turns
  <2> QED BY <1>2, <2>1, <2>2, <2>3, <2>4, <2>5
<1> QED BY <1>3, <1>5, <1>6, <1>7, <1>8, <1>9, <1>10 DEF Told

-----------------------------------------------------------------------------
\* A skipped stage waits no longer, nor does a released one that has all its inputs;
\* a gate is then asked or fails.
LEMMA SettleStarts ==
  ASSUME NEW m \in Machines, NEW s \in Waiting(m)
  PROVE  /\ s \in m.skipped => s \notin Waiting(Settle(m))
         /\ Released(m, s) /\ FedAt(m, s) => s \notin Waiting(Settle(m))
         /\ s \in Gates \ m.skipped /\ Released(m, s) /\ FedAt(m, s) =>
              s \in Executing(Settle(m)) \cup Failed(Settle(m))
<1> DEFINE n == Settle(m)
           enters(t) == /\ t \in Waiting(m) \ m.skipped
                        /\ AllInboundDelivered(m, t)
           dead(t)   == /\ t \in Waiting(m) \ m.skipped
                        /\ NoDeliverableWire(m, t)
           done(t)   == \/ t \in Waiting(m) \cap m.skipped
                        \/ (t \in Executing(m) \/ enters(t)) /\ AllOutboundPresent(m, t)
           R == [t \in Stages |-> CASE done(t) -> "done"
                                    [] enters(t) /\ ~done(t) -> "executing"
                                    [] dead(t) -> "error"
                                    [] OTHER -> m.region[t]]
           Q == [t \in Stages |-> IF dead(t) THEN "no_active_wire" ELSE m.reason[t]]
<1>1. n = [m EXCEPT !.region = R, !.reason = Q]
  BY DEF Settle
<1>2. s \in Stages
  BY DEF Waiting
<1>3. enters(s) => ~dead(s)
  BY DEF AllInboundDelivered, NoDeliverableWire, WiresDeliver, WiresDead
<1>4. dead(s) => ~done(s)
  BY <1>3, RegionCases, <1>2
<1>5. s \in Waiting(m) \ m.skipped /\ Released(m, s) /\ FedAt(m, s) => enters(s) \/ dead(s)
  BY DEF AllInboundDelivered, NoDeliverableWire, WiresDeliver, WiresDead, FedAt, Present,
         Delivers, Settled
<1>6. s \in Waiting(m) \cap m.skipped => done(s)
  OBVIOUS
<1>7. s \in Gates \ m.skipped => ~done(s)
  BY <1>2, RegionCases DEF AllOutboundPresent
<1> HIDE DEF enters, dead, done
<1>8. /\ done(s) => R[s] = "done"
      /\ enters(s) /\ ~done(s) => R[s] = "executing"
      /\ dead(s) => R[s] = "error"
  BY <1>2, <1>3, <1>4
<1> HIDE DEF R, Q, n
<1>9. n.region = R
  BY <1>1 DEF Machines
<1>10. /\ done(s) => s \in Done(n)
       /\ enters(s) /\ ~done(s) => s \in Executing(n)
       /\ dead(s) => s \in Failed(n)
  BY <1>2, <1>8, <1>9 DEF Done, Executing, Failed
<1>11. s \in Waiting(n) => s \notin Done(n) /\ s \notin Executing(n) /\ s \notin Failed(n)
  BY DEF Waiting, Done, Executing, Failed
<1>12. s \in m.skipped => s \notin Waiting(n)
  BY <1>6, <1>10, <1>11
<1>13. Released(m, s) /\ FedAt(m, s) => s \notin Waiting(n)
  BY <1>5, <1>10, <1>11, <1>12
<1>14. s \in Gates \ m.skipped /\ Released(m, s) /\ FedAt(m, s) => s \in Executing(n) \cup Failed(n)
  BY <1>5, <1>7, <1>10
<1> QED BY <1>12, <1>13, <1>14 DEF n

\* No forward wire leaves a gate: it comes before no other, so an answer that leads
\* there has to release it.
LEMMA GateIsNoAncestor ==
  ASSUME NEW g \in Gates, NEW h \in Gates, g \in Siblings[h]
  PROVE  g \in GateRouted
<1>1. g \in Stages
  BY StagesAssumption
<1>2. \A e \in ForwardEdges : e[1] # g
  <2> SUFFICES ASSUME NEW e \in ForwardEdges, e[1] = g PROVE FALSE
    OBVIOUS
  <2>1. PICK w \in Wires : /\ Owner[w.port] # External /\ ~IsFeedback(w.port)
                           /\ e = <<Owner[w.port], w.to>>
    BY DEF ForwardEdges
  <2>2. w.port \in Ports /\ Owner[w.port] = g
    BY <2>1, WiresAssumption
  <2>3. w.port = Feedback[g]
    BY <2>2, PortsAssumption
  <2> QED BY <2>1, <2>3 DEF IsFeedback
<1>3. ForwardFrom[g] \subseteq {g}
  <2> SUFFICES ASSUME NEW t \in ForwardFrom[g] PROVE t = g
    OBVIOUS
  <2>1. \A C \in SUBSET Stages : {g} \subseteq C /\ (\A e \in ForwardEdges : e[1] \in C => e[2] \in C) => t \in C
    BY <1>1 DEF ForwardFrom, Reach
  <2>2. \A e \in ForwardEdges : e[1] \in {g} => e[2] \in {g}
    BY <1>2
  <2> QED BY <1>1, <2>1, <2>2
<1>4. g \notin GateAncestors[h]
  BY <1>3 DEF GateAncestors
<1> QED BY <1>4 DEF GateRouted

-----------------------------------------------------------------------------
\* A machine rewound before START, told by the answers of S and asking about rows.
Rested(m, S, rows, D) ==
  /\ m \in Machines /\ Idle(m) /\ Seeded(m)
  /\ OneAnswer(S) /\ Owed(m, S) /\ LeftOut(m, S) /\ Heard(m, S)
  /\ \A g \in D : FedAt(m, g)
  /\ \A r \in rows : /\ r.gate \in Gates \cap D
                     /\ r.gate \in Waiting(m) \cup Failed(m)
                     /\ Released(m, r.gate)
                     /\ \A a \in S : a[1] # r.gate

\* What somebody picked is not left out.
LEMMA OwedIsIn ==
  ASSUME NEW m, NEW S, OneAnswer(S), Owed(m, S), LeftOut(m, S), NEW s, s \in m.authorized
  PROVE  s \notin m.skipped
<1> SUFFICES ASSUME s \in m.skipped PROVE FALSE
  OBVIOUS
<1>1. PICK a \in S : s \in Routes[a[1]][a[2]]
  BY DEF Owed
<1>2. a[1] \in Gates /\ a[2] \in DOMAIN Routes[a[1]] /\ ~IsReject(a[1], a[2])
  BY DEF OneAnswer
<1>3. PICK b \in S : b[1] = a[1] /\ s \notin Routes[a[1]][b[2]]
  BY <1>1, <1>2 DEF LeftOut
<1>4. a = b
  BY <1>3 DEF OneAnswer
<1> QED BY <1>1, <1>3, <1>4

\* Whoever the replay puts down as skipped is left out by the answer that stands: the
\* one recovered shares a target with it, so it is an answer of the same gate, all of
\* whose targets that one picks too, and of the others none would still wait.
LEMMA ReplayLeavesOut ==
  ASSUME AnswersAreApart, AnswersAreTold, NEW m, NEW S, NEW rows, NEW D,
         Rested(m, S, rows, D), Stands(S, D), NEW s \in ReplaySkips(m)
  PROVE  /\ \E g \in Gates : s \in Siblings[g]
         /\ \A g \in Gates : \A i \in DOMAIN Routes[g] :
              ~IsReject(g, i) /\ s \in Routes[g][i] => \E a \in S : a[1] = g /\ s \notin Routes[g][a[2]]
<1>1. PICK h \in Gates \cap Done(m) : \E i \in Recovered(m, h) : s \in Siblings[h] \ Routes[h][i]
  BY DEF ReplaySkips
<1>2. PICK k \in Recovered(m, h) : s \in Siblings[h] \ Routes[h][k]
  BY <1>1
<1>3. k \in DOMAIN Routes[h] /\ Routes[h][k] \subseteq m.authorized
  BY DEF Recovered
<1>4. ASSUME NEW t \in Routes[h][k]
      PROVE  \E a \in S : a[1] = h /\ t \in Routes[h][a[2]]
  <2>1. PICK a \in S : t \in Routes[a[1]][a[2]]
    BY <1>3 DEF Rested, Owed
  <2>2. a[1] \in Gates /\ a[2] \in DOMAIN Routes[a[1]] /\ ~IsReject(a[1], a[2])
    BY DEF Rested, OneAnswer
  <2>3. t \in Siblings[h]
    BY <1>3 DEF Siblings
  <2>4. a[1] = h
    BY <2>1, <2>2, <2>3 DEF AnswersAreApart
  <2> QED BY <2>1, <2>4
<1>5. PICK a \in S : a[1] = h
  <2>1. Routes[h][k] # {}
    BY <1>3, RoutesAssumption
  <2> QED BY <1>4, <2>1
<1>6. Routes[h][k] \subseteq Routes[h][a[2]]
  <2> SUFFICES ASSUME NEW t \in Routes[h][k] PROVE t \in Routes[h][a[2]]
    OBVIOUS
  <2>1. PICK b \in S : b[1] = h /\ t \in Routes[h][b[2]]
    BY <1>4
  <2>2. a = b
    BY <1>5, <2>1 DEF Rested, OneAnswer
  <2> QED BY <2>1, <2>2
<1>7. s \notin Routes[h][a[2]]
  <2> SUFFICES ASSUME s \in Routes[h][a[2]] PROVE FALSE
    OBVIOUS
  <2>1. a[2] \in DOMAIN Routes[h] /\ ~IsReject(h, a[2])
    BY <1>5 DEF Rested, OneAnswer
  <2>2. s \in Routes[h][a[2]] \ Routes[h][k]
    BY <1>2
  <2>3. /\ \A w \in Inbound[s] : \/ Owner[w.port] = External \/ IsFeedback(w.port)
                                 \/ w.port \in Inputs[h]
        /\ Firm(h, s)
    BY <1>3, <1>6, <2>1, <2>2 DEF AnswersAreTold, Firm
  <2>4. s \in m.authorized
    BY <1>1, <1>5, <2>3 DEF Rested, Heard
  <2>5. s \in Stages /\ h \in Stages
    BY StagesAssumption DEF ReplaySkips, Waiting
  <2>6. FedAt(m, s)
    <3> SUFFICES ASSUME NEW w \in Inbound[s] PROVE Present(m, w.port)
      BY DEF FedAt
    <3>1. w.port \in Ports
      BY <2>5, WiresAssumption DEF Inbound
    <3>2. CASE Owner[w.port] = External \/ IsFeedback(w.port)
      BY <3>1, <3>2 DEF Rested, Seeded
    <3>3. CASE w.port \in Inputs[h]
      <4>1. PICK v \in Inbound[h] : v.port = w.port
        BY <2>5, <3>3 DEF Inputs
      <4>2. h \in D
        BY <1>5 DEF Stands
      <4> QED BY <4>1, <4>2 DEF Rested, FedAt
    <3> QED BY <2>3, <3>2, <3>3
  <2>7. Released(m, s)
    BY <2>4 DEF Released
  <2>8. m \in Machines /\ s \in Waiting(Settle(m))
    BY DEF Rested, ReplaySkips
  <2>9. s \in Waiting(m)
    BY <2>8, SettleFollows DEF Follows
  <2> QED BY <2>6, <2>7, <2>8, <2>9, SettleStarts
<1>8. ASSUME NEW g \in Gates, NEW i \in DOMAIN Routes[g], ~IsReject(g, i), s \in Routes[g][i]
      PROVE  \E b \in S : b[1] = g /\ s \notin Routes[g][b[2]]
  <2>1. g = h
    BY <1>2, <1>8 DEF AnswersAreApart
  <2> QED BY <1>5, <1>7, <2>1
<1> QED BY <1>2, <1>8

\* START and the replay of the answers.
LEMMA ReplayTold ==
  ASSUME AnswersAreApart, AnswersAreTold, NEW m, NEW S, NEW rows, NEW D,
         Rested(m, S, rows, D), Stands(S, D), NEW bk, NEW n, n = Replayed(m, bk)
  PROVE  Told(n, S, rows)
<1> DEFINE z == Settle(m)
<1>1. m \in Machines /\ Idle(m)
  BY DEF Rested
<1>2. n \in Machines /\ n.cells = m.cells /\ ReleasedOnly(n)
  BY <1>1, IdleReleased, ReplayedPreserves, ReplayedGrows
<1>3. Follows(m, n, {}) /\ Turns(z, n, {}, ReplaySkips(m)) /\ Turns(m, z, {}, {})
  BY <1>1, ReplayedFollows, SettleFollows
<1>z. z \in Machines
  BY <1>1, SettlePreserves
<1> HIDE DEF z
<1>4. n.authorized = m.authorized /\ n.skipped \subseteq m.skipped \cup ReplaySkips(m)
  BY <1>3 DEF Follows, Turns
<1>5. \A s \in Final(m) : n.region[s] = m.region[s]
  <2>1. \A s \in Final(m) : s \in Final(z)
    BY <1>3 DEF Turns, Final, Done, Failed
  <2> QED BY <1>3, <2>1 DEF Turns
<1>6. Seeded(n)
  BY <1>2 DEF Rested, Seeded, Present
<1>7. Owed(n, S)
  BY <1>4 DEF Rested, Owed
<1>8. LeftOut(n, S)
  <2> SUFFICES ASSUME NEW s \in n.skipped
               PROVE  /\ \E g \in Gates : s \in Siblings[g]
                      /\ \A g \in Gates : \A i \in DOMAIN Routes[g] :
                           ~IsReject(g, i) /\ s \in Routes[g][i] =>
                             \E a \in S : a[1] = g /\ s \notin Routes[g][a[2]]
    BY DEF LeftOut
  <2>1. CASE s \in m.skipped
    BY <2>1 DEF Rested, LeftOut
  <2>2. CASE s \in ReplaySkips(m)
    <3> HIDE DEF ReplaySkips, IsReject
    <3> QED BY <2>2, ReplayLeavesOut
  <2> QED BY <1>4, <2>1, <2>2
<1>9. Heard(n, S)
  <2>1. \A s \in Final(m) : s \in Final(n) /\ (s \in Done(n) => s \in Done(m))
    BY <1>5 DEF Final, Done, Failed
  <2> QED BY <1>4, <2>1 DEF Rested, Heard
<1>10. ASSUME NEW r \in rows
       PROVE  /\ r.gate \in Gates
              /\ r.gate \in Executing(n) \cup Failed(n)
              /\ Released(n, r.gate)
              /\ \A a \in S : a[1] # r.gate
  <2> DEFINE g == r.gate
  <2>1. /\ g \in Gates /\ g \in D /\ g \in Waiting(m) \cup Failed(m)
        /\ Released(m, g) /\ FedAt(m, g) /\ \A a \in S : a[1] # g
    BY DEF Rested
  <2>2. Released(n, g)
    BY <1>4, <2>1 DEF Released
  <2>3. CASE g \in Failed(m)
    BY <1>5, <2>1, <2>2, <2>3 DEF Failed, Final
  <2>4. CASE g \in Waiting(m)
    <3>1. g \notin m.skipped
      <4>1. OneAnswer(S) /\ Owed(m, S) /\ LeftOut(m, S)
        BY DEF Rested
      <4> SUFFICES ASSUME g \in m.skipped PROVE FALSE
        OBVIOUS
      <4>2. \E h \in Gates : g \in Siblings[h]
        BY <4>1 DEF LeftOut
      <4>3. g \in GateRouted
        BY <2>1, <4>2, GateIsNoAncestor
      <4>4. g \in m.authorized
        BY <2>1, <4>3 DEF Released
      <4> QED BY <4>1, <4>4, OwedIsIn
    <3>2. g \in Executing(z) \cup Failed(z)
      BY <1>1, <2>1, <2>4, <3>1, SettleStarts DEF z
    <3>3. g \in Executing(z) => g \in Executing(n) \cup Failed(n)
      BY <1>3, <2>1 DEF Turns
    <3>4. g \in Failed(z) => g \in Failed(n)
      BY <1>3 DEF Turns, Final, Failed
    <3> QED BY <2>1, <2>2, <3>2, <3>3, <3>4
  <2> QED BY <2>1, <2>3, <2>4
<1>11. Unanswered(n, S, rows)
  BY <1>10 DEF Unanswered
<1>12. OneAnswer(S)
  BY DEF Rested
<1> QED BY <1>2, <1>6, <1>7, <1>8, <1>9, <1>11, <1>12 DEF Told

-----------------------------------------------------------------------------
\* Values stay where they are.
LEMMA SeededGrows ==
  ASSUME NEW m, NEW n, Seeded(m), Grows(m, n)
  PROVE  Seeded(n)
BY DEF Seeded, Grows

\* A question closed is one less to tell about.
LEMMA ToldFewer ==
  ASSUME NEW m, NEW S, NEW rows, Told(m, S, rows), NEW less \in SUBSET rows
  PROVE  Told(m, S, less)
BY DEF Told, Unanswered

\* A reaction of the actor: the cancellations, then the questions of the gates
\* that execute and are not on the books, whose answers cannot stand.
LEMMA CancelTold ==
  ASSUME NEW m1, NEW S, NEW rows, Told(m1, S, rows), NEW bk, Stands(S, bk.dispatched),
         NEW doomed, NEW m2, m2 = StageCancelled(m1, doomed),
         NEW rn, NEW open, open = Opened(m1, bk, rows, rn)
  PROVE  Told(m2, S, open)
<1>1. m1 \in Machines /\ Seeded(m1) /\ ReleasedOnly(m1)
  BY DEF Told
<1>2. m2 \in Machines /\ m2.cells = m1.cells /\ ReleasedOnly(m2) /\ m2.authorized = m1.authorized
  BY <1>1, StageCancelledPreserves
<1>3. Follows(m1, m2, {}) /\ Turns(m1, m2, {}, {})
  BY <1>1, FailFollows DEF StageCancelled
<1>4. Seeded(m2)
  BY <1>1, <1>2 DEF Seeded, Present
<1>5. Told(m2, S, rows)
  BY <1>2, <1>3, <1>4, TurnsTold
<1>6. ASSUME NEW r \in open
      PROVE  /\ r.gate \in Gates
             /\ r.gate \in Executing(m2) \cup Failed(m2)
             /\ Released(m2, r.gate)
             /\ \A a \in S : a[1] # r.gate
  <2>1. CASE r \in rows
    BY <1>5, <2>1 DEF Told, Unanswered
  <2>2. CASE r \notin rows
    <3>1. PICK g \in Undispatched(m1, bk) : r = [gate |-> g, run |-> rn[g] + 1]
      BY <2>2 DEF Opened
    <3>2. r.gate = g
      BY <3>1
    <3>3. g \in Executing(m1) \cap Gates /\ g \notin bk.dispatched
      BY DEF Undispatched
    <3>4. \A a \in S : a[1] # g
      BY <3>3 DEF Stands
    <3>5. Released(m2, g)
      BY <1>1, <1>2, <3>3 DEF ReleasedOnly, Released, Executing
    <3>6. g \in Executing(m2) \cup Failed(m2)
      BY <1>3, <3>3 DEF Turns
    <3> QED BY <3>2, <3>3, <3>4, <3>5, <3>6
  <2> QED BY <2>1, <2>2
<1>7. Unanswered(m2, S, open)
  BY <1>6 DEF Unanswered
<1> QED BY <1>5, <1>7 DEF Told

\* What a step leaves behind.
Tells == Told(machine', standing', openGates')

\* A reaction of the actor to a machine told.
LEMMA ObserveTold ==
  ASSUME NEW m0, NEW m1, NEW n, NEW bk, NEW rows, Told(m1, standing', rows),
         Stands(standing', bk.dispatched), NEW bud, NEW ex, NEW rn, NEW at,
         Observe(m0, m1, n, bk, bud, ex, rn, at), openGates' = Opened(m1, bk, rows, rn)
  PROVE  Tells
<1>1. machine' = StageCancelled(m1, Propagation(m1, bk))
  BY DEF Observe
<1> QED BY <1>1, CancelTold DEF Tells

\* The answers a rewind of reset leaves standing.
KeptAnswers(S, reset) == {a \in S : a[1] \notin reset}

\* Taking the decisions about A back agrees with that: A holds all that the gates
\* rewound release, and nothing whose release the answer of another vouches for.
Agrees(S, reset, A) ==
  /\ \A a \in S : a[1] \in reset =>
       \A i \in DOMAIN Routes[a[1]] : ~IsReject(a[1], i) => Routes[a[1]][i] \subseteq A
  /\ \A a \in KeptAnswers(S, reset) : \A s \in A : ~Firm(a[1], s)

\* The questions that stay are of gates the rewind leaves fed.
Spared(n, rows, reset, D) ==
  /\ \A g \in D : FedAt(n, g)
  /\ \A r \in rows : r.gate \in D /\ r.gate \notin reset

\* A rewind keeps the answers told that it leaves standing.
LEMMA RewoundTold ==
  ASSUME NEW m, NEW S, NEW rows, Told(m, S, rows),
         NEW reset \in SUBSET Stages, NEW keep, NEW w, w = Rewound(m, reset, keep),
         NEW A \in SUBSET reset,
         NEW n \in Machines, n.region = w.region, n.cells = w.cells,
         n.authorized = m.authorized \ A, n.skipped = m.skipped \ A,
         Agrees(S, reset, A), NEW less \in SUBSET rows, NEW D, Spared(n, less, reset, D)
  PROVE  Rested(n, KeptAnswers(S, reset), less, D)
<1>0. PICK T : T = KeptAnswers(S, reset)
  OBVIOUS
<1>t. /\ T = {a \in S : a[1] \notin reset}
      /\ \A a \in S : a[1] \in reset =>
           \A i \in DOMAIN Routes[a[1]] : ~IsReject(a[1], i) => Routes[a[1]][i] \subseteq A
      /\ \A a \in T : \A s \in A : ~Firm(a[1], s)
  BY <1>0 DEF Agrees, KeptAnswers
<1>d. /\ \A g \in D : FedAt(n, g)
      /\ \A r \in less : r.gate \in D /\ r.gate \notin reset
  BY DEF Spared
<1>1. m \in Machines /\ Seeded(m) /\ OneAnswer(S) /\ Owed(m, S) /\ LeftOut(m, S) /\ Heard(m, S)
  BY DEF Told
<1>2. /\ w \in Machines /\ Executing(w) = {}
      /\ \A s \in Final(m) \ reset : w.region[s] = m.region[s]
      /\ \A s \in Stages \ (Final(m) \ reset) : w.region[s] = "waiting"
      /\ \A p \in Ports : \/ w.cells[p] = m.cells[p]
                          \/ Owner[p] \in reset /\ IsFeedback(p) /\ w.cells[p] = Cell(Seed, 0)
                          \/ Owner[p] \in reset /\ ~IsFeedback(p)
  BY <1>1, RewoundFacts DEF Survives
<1>r. /\ \A s \in Final(m) \ reset : n.region[s] = m.region[s]
      /\ \A s \in Stages \ (Final(m) \ reset) : n.region[s] = "waiting"
  BY <1>2
<1>3. Idle(n)
  BY <1>2 DEF Idle, Executing
<1>4. Seeded(n)
  <2> SUFFICES ASSUME NEW p \in Ports, Owner[p] = External \/ IsFeedback(p)
               PROVE  n.cells[p].present
    BY DEF Seeded, Present
  <2>1. m.cells[p].present
    BY <1>1 DEF Seeded, Present
  <2>2. Owner[p] = External => Owner[p] \notin reset
    BY StagesAssumption
  <2> QED BY <1>2, <2>1, <2>2 DEF Cell
<1>5. OneAnswer(T)
  BY <1>1, <1>t DEF OneAnswer
<1>6. Owed(n, T)
  <2> SUFFICES ASSUME NEW s \in n.authorized
               PROVE  \E a \in T : s \in Routes[a[1]][a[2]]
    BY DEF Owed
  <2>1. PICK a \in S : s \in Routes[a[1]][a[2]]
    BY <1>1 DEF Owed
  <2>2. a[2] \in DOMAIN Routes[a[1]] /\ ~IsReject(a[1], a[2])
    BY <1>1 DEF OneAnswer
  <2>3. a[1] \notin reset
    BY <1>t, <2>1, <2>2
  <2> QED BY <1>t, <2>1, <2>3
<1>7. LeftOut(n, T)
  <2> SUFFICES ASSUME NEW s \in n.skipped
               PROVE  /\ \E g \in Gates : s \in Siblings[g]
                      /\ \A g \in Gates : \A i \in DOMAIN Routes[g] :
                           ~IsReject(g, i) /\ s \in Routes[g][i] =>
                             \E a \in T : a[1] = g /\ s \notin Routes[g][a[2]]
    BY DEF LeftOut
  <2>1. s \in m.skipped /\ s \notin A
    OBVIOUS
  <2>2. \E g \in Gates : s \in Siblings[g]
    BY <1>1, <2>1 DEF LeftOut
  <2>3. ASSUME NEW g \in Gates, NEW i \in DOMAIN Routes[g], ~IsReject(g, i), s \in Routes[g][i]
        PROVE  \E a \in T : a[1] = g /\ s \notin Routes[g][a[2]]
    <3>1. PICK a \in S : a[1] = g /\ s \notin Routes[g][a[2]]
      BY <1>1, <2>1, <2>3 DEF LeftOut
    <3>2. a[1] \notin reset
      BY <1>t, <2>1, <2>3, <3>1
    <3> QED BY <1>t, <3>1, <3>2
  <2> QED BY <2>2, <2>3
<1>8. Heard(n, T)
  <2> SUFFICES ASSUME NEW a \in T
               PROVE  /\ a[1] \in Final(n)
                      /\ a[1] \in Done(n) => \A s \in Routes[a[1]][a[2]] :
                                               Firm(a[1], s) => s \in n.authorized
    BY DEF Heard
  <2>1. /\ a[1] \in Final(m) \ reset
        /\ a[1] \in Done(m) => \A s \in Routes[a[1]][a[2]] : Firm(a[1], s) => s \in m.authorized
    BY <1>1, <1>t DEF Heard
  <2>2. n.region[a[1]] = m.region[a[1]]
    BY <1>2, <2>1
  <2>3. a[1] \in Final(n) /\ (a[1] \in Done(n) => a[1] \in Done(m))
    BY <2>1, <2>2 DEF Final, Done, Failed
  <2>4. \A s : Firm(a[1], s) => s \notin A
    BY <1>t
  <2> QED BY <2>1, <2>3, <2>4
<1>9. ASSUME NEW r \in less
      PROVE  /\ r.gate \in Gates \cap D
             /\ r.gate \in Waiting(n) \cup Failed(n)
             /\ Released(n, r.gate)
             /\ \A a \in T : a[1] # r.gate
  <2>1. /\ r.gate \in Gates /\ r.gate \in Executing(m) \cup Failed(m)
        /\ Released(m, r.gate) /\ \A a \in S : a[1] # r.gate
    BY DEF Told, Unanswered
  <2>2. r.gate \in Stages /\ r.gate \notin reset /\ r.gate \in D
    BY <1>d, <2>1, StagesAssumption
  <2>3. Released(n, r.gate)
    BY <2>1, <2>2 DEF Released
  <2>4. r.gate \in Failed(m) => r.gate \in Failed(n)
    BY <1>r, <2>2 DEF Failed, Final
  <2>5. r.gate \in Executing(m) => r.gate \in Waiting(n)
    <3>1. r.gate \in Executing(m) => r.gate \notin Final(m)
      BY <1>1, <2>2, RegionCases DEF Final
    <3> QED BY <1>r, <2>2, <3>1 DEF Waiting
  <2> QED BY <1>t, <2>1, <2>2, <2>3, <2>4, <2>5
<1>10. Rested(n, T, less, D)
  BY <1>d, <1>3, <1>4, <1>5, <1>6, <1>7, <1>8, <1>9 DEF Rested
<1> QED BY <1>0, <1>10

\* A rebuild over a machine rewound.
LEMMA RebuildTold ==
  ASSUME AnswersAreApart, AnswersAreTold, NEW m, NEW bk, NEW rows, NEW ex, NEW rn, NEW at,
         Rebuild(m, bk, ex, rn, at, rows),
         ~Exhausted => Rested(m, standing', rows, bk.dispatched) /\ Stands(standing', bk.dispatched),
         Exhausted => standing' = standing,
         Told(machine, standing, openGates), rows \subseteq openGates
  PROVE  Tells
<1>1. CASE Exhausted
  <2>1. machine' = machine /\ openGates' = rows /\ standing' = standing
    BY <1>1 DEF Rebuild
  <2> QED BY <2>1, ToldFewer DEF Tells
<1>2. CASE ~Exhausted
  <2>1. PICK q : q = Replayed(m, bk)
    OBVIOUS
  <2>2. Told(q, standing', rows)
    BY <1>2, <2>1, ReplayTold
  <2>3. /\ Observe(m, q, generation + 1, bk, budget, ex, rn, at)
        /\ openGates' = Opened(q, bk, rows, rn)
    BY <1>2, <2>1 DEF Rebuild
  <2> QED BY <1>2, <2>2, <2>3, ObserveTold
<1> QED BY <1>1, <1>2

\* A step the actor does not take.
LEMMA StillTold ==
  ASSUME Told(machine, standing, openGates), machine' = machine, standing' = standing,
         openGates' \subseteq openGates
  PROVE  Tells
<1> QED BY ToldFewer DEF Tells

-----------------------------------------------------------------------------
\* Executors' steps: writes and failures are no answers, and a retry rewinds no gate
\* that has been asked.
LEMMA ExecutorTold ==
  ASSUME RetriesComeBeforeGates, AnswersAreApart, AnswersAreTold, TypeOK, AskInv,
         Told(machine, standing, openGates), NEW e \in executors, ExecutorStep(e)
  PROVE  Tells
<1>1. /\ e \in Executor /\ machine \in Machines /\ e.stage \in Stages /\ e.run \in Nat
      /\ book.dispatched \in SUBSET Gates /\ Stands(standing, book.dispatched)
      /\ Seeded(machine) /\ ReleasedOnly(machine)
  BY DEF TypeOK, Executor, AskInv, Told
<1>2. ASSUME NEW P, NEW v \in Values, NEW ex, NEW at, Write(e, P, v, ex, at)
      PROVE  Tells
  <2>0. standing' = standing
    BY <1>2 DEF Write
  <2>1. CASE Live
    <3>1. PICK c : c = Cell(v, e.run)
      OBVIOUS
    <3>2. PICK m1 : m1 = PortWritten(machine, P, c)
      OBVIOUS
    <3>3. c \in Cells
      BY <1>1, <3>1, CellType
    <3>4. m1 \in Machines /\ ReleasedOnly(m1) /\ Grows(machine, m1)
      BY <1>1, <3>1, <3>2, <3>3, PortWrittenPreserves, PortWrittenGrows
    <3>5. Follows(machine, m1, {}) /\ Turns(machine, m1, {}, {})
      BY <1>1, <3>2, <3>3, PortWrittenFollows
    <3>6. Told(m1, standing', openGates)
      BY <1>1, <2>0, <3>4, <3>5, SeededGrows, TurnsTold
    <3>7. /\ Observe(machine, m1, generation, book, budget, ex, runs, at)
          /\ openGates' = Opened(m1, book, openGates, runs)
      BY <1>2, <2>1, <3>1, <3>2 DEF Write
    <3> QED BY <1>1, <2>0, <3>6, <3>7, ObserveTold
  <2>2. CASE ~Live
    BY <1>2, <2>0, <2>2, StillTold DEF Write, Unheard
  <2> QED BY <2>1, <2>2
<1>3. ASSUME NEW p \in Ports, NEW v \in Values \ {Seed}, AgentWrite(e, p, v)
      PROVE  Tells
  BY <1>2, <1>3 DEF AgentWrite
<1>4. ASSUME NEW P, NEW v \in Values \ {Seed}, ScriptReturn(e, P, v)
      PROVE  Tells
  BY <1>2, <1>4 DEF ScriptReturn
<1>5. ASSUME AgentFinish(e)
      PROVE  Tells
  BY <1>5, StillTold DEF AgentFinish, Unheard
<1>6. PICK m1 : m1 = StageFailed(machine, e.stage)
  OBVIOUS
<1>7. Told(m1, standing, openGates)
  <2>1. m1 \in Machines /\ ReleasedOnly(m1) /\ Grows(machine, m1)
    BY <1>1, <1>6, StageFailedPreserves, StageFailedGrows
  <2>2. Follows(machine, m1, {}) /\ Turns(machine, m1, {}, {})
    BY <1>1, <1>6, StageFailedFollows
  <2> QED BY <1>1, <2>1, <2>2, SeededGrows, TurnsTold
<1>8. ASSUME ExecutorSecretPending(e)
      PROVE  Tells
  <2>1. standing' = standing
    BY <1>8 DEF ExecutorSecretPending
  <2>2. CASE Live
    <3>1. \E bud, ex, at :
            /\ Observe(machine, m1, generation, book, bud, ex, runs, at)
            /\ openGates' = Opened(m1, book, openGates, runs)
      BY <1>6, <1>8, <2>2 DEF ExecutorSecretPending
    <3> QED BY <1>1, <1>7, <2>1, <3>1, ObserveTold
  <2>3. CASE ~Live
    BY <1>8, <2>1, <2>3, StillTold DEF ExecutorSecretPending
  <2> QED BY <2>2, <2>3
<1>9. ASSUME ExecutorFail(e)
      PROVE  Tells
  <2> DEFINE s == e.stage
  <2>1. Failure(e, executors \ {e}, Settles(e, "error")) /\ standing' = standing
    BY <1>9 DEF ExecutorFail
  <2>2. CASE ~Live
    BY <2>1, <2>2, StillTold DEF Failure, Unheard
  <2>3. CASE Live /\ ~RetriesOn(machine, s)
    <3>1. \E ex, at : /\ Observe(machine, m1, generation, book, budget, ex, runs, at)
                      /\ openGates' = Opened(m1, book, openGates, runs)
      BY <1>6, <2>1, <2>3 DEF Failure
    <3> QED BY <1>1, <1>7, <2>1, <3>1, ObserveTold
  <2>4. CASE Live /\ RetriesOn(machine, s)
    <3> DEFINE reset == ToReset[s]
    <3>1. \E x, rn, a :
            Rebuild(RetryMachine(s), Cleared(book, reset), x, rn, a, openGates)
      BY <2>1, <2>4 DEF Failure, RetryMachine
    <3>2. PICK bk : bk = Cleared(book, reset)
      OBVIOUS
    <3>3. s \in Retrying /\ reset \in SUBSET Stages
      BY <2>4, ToResetType DEF RetriesOn
    <3>4. reset \cap book.dispatched = {} /\ Served(RetryMachine(s), book.dispatched)
      BY <2>4, RetryAsks
    <3>5. bk.dispatched = book.dispatched
      <4>1. bk.dispatched = book.dispatched \ reset
        BY <3>2 DEF Cleared, TypeOK
      <4> QED BY <3>4, <4>1
    <3>6. PICK w : w = Rewound(machine, reset, {})
      OBVIOUS
    <3>7. PICK n : n = RetryMachine(s)
      OBVIOUS
    <3>8. /\ n \in Machines /\ n.region = w.region /\ n.cells = w.cells
          /\ n.authorized = machine.authorized /\ n.skipped = machine.skipped
      <4>1. w \in Machines /\ w.authorized = machine.authorized /\ w.skipped = machine.skipped
        BY <1>1, <3>6, RewoundPreserves, RewoundFacts
      <4>2. n = [w EXCEPT !.retries[s] = @ + 1]
        BY <3>6, <3>7 DEF RetryMachine
      <4>3. PICK T : T = [w.retries EXCEPT ![s] = @ + 1]
        OBVIOUS
      <4>4. n = [w EXCEPT !.retries = T]
        BY <4>1, <4>2, <4>3 DEF Machines
      <4>5. /\ n.region = w.region /\ n.cells = w.cells
            /\ n.authorized = w.authorized /\ n.skipped = w.skipped
        BY <4>1, <4>4 DEF Machines
      <4>6. n \in Machines
        BY <3>3, <4>1, <4>2, RetriedPreserves
      <4> QED BY <4>1, <4>5, <4>6
    <3>9. PICK A : A = {}
      OBVIOUS
    <3>10. \A a \in standing : a[1] \notin reset
      BY <1>1, <3>4 DEF Stands
    <3>11. KeptAnswers(standing, reset) = standing
      BY <3>10 DEF KeptAnswers
    <3>12. A \in SUBSET reset /\ Agrees(standing, reset, A)
      BY <3>9, <3>10 DEF Agrees
    <3>13. n.authorized = machine.authorized \ A /\ n.skipped = machine.skipped \ A
      BY <3>8, <3>9
    <3>14. \A g \in book.dispatched : FedAt(n, g)
      BY <3>4, <3>7 DEF Served
    <3>15. Spared(n, openGates, reset, book.dispatched)
      BY <3>4, <3>14 DEF AskInv, RowsOk, Spared
    <3>16. Rested(n, KeptAnswers(standing, reset), openGates, book.dispatched)
      <4> HIDE DEF reset
      <4> QED BY <3>3, <3>6, <3>8, <3>12, <3>13, <3>15, RewoundTold
    <3>17. \E x, rn, a : Rebuild(n, bk, x, rn, a, openGates)
      BY <3>1, <3>2, <3>7
    <3>18. Rested(n, standing', openGates, bk.dispatched) /\ Stands(standing', bk.dispatched)
      BY <1>1, <2>1, <3>5, <3>11, <3>16
    <3> HIDE DEF s, reset
    <3> QED BY <2>1, <3>17, <3>18, RebuildTold
  <2> QED BY <2>2, <2>3, <2>4
<1> QED BY <1>3, <1>4, <1>5, <1>8, <1>9 DEF ExecutorStep

\* The comment of an answer.
LEMMA AnsweredTold ==
  ASSUME Told(machine, standing, openGates), NEW r \in Rows
  PROVE  Told(Answered(r), standing, openGates)
<1>1. /\ machine \in Machines /\ Seeded(machine) /\ ReleasedOnly(machine)
      /\ r.run \in Nat /\ Seed \in Values
  BY PortsAssumption DEF Told, Rows
<1>2. PICK c : c = Cell(Seed, r.run)
  OBVIOUS
<1>3. PICK a : a = PortWritten(machine, {Feedback[r.gate]}, c)
  OBVIOUS
<1>4. c \in Cells
  BY <1>1, <1>2, CellType
<1>5. a \in Machines /\ ReleasedOnly(a) /\ Grows(machine, a)
  BY <1>1, <1>2, <1>3, <1>4, PortWrittenPreserves, PortWrittenGrows
<1>6. Follows(machine, a, {}) /\ Turns(machine, a, {}, {})
  BY <1>1, <1>3, <1>4, PortWrittenFollows
<1>7. Told(a, standing, openGates)
  BY <1>1, <1>5, <1>6, SeededGrows, TurnsTold
<1> QED BY <1>2, <1>3, <1>7 DEF Answered

\* Forward answers.
LEMMA ApproveTold ==
  ASSUME AnswersAreApart, TypeOK, AskInv, Told(machine, standing, openGates),
         NEW r \in openGates, NEW i, Approve(r, i)
  PROVE  Tells
<1>1. r \in Rows /\ i \in DOMAIN Routes[r.gate] /\ ~IsReject(r.gate, i)
  BY DEF TypeOK, Rows, Approve
<1>2. CASE Live
  <2>1. PICK a : a = Answered(r)
    OBVIOUS
  <2>2. PICK m1 : m1 = GateAnswered(a, r.gate, Routes[r.gate][i])
    OBVIOUS
  <2>3. Told(a, standing, openGates)
    BY <1>1, <2>1, AnsweredTold
  <2>4. standing' = standing \cup {<<r.gate, i>>}
    BY <1>2 DEF Approve
  <2>5. RowsOk(openGates, book.dispatched) /\ Stands(standing, book.dispatched)
    BY DEF AskInv
  <2>6. Told(m1, standing', openGates \ {r})
    BY <1>1, <2>2, <2>3, <2>4, <2>5, AnswerTold
  <2>7. Stands(standing', book.dispatched)
    BY <2>4, <2>5 DEF RowsOk, Stands
  <2>8. /\ Observe(machine, m1, generation, book, budget, executors, runs, Closed(r))
        /\ openGates' = Opened(m1, book, openGates \ {r}, runs)
    BY <1>2, <2>1, <2>2 DEF Approve
  <2> QED BY <2>6, <2>7, <2>8, ObserveTold
<1>3. CASE ~Live
  BY <1>3, StillTold DEF Approve, Unheard
<1> QED BY <1>2, <1>3

\* A reject takes the answers of the gates it rewinds back together with what they
\* decided, and leaves the answers it spares alone.
LEMMA RejectTold ==
  ASSUME RejectsRewindOneGate, RewindsTargetsToo, AnswersAreApart, AnswersAreTold,
         TypeOK, AskInv, Told(machine, standing, openGates),
         NEW r \in openGates, NEW i, Reject(r, i)
  PROVE  Tells
<1> DEFINE g == r.gate
           reset == Affected[g]
           D == book.dispatched
<1>1. /\ r \in Rows /\ g \in Gates /\ D \in SUBSET Gates /\ Stands(standing, D)
      /\ RowsOk(openGates, D) /\ Served(machine, D)
  BY DEF TypeOK, Rows, AskInv
<1>2. CASE phase # "live"
  BY <1>2, StillTold DEF Reject, Unheard
<1>3. CASE phase = "live"
  <2>1. PICK now : now = IF actorUp THEN Answered(r) ELSE machine
    OBVIOUS
  <2>2. PICK w : w = Rewound(now, reset, {Feedback[g]})
    OBVIOUS
  <2>3. PICK n : n = Pruned(w, reset)
    OBVIOUS
  <2>4. PICK bk : bk = [Cleared(book, reset) EXCEPT !.rejected = @ \cup {g}]
    OBVIOUS
  <2>5. bk.dispatched = D \ reset
    BY <2>4 DEF TypeOK, Cleared
  <2>6. Served(now, D) /\ Told(now, standing, openGates)
    BY <1>1, <2>1, AnsweredServed, AnsweredTold
  <2>7. reset \in SUBSET Stages /\ ForwardClosed(reset)
    BY <1>1, AffectedType, AffectedClosed
  <2>8. Served(w, D \ reset)
    <3>1. \A p \in {Feedback[g]} : IsFeedback(p)
      BY <1>1, FeedbackFacts
    <3> QED BY <1>1, <2>2, <2>6, <2>7, <3>1, RewoundServed
  <2>9. w \in Machines /\ w.authorized = now.authorized /\ w.skipped = now.skipped
    BY <2>2, <2>6, RewoundPreserves, RewoundFacts DEF Told
  <2>10. /\ n \in Machines /\ n.region = w.region /\ n.cells = w.cells
         /\ n.authorized = now.authorized \ reset /\ n.skipped = now.skipped \ reset
    <3>1. PICK T : T = [s \in Retrying |-> IF s \in reset THEN 0 ELSE w.retries[s]]
      OBVIOUS
    <3>2. n = [w EXCEPT !.authorized = w.authorized \ reset,
                        !.skipped = w.skipped \ reset, !.retries = T]
      BY <2>3, <2>9, <3>1 DEF Pruned, Machines
    <3>3. n \in Machines
      BY <2>3, <2>9, PrunedPreserves
    <3> QED BY <2>9, <3>2, <3>3 DEF Machines
  <2>11. \A h \in D \ reset : FedAt(n, h)
    BY <2>8, <2>10 DEF Served, FedAt, Present
  <2>12. ASSUME NEW a \in standing, a[1] \in reset, NEW j \in DOMAIN Routes[a[1]],
                ~IsReject(a[1], j)
         PROVE  Routes[a[1]][j] \subseteq reset
    <3>1. a[1] \in Gates
      BY <2>6 DEF Told, OneAnswer
    <3>2. Siblings[a[1]] \cap GateRouted \subseteq reset
      BY <1>1, <2>12, <3>1 DEF RewindsTargetsToo
    <3>3. Routes[a[1]][j] \cap GateAncestors[a[1]] = {}
      BY <2>12, <3>1 DEF AnswersAreApart
    <3>4. Routes[a[1]][j] \subseteq Siblings[a[1]]
      BY <3>1, RouteType
    <3>5. Siblings[a[1]] \ GateAncestors[a[1]] \subseteq GateRouted
      BY <3>1 DEF GateRouted
    <3> QED BY <3>2, <3>3, <3>4, <3>5
  <2>13. Agrees(standing, reset, reset)
    <3>1. \A a \in KeptAnswers(standing, reset) : \A s \in reset : ~Firm(a[1], s)
      BY <1>1 DEF Firm, KeptAnswers
    <3> QED BY <2>12, <3>1 DEF Agrees
  <2>14. \A q \in openGates \ {r} : q.gate \in D \ reset /\ q.gate \notin reset
    <3> SUFFICES ASSUME NEW q \in openGates \ {r} PROVE q.gate \in D /\ q.gate \notin reset
      OBVIOUS
    <3>1. q.gate \in D /\ q.gate # g
      BY <1>1 DEF RowsOk
    <3> QED BY <1>1, <3>1 DEF RejectsRewindOneGate
  <2>15. Spared(n, openGates \ {r}, reset, D \ reset)
    BY <2>11, <2>14 DEF Spared
  <2>16. Rested(n, KeptAnswers(standing, reset), openGates \ {r}, D \ reset)
    <3>1. PICK less : less = openGates \ {r}
      OBVIOUS
    <3>2. PICK C : C = D \ reset
      OBVIOUS
    <3>3. Spared(n, less, reset, C) /\ less \in SUBSET openGates
      BY <2>15, <3>1, <3>2
    <3> HIDE DEF reset
    <3>4. Rested(n, KeptAnswers(standing, reset), less, C)
      BY <2>2, <2>6, <2>7, <2>10, <2>13, <3>3, RewoundTold
    <3> QED BY <3>1, <3>2, <3>4
  <2>17. Stands(KeptAnswers(standing, reset), D \ reset)
    BY <1>1 DEF Stands, KeptAnswers
  <2>18. /\ Rebuild(n, bk, executors, runs, Closed(r), openGates \ {r})
         /\ standing' = IF Exhausted THEN standing ELSE KeptAnswers(standing, reset)
    BY <1>3, <2>1, <2>2, <2>3, <2>4 DEF Reject, KeptAnswers
  <2> QED BY <2>5, <2>16, <2>17, <2>18, RebuildTold
<1> QED BY <1>2, <1>3

\* Every step.
LEMMA TellsNext ==
  ASSUME RetriesComeBeforeGates, RejectsRewindOneGate, RewindsTargetsToo,
         AnswersAreApart, AnswersAreTold, TypeOK, AskInv,
         Told(machine, standing, openGates), [Next]_vars
  PROVE  Tells
<1>1. CASE \E e \in executors : ExecutorStep(e)
  BY <1>1, ExecutorTold
<1>2. CASE \E r \in openGates : Answer(r)
  BY <1>2, ApproveTold, RejectTold DEF Answer
<1>3. CASE Finish \/ Interrupt \/ GraceExpires \/ CancelTask \/ Timeout \/ Quiet \/ UNCHANGED vars
  <2>1. UNCHANGED machine /\ standing' = standing /\ openGates' \subseteq openGates
    BY <1>3 DEF Finish, Interrupt, GraceExpires, CancelTask, Timeout, Quiet, Observations, vars
  <2> QED BY <2>1, StillTold
<1> QED BY <1>1, <1>2, <1>3 DEF Next, Work

\* Before anybody has answered there is little to tell.
LEMMA ToldInit ==
  ASSUME Init
  PROVE  Told(machine, standing, openGates)
<1>1. PICK seeds \in [{p \in Ports : Owner[p] = External} -> Values] : Init!(seeds)
  BY DEF Init
<1>2. PICK m : m = Fresh(seeds)
  OBVIOUS
<1>3. PICK n : n = Settle(m)
  OBVIOUS
<1>4. PICK bk : bk = [published |-> {}, cancelled |-> {}, dispatched |-> {}, rejected |-> {}]
  OBVIOUS
<1>5. PICK none : none = [s \in Stages |-> 0]
  OBVIOUS
<1>6. m \in Machines /\ Idle(m) /\ m.authorized = {} /\ m.skipped = {}
  BY <1>2, FreshType DEF Fresh
<1>7. Seeded(m)
  <2> SUFFICES ASSUME NEW p \in Ports, Owner[p] = External \/ IsFeedback(p)
               PROVE  m.cells[p].present
    BY DEF Seeded, Present
  <2>1. m.cells[p] = Cell(seeds[p], 0) \/ m.cells[p] = Cell(Seed, 0)
    BY <1>2 DEF Fresh
  <2> QED BY <2>1 DEF Cell
<1>8. /\ n \in Machines /\ ReleasedOnly(n) /\ n.authorized = {} /\ n.cells = m.cells
      /\ n.skipped = {}
  <2>1. n \in Machines /\ ReleasedOnly(n) /\ n.authorized = {} /\ n.cells = m.cells
    BY <1>3, <1>6, IdleReleased, SettlePreserves
  <2>2. n.skipped \subseteq {}
    BY <1>3, <1>6, SettleFollows DEF Turns
  <2> QED BY <2>1, <2>2
<1>9. Told(n, {}, {})
  BY <1>7, <1>8 DEF Told, Seeded, Present, OneAnswer, Owed, LeftOut, Heard, Unanswered
<1>10. /\ machine = StageCancelled(n, Propagation(n, bk)) /\ standing = {}
       /\ openGates = Opened(n, bk, {}, none)
  BY <1>1, <1>2, <1>3, <1>4, <1>5
<1>11. Stands({}, bk.dispatched)
  BY DEF Stands
<1> QED BY <1>9, <1>10, <1>11, CancelTold

ToldInv == QuestionInv /\ Told(machine, standing, openGates)

\* Every step keeps it.
LEMMA ToldNext ==
  ASSUME RetriesComeBeforeGates, RejectsRewindOneGate, RewindsTargetsToo,
         AnswersAreApart, AnswersAreTold, ToldInv, [Next]_vars
  PROVE  ToldInv'
<1>1. QuestionInv /\ TypeOK /\ AskInv /\ Told(machine, standing, openGates)
  BY DEF ToldInv, QuestionInv
<1>2. QuestionInv' /\ Tells
  BY <1>1, QuestionNext, TellsNext
<1> QED BY <1>2 DEF ToldInv, Tells, Told, Seeded, Present, ReleasedOnly, OneAnswer, Owed,
                LeftOut, Heard, Unanswered, Released, Final, Done, Failed, Executing

\* What somebody picked is not put down as skipped, by no rebuild that only guesses
\* the answers from what is authorized: the converse of OnlyPickedStagesRun, where
\* no answer leads to the same stages as another gate and none is part of another.
THEOREM PickedStays ==
  ASSUME RetriesComeBeforeGates, RejectsRewindOneGate, RewindsTargetsToo,
         AnswersAreApart, AnswersAreTold
  PROVE  Spec => []PickedIsNotSkipped
<1>1. Init => ToldInv
  BY InitType, OwnInit, AskInit, ToldInit DEF ToldInv, QuestionInv
<1>2. ToldInv /\ [Next]_vars => ToldInv'
  BY ToldNext
<1>3. ToldInv => PickedIsNotSkipped
  <2> SUFFICES ASSUME ToldInv, NEW a \in standing, NEW s \in Routes[a[1]][a[2]],
                      s \in machine.skipped
               PROVE  FALSE
    BY DEF PickedIsNotSkipped
  <2>1. OneAnswer(standing) /\ LeftOut(machine, standing)
    BY DEF ToldInv, Told
  <2>2. a[1] \in Gates /\ a[2] \in DOMAIN Routes[a[1]] /\ ~IsReject(a[1], a[2])
    BY <2>1 DEF OneAnswer
  <2>3. PICK b \in standing : b[1] = a[1] /\ s \notin Routes[a[1]][b[2]]
    BY <2>1, <2>2 DEF LeftOut
  <2>4. b = a
    BY <2>1, <2>3 DEF OneAnswer
  <2> QED BY <2>3, <2>4
<1> QED BY <1>1, <1>2, <1>3, PTL DEF Spec
=============================================================================
