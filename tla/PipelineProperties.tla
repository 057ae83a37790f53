-------------------------- MODULE PipelineProperties --------------------------
(***************************************************************************)
(* What a run of the pipeline promises.  Each property relates state the   *)
(* machine, the runner and the database keep apart.                        *)
(***************************************************************************)
EXTENDS PipelineRun

\* A rollback that rewinds a gate also rewinds the stages that gate releases.
\* Rollback follows wires only and an approval is not a wire, so this is a
\* property of the pipeline the compiler does not establish.
RewindsTargetsToo ==
  \A h \in Gates : \A g \in Affected[h] \cap Gates :
    Siblings[g] \cap GateRouted \subseteq Affected[h]

\* A rollback rewinds whatever reads the answers of the gates it rewinds, so that
\* every failure behind a cancellation it leaves in place stays in place too.
RejectsTakeFeedback ==
  \A g \in Gates : \A s \in Affected[g] : DownstreamOf[s] \subseteq Affected[g]

\* No rollback rewinds a second gate, whose question might be open.
RejectsRewindOneGate == \A h \in Gates : Affected[h] \cap Gates \subseteq {h}

\* A gate that the retry of a script rewinds reads the script itself, and the
\* script delivers all its outputs or none: the gate cannot have been asked yet.
RetriesComeBeforeGates ==
  \A s \in Retrying : \A g \in ToReset[s] \cap Gates :
    s \notin PartialScripts /\ \E w \in Inbound[g] : Owner[w.port] = s

\* No retry rewinds a gate, and with it the comment of a reject.
RetriesRewindNoGate == \A s \in Retrying : ToReset[s] \cap Gates = {}

\* The stages an answer of g releases and what is downstream of them.
Releases(g) == Siblings[g] \ GateAncestors[g]
After(g) == UNION {ForwardFrom[t] : t \in Releases(g)}

\* Gates come one after another and nothing goes on beside an open one: what a gate
\* does not read, directly or not, it or a later gate releases, and what runs
\* before a gate has delivered everything when the gate is asked.
WorkStopsAtGates ==
  /\ \A g \in Gates : \A s \in Stages \ Gates : s \in GateAncestors[g] \cup After(g)
  /\ \A g, h \in Gates : g # h => h \in After(g) \/ g \in After(h)
  /\ \A g, h \in Gates : Releases(g) \cap Siblings[h] # {} => h \in After(g) \cup {g}
  /\ \A g \in Gates : \A s \in GateAncestors[g] : \A p \in Outputs[s] :
       \E w \in Wires : w.port = p /\ w.to \in GateAncestors[g] \cup {g}

\* Every stage but the gates declares an output.
EveryStageWrites == \A s \in Stages \ Gates : Outputs[s] # {}

\* A forward answer leads forward only, and to stages no other gate leads to, its
\* rejects included: approving a gate puts down as skipped whatever else it leads to.
AnswersAreApart ==
  \A g \in Gates : \A i \in DOMAIN Routes[g] : ~IsReject(g, i) =>
    /\ Routes[g][i] \cap GateAncestors[g] = {}
    /\ \A h \in Gates \ {g} : Routes[g][i] \cap Siblings[h] = {}

\* No forward answer contains another, or else what it releases beyond that one can
\* start at once, since it reads what is there whenever the gate has been asked, and no
\* rollback takes its release back without the answer.
AnswersAreTold ==
  \A g \in Gates : \A i, j \in DOMAIN Routes[g] :
    ~IsReject(g, i) /\ Routes[g][j] \subseteq Routes[g][i] =>
      \A s \in Routes[g][i] \ Routes[g][j] :
        /\ \A w \in Inbound[s] :
             Owner[w.port] = External \/ IsFeedback(w.port) \/ w.port \in Inputs[g]
        /\ \A h \in Gates : s \in Affected[h] => g \in Affected[h]

\* A stage the person did not choose never runs: a routing target that is
\* executing was picked by an answer that no later reject has taken back.
\* The compiler's gateRouted guard, the answer's assign, the rollback prune
\* and the replay after a rebuild all have to agree for this.
OnlyPickedStagesRun ==
  \A s \in GateRouted \cap Executing(machine) :
    \E a \in standing : s \in Routes[a[1]][a[2]]

\* The converse: a target of a standing answer is never put down as skipped,
\* whichever answers, rewinds and replays came after it.
PickedIsNotSkipped ==
  \A a \in standing : \A s \in Routes[a[1]][a[2]] \ GateAncestors[a[1]] :
    s \notin machine.skipped

\* Whatever is executing has somebody to move it on: a gate has a question a
\* person can still answer, any other stage an executor with writes to make.
\* While the gate is open the budget is paused, so nothing else would.
EveryRegionHasAMover ==
  Live /\ finals # "cancelled" =>
    \A s \in Executing(machine) :
      IF s \in Gates THEN \E r \in openGates : r.gate = s
                     ELSE \E e \in executors : e.stage = s /\ e.pending # {}

\* Cancellation is always somebody's fault: an upstream stage failed on its own.
\* The finals row skips cancelled stages and counts on that.
CancelledHasRootCause ==
  \A s \in Failed(machine) : machine.reason[s] = "upstream_cancelled" =>
    \E r \in Failed(machine) : s \in DownstreamOf[r] /\ machine.reason[r] \in RootCauses

\* A task recorded as completed left nothing out: every stage is done with all
\* its outputs, or a person's answer skipped it.
CompletedMeansAllDone ==
  finals = "completed" =>
    \A s \in Stages : /\ s \in Done(machine)
                      /\ s \in machine.skipped \/ \A p \in Outputs[s] : machine.cells[p].present

\* No mixture of runs: the outputs of a finished stage are those of its latest run.
OutputsAreFromLatestRun ==
  \A s \in Done(machine) \ machine.skipped :
    \A p \in Outputs[s] : machine.cells[p].run = runs[s]

\* A stage never stays built on replaced data: what the latest run of a started
\* stage read is what its inputs hold now.
InputsAreCurrent ==
  \A s \in ((Done(machine) \cup Executing(machine)) \ Gates) \ machine.skipped :
    \A p \in {q \in Inputs[s] : ~IsFeedback(q)} : consumed[s][p] = machine.cells[p]

\* The reviewer's comment survives until the gate is answered again: the rerun
\* a reject causes can read it whenever it starts.
CorrectionIsKept ==
  \A g \in Gates : Live /\ correction[g] # 0 => machine.cells[Feedback[g]].run = correction[g]

\* A script may send the run back at most maxRetries times between two rejects.
RetriesWithinBudget ==
  \A s \in Retrying : machine.retries[s] <= MaxRetries[s]

\* One question per gate: a second open row could be answered twice.
OneOpenRowPerGate ==
  \A q, r \in openGates : q.gate = r.gate => q = r

\* At most one executor works on a stage at a time.
OneExecutorPerStage ==
  \A d, e \in executors : d.stage = e.stage /\ d.pending # {} /\ e.pending # {} => d = e

\* When the run is over nobody is asked anything any more.
NoQuestionAfterTheEnd == finals \in {"completed", "cancelled"} => openGates = {}

-----------------------------------------------------------------------------
\* The first verdict in task_finals stands, whoever wrote it: cancelTask racing
\* the runner's own finally never changes a row.
FirstVerdictStands == [][finals # "none" => finals' = finals]_vars

\* A gate that has been approved is not asked again while its answer stands.
AskedOnce ==
  [][\A r \in openGates' \ openGates : \A a \in standing' : a[1] # r.gate]_vars

-----------------------------------------------------------------------------
\* Every run comes to an end by itself, without the wall clock's help: no wedge
\* between regions waiting on ports, gates waiting on people and the rebuilds.
Terminates == <>(phase = "over")

\* An INTERRUPT ends the run: whoever waits for its termination can proceed.
InterruptEnds == interrupt.seen ~> phase = "over"
=============================================================================
