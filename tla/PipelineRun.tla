----------------------------- MODULE PipelineRun -----------------------------
(***************************************************************************)
(* One call of runPipeline: the stage machine of StageMachine driven by    *)
(* stage executors, a human answering gates, an operator interrupting or   *)
(* cancelling, and the wall-clock budget.                                  *)
(*                                                                         *)
(* Node runs one callback at a time, and XState delivers an event and      *)
(* everything it raises, including what the runner's subscriber sends back,*)
(* before send() returns.  An action below is therefore one external event *)
(* with its whole cascade: macrostep, cancellation, gate rows, executor    *)
(* starts, and on a retry or rollback the rebuild of the actor, which is   *)
(* reached through microtasks only.                                        *)
(*                                                                         *)
(* Executors are NOT part of the actor: a rebuild leaves them running, and *)
(* whatever they write or report goes through the run-scoped dispatcher to *)
(* the actor alive at that time.                                           *)
(***************************************************************************)
EXTENDS StageMachine

CONSTANTS
  MaxTotalAttempts,  \* MAX_TOTAL_ATTEMPTS: actors built in one run
  SecretStages,      \* agents that may find an envKey missing
  Rewriters,         \* agents that may write an output again while their attempt is running
  PartialScripts     \* scripts whose module may leave a declared output out

ASSUME RunAssumption ==
  /\ MaxTotalAttempts \in Nat \ {0}
  /\ SecretStages \subseteq Agents
  /\ Rewriters \subseteq Agents
  /\ PartialScripts \subseteq Scripts

VARIABLES
  machine,        \* the live actor's snapshot
  generation,     \* totalAttempts: actors built so far
  actorUp,        \* the current actor accepts events
  phase,          \* "live": in the main loop; "draining": in finally; "over"
  verdict,        \* what the main loop ended with
  book,           \* run-scoped sets that survive a rebuild
  budget,         \* the wall-clock timer and what pauses it
  interrupt,      \* INTERRUPT observed, and the actor its grace timer will stop
  secretPending,  \* secretPendingObserved
  executors,      \* executeStage calls that have not returned
  runs,           \* [Stages -> Nat]: highest attempt_idx of the stage
  attempt,        \* status of that attempt row
  openGates,      \* gate_queue rows with answered_at NULL
  finals,         \* the task_finals row
  runFinal,       \* finalState published with run_final
  consumed,       \* observation: the inputs the latest run of a stage read
  standing,       \* observation: routes people picked and nobody rolled back
  correction      \* observation: the gate's latest answer the actor heard, while that is a reject

vars == <<machine, generation, actorUp, phase, verdict, book, budget, interrupt,
          secretPending, executors, runs, attempt, openGates, finals, runFinal,
          consumed, standing, correction>>

Observations == <<consumed, standing, correction>>

Executor == [stage : Stages, run : Nat, born : Nat, pending : SUBSET Ports]

AttemptStates == {"none", "running", "success", "error", "secret_pending"}

TypeOK ==
  /\ machine \in Machines
  /\ generation \in 1..MaxTotalAttempts
  /\ actorUp \in BOOLEAN
  /\ phase \in {"live", "draining", "over"}
  /\ verdict \in {"none", "completed", "thrown"}
  /\ book \in [published : SUBSET Stages, cancelled : SUBSET Stages,
               dispatched : SUBSET Gates, rejected : SUBSET Gates]
  /\ budget \in [running : BOOLEAN, gated : BOOLEAN, expired : BOOLEAN]
  /\ interrupt \in [seen : BOOLEAN, grace : 0..MaxTotalAttempts]
  /\ secretPending \in BOOLEAN
  /\ executors \subseteq Executor
  /\ runs \in [Stages -> Nat]
  /\ attempt \in [Stages -> AttemptStates]
  /\ openGates \subseteq [gate : Gates, run : Nat]
  /\ finals \in {"none", "completed", "failed", "cancelled"}
  /\ runFinal \in {"none", "completed", "failed"}
  /\ consumed \in [Stages -> [Ports -> Cells]]
  /\ standing \subseteq Gates \X Nat
  /\ correction \in [Gates -> Nat]

-----------------------------------------------------------------------------
Live == phase = "live" /\ actorUp

GateOpen(m) == Executing(m) \cap Gates # {}

\* The subscriber toggles the timer when the first gate opens or the last closes.
Toggled(b, m) ==
  [b EXCEPT !.gated = GateOpen(m),
            !.running = CASE GateOpen(m) /\ ~b.gated -> FALSE
                          [] ~GateOpen(m) /\ b.gated -> ~b.expired
                          [] OTHER -> @]

\* Downstream of the stages that newly failed for a cause of their own.
Propagation(m, bk) ==
  UNION {DownstreamOf[s] :
           s \in {f \in Failed(m) \ bk.published : m.reason[f] \in RootCauses}}
    \ (bk.cancelled \cup Final(m))

\* Mutant: the attempt index is read before the row is inserted.
StartedOffByOne(S, rn, n) ==
  {[stage |-> s, run |-> rn[s], born |-> n, pending |-> Outputs[s]] : s \in S}

\* An executeStage call opens an attempt row; S starts in the current actor n.
Started(S, rn, n) ==
  {[stage |-> s, run |-> rn[s] + 1, born |-> n, pending |-> Outputs[s]] : s \in S}

Bumped(rn, S) == [s \in Stages |-> IF s \in S THEN rn[s] + 1 ELSE rn[s]]

\* Mutant: every snapshot invokes the executors again.
InvokedAgain(m0, m1) == Executing(m1) \ Gates

\* The regions that entered executing and invoke their executor.
Invoked(m0, m1) == (Executing(m1) \ Executing(m0)) \ Gates

\* Mutant: a gate is dispatched on every snapshot.
UndispatchedAgain(m1, bk) == IF Final(m1) = Stages THEN {} ELSE Executing(m1) \cap Gates

\* The gates executing without a gate_queue row yet.
Undispatched(m1, bk) ==
  IF Final(m1) = Stages THEN {} ELSE (Executing(m1) \cap Gates) \ bk.dispatched

(***************************************************************************)
(* The actor of generation n moved from machine m0 to m1: spawn the        *)
(* executors of the regions that entered executing, propagate failures,    *)
(* open a gate_queue row for every gate not dispatched yet, and finish if  *)
(* every region is final.  bk, ex, rn and at are the book, executors, runs *)
(* and attempts the event itself left behind.                              *)
(***************************************************************************)
Observe(m0, m1, n, bk, bud, ex, rn, at) ==
  LET starts  == Invoked(m0, m1)
      gates   == Undispatched(m1, bk)
      doomed  == Propagation(m1, bk)
      m2      == StageCancelled(m1, doomed)
      ended   == Final(m2) = Stages
  IN /\ machine' = m2
     /\ generation' = n
     /\ actorUp' = ~ended
     /\ phase' = IF ended THEN "draining" ELSE "live"
     /\ verdict' = IF ended THEN "completed" ELSE "none"
     /\ book' = [published  |-> bk.published \cup Final(m2),
                 cancelled  |-> bk.cancelled \cup doomed,
                 dispatched |-> bk.dispatched \cup gates,
                 rejected   |-> bk.rejected \ (Done(m2) \ bk.published)]
     /\ budget' = Toggled(bud, m2)
     /\ executors' = ex \cup Started(starts, rn, n)
     /\ runs' = Bumped(rn, starts \cup gates)
     /\ attempt' = [s \in Stages |-> IF s \in starts \cup gates THEN "running" ELSE at[s]]
     /\ consumed' = [s \in Stages |->
                       IF s \in starts
                         THEN [p \in Ports |-> IF p \in Inputs[s] THEN m1.cells[p] ELSE Absent]
                         ELSE consumed[s]]

\* Gate rows the observed step opens, next to those of rows.
Opened(m1, bk, rows, rn) ==
  rows \cup {[gate |-> g, run |-> rn[g] + 1] : g \in Undispatched(m1, bk)}

\* The event finds no actor to take it: only executors and attempt rows change.
Unheard(ex, at) ==
  /\ executors' = ex
  /\ attempt' = at
  /\ UNCHANGED <<machine, generation, actorUp, phase, verdict, book, budget, runs, consumed>>

(***************************************************************************)
(* Rebuild: a new actor over the rewound context m.  START settles it;     *)
(* then the answers of gates still done are replayed, the route of each    *)
(* being recovered as the first one all of whose targets are authorized.   *)
(* Past the attempt limit the main loop throws instead.                    *)
(***************************************************************************)
Recovered(m, g) == {i \in DOMAIN Routes[g] : Routes[g][i] \subseteq m.authorized}

Replayed(m, bk) ==
  LET gs == {g \in Gates \cap Done(m) : g \notin bk.rejected /\ Recovered(m, g) # {}}
      route(g) == CHOOSE i \in Recovered(m, g) : \A j \in Recovered(m, g) : i <= j
      skip == Waiting(Settle(m)) \cap UNION {Siblings[g] \ Routes[g][route(g)] : g \in gs}
  IN Settle([Settle(m) EXCEPT !.region = [s \in Stages |-> IF s \in skip THEN "done" ELSE @[s]],
                              !.skipped = @ \cup skip])

Exhausted == generation = MaxTotalAttempts

Rebuild(m, bk, ex, rn, at, rows) ==
  IF Exhausted
  THEN /\ phase' = "draining"
       /\ verdict' = "thrown"
       /\ actorUp' = FALSE
       /\ executors' = ex
       /\ runs' = rn
       /\ attempt' = at
       /\ openGates' = rows
       /\ UNCHANGED <<machine, generation, book, budget, consumed>>
  ELSE /\ Observe(m, Replayed(m, bk), generation + 1, bk, budget, ex, rn, at)
       /\ openGates' = Opened(Replayed(m, bk), bk, rows, rn)

\* Mutant: gates stay dispatched.
ClearedKeepsDispatched(bk, reset) == [bk EXCEPT !.published = @ \ reset, !.cancelled = @ \ reset]

\* Entries of the stages being re-run are dropped from the run-scoped sets.
Cleared(bk, reset) ==
  [bk EXCEPT !.published = @ \ reset, !.cancelled = @ \ reset, !.dispatched = @ \ reset]

-----------------------------------------------------------------------------
\* External inputs are seeded, the first actor starts.
Init ==
  \E seeds \in [{p \in Ports : Owner[p] = External} -> Values] :
    LET m0 == Fresh(seeds)
        m1 == Settle(m0)
        none == [s \in Stages |-> 0]
        bk == [published |-> {}, cancelled |-> {}, dispatched |-> {}, rejected |-> {}]
        starts == Executing(m1) \ Gates
        gates == Executing(m1) \cap Gates
        m2 == StageCancelled(m1, Propagation(m1, bk))
        ended == Final(m2) = Stages
    IN /\ machine = m2
       /\ generation = 1
       /\ actorUp = ~ended
       /\ phase = IF ended THEN "draining" ELSE "live"
       /\ verdict = IF ended THEN "completed" ELSE "none"
       /\ book = [published |-> Final(m2), cancelled |-> Propagation(m1, bk),
                  dispatched |-> gates, rejected |-> {}]
       /\ budget = Toggled([running |-> TRUE, gated |-> FALSE, expired |-> FALSE], m2)
       /\ interrupt = [seen |-> FALSE, grace |-> 0]
       /\ secretPending = FALSE
       /\ executors = Started(starts, none, 1)
       /\ runs = Bumped(none, starts \cup gates)
       /\ attempt = [s \in Stages |-> IF s \in starts \cup gates THEN "running" ELSE "none"]
       /\ openGates = Opened(m1, bk, {}, none)
       /\ finals = "none"
       /\ runFinal = "none"
       /\ consumed = [s \in Stages |-> [p \in Ports |->
                        IF s \in starts /\ p \in Inputs[s] THEN m1.cells[p] ELSE Absent]]
       /\ standing = {}
       /\ correction = [g \in Gates |-> 0]

Settles(e, status) ==
  [attempt EXCEPT ![e.stage] = IF e.run = runs[e.stage] THEN status ELSE @]

\* write_port: the row is inserted and PORT_WRITTEN sent, whatever actor is alive.
Write(e, P, v, ex, at) ==
  /\ IF Live
       THEN LET m1 == PortWritten(machine, P, Cell(v, e.run))
            IN /\ Observe(machine, m1, generation, book, budget, ex, runs, at)
               /\ openGates' = Opened(m1, book, openGates, runs)
       ELSE Unheard(ex, at) /\ UNCHANGED openGates
  /\ UNCHANGED <<interrupt, secretPending, finals, runFinal, standing, correction>>

\* write_port, in any order: the attempt is running and owns the port; nothing in
\* the code refuses a second value for a port already written.
AgentWrite(e, p, v) ==
  /\ e.stage \in Agents
  /\ p \in e.pending \/ (e.stage \in Rewriters /\ p \in Outputs[e.stage])
  /\ Write(e, {p}, v, (executors \ {e}) \cup {[e EXCEPT !.pending = @ \ {p}]}, attempt)

\* The agent's turn ends with every declared output written.
AgentFinish(e) ==
  /\ e.stage \in Agents
  /\ e.pending = {}
  /\ Unheard(executors \ {e}, Settles(e, "success"))
  /\ UNCHANGED <<interrupt, secretPending, openGates, finals, runFinal, standing, correction>>

\* A script module returned: the outputs it named are written in one go.
ScriptReturn(e, P, v) ==
  /\ e.stage \in Scripts
  /\ P = e.pending \/ (P \subseteq e.pending /\ e.stage \in PartialScripts)
  /\ Write(e, P, v, executors \ {e}, Settles(e, "success"))

\* STAGE_FAILED reaches the actor alive now; a script with budget left rewinds.
Failure(e, ex, at) ==
  LET s == e.stage IN
  IF ~Live
  THEN Unheard(ex, at) /\ UNCHANGED openGates
  ELSE IF ~RetriesOn(machine, s)
  THEN LET m1 == StageFailed(machine, s)
       IN /\ Observe(machine, m1, generation, book, budget, ex, runs, at)
          /\ openGates' = Opened(m1, book, openGates, runs)
  ELSE \* Back in waiting the region is promoted at once and its executor started
       \* a second time, before RETRY_TO_STAGE reaches the inspector that stops the actor.
       LET ghosts == Executing(Settle([machine EXCEPT !.region[s] = "waiting"])) \cap {s}
           m == [Rewound(machine, ToReset[s], {}) EXCEPT !.retries[s] = @ + 1]
       IN Rebuild(m, Cleared(book, ToReset[s]),
                  ex \cup Started(ghosts, runs, generation),
                  Bumped(runs, ghosts),
                  [at EXCEPT ![s] = IF s \in ghosts THEN "running" ELSE @],
                  openGates)

\* The executor reports an error; an agent's turn may still end in one after its last write.
ExecutorFail(e) ==
  /\ Failure(e, executors \ {e}, Settles(e, "error"))
  /\ UNCHANGED <<interrupt, secretPending, finals, runFinal, standing, correction>>

\* The executor finds a secret missing before doing any work: the run pauses.
ExecutorSecretPending(e) ==
  /\ e.stage \in SecretStages
  /\ e.pending = Outputs[e.stage]
  /\ secretPending' = TRUE
  /\ LET paused == [budget EXCEPT !.running = FALSE]
         at == Settles(e, "secret_pending")
         m1 == StageFailed(machine, e.stage)
     IN IF Live
          THEN /\ Observe(machine, m1, generation, book, paused, executors \ {e}, runs, at)
               /\ openGates' = Opened(m1, book, openGates, runs)
          ELSE /\ executors' = executors \ {e}
               /\ attempt' = at
               /\ budget' = paused
               /\ UNCHANGED <<machine, generation, actorUp, phase, verdict, book, runs,
                              consumed, openGates>>
  /\ UNCHANGED <<interrupt, finals, runFinal, standing, correction>>

-----------------------------------------------------------------------------
\* answerGate closes the row and its attempt; the feedback port is written either way.
Closed(r) ==
  [attempt EXCEPT ![r.gate] = IF r.run = runs[r.gate] /\ @ = "running" THEN "success" ELSE @]

Answered(r) == PortWritten(machine, {Feedback[r.gate]}, Cell(Seed, r.run))

\* Forward answer i on row r: GATE_ANSWERED.
Approve(r, i) ==
  /\ i \in DOMAIN Routes[r.gate]
  /\ ~IsReject(r.gate, i)
  /\ standing' = IF Live THEN standing \cup {<<r.gate, i>>} ELSE standing
  /\ correction' = [correction EXCEPT ![r.gate] = 0]
  /\ IF Live
       THEN LET m1 == GateAnswered(Answered(r), r.gate, Routes[r.gate][i])
            IN /\ Observe(machine, m1, generation, book, budget, executors, runs, Closed(r))
               /\ openGates' = Opened(m1, book, openGates \ {r}, runs)
       ELSE Unheard(executors, Closed(r)) /\ openGates' = openGates \ {r}
  /\ UNCHANGED <<interrupt, secretPending, finals, runFinal>>

\* Reject on row r: GATE_REJECTED makes the main loop rewind and rebuild.
Reject(r, i) ==
  /\ i \in DOMAIN Routes[r.gate]
  /\ IsReject(r.gate, i)
  /\ LET g == r.gate
         reset == Affected[g]
         now == IF actorUp THEN Answered(r) ELSE machine
         m == Pruned(Rewound(now, reset, {Feedback[g]}), reset)
         bk == [Cleared(book, reset) EXCEPT !.rejected = @ \cup {g}]
     IN IF phase = "live"
          THEN /\ Rebuild(m, bk, executors, runs, Closed(r), openGates \ {r})
               /\ standing' = IF Exhausted THEN standing
                              ELSE {a \in standing : a[1] \notin reset}
               /\ correction' = [x \in Gates |-> IF x = g THEN (IF actorUp THEN r.run ELSE 0)
                                                ELSE IF x \in reset THEN 0 ELSE correction[x]]
          ELSE /\ Unheard(executors, Closed(r))
               /\ openGates' = openGates \ {r}
               /\ UNCHANGED <<standing, correction>>
  /\ UNCHANGED <<interrupt, secretPending, finals, runFinal>>

-----------------------------------------------------------------------------
Registered == phase # "over"

\* Task-wide INTERRUPT: executors of executing regions get their abort signal,
\* and the actor it was sent to is stopped if still active after the grace period.
Interrupted == interrupt' = [seen |-> TRUE, grace |-> generation]

Interrupt ==
  /\ Registered
  /\ interrupt.grace # generation
  /\ Interrupted
  /\ UNCHANGED <<machine, generation, actorUp, phase, verdict, book, budget, secretPending,
                 executors, runs, attempt, openGates, finals, runFinal>>
  /\ UNCHANGED Observations

GraceExpires ==
  /\ Live
  /\ interrupt.grace = generation
  /\ actorUp' = FALSE
  /\ UNCHANGED <<machine, generation, phase, verdict, book, budget, interrupt, secretPending,
                 executors, runs, attempt, openGates, finals, runFinal>>
  /\ UNCHANGED Observations

\* cancelTask, from a tool, the dashboard or the gate timeout sweeper.
CancelTask ==
  /\ finals = "none"
  /\ \E s \in Stages : runs[s] > 0
  /\ IF Registered THEN Interrupted ELSE UNCHANGED interrupt
  /\ finals' = "cancelled"
  /\ openGates' = {}
  /\ UNCHANGED <<machine, generation, actorUp, phase, verdict, book, budget, secretPending,
                 executors, runs, attempt, runFinal>>
  /\ UNCHANGED Observations

\* The wall-clock budget runs out; in finally the timer is still armed.
Timeout ==
  /\ Registered
  /\ budget.running /\ ~budget.expired
  /\ budget' = [budget EXCEPT !.running = FALSE, !.expired = TRUE]
  /\ phase' = "draining"
  /\ actorUp' = FALSE
  /\ UNCHANGED <<machine, generation, verdict, book, interrupt, secretPending, executors, runs,
                 attempt, openGates, finals, runFinal>>
  /\ UNCHANGED Observations

-----------------------------------------------------------------------------
\* Stages whose own failure the finals row counts.
StageErrors == {s \in Failed(machine) : machine.reason[s] # "upstream_cancelled"}

Classified ==
  IF ~budget.expired /\ ~interrupt.seen /\ verdict = "completed" /\ StageErrors = {}
    THEN "completed" ELSE "failed"

\* What run_final reports: latest attempt rows and errors they did not outlive.
Reported ==
  IF \/ \E s \in Stages : attempt[s] = "error"
     \/ \E s \in StageErrors : attempt[s] # "success"
    THEN "failed" ELSE "completed"

\* Mutant: the upsert overwrites a cancellation.
RecordedAnyway == IF secretPending THEN finals ELSE Classified

\* finalsGuard: the row is left alone when the task was cancelled or waits for a secret.
Recorded == IF secretPending \/ finals = "cancelled" THEN finals ELSE Classified

\* Checkpoints drained: the finals row is upserted unless cancelled, the task unregistered.
Finish ==
  /\ phase = "draining"
  /\ phase' = "over"
  /\ finals' = Recorded
  /\ runFinal' = IF secretPending \/ budget.expired \/ verdict # "completed" THEN runFinal
                 ELSE Reported
  /\ budget' = [budget EXCEPT !.running = FALSE]
  /\ actorUp' = FALSE
  /\ UNCHANGED <<machine, generation, verdict, book, interrupt, secretPending, executors, runs,
                 attempt, openGates>>
  /\ UNCHANGED Observations

\* Force-stopped under a gate: the timer is paused and no snapshot will resume it.
Stranded == phase = "live" /\ ~actorUp /\ ~budget.running

\* Nothing is left to happen in this run; a paused task waits for its secret.
Quiet ==
  /\ phase = "over" \/ Stranded
  /\ executors = {}
  /\ openGates = {}
  /\ finals # "none" \/ secretPending
  /\ UNCHANGED vars

ExecutorStep(e) ==
  \/ \E p \in Ports, v \in Values \ {Seed} : AgentWrite(e, p, v)
  \/ AgentFinish(e)
  \/ \E P \in SUBSET e.pending, v \in Values \ {Seed} : ScriptReturn(e, P, v)
  \/ ExecutorFail(e)
  \/ ExecutorSecretPending(e)

Answer(r) == \E i \in DOMAIN Routes[r.gate] : Approve(r, i) \/ Reject(r, i)

\* What happens by itself once people and executors do their part.
Work ==
  \/ \E e \in executors : ExecutorStep(e)
  \/ \E r \in openGates : Answer(r)
  \/ Finish
  \/ Quiet

Next == Work \/ Interrupt \/ GraceExpires \/ CancelTask \/ Timeout

Spec == Init /\ [][Next]_vars

\* Weak fairness of executors and answers, with ENABLED written out for TLC: a step of an
\* executor takes it out of the set or changes it, an answer takes the row out, and
\* both are possible as long as the executor is there and the row is open.
Returns(s) == \E e \in executors \ executors' : e.stage = s
Responds(g) == \E r \in openGates \ openGates' : r.gate = g

\* Executors make their next call, people answer open gates, the event loop reaches finally.
Fairness ==
  /\ \A s \in Stages : []<>(\A e \in executors : e.stage # s) \/ []<><<Returns(s)>>_vars
  /\ \A g \in Gates : []<>(\A r \in openGates : r.gate # g) \/ []<><<Responds(g)>>_vars
  /\ WF_vars(Finish)

\* A run nobody interrupts or cancels and whose wall-clock budget is ample.
CalmSpec == Init /\ [][Work]_vars /\ Fairness

\* A run an operator may interrupt; the timers fire when they are due.
InterruptSpec ==
  /\ Init /\ [][Work \/ Interrupt \/ GraceExpires \/ Timeout]_vars
  /\ Fairness
  /\ WF_vars(GraceExpires)
  /\ WF_vars(Timeout)
=============================================================================
