# A TLA+ model of the workflow-control kernel

workflow-control runs *pipelines*: graphs of agents, scripts and human gates whose
outputs flow over wires. The server under `apps/server/src/kernel-next` compiles a
pipeline to an XState machine, drives it with executors, records everything in SQLite,
and lets people and agents change a pipeline while it runs. This directory holds TLA+
modules of its core, the TLC runs that check them on small instances, and TLAPS proofs
that hold for every instance. Paths below are relative to `apps/server/src/kernel-next`
unless they start with `apps/`.

## 1. Inventory

| component | state it keeps | operations | interacts with | hard part | what makes it correct |
|---|---|---|---|---|---|
| stage machine (`compiler/ir-to-machine.ts`) | one region per stage; port values, approved and skipped targets, retry counters, finalized stages | PORT_WRITTEN, STAGE_FAILED, STAGE_CANCELLED, GATE_ANSWERED | runner (actor), executors (invokes) | guards of all regions see the context before the event | only picked stages run; a region ends once |
| runner (`runtime/runner.ts`) | actor of the moment, run-scoped sets, wall clock, verdict | START, rebuild after retry or reject, INTERRUPT, timeout, finally | machine, port runtime, gates, registry, broadcaster | executors outlive the actor that started them; rebuilds | no mixture of runs, one question per gate, the run ends |
| port runtime (`runtime/port-runtime.ts`) | `stage_attempts`, `port_values` | startAttempt, writePort, finishAttempt | runner's dispatcher | events reach whatever actor is alive | attempt rows and events agree |
| agent executor (`runtime/real-executor.ts`, `agent-machine.ts`, SDK adapter) | attempt, execution record, turn machine, SDK session | attempts, free retries, feedback rounds, interrupt | port runtime, SDK stream | an interrupt in any turn, retry or round | one call: silent until it is settled, then one outcome |
| fanout (`runtime/runner-fanout.ts`) | element attempts | worker pool, element retry, timeout, reuse of earlier passes | port runtime, executors | a timed-out try is detached and goes on | order kept, nothing lost, nothing left running |
| gates (`mcp/kernel.ts`, `routes/kernel-gates.ts`) | `gate_queue` | createGate, answerGate | registry, port runtime | transaction first, event second | a question is asked once and its answer kept |
| cancel and verdict (`mcp/kernel.ts`, finally of the runner) | `task_finals` | cancelTask, upsert | registry, gates | two writers of one row | the first verdict stands |
| task registry (`runtime/task-registry.ts`) | dispatcher and termination per task | register, signal, await, unregister, interruptAll | runner, migration, shutdown | replaced registrations | an awaiter is released |
| start, resume, orphans (`runtime/start-pipeline-run.ts`, `orphan-reconciler.ts`) | rows of unfinished tasks | start, boot scan, resume | runner, registry | crash between any two steps | what was done is kept, what was cut short is redone |
| retry from stage, secret gates (`mcp/kernel.ts`) | `secret_gate_queue`, superseded attempts | retryTaskFromStage, provideTaskSecrets | start | resume while the old run drains | a task has one runner |
| hot update (`hot-update/`, `mcp/kernel.ts`) | versions, proposals, superseded attempts | submit, propose, approve, migrate, roll back, diff | registry, start, validator | interrupt, await, switch, restore on refusal | exactly what must be redone is redone |
| IR, validator, segment planner (`ir/`, `validator/`, `runtime/segment-planner.ts`) | none | validate, hash, plan, apply patch | codegen, hot update | reject loops in an acyclic order | what is registered can run |
| built-in generator (`builtin-scripts/`) | pipelines in the making | assemble, repair, submit | IR, validator | mending several slips at once | mended means as it was meant |
| task status, debug tools, prune (`mcp/kernel.ts`, `mcp/tools/debug.ts`, `debug/`, `apps/server/src/cli/lib/prune-kernel-records.ts`) | none of their own | read, replay, dry run, write from outside, prune | all tables | many readers of rows that several writers left | readers agree; nothing in use is pruned |
| broadcaster and SSE streams (`sse/broadcaster.ts`, `sse/http.ts`) | channel: listeners, ring, next seq; one stream per connection | publish, subscribe, replay, cancel | runner, routes, waits | replay at reconnect, dead connections found late | no retained event lost, none repeated |
| waits (`mcp/tools/task.ts`, `mcp/pg-entry.ts`) | one listener and timer per call | wait_for_task_event, wait_pipeline_result | broadcaster, `gate_queue` | answers that are in the ring already, or no longer true | nobody waits for what is there |
| server lock, shutdown, sweeper | pid file; deadlines of gates | acquire, release, sweep, exit | registry, cancel | two servers, answer against timeout | one server |
| checkpoints, worktrees, MCP catalog, forge, HTTP routes, web | git snapshots and worktrees; catalog rows; JSON | | | mostly I/O | see section 7 |

`PROJECT.json` lists every component with its status and every hazard with its line.

## 2. What is modelled

```
PipelineIR            the pipeline: constants and the compiler's graph computations
  StageMachine        the compiled machine: a record, one operator per event
    PipelineRun       one runPipeline call: variables, actions, Spec and its fair variants
      PipelineProperties   -> MCReview, MCBranch, MCStacked
                      -> PipelineRunProofs -> PipelineOutcomeProofs

AgentMachine          the turn machine of one query
  AgentAttempt        executeStage of an agent: attempts, rounds, retries
                      -> MCAgent, AgentProofs        implements StageCall

Fanout                orchestrateFanoutStage over several passes
                      -> MCFanout, FanoutProofs

TaskLifecycle         one task between the database and the server's memory
  LifecycleProperties -> MCLifecycle, LifecycleProofs   implements TaskVerdict

TaskRecords           the rows tasks leave, and everybody who reads or writes them
  RecordsProperties   -> MCRecords, RecordsProofs

PipelineVersion       a pipeline version as data: patch, validate, plan, compare
  HotUpdate           the registry, proposals, one task moved between versions
    HotUpdateProperties -> MCHotUpdate, HotUpdateProofs
  RepairIR, InvestigationIR
    PipelineGenerator -> MCGenerator

EventStream           one task's channel, its SSE streams and the calls that block on it
                      -> MCEvents, EventStreamProofs
```

The modules meet at narrow contracts. What PipelineRun takes an executor to be is what
`StageCall` says, and `AgentAttempt` is shown to implement that. What a run does inside is
PipelineRun's; TaskLifecycle reduces it to the set of finished stages and the stage it is
at, and adds what PipelineRun leaves out: the server dies, and the run is resumed,
migrated or retried. TaskRecords keeps the rows of the same steps and asks what they tell
a reader. HotUpdate takes a migration as one step and asks which attempts it keeps.

### The run: PipelineIR, StageMachine, PipelineRun

**PipelineIR.** Stages, ports, wires with guards (a set of accepted values), gates with their
answers in declaration order, and retry policies are CONSTANTS; the ASSUMEs are what
structural validation guarantees. `GateAncestors`, `GateRouted`, `RollbackAnswers`,
`Affected` and `ToReset` are the compiler's and the runner's closures. A rollback answer is
recognised by the closure without feedback wires; the cancellation and retry closures
(`DownstreamOf`) include them, as `computeTransitiveDownstreams` and `topoDownstream` do.

**StageMachine.** A machine is a record of regions, context and retry counters. Each
operator returns the machine after the whole macrostep. Eventless transitions read only
their own region and context they do not change, so `Settle` takes them all at once.
`GateAnswered` keeps the code's trap: every region guards on the context before the event.

**PipelineRun.** An action is one callback of the Node event loop with everything it causes
synchronously: the macrostep, the cancellations the subscriber sends back, the gate rows
it inserts, the executors it starts, and for a retry or reject the rebuild of the actor,
which is reached through microtasks only.

| variable | code |
|---|---|
| `machine`, `generation`, `actorUp` | the current actor's snapshot, `totalAttempts`, whether it takes events |
| `phase`, `verdict` | main loop, finally, returned; how the loop ended |
| `book` | `publishedStageFinal`, `cancelledByPropagation`, `dispatched`, `rejectFromGates` |
| `budget` | wall clock timer, `gateInFlight`, `timedOut` |
| `interrupt`, `secretPending` | `interruptObserved` and the actor the grace timer will stop; `secretPendingObserved` |
| `executors` | executeStage promises: stage, attempt, actor that started it, ports to write |
| `runs`, `attempt` | latest `stage_attempts` row per stage |
| `openGates`, `finals`, `runFinal` | `gate_queue`, `task_finals`, the run_final event |
| `consumed`, `standing`, `correction` | observations: inputs a stage read, answers that stand, the comment to be read |

| action | code |
|---|---|
| `AgentWrite`, `AgentFinish` | write_port tool, end of the agent's turn |
| `ScriptReturn` | script executor: all outputs, then success |
| `ExecutorFail`, `ExecutorSecretPending` | finishAttempt(error) and STAGE_FAILED; pause for a secret |
| `Approve`, `Reject` | answerGate and the events it dispatches; Reject includes the rollback branch |
| `Interrupt`, `GraceExpires`, `Timeout` | dispatcher INTERRUPT, grace timer, wall clock |
| `CancelTask` | cancelTask, also reached from the gate sweeper |
| `Finish` | the finally block: verdict, run_final, unregister |

Three constants say what executors may do: `SecretStages` may find a secret missing,
`PartialScripts` may leave an output out, and `Rewriters` may write an output again while
their attempt is running. The last two are things the code allows and its prompts and
types discourage, so properties about data are checked without them and properties about
control with them.

### One agent call: AgentMachine, AgentAttempt, StageCall

`AgentMachine` is the turn machine as a record with one operator per event, the adapter's
classification of SDK messages included. `AgentAttempt` puts it into executeStage:
`BeginAttempt` opens the row, the record and the query; messages, tool calls,
`WritePort`, `Interrupt` and `StreamCloses` interleave; `QueryFails`, `Succeed`,
`NonCompliant` and `Feedback` are what the code does when the query has ended, `GiveUp`,
`PauseForSecret`, `RefuseConfig` and `BackoffEnds` what it does around it. The code
between two awaits is one action. `StageCall` is the contract: one call that delivers
outputs while it is open, returns once, and returns success only with all of them.

### A fanout stage: Fanout

A pass is one orchestrateFanoutStage call. `Reuse`, `Bail` and `Begin` are a worker taking
the next index; `TrySucceeds`, `TryFails`, `TryPauses` and `TryTimesOut` end its await;
`LateEnd` is the executor of a try nobody waits for any more, which still writes its row.
`Crash`, `Rewind`, `Migrate` and `ProvideSecrets` come between passes and decide which
rows the next one reuses. An output stands for the element it was computed from.

### A task's lives: TaskLifecycle, TaskVerdict

The pipeline is a chain of stages 1..N with gates in it. `rows`, `questions`, `missing`,
`keys`, `finals` and `rerun` are in the database; `server`, `runner`, `flying` and
`migration` are memory and vanish with it. `Open`/`Pause`/`Deliver`/`Return` are
attempts; `Approve`, `Reject`, `AnswerUnheard` answers (the last one is committed and
never dispatched, because the server dies in between); `Cancel` and `Sweep` end the task
from outside; `Begin` … `Terminated` … `WaitTimesOut`, `Supersede` and `Resume` are
executeMigration step by step, also for a retry; `Crash`, `StopBegins`, `StopEnds` and
`Boot` are the server's. A refused launch (`Launch`) is what the catch of
startPipelineRun sees. `TaskVerdict` is what the owner of a task may rely on: completed
only when a person answered every gate, and cancelled for good.

### Versions: PipelineVersion, HotUpdate

An IR is a record of stages, wires, external inputs, store schema and session mode; types
are a base, field names and an array depth. `Valid`, the patch operations, `Segments`,
`ResumeOrder`, the diff, the divergence and the transitive readers are translated as
operators, with what the schema asks of MCP servers. HotUpdate computes `Pool`, every version a sequence of the given proposals can
lead to, and its state is what was registered, proposed, run, migrated, retried and
rolled back. A registration is two writes, and a crash may fall between them. People
register by `Submit`, by `Propose` and by `UpdateRegistry` (updateRegistryPipeline, which
takes prompts nobody refers to).

### The generator: RepairIR, InvestigationIR, PipelineGenerator

`InvestigationIR` is the pipeline of 20 stages the assemble script builds. `RepairIR` is the
repair script: which names are taken for which, which wires are dropped, which inputs and
external inputs are made up. `PipelineGenerator` lets an agent mean one IR and write another
(`Slip`, of six kinds), repairs and submits it, sub-pipelines first. What the assembled one
is made from is what an agent recommends: catalog entries, from which `Servers` makes the
MCP servers of one stage, and which may lack a command, repeat an id, or have one that is no
identifier. `ServersOK` is what the schema asks of them.

### The rows: TaskRecords

The tables of one or several tasks, the memory of their runs, and every writer: the run
(`StartStage`, `StartElement`, `Write`, `Finish`, `Rowless`, `RunEnds`), people
(`Answer`, `Cancel`, `Retry`, `ProvideSecrets`), `ReplayStage`, `DryRunStage` and
`WriteFromOutside`, the pruner, a crash and a boot. The readers are operators: `Status` and
`Listed`, `ReadLatest`, `Lineage`, `ComparedOutput`, `ComparedRun`, `Recorded`,
`ShownAtGate`, `Hydrated`, `Failing`. A value is named by the attempt that wrote it. `ports` maps the
order of writing to a row, as `written_at` and the upsert of writePort do.

### The event stream: EventStream

Stands beside the run: what the runner does is reduced to the order in which gates open,
stages fail and runs end (`task`), and everything else it publishes is `Progress`.
Publishing is synchronous, so an action is again one callback.

| variable | code |
|---|---|
| `history`, `nextSeq`, `listeners` | TaskChannel |
| `calls`, `open` | connections and calls made, and those that have not ended |
| `last` | Last-Event-ID of a client, sinceSeq of a driver's next call |
| `wire` | frames enqueued on a client's connection and not yet read |
| `verdict` | what wait_pipeline_result last returned |
| `told`, `published`, `lifetime` | observations: events each subscriber got, the number there ever were, server starts |

| action | code |
|---|---|
| `Publish`, with `Progress`, `OpenGate`, `StageError`, `SecretMissing`, `RunFinal` | publish, and the places of the runner it is called from |
| `AnswerGate`, `Pause`, `ProvideSecrets` | steps of the task that publish nothing that is waited for |
| `Connect`, `Receive`, `Disconnect`, `Cancel` | createKernelNextStream; the reader; a broken connection; cleanup |
| `Wait`, `Timeout` | both blocking tools: replay, live match, timer |
| `Restart` | an empty broadcaster, and what classifyOrphan makes of the task |

`Resuming` tells clients that send Last-Event-ID (an EventSource) from those that do not: the
dashboard reads the stream with fetch and gets the whole ring at each reconnect
(`apps/web/src/app/kernel-next/[taskId]/page.tsx:569`).

### Abstractions

- PipelineRun: values are those the wire guards tell apart; a cell also carries the attempt
  that wrote it. A person's feedback text is the seed value tagged with the gate's
  attempt; a wire that reads feedback carries no guard (`WiresAssumption`).
- Abort signals do not restrict executors: an executor may ignore one for as long as it likes.
- INTERRUPT is sent at most once per actor. `MaxTotalAttempts` is 50 in the code and 1 to 4
  in the runs; reaching it is a behaviour.
- Time is absent: a running timer may fire at any moment, a paused one never does. A stage
  behind one nobody picked waits for the wall clock, as it does in the code.
- AgentAttempt bounds the messages of a query (`MaxMessages`); the texts of prompts and
  messages and the numbers of tokens are left out.
- TaskLifecycle and TaskRecords: a chain of stages stands for the graph, one port per stage
  for its ports. In TaskRecords a retry or a provided secret finds no registered run
  (TaskLifecycle has the race), rows seeded from outside and migration hints are omitted,
  and an id serves either a task or a dry run.
- HotUpdate: a migration is one step, taken when no gate is open. Submissions and updates
  write their prompts row by row; a crash there comes before the first.
- RepairIR: the repairs of one pass are a set, so the order in which a file declares its
  ports is abstracted; two fanout groups with the same input name at different
  targets share the port that is made up for them; sub-pipelines are treated alike. An
  ill-formed or reserved name of an MCP server is one name each.
- Fanout: a rewind comes when the pass is over. In the code a reject or a script's retry may
  meet a pass at work, whose call then goes on beside the next one.
- EventStream has one gate open at a time and merges the two events of an opened gate; a
  rewind makes all failed stages run again; whoever waits acknowledges what it was given.
  `RunFinal` is published by the runner, or, for a run that timed out or threw, by the catch
  of startPipelineRun (`runtime/start-pipeline-run.ts:520-565`).

## 3. What the runs check

| run | instance | bounds | specification | properties |
|---|---|---|---|---|
| review | draft, gate, script behind a guarded wire, publish | 2 actors, secret in draft, draft rewrites, render partial | `Spec` | `OneOpenRowPerGate`, `CancelledHasRootCause`, `CorrectionIsKept`, `FirstVerdictStands` |
| branch | gate with three answers, guarded wire, retrying script | 3 actors, 2 values | `CalmSpec` | `PickedIsNotSkipped`, `CompletedMeansAllDone`, `RetriesWithinBudget`, `AskedOnce` |
| stacked | two gates that reject to the first stage | 4 actors | `CalmSpec` | `OnlyPickedStagesRun`, `InputsAreCurrent`, `OutputsAreFromLatestRun`, `OneExecutorPerStage`, `Terminates` |
| agent | two outputs | no or 1 retry, 1 free retry, 1 feedback round, 4 messages a query | `FairSpec` | `ImplementsStageCall`, `OneMoreTurn`, `SilentWhileRetrying`, `RecordAgreesWithRow`, `InterruptEndsTheCall` |
| fanout | two elements, one needs a key | 2 workers, 1 element retry, 2 passes, a crash, a rewind, a migration | `FairSpec` | `AggregateMatchesSource`, `NothingLeftRunning`, `PassEndsEventually` |
| lifecycle | agent, gate, agent with a key | one of each event, two together | `FairSpec` | `ImplementsTaskVerdict`, `RunningRowsHaveExecutors`, `FinishedWorkIsKept`, `TaskSettles` |
| lifecycle_reject | the same | one event | `Spec` | `CompletedIsApproved`, violated |
| hotupdate | two pipelines, patches of every kind | 1 proposal, 2 moves, 1 crash between two writes | `Spec` | `VersionsAreSound`, `SegmentsRunInTurn`, `NoStageIsOverlooked`, `PromptsAreFound`, `AutoApprovedKeepsTheGraph`, `RedoIsExact` |
| generator | a drafted pipeline with a sub-pipeline, or an investigation | 2 slips | `Spec` | `MendedIsAsMeant`, `RefusedOnlyForServers` |
| records | gate, fanout, agent with a key | one of each event, two together | `Spec` | `StatusIsTrue`, `ReadersAgree`, `HistoryIsKept`, `FailureIsFound` |
| records_replayed | one script | two events | `Spec` | `OrphanedHasNoRun`, violated |
| events | two clients, a driver, a caller | ring of 2, 4 events, 3 calls each, 1 restart | `Spec` | `OnlyNewsInFlight`, `NothingRetainedIsLost`, `NobodyWaitsInVain` |

Distinct states, in thousands: review 98, branch 64, stacked 90, agent 154, fanout 711,
lifecycle 676, hotupdate 384, generator 3, records 291, events 546.

*Why these bounds.* The shortest interesting history of a run is: run, reject, rebuild,
with an executor of the first run still alive: two actors. A second gate needs a third
actor for a rollback that crosses an approval given after a rollback, and a retry policy
needs one actor more than it has retries to show that the next is refused. Two guard
values are all a guard can tell apart. `review` is the run with every operator action and
without fairness, because its properties are about steps and not about ends. An agent
call needs one retry of each kind to mix them up, and four messages to be in a tool round,
a compaction and a turn when the interrupt comes. A fanout needs two elements to get their
outputs swapped, two passes to reuse what the first one left, and a retry to have a
detached try and its successor write side by side. A task needs a stage before the gate,
the gate, and one behind it that can pause; two events together are a crash during a
migration, or an outage of a resumed task. In `events` one subscriber is in use at a time
(`MaxActive`), any of the four: subscribers touch only the ring, which none of them
changes, and their own listeners. Four events go twice around a ring of two, and three
calls are a first one, one that resumes, and one after a restart or a late cleanup. Two
slips are enough for one repair to meet the traces of another.

*Deadlock.* The pipelines are checked for it: `Quiet` is the terminal step of a run with
nothing left to do, so any other state without a successor is reported. Elsewhere the
check is off because the system really stops: a call returns, a pass is over, a task has
its verdict, bounds are used up with nobody connected.

*Properties of a run.* Which stages may run (`OnlyPickedStagesRun`, `PickedIsNotSkipped`),
that outputs and inputs are never a mixture of runs (`OutputsAreFromLatestRun`,
`InputsAreCurrent`), that the reviewer's comment reaches the rerun (`CorrectionIsKept`),
that people are asked once (`OneOpenRowPerGate`, `AskedOnce`), that failure is accounted
for (`CancelledHasRootCause`, `CompletedMeansAllDone`), that a retry budget is a budget, that
one executor works on a stage, that a verdict is final, and that a run ends.

*Of what is around it.* An executor is one call whatever happens in it; an interrupt grants
one more turn and no more; row and record agree. A fanout's array is its source's, and no
row of it stays open. A task is completed only by people's answers, work that succeeded
is kept across crashes, rows that say running are, and the task gets somewhere. Every
version people can reach by patching is one that can run, nothing structural passes
without a person, and a migration redoes what reads the changed stage and nothing else.
What the generator registers takes every value from the port it was meant to come from to
the input it was meant for, with the exception below, and what it assembles is refused for
nothing but its MCP servers. What tables tell a
reader is what goes on, and a prune takes nothing a run stands on. A client of the stream
that resumes gets each event once and in order, what the ring holds reaches whoever is
connected, and no call blocks on an event that is there.

*Where a property is not claimed.* `MendedIsAsMeant` is `NothingIsMangled` with one exception, for an
input the agent forgot to declare. The repair of port names comes before the one that makes up
forgotten inputs, and takes the wire for a misspelt one if exactly one declared input resembles
it: with `planFeedback` forgotten, a wire to `feedback` ends at `styleFeedback`. The types agree, so it
is registered unless another wire ends there already, which is what the exception says
(`TakenForUnused`). With the exception it is still claimed only for fanouts where no
input's name contains the names of two outputs (`MCGeneratorMangled` has one). Both contradict the
script's header and are in section 4. `RefusedOnlyForServers` likewise is what is true of
`AssembledIsAccepted`.
`OneExecutorPerStage` and the two data properties hold in
`stacked`, where agents write each output once and no script retries. They fail, by
design of the code, with a retrying script (`MCBranchGhost`) and with an agent that writes
an output again after its consumers have started (`Rewriters`, as the feedback round of
`runtime/real-executor.ts:1070` asks for): these keep the value that was replaced.
`PickedIsNotSkipped` fails where one answer contains another and a retry comes while a
picked stage still waits for its inputs (`MCBranchSuperset`), and where a gate's reject leads
to a stage another gate released: approving `second` in `MCStackedShort` puts `write` down
as skipped, which `first` had picked. `Terminates` holds for pipelines whose rollbacks rewind a gate
together with its targets; `MCStackedShort` shows the others. `FinishedWorkIsKept` excepts the
stages before a pause for a secret that found the executor of an earlier stage still winding
up; the proof showed that the exemption must name the pause and not only the stages after
the orphan. With five stages, a gate at 2 and a key at 5, and two crashes: a crash leaves
the question of the gate behind, the boot asks it again, the second question is rejected
while the first is still open, the run pauses at 5 with the executor of 4 winding up. Then
the stale question is approved and the keys are given: the run that follows has stage 4 to
do again, although its old executor has succeeded meanwhile. It also showed that an answer no
run has heard yet counts as a request to redo (`LeftAlone`).
`StatusIsTrue` excepts a script that is overtaken by a replay (`Overtaken`, below).
`ReadersAgree` covers seven readers, the values a person is shown at a gate among them. It
excepts what replays, dry runs, outside writes and prunes did, and what was read behind a
gate a retry does not ask again; the last clauses of `StatusIsTrue` and `FailureIsFound`
except outages. `FailureIsFound` is not true of every instance: with two stages that both
are agents, the second with a key, and three events, a run is retried while it is paused,
and the free retry of the superseded attempt writes its row after the verdict; the same
happens where a stage is both run by an agent and fanned out and an element's executor goes
on after the aggregate. analyzeTaskFailure then names a stage of a task that completed.
Delivery to those who keep a position is claimed for the
lifetime of one server: a restart numbers from 1 again, so whoever still holds a higher
number misses what comes up to it.

*Fairness.* `CalmSpec` is a run nobody interrupts. Every executor with a call outstanding
eventually makes its next move (an SDK turn ends, a script returns; `maxTurns` and the
budget bound both), every open question is eventually answered, and the event loop reaches
the finally block. Nothing is assumed about which answer is given or whether an executor
succeeds, and the wall clock is not used to end a run. The executors' and the answers'
fairness is weak fairness with its enabling condition written out (`Returns`, `Responds`):
TLC evaluates `ENABLED` of a whole rewind far more slowly than the condition it amounts
to. `InterruptSpec` adds that armed timers fire. `FairSpec` of AgentAttempt says the loop
and its timers run and a stream whose process is killed closes; a query nobody aborts owes
nothing. That of Fanout says microtasks run and the timer of a try that hangs fires;
executors owe nothing. That of TaskLifecycle says executors come to an end, timers fire,
an orchestrator proceeds, and a server that is down is started again; nothing is owed by
people, and `TaskSettles` therefore counts waiting for one as settled.

## 4. Where code and comments disagree

Two are runs of their own. `lifecycle_reject`: a reject that is committed when the server
dies is never carried out, and the resumed task is recorded as completed.
`records_replayed`: getTaskStatus looks at the newest attempt of each stage only, and a
replay is one. A script that runs for more than a minute gives no other sign of life, so
once a replay of its stage has ended, the task at work is reported as orphaned, and the
comment says that this is for a task that "genuinely" is
(`mcp/kernel.ts:1913-1914`). The attempt at work can itself be the one that is replayed:
`replay_stage` asks for its kind, not for its status. Others can be
reproduced with the configurations that are kept beside the runs:

| what happens | how to see it |
|---|---|
| The grace timer of an INTERRUPT stops the actor while an open gate pauses the wall clock, and nothing is left to end the run (`runtime/runner.ts:303`) | `MCReviewInterrupt.cfg` (`InterruptEnds`) |
| A script's retry that rewinds a rejected gate seeds its comment with "" again (`runtime/runner.ts:1050-1062`), which the rollback branch preserves on purpose (`:876-895`) | `MCReviewRetry.cfg` (`CorrectionIsKept`) |
| A rebuild that rewinds a gate with an open question asks it a second time | `MCReviewRetry.cfg` with `OneOpenRowPerGate` in its place |
| A ghost of an earlier actor works on a stage beside its successor and flips the superseded attempt to success | `MCBranchGhost.cfg` (`OneExecutorPerStage`) |
| After a rebuild the replay recovers an answer from the targets that are authorized; where one answer contains another it may take the smaller one and skip a stage that was picked | `MCBranchSuperset.cfg` (`PickedIsNotSkipped`) |
| A rollback that rewinds a gate without its targets wedges | `MCStackedShort.cfg` (`Terminates`) |
| A late success of a detached try is reused for another array after a rewind | `MCFanoutStale.cfg` (`AggregateMatchesSource`) |
| An error ends the pass although another element pauses for a secret (`runtime/runner-fanout.ts:186-193` against the order at `:436-440`) | `INVARIANT SecretPauses` in `MCFanout.cfg` |
| wait_pipeline_result reports a missing secret, a cascade or an error since rewound as the end | `INVARIANT ErrorIsFinal` in `MCEvents.cfg` |
| cancelTask leaves a question behind that the interrupted actor still opens | `INVARIANT NoQuestionAfterTheEnd` in `MCReview.cfg` |
| Outputs of two attempts of one agent let a stage advance (`runtime/real-executor.ts:108-115`) | `INVARIANT NoMixedOutputs` in `MCAgent.cfg` |
| A cancelled task can keep its plaintext keys | `INVARIANT KeysEndWithTheTask` in `MCLifecycle.cfg` |
| A registration a crash cut short is not made up for (`mcp/kernel.ts:680-682`) | `INVARIANT RegistrationIsRetryable` in `MCHotUpdate.cfg` |
| A reject loop makes the rollback start at a stage that is not the earliest difference (`hot-update/divergence.ts:3-5`) | `INVARIANT DivergenceIsEarliest` in `MCHotUpdate.cfg` |
| A wire from a port a fanout does not have is given the first declared output whose name is part of the input's, however many are: of `id` and `guide`, "guides" gets the ids (`builtin-scripts/validate-and-repair-ir.ts:630-645`; by `:30` the script "does NOT silently mangle" and throws when several match) | `MCGeneratorMangled.cfg` (`NothingIsMangled`) |
| The wire to a forgotten input is bent to another one that resembles it (`:140-172`; by `:241` "fuzzy match returns no candidate" then) | `INVARIANT NothingIsMangled` in `MCGenerator.cfg` |
| An assembled pipeline is refused when a recommended entry has no command (written as "", `builtin-scripts/assemble-investigation-ir.ts:160`), repeats an id or has one that is no identifier (`ir/schema.ts:141-184`), though it "will pass KernelService.submit by construction" (`:31`) | `INVARIANT AssembledIsAccepted` in `MCGenerator.cfg` |
| An input forgotten on the edge of a fanout is mended with the wrong array depth and refused | `INVARIANT OneSlipIsMended` in `MCGenerator.cfg` |

Met while reading, not reproduced by a configuration:

*The run.* A failed stage that is neither retried nor rolled back leaves approvals in
place, and a retry of a stage above an approved gate does not ask the gate about the new
draft (`compiler/ir-to-machine.ts:783-785`). A script that leaves out an output on its
first run and delivers it on a second is done with a mixture of both (`:719`), and the
`onDone` described as a safety net at `:919-921` is not declared. A stage cancelled
through a feedback wire is outside the closure a rollback rewinds. `runtime/runner.ts:433-435`
says stopping an actor discards rejections of its executors; they reach the next actor.
`run_final` counts latest attempt rows and `task_finals` finalized stages.

*Crashes and moves.* A crash with a question open leaves its row; answering that one
drives the live gate and leaves the newer row open. Migrating a task parked at a gate
registers it twice (`runtime/task-registry.ts:33-36`): it is marked failed although the call
returned ok. A running task that is migrated has its verdict written by the stopped
run. A graceful stop makes live runs record failed or interrupted, so the boot does not
resume them. A refused launch restores running statuses of attempts whose executor is
gone. A task resumed after a pause while the paused run winds up runs stages again. A dry
run is resumed at boot as a run of the whole pipeline. Two servers can take over one
stale lock.

*Versions.* A rollback to a version that lacks a stage names a rerun stage the target does
not have; one whose difference is wires or prompts only is refused as equivalent. The
diff ignores extra config and external inputs, so such a patch counts as empty and is
approved. The planner's order follows feedback wires. The task's version is read from its latest
attempt, which is stale until a new run's first, and a migration does not compare it
with the proposal's base. The tool text of rollback_hot_update is out of date.

*The generator.* Three slips together can double a wire. A string wired to a fanout's
input passes the type check. The assembled investigation's reject loops wedge, as in
`MCStackedShort`, and a rejection with a blank comment serves the rejected tutorials from the
cache again. http_fetch's timeout does not cover the body.

*The rows.* prune is blocked as a whole by one row of secret_gate_queue, and takes rows of
tasks that have a verdict while their run is still registered
(`apps/server/src/cli/lib/prune-kernel-records.ts:85-91`). A replay steers a later resume, can ask
for a secret on a finished task, and hides the failing stage from
analyze_task_failure. The task list disagrees with getTaskStatus in precedence.
readLatestPort is not limited to successful attempts as its comment says. The retry route
answers TASK_ALREADY_TERMINAL with 500.

*The stream.* wait_for_task_event leaves its listener behind when the replay settles it
(`mcp/tools/task.ts:291`). A wait that starts when the event of an open gate has left the
ring is not told of the gate. In the dashboard, a fetch that is answered late overwrites
what the stream has shown since.

## 5. What is proved

Every theorem holds for every value of the constants that satisfies the ASSUMEs of the
modules it is about: any pipeline, any arrays, any budgets, any number of events. TLC
evaluates those ASSUMEs in the runs. Where a theorem has a hypothesis about the pipeline
besides, it is named below.

| module | theorem | says |
|---|---|---|
| PipelineRunProofs | `TypeCorrect` | `Spec => []TypeOK` |
| | `RetryBudget` | `[]RetriesWithinBudget` |
| | `PickedOnly` | `[]OnlyPickedStagesRun`, if `RewindsTargetsToo` |
| | `FirstVerdict` | `FirstVerdictStands` |
| PipelineOutcomeProofs | `CancellationHasCause` | `[]CancelledHasRootCause`, if `RejectsTakeFeedback` |
| | `CompletedIsComplete` | `[]CompletedMeansAllDone`, if `RejectsTakeFeedback` |
| | `CorrectionSurvives` | `[]CorrectionIsKept`, if `RetriesRewindNoGate` |
| | `OneQuestion` | `[]OneOpenRowPerGate`, if `RetriesComeBeforeGates`, `RejectsRewindOneGate` |
| | `NotAskedAgain` | `AskedOnce`, if `RetriesComeBeforeGates`, `RejectsRewindOneGate` |
| | `OneExecutor`, `LatestRunOnly` | `[]OneExecutorPerStage`, `[]OutputsAreFromLatestRun`, if `InSequence` (below) |
| | `NothingIsStale` | `[]InputsAreCurrent`, if `InSequence`, `EveryStageWrites` |
| | `OneQuestionInSequence`, `NotAskedAgainInSequence` | `[]OneOpenRowPerGate`, `AskedOnce`, if `InSequence` |
| | `PickedStays` | `[]PickedIsNotSkipped`, if `AnswersAreApart`, `AnswersAreTold`, `RewindsTargetsToo` and the two hypotheses of `OneQuestion` |
| AgentProofs | `AgentTypes`, `InterruptedOnce`, `RetriesAreSilent`, `RecordsAgree`, `RetriesAreBounded` | types; `[]` of `OneMoreTurn`, `SilentWhileRetrying`, `RecordAgreesWithRow`, `AttemptsAreBounded` |
| | `ExecutorImplementsCall` | `Spec => ImplementsStageCall`, a refinement |
| FanoutProofs | `FanoutTypes`, `RowsAreClosed`, `SuccessIsComplete`, `StopIsHeeded` | types; `[]NothingLeftRunning`; a success has an output per element; `NoNewElementAfterStop` |
| | `AggregateIsSource` | `[]AggregateMatchesSource`, if `SameItems` |
| LifecycleProofs | `LifecycleTypes`, `LifecycleExecutors` | types; `[]RunningRowsHaveExecutors` |
| | `LifecycleKeepsWork` | `Spec => FinishedWorkIsKept`, an action property |
| | `LifecycleImplements` | `Spec => ImplementsTaskVerdict`, a refinement |
| HotUpdateProofs | `RegistryHolds` | `[]RegistryInv`: what is registered was checked |
| | `ProposedFindPrompts` | `[]PromptsAreFound` |
| | `UnseenKeepsTheGraph` | `[]AutoApprovedKeepsTheGraph` |
| RecordsProofs | `RecordTypes`, `HistoryKept` | types; `[]HistoryIsKept` |
| | `StatusTrue` | `[]StatusIsTrue` |
| EventStreamProofs | `StreamTypeCorrect`, `NewsOnly`, `RetainedIsDelivered`, `WaitsEnd` | types; `[]` of `OnlyNewsInFlight`, `NothingRetainedIsLost`, `NobodyWaitsInVain` |

### Along which argument

*Machine and run.* `PipelineRunProofs` has one lemma per event operator (what it
preserves) and one type lemma per action. `SafeInv` joins the types, the
counters and `ReleasedOnly` (a stage behind a gate executes only if the context authorizes
it). To get from the context to people's answers, `PickedInv` adds `ApprovalsStand`: every
authorization is owed to an answer that still stands. A rollback takes answers of
rewound gates away, so it must take their targets' authorizations too, and that is exactly
`RewindsTargetsToo`. For the verdict, `VerdictInv`: while the run is registered the only
verdict on record is a cancellation.

*Why runs end the way they say* (`PipelineOutcomeProofs`). Events only ever grow a machine:
`Grows(m, n)` says that what is final stays final with its reason, that cells once present
stay present, that a stage which fails by an event has a root cause of its own, and that
stages start only with their inputs. Rebuilds alone take back.
`Sound` is what both keep: `Rooted` (each cancelled stage has a root cause upstream),
`Full` (done means outputs there, or skipped) and `Fed` (what executes has its inputs).
Growing keeps it by `GrowsSound`; a rebuild keeps it because the reset set is closed: it takes,
with a stage, whatever is downstream of it, and so never the cause without the
cancellation it explains. For retries that is how `ToReset` is computed. For rejects `Affected`
follows forward wires while a cancellation also follows feedback wires, and
`RejectsTakeFeedback` says that the two agree on the pipeline. `OutcomeInv` adds that a run
ends with all regions final (`EndsFinal`) and that "completed" on record means no root
cause (`FinalsTrue`); `Rooted` turns the absence of root causes into the absence of
cancellations.

*The comment* (`CorrectionHeld`). Only `Answered` writes a feedback port while people are
being asked, since an executor writes its own stage's outputs (`Own`), and only a rewind of
the gate empties it. A reject keeps its own gate's comment (`Survives`) and gives up the
claim to those of the gates it rewinds; a retry keeps none, so no retry may rewind a gate.

*The question.* `QuestionInv` ties `gate_queue` to the `dispatched` set: open rows are of
dispatched gates, one each (`RowsOk`), answers that stand are of dispatched gates
(`Stands`), dispatched gates have their inputs (`Served`). A gate is asked when it
executes without being dispatched, so a second row needs a rewind that takes the gate
off the books while its row is open. A reject closes its own row and by
`RejectsRewindOneGate` rewinds no other gate. A retry of `s` rewinds a gate only if that gate
reads `s` (`RetriesComeBeforeGates`), but then the gate has not been asked: `s` still
executes, so it owes an output (`Owing`), and being a script that writes all or nothing
(`AllOrNothing`) it has written none, whereas a dispatched gate has its inputs.

*Order in a run.* `InSequence` stands here for `WorkStopsAtGates`, `RewindsTargetsToo`, no
retrying script (`Retrying = {}`) and no agent that writes an output again (`Rewriters = {}`).
An abort does not stop an executor, so one that a rewind leaves behind works next to its
successor and writes into the rebuilt actor. That none is left behind is a fact about when
a reject can come: `WorkStopsAtGates` says that of a gate's stages each is either before it
(and has its outputs read before it) or behind it. `InOrder` then has three parts. `Tidy`:
who has something to write does so in the latest run of a stage that has begun, one
executor each, its outputs still absent (`AtWork`, `OneEach`), stages that wait have no
outputs (`Silent`), and what is there is of the latest run (`Newest`). `Asleep`: behind a gate
that is still to be answered nothing executes, works or was authorized. `Held`: what is before
an open question is delivered; with `Asleep`, one question is open at a time. So when a reject comes
nobody has anything left to write (`QuietUnderQuestion`), and the rebuilt actor meets late
events of finished executors only. `Follows` is how a macrostep moves the regions; with it each
event keeps `InOrder`. A rewind keeps `Asleep` since it takes the authorizations away with the
gate (`RewindsTargetsToo`), and the two questions of stacked gates are never open together
although one's reject rewinds the other. For the inputs, `Current`: what a stage that
has begun was given is what is in its cells, because nobody writes a port twice and a
rewind takes the readers along; a stage without outputs is done at once, without an executor that
reads anything, hence `EveryStageWrites`. TLC checked the whole of it as an invariant of `Spec`
on the instance of `MCStacked` (with a secret and three actors, 487,000 states)
before it was proved.

*Answers told apart* (`Told`). A rebuild has no record of the answers: it takes a gate that is
done for answered by the first route all of whose targets are authorized, and skips the
others. `Told` says how far the context bears that out: stages authorized are targets of an
answer that stands, one per gate (`Owed`, `OneAnswer`); stages skipped are outside of it
(`LeftOut`); a gate whose answer stands is final, and if it is done all it picked is authorized
(`Heard`); and one whose question is open has no answer and has been released
(`Unanswered`), without which the answer would come too late to authorize. Two things can
mislead the replay (`ReplayLeavesOut`). A stage two gates lead to may be authorized by one
and read as the answer of the other: `AnswersAreApart`. And a route within the one picked is
recovered as well as that one: `AnswersAreTold` asks that what it lacks can start with what the
gate itself had, for then `START` has taken it out of waiting before the replay looks; and
that no reject takes this authorization back alone (`Firm`; of the stages a reject could take
so, `Heard` says nothing). TLC checked `Told` over `Spec` on the instances of `MCReview`
(98,000 states) and `MCBranch` (1,110,000) before it was proved.

*The hypotheses are about pipelines, not about behaviours, and none is decoration.* The
compiler enforces none of them. `MCReview` and `MCBranch` satisfy them (`ReviewIsCovered`,
`BranchIsCovered` and, of `AnswersAreTold`, `BranchIsTold`, which TLC evaluates), `MCStacked` satisfies `RewindsTargetsToo`,
`WorkStopsAtGates` and `EveryStageWrites` (`StackedOrder`), and `RejectsTakeFeedback`. Without the
one about retries, `MCReviewRetry.cfg` shows both the lost comment and the second row. In
`MCStacked` the second gate's reject rewinds the first, so `RejectsRewindOneGate` does not hold
there and the theorems for gates in sequence are the ones that apply. What `InSequence`
excludes can go wrong: `MCBranchGhost` has a retrying script and a second executor.

*The agent.* `AgentInv` joins the types with `Phases` (a row is running exactly while its
query is being worked on), `Records`, `Hearing` (a machine knows of no interrupt that was
not sent, and after `MachineInv` returns once only) and `Budgeted`: attempts made, retries
of both kinds left and the one about to start never exceed the budgets. The refinement
maps every step to a delivery, an end or a stutter.

*The fanout.* `FanoutInv`: an open row is one a worker awaits (`OpenRowsAwaited`), and the
cursor is past exactly what was begun (`CursorInv`), so a success without a stop has
everything. `AggregateIsSource` adds that rows hold outputs of the array they were made for,
and needs `SameItems`: the arrays of successive passes agree on the indices they share. A
row carries no trace of its array, so without that a late one is reused for
another element (`MCFanoutStale`).

*The task.* `LifeInv` is the types and `GateInv`: an attempt of a gate succeeds by an answer
only, no stage behind a gate was tried before the gate was approved, the snapshot a
refused launch restores says nothing the answers do not, and what a run believes of its
gates is in the database. The refinement needs the last of them at `Finish`, where
the run's belief becomes the verdict. That an answer was given is all it says: that the *last*
answer is an approval is what `lifecycle_reject` refutes. `LifecycleExecutors` is inductive
once `LifeInv` is there.

*Work is kept* (`KeptInv`, as long as nobody asked for work to be redone, `LeftAlone`). Without
its key a keyed stage only ever waited and nothing behind it was tried (`Pristine`,
`PausesWait`); until the key is there the other stages are tried once in each life of the
server, so what is not superseded is the newest attempt and behind the run (`LackSound`); and
what has succeeded, or is in the hands of an executor and still may, is behind the run or
excepted (`WorkIsBehind`). The last one needs `AboutToOrphan`: between a relaunch and its first
stage the row that makes the old executor an orphan is not written yet. `DownIsEmpty` says
a crash leaves no executor. What a relaunch believes of its gates comes from `LifeInv`.

*The versions.* `RegistryInv`: every registered version hashes like an IR that passed
validation with prompts that resolve, whichever of the three ways it came by (`Checked`:
its stages have names of their own and its agents find their prompts); only a crash leaves
one without its prompts; proposals, the task and its history name registered versions
only; and what was approved unseen is `Harmless`. The proofs need what the canonical form keeps
(stages and wires as sets, prompts as they are) and nothing of what `Pool` enumerates. For
the graph, `Harmless` compares stages by name (`Modified`), so that nothing structural has
changed means the same graph only because names are distinct: `SafeKeepsShape`.

*The rows.* `RecordsInv`: ids are never given twice and all rows belong to attempts that
exist (`Tables`), what a run without a verdict holds and waits for are attempts of its own
task (`Held`), and a run waits for an attempt that has written only if that is an element
(`Awaited`). The last one is the strengthening a prune calls for: both pruners take only
tasks with a verdict, and a replay or a late executor must not have made a run wait for
something it will not hear of. From `Held`, what a run stands on is in the database.

*What the status says* (`StatusInv`). A task at work is reported so because the attempt its run
waits for shows it (`Shown`): a gate by its open question, an agent by its heartbeat, a
script or an element by being the newest of its stage, but for replays, and running. For that the
attempt has to be of the stage the run is at (`AtStands`), a pass has to be over a fanout
(`PassIsAtFanout`), and questions have to be the gates' (`GatesAreGates`). That an idle task is
reported as orphaned needs the converse: a row that says running has an executor or an open
question (`RunningIsAttended`). For the verdict, `OpenIsAwaited`: without outages a question is
open only while its run waits for the answer, and `OnIsOpen`: only a cancelled task has both a
verdict and a run. Each action has one lemma; those that open a row share `RowOpens`, the
others `NoneOpens`.

*The stream.* `StreamInv` ties the numbers of a server's lifetime to those of the task
(`Base`), says that what was acknowledged was told (`PositionsAreTrue`: this is where an
out-of-order answer would break), and that whoever is connected is in the set of
listeners (`OpenIsHeard`: where a cleanup that takes the wrong listener would).

### What stays with TLC

- Liveness: `Terminates`, `InterruptEndsTheCall`, `PassEndsEventually`, `TaskSettles`. Fairness
  and ENABLED are out of the prover's reach.
- `VersionsAreSound`, `SegmentsRunInTurn`, `NoStageIsOverlooked`, `RedoIsExact` and the generator:
  their operators are searches, sorts and folds (`Found`, `ResumeOrder`, `Segments`, `Meant`),
  whose results for every input are facts by induction over data, which the installed
  provers cannot use.
- The data properties and `OneExecutorPerStage` beyond `InSequence`: where a
  branch goes on beside an open gate, a reject may leave its executors behind.
- `ReadersAgree`: open, see the plan. `FailureIsFound`: false of some instances (section 3).

## 6. Plan

Built: all modules of section 2, their runs, and the theorems of section 5. Left for
proofs, in this order:

1. `ReadersAgree`, which needs the order of writing in the invariant, and `FailureIsFound` under
   a hypothesis that excludes the histories of section 3 and no more.
2. `OneQuestion` and `PickedStays` for pipelines with both retries and stacked gates: the
   hypotheses of the two versions (`RejectsRewindOneGate`, `Retrying = {}`) joined into one.

## 7. Not modelled

- *Checkpoints* and *worktrees* are git I/O around attempts. One thing was noticed: the reset of
  a worktree discards files that preserved parallel siblings wrote.
- *MCP catalog*, *forge*, *CLI* other than prune, *HTTP routes* other than the gate route and
  the task list: adapters over what is modelled, or independent of a run.
- *Server lock*: its takeover is two file operations of two processes; the hazard is listed.
- *Web dashboard*: a React client of the routes and the stream.
- Prompts, sessions across attempts, cost and usage; the `_default` route; the contents of
  frames and heartbeats; parsing by the schema (but for MCP servers), environment-key rules and module lookups of the
  validator; `clearTask`, which the server does not call.

## 8. Running

    tlc -workers 2 -config MCReview.cfg MCReview
    tlapm PipelineOutcomeProofs.tla

A configuration is run on the module whose name it starts with. The longest run
(lifecycle) takes about two minutes with two workers; the longest proofs
(PipelineRunProofs, PipelineOutcomeProofs and RecordsProofs) some minutes each.
