---------------------------- MODULE AgentAttempt ----------------------------
(***************************************************************************)
(* RealStageExecutor.executeStage: the attempts of one agent stage.        *)
(*                                                                         *)
(* An attempt is one stage_attempts row with its execution record.  It     *)
(* runs one query of the SDK, and a further one in the same session as     *)
(* long as the agent ends its turn with outputs missing (feedback rounds). *)
(* A failed attempt is tried again MaxRetries times, and for free while an *)
(* external MCP server fails to start (McpBudget).                         *)
(*                                                                         *)
(* Messages, tool calls, the interrupt of the runner and the end of the    *)
(* stream interleave; the code between two awaits is one action.           *)
(***************************************************************************)
EXTENDS AgentMachine, FiniteSets

CONSTANTS
  Outputs,         \* declared output ports
  RetryOptions,    \* values of options.maxRetries
  McpBudget,       \* MCP_STARTUP_RETRY_BUDGET
  FeedbackRounds,  \* maxNoncomplianceFeedback
  MaxMessages      \* bound: messages of the agent per query

ASSUME AttemptAssumption ==
  /\ Outputs # {}
  /\ RetryOptions \subseteq Nat /\ RetryOptions # {}
  /\ McpBudget \in Nat /\ FeedbackRounds \in Nat /\ MaxMessages \in Nat

VARIABLES
  config,     \* the stage's mcpServers: see Configs
  retries,    \* iterations of the retry loop left after this one
  mcpLeft,    \* mcpStartupRetriesLeft
  pc,         \* where executeStage is, see PcStates
  attempts,   \* attempt rows opened
  row,        \* status of the newest one
  record,     \* its agent_execution_details: [open, reason, session]
  round,      \* feedback rounds of this attempt
  resumed,    \* the query continues an earlier session of this attempt
  machine, compact, inited, said,  \* the query: machine, adapter, init seen, messages so far
  killed,     \* abortController.signal.aborted: the query's process is being killed
  written,    \* outputs written under this attempt
  nested,     \* those of them that are strings with JSON inside
  delivered,  \* ports for which PORT_WRITTEN was dispatched, by any attempt
  aborted,    \* args.signal.aborted
  reported,   \* finishAttempt dispatched STAGE_FAILED
  returned    \* what executeStage returns

vars == <<config, retries, mcpLeft, pc, attempts, row, record, round, resumed, machine,
          compact, inited, said, killed, written, nested, delivered, aborted, reported, returned>>

query == <<machine, compact, inited, said, killed>>

\* No external server; servers whose keys are there; a key missing; a key nothing refers to.
Configs == {"plain", "mcp", "secret", "broken"}

PcStates == {"loop",      \* at the top of the retry loop
             "stream",    \* pumpSdkStream iterates over the query
             "settle",    \* the stream is over, waitForFinal
             "backoff",   \* abortableDelay
             "returned"}

Reasons == {"none", "natural_completion", "error", "interrupted", "secret_pending"}

TypeOK ==
  /\ config \in Configs
  /\ retries \in Nat /\ mcpLeft \in 0..McpBudget
  /\ pc \in PcStates
  /\ attempts \in Nat
  /\ row \in {"none", "running", "success", "error", "secret_pending"}
  /\ record \in [open : BOOLEAN, reason : Reasons, session : BOOLEAN]
  /\ round \in 0..FeedbackRounds
  /\ machine \in Machines
  /\ resumed \in BOOLEAN /\ compact \in BOOLEAN /\ inited \in BOOLEAN /\ killed \in BOOLEAN
  /\ said \in 0..MaxMessages
  /\ nested \subseteq written /\ written \subseteq delivered /\ delivered \subseteq Outputs
  /\ aborted \in BOOLEAN /\ reported \in BOOLEAN
  /\ returned \in {"none", "success", "error", "secret_pending"}

Init ==
  /\ config \in Configs
  /\ retries \in RetryOptions
  /\ mcpLeft = McpBudget
  /\ pc = "loop" /\ attempts = 0 /\ row = "none"
  /\ record = [open |-> FALSE, reason |-> "none", session |-> FALSE]
  /\ round = 0 /\ resumed = FALSE
  /\ machine = NewMachine /\ compact = FALSE /\ inited = FALSE /\ said = 0 /\ killed = FALSE
  /\ written = {} /\ nested = {} /\ delivered = {}
  /\ aborted = FALSE /\ reported = FALSE /\ returned = "none"

-----------------------------------------------------------------------------
(* The end of an attempt. *)

\* Mutant: only a success closes the record.
CloseOnSuccess(rec, reason) ==
  IF reason = "natural_completion" THEN [rec EXCEPT !.open = FALSE, !.reason = reason] ELSE rec

\* writer.close, once; the session it has persisted stays.
Close(rec, reason) == IF rec.open THEN [rec EXCEPT !.open = FALSE, !.reason = reason] ELSE rec

\* Mutant: the free retries are forgotten.
IsFinalOfLoop == retries = 0
IsFinalAttempt == retries = 0 /\ mcpLeft = 0

FreeRetry(mcp) == mcp /\ mcpLeft > 0

\* finishAttempt, and what the retry loop makes of the result.
Finish(rec, status, reason, mcp, silent) ==
  /\ row' = status
  /\ record' = Close(rec, reason)
  /\ reported' = (reported \/ (status = "error" /\ ~silent))
  /\ \/ /\ status = "success"
        /\ pc' = "returned" /\ returned' = status
        /\ UNCHANGED <<retries, mcpLeft>>
     \/ /\ status = "error" /\ FreeRetry(mcp)
        /\ pc' = "backoff" /\ mcpLeft' = mcpLeft - 1
        /\ UNCHANGED <<retries, returned>>
     \/ /\ status # "success" /\ ~(status = "error" /\ FreeRetry(mcp)) /\ retries > 0
        /\ pc' = "loop" /\ retries' = retries - 1
        /\ UNCHANGED <<mcpLeft, returned>>
     \/ /\ status # "success" /\ ~(status = "error" /\ FreeRetry(mcp)) /\ retries = 0
        /\ pc' = "returned" /\ returned' = status
        /\ UNCHANGED <<retries, mcpLeft>>

Fail(rec, reason, mcp) == Finish(rec, "error", reason, mcp, ~IsFinalAttempt)

-----------------------------------------------------------------------------
(* The top of the loop. *)

\* The signal was aborted between two attempts.
GiveUp ==
  /\ pc = "loop" /\ aborted /\ attempts > 0
  /\ pc' = "returned" /\ returned' = row
  /\ UNCHANGED <<config, retries, mcpLeft, attempts, row, record, round, resumed, query,
                 written, nested, delivered, aborted, reported>>

Again == pc = "loop" /\ ~(aborted /\ attempts > 0)

NewRecord == [open |-> TRUE, reason |-> "none", session |-> FALSE]

\* Mutant: an abort that came before the listener was registered is missed.
NewQueryDeaf ==
  /\ machine' = NewMachine /\ killed' = FALSE
  /\ compact' = FALSE /\ inited' = FALSE /\ said' = 0

\* A round: a fresh machine, which hears at once of an abort that came before.
NewQuery ==
  /\ machine' = IF aborted THEN Interrupted(NewMachine) ELSE NewMachine
  /\ killed' = aborted
  /\ compact' = FALSE /\ inited' = FALSE /\ said' = 0

BeginAttempt ==
  /\ Again /\ config \in {"plain", "mcp"}
  /\ attempts' = attempts + 1
  /\ row' = "running" /\ record' = NewRecord
  /\ pc' = "stream" /\ round' = 0 /\ resumed' = FALSE
  /\ NewQuery
  /\ written' = {} /\ nested' = {}
  /\ UNCHANGED <<config, retries, mcpLeft, delivered, aborted, reported, returned>>

\* An attempt that ends before it queries anything.
EndAtOnce(status, reason, silent) ==
  /\ attempts' = attempts + 1
  /\ Finish(NewRecord, status, reason, FALSE, silent)
  /\ written' = {} /\ nested' = {}
  /\ UNCHANGED <<config, round, resumed, query, delivered, aborted>>

\* MCP_ENV_MISSING: a secret gate is opened.
PauseForSecret ==
  /\ Again /\ config = "secret"
  /\ EndAtOnce("secret_pending", "secret_pending", ~IsFinalAttempt)

\* IR_BROKEN_ENVKEY_NOT_REFERENCED
RefuseConfig ==
  /\ Again /\ config = "broken"
  /\ EndAtOnce("error", "error", FALSE)

BackoffEnds ==
  /\ pc = "backoff"
  /\ pc' = "loop"
  /\ UNCHANGED <<config, retries, mcpLeft, attempts, row, record, round, resumed, query,
                 written, nested, delivered, aborted, reported, returned>>

-----------------------------------------------------------------------------
(* The stream. *)

Streaming == pc = "stream"

InQuery == UNCHANGED <<config, retries, mcpLeft, pc, attempts, row, record, round, resumed,
                       written, nested, delivered, aborted, reported, returned>>

\* system/init: the session is persisted at once, then the servers are checked.
InitArrives ==
  /\ Streaming /\ ~inited
  /\ inited' = TRUE
  /\ record' = [record EXCEPT !.session = TRUE]
  /\ machine' = SdkInit(machine)
  /\ UNCHANGED <<config, retries, mcpLeft, pc, attempts, row, round, resumed, compact, said,
                 killed, written, nested, delivered, aborted, reported, returned>>

\* A server did not start (worth another attempt) or wants authentication (not).
ServersFail(mcp) ==
  /\ Streaming /\ ~inited /\ config = "mcp"
  /\ inited' = TRUE
  /\ Fail([record EXCEPT !.session = TRUE], "error", mcp)
  /\ UNCHANGED <<config, attempts, round, resumed, machine, compact, said, killed, written,
                 nested, delivered, aborted>>

Talking == Streaming /\ inited /\ ~Final(machine) /\ said < MaxMessages

AssistantSays(tools) ==
  /\ Talking
  /\ machine' = Assistant(machine, compact, tools)
  /\ compact' = FALSE /\ said' = said + 1
  /\ UNCHANGED <<inited, killed>> /\ InQuery

ToolAnswers ==
  /\ Talking /\ machine.pending > 0
  /\ machine' = ToolResult(Arriving(machine, compact))
  /\ compact' = FALSE /\ said' = said + 1
  /\ UNCHANGED <<inited, killed>> /\ InQuery

CompactBoundary ==
  /\ Talking /\ machine.pending = 0
  /\ machine' = CompactStarted(machine)
  /\ compact' = TRUE /\ said' = said + 1
  /\ UNCHANGED <<inited, killed>> /\ InQuery

\* The result message; it needs no budget, the agent may stop at any time.
ResultArrives(ok) ==
  /\ Streaming /\ inited /\ ~Final(machine)
  /\ machine' = IF ok THEN ResultSuccess(Arriving(machine, compact))
                      ELSE ResultError(Arriving(machine, compact))
  /\ compact' = FALSE
  /\ UNCHANGED <<inited, said, killed>> /\ InQuery

\* The agent's write_port tool runs in this process, whatever the pump has read by then.
WritePort(p, json) ==
  /\ Streaming /\ row = "running" /\ inited
  /\ written' = written \cup {p}
  /\ nested' = IF json THEN nested \cup {p} ELSE nested \ {p}
  /\ delivered' = delivered \cup {p}
  /\ UNCHANGED <<config, retries, mcpLeft, pc, attempts, row, record, round, resumed, query,
                 aborted, reported, returned>>

\* The iterator is done, or throws: the process exited or was killed.
StreamCloses ==
  /\ Streaming
  /\ pc' = "settle"
  /\ UNCHANGED <<config, retries, mcpLeft, attempts, row, record, round, resumed, query,
                 written, nested, delivered, aborted, reported, returned>>

\* The runner's INTERRUPT.
Interrupt ==
  /\ ~aborted /\ pc # "returned"
  /\ aborted' = TRUE
  /\ IF pc \in {"stream", "settle"}
       THEN machine' = Interrupted(machine) /\ killed' = TRUE
       ELSE UNCHANGED <<machine, killed>>
  /\ UNCHANGED <<config, retries, mcpLeft, pc, attempts, row, record, round, resumed, compact,
                 inited, said, written, nested, delivered, reported, returned>>

-----------------------------------------------------------------------------
(* After the stream: what waitForFinal found. *)

Ending == UNCHANGED <<config, attempts, round, resumed, query, written, nested, delivered, aborted>>

\* The machine did not get to a final state in time, or ended without success.
QueryFails ==
  /\ pc = "settle" /\ machine.result # "success"
  /\ Fail(record, IF machine.result = "interrupted" THEN "interrupted" ELSE "error", FALSE)
  /\ Ending

\* Mutant: any write will do.
SomethingWritten == written # {} /\ nested = {}
Compliant == written = Outputs /\ nested = {}

Succeed ==
  /\ pc = "settle" /\ machine.result = "success" /\ Compliant
  /\ Finish(record, "success", "natural_completion", FALSE, TRUE)
  /\ Ending

LastRound == round = FeedbackRounds

\* The schema check fails and no feedback round is left.
NonCompliant ==
  /\ pc = "settle" /\ machine.result = "success" /\ ~Compliant /\ LastRound
  /\ Fail(record, "error", FALSE)
  /\ Ending

\* turnResumeSessionId: the session this attempt last saw.
SessionToResume == inited \/ resumed

Feedback ==
  /\ pc = "settle" /\ machine.result = "success" /\ ~Compliant /\ ~LastRound
  /\ pc' = "stream" /\ round' = round + 1
  /\ resumed' = SessionToResume
  /\ NewQuery
  /\ UNCHANGED <<config, retries, mcpLeft, attempts, row, record, written, nested, delivered,
                 aborted, reported, returned>>

Next ==
  \/ GiveUp \/ BeginAttempt \/ PauseForSecret \/ RefuseConfig \/ BackoffEnds
  \/ InitArrives \/ (\E mcp \in BOOLEAN : ServersFail(mcp))
  \/ \E tools \in 0..2 : AssistantSays(tools)
  \/ ToolAnswers \/ CompactBoundary \/ (\E ok \in BOOLEAN : ResultArrives(ok))
  \/ \E p \in Outputs, json \in BOOLEAN : WritePort(p, json)
  \/ StreamCloses \/ Interrupt
  \/ QueryFails \/ Succeed \/ NonCompliant \/ Feedback

Spec == Init /\ [][Next]_vars

Code == \/ GiveUp \/ BeginAttempt \/ PauseForSecret \/ RefuseConfig \/ BackoffEnds
        \/ QueryFails \/ Succeed \/ NonCompliant \/ Feedback

\* The loop and its timers run; a query whose process is killed comes to an end.
\* A query nobody aborts owes nothing.
Fairness == WF_vars(Code) /\ WF_vars(killed /\ StreamCloses)

FairSpec == Spec /\ Fairness

-----------------------------------------------------------------------------
(* What an agent stage's executor promises. *)

Call == INSTANCE StageCall WITH
          call <- IF returned = "none" THEN "open" ELSE returned

\* executor.ts: seen from the runner, the attempts, feedback rounds, free
\* retries and interrupts of an executor are one call that delivers outputs
\* while it is open and returns success only when it has delivered them all.
ImplementsStageCall == Call!Spec

\* agent-machine.ts:104: an interrupted agent gets to finish the tool round or
\* compaction it is in, or the next one, and no more: it returns to waiting
\* once.  Feedback rounds do not give it another chance.
OneMoreTurn == machine.returns <= 1

\* real-executor.ts:302: an attempt that will be tried again stays silent.  The
\* one exception in the code is a configuration no retry can mend.
SilentWhileRetrying == reported /\ config # "broken" => pc = "returned"

\* real-executor.ts:316: a failed start of an MCP server is retried for free,
\* but not for ever: the attempts are bounded by both budgets together.
AttemptsAreBounded ==
  \A n \in RetryOptions :
    (\A k \in RetryOptions : k <= n) => attempts <= n + 1 + McpBudget

\* execution-record-writer.ts: the execution record and the attempt row are
\* two rows written apart, and tell the same story when the call returns.
RecordAgreesWithRow ==
  /\ record.open <=> row = "running"
  /\ row = "success" <=> record.reason = "natural_completion"
  /\ row = "secret_pending" <=> record.reason = "secret_pending"
  /\ record.reason = "interrupted" => aborted

\* real-executor.ts:108: a failed attempt leaves the stage executing until a
\* retry succeeds: the outputs that let it advance are those of one attempt.
NoMixedOutputs == delivered = Outputs => written = Outputs

\* real-executor.ts A2 and F22: an interrupt ends the call, whatever retry,
\* back-off or feedback round it meets.
InterruptEndsTheCall == aborted ~> pc = "returned"
=============================================================================
