--------------------------- MODULE TaskLifecycle ---------------------------
(***************************************************************************)
(* One task between a database that survives the server and the memory     *)
(* that does not: started, parked at gates, paused for secrets, cancelled, *)
(* retried and migrated, crashed, shut down gracefully and resumed when    *)
(* the server boots.                                                       *)
(*                                                                         *)
(* The pipeline is a chain of stages 1..N, each reading the one before it; *)
(* a gate approves its successor or rejects back to an earlier stage.      *)
(* What a run does inside is the subject of PipelineRun; here it is the    *)
(* set of its finished stages and the stage it is at.                      *)
(***************************************************************************)
EXTENDS Integers, Sequences, FiniteSets, Functions

CONSTANTS
  N,              \* number of stages
  Gates,          \* the stages that are gates
  Keyed,          \* the agent stage with an envKey, if any
  Bound,          \* bound: how many events of each kind
  MaxEvents       \* bound: how many together

Kinds == {"outages", "migrations", "rejects", "refusals"}

Stages == 1..N

ASSUME LifecycleAssumption ==
  /\ N \in Nat \ {0}
  /\ Gates \subseteq 2..(N - 1)
  /\ Keyed \subseteq Stages \ Gates /\ Cardinality(Keyed) <= 1
  /\ Bound \in [Kinds -> Nat] /\ MaxEvents \in Nat

VARIABLES
  (* The database. *)
  rows,       \* stage -> the status of each of its stage_attempts
  questions,  \* gate -> the answer of each of its gate_queue rows
  missing,    \* stages with an unresolved secret_gate_queue row
  keys,       \* task_env_values holds the envKey
  finals,     \* task_finals
  rerun,      \* rerun_from_stage of a migration newer than every attempt, or 0
  (* The server's memory. *)
  server,     \* "up", "stopping", "down"
  runner,     \* the run registered under the task
  flying,     \* executors: <<stage, attempt, outputs delivered>>
  migration,  \* executeMigration in progress, which holds the lock of the task
  events      \* how often an outage of the server, a migration or retry asked for by
              \* a person, a rejection or a refused launch has happened

db == <<rows, questions, missing, keys, finals, rerun>>
vars == <<rows, questions, missing, keys, finals, rerun, server, runner, flying, migration, events>>

Statuses == {"running", "success", "error", "secret_pending", "superseded"}
Answers == {"open", "approved", "rejected", "closed"}

\* at is the stage executing, 0 between two; grace: a timer is set to stop the actor
\* after an INTERRUPT; deaf: it was.
Runners ==
  [registered : BOOLEAN, done : SUBSET Stages, allowed : SUBSET Stages, at : 0..N,
   failed : BOOLEAN, interrupted : BOOLEAN, grace : BOOLEAN, deaf : BOOLEAN, paused : BOOLEAN,
   expired : BOOLEAN]

\* saved is the snapshot a failed resume restores.
Migrations ==
  [pc : {"idle", "waiting", "starting"}, from : 0..N,
   saved : SUBSET (Stages \X (Nat \ {0}) \X Statuses)]

TypeOK ==
  /\ rows \in [Stages -> Seq(Statuses)]
  /\ questions \in [Gates -> Seq(Answers)]
  /\ missing \subseteq Keyed
  /\ keys \in BOOLEAN
  /\ finals \in {"none", "completed", "failed", "cancelled"}
  /\ rerun \in 0..N
  /\ server \in {"up", "stopping", "down"}
  /\ runner \in Runners
  /\ flying \subseteq Stages \X (Nat \ {0}) \X BOOLEAN
  /\ \A e \in flying : e[1] \notin Gates /\ e[2] \in DOMAIN rows[e[1]]
  /\ migration \in Migrations
  /\ events \in [Kinds -> Nat]

-----------------------------------------------------------------------------
NoRunner ==
  [registered |-> FALSE, done |-> {}, allowed |-> {}, at |-> 0, failed |-> FALSE,
   interrupted |-> FALSE, grace |-> FALSE, deaf |-> FALSE, paused |-> FALSE, expired |-> FALSE]

NoMigration == [pc |-> "idle", from |-> 0, saved |-> {}]

Serving == server \in {"up", "stopping"}

HasRun == \E s \in Stages : rows[s] # <<>>
HasRow(s, statuses) == \E k \in DOMAIN rows[s] : rows[s][k] \in statuses
HasAnswer(g, answers) == \E k \in DOMAIN questions[g] : questions[g][k] \in answers
\* Every attempt, with its status.
Attempts == UNION {{<<s, k, rows[s][k]>> : k \in DOMAIN rows[s]} : s \in Stages}

\* The rows rs of the stages of S with a status in from become to.
Marked(rs, S, from, to) ==
  [s \in Stages |-> [k \in DOMAIN rs[s] |->
     IF s \in S /\ rs[s][k] \in from THEN to ELSE rs[s][k]]]

\* The open questions of the gates of S are closed by a sentinel answer.
ClosedIn(S) ==
  [g \in Gates |-> [k \in DOMAIN questions[g] |->
     IF g \in S /\ questions[g][k] = "open" THEN "closed" ELSE questions[g][k]]]

\* One more event of kind f.
Count(f) ==
  /\ events[f] < Bound[f]
  /\ FoldFunction(+, 0, events) < MaxEvents
  /\ events' = [events EXCEPT ![f] = @ + 1]

Init ==
  /\ rows = [s \in Stages |-> <<>>] /\ questions = [g \in Gates |-> <<>>]
  /\ missing = {} /\ keys \in BOOLEAN /\ finals = "none" /\ rerun = 0
  /\ server = "up"
  /\ runner = [NoRunner EXCEPT !.registered = TRUE]
  /\ flying = {} /\ migration = NoMigration
  /\ events = [f \in Kinds |-> 0]

-----------------------------------------------------------------------------
(* A run. *)

\* Every region is final: a failed stage cancels the ones after it.
Finished == runner.done = Stages \/ runner.failed

Live == runner.registered /\ ~Finished /\ ~runner.expired
Hears == Live /\ ~runner.deaf

\* The stage that may start: its predecessor is done, and approved it if it is a gate.
Ready(s) ==
  /\ Hears /\ runner.at = 0
  /\ s \notin runner.done /\ (1..(s - 1)) \subseteq runner.done
  /\ (s - 1) \in Gates => s \in runner.allowed

\* A region completes and the next stage opens in one turn of the event loop, in
\* which nothing else happens.
Settled == \A s \in Stages : ~Ready(s)

Lacking(s) == s \in Keyed /\ ~keys

NextAttempt(s) == Len(rows[s]) + 1

\* startAttempt; a gate also opens its question.
Open(s) ==
  /\ Ready(s) /\ ~Lacking(s)
  /\ rows' = [rows EXCEPT ![s] = Append(@, "running")]
  /\ IF s \in Gates
       THEN questions' = [questions EXCEPT ![s] = Append(@, "open")] /\ UNCHANGED flying
       ELSE flying' = flying \cup {<<s, NextAttempt(s), FALSE>>} /\ UNCHANGED questions
  /\ runner' = [runner EXCEPT !.at = s]
  /\ rerun' = 0
  /\ UNCHANGED <<missing, keys, finals, server, migration, events>>

\* The envKey is missing: the attempt is closed at once, the run will pause.
Pause(s) ==
  /\ Ready(s) /\ Lacking(s)
  /\ rows' = [rows EXCEPT ![s] = Append(@, "secret_pending")]
  /\ missing' = missing \cup {s}
  /\ runner' = [runner EXCEPT !.at = s, !.failed = TRUE, !.paused = TRUE]
  /\ rerun' = 0
  /\ UNCHANGED <<questions, keys, finals, server, flying, migration, events>>

\* The executor the run is waiting for.
Current(e) == Hears /\ runner.at = e[1] /\ e[2] = Len(rows[e[1]])

\* The last output is written: the region is done while its executor still runs.
Deliver(e) ==
  /\ ~e[3]
  /\ rows[e[1]][e[2]] = "running"
  /\ flying' = (flying \ {e}) \cup {<<e[1], e[2], TRUE>>}
  /\ runner' = IF Current(e) THEN [runner EXCEPT !.done = @ \cup {e[1]}, !.at = 0] ELSE runner
  /\ UNCHANGED <<db, server, migration, events>>

\* finishAttempt writes the status whatever the row says by then.
Return(e, status) ==
  /\ status = "success" => e[3]
  /\ rows' = [rows EXCEPT ![e[1]][e[2]] = status]
  /\ flying' = flying \ {e}
  /\ runner' = IF Current(e) /\ ~e[3] THEN [runner EXCEPT !.failed = TRUE] ELSE runner
  /\ UNCHANGED <<questions, missing, keys, finals, rerun, server, migration, events>>

Classified ==
  IF runner.done = Stages /\ ~runner.interrupted /\ ~runner.expired THEN "completed" ELSE "failed"

\* Mutant: the upsert has no guard.
RecordedAnyway == IF runner.paused THEN finals ELSE Classified
Recorded == IF runner.paused \/ finals = "cancelled" THEN finals ELSE Classified

KeysAfterRun == keys /\ runner.paused

\* runPipeline's finally block, up to unregister.
Finish ==
  /\ runner.registered
  /\ Finished \/ runner.expired
  /\ finals' = Recorded
  /\ keys' = KeysAfterRun
  /\ runner' = NoRunner
  /\ UNCHANGED <<rows, questions, missing, rerun, server, flying, migration, events>>

\* Mutant: an INTERRUPT clears the timer of the budget.
OnTheClockUndisturbed == runner.at \notin Gates /\ ~runner.interrupted
OnTheClock == runner.at \notin Gates

\* The wall-clock budget, which stands still at a gate.
Timeout ==
  /\ Live /\ OnTheClock
  /\ runner' = [runner EXCEPT !.expired = TRUE]
  /\ UNCHANGED <<db, server, flying, migration, events>>

Interrupted ==
  IF runner.registered THEN [runner EXCEPT !.interrupted = TRUE, !.grace = TRUE] ELSE runner

\* The actor is stopped if it outlives the grace period after an INTERRUPT.
GraceExpires ==
  /\ Hears /\ runner.grace
  /\ runner' = [runner EXCEPT !.deaf = TRUE]
  /\ UNCHANGED <<db, server, flying, migration, events>>

-----------------------------------------------------------------------------
(* Launching a run over what the database holds. *)

AnsweredGates == {g \in Gates : HasAnswer(g, {"approved", "rejected"})}

Succeeded == {s \in Stages : HasRow(s, {"success"})}

\* Mutant: the run starts from nothing.
StartedAfresh == [NoRunner EXCEPT !.registered = TRUE]

\* Resume hydration: successful attempts and answered gates are done, and every
\* answer ever given authorizes its target.  The replay then picks the first route
\* that is authorized: if that is the rejecting one, the approved stage is skipped.
Hydrated ==
  LET done == Succeeded \cup AnsweredGates
      allowed == {g + 1 : g \in {x \in Gates : HasAnswer(x, {"approved"})}}
                 \cup {1 : g \in {x \in Gates : HasAnswer(x, {"rejected"})}}
      skipped == IF 1 \in allowed THEN {g + 1 : g \in Gates \cap done} \ allowed ELSE {}
  IN [NoRunner EXCEPT !.registered = TRUE, !.done = done \cup skipped, !.allowed = allowed]

\* runPipeline registers; if the task still is, it throws, and the caller
\* records a failure and deletes the envKeys of the run that is alive.
Launch ==
  IF runner.registered
    THEN /\ finals' = IF finals = "none" THEN "failed" ELSE finals
         /\ keys' = FALSE
         /\ UNCHANGED runner
    ELSE /\ runner' = Hydrated
         /\ UNCHANGED <<finals, keys>>

-----------------------------------------------------------------------------
(* What people ask for. *)

\* answerGate: the row, and the attempt if it is still running.
Answered(g, k, answer) ==
  /\ questions[g][k] = "open"
  /\ questions' = [questions EXCEPT ![g][k] = answer]
  /\ rows' = [rows EXCEPT ![g][k] = IF @ = "running" THEN "success" ELSE @]
  /\ UNCHANGED <<missing, keys, finals, rerun>>

\* GATE_ANSWERED names the stage, not the row.
Approve(g, k) ==
  /\ Serving
  /\ Answered(g, k, "approved")
  /\ runner' = IF Hears /\ runner.at = g
                 THEN [runner EXCEPT !.done = @ \cup {g}, !.allowed = @ \cup {g + 1}, !.at = 0]
                 ELSE runner
  /\ UNCHANGED <<server, flying, migration, events>>

\* GATE_REJECTED rewinds the run, whatever it is at, and gives it a new actor.
Reject(g, k) ==
  /\ Serving
  /\ Answered(g, k, "rejected")
  /\ runner' = IF Live
                 THEN [runner EXCEPT !.done = {}, !.allowed = {}, !.at = 0, !.grace = FALSE, !.deaf = FALSE]
                 ELSE runner
  /\ Count("rejects")
  /\ UNCHANGED <<server, flying, migration>>

\* cancelTask, one transaction.
Cancel ==
  /\ Serving
  /\ finals = "none" /\ HasRun
  /\ finals' = "cancelled"
  /\ questions' = ClosedIn(Gates)
  /\ missing' = {}
  /\ keys' = FALSE
  /\ runner' = Interrupted
  /\ UNCHANGED <<rows, rerun, server, flying, migration, events>>

\* A gate's deadline has passed: cancelTask, on behalf of nobody.
Sweep ==
  /\ server = "up"
  /\ \E g \in Gates : HasAnswer(g, {"open"})
  /\ Cancel

-----------------------------------------------------------------------------
(* executeMigration. *)

SupersededStatuses == {"success", "running", "error"}

\* The supersede transaction, with the snapshot a refused launch restores.
Supersede(s) ==
  /\ rows' = Marked(rows, s..N, SupersededStatuses, "superseded")
  /\ questions' = ClosedIn(s..N)
  /\ rerun' = s
  /\ migration' = [pc |-> "starting", from |-> s,
                   saved |-> {c \in Attempts : c[1] >= s /\ c[3] \in SupersededStatuses}]

\* An attempt of an agent or a script is running: the run is interrupted first.
Busy == runner.registered /\ \E s \in Stages \ Gates : HasRow(s, {"running"})

Begin(s) ==
  /\ migration.pc = "idle" /\ HasRun
  /\ IF Busy
       THEN /\ runner' = Interrupted
            /\ migration' = [NoMigration EXCEPT !.pc = "waiting", !.from = s]
            /\ UNCHANGED <<rows, questions, rerun>>
       ELSE Supersede(s) /\ UNCHANGED runner

\* migrateTask; retryTaskFromStage is the same but for a task that has a verdict.
Migrate(s) ==
  /\ Serving
  /\ Begin(s)
  /\ Count("migrations")
  /\ UNCHANGED <<missing, keys, finals, server, flying>>

\* provideTaskSecrets stores the key and retries the stage that waits for it.
ProvideSecrets ==
  /\ Serving /\ missing # {}
  /\ missing' = {} /\ keys' = TRUE
  /\ IF finals = "none" /\ migration.pc = "idle"
       THEN \E s \in missing : Begin(s)
       ELSE UNCHANGED <<rows, questions, rerun, runner, migration>>
  /\ UNCHANGED <<finals, server, flying, events>>

\* The run the migration waited for has ended, whatever ended it.
Terminated ==
  /\ migration.pc = "waiting" /\ ~runner.registered
  /\ Supersede(migration.from)
  /\ UNCHANGED <<missing, keys, finals, server, runner, flying, events>>

\* It did not end in time; a run that has only to wind up does.
WaitTimesOut ==
  /\ migration.pc = "waiting" /\ Live
  /\ migration' = NoMigration
  /\ UNCHANGED <<db, server, runner, flying, events>>

\* After the worktree reset, startPipelineRun.
Resume ==
  /\ migration.pc = "starting"
  /\ migration' = NoMigration
  /\ \/ Launch /\ UNCHANGED <<rows, events>>
     \/ /\ Count("refusals")
        /\ rows' = [s \in Stages |-> [k \in DOMAIN rows[s] |->
             IF \E c \in migration.saved : c[1] = s /\ c[2] = k
               THEN (CHOOSE c \in migration.saved : c[1] = s /\ c[2] = k)[3] ELSE rows[s][k]]]
        /\ UNCHANGED <<runner, finals, keys>>
  /\ UNCHANGED <<questions, missing, rerun, server, flying>>

-----------------------------------------------------------------------------
(* The server. *)

\* Memory is gone.
Wiped == runner' = NoRunner /\ flying' = {} /\ migration' = NoMigration

Crash ==
  /\ Serving
  /\ server' = "down"
  /\ Wiped
  /\ Count("outages")
  /\ UNCHANGED db

\* An answer is committed, and the server dies before the run hears of it.
AnswerUnheard(g, k) ==
  /\ Serving
  /\ Answered(g, k, "approved") \/ Answered(g, k, "rejected")
  /\ server' = "down"
  /\ Wiped
  /\ Count("outages")

\* SIGTERM: every run is interrupted and given a few seconds.
StopBegins ==
  /\ server = "up"
  /\ server' = "stopping"
  /\ runner' = Interrupted
  /\ Count("outages")
  /\ UNCHANGED <<db, flying, migration>>

\* Mutant: the shutdown and the boot leave attempts as they are.
NotReconciled == rows
Reconciled == IF finals = "none" THEN Marked(rows, Stages, {"running"}, "superseded") ELSE rows

StopEnds ==
  /\ server = "stopping"
  /\ server' = "down"
  /\ rows' = Reconciled
  /\ Wiped
  /\ UNCHANGED <<questions, missing, keys, finals, rerun, events>>

\* Every stage has succeeded, or is a gate that was answered.
NothingPending == Stages \subseteq Succeeded \cup AnsweredGates

\* bootResumability, before the server listens: a task without a verdict is left
\* to wait for its secret, declared completed, or resumed.
Boot ==
  /\ server = "down"
  /\ server' = "up"
  /\ rows' = Reconciled
  /\ IF finals # "none" \/ ~HasRun \/ missing # {}
       THEN UNCHANGED <<runner, finals, keys, events>>
     ELSE IF NothingPending /\ rerun = 0
       THEN /\ finals' = "completed" /\ keys' = FALSE
            /\ UNCHANGED <<runner, events>>
     ELSE \/ Launch /\ UNCHANGED events
          \/ Count("refusals") /\ UNCHANGED <<runner, finals, keys>>
  /\ UNCHANGED <<questions, missing, rerun, flying, migration>>

-----------------------------------------------------------------------------
RunStep ==
  \/ \E e \in flying : Deliver(e) \/ \E st \in {"success", "error"} : Return(e, st)
  \/ Finish \/ Timeout \/ GraceExpires

Person ==
  \/ \E g \in Gates : \E k \in DOMAIN questions[g] : Approve(g, k) \/ Reject(g, k)
  \/ Cancel
  \/ ProvideSecrets
  \/ \E s \in Stages : Migrate(s)

MigrationStep == Terminated \/ WaitTimesOut \/ Resume

ServerStep ==
  \/ Sweep \/ Crash \/ StopBegins \/ StopEnds \/ Boot
  \/ \E g \in Gates : \E k \in DOMAIN questions[g] : AnswerUnheard(g, k)

Next ==
  \/ \E s \in Stages : Open(s) \/ Pause(s)
  \/ Settled /\ (RunStep \/ Person \/ MigrationStep \/ ServerStep)

Spec == Init /\ [][Next]_vars

\* Executors return, timers fire, an orchestrator proceeds and a server is started
\* again; nothing is owed by people.
Fairness ==
  /\ \A s \in Stages : WF_vars(Open(s) \/ Pause(s))
  /\ \A s \in Stages : WF_vars(\E e \in flying : e[1] = s /\ Return(e, "error"))
  /\ WF_vars(Finish) /\ WF_vars(Timeout) /\ WF_vars(GraceExpires)
  /\ WF_vars(MigrationStep)
  /\ WF_vars(StopEnds) /\ WF_vars(Boot)

FairSpec == Spec /\ Fairness
=============================================================================
