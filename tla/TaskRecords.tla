---------------------------- MODULE TaskRecords ----------------------------
(***************************************************************************)
(* The rows tasks leave in the database, and everybody who reads or writes *)
(* them beside the runs: status and task list, lineage, failure analysis,  *)
(* replays, dry runs, writes from outside, pruning, and the boot that      *)
(* resumes what it finds.                                                  *)
(*                                                                         *)
(* A pipeline is a chain of stages, each reading the one before it and     *)
(* writing one port.  A value is named by the attempt that wrote it.       *)
(* attempt_id is the order of started_at; the keys of ports are the order  *)
(* of written_at.                                                          *)
(***************************************************************************)
EXTENDS Integers, FiniteSets, FiniteSetsExt, Functions

CONSTANTS
  Tasks,      \* task ids, of tasks somebody starts and of dry runs
  N,          \* number of stages
  Gates, Agents, Fanouts,  \* stages of that type; the others are scripts
  Keyed,      \* agent stages that need an envKey
  Elements,   \* length of the array a fanout runs over
  Bound,      \* bound: how many events of each kind
  MaxEvents   \* bound: how many together

Kinds == {"outages", "retries", "timeouts", "resumes", "replays", "dry_runs", "outside", "prunes"}
Stages == 1..N

ASSUME RecordsAssumption ==
  /\ N \in Nat \ {0} /\ Elements \in Nat \ {0}
  /\ Gates \subseteq Stages /\ Fanouts \subseteq Stages \ Gates /\ Agents \subseteq Stages \ Gates
  /\ Keyed \subseteq Agents \ Fanouts
  /\ Bound \in [Kinds -> Nat] /\ MaxEvents \in Nat

VARIABLES
  (* The database. *)
  attempts,   \* stage_attempts: attempt_id -> row
  issued,     \* attempt_ids given out so far
  ports,      \* port_values with direction 'out': written_at -> row
  gates,      \* gate_queue
  secrets,    \* secret_gate_queue
  keys,       \* tasks with the envKey in task_env_values
  finals,     \* task_finals
  (* The server's memory. *)
  up,
  runs,       \* task -> its run
  executors,  \* attempts somebody is working on
  recent,     \* attempts with a started_at or last_heartbeat_at of the last minute
  events

db == <<attempts, issued, ports, gates, secrets, keys, finals>>
vars == <<attempts, issued, ports, gates, secrets, keys, finals, up, runs, executors, recent, events>>

Rows ==
  [task : Tasks, stage : Stages, idx : Nat \ {0}, read : Nat, elem : 0..Elements,
   kind : {"regular", "fanout_element", "fanout_aggregate", "replay", "dry_run"},
   status : {"running", "success", "error", "secret_pending", "superseded"}]

\* at: the attempt the run waits for; value: what the machine holds of each stage;
\* elems: the elements collected in the current pass over an array.
Runs ==
  [on : BOOLEAN, at : Nat, value : [Stages -> Nat], pass : BOOLEAN, elems : SUBSET (1..Elements),
   failed : BOOLEAN, paused : BOOLEAN, interrupted : BOOLEAN]

TypeOK ==
  /\ DOMAIN attempts \subseteq 1..issued /\ \A a \in DOMAIN attempts : attempts[a] \in Rows
  /\ issued \in Nat
  /\ \E n \in Nat : DOMAIN ports \subseteq 1..n
  /\ \A k \in DOMAIN ports : ports[k] \in [attempt : DOMAIN attempts, outside : BOOLEAN]
  /\ gates \subseteq [attempt : DOMAIN attempts, open : BOOLEAN]
  /\ secrets \subseteq [attempt : DOMAIN attempts, open : BOOLEAN]
  /\ keys \subseteq Tasks
  /\ finals \in [Tasks -> {"none", "completed", "failed", "cancelled"}]
  /\ up \in BOOLEAN /\ runs \in [Tasks -> Runs]
  /\ executors \subseteq 1..issued /\ recent \subseteq 1..issued
  /\ events \in [Kinds -> Nat]

-----------------------------------------------------------------------------
(* What the rows say. *)

Of(t) == {a \in DOMAIN attempts : attempts[a].task = t}
OfStage(t, s) == {a \in Of(t) : attempts[a].stage = s}
In(as, statuses) == {a \in as : attempts[a].status \in statuses}
IsElement(a) == attempts[a].kind = "fanout_element"

Latest(as) == CHOOSE a \in as : \A b \in as : attempts[b].idx <= attempts[a].idx

Written(a) == \E k \in DOMAIN ports : ports[k] = [attempt |-> a, outside |-> FALSE]
WritesOf(as) == {k \in DOMAIN ports : ports[k].attempt \in as}

OpenGates(t) == {g \in gates : g.open /\ g.attempt \in Of(t)}
OpenSecrets(t) == {x \in secrets : x.open /\ x.attempt \in Of(t)}

\* listPendingSecretGates: rows whose keys the task does have are filtered out.
PendingSecrets(t) == {x \in OpenSecrets(t) : t \notin keys}

\* A sign of life within the last minute.  Mutant: at any time.
AliveOnce(t) == Of(t) \ In(Of(t), {"superseded"}) # {}
AliveLately(t) == (Of(t) \ In(Of(t), {"superseded"})) \cap recent # {}

\* getTaskStatus.
Status(t) ==
  IF PendingSecrets(t) # {} THEN "secret_pending"
  ELSE IF OpenGates(t) # {} THEN "gated"
  ELSE IF finals[t] # "none" THEN finals[t]
  ELSE IF Of(t) = {} THEN "not_found"
  ELSE IF \E a \in In(Of(t), {"running"}) : a = Latest(OfStage(t, attempts[a].stage)) THEN "running"
  ELSE IF AliveLately(t) THEN "running"
  ELSE "orphaned"

\* GET /kernel/tasks.
Listed(t) ==
  IF finals[t] = "cancelled" THEN "cancelled"
  ELSE IF OpenSecrets(t) # {} THEN "secret_pending"
  ELSE IF OpenGates(t) # {} THEN "gated"
  ELSE IF finals[t] # "none" THEN finals[t]
  ELSE IF attempts[Max(Of(t))].status = "running" THEN "running"
  ELSE "orphaned"

\* The last of the writes K, fanout elements after everything else.
\* Mutant: the last of all.
LastOfAll(K) == IF K = {} THEN 0 ELSE ports[Max(K)].attempt
LastOf(K) ==
  LET main == {k \in K : ~IsElement(ports[k].attempt)}
  IN IF K = {} THEN 0 ELSE ports[Max(IF main = {} THEN K ELSE main)].attempt

\* readLatestPort.
ReadLatest(t, s) == LastOf(WritesOf(OfStage(t, s)))

\* query_lineage: who wrote the port last, and who has read it.
Lineage(t, s) ==
  [latest |-> LastOf(WritesOf(OfStage(t, s))),
   readers |-> {a \in Of(t) : attempts[a].stage = s + 1 /\ attempts[a].read # 0}]

\* diff_runs: the latest successful attempt of a stage, elements after everything else.
ComparedOutput(t, s) ==
  LET done == In(OfStage(t, s), {"success"})
      main == {a \in done : ~IsElement(a)}
  IN IF done = {} THEN 0 ELSE Latest(IF main = {} THEN done ELSE main)

\* getGateContext: what a gate that reads stage s shows of it.
ShownAtGate(t, s) == LastOf(WritesOf(In(OfStage(t, s), {"success"})))

\* compare_runs: the latest attempt that was not superseded.
ComparedRun(t, s) ==
  LET candidates == {a \in OfStage(t, s) \ In(Of(t), {"superseded"}) : ~IsElement(a)}
  IN IF candidates = {} THEN 0 ELSE Latest(candidates)

\* get_stage_execution_record, without an attempt number.
Recorded(t, s) == IF OfStage(t, s) = {} THEN 0 ELSE Latest(OfStage(t, s))

\* The attempt a writer may still write to.
Active(t, s) == In(OfStage(t, s), {"running", "secret_pending"})

\* analyze_task_failure: stages whose last attempt did not end well.
\* Mutant: any attempt.
FailingOnce(t) == {s \in Stages : In(OfStage(t, s), {"running", "error", "superseded"}) # {}}
Failing(t) ==
  {s \in Stages : OfStage(t, s) # {}
     /\ attempts[Latest(OfStage(t, s))].status \in {"running", "error", "superseded"}}

-----------------------------------------------------------------------------
NoRun ==
  [on |-> FALSE, at |-> 0, value |-> [s \in Stages |-> 0], pass |-> FALSE, elems |-> {},
   failed |-> FALSE, paused |-> FALSE, interrupted |-> FALSE]

\* What a resumed run starts from: stages with a successful attempt, a fanout's only
\* if it is the aggregate, and gates that were answered.
Counts(a) ==
  /\ attempts[a].status = "success"
  /\ attempts[a].stage \in Fanouts => attempts[a].kind = "fanout_aggregate"

Answered(t, s) == {g.attempt : g \in {x \in gates : ~x.open /\ x.attempt \in OfStage(t, s)}}

Hydrated(t) ==
  LET done(s)  == {a \in OfStage(t, s) : Counts(a)}
      value(s) == IF s \in Gates THEN Max({0} \cup Answered(t, s))
                  ELSE LET K == WritesOf(done(s)) IN IF K = {} THEN 0 ELSE ports[Max(K)].attempt
  IN [NoRun EXCEPT !.on = TRUE, !.value = [s \in Stages |-> value(s)]]

Count(k) ==
  /\ events[k] < Bound[k] /\ FoldFunction(+, 0, events) < MaxEvents
  /\ events' = [events EXCEPT ![k] = @ + 1]

Init ==
  /\ attempts = <<>> /\ issued = 0 /\ ports = <<>> /\ gates = {} /\ secrets = {}
  /\ runs \in [Tasks -> {NoRun, [NoRun EXCEPT !.on = TRUE]}]
  /\ keys \in SUBSET {t \in Tasks : runs[t].on}
  /\ finals = [t \in Tasks |-> "none"]
  /\ up = TRUE
  /\ executors = {} /\ recent = {}
  /\ events = [k \in Kinds |-> 0]

-----------------------------------------------------------------------------
(* Attempts. *)

Put(f, k, v) == [x \in DOMAIN f \cup {k} |-> IF x = k THEN v ELSE f[x]]

New == issued + 1

Row(t, s, kind, status, read) ==
  [task |-> t, stage |-> s, idx |-> 1 + Max({0} \cup {attempts[a].idx : a \in OfStage(t, s)}),
   read |-> read, elem |-> 0, kind |-> kind, status |-> status]

\* startAttempt.
Start(row) ==
  /\ attempts' = Put(attempts, New, row)
  /\ issued' = New
  /\ recent' = recent \cup {New}

\* What PauseForSecret leaves.
StartWithoutKey(row) ==
  /\ Start([row EXCEPT !.status = "secret_pending"])
  /\ secrets' = secrets \cup {[attempt |-> New, open |-> TRUE]}

Lacking(t, s) == s \in Keyed /\ t \notin keys

\* An executor begins, in a run or out of one.
Execute(row) ==
  /\ Start([row EXCEPT !.status = "running"])
  /\ executors' = executors \cup {New}

\* A row of port_values.
Store(w) == ports' = Put(ports, 1 + Max({0} \cup DOMAIN ports), w)

-----------------------------------------------------------------------------
(* A run. *)

Undone(t) == {s \in Stages : runs[t].value[s] = 0}
Over(t) == runs[t].failed \/ runs[t].paused \/ Undone(t) = {}
Ready(t) == up /\ runs[t].on /\ ~Over(t) /\ runs[t].at = 0
At(t) == Min(Undone(t))
Input(t) == IF At(t) = 1 THEN 0 ELSE runs[t].value[At(t) - 1]

OpenGate(t) ==
  /\ Ready(t) /\ At(t) \in Gates
  /\ Start(Row(t, At(t), "regular", "running", Input(t)))
  /\ gates' = gates \cup {[attempt |-> New, open |-> TRUE]}
  /\ runs' = [runs EXCEPT ![t].at = New]
  /\ UNCHANGED <<ports, secrets, keys, finals, up, executors, events>>

StartStage(t) ==
  /\ Ready(t) /\ At(t) \notin Gates \cup Fanouts /\ ~Lacking(t, At(t))
  /\ Execute(Row(t, At(t), "regular", "running", Input(t)))
  /\ runs' = [runs EXCEPT ![t].at = New]
  /\ UNCHANGED <<ports, gates, secrets, keys, finals, up, events>>

PauseForSecret(t) ==
  /\ Ready(t) /\ Lacking(t, At(t))
  /\ StartWithoutKey(Row(t, At(t), "regular", "running", Input(t)))
  /\ runs' = [runs EXCEPT ![t].paused = TRUE]
  /\ UNCHANGED <<ports, gates, keys, finals, up, executors, events>>

\* The elements an earlier pass has left.
Preserved(t, s) ==
  {attempts[a].elem : a \in {b \in In(OfStage(t, s), {"success"}) : IsElement(b)}}

BeginPass(t) ==
  /\ Ready(t) /\ At(t) \in Fanouts /\ ~runs[t].pass
  /\ runs' = [runs EXCEPT ![t].pass = TRUE, ![t].elems = Preserved(t, At(t))]
  /\ UNCHANGED <<db, up, executors, recent, events>>

Missing(t) == (1..Elements) \ runs[t].elems

StartElement(t) ==
  /\ Ready(t) /\ runs[t].pass /\ Missing(t) # {}
  /\ Execute([Row(t, At(t), "fanout_element", "running", Input(t)) EXCEPT !.elem = Min(Missing(t))])
  /\ runs' = [runs EXCEPT ![t].at = New]
  /\ UNCHANGED <<ports, gates, secrets, keys, finals, up, events>>

\* Opened, written and closed in one turn.
Aggregate(t) ==
  /\ Ready(t) /\ runs[t].pass /\ Missing(t) = {}
  /\ Start(Row(t, At(t), "fanout_aggregate", "success", Input(t)))
  /\ Store([attempt |-> New, outside |-> FALSE])
  /\ runs' = [runs EXCEPT ![t].value[At(t)] = New, ![t].pass = FALSE, ![t].elems = {}]
  /\ UNCHANGED <<gates, secrets, keys, finals, up, executors, events>>

Advance(t) ==
  OpenGate(t) \/ StartStage(t) \/ PauseForSecret(t) \/ BeginPass(t) \/ StartElement(t) \/ Aggregate(t)

\* A region ends and the next attempt is started in one turn of the event loop.
Settled == \A t \in Tasks : ~Ready(t)

-----------------------------------------------------------------------------
(* Executors, of runs, replays and dry runs. *)

Waiting(a) == {t \in Tasks : runs[t].on /\ runs[t].at = a}

\* writePort; the run hears of it unless the attempt is an element's.
Write(a) ==
  /\ a \in executors /\ a \in DOMAIN attempts /\ ~Written(a)
  /\ Store([attempt |-> a, outside |-> FALSE])
  /\ runs' = [t \in Tasks |->
       IF t \in Waiting(a) /\ ~IsElement(a)
         THEN [runs[t] EXCEPT !.value[attempts[a].stage] = a, !.at = 0] ELSE runs[t]]
  /\ UNCHANGED <<attempts, issued, gates, secrets, keys, finals, up, executors, recent, events>>

\* finishAttempt writes its status over whatever is there.
Finish(a, status) ==
  /\ a \in executors /\ a \in DOMAIN attempts
  /\ status = "success" => Written(a)
  /\ attempts' = [attempts EXCEPT ![a].status = status]
  /\ executors' = executors \ {a}
  /\ runs' = [t \in Tasks |->
       IF t \notin Waiting(a) THEN runs[t]
       ELSE IF status = "error" THEN [runs[t] EXCEPT !.failed = TRUE]
       ELSE [runs[t] EXCEPT !.at = 0, !.elems = @ \cup {attempts[a].elem}]]
  /\ UNCHANGED <<issued, ports, gates, secrets, keys, finals, up, recent, events>>

\* Its row was pruned: the next write violates a foreign key.
Rowless(a) ==
  /\ a \in executors \ DOMAIN attempts
  /\ executors' = executors \ {a}
  /\ runs' = [t \in Tasks |-> IF t \in Waiting(a) THEN [runs[t] EXCEPT !.failed = TRUE] ELSE runs[t]]
  /\ UNCHANGED <<db, up, recent, events>>

\* An agent's attempt fails without a word and another one follows.
AgentRetries(a) ==
  /\ a \in executors /\ a \in DOMAIN attempts /\ attempts[a].stage \in Agents
  /\ LET r == attempts[a] IN
       attempts' = Put([attempts EXCEPT ![a].status = "error"], New,
                       [Row(r.task, r.stage, r.kind, "running", r.read) EXCEPT !.elem = r.elem])
  /\ issued' = New /\ recent' = recent \cup {New}
  /\ executors' = (executors \ {a}) \cup {New}
  /\ runs' = [t \in Tasks |-> IF t \in Waiting(a) THEN [runs[t] EXCEPT !.at = New] ELSE runs[t]]
  /\ Count("retries")
  /\ UNCHANGED <<ports, gates, secrets, keys, finals, up>>

\* An element's time is up: its row is closed, its executor goes on, a new try begins.
TimesOut(a) ==
  /\ Waiting(a) # {} /\ a \in DOMAIN attempts /\ IsElement(a)
  /\ attempts' = [attempts EXCEPT ![a].status = "error"]
  /\ runs' = [t \in Tasks |-> IF t \in Waiting(a) THEN [runs[t] EXCEPT !.at = 0] ELSE runs[t]]
  /\ Count("timeouts")
  /\ UNCHANGED <<issued, ports, gates, secrets, keys, finals, up, executors, recent>>

\* runPipeline's finally block.
RunEnds(t) ==
  /\ runs[t].on /\ (Over(t) \/ runs[t].interrupted)
  /\ finals' = [finals EXCEPT ![t] =
       IF runs[t].paused \/ @ = "cancelled" THEN @
       ELSE IF Undone(t) = {} /\ ~runs[t].interrupted THEN "completed" ELSE "failed"]
  /\ keys' = IF runs[t].paused THEN keys ELSE keys \ {t}
  /\ runs' = [runs EXCEPT ![t] = NoRun]
  /\ UNCHANGED <<attempts, issued, ports, gates, secrets, up, executors, recent, events>>

-----------------------------------------------------------------------------
(* What people do to a task. *)

\* answerGate: the event names the stage, not the row.
Answer(g) ==
  /\ g.open
  /\ gates' = (gates \ {g}) \cup {[g EXCEPT !.open = FALSE]}
  /\ attempts' = [attempts EXCEPT ![g.attempt].status = IF @ = "running" THEN "success" ELSE @]
  /\ LET t == attempts[g.attempt].task
         s == attempts[g.attempt].stage
     IN runs' = IF Waiting(runs[t].at) = {t} /\ ~Over(t) /\ At(t) = s
                  THEN [runs EXCEPT ![t].value[s] = runs[t].at, ![t].at = 0] ELSE runs
  /\ UNCHANGED <<issued, ports, secrets, keys, finals, up, executors, recent, events>>

ClosedGates(as) == {IF g.attempt \in as THEN [g EXCEPT !.open = FALSE] ELSE g : g \in gates}
ResolvedSecrets(as) == {IF x.attempt \in as THEN [x EXCEPT !.open = FALSE] ELSE x : x \in secrets}

\* cancelTask.
Cancel(t) ==
  /\ finals[t] = "none" /\ Of(t) # {}
  /\ finals' = [finals EXCEPT ![t] = "cancelled"]
  /\ gates' = ClosedGates(Of(t)) /\ secrets' = ResolvedSecrets(Of(t))
  /\ keys' = keys \ {t}
  /\ runs' = [runs EXCEPT ![t].interrupted = runs[t].on]
  /\ UNCHANGED <<attempts, issued, ports, up, executors, recent, events>>

\* executeMigration of a task nobody runs, to the version it has: the stages from s
\* on are superseded, elements that succeeded excepted, their questions closed, and a
\* run is launched.
Redo(t, s) ==
  LET as == {a \in Of(t) : attempts[a].stage >= s}
      spared == {a \in In(as, {"success"}) : IsElement(a)}
  IN /\ attempts' = [a \in DOMAIN attempts |->
          IF a \in In(as, {"success", "running", "error"}) \ spared
            THEN [attempts[a] EXCEPT !.status = "superseded"] ELSE attempts[a]]
     /\ gates' = ClosedGates(as)
     /\ runs' = [runs EXCEPT ![t] =
          [Hydrated(t) EXCEPT !.value = [x \in Stages |-> IF x >= s THEN 0 ELSE @[x]]]]

\* retryTaskFromStage.
Retry(t, s) ==
  /\ Of(t) # {} /\ finals[t] = "none" /\ ~runs[t].on
  /\ Redo(t, s)
  /\ Count("resumes")
  /\ UNCHANGED <<issued, ports, secrets, keys, finals, up, executors, recent>>

\* provideTaskSecrets: a retry that is refused leaves the keys where they are.
ProvideSecrets(t) ==
  /\ OpenSecrets(t) # {} /\ ~runs[t].on
  /\ keys' = keys \cup {t}
  /\ secrets' = ResolvedSecrets(Of(t))
  /\ IF finals[t] = "none"
       THEN Redo(t, Min({attempts[x.attempt].stage : x \in OpenSecrets(t)}))
       ELSE UNCHANGED <<attempts, gates, runs>>
  /\ UNCHANGED <<issued, ports, finals, up, executors, recent, events>>

-----------------------------------------------------------------------------
(* Debugging tools. *)

Runnable(s) == s \notin Gates

\* An attempt outside any run, of the kind its runtime gives it.
Alone(row) ==
  /\ IF Lacking(row.task, row.stage)
       THEN StartWithoutKey(row) /\ UNCHANGED executors
       ELSE Execute(row) /\ UNCHANGED secrets
  /\ UNCHANGED <<ports, gates, keys, finals, up, runs>>

\* replay_stage: the inputs of a regular attempt again, among the rows of its task.
ReplayStage(a) ==
  /\ a \in DOMAIN attempts
  /\ attempts[a].kind = "regular" /\ Runnable(attempts[a].stage)
  /\ Alone(Row(attempts[a].task, attempts[a].stage, "replay", "running", attempts[a].read))
  /\ Count("replays")

\* dry_run_stage: given inputs, a task id of its own.
DryRunStage(t, s) ==
  /\ Of(t) = {} /\ finals[t] = "none" /\ ~runs[t].on /\ Runnable(s)
  /\ Alone(Row(t, s, "dry_run", "running", 0))
  /\ Count("dry_runs")

\* write_port by somebody who is not in the run: lineage only.
WriteFromOutside(a) ==
  /\ a \in DOMAIN attempts /\ a \in Active(attempts[a].task, attempts[a].stage)
  /\ Store([attempt |-> a, outside |-> TRUE])
  /\ Count("outside")
  /\ UNCHANGED <<attempts, issued, gates, secrets, keys, finals, up, runs, executors, recent>>

-----------------------------------------------------------------------------
(* prune-kernel-records, by task or by age. *)

\* Mutant: tasks without a verdict are pruned as well.
PrunableAnyway(as) == as
Prunable(as) == {a \in as : finals[attempts[a].task] # "none"}

\* One transaction, which a row of secret_gate_queue makes fail.
Prune(as) ==
  /\ as # {}
  /\ {x.attempt : x \in secrets} \cap as = {}
  /\ attempts' = Restrict(attempts, DOMAIN attempts \ as)
  /\ ports' = Restrict(ports, DOMAIN ports \ WritesOf(as))
  /\ gates' = {g \in gates : g.attempt \notin as}
  /\ Count("prunes")
  /\ UNCHANGED <<issued, secrets, keys, finals, up, runs, executors, recent>>

PruneTask(t) == Prune(Prunable(Of(t)))
PruneOlder(than) == Prune(Prunable({a \in DOMAIN attempts : a < than}))

-----------------------------------------------------------------------------
(* The server. *)

Crash ==
  /\ up
  /\ up' = FALSE
  /\ runs' = [t \in Tasks |-> NoRun] /\ executors' = {}
  /\ Count("outages")
  /\ UNCHANGED <<db, recent>>

Orphans == {t \in Tasks : Of(t) # {} /\ finals[t] = "none"}

\* classifyOrphan.
ToResume(t) == OpenSecrets(t) = {} /\ \E s \in Stages :
  IF s \in Gates THEN Answered(t, s) = {} ELSE ~\E a \in OfStage(t, s) : Counts(a)
Recovered(t) == OpenSecrets(t) = {} /\ ~ToResume(t)

\* bootResumability.
Boot ==
  /\ ~up /\ up' = TRUE
  /\ attempts' = [a \in DOMAIN attempts |->
       IF attempts[a].task \in Orphans /\ attempts[a].status = "running"
         THEN [attempts[a] EXCEPT !.status = "superseded"] ELSE attempts[a]]
  /\ finals' = [t \in Tasks |-> IF t \in Orphans /\ Recovered(t) THEN "completed" ELSE finals[t]]
  /\ keys' = {t \in keys : ~(t \in Orphans /\ Recovered(t))}
  /\ runs' = [t \in Tasks |-> IF t \in Orphans /\ ToResume(t) THEN Hydrated(t) ELSE NoRun]
  /\ UNCHANGED <<issued, ports, gates, secrets, executors, recent, events>>

\* A minute: an agent at work beats, nothing else does.
TimePasses ==
  /\ recent' = {a \in executors \cap DOMAIN attempts : attempts[a].stage \in Agents}
  /\ UNCHANGED <<db, up, runs, executors, events>>

-----------------------------------------------------------------------------
ExecutorStep(a) ==
  Write(a) \/ Finish(a, "success") \/ Finish(a, "error") \/ Rowless(a) \/ AgentRetries(a) \/ TimesOut(a)

Person ==
  \/ \E g \in gates : Answer(g)
  \/ \E t \in Tasks : Cancel(t) \/ ProvideSecrets(t) \/ \E s \in Stages : Retry(t, s)

Debugger ==
  \/ \E a \in DOMAIN attempts : ReplayStage(a) \/ WriteFromOutside(a)
  \/ \E t \in Tasks : \E s \in Stages : DryRunStage(t, s)

Pruner == (\E t \in Tasks : PruneTask(t)) \/ (\E a \in DOMAIN attempts : PruneOlder(a))

Next ==
  \/ \E t \in Tasks : Advance(t)
  \/ Settled /\ \/ up /\ (Person \/ Debugger)
                \/ \E a \in executors : ExecutorStep(a)
                \/ \E t \in Tasks : RunEnds(t)
                \/ Pruner \/ Crash \/ Boot \/ TimePasses

Spec == Init /\ [][Next]_vars
=============================================================================
