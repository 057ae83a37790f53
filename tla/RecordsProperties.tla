------------------------- MODULE RecordsProperties -------------------------
(***************************************************************************)
(* What the rows of TaskRecords have to tell those who read them.          *)
(***************************************************************************)
EXTENDS TaskRecords

Working(t) == runs[t].on /\ ~Over(t) /\ finals[t] = "none"
AtGate(t) == Working(t) /\ runs[t].at # 0 /\ At(t) \in Gates

\* The stage the run is at is a script, which gives no sign of life, and was replayed.
Overtaken(t) == At(t) \notin Agents /\ \E a \in OfStage(t, At(t)) : attempts[a].kind = "replay"

\* getTaskStatus tells what goes on: a task at work is never reported as over, unknown
\* or, unless a replay overtook it, orphaned; one at a gate is reported as gated, here
\* and in the list; one that nobody works on any more is reported as orphaned within a
\* minute; and a verdict is reported as recorded, if neither a crash nor a cancel nor a
\* pause for keys (which records none) can have left a question open.
StatusIsTrue ==
  up /\ Settled => \A t \in Tasks :
    /\ Working(t) /\ ~Overtaken(t) => Status(t) \in {"running", "gated", "secret_pending"}
    /\ AtGate(t) /\ OpenSecrets(t) = {} => Status(t) = "gated" /\ Listed(t) = "gated"
    /\ /\ Of(t) # {} /\ finals[t] = "none" /\ ~runs[t].on
       /\ Of(t) \cap (executors \cup recent) = {} /\ OpenGates(t) = {} /\ OpenSecrets(t) = {}
       => Status(t) = "orphaned"
    /\ finals[t] \in {"completed", "failed"} /\ events["outages"] = 0 /\ OpenSecrets(t) = {} =>
         Status(t) = finals[t] /\ Listed(t) = finals[t]

\* getTaskStatus, of the status it falls back to: a task that "is genuinely orphaned"
\* has no run at work.
OrphanedHasNoRun ==
  up /\ Settled => \A t \in Tasks : Status(t) = "orphaned" => ~Working(t)

\* Nobody but runs has written for the stage, and no attempt failed after it had written.
Plain(t, s) ==
  /\ \A a \in OfStage(t, s) :
       /\ attempts[a].kind \notin {"replay", "dry_run"}
       /\ attempts[a].status = "error" => WritesOf({a}) = {} \/ IsElement(a)
  /\ \A k \in WritesOf(OfStage(t, s)) : ~ports[k].outside

\* Of a completed task, all readers of a port name the attempt whose value the next
\* stage was given, unless that is a gate, which is not asked again: the latest value,
\* the lineage, the comparison of outputs and of runs, the execution record, what a gate
\* shows, and what a resumed run would start from.
ReadersAgree ==
  \A t \in Tasks : \A s \in Stages \ Gates :
    finals[t] = "completed" /\ ~runs[t].on /\ events["prunes"] = 0
      /\ Plain(t, s) /\ In(Of(t), {"running"}) = {} =>
        LET a == ReadLatest(t, s) IN
          /\ a # 0
          /\ Lineage(t, s).latest = a /\ ComparedOutput(t, s) = a /\ ComparedRun(t, s) = a
          /\ Recorded(t, s) = a /\ Hydrated(t).value[s] = a
          /\ s + 1 \in Gates => ShownAtGate(t, s) = a
          /\ s + 1 \in Stages \ Gates /\ Plain(t, s + 1) =>
               \E c \in OfStage(t, s + 1) : attempts[c].read = a

\* Pruning takes nothing a run at work stands on, however old: what it holds of the
\* stages behind it and what it waits for is in the database.
HistoryIsKept ==
  \A t \in Tasks : Working(t) =>
    (Range(runs[t].value) \cup {runs[t].at}) \ {0} \subseteq DOMAIN attempts

\* analyze_task_failure names a stage of every failed task, and none of a completed one
\* whose server did not go down, as long as nobody replayed, wrote or pruned.
FailureIsFound ==
  \A t \in Tasks :
    ~runs[t].on /\ Of(t) \cap executors = {} /\ events["prunes"] = 0
      /\ (\A s \in Stages : Plain(t, s)) =>
        /\ finals[t] = "failed" => Failing(t) # {}
        /\ finals[t] = "completed" /\ events["outages"] = 0 => Failing(t) = {}
=============================================================================
