------------------------ MODULE LifecycleProperties ------------------------
(***************************************************************************)
(* What a task keeps across its server's lives.                            *)
(***************************************************************************)
EXTENDS TaskLifecycle

\* The detailed lifecycle implements the contract of TaskVerdict: through crashes,
\* resumes, retries and migrations a task is completed only when a person has answered
\* every gate, and a cancelled task stays cancelled (cancelTask's INSERT OR IGNORE and
\* the guarded upsert of runPipeline, whichever comes first).
Verdict == INSTANCE TaskVerdict WITH verdict <- finals, heard <- AnsweredGates
ImplementsTaskVerdict == Verdict!Spec

\* The newest answer a person gave at g approves.
ApprovedAt(g) ==
  \E k \in DOMAIN questions[g] :
    /\ questions[g][k] = "approved"
    /\ \A q \in DOMAIN questions[g] : questions[g][q] = "rejected" => q < k

\* A task is not completed over a rejection: the answer that is in the database is the
\* source of truth, and a task resumed at boot re-dispatches it (answerGate, resume).
CompletedIsApproved == finals = "completed" => \A g \in Gates : ApprovedAt(g)

\* The plaintext envKeys do not outlive the task, however it ended (cancelTask,
\* runPipeline, bootResumability).
KeysEndWithTheTask ==
  finals # "none" /\ ~runner.registered /\ migration.pc = "idle" => ~keys

\* An attempt the database calls running is running: what a crash or a shutdown leaves
\* is reconciled before the server listens, and a migration supersedes what it stops.
\* A refused launch is left out: it restores the statuses it found, whatever ended since.
RunningRowsHaveExecutors ==
  server = "up" /\ finals = "none" /\ events.refusals = 0 =>
    \A s \in Stages \ Gates : \A k \in DOMAIN rows[s] :
      rows[s][k] = "running" => \E e \in flying : e[1] = s /\ e[2] = k

\* An attempt of s was followed by another although neither a crash, a person nor a
\* missing secret had ended it: the task was resumed while its executor wound up.
Orphaned(s) ==
  \E k \in DOMAIN rows[s] : k < Len(rows[s]) /\ rows[s][k] \notin {"superseded", "secret_pending"}

\* Nobody has asked for work to be redone, not even in an answer no run has heard yet.
LeftAlone == events.migrations = 0 /\ \A g \in Gates : ~HasAnswer(g, {"rejected"})

\* A stage after s has waited for its secret.
PausedAfter(s) == \E u \in Keyed : u > s /\ HasRow(u, {"secret_pending"})

\* As long as nobody asks for work to be redone, no stage that has succeeded runs again,
\* neither after a crash nor after a pause for a secret (resume hydration), unless the
\* pause found the executor of an earlier stage still winding up.
FinishedWorkIsKept ==
  [][LeftAlone =>
     \A s \in Stages : Len(rows'[s]) > Len(rows[s]) /\ HasRow(s, {"success"}) =>
       PausedAfter(s) /\ \E t \in 1..(s - 1) : Orphaned(t)]_vars

\* A person is asked for an answer or a secret, or owes the launch that was refused.
WaitsForPerson ==
  \/ runner.registered /\ runner.at \in Gates
  \/ missing # {}
  \/ events.refusals > 0

\* A task does not hang: time and again it has a verdict or waits for a person, across
\* crashes, refused launches and migrations that give up (wall-clock budget, grace
\* period, boot resume).
TaskSettles == []<>(finals # "none" \/ WaitsForPerson \/ ~HasRun)
=============================================================================
