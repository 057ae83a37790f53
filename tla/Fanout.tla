------------------------------- MODULE Fanout -------------------------------
(***************************************************************************)
(* orchestrateFanoutStage: one stage executed once per element of an       *)
(* array.  A pool of workers shares a cursor; every element is tried up to *)
(* ElementRetries + 1 times, each try raced against a timeout; the outputs *)
(* are collected by index and published as one array.                      *)
(*                                                                         *)
(* A pass is one call.  The rows of its tries outlive it: a later pass,    *)
(* after a crash, a pause for a secret, a migration or a rewind of the     *)
(* run, reuses the newest successful row of each index.  A try that times  *)
(* out is not killed: its executor is only no longer awaited, and writes   *)
(* its row when it ends.                                                   *)
(*                                                                         *)
(* An output is represented by the element it was computed from.           *)
(***************************************************************************)
EXTENDS Naturals, Sequences, FiniteSets

CONSTANTS
  Items,           \* what the source array may hold
  Sources,         \* the arrays the upstream stage may deliver
  NeedsKey,        \* elements whose execution needs an envKey
  Concurrency,     \* fanout.concurrency
  ElementRetries,  \* fanout.elementRetries
  MaxPasses,       \* bound: passes over the stage
  MaxCrashes,      \* bound: server crashes
  MaxRewinds,      \* bound: rewinds of the run, from inside
  MaxMigrations    \* bound: migrations and retries of the task, from outside

ASSUME FanoutAssumption ==
  /\ Sources # {} /\ Sources \subseteq Seq(Items)
  /\ NeedsKey \subseteq Items
  /\ Concurrency \in Nat \ {0}
  /\ ElementRetries \in Nat
  /\ MaxPasses \in Nat /\ MaxCrashes \in Nat /\ MaxRewinds \in Nat /\ MaxMigrations \in Nat

VARIABLES
  source,       \* the array on the source port
  keyStored,    \* the envKey has been provided
  rows,         \* element -> its stage_attempts, in attempt_idx order
  inFlight,     \* the rows, <<element, position>>, whose executeStage has not returned
  phase,        \* "idle", "running" (a pass is), "over"
  cursor,       \* nextIdx
  awaited,      \* element a worker is busy with -> retries left; its try has the newest row
  preserved,    \* preservedByIdx
  aggregated,   \* element -> output collected
  firstError,
  secretSeen,   \* secretPendingObserved
  interrupted,  \* interruptSignal.aborted
  result,       \* what the last pass returned
  events        \* passes, crashes, rewinds and migrations so far

vars == <<source, keyStored, rows, inFlight, phase, cursor, awaited, preserved,
          aggregated, firstError, secretSeen, interrupted, result, events>>

\* The indices the array may have, from 1.
Elements == UNION {DOMAIN s : s \in Sources}

Statuses == {"running", "success", "error", "secret_pending", "superseded"}
Row == [item : Items, status : Statuses]

IsMap(f, S) == DOMAIN f \subseteq Elements /\ \A i \in DOMAIN f : f[i] \in S

TypeOK ==
  /\ source \in Sources
  /\ keyStored \in BOOLEAN
  /\ rows \in [Elements -> Seq(Row)]
  /\ inFlight \subseteq Elements \X (Nat \ {0})
  /\ \A e \in inFlight : e[2] \in DOMAIN rows[e[1]]
  /\ phase \in {"idle", "running", "over"}
  /\ cursor \in Nat \ {0}
  /\ IsMap(awaited, 0..ElementRetries) /\ IsMap(preserved, Items) /\ IsMap(aggregated, Items)
  /\ firstError \in BOOLEAN /\ secretSeen \in BOOLEAN /\ interrupted \in BOOLEAN
  /\ result \in {"none", "success", "error", "secret_pending"}
  /\ events \in [passes : Nat, crashes : Nat, rewinds : Nat, migrations : Nat]

-----------------------------------------------------------------------------
Without(f, i) == [j \in DOMAIN f \ {i} |-> f[j]]
With(f, i, v) == [j \in DOMAIN f \cup {i} |-> IF j = i THEN v ELSE f[j]]

\* Every row in one of the states of from becomes to.
Marked(from, to) ==
  [i \in Elements |-> [k \in DOMAIN rows[i] |->
     IF rows[i][k].status \in from THEN [rows[i][k] EXCEPT !.status = to] ELSE rows[i][k]]]

Successes(i) == {k \in DOMAIN rows[i] : rows[i][k].status = "success"}

\* What a new pass does not run again: an index the array still has, by its newest success.
Preserved ==
  [i \in {j \in DOMAIN source : Successes(j) # {}} |->
     rows[i][CHOOSE k \in Successes(i) : \A q \in Successes(i) : q <= k].item]

Init ==
  /\ source \in Sources
  /\ keyStored = FALSE
  /\ rows = [i \in Elements |-> <<>>] /\ inFlight = {}
  /\ phase = "idle" /\ cursor = 1
  /\ awaited = <<>> /\ preserved = <<>> /\ aggregated = <<>>
  /\ firstError = FALSE /\ secretSeen = FALSE /\ interrupted = FALSE /\ result = "none"
  /\ events = [passes |-> 0, crashes |-> 0, rewinds |-> 0, migrations |-> 0]

\* The locals of a call, before the next one.
NoCall ==
  /\ phase' = "idle" /\ cursor' = 1
  /\ awaited' = <<>> /\ preserved' = <<>> /\ aggregated' = <<>>
  /\ firstError' = FALSE /\ secretSeen' = FALSE /\ interrupted' = FALSE /\ result' = "none"

\* The call, up to the point where the workers start.
Start ==
  /\ phase = "idle" /\ events.passes < MaxPasses
  /\ phase' = "running"
  /\ preserved' = Preserved
  /\ events' = [events EXCEPT !.passes = @ + 1]
  /\ UNCHANGED <<source, keyStored, rows, inFlight, cursor, awaited, aggregated,
                 firstError, secretSeen, interrupted, result>>

-----------------------------------------------------------------------------
(* Workers. *)

Stopped == firstError \/ secretSeen

\* A try opens its row at once: startAttempt is the executor's first statement.
Opened(rs, i) == [rs EXCEPT ![i] = Append(@, [item |-> source[i], status |-> "running"])]

\* A worker between two elements: at most Concurrency are busy.
WorkerTakes ==
  /\ phase = "running" /\ ~Stopped
  /\ cursor <= Len(source)
  /\ Cardinality(DOMAIN awaited) < Concurrency
  /\ cursor' = cursor + 1

\* An index that succeeded in an earlier pass.
Reuse ==
  /\ WorkerTakes
  /\ cursor \in DOMAIN preserved
  /\ aggregated' = With(aggregated, cursor, preserved[cursor])
  /\ UNCHANGED <<source, keyStored, rows, inFlight, phase, awaited, preserved,
                 firstError, secretSeen, interrupted, result, events>>

\* The interrupt came before the element began.
Bail ==
  /\ WorkerTakes
  /\ cursor \notin DOMAIN preserved /\ interrupted
  /\ firstError' = TRUE
  /\ UNCHANGED <<source, keyStored, rows, inFlight, phase, awaited, preserved,
                 aggregated, secretSeen, interrupted, result, events>>

Begin ==
  /\ WorkerTakes
  /\ cursor \notin DOMAIN preserved /\ ~interrupted
  /\ rows' = Opened(rows, cursor)
  /\ inFlight' = inFlight \cup {<<cursor, Len(rows[cursor]) + 1>>}
  /\ awaited' = With(awaited, cursor, ElementRetries)
  /\ UNCHANGED <<source, keyStored, phase, preserved, aggregated, firstError,
                 secretSeen, interrupted, result, events>>

\* A try failed; rs and flying are the rows and executors it leaves behind.
NextTry(i, rs, flying) ==
  \/ /\ awaited[i] > 0
     /\ rows' = Opened(rs, i)
     /\ inFlight' = flying \cup {<<i, Len(rs[i]) + 1>>}
     /\ awaited' = With(awaited, i, awaited[i] - 1)
     /\ UNCHANGED firstError
  \/ /\ awaited[i] = 0
     /\ rows' = rs /\ inFlight' = flying
     /\ awaited' = Without(awaited, i)
     /\ firstError' = TRUE

\* finishAttempt writes the status whatever the row says by then.
Closed(e, status) == [rows EXCEPT ![e[1]][e[2]].status = status]

\* The try of i the worker waits for; a timed-out one has a newer row after it, or no waiter.
TryOf(i) == <<i, Len(rows[i])>>
Awaited == {TryOf(i) : i \in DOMAIN awaited}

CanSucceed(e) == rows[e[1]][e[2]].item \in NeedsKey => keyStored

\* Mutant: outputs in the order they come.
CollectedInOrder(i) == With(aggregated, Cardinality(DOMAIN aggregated) + 1, rows[i][Len(rows[i])].item)
Collected(i) == With(aggregated, i, rows[i][Len(rows[i])].item)

TrySucceeds(i) ==
  /\ i \in DOMAIN awaited
  /\ TryOf(i) \in inFlight /\ CanSucceed(TryOf(i))
  /\ rows' = Closed(TryOf(i), "success")
  /\ inFlight' = inFlight \ {TryOf(i)}
  /\ aggregated' = Collected(i)
  /\ awaited' = Without(awaited, i)
  /\ UNCHANGED <<source, keyStored, phase, cursor, preserved, firstError,
                 secretSeen, interrupted, result, events>>

TryFails(i) ==
  /\ i \in DOMAIN awaited
  /\ TryOf(i) \in inFlight
  /\ NextTry(i, Closed(TryOf(i), "error"), inFlight \ {TryOf(i)})
  /\ UNCHANGED <<source, keyStored, phase, cursor, preserved, aggregated,
                 secretSeen, interrupted, result, events>>

\* A missing envKey is not retried.
TryPauses(i) ==
  /\ i \in DOMAIN awaited
  /\ TryOf(i) \in inFlight /\ ~CanSucceed(TryOf(i))
  /\ rows' = Closed(TryOf(i), "secret_pending")
  /\ inFlight' = inFlight \ {TryOf(i)}
  /\ secretSeen' = TRUE
  /\ awaited' = Without(awaited, i)
  /\ UNCHANGED <<source, keyStored, phase, cursor, preserved, aggregated,
                 firstError, interrupted, result, events>>

\* Mutant: the timeout leaves the row to the executor.
TimedOutOpen(i) == rows
TimedOut(i) ==
  [rows EXCEPT ![i] = [k \in DOMAIN @ |->
     IF @[k].status = "running" THEN [@[k] EXCEPT !.status = "error"] ELSE @[k]]]

\* Mutant: the timeout asks the executor to stop and waits for it.
TimeoutOnlyAborts(i) == i \in DOMAIN awaited /\ UNCHANGED vars

\* The timeout wins the race: the executor is left to itself.
TryTimesOut(i) ==
  /\ i \in DOMAIN awaited
  /\ NextTry(i, TimedOut(i), inFlight)
  /\ UNCHANGED <<source, keyStored, phase, cursor, preserved, aggregated,
                 secretSeen, interrupted, result, events>>

\* An executor nobody waits for ends, in this pass or after it.
LateEnd(e, status) ==
  /\ e \notin Awaited
  /\ (status = "success" => CanSucceed(e)) /\ (status = "secret_pending" => ~CanSucceed(e))
  /\ rows' = Closed(e, status)
  /\ inFlight' = inFlight \ {e}
  /\ UNCHANGED <<source, keyStored, phase, cursor, awaited, preserved, aggregated,
                 firstError, secretSeen, interrupted, result, events>>

\* Promise.all over the workers, then the order of the checks.
PassEnds ==
  /\ phase = "running" /\ DOMAIN awaited = {}
  /\ Stopped \/ cursor > Len(source)
  /\ phase' = "over"
  /\ result' = CASE firstError -> "error"
                 [] ~firstError /\ secretSeen -> "secret_pending"
                 [] OTHER -> "success"
  /\ UNCHANGED <<source, keyStored, rows, inFlight, cursor, awaited, preserved,
                 aggregated, firstError, secretSeen, interrupted, events>>

-----------------------------------------------------------------------------
(* What happens to the run around the pass. *)

Interrupt ==
  /\ phase = "running" /\ ~interrupted
  /\ interrupted' = TRUE
  /\ UNCHANGED <<source, keyStored, rows, inFlight, phase, cursor, awaited, preserved,
                 aggregated, firstError, secretSeen, result, events>>

\* The server dies; the boot reconciler supersedes the rows left running.
Crash ==
  /\ phase = "running" /\ events.crashes < MaxCrashes
  /\ rows' = Marked({"running"}, "superseded")
  /\ inFlight' = {}
  /\ NoCall
  /\ events' = [events EXCEPT !.crashes = @ + 1]
  /\ UNCHANGED <<source, keyStored>>

\* Migration and retry of a task spare successful elements.
Spared == Marked({"running", "error"}, "superseded")

\* provideTaskSecrets stores the key and resumes the task at this stage.
ProvideSecrets ==
  /\ result = "secret_pending"
  /\ keyStored' = TRUE
  /\ rows' = Spared
  /\ NoCall
  /\ UNCHANGED <<source, inFlight, events>>

\* The task is migrated, or retried from a stage, after its run has ended.
Migrate ==
  /\ phase = "over" /\ events.migrations < MaxMigrations
  /\ source' \in Sources
  /\ rows' = Spared
  /\ NoCall
  /\ events' = [events EXCEPT !.migrations = @ + 1]
  /\ UNCHANGED <<keyStored, inFlight>>

RewoundRows == Marked({"success"}, "superseded")

\* A rejected gate or a script's retry rewinds the run past this stage, when its pass is
\* over; a pass still at work would go on beside the next one.
Rewind ==
  /\ result \in {"success", "error"} /\ ~interrupted
  /\ events.rewinds < MaxRewinds
  /\ source' \in Sources
  /\ rows' = RewoundRows
  /\ NoCall
  /\ events' = [events EXCEPT !.rewinds = @ + 1]
  /\ UNCHANGED <<keyStored, inFlight>>

Next ==
  \/ Start \/ Reuse \/ Bail \/ Begin \/ PassEnds
  \/ \E i \in Elements : TrySucceeds(i) \/ TryFails(i) \/ TryPauses(i) \/ TryTimesOut(i)
  \/ \E e \in inFlight, status \in {"success", "error", "secret_pending"} : LateEnd(e, status)
  \/ Interrupt \/ Crash \/ ProvideSecrets \/ Migrate \/ Rewind

Spec == Init /\ [][Next]_vars

\* Microtasks run, and the timer of a try that hangs fires; executors owe nothing.
Fairness ==
  /\ WF_vars(Reuse \/ Bail \/ Begin \/ PassEnds)
  /\ \A i \in Elements : WF_vars(TryTimesOut(i))

FairSpec == Spec /\ Fairness

-----------------------------------------------------------------------------
(* What a fanout stage promises. *)

\* runner-fanout.ts:118 and :414: outputs are assigned by index, in the order
\* of the input, and a stage that succeeds has one per element, each computed
\* from the element the source holds now: whatever crashed, timed out, was
\* tried again, paused for a secret or reused on the way.
AggregateMatchesSource == result = "success" => aggregated = source

\* runner-fanout.ts:337: a timed-out try is closed by the pool, so that once
\* the pass is over no row of an element is left running, although executors
\* nobody waits for may still be.
NothingLeftRunning ==
  phase # "running" => \A i \in Elements : \A k \in DOMAIN rows[i] : rows[i][k].status # "running"

\* runner-fanout.ts:182 and Bug 81: after the first error, the first pause or
\* an interrupt, no element begins that was not already being tried.
NoNewElementAfterStop ==
  [][phase = "running" /\ (firstError \/ secretSeen \/ interrupted) =>
       DOMAIN awaited' \subseteq DOMAIN awaited]_vars

\* runner-fanout.ts:186: if any element pauses for a secret, the pass returns
\* the pause, so that the task can be resumed once the secret is there.
SecretPauses ==
  phase = "over" /\ secretSeen => result = "secret_pending"

\* runner-fanout.ts:166: a wedged executor does not keep the stage from
\* finishing: every pass comes to an end, by its outcome or the server's.
PassEndsEventually == phase = "running" ~> phase # "running"
=============================================================================
