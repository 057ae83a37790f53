---------------------------- MODULE EventStream ----------------------------
(***************************************************************************)
(* The event stream of one task: the in-memory broadcaster with its replay *)
(* ring, the SSE streams clients open and reopen, and the two MCP tools    *)
(* that block on it, wait_for_task_event and wait_pipeline_result.  What   *)
(* the runner publishes is abstracted to the order of gates, stage errors  *)
(* and ends of runs.  Every action is one callback of the server.          *)
(***************************************************************************)
EXTENDS Integers, FiniteSets

CONSTANTS
  Clients,       \* readers of the SSE stream
  Resuming,      \* those that send Last-Event-ID when they reconnect
  Drivers,       \* callers of wait_for_task_event
  Callers,       \* callers of wait_pipeline_result
  Wanted,        \* [Drivers -> SUBSET Kinds]: the events a driver waits for
  HistoryLimit,  \* size of the ring
  MayLackSecret, \* whether a stage of the pipeline can find its secret missing
  MaxEvents, MaxCalls, MaxActive, MaxCrashes
                 \* bounds: events, calls of a subscriber, subscribers in use, restarts

Subscribers == Clients \cup Drivers \cup Callers

Kinds == {"gate_opened", "stage_error", "run_final", "other"}

ASSUME SubscribersAssumption ==
  /\ Resuming \subseteq Clients
  /\ Clients \cap Drivers = {} /\ Clients \cap Callers = {} /\ Drivers \cap Callers = {}
ASSUME WantedAssumption == Wanted \in [Drivers -> SUBSET (Kinds \ {"other"})]
ASSUME LimitAssumption == HistoryLimit \in Nat

VARIABLES
  history,    \* the ring
  nextSeq,    \* the number the next event gets
  listeners,  \* the broadcaster's set: <<subscriber, which of its calls>>
  calls,      \* how often each subscriber subscribed
  open,       \* subscribers with a connection or a call under way
  last,       \* clients: the last id received; drivers: the sinceSeq of the next call
  wire,       \* events on their way to a client
  told,       \* the events each subscriber was given
  verdict,    \* what wait_pipeline_result returned
  task,       \* what the runner is doing
  published,  \* how many events there ever were
  lifetime    \* which start of the server this is

bus == <<history, nextSeq, listeners, published, open, last, wire, told, verdict>>
vars == <<bus, calls, task, lifetime>>

\* `id` numbers the events of the task; `seq` is what the broadcaster assigned.
Events == [id : Nat, seq : Nat, kind : Kinds, ok : BOOLEAN]

Verdicts == {"none", "done", "error", "gate_pending", "running", "secret_pending"}
Tasks == [state : {"running", "paused", "completed", "failed"},
          broken : BOOLEAN, missing : BOOLEAN, gate : BOOLEAN]

\* Types of all variables.
TypeOK ==
  /\ history \subseteq Events
  /\ nextSeq \in Nat /\ published \in Nat /\ lifetime \in Nat
  /\ listeners \subseteq Subscribers \X Nat
  /\ calls \in [Subscribers -> Nat]
  /\ open \subseteq Subscribers
  /\ last \in [Subscribers -> Nat]
  /\ wire \in [Clients -> SUBSET Events]
  /\ told \in [Subscribers -> SUBSET Nat]
  /\ verdict \in [Callers -> Verdicts]
  /\ task \in Tasks

Init ==
  /\ history = {} /\ nextSeq = 1 /\ listeners = {} /\ published = 0 /\ lifetime = 1
  /\ calls = [s \in Subscribers |-> 0]
  /\ open = {}
  /\ last = [s \in Subscribers |-> 0]
  /\ wire = [c \in Clients |-> {}]
  /\ told = [s \in Subscribers |-> {}]
  /\ verdict = [w \in Callers |-> "none"]
  /\ task = [state |-> "running", broken |-> FALSE, missing |-> FALSE, gate |-> FALSE]

-----------------------------------------------------------------------------
\* The newest HistoryLimit events of h, the newest being seq.
Trimmed(h, seq) == {e \in h : e.seq > seq - HistoryLimit}

\* Mutant: the last acknowledged event is replayed again.
ReplayInclusive(seq) == {e \in history : e.seq >= seq}

\* What subscribe replays to a listener that has everything up to seq.
Replay(seq) == {e \in history : e.seq > seq}

\* Mutant: the newest event comes first.
IsNewest(e, S) == \A f \in S : f.seq <= e.seq

\* e comes first among S.
IsFirst(e, S) == \A f \in S : e.seq <= f.seq

\* Subscribers a dispatch reaches.
Hearing == {s \in open : <<s, calls[s]>> \in listeners}

\* Mutant: unsubscribing one connection of a client removes any of them.
StaleOfClient == {l \in listeners : l[1] \in Clients /\ \E m \in listeners : m[1] = l[1] /\ m # l}

\* Listeners of connections that are gone: a write to them may fail.
Stale == {l \in listeners : l[1] \in Clients /\ ~(l[1] \in open /\ calls[l[1]] = l[2])}

\* Events that settle wait_pipeline_result; a gate only while its row is unanswered.
Decides(e, gate) ==
  \/ e.kind \in {"stage_error", "run_final"}
  \/ e.kind = "gate_opened" /\ gate

Verdict(e) ==
  IF e.kind = "gate_opened" THEN "gate_pending"
  ELSE IF e.kind = "run_final" /\ e.ok THEN "done" ELSE "error"

\* Whether e ends the wait of s.
Matches(s, e, gate) ==
  IF s \in Drivers THEN e.kind \in Wanted[s] /\ e.seq > last[s] ELSE Decides(e, gate)

\* The wait of each s in S returns e.
Return(S, e) ==
  /\ told' = [s \in Subscribers |-> IF s \in S THEN told[s] \cup {e.id} ELSE told[s]]
  /\ last' = [s \in Subscribers |-> IF s \in S \cap Drivers THEN e.seq ELSE last[s]]
  /\ verdict' = [w \in Callers |-> IF w \in S THEN Verdict(e) ELSE verdict[w]]

\* publish: stamp, append, trim, and call every listener.  A wait it settles
\* unsubscribes, and so does a stream whose write fails.
Publish(kind, ok, gate) ==
  LET e == [id |-> published + 1, seq |-> nextSeq, kind |-> kind, ok |-> ok]
      settled == {s \in Hearing \ Clients : Matches(s, e, gate)}
  IN /\ published < MaxEvents
     /\ published' = published + 1
     /\ nextSeq' = nextSeq + 1
     /\ history' = Trimmed(history \cup {e}, nextSeq)
     /\ wire' = [c \in Clients |-> IF c \in Hearing THEN wire[c] \cup {e} ELSE wire[c]]
     /\ Return(settled, e)
     /\ open' = open \ settled
     /\ \E gone \in SUBSET Stale :
          listeners' = (listeners \ gone) \ {<<s, calls[s]>> : s \in settled}
     /\ UNCHANGED <<calls, lifetime>>

-----------------------------------------------------------------------------
\* The runner's side: what it publishes, and when.
Running == task.state = "running"

\* Every event nobody waits for: starts and ends of stages, ports, costs.  It may
\* come after the end: executors outlive their run.
Progress == Publish("other", TRUE, task.gate) /\ UNCHANGED task

OpenGate ==
  /\ Running /\ ~task.gate
  /\ task' = [task EXCEPT !.gate = TRUE]
  /\ Publish("gate_opened", TRUE, TRUE)

\* A rejection rewinds, and stages that had failed run again.  One gate at a time;
\* what the answer publishes is Progress.
AnswerGate ==
  /\ Running /\ task.gate
  /\ \E rewind \in BOOLEAN : task' = [task EXCEPT !.gate = FALSE, !.broken = @ /\ ~rewind]
  /\ UNCHANGED <<bus, calls, lifetime>>

StageError ==
  /\ Running
  /\ task' = [task EXCEPT !.broken = TRUE]
  /\ Publish("stage_error", FALSE, task.gate)

\* A stage that lacks its secret is failed too, to bring the run to its end.
SecretMissing ==
  /\ Running /\ MayLackSecret
  /\ task' = [task EXCEPT !.broken = TRUE, !.missing = TRUE]
  /\ Publish("stage_error", FALSE, task.gate)

\* The end of a run.  The runner publishes it, or, if it times out or throws, the catch
\* of startPipelineRun does, also for a run that lacks a secret.
RunFinal ==
  /\ Running
  /\ \E ok \in BOOLEAN :
       /\ ok => ~task.broken /\ ~task.gate /\ ~task.missing
       /\ task' = [task EXCEPT !.state = IF ok THEN "completed" ELSE "failed"]
       /\ Publish("run_final", ok, task.gate)

\* A run that waits for a secret ends without a word.
Pause ==
  /\ Running /\ task.missing
  /\ task' = [task EXCEPT !.state = "paused"]
  /\ UNCHANGED <<bus, calls, lifetime>>

\* provide_task_secrets: the paused task is retried from the stage that lacked one.
ProvideSecrets ==
  /\ task.state = "paused"
  /\ task' = [state |-> "running", broken |-> FALSE, missing |-> FALSE, gate |-> FALSE]
  /\ UNCHANGED <<bus, calls, lifetime>>

-----------------------------------------------------------------------------
\* subscribe adds the listener after the replay.
Listen(s) ==
  /\ s \notin open
  /\ calls[s] < MaxCalls /\ Cardinality({s} \cup {x \in Subscribers : calls[x] > 0}) <= MaxActive
  /\ calls' = [calls EXCEPT ![s] = @ + 1]

\* An SSE stream: the replay is queued on the connection before anything live.
Connect(c) ==
  /\ Listen(c)
  /\ listeners' = listeners \cup {<<c, calls[c] + 1>>}
  /\ open' = open \cup {c}
  /\ wire' = [wire EXCEPT ![c] = Replay(IF c \in Resuming THEN last[c] ELSE 0)]
  /\ UNCHANGED <<history, nextSeq, published, last, told, verdict, task, lifetime>>

\* Frames of one connection arrive in order.
Receive(c) ==
  /\ c \in open
  /\ \E e \in wire[c] :
       /\ IsFirst(e, wire[c])
       /\ wire' = [wire EXCEPT ![c] = @ \ {e}]
       /\ last' = [last EXCEPT ![c] = e.seq]
       /\ told' = [told EXCEPT ![c] = @ \cup {e.id}]
  /\ UNCHANGED <<history, nextSeq, published, listeners, open, verdict, calls, task, lifetime>>

\* The connection breaks; what was in flight is lost, and the server does not know yet.
Disconnect(c) ==
  /\ c \in open
  /\ open' = open \ {c}
  /\ wire' = [wire EXCEPT ![c] = {}]
  /\ UNCHANGED <<history, nextSeq, published, listeners, last, told, verdict, calls, task,
                 lifetime>>

\* cancel() of the stream whose reader is gone.
Cancel(l) ==
  /\ listeners' = listeners \ {l}
  /\ UNCHANGED <<history, nextSeq, published, open, last, wire, told, verdict, calls, task,
                 lifetime>>

\* The caller's wait replays the whole ring, the driver's what is newer than
\* sinceSeq; the first event that matches settles it on the spot.  Only
\* wait_pipeline_result then removes the listener subscribe is about to add.
Wait(s) ==
  /\ Listen(s)
  /\ LET matching == {e \in Replay(IF s \in Drivers THEN last[s] ELSE 0) :
                        Matches(s, e, task.gate)}
     IN \/ /\ matching = {}
           /\ open' = open \cup {s}
           /\ listeners' = listeners \cup {<<s, calls[s] + 1>>}
           /\ UNCHANGED <<told, last, verdict>>
        \/ /\ \E e \in matching : IsFirst(e, matching) /\ Return({s}, e)
           /\ listeners' = IF s \in Drivers THEN listeners \cup {<<s, calls[s] + 1>>}
                           ELSE listeners
           /\ UNCHANGED open
  /\ UNCHANGED <<history, nextSeq, published, wire, task, lifetime>>

\* timeoutMs: the wait returns without an event; the caller is told why.
Timeout(s) ==
  /\ s \in open
  /\ open' = open \ {s}
  /\ listeners' = listeners \ {<<s, calls[s]>>}
  /\ verdict' = [w \in Callers |-> IF w # s THEN verdict[w]
                                   ELSE IF task.missing THEN "secret_pending" ELSE "running"]
  /\ UNCHANGED <<history, nextSeq, published, last, wire, told, calls, task, lifetime>>

\* The server restarts with an empty broadcaster; clients and drivers keep their
\* positions, and a run that was under way is resumed.
Restart ==
  /\ lifetime <= MaxCrashes
  /\ lifetime' = lifetime + 1
  /\ history' = {} /\ nextSeq' = 1 /\ listeners' = {}
  /\ open' = {}
  /\ wire' = [c \in Clients |-> {}]
  /\ task' = IF Running /\ ~task.missing
               THEN [task EXCEPT !.broken = FALSE, !.gate = FALSE]
               ELSE [task EXCEPT !.state = IF task.missing THEN "paused" ELSE @]
  /\ UNCHANGED <<published, last, told, verdict, calls>>

Next ==
  \/ Progress \/ OpenGate \/ AnswerGate \/ StageError \/ SecretMissing
  \/ RunFinal \/ Pause \/ ProvideSecrets
  \/ \E c \in Clients : Connect(c) \/ Receive(c) \/ Disconnect(c)
  \/ \E l \in Stale : Cancel(l)
  \/ \E s \in Drivers \cup Callers : Wait(s) \/ Timeout(s)
  \/ Restart

Spec == Init /\ [][Next]_vars

-----------------------------------------------------------------------------
(***************************************************************************)
(* Properties.                                                             *)
(***************************************************************************)

\* A client that sends Last-Event-ID is given every event at most once and in
\* the order of publication, over lost connections and restarts: whatever
\* is in flight to it is newer than all it received.
OnlyNewsInFlight ==
  \A c \in Resuming : \A e \in wire[c] : \A i \in told[c] : i < e.id

\* No connected client loses an event the ring still holds: it has it, or it is
\* in flight.  For a resuming client this is only so while the server lives.
NothingRetainedIsLost ==
  \A c \in Clients \cap open :
    lifetime = 1 \/ c \notin Resuming
      => \A e \in history : e.id \in told[c] \/ e \in wire[c]

\* A wait never sits on an event it is for: while a driver waits, it was told every
\* such event in the ring, by this wait or an earlier one; while a caller waits,
\* nothing in the ring would settle it now: no end, no failure, no open gate.
NobodyWaitsInVain ==
  /\ lifetime = 1 =>
       \A d \in Drivers \cap open : \A e \in history : e.kind \in Wanted[d] => e.id \in told[d]
  /\ \A w \in Callers \cap open : \A e \in history : ~Decides(e, task.gate)

\* pg-entry.ts on stage_error: "always means the stage has exhausted retries [...]
\* treat as immediate terminal failure": a task whose result was returned as an
\* error does not complete.
ErrorIsFinal == task.state = "completed" => \A w \in Callers : verdict[w] # "error"
=============================================================================
