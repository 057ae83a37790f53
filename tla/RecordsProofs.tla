---------------------------- MODULE RecordsProofs ----------------------------
(***************************************************************************)
(* The rows tasks leave, for any pipeline, any tasks and any number of     *)
(* outages, replays, writes from outside and prunes: they keep their types,*)
(* no prune takes a row that a run at work stands on, and the status of a  *)
(* task, told from them alone, is true of its run.                         *)
(***************************************************************************)
EXTENDS RecordsProperties, WellFoundedInduction, TLAPS

USE RecordsAssumption

-----------------------------------------------------------------------------
(* The inductive invariant, in named parts. *)

\* No attempt has an index higher than the number of attempts there ever were, and
\* an element's attempt names its element.
AttemptsOK ==
  /\ issued \in Nat /\ DOMAIN attempts \subseteq 1..issued
  /\ \A a \in DOMAIN attempts :
       attempts[a] \in Rows /\ attempts[a].idx <= issued /\ (IsElement(a) => attempts[a].elem # 0)

PortsOK ==
  /\ \E n \in Nat : DOMAIN ports \subseteq 1..n
  /\ \A k \in DOMAIN ports : ports[k] \in [attempt : DOMAIN attempts, outside : BOOLEAN]

QuestionsOK ==
  /\ gates \subseteq [attempt : DOMAIN attempts, open : BOOLEAN]
  /\ secrets \subseteq [attempt : DOMAIN attempts, open : BOOLEAN]

VerdictsOK == finals \in [Tasks -> {"none", "completed", "failed", "cancelled"}]

ServerOK ==
  /\ keys \subseteq Tasks
  /\ executors \subseteq 1..issued /\ recent \subseteq 1..issued
  /\ events \in [Kinds -> Nat]

Powered == up \in BOOLEAN

RunsOK == runs \in [Tasks -> Runs]

\* What the run r of task t holds and waits for are attempts of t.
Holds(t, r) ==
  /\ r.at = 0 \/ r.at \in Of(t)
  /\ \A s \in Stages : r.value[s] = 0 \/ r.value[s] \in Of(t)

\* A run waits for a written attempt only if it is an element's, whose end it
\* needs to hear of.
Awaits(r) == r.at \in 0..issued /\ (r.on /\ Written(r.at) => IsElement(r.at))

Held    == \A t \in Tasks : finals[t] = "none" => Holds(t, runs[t])
Awaited == \A t \in Tasks : Awaits(runs[t])

Tables == AttemptsOK /\ PortsOK /\ QuestionsOK /\ VerdictsOK /\ ServerOK
RecordsInv == Tables /\ RunsOK /\ Held /\ Awaited

-----------------------------------------------------------------------------
(* Greatest and least elements. *)

LEMMA Least ==
  ASSUME NEW S \in SUBSET Nat, S # {}
  PROVE  Min(S) \in S /\ \A y \in S : Min(S) <= y
<1>1. PICK x \in S : \A y \in S : ~(<<y, x>> \in OpToRel(<, Nat))
  BY NatLessThanWellFounded, WFMin
<1>2. ASSUME NEW y \in S PROVE x <= y
  <2>1. ~(y < x)
    BY <1>1 DEF OpToRel
  <2>2. QED
    BY <2>1
<1>3. QED
  BY <1>2 DEF Min

LEMMA Greatest ==
  ASSUME NEW n \in Nat, NEW S \in SUBSET (0..n), S # {}
  PROVE  Max(S) \in S /\ \A y \in S : y <= Max(S)
<1> DEFINE T == {m \in Nat : \E k \in S : m = n - k}
<1>1. T # {} /\ T \subseteq Nat
  <2>1. PICK k \in S : TRUE
    OBVIOUS
  <2>2. n - k \in T
    BY <2>1
  <2>3. QED
    BY <2>2
<1>2. Min(T) \in T /\ \A y \in T : Min(T) <= y
  BY <1>1, Least
<1>3. PICK k \in S : Min(T) = n - k
  BY <1>2
<1>4. ASSUME NEW q \in S PROVE q <= k
  <2>1. n - q \in T
    OBVIOUS
  <2>2. Min(T) <= n - q
    BY <1>2, <2>1
  <2>3. QED
    BY <1>3, <2>2
<1>5. QED
  BY <1>4 DEF Max

-----------------------------------------------------------------------------
(* Rows. *)

LEMMA RowIs ==
  ASSUME AttemptsOK, NEW t \in Tasks, NEW s \in Stages, NEW read \in Nat,
         NEW kind \in {"regular", "fanout_element", "fanout_aggregate", "replay", "dry_run"},
         NEW status \in {"running", "success", "error", "secret_pending", "superseded"}
  PROVE  LET r == Row(t, s, kind, status, read) IN
         /\ r \in Rows /\ r.idx <= New
         /\ r.task = t /\ r.stage = s /\ r.kind = kind /\ r.elem = 0
<1> DEFINE I == {0} \cup {attempts[a].idx : a \in OfStage(t, s)}
<1>1. \A a \in OfStage(t, s) : attempts[a].idx \in 0..issued
  BY DEF AttemptsOK, OfStage, Of, Rows
<1>2. I \in SUBSET (0..issued) /\ I # {}
  BY <1>1 DEF AttemptsOK
<1>3. Max(I) \in 0..issued
  BY <1>2, Greatest DEF AttemptsOK
<1>4. Row(t, s, kind, status, read).idx = 1 + Max(I)
  BY DEF Row
<1>5. Row(t, s, kind, status, read).idx \in Nat \ {0} /\ Row(t, s, kind, status, read).idx <= New
  BY <1>3, <1>4 DEF AttemptsOK, New
<1>6. QED
  BY <1>5 DEF Row, Rows

LEMMA RowPends ==
  ASSUME NEW q \in Rows
  PROVE  LET p == [q EXCEPT !.status = "secret_pending"]
         IN /\ p \in Rows /\ p.idx = q.idx /\ p.task = q.task /\ p.stage = q.stage
            /\ p.kind = q.kind /\ p.elem = q.elem
BY DEF Rows

LEMMA RowRuns ==
  ASSUME NEW q \in Rows
  PROVE  LET p == [q EXCEPT !.status = "running"]
         IN /\ p \in Rows /\ p.idx = q.idx /\ p.task = q.task /\ p.stage = q.stage
            /\ p.kind = q.kind /\ p.elem = q.elem
BY DEF Rows

LEMMA RowOfElement ==
  ASSUME NEW q \in Rows, NEW e \in 0..Elements
  PROVE  LET p == [q EXCEPT !.elem = e]
         IN /\ p \in Rows /\ p.idx = q.idx /\ p.task = q.task /\ p.stage = q.stage
            /\ p.kind = q.kind /\ p.elem = e
BY DEF Rows

\* A new row, and every other as it was.
LEMMA StartedIs ==
  ASSUME AttemptsOK, NEW row \in Rows, row.idx <= New,
         row.kind = "fanout_element" => row.elem # 0,
         attempts' = Put(attempts, New, row), issued' = New
  PROVE  /\ AttemptsOK'
         /\ New \notin DOMAIN attempts /\ New # 0
         /\ DOMAIN attempts' = DOMAIN attempts \cup {New}
         /\ attempts'[New] = row
         /\ \A a \in DOMAIN attempts : attempts'[a] = attempts[a]
<1>1. New \notin DOMAIN attempts /\ New \in Nat /\ New > issued
  BY DEF AttemptsOK, New
<1>2. /\ DOMAIN attempts' = DOMAIN attempts \cup {New}
      /\ attempts'[New] = row
      /\ \A a \in DOMAIN attempts : attempts'[a] = attempts[a]
  BY <1>1 DEF Put
<1>3. issued' = issued + 1 /\ issued \in Nat
  BY DEF AttemptsOK, New
<1>4. DOMAIN attempts' \subseteq 1..issued'
  BY <1>2, <1>3 DEF AttemptsOK, New
<1>5. ASSUME NEW a \in DOMAIN attempts'
      PROVE  attempts'[a] \in Rows /\ attempts'[a].idx <= issued' /\ (IsElement(a)' => attempts'[a].elem # 0)
  <2>1. CASE a = New
    BY <1>2, <2>1 DEF IsElement
  <2>2. CASE a \in DOMAIN attempts
    BY <1>2, <1>3, <2>2 DEF AttemptsOK, IsElement, Rows
  <2>3. QED
    BY <1>2, <2>1, <2>2
<1>6. QED
  BY <1>1, <1>2, <1>3, <1>4, <1>5 DEF AttemptsOK

\* The attempts are the ones they were, up to their statuses.
Restated ==
  /\ DOMAIN attempts' = DOMAIN attempts
  /\ \A a \in DOMAIN attempts : \E st \in {"running", "success", "error", "secret_pending", "superseded"} :
       attempts'[a] = [attempts[a] EXCEPT !.status = st]

\* Nothing an attempt is known by ever changes.
Grown ==
  /\ DOMAIN attempts \subseteq DOMAIN attempts'
  /\ \A a \in DOMAIN attempts :
       /\ attempts'[a].task = attempts[a].task /\ attempts'[a].stage = attempts[a].stage
       /\ attempts'[a].kind = attempts[a].kind

LEMMA RestatedIs ==
  ASSUME AttemptsOK, Restated, issued' = issued
  PROVE  AttemptsOK' /\ Grown
<1>1. ASSUME NEW a \in DOMAIN attempts
      PROVE  /\ attempts'[a] \in Rows
             /\ attempts'[a].task = attempts[a].task /\ attempts'[a].stage = attempts[a].stage
             /\ attempts'[a].kind = attempts[a].kind /\ attempts'[a].elem = attempts[a].elem
             /\ attempts'[a].idx = attempts[a].idx
  <2>1. PICK st \in {"running", "success", "error", "secret_pending", "superseded"} :
          attempts'[a] = [attempts[a] EXCEPT !.status = st]
    BY DEF Restated
  <2>2. attempts[a] \in Rows
    BY DEF AttemptsOK
  <2>3. QED
    BY <2>1, <2>2 DEF Rows
<1>2. QED
  BY <1>1 DEF AttemptsOK, Restated, Grown, IsElement

LEMMA OneRestated ==
  ASSUME AttemptsOK, NEW a \in DOMAIN attempts,
         NEW st \in {"running", "success", "error", "secret_pending", "superseded"},
         attempts' = [attempts EXCEPT ![a].status = st]
  PROVE  Restated
<1>1. ASSUME NEW b \in DOMAIN attempts
      PROVE  \E x \in {"running", "success", "error", "secret_pending", "superseded"} :
               attempts'[b] = [attempts[b] EXCEPT !.status = x]
  <2>1. CASE b = a
    BY <2>1
  <2>2. CASE b # a
    <3>1. attempts[b] \in Rows /\ attempts'[b] = attempts[b]
      BY <2>2 DEF AttemptsOK
    <3>2. attempts[b] = [attempts[b] EXCEPT !.status = attempts[b].status]
      BY <3>1 DEF Rows
    <3>3. QED
      BY <3>1, <3>2 DEF Rows
  <2>3. QED
    BY <2>1, <2>2
<1>2. QED
  BY <1>1 DEF Restated

LEMMA SomeRestated ==
  ASSUME AttemptsOK, NEW as,
         attempts' = [a \in DOMAIN attempts |->
           IF a \in as THEN [attempts[a] EXCEPT !.status = "superseded"] ELSE attempts[a]]
  PROVE  Restated
<1>1. ASSUME NEW b \in DOMAIN attempts
      PROVE  \E x \in {"running", "success", "error", "secret_pending", "superseded"} :
               attempts'[b] = [attempts[b] EXCEPT !.status = x]
  <2>1. CASE b \in as
    BY <2>1
  <2>2. CASE b \notin as
    <3>1. attempts[b] \in Rows /\ attempts'[b] = attempts[b]
      BY <2>2 DEF AttemptsOK
    <3>2. attempts[b] = [attempts[b] EXCEPT !.status = attempts[b].status]
      BY <3>1 DEF Rows
    <3>3. QED
      BY <3>1, <3>2 DEF Rows
  <2>3. QED
    BY <2>1, <2>2
<1>2. QED
  BY <1>1 DEF Restated

LEMMA OfGrows ==
  ASSUME Grown
  PROVE  /\ \A t : Of(t) \subseteq Of(t)'
         /\ \A a \in DOMAIN attempts : IsElement(a)' <=> IsElement(a)
BY DEF Grown, Of, IsElement

\* Written(a) after the step.
WrittenAfter(a) == \E k \in DOMAIN ports' : ports'[k] = [attempt |-> a, outside |-> FALSE]

LEMMA StoredIs ==
  ASSUME PortsOK, DOMAIN attempts \subseteq DOMAIN attempts',
         NEW w \in [attempt : DOMAIN attempts', outside : BOOLEAN], Store(w)
  PROVE  /\ PortsOK'
         /\ \A a : WrittenAfter(a) => Written(a) \/ w = [attempt |-> a, outside |-> FALSE]
<1> DEFINE k == 1 + Max({0} \cup DOMAIN ports)
<1>1. PICK n \in Nat : DOMAIN ports \subseteq 1..n
  BY DEF PortsOK
<1>2. Max({0} \cup DOMAIN ports) \in 0..n
  <2>1. {0} \cup DOMAIN ports \in SUBSET (0..n)
    BY <1>1
  <2>2. QED
    BY <2>1, Greatest
<1>3. k \in 1..(n + 1)
  BY <1>2
<1> HIDE DEF k
<1>4. ports' = Put(ports, k, w)
  BY DEF Store, k
<1>5. DOMAIN ports' = DOMAIN ports \cup {k} /\ \A j \in DOMAIN ports' : ports'[j] = w \/ (j \in DOMAIN ports /\ ports'[j] = ports[j])
  BY <1>4 DEF Put
<1>6. DOMAIN ports' \subseteq 1..(n + 1)
  BY <1>1, <1>3, <1>5
<1>7. \A j \in DOMAIN ports' : ports'[j] \in [attempt : DOMAIN attempts', outside : BOOLEAN]
  BY <1>5 DEF PortsOK
<1>8. PortsOK'
  BY <1>6, <1>7 DEF PortsOK
<1>9. ASSUME NEW a, WrittenAfter(a) PROVE Written(a) \/ w = [attempt |-> a, outside |-> FALSE]
  BY <1>5, <1>9 DEF Written, WrittenAfter
<1>10. QED
  BY <1>8, <1>9

LEMMA PortsKept ==
  ASSUME PortsOK, DOMAIN attempts \subseteq DOMAIN attempts', ports' = ports
  PROVE  PortsOK' /\ \A a : WrittenAfter(a) => Written(a)
BY DEF PortsOK, Written, WrittenAfter

LEMMA QuestionsKept ==
  ASSUME QuestionsOK, DOMAIN attempts \subseteq DOMAIN attempts', gates' = gates, secrets' = secrets
  PROVE  QuestionsOK'
BY DEF QuestionsOK

Questions(D) == [attempt : D, open : BOOLEAN]

LEMMA QuestionsGrow ==
  ASSUME NEW D, NEW E, D \subseteq E, NEW Q \in SUBSET Questions(D), NEW a \in E
  PROVE  Q \subseteq Questions(E) /\ Q \cup {[attempt |-> a, open |-> TRUE]} \subseteq Questions(E)
<1>1. Q \subseteq Questions(E)
  BY DEF Questions
<1>2. [attempt |-> a, open |-> TRUE] \in Questions(E)
  BY DEF Questions
<1>3. QED
  BY <1>1, <1>2

\* A new attempt asks a person something.
Asked(before, after, a) == after = before \/ after = before \cup {[attempt |-> a, open |-> TRUE]}

LEMMA QuestionsAsked ==
  ASSUME QuestionsOK, NEW a, DOMAIN attempts' = DOMAIN attempts \cup {a},
         Asked(gates, gates', a), Asked(secrets, secrets', a)
  PROVE  QuestionsOK'
<1>1. gates \in SUBSET Questions(DOMAIN attempts) /\ secrets \in SUBSET Questions(DOMAIN attempts)
  BY DEF QuestionsOK, Questions
<1>2. DOMAIN attempts \subseteq DOMAIN attempts' /\ a \in DOMAIN attempts'
  OBVIOUS
<1>3. gates' \subseteq Questions(DOMAIN attempts')
  BY <1>1, <1>2, QuestionsGrow DEF Asked
<1>4. secrets' \subseteq Questions(DOMAIN attempts')
  BY <1>1, <1>2, QuestionsGrow DEF Asked
<1>5. QED
  BY <1>3, <1>4 DEF QuestionsOK, Questions

\* An attempt with a port is in the database.
LEMMA WrittenIsThere ==
  ASSUME PortsOK, NEW a, Written(a)
  PROVE  a \in DOMAIN attempts
BY DEF PortsOK, Written

-----------------------------------------------------------------------------
(* Runs. *)

\* r is the run q with another at and another value.
Run(r, q, at, value) == r \in Runs /\ (r.on => q.on) /\ r.at = at /\ r.value = value

LEMMA RunIs ==
  ASSUME NEW r \in Runs
  PROVE  r.at \in Nat /\ r.value \in [Stages -> Nat] /\ r.elems \subseteq 1..Elements
BY DEF Runs

LEMMA RunWaits ==
  ASSUME NEW r \in Runs, NEW n \in Nat
  PROVE  Run([r EXCEPT !.at = n], r, n, r.value)
BY DEF Runs, Run

LEMMA RunPauses ==
  ASSUME NEW r \in Runs
  PROVE  Run([r EXCEPT !.paused = TRUE], r, r.at, r.value)
BY DEF Runs, Run

LEMMA RunFails ==
  ASSUME NEW r \in Runs
  PROVE  Run([r EXCEPT !.failed = TRUE], r, r.at, r.value)
BY DEF Runs, Run

LEMMA RunIsInterrupted ==
  ASSUME NEW r \in Runs, NEW b \in BOOLEAN
  PROVE  Run([r EXCEPT !.interrupted = b], r, r.at, r.value)
BY DEF Runs, Run

LEMMA RunPasses ==
  ASSUME NEW r \in Runs, NEW E \in SUBSET (1..Elements)
  PROVE  Run([r EXCEPT !.pass = TRUE, !.elems = E], r, r.at, r.value)
BY DEF Runs, Run

LEMMA RunCollects ==
  ASSUME NEW r \in Runs, NEW E \in SUBSET (1..Elements)
  PROVE  Run([r EXCEPT !.at = 0, !.elems = E], r, 0, r.value)
BY DEF Runs, Run

LEMMA RunTakes ==
  ASSUME NEW r \in Runs, NEW n \in Nat, NEW s \in Stages
  PROVE  Run([r EXCEPT !.value[s] = n, !.at = 0], r, 0, [r.value EXCEPT ![s] = n])
BY DEF Runs, Run

LEMMA RunAggregates ==
  ASSUME NEW r \in Runs, NEW n \in Nat, NEW s \in Stages
  PROVE  Run([r EXCEPT !.value[s] = n, !.pass = FALSE, !.elems = {}], r, r.at, [r.value EXCEPT ![s] = n])
BY DEF Runs, Run

LEMMA RunHolds ==
  ASSUME NEW r \in Runs, NEW v \in [Stages -> Nat]
  PROVE  LET q == [r EXCEPT !.value = v] IN q \in Runs /\ q.at = r.at /\ q.value = v
BY DEF Runs

LEMMA RunStarts ==
  ASSUME NEW r \in Runs
  PROVE  LET q == [r EXCEPT !.on = TRUE] IN q \in Runs /\ q.at = r.at /\ q.value = r.value
BY DEF Runs

LEMMA RunBegins ==
  ASSUME NEW r \in Runs, NEW v \in [Stages -> Nat]
  PROVE  LET q == [r EXCEPT !.on = TRUE, !.value = v] IN q \in Runs /\ q.at = r.at /\ q.value = v
BY DEF Runs

LEMMA NoRunIs == Run(NoRun, NoRun, 0, [s \in Stages |-> 0])
BY DEF Run, Runs, NoRun

\* The stage a run is at.
LEMMA AtIs ==
  ASSUME RunsOK, NEW t \in Tasks, Undone(t) # {}
  PROVE  At(t) \in Stages /\ Input(t) \in Nat
<1>1. runs[t] \in Runs
  BY DEF RunsOK
<1>2. Undone(t) \in SUBSET Nat
  BY DEF Undone, Stages
<1>3. At(t) \in Undone(t)
  BY <1>2, Least DEF At
<1>4. At(t) \in Stages
  BY <1>3 DEF Undone
<1>5. At(t) # 1 => At(t) - 1 \in Stages
  BY <1>4 DEF Stages
<1>6. QED
  BY <1>1, <1>4, <1>5, RunIs DEF Input

\* What the invariant says of a run r of task t, after the step.
After(t, r) ==
  /\ r.at \in 0..issued'
  /\ r.on /\ WrittenAfter(r.at) => attempts'[r.at].kind = "fanout_element"
  /\ finals'[t] = "none" =>
       /\ r.at = 0 \/ (r.at \in DOMAIN attempts' /\ attempts'[r.at].task = t)
       /\ \A s \in Stages : r.value[s] = 0
            \/ (r.value[s] \in DOMAIN attempts' /\ attempts'[r.value[s]].task = t)

LEMMA RunsConclude ==
  ASSUME NEW f \in [Tasks -> Runs], runs' = f, \A u \in Tasks : After(u, f[u])
  PROVE  RunsOK' /\ Held' /\ Awaited'
<1>1. RunsOK'
  BY DEF RunsOK
<1>2. Held'
  BY DEF Held, Holds, After, Of
<1>3. Awaited'
  BY DEF Awaited, Awaits, After, Written, WrittenAfter, IsElement
<1>4. QED
  BY <1>1, <1>2, <1>3

\* A run that a step leaves alone.
LEMMA OldRun ==
  ASSUME AttemptsOK, PortsOK, Grown, issued' \in Nat, issued <= issued', NEW u \in Tasks, NEW r,
         Awaits(r), finals[u] = "none" => Holds(u, r),
         r.on /\ WrittenAfter(r.at) => Written(r.at) \/ (r.at \in DOMAIN attempts /\ IsElement(r.at)),
         finals'[u] = "none" => finals[u] = "none"
  PROVE  After(u, r)
<1>1. r.at \in 0..issued'
  BY DEF Awaits, AttemptsOK
<1>2. r.on /\ WrittenAfter(r.at) => attempts'[r.at].kind = "fanout_element"
  BY WrittenIsThere DEF Awaits, Grown, IsElement
<1>3. finals'[u] = "none" =>
        /\ r.at = 0 \/ (r.at \in DOMAIN attempts' /\ attempts'[r.at].task = u)
        /\ \A s \in Stages : r.value[s] = 0
             \/ (r.value[s] \in DOMAIN attempts' /\ attempts'[r.value[s]].task = u)
  BY DEF Holds, Grown, Of
<1>4. QED
  BY <1>1, <1>2, <1>3 DEF After

\* A run that no longer waits, or only changes its flags.
LEMMA NewRun ==
  ASSUME PortsOK', AttemptsOK', NEW u \in Tasks, NEW q, After(u, q), NEW r,
         Run(r, q, q.at, q.value) \/ Run(r, q, 0, q.value)
  PROVE  After(u, r)
<1>1. ~WrittenAfter(0) /\ 0 \in 0..issued'
  BY DEF WrittenAfter, PortsOK, AttemptsOK
<1>2. QED
  BY <1>1 DEF After, Run

LEMMA AfterNoRun ==
  ASSUME PortsOK', AttemptsOK', NEW u \in Tasks
  PROVE  After(u, NoRun)
<1>1. ~WrittenAfter(0) /\ 0 \in 0..issued'
  BY DEF WrittenAfter, PortsOK, AttemptsOK
<1>2. NoRun.at = 0 /\ \A s \in Stages : NoRun.value[s] = 0
  BY NoRunIs DEF Run
<1>3. QED
  BY <1>1, <1>2 DEF After

LEMMA CountIs ==
  ASSUME events \in [Kinds -> Nat], NEW k \in Kinds, Count(k)
  PROVE  events' \in [Kinds -> Nat]
<1>1. events' = [events EXCEPT ![k] = @ + 1]
  BY Zenon DEF Count
<1>2. events[k] + 1 \in Nat
  OBVIOUS
<1>3. QED
  BY <1>1, <1>2

\* A run that waits for nothing and holds attempts of its task.
LEMMA Resumed ==
  ASSUME PortsOK', AttemptsOK', Grown, NEW u \in Tasks, NEW r, r.at = 0,
         \A x \in Stages : r.value[x] = 0 \/ r.value[x] \in Of(u)
  PROVE  After(u, r)
<1>1. ~WrittenAfter(0) /\ 0 \in 0..issued'
  BY DEF WrittenAfter, PortsOK, AttemptsOK
<1>2. QED
  BY <1>1 DEF After, Grown, Of

\* A step that only opens an attempt.
LEMMA RowStarts ==
  ASSUME RecordsInv, NEW row \in Rows, row.idx <= New,
         row.kind = "fanout_element" => row.elem # 0,
         Start(row), ports' = ports, finals' = finals
  PROVE  /\ AttemptsOK' /\ PortsOK' /\ Grown /\ issued' = New
         /\ New \in Nat /\ New # 0 /\ New \notin DOMAIN attempts
         /\ DOMAIN attempts' = DOMAIN attempts \cup {New} /\ attempts'[New] = row
         /\ ~WrittenAfter(New)
         /\ executors \cup {New} \subseteq 1..issued' /\ recent' \subseteq 1..issued'
         /\ \A u \in Tasks : After(u, runs[u])
<1>1. /\ AttemptsOK' /\ New \notin DOMAIN attempts /\ New # 0
      /\ DOMAIN attempts' = DOMAIN attempts \cup {New} /\ attempts'[New] = row
      /\ \A a \in DOMAIN attempts : attempts'[a] = attempts[a]
  BY StartedIs DEF Start, RecordsInv, Tables
<1>2. issued' = New /\ issued \in Nat /\ New \in Nat /\ issued <= New
  BY DEF Start, New, RecordsInv, Tables, AttemptsOK
<1>3. Grown
  BY <1>1 DEF Grown
<1>4. PortsOK' /\ \A a : WrittenAfter(a) => Written(a)
  BY <1>1, PortsKept DEF RecordsInv, Tables
<1>5. ~WrittenAfter(New)
  BY <1>1, <1>4, WrittenIsThere DEF RecordsInv, Tables
<1>6. executors \cup {New} \subseteq 1..issued' /\ recent' \subseteq 1..issued'
  BY <1>2 DEF RecordsInv, Tables, ServerOK, Start, New
<1>7. ASSUME NEW u \in Tasks PROVE After(u, runs[u])
  <2>1. Awaits(runs[u]) /\ (finals[u] = "none" => Holds(u, runs[u]))
    BY DEF RecordsInv, Held, Awaited
  <2>2. QED
    BY <1>2, <1>3, <1>4, <2>1, OldRun DEF RecordsInv, Tables
<1>8. QED
  BY <1>1, <1>2, <1>3, <1>4, <1>5, <1>6, <1>7

\* The run of t moves on to r, the others stay.
LEMMA OneMoves ==
  ASSUME RunsOK, NEW t \in Tasks, NEW r \in Runs, runs' = [runs EXCEPT ![t] = r],
         \A u \in Tasks \ {t} : After(u, runs[u]), After(t, r)
  PROVE  RunsOK' /\ Held' /\ Awaited'
<1> DEFINE f == [runs EXCEPT ![t] = r]
<1>1. f \in [Tasks -> Runs] /\ \A u \in Tasks : After(u, f[u])
  BY DEF RunsOK
<1>2. QED
  BY <1>1, RunsConclude

LEMMA NoneMoves ==
  ASSUME RunsOK, runs' = runs, \A u \in Tasks : After(u, runs[u])
  PROVE  RunsOK' /\ Held' /\ Awaited'
BY RunsConclude DEF RunsOK

LEMMA Unchanged ==
  ASSUME Tables, attempts' = attempts, issued' = issued, ports' = ports, gates' = gates,
         secrets' = secrets, finals' = finals, keys' = keys, executors' = executors,
         recent' = recent, events' = events
  PROVE  Tables'
BY DEF Tables, AttemptsOK, IsElement, PortsOK, QuestionsOK, VerdictsOK, ServerOK

\* The database stays as it is: so does what the invariant says of the runs.
LEMMA AllStay ==
  ASSUME RecordsInv, attempts' = attempts, issued' = issued, ports' = ports, finals' = finals
  PROVE  \A u \in Tasks : After(u, runs[u])
<1>1. Grown /\ issued' \in Nat /\ issued <= issued' /\ \A a : WrittenAfter(a) => Written(a)
  BY DEF Grown, WrittenAfter, Written, RecordsInv, Tables, AttemptsOK
<1>2. QED
  BY <1>1, OldRun DEF RecordsInv, Tables, Held, Awaited

\* A question that is answered, closed or resolved.
LEMMA QuestionCloses ==
  ASSUME NEW D, NEW g \in Questions(D)
  PROVE  [g EXCEPT !.open = FALSE] \in Questions(D)
BY DEF Questions

\* Statuses and questions change, nothing else in the database does.
LEMMA RestatedRows ==
  ASSUME RecordsInv, Restated, issued' = issued, ports' = ports,
         gates' \subseteq Questions(DOMAIN attempts), secrets' \subseteq Questions(DOMAIN attempts)
  PROVE  AttemptsOK' /\ PortsOK' /\ QuestionsOK' /\ Grown /\ \A b : WrittenAfter(b) => Written(b)
<1>1. AttemptsOK' /\ Grown
  BY RestatedIs DEF RecordsInv, Tables
<1>2. DOMAIN attempts' = DOMAIN attempts
  BY DEF Restated
<1>3. PortsOK' /\ \A b : WrittenAfter(b) => Written(b)
  BY <1>2, PortsKept DEF RecordsInv, Tables
<1>4. QuestionsOK'
  BY <1>2 DEF QuestionsOK, Questions
<1>5. QED
  BY <1>1, <1>3, <1>4

\* So the invariant says of every run what it said, if verdicts only come.
LEMMA RunsRemain ==
  ASSUME RecordsInv, AttemptsOK', Grown, issued' = issued, \A b : WrittenAfter(b) => Written(b),
         \A u \in Tasks : finals'[u] = "none" => finals[u] = "none"
  PROVE  \A u \in Tasks : After(u, runs[u])
<1>1. issued' \in Nat /\ issued <= issued'
  BY DEF RecordsInv, Tables, AttemptsOK
<1>2. QED
  BY <1>1, OldRun DEF RecordsInv, Tables, Held, Awaited

\* What a resumed run starts from are attempts of its task.
LEMMA HydratedIs ==
  ASSUME Tables, NEW t \in Tasks
  PROVE  /\ Hydrated(t) \in Runs /\ Hydrated(t).at = 0
         /\ \A x \in Stages : Hydrated(t).value[x] = 0 \/ Hydrated(t).value[x] \in Of(t)
<1> DEFINE done(x) == {a \in OfStage(t, x) : Counts(a)}
           K(x) == WritesOf(done(x))
           v(x) == IF x \in Gates THEN Max({0} \cup Answered(t, x))
                   ELSE IF K(x) = {} THEN 0 ELSE ports[Max(K(x))].attempt
<1>1. AttemptsOK /\ PortsOK /\ QuestionsOK
  BY DEF Tables
<1>2. Of(t) \subseteq Nat
  BY <1>1 DEF Of, AttemptsOK
<1>3. ASSUME NEW x \in Stages PROVE v(x) = 0 \/ v(x) \in Of(t)
  <2>1. Max({0} \cup Answered(t, x)) \in {0} \cup Answered(t, x)
    <3>1. Answered(t, x) \subseteq OfStage(t, x)
      BY DEF Answered
    <3>2. {0} \cup Answered(t, x) \in SUBSET (0..issued) /\ issued \in Nat
      BY <1>1, <3>1 DEF OfStage, Of, AttemptsOK
    <3> HIDE DEF done, K, v
    <3>3. QED
      BY <3>2, Greatest
  <2>2. Answered(t, x) \subseteq Of(t)
    BY DEF Answered, OfStage
  <2>3. K(x) # {} => ports[Max(K(x))].attempt \in Of(t)
    <3>1. K(x) \subseteq DOMAIN ports /\ \A k \in K(x) : ports[k].attempt \in Of(t)
      BY DEF WritesOf, OfStage
    <3> HIDE DEF K
    <3>2. PICK n \in Nat : DOMAIN ports \subseteq 1..n
      BY <1>1 DEF PortsOK
    <3>3. K(x) \in SUBSET (0..n)
      BY <3>1, <3>2
    <3>4. K(x) # {} => Max(K(x)) \in K(x)
      BY <3>3, Greatest
    <3>5. QED
      BY <3>1, <3>4
  <2>4. QED
    BY <2>1, <2>2, <2>3
<1>4. Hydrated(t) = [NoRun EXCEPT !.on = TRUE, !.value = [x \in Stages |-> v(x)]]
  BY DEF Hydrated
<1> HIDE DEF v
<1>5. [x \in Stages |-> v(x)] \in [Stages -> Nat]
  BY <1>2, <1>3
<1>6. Hydrated(t) \in Runs /\ Hydrated(t).at = 0 /\ Hydrated(t).value = [x \in Stages |-> v(x)]
  <2> DEFINE V == [x \in Stages |-> v(x)]
             q == [NoRun EXCEPT !.on = TRUE, !.value = V]
  <2>1. NoRun \in Runs /\ NoRun.at = 0
    BY NoRunIs DEF Run
  <2>2. V \in [Stages -> Nat] /\ Hydrated(t) = q
    BY <1>4, <1>5
  <2> HIDE DEF V
  <2>3. q \in Runs /\ q.at = 0 /\ q.value = V
    BY <2>1, <2>2, RunBegins
  <2> HIDE DEF q
  <2>4. QED
    BY <2>2, <2>3 DEF V
<1>7. QED
  BY <1>3, <1>6

-----------------------------------------------------------------------------
(* What a run does. *)

LEMMA StepOpenGate ==
  ASSUME RecordsInv, NEW t \in Tasks, OpenGate(t)
  PROVE  RecordsInv'
<1> DEFINE s == At(t)
           row == Row(t, s, "regular", "running", Input(t))
           r == [runs[t] EXCEPT !.at = New]
<1>1. s \in Stages /\ Input(t) \in Nat /\ RunsOK /\ AttemptsOK /\ QuestionsOK /\ VerdictsOK /\ ServerOK
  BY AtIs DEF OpenGate, Ready, Over, RecordsInv, Tables
<1>2. row \in Rows /\ row.idx <= New /\ row.task = t /\ row.kind = "regular"
  BY <1>1, RowIs
<1> HIDE DEF row
<1>3. Start(row) /\ ports' = ports /\ finals' = finals /\ keys' = keys /\ executors' = executors
      /\ events' = events /\ secrets' = secrets /\ gates' = gates \cup {[attempt |-> New, open |-> TRUE]}
  BY DEF OpenGate, row
<1>4. /\ AttemptsOK' /\ PortsOK' /\ issued' = New /\ New \in Nat
      /\ DOMAIN attempts' = DOMAIN attempts \cup {New} /\ attempts'[New] = row
      /\ ~WrittenAfter(New)
      /\ executors \cup {New} \subseteq 1..issued' /\ recent' \subseteq 1..issued'
      /\ \A u \in Tasks : After(u, runs[u])
  BY <1>2, <1>3, RowStarts
<1>5. QuestionsOK'
  BY <1>1, <1>3, <1>4, QuestionsAsked DEF Asked
<1>6. VerdictsOK' /\ ServerOK'
  BY <1>1, <1>3, <1>4 DEF VerdictsOK, ServerOK
<1>7. Run(r, runs[t], New, runs[t].value)
  BY <1>1, <1>4, RunWaits DEF RunsOK
<1> HIDE DEF r
<1>8. After(t, r)
  BY <1>2, <1>4, <1>7 DEF After, Run
<1>9. runs' = [runs EXCEPT ![t] = r]
  BY DEF OpenGate, r
<1>10. RunsOK' /\ Held' /\ Awaited'
  BY <1>1, <1>4, <1>7, <1>8, <1>9, OneMoves DEF Run
<1>11. QED
  BY <1>4, <1>5, <1>6, <1>10 DEF RecordsInv, Tables

LEMMA StepStartStage ==
  ASSUME RecordsInv, NEW t \in Tasks, StartStage(t)
  PROVE  RecordsInv'
<1> DEFINE s == At(t)
           row == Row(t, s, "regular", "running", Input(t))
           r == [runs[t] EXCEPT !.at = New]
<1>1. s \in Stages /\ Input(t) \in Nat /\ RunsOK /\ AttemptsOK /\ QuestionsOK /\ VerdictsOK /\ ServerOK
  BY AtIs DEF StartStage, Ready, Over, RecordsInv, Tables
<1>2. row \in Rows /\ row.idx <= New /\ row.task = t /\ row.kind = "regular"
  BY <1>1, RowIs
<1>3. [row EXCEPT !.status = "running"] = row
  BY DEF Row
<1> HIDE DEF row
<1>4. Start(row) /\ ports' = ports /\ finals' = finals /\ keys' = keys /\ executors' = executors \cup {New}
      /\ events' = events /\ secrets' = secrets /\ gates' = gates
  BY <1>3 DEF StartStage, Execute, row
<1>5. /\ AttemptsOK' /\ PortsOK' /\ issued' = New /\ New \in Nat
      /\ DOMAIN attempts' = DOMAIN attempts \cup {New} /\ attempts'[New] = row
      /\ ~WrittenAfter(New)
      /\ executors \cup {New} \subseteq 1..issued' /\ recent' \subseteq 1..issued'
      /\ \A u \in Tasks : After(u, runs[u])
  BY <1>2, <1>4, RowStarts
<1>6. QuestionsOK'
  BY <1>1, <1>4, <1>5, QuestionsKept
<1>7. VerdictsOK' /\ ServerOK'
  BY <1>1, <1>4, <1>5 DEF VerdictsOK, ServerOK
<1>8. Run(r, runs[t], New, runs[t].value)
  BY <1>1, <1>5, RunWaits DEF RunsOK
<1> HIDE DEF r
<1>9. After(t, r)
  BY <1>2, <1>5, <1>8 DEF After, Run
<1>10. runs' = [runs EXCEPT ![t] = r]
  BY DEF StartStage, r
<1>11. RunsOK' /\ Held' /\ Awaited'
  BY <1>1, <1>5, <1>8, <1>9, <1>10, OneMoves DEF Run
<1>12. QED
  BY <1>5, <1>6, <1>7, <1>11 DEF RecordsInv, Tables

LEMMA StepPauseForSecret ==
  ASSUME RecordsInv, NEW t \in Tasks, PauseForSecret(t)
  PROVE  RecordsInv'
<1> DEFINE s == At(t)
           row0 == Row(t, s, "regular", "running", Input(t))
           row == [row0 EXCEPT !.status = "secret_pending"]
           r == [runs[t] EXCEPT !.paused = TRUE]
<1>1. s \in Stages /\ Input(t) \in Nat /\ RunsOK /\ AttemptsOK /\ QuestionsOK /\ VerdictsOK /\ ServerOK
  BY AtIs DEF PauseForSecret, Ready, Over, RecordsInv, Tables
<1>2. row0 \in Rows /\ row0.idx <= New /\ row0.task = t /\ row0.kind = "regular"
  BY <1>1, RowIs
<1> HIDE DEF row0
<1>3. row \in Rows /\ row.idx <= New /\ row.task = t /\ row.kind = "regular"
  BY <1>2, RowPends
<1>4. Start(row) /\ ports' = ports /\ finals' = finals /\ keys' = keys /\ executors' = executors
      /\ events' = events /\ gates' = gates /\ secrets' = secrets \cup {[attempt |-> New, open |-> TRUE]}
  BY DEF PauseForSecret, StartWithoutKey, row0
<1> HIDE DEF row
<1>5. /\ AttemptsOK' /\ PortsOK' /\ issued' = New
      /\ DOMAIN attempts' = DOMAIN attempts \cup {New}
      /\ executors \cup {New} \subseteq 1..issued' /\ recent' \subseteq 1..issued'
      /\ \A u \in Tasks : After(u, runs[u])
  BY <1>3, <1>4, RowStarts
<1>6. QuestionsOK'
  BY <1>1, <1>4, <1>5, QuestionsAsked DEF Asked
<1>7. VerdictsOK' /\ ServerOK'
  BY <1>1, <1>4, <1>5 DEF VerdictsOK, ServerOK
<1>8. Run(r, runs[t], runs[t].at, runs[t].value)
  BY <1>1, RunPauses DEF RunsOK
<1> HIDE DEF r
<1>9. After(t, r)
  BY <1>5, <1>8 DEF After, Run
<1>10. runs' = [runs EXCEPT ![t] = r]
  BY DEF PauseForSecret, r
<1>11. RunsOK' /\ Held' /\ Awaited'
  BY <1>1, <1>5, <1>8, <1>9, <1>10, OneMoves DEF Run
<1>12. QED
  BY <1>5, <1>6, <1>7, <1>11 DEF RecordsInv, Tables

LEMMA StepBeginPass ==
  ASSUME RecordsInv, NEW t \in Tasks, BeginPass(t)
  PROVE  RecordsInv'
<1> DEFINE E == Preserved(t, At(t))
           r == [runs[t] EXCEPT !.pass = TRUE, !.elems = E]
<1>1. RunsOK /\ AttemptsOK /\ PortsOK /\ QuestionsOK /\ VerdictsOK /\ ServerOK
  BY DEF RecordsInv, Tables
<1>2. E \in SUBSET (1..Elements)
  BY <1>1 DEF Preserved, AttemptsOK, Rows, In, OfStage, Of
<1>3. attempts' = attempts /\ issued' = issued /\ ports' = ports /\ gates' = gates /\ secrets' = secrets
      /\ finals' = finals /\ keys' = keys /\ executors' = executors /\ recent' = recent /\ events' = events
  BY DEF BeginPass, db
<1> HIDE DEF E
<1>4. Tables'
  BY <1>1, <1>3, Unchanged DEF Tables
<1>5. \A u \in Tasks : After(u, runs[u])
  BY <1>3, AllStay
<1>6. Run(r, runs[t], runs[t].at, runs[t].value)
  BY <1>1, <1>2, RunPasses DEF RunsOK
<1>7. runs' = [runs EXCEPT ![t] = r]
  BY DEF BeginPass, E
<1> HIDE DEF r
<1>8. After(t, r)
  BY <1>5, <1>6 DEF After, Run
<1>9. RunsOK' /\ Held' /\ Awaited'
  BY <1>1, <1>5, <1>6, <1>7, <1>8, OneMoves DEF Run
<1>10. QED
  BY <1>4, <1>9 DEF RecordsInv

LEMMA StepStartElement ==
  ASSUME RecordsInv, NEW t \in Tasks, StartElement(t)
  PROVE  RecordsInv'
<1> DEFINE s == At(t)
           row0 == Row(t, s, "fanout_element", "running", Input(t))
           e == Min(Missing(t))
           row1 == [row0 EXCEPT !.elem = e]
           row == [row1 EXCEPT !.status = "running"]
           r == [runs[t] EXCEPT !.at = New]
<1>1. s \in Stages /\ Input(t) \in Nat /\ RunsOK /\ AttemptsOK /\ QuestionsOK /\ VerdictsOK /\ ServerOK
  BY AtIs DEF StartElement, Ready, Over, RecordsInv, Tables
<1>2. e \in 0..Elements /\ e # 0
  <2>1. Missing(t) \in SUBSET Nat /\ Missing(t) # {}
    BY DEF StartElement, Missing
  <2>2. e \in Missing(t)
    BY <2>1, Least
  <2>3. QED
    BY <2>2 DEF Missing
<1>3. row0 \in Rows /\ row0.idx <= New /\ row0.task = t /\ row0.kind = "fanout_element"
  BY <1>1, RowIs
<1> HIDE DEF row0, e
<1>4. row1 \in Rows /\ row1.idx <= New /\ row1.task = t /\ row1.kind = "fanout_element" /\ row1.elem = e
  BY <1>2, <1>3, RowOfElement
<1> HIDE DEF row1
<1>5. row \in Rows /\ row.idx <= New /\ row.task = t /\ row.kind = "fanout_element" /\ row.elem # 0
  BY <1>2, <1>4, RowRuns
<1>6. Start(row) /\ ports' = ports /\ finals' = finals /\ keys' = keys /\ executors' = executors \cup {New}
      /\ events' = events /\ secrets' = secrets /\ gates' = gates
  BY DEF StartElement, Execute, row1, row0, e
<1> HIDE DEF row
<1>7. /\ AttemptsOK' /\ PortsOK' /\ issued' = New /\ New \in Nat
      /\ DOMAIN attempts' = DOMAIN attempts \cup {New} /\ attempts'[New] = row
      /\ ~WrittenAfter(New)
      /\ executors \cup {New} \subseteq 1..issued' /\ recent' \subseteq 1..issued'
      /\ \A u \in Tasks : After(u, runs[u])
  BY <1>5, <1>6, RowStarts
<1>8. QuestionsOK'
  BY <1>1, <1>6, <1>7, QuestionsKept
<1>9. VerdictsOK' /\ ServerOK'
  BY <1>1, <1>6, <1>7 DEF VerdictsOK, ServerOK
<1>10. Run(r, runs[t], New, runs[t].value)
  BY <1>1, <1>7, RunWaits DEF RunsOK
<1>11. runs' = [runs EXCEPT ![t] = r]
  BY DEF StartElement
<1> HIDE DEF r
<1>12. After(t, r)
  BY <1>5, <1>7, <1>10 DEF After, Run
<1>13. RunsOK' /\ Held' /\ Awaited'
  BY <1>1, <1>7, <1>10, <1>11, <1>12, OneMoves DEF Run
<1>14. QED
  BY <1>7, <1>8, <1>9, <1>13 DEF RecordsInv, Tables

LEMMA StepAggregate ==
  ASSUME RecordsInv, NEW t \in Tasks, Aggregate(t)
  PROVE  RecordsInv'
<1> DEFINE s == At(t)
           row == Row(t, s, "fanout_aggregate", "success", Input(t))
           w == [attempt |-> New, outside |-> FALSE]
           r == [runs[t] EXCEPT !.value[s] = New, !.pass = FALSE, !.elems = {}]
<1>1. s \in Stages /\ Input(t) \in Nat /\ RunsOK /\ AttemptsOK /\ PortsOK /\ QuestionsOK /\ VerdictsOK /\ ServerOK
  BY AtIs DEF Aggregate, Ready, Over, RecordsInv, Tables
<1>2. row \in Rows /\ row.idx <= New /\ row.task = t /\ row.kind = "fanout_aggregate"
  BY <1>1, RowIs
<1> HIDE DEF row
<1>3. attempts' = Put(attempts, New, row) /\ issued' = New /\ recent' = recent \cup {New} /\ Store(w)
      /\ finals' = finals /\ keys' = keys /\ executors' = executors
      /\ events' = events /\ secrets' = secrets /\ gates' = gates
  BY DEF Aggregate, Start, row
<1>4. /\ AttemptsOK' /\ New \notin DOMAIN attempts /\ New # 0
      /\ DOMAIN attempts' = DOMAIN attempts \cup {New} /\ attempts'[New] = row
      /\ \A a \in DOMAIN attempts : attempts'[a] = attempts[a]
  BY <1>1, <1>2, <1>3, StartedIs
<1>5. issued' = issued + 1 /\ issued \in Nat /\ New = issued + 1
  BY <1>1, <1>3 DEF New, AttemptsOK
<1>6. Grown /\ DOMAIN attempts \subseteq DOMAIN attempts'
  BY <1>4 DEF Grown
<1>7. w \in [attempt : DOMAIN attempts', outside : BOOLEAN]
  BY <1>4
<1>8. PortsOK' /\ \A a : WrittenAfter(a) => Written(a) \/ w = [attempt |-> a, outside |-> FALSE]
  BY <1>1, <1>3, <1>6, <1>7, StoredIs
<1>9. \A a : WrittenAfter(a) => Written(a) \/ a = New
  BY <1>8
<1>10. QuestionsOK'
  BY <1>1, <1>3, <1>6, QuestionsKept
<1>11. VerdictsOK' /\ ServerOK'
  BY <1>1, <1>3, <1>5 DEF VerdictsOK, ServerOK
<1>12. ASSUME NEW u \in Tasks PROVE After(u, runs[u])
  <2>1. Awaits(runs[u]) /\ (finals[u] = "none" => Holds(u, runs[u]))
    BY DEF RecordsInv, Held, Awaited
  <2>2. runs[u].at # New
    BY <1>5, <2>1 DEF Awaits
  <2>3. QED
    BY <1>1, <1>3, <1>5, <1>6, <1>9, <2>1, <2>2, OldRun
<1>13. Run(r, runs[t], runs[t].at, [runs[t].value EXCEPT ![s] = New])
  <2>1. runs[t] \in Runs /\ New \in Nat /\ s \in Stages
    BY <1>1, <1>5 DEF RunsOK
  <2> HIDE DEF s
  <2>2. QED
    BY <2>1, RunAggregates
<1>14. runs' = [runs EXCEPT ![t] = r]
  BY DEF Aggregate
<1> HIDE DEF r
<1>15. After(t, r)
  <2>1. After(t, runs[t]) /\ runs[t].value \in [Stages -> Nat]
    BY <1>1, <1>12, RunIs DEF RunsOK
  <2>2. QED
    BY <1>2, <1>4, <1>13, <2>1 DEF After, Run
<1>16. RunsOK' /\ Held' /\ Awaited'
  BY <1>1, <1>12, <1>13, <1>14, <1>15, OneMoves DEF Run
<1>17. QED
  BY <1>4, <1>8, <1>10, <1>11, <1>16 DEF RecordsInv, Tables

-----------------------------------------------------------------------------
(* What executors do. *)

LEMMA StepWrite ==
  ASSUME RecordsInv, NEW a, Write(a)
  PROVE  RecordsInv'
<1> DEFINE w == [attempt |-> a, outside |-> FALSE]
           st == attempts[a].stage
           e(u) == [runs[u] EXCEPT !.value[st] = a, !.at = 0]
           f == [u \in Tasks |-> IF u \in Waiting(a) /\ ~IsElement(a) THEN e(u) ELSE runs[u]]
<1>1. RunsOK /\ AttemptsOK /\ PortsOK /\ QuestionsOK /\ VerdictsOK /\ ServerOK
  BY DEF RecordsInv, Tables
<1>2. a \in DOMAIN attempts /\ Store(w) /\ attempts' = attempts /\ issued' = issued
      /\ gates' = gates /\ secrets' = secrets /\ keys' = keys /\ finals' = finals
      /\ executors' = executors /\ recent' = recent /\ events' = events
  BY DEF Write
<1>0. runs' = f
  BY DEF Write
<1>3. st \in Stages /\ a \in Nat /\ a # 0
  BY <1>1, <1>2 DEF AttemptsOK, Rows
<1>4. AttemptsOK' /\ QuestionsOK' /\ VerdictsOK' /\ ServerOK' /\ Grown
  <2>1. AttemptsOK' /\ Grown
    BY <1>1, <1>2 DEF AttemptsOK, IsElement, Grown
  <2>2. QuestionsOK'
    BY <1>1, <1>2, QuestionsKept
  <2>3. VerdictsOK' /\ ServerOK'
    BY <1>1, <1>2 DEF VerdictsOK, ServerOK
  <2>4. QED
    BY <2>1, <2>2, <2>3
<1>5. PortsOK' /\ \A b : WrittenAfter(b) => Written(b) \/ w = [attempt |-> b, outside |-> FALSE]
  BY <1>1, <1>2, StoredIs
<1>6. \A b : WrittenAfter(b) => Written(b) \/ b = a
  BY <1>5
<1> HIDE DEF st
<1>7. ASSUME NEW u \in Tasks
      PROVE  f[u] \in Runs /\ After(u, f[u])
  <2>1. runs[u] \in Runs /\ Awaits(runs[u]) /\ (finals[u] = "none" => Holds(u, runs[u]))
    BY <1>1 DEF RecordsInv, Held, Awaited, RunsOK
  <2>2. CASE u \in Waiting(a) /\ ~IsElement(a)
    <3>1. Run(e(u), runs[u], 0, [runs[u].value EXCEPT ![st] = a])
      BY <1>3, <2>1, RunTakes
    <3>2. f[u] = e(u) /\ runs[u].at = a
      BY <2>2 DEF Waiting
    <3> HIDE DEF e, f
    <3>3. ~WrittenAfter(0) /\ 0 \in 0..issued'
      BY <1>1, <1>3, <1>4, <1>6, WrittenIsThere DEF AttemptsOK
    <3>4. runs[u].value \in [Stages -> Nat]
      BY <2>1, RunIs
    <3>5. After(u, e(u))
      BY <1>2, <1>3, <2>1, <3>1, <3>2, <3>3, <3>4 DEF After, Run, Holds, Of
    <3>6. QED
      BY <3>1, <3>2, <3>5 DEF Run
  <2>3. CASE ~(u \in Waiting(a) /\ ~IsElement(a))
    <3>1. f[u] = runs[u]
      BY <2>3
    <3>2. runs[u].on /\ WrittenAfter(runs[u].at) => Written(runs[u].at) \/ (runs[u].at \in DOMAIN attempts /\ IsElement(runs[u].at))
      BY <1>2, <1>6, <2>3 DEF Waiting
    <3>3. After(u, runs[u])
      <4>1. issued' \in Nat /\ issued <= issued' /\ (finals'[u] = "none" => finals[u] = "none")
        BY <1>1, <1>2 DEF AttemptsOK
      <4>2. QED
        BY <1>1, <1>4, <2>1, <3>2, <4>1, OldRun
    <3>4. QED
      BY <2>1, <3>1, <3>3
  <2>4. QED
    BY <2>2, <2>3
<1>8. RunsOK' /\ Held' /\ Awaited'
  <2>1. f \in [Tasks -> Runs]
    BY <1>7
  <2> HIDE DEF f
  <2>2. QED
    BY <1>0, <1>7, <2>1, RunsConclude
<1>9. QED
  BY <1>4, <1>5, <1>8 DEF RecordsInv, Tables

LEMMA StepFinish ==
  ASSUME RecordsInv, NEW a, NEW status \in {"success", "error"}, Finish(a, status)
  PROVE  RecordsInv'
<1> DEFINE e(u) == [runs[u] EXCEPT !.failed = TRUE]
           c(u) == [runs[u] EXCEPT !.at = 0, !.elems = @ \cup {attempts[a].elem}]
           f == [u \in Tasks |-> IF u \notin Waiting(a) THEN runs[u]
                                  ELSE IF status = "error" THEN e(u) ELSE c(u)]
<1>1. RunsOK /\ AttemptsOK /\ PortsOK /\ QuestionsOK /\ VerdictsOK /\ ServerOK
  BY DEF RecordsInv, Tables
<1>2. a \in DOMAIN attempts /\ attempts' = [attempts EXCEPT ![a].status = status] /\ issued' = issued
      /\ gates' = gates /\ secrets' = secrets /\ keys' = keys /\ finals' = finals /\ ports' = ports
      /\ executors' = executors \ {a} /\ recent' = recent /\ events' = events
      /\ (status = "success" => Written(a))
  BY DEF Finish
<1>0. runs' = f
  BY DEF Finish
<1>3. Restated
  BY <1>1, <1>2, OneRestated
<1>4. AttemptsOK' /\ Grown
  BY <1>1, <1>2, <1>3, RestatedIs
<1>5. PortsOK' /\ \A b : WrittenAfter(b) => Written(b)
  BY <1>1, <1>2, <1>4, PortsKept DEF Grown
<1>6. QuestionsOK'
  BY <1>1, <1>2, <1>4, QuestionsKept DEF Grown
<1>7. VerdictsOK' /\ ServerOK'
  BY <1>1, <1>2 DEF VerdictsOK, ServerOK
<1>8. ASSUME NEW u \in Tasks
      PROVE  f[u] \in Runs /\ After(u, f[u])
  <2>1. runs[u] \in Runs /\ Awaits(runs[u]) /\ (finals[u] = "none" => Holds(u, runs[u]))
    BY <1>1 DEF RecordsInv, Held, Awaited, RunsOK
  <2>2. After(u, runs[u])
    <3>1. issued' \in Nat /\ issued <= issued' /\ (finals'[u] = "none" => finals[u] = "none")
      BY <1>1, <1>2 DEF AttemptsOK
    <3>2. QED
      BY <1>1, <1>4, <1>5, <2>1, <3>1, OldRun
  <2>3. CASE u \in Waiting(a) /\ status = "error"
    <3>1. Run(e(u), runs[u], runs[u].at, runs[u].value)
      BY <2>1, RunFails
    <3>2. f[u] = e(u)
      BY <2>3
    <3> HIDE DEF e, f
    <3>3. QED
      BY <1>4, <1>5, <2>2, <3>1, <3>2, NewRun DEF Run
  <2>4. CASE u \in Waiting(a) /\ status = "success"
    <3>1. attempts[a].elem \in 1..Elements
      <4>1. runs[u].on /\ runs[u].at = a /\ Written(a)
        BY <1>2, <2>4 DEF Waiting
      <4>2. IsElement(a)
        BY <2>1, <4>1 DEF Awaits
      <4>3. QED
        BY <1>1, <1>2, <4>2 DEF AttemptsOK, Rows
    <3>2. runs[u].elems \cup {attempts[a].elem} \in SUBSET (1..Elements)
      <4>1. runs[u].elems \subseteq 1..Elements
        BY <2>1, RunIs
      <4>2. QED
        BY <3>1, <4>1
    <3>3. Run(c(u), runs[u], 0, runs[u].value)
      BY <2>1, <3>2, RunCollects
    <3>4. f[u] = c(u)
      BY <2>4
    <3> HIDE DEF c, f
    <3>5. QED
      BY <1>4, <1>5, <2>2, <3>3, <3>4, NewRun DEF Run
  <2>5. CASE u \notin Waiting(a)
    BY <2>1, <2>2, <2>5
  <2>6. QED
    BY <2>3, <2>4, <2>5
<1>9. RunsOK' /\ Held' /\ Awaited'
  <2>1. f \in [Tasks -> Runs]
    BY <1>8
  <2> HIDE DEF f
  <2>2. QED
    BY <1>0, <1>8, <2>1, RunsConclude
<1>10. QED
  BY <1>4, <1>5, <1>6, <1>7, <1>9 DEF RecordsInv, Tables

LEMMA StepRowless ==
  ASSUME RecordsInv, NEW a, Rowless(a)
  PROVE  RecordsInv'
<1> DEFINE e(u) == [runs[u] EXCEPT !.failed = TRUE]
           f == [u \in Tasks |-> IF u \in Waiting(a) THEN e(u) ELSE runs[u]]
<1>1. RunsOK /\ Tables /\ AttemptsOK /\ PortsOK
  BY DEF RecordsInv, Tables
<1>2. attempts' = attempts /\ issued' = issued
      /\ gates' = gates /\ secrets' = secrets /\ keys' = keys /\ finals' = finals /\ ports' = ports
      /\ executors' = executors \ {a} /\ recent' = recent /\ events' = events
  BY DEF Rowless, db
<1>0. runs' = f
  BY DEF Rowless
<1>3. Tables'
  BY <1>1, <1>2 DEF Tables, AttemptsOK, IsElement, PortsOK, QuestionsOK, VerdictsOK, ServerOK
<1>4. \A u \in Tasks : After(u, runs[u])
  BY <1>2, AllStay
<1>5. ASSUME NEW u \in Tasks
      PROVE  f[u] \in Runs /\ After(u, f[u])
  <2>1. runs[u] \in Runs
    BY <1>1 DEF RunsOK
  <2>2. Run(e(u), runs[u], runs[u].at, runs[u].value)
    BY <2>1, RunFails
  <2>3. f[u] = e(u) \/ f[u] = runs[u]
    OBVIOUS
  <2> HIDE DEF e, f
  <2>4. After(u, e(u))
    BY <1>3, <1>4, <2>2, NewRun DEF Tables
  <2>5. QED
    BY <1>4, <2>1, <2>2, <2>3, <2>4 DEF Run
<1>6. RunsOK' /\ Held' /\ Awaited'
  <2>1. f \in [Tasks -> Runs]
    BY <1>5
  <2> HIDE DEF f
  <2>2. QED
    BY <1>0, <1>5, <2>1, RunsConclude
<1>7. QED
  BY <1>3, <1>6 DEF RecordsInv

LEMMA StepAgentRetries ==
  ASSUME RecordsInv, NEW a, AgentRetries(a)
  PROVE  RecordsInv'
<1> DEFINE q == attempts[a]
           row0 == Row(q.task, q.stage, q.kind, "running", q.read)
           row == [row0 EXCEPT !.elem = q.elem]
           old == [attempts EXCEPT ![a].status = "error"]
           e(u) == [runs[u] EXCEPT !.at = New]
           f == [u \in Tasks |-> IF u \in Waiting(a) THEN e(u) ELSE runs[u]]
<1>1. RunsOK /\ AttemptsOK /\ PortsOK /\ QuestionsOK /\ VerdictsOK /\ ServerOK
  BY DEF RecordsInv, Tables
<1>2. runs' = f
  BY DEF AgentRetries
<1>3. a \in DOMAIN attempts /\ attempts' = Put(old, New, row) /\ issued' = New
      /\ gates' = gates /\ secrets' = secrets /\ keys' = keys /\ finals' = finals /\ ports' = ports
      /\ executors' = (executors \ {a}) \cup {New} /\ recent' = recent \cup {New}
  BY DEF AgentRetries
<1>4. events' \in [Kinds -> Nat]
  BY <1>1, CountIs DEF Kinds, AgentRetries, ServerOK
<1>5. q \in Rows /\ (q.kind = "fanout_element" => q.elem # 0)
  BY <1>1, <1>3 DEF AttemptsOK, IsElement
<1> HIDE DEF q
<1>6. /\ q.task \in Tasks /\ q.stage \in Stages /\ q.read \in Nat /\ q.elem \in 0..Elements
      /\ q.kind \in {"regular", "fanout_element", "fanout_aggregate", "replay", "dry_run"}
  BY <1>5 DEF Rows
<1>7. row0 \in Rows /\ row0.idx <= New /\ row0.task = q.task /\ row0.kind = q.kind
  BY <1>1, <1>6, RowIs
<1> HIDE DEF row0
<1>8. row \in Rows /\ row.idx <= New /\ row.task = q.task /\ row.kind = q.kind /\ row.elem = q.elem
  BY <1>6, <1>7, RowOfElement
<1> HIDE DEF row
<1>9. New = issued + 1 /\ issued \in Nat /\ New \in Nat /\ New \notin DOMAIN attempts
  BY <1>1 DEF New, AttemptsOK
<1>10. /\ DOMAIN old = DOMAIN attempts
       /\ \A b \in DOMAIN attempts :
            /\ old[b] \in Rows /\ old[b].idx = attempts[b].idx /\ old[b].task = attempts[b].task
            /\ old[b].stage = attempts[b].stage /\ old[b].kind = attempts[b].kind /\ old[b].elem = attempts[b].elem
  BY <1>1 DEF AttemptsOK, Rows
<1> HIDE DEF old
<1>11. DOMAIN attempts' = DOMAIN attempts \cup {New} /\ attempts'[New] = row
       /\ \A b \in DOMAIN attempts : attempts'[b] = old[b]
  BY <1>3, <1>9, <1>10 DEF Put
<1>12. AttemptsOK'
  <2>1. issued' \in Nat /\ DOMAIN attempts' \subseteq 1..issued'
    BY <1>1, <1>3, <1>9, <1>11 DEF AttemptsOK
  <2>2. ASSUME NEW b \in DOMAIN attempts'
        PROVE  attempts'[b] \in Rows /\ attempts'[b].idx <= issued'
               /\ (attempts'[b].kind = "fanout_element" => attempts'[b].elem # 0)
    <3>1. CASE b = New
      BY <1>3, <1>5, <1>8, <1>11, <3>1
    <3>2. CASE b \in DOMAIN attempts
      <4>1. attempts[b].idx \in Nat /\ attempts[b].idx <= issued
            /\ (attempts[b].kind = "fanout_element" => attempts[b].elem # 0)
        BY <1>1, <3>2 DEF AttemptsOK, Rows, IsElement
      <4>2. QED
        BY <1>3, <1>9, <1>10, <1>11, <3>2, <4>1
    <3>3. QED
      BY <1>11, <3>1, <3>2
  <2>3. QED
    BY <2>1, <2>2 DEF AttemptsOK, IsElement
<1>13. Grown
  BY <1>10, <1>11 DEF Grown
<1>14. PortsOK' /\ \A b : WrittenAfter(b) => Written(b)
  BY <1>1, <1>3, <1>11, PortsKept
<1>15. QuestionsOK'
  BY <1>1, <1>3, <1>11, QuestionsKept
<1>16. VerdictsOK' /\ ServerOK'
  <2>1. executors' \subseteq 1..issued' /\ recent' \subseteq 1..issued'
    <3>1. executors' = (executors \ {a}) \cup {New} /\ recent' = recent \cup {New} /\ issued' = New
      BY <1>3
    <3>2. executors \subseteq 1..issued /\ recent \subseteq 1..issued
      BY <1>1 DEF ServerOK
    <3>3. 1..issued \subseteq 1..issued' /\ New \in 1..issued'
      <4> HIDE DEF e, f
      <4>1. issued' = issued + 1
        BY <1>9, <3>1
      <4>2. QED
        BY <1>9, <3>1, <4>1
    <3>4. QED
      BY <3>1, <3>2, <3>3
  <2>2. QED
    BY <1>1, <1>3, <1>4, <2>1 DEF VerdictsOK, ServerOK
<1>17. ~WrittenAfter(New)
  BY <1>1, <1>9, <1>14, WrittenIsThere
<1>18. ASSUME NEW u \in Tasks
       PROVE  f[u] \in Runs /\ After(u, f[u])
  <2>1. runs[u] \in Runs /\ Awaits(runs[u]) /\ (finals[u] = "none" => Holds(u, runs[u]))
    BY <1>1 DEF RecordsInv, Held, Awaited, RunsOK
  <2>2. After(u, runs[u])
    <3>1. issued' \in Nat /\ issued <= issued' /\ (finals'[u] = "none" => finals[u] = "none")
      BY <1>3, <1>9
    <3>2. QED
      BY <1>1, <1>13, <1>14, <2>1, <3>1, OldRun
  <2>3. CASE u \in Waiting(a)
    <3>1. Run(e(u), runs[u], New, runs[u].value)
      BY <1>9, <2>1, RunWaits
    <3>2. f[u] = e(u) /\ runs[u].at = a
      BY <2>3 DEF Waiting
    <3> HIDE DEF e, f
    <3>3. finals'[u] = "none" => q.task = u
      BY <1>1, <1>3, <2>1, <3>2 DEF Holds, Of, q, AttemptsOK
    <3>4. QED
      BY <1>3, <1>8, <1>9, <1>11, <1>17, <2>2, <3>1, <3>2, <3>3 DEF After, Run
  <2>4. CASE u \notin Waiting(a)
    BY <2>1, <2>2, <2>4
  <2>5. QED
    BY <2>3, <2>4
<1>19. RunsOK' /\ Held' /\ Awaited'
  <2>1. f \in [Tasks -> Runs]
    BY <1>18
  <2> HIDE DEF f
  <2>2. QED
    BY <1>2, <1>18, <2>1, RunsConclude
<1>20. QED
  BY <1>12, <1>14, <1>15, <1>16, <1>19 DEF RecordsInv, Tables

LEMMA StepTimesOut ==
  ASSUME RecordsInv, NEW a, TimesOut(a)
  PROVE  RecordsInv'
<1> DEFINE e(u) == [runs[u] EXCEPT !.at = 0]
           f == [u \in Tasks |-> IF u \in Waiting(a) THEN e(u) ELSE runs[u]]
<1>1. RunsOK /\ AttemptsOK /\ PortsOK /\ QuestionsOK /\ VerdictsOK /\ ServerOK
  BY DEF RecordsInv, Tables
<1>2. runs' = f
  BY DEF TimesOut
<1>3. a \in DOMAIN attempts /\ attempts' = [attempts EXCEPT ![a].status = "error"] /\ issued' = issued
      /\ gates' = gates /\ secrets' = secrets /\ keys' = keys /\ finals' = finals /\ ports' = ports
      /\ executors' = executors /\ recent' = recent
  BY DEF TimesOut
<1>4. events' \in [Kinds -> Nat]
  BY <1>1, CountIs DEF Kinds, TimesOut, ServerOK
<1>5. AttemptsOK' /\ Grown
  BY <1>1, <1>3, OneRestated, RestatedIs
<1>6. PortsOK' /\ \A b : WrittenAfter(b) => Written(b)
  BY <1>1, <1>3, <1>5, PortsKept DEF Grown
<1>7. QuestionsOK'
  BY <1>1, <1>3, <1>5, QuestionsKept DEF Grown
<1>8. VerdictsOK' /\ ServerOK'
  BY <1>1, <1>3, <1>4 DEF VerdictsOK, ServerOK
<1>9. ASSUME NEW u \in Tasks
      PROVE  f[u] \in Runs /\ After(u, f[u])
  <2>1. runs[u] \in Runs /\ Awaits(runs[u]) /\ (finals[u] = "none" => Holds(u, runs[u]))
    BY <1>1 DEF RecordsInv, Held, Awaited, RunsOK
  <2>2. After(u, runs[u])
    <3>1. issued' \in Nat /\ issued <= issued' /\ (finals'[u] = "none" => finals[u] = "none")
      BY <1>1, <1>3 DEF AttemptsOK
    <3>2. QED
      BY <1>1, <1>5, <1>6, <2>1, <3>1, OldRun
  <2>3. Run(e(u), runs[u], 0, runs[u].value)
    BY <2>1, RunWaits
  <2>4. f[u] = e(u) \/ f[u] = runs[u]
    OBVIOUS
  <2> HIDE DEF e, f
  <2>5. After(u, e(u))
    BY <1>5, <1>6, <2>2, <2>3, NewRun
  <2>6. QED
    BY <2>1, <2>2, <2>3, <2>4, <2>5 DEF Run
<1>10. RunsOK' /\ Held' /\ Awaited'
  <2>1. f \in [Tasks -> Runs]
    BY <1>9
  <2> HIDE DEF f
  <2>2. QED
    BY <1>2, <1>9, <2>1, RunsConclude
<1>11. QED
  BY <1>5, <1>6, <1>7, <1>8, <1>10 DEF RecordsInv, Tables

LEMMA StepRunEnds ==
  ASSUME RecordsInv, NEW t \in Tasks, RunEnds(t)
  PROVE  RecordsInv'
<1> DEFINE v == IF runs[t].paused \/ finals[t] = "cancelled" THEN finals[t]
                ELSE IF Undone(t) = {} /\ ~runs[t].interrupted THEN "completed" ELSE "failed"
<1>1. RunsOK /\ AttemptsOK /\ PortsOK /\ QuestionsOK /\ VerdictsOK /\ ServerOK
  BY DEF RecordsInv, Tables
<1>2. finals' = [finals EXCEPT ![t] = v]
  BY DEF RunEnds
<1>3. attempts' = attempts /\ issued' = issued /\ gates' = gates /\ secrets' = secrets /\ ports' = ports
      /\ executors' = executors /\ recent' = recent /\ events' = events
  BY DEF RunEnds
<1>4. keys' \subseteq keys
  BY DEF RunEnds
<1>5. runs' = [runs EXCEPT ![t] = NoRun]
  BY DEF RunEnds
<1>6. v \in {finals[t], "completed", "failed"}
  OBVIOUS
<1> HIDE DEF v
<1>7. VerdictsOK' /\ \A u \in Tasks : finals'[u] = "none" => finals[u] = "none"
  BY <1>1, <1>2, <1>6 DEF VerdictsOK
<1>8. AttemptsOK' /\ PortsOK' /\ QuestionsOK' /\ Grown /\ \A b : WrittenAfter(b) => Written(b)
  BY <1>1, <1>3 DEF AttemptsOK, IsElement, PortsOK, QuestionsOK, Grown, Written, WrittenAfter
<1>9. ServerOK'
  BY <1>1, <1>3, <1>4 DEF ServerOK
<1>10. ASSUME NEW u \in Tasks PROVE After(u, runs[u])
  <2>1. Awaits(runs[u]) /\ (finals[u] = "none" => Holds(u, runs[u]))
    BY DEF RecordsInv, Held, Awaited
  <2>2. issued' \in Nat /\ issued <= issued'
    BY <1>1, <1>3 DEF AttemptsOK
  <2>3. QED
    BY <1>1, <1>7, <1>8, <2>1, <2>2, OldRun
<1>11. NoRun \in Runs /\ After(t, NoRun)
  BY <1>8, AfterNoRun, NoRunIs DEF Run
<1>12. RunsOK' /\ Held' /\ Awaited'
  BY <1>1, <1>5, <1>10, <1>11, OneMoves
<1>13. QED
  BY <1>7, <1>8, <1>9, <1>12 DEF RecordsInv, Tables

-----------------------------------------------------------------------------
(* What people do. *)

LEMMA StepAnswer ==
  ASSUME RecordsInv, NEW g \in gates, Answer(g)
  PROVE  RecordsInv'
<1> DEFINE a == g.attempt
           t == attempts[a].task
           s == attempts[a].stage
           st == IF attempts[a].status = "running" THEN "success" ELSE attempts[a].status
           r == [runs[t] EXCEPT !.value[s] = runs[t].at, !.at = 0]
<1>1. RunsOK /\ AttemptsOK /\ PortsOK /\ QuestionsOK /\ VerdictsOK /\ ServerOK
  BY DEF RecordsInv, Tables
<1>2. g \in Questions(DOMAIN attempts) /\ gates \subseteq Questions(DOMAIN attempts) /\ secrets \subseteq Questions(DOMAIN attempts)
  BY <1>1 DEF QuestionsOK, Questions
<1>3. a \in DOMAIN attempts
  BY <1>2 DEF Questions
<1>4. t \in Tasks /\ s \in Stages /\ st \in {"running", "success", "error", "secret_pending", "superseded"}
  BY <1>1, <1>3 DEF AttemptsOK, Rows
<1>5. attempts' = [attempts EXCEPT ![a].status = st]
  BY DEF Answer
<1>6. issued' = issued /\ ports' = ports /\ secrets' = secrets /\ keys' = keys /\ finals' = finals
      /\ executors' = executors /\ recent' = recent /\ events' = events
  BY DEF Answer
<1>7. gates' \subseteq Questions(DOMAIN attempts)
  <2>1. gates' = (gates \ {g}) \cup {[g EXCEPT !.open = FALSE]}
    BY DEF Answer
  <2>2. [g EXCEPT !.open = FALSE] \in Questions(DOMAIN attempts)
    BY <1>2, QuestionCloses
  <2>3. QED
    BY <1>2, <2>1, <2>2
<1>8. runs' = runs \/ runs' = [runs EXCEPT ![t] = r]
  BY DEF Answer
<1> HIDE DEF st
<1>9. Restated
  BY <1>1, <1>3, <1>4, <1>5, OneRestated
<1>10. AttemptsOK' /\ PortsOK' /\ QuestionsOK' /\ Grown /\ \A b : WrittenAfter(b) => Written(b)
  BY <1>2, <1>6, <1>7, <1>9, RestatedRows
<1>11. VerdictsOK' /\ ServerOK'
  BY <1>1, <1>6 DEF VerdictsOK, ServerOK
<1>12. \A u \in Tasks : After(u, runs[u])
  BY <1>6, <1>10, RunsRemain
<1> HIDE DEF t, s
<1>13. runs[t] \in Runs /\ runs[t].at \in Nat /\ runs[t].value \in [Stages -> Nat]
  BY <1>1, <1>4, RunIs DEF RunsOK
<1>14. Run(r, runs[t], 0, [runs[t].value EXCEPT ![s] = runs[t].at])
  BY <1>4, <1>13, RunTakes
<1> HIDE DEF r
<1>15. After(t, r)
  <2>1. ~WrittenAfter(0) /\ 0 \in 0..issued'
    BY <1>10 DEF WrittenAfter, PortsOK, AttemptsOK
  <2>2. After(t, runs[t])
    BY <1>4, <1>12
  <2>3. QED
    BY <1>13, <1>14, <2>1, <2>2 DEF After, Run
<1>16. RunsOK' /\ Held' /\ Awaited'
  BY <1>1, <1>4, <1>8, <1>12, <1>14, <1>15, OneMoves, NoneMoves DEF Run
<1>17. QED
  BY <1>10, <1>11, <1>16 DEF RecordsInv, Tables

LEMMA ClosedIs ==
  ASSUME QuestionsOK, NEW as
  PROVE  /\ ClosedGates(as) \subseteq Questions(DOMAIN attempts)
         /\ ResolvedSecrets(as) \subseteq Questions(DOMAIN attempts)
<1>1. gates \subseteq Questions(DOMAIN attempts) /\ secrets \subseteq Questions(DOMAIN attempts)
  BY DEF QuestionsOK, Questions
<1>2. \A g \in gates : [g EXCEPT !.open = FALSE] \in Questions(DOMAIN attempts)
  BY <1>1, QuestionCloses
<1>3. \A g \in secrets : [g EXCEPT !.open = FALSE] \in Questions(DOMAIN attempts)
  BY <1>1, QuestionCloses
<1>4. QED
  BY <1>1, <1>2, <1>3 DEF ClosedGates, ResolvedSecrets

LEMMA StepCancel ==
  ASSUME RecordsInv, NEW t \in Tasks, Cancel(t)
  PROVE  RecordsInv'
<1> DEFINE r == [runs[t] EXCEPT !.interrupted = runs[t].on]
<1>1. RunsOK /\ AttemptsOK /\ PortsOK /\ QuestionsOK /\ VerdictsOK /\ ServerOK
  BY DEF RecordsInv, Tables
<1>2. finals' = [finals EXCEPT ![t] = "cancelled"] /\ attempts' = attempts /\ issued' = issued /\ ports' = ports
      /\ executors' = executors /\ recent' = recent /\ events' = events
      /\ gates' = ClosedGates(Of(t)) /\ secrets' = ResolvedSecrets(Of(t)) /\ keys' = keys \ {t}
  BY DEF Cancel
<1>3. runs' = [runs EXCEPT ![t] = r]
  BY DEF Cancel
<1>4. QuestionsOK'
  BY <1>1, <1>2, ClosedIs DEF QuestionsOK, Questions
<1>5. AttemptsOK' /\ PortsOK' /\ Grown /\ \A b : WrittenAfter(b) => Written(b)
  BY <1>1, <1>2 DEF AttemptsOK, IsElement, PortsOK, Grown, Written, WrittenAfter
<1>6. VerdictsOK' /\ \A u \in Tasks : finals'[u] = "none" => finals[u] = "none"
  BY <1>1, <1>2 DEF VerdictsOK
<1>7. ServerOK'
  BY <1>1, <1>2 DEF ServerOK
<1>8. \A u \in Tasks : After(u, runs[u])
  BY <1>2, <1>5, <1>6, RunsRemain
<1>9. runs[t] \in Runs /\ runs[t].on \in BOOLEAN
  BY <1>1 DEF RunsOK, Runs
<1>10. Run(r, runs[t], runs[t].at, runs[t].value)
  BY <1>9, RunIsInterrupted
<1> HIDE DEF r
<1>11. After(t, r)
  BY <1>5, <1>8, <1>10, NewRun
<1>12. RunsOK' /\ Held' /\ Awaited'
  BY <1>1, <1>3, <1>8, <1>10, <1>11, OneMoves DEF Run
<1>13. QED
  BY <1>4, <1>5, <1>6, <1>7, <1>12 DEF RecordsInv, Tables

LEMMA RedoIs ==
  ASSUME RecordsInv, NEW t \in Tasks, NEW s, Redo(t, s), issued' = issued, ports' = ports,
         finals' = finals, secrets' \subseteq Questions(DOMAIN attempts)
  PROVE  AttemptsOK' /\ PortsOK' /\ QuestionsOK' /\ RunsOK' /\ Held' /\ Awaited'
<1> DEFINE as == {a \in Of(t) : attempts[a].stage >= s}
           gone == In(as, {"success", "running", "error"}) \ {a \in In(as, {"success"}) : IsElement(a)}
           h == Hydrated(t)
           r == [h EXCEPT !.value = [x \in Stages |-> IF x >= s THEN 0 ELSE h.value[x]]]
<1>1. attempts' = [a \in DOMAIN attempts |->
                     IF a \in gone THEN [attempts[a] EXCEPT !.status = "superseded"] ELSE attempts[a]]
  BY DEF Redo
<1>2. gates' = ClosedGates(as)
  BY DEF Redo
<1>3. runs' = [runs EXCEPT ![t] = r]
  BY DEF Redo
<1>4. Restated
  BY <1>1, SomeRestated DEF RecordsInv, Tables
<1>5. gates' \subseteq Questions(DOMAIN attempts)
  BY <1>2, ClosedIs DEF RecordsInv, Tables
<1>6. AttemptsOK' /\ PortsOK' /\ QuestionsOK' /\ Grown /\ \A b : WrittenAfter(b) => Written(b)
  BY <1>4, <1>5, RestatedRows
<1>7. \A u \in Tasks : After(u, runs[u])
  BY <1>6, RunsRemain
<1>8. h \in Runs /\ h.at = 0 /\ h.value \in [Stages -> Nat] /\ \A x \in Stages : h.value[x] = 0 \/ h.value[x] \in Of(t)
  BY HydratedIs, RunIs DEF RecordsInv
<1> HIDE DEF h
<1>9. r \in Runs /\ r.at = 0 /\ r.value = [x \in Stages |-> IF x >= s THEN 0 ELSE h.value[x]]
  BY <1>8, RunHolds
<1> HIDE DEF r
<1>10. \A x \in Stages : r.value[x] = 0 \/ r.value[x] \in Of(t)
  BY <1>8, <1>9
<1>11. After(t, r)
  BY <1>6, <1>9, <1>10, Resumed DEF Grown
<1>12. RunsOK' /\ Held' /\ Awaited'
  BY <1>3, <1>7, <1>9, <1>11, OneMoves DEF RecordsInv
<1>13. QED
  BY <1>6, <1>12

LEMMA StepRetry ==
  ASSUME RecordsInv, NEW t \in Tasks, NEW s \in Stages, Retry(t, s)
  PROVE  RecordsInv'
<1>1. QuestionsOK /\ VerdictsOK /\ ServerOK
  BY DEF RecordsInv, Tables
<1>2. Redo(t, s) /\ issued' = issued /\ ports' = ports /\ secrets' = secrets /\ keys' = keys /\ finals' = finals
      /\ executors' = executors /\ recent' = recent
  BY DEF Retry
<1>3. events' \in [Kinds -> Nat]
  BY <1>1, CountIs DEF Kinds, Retry, ServerOK
<1>4. secrets' \subseteq Questions(DOMAIN attempts)
  BY <1>1, <1>2 DEF QuestionsOK, Questions
<1>5. AttemptsOK' /\ PortsOK' /\ QuestionsOK' /\ RunsOK' /\ Held' /\ Awaited'
  BY <1>2, <1>4, RedoIs
<1>6. VerdictsOK' /\ ServerOK'
  BY <1>1, <1>2, <1>3 DEF VerdictsOK, ServerOK
<1>7. QED
  BY <1>5, <1>6 DEF RecordsInv, Tables

LEMMA StepProvideSecrets ==
  ASSUME RecordsInv, NEW t \in Tasks, ProvideSecrets(t)
  PROVE  RecordsInv'
<1>1. RunsOK /\ AttemptsOK /\ PortsOK /\ QuestionsOK /\ VerdictsOK /\ ServerOK
  BY DEF RecordsInv, Tables
<1>2. issued' = issued /\ ports' = ports /\ secrets' = ResolvedSecrets(Of(t)) /\ keys' = keys \cup {t}
      /\ finals' = finals /\ executors' = executors /\ recent' = recent /\ events' = events
  BY DEF ProvideSecrets
<1>3. secrets' \subseteq Questions(DOMAIN attempts)
  BY <1>1, <1>2, ClosedIs
<1>4. VerdictsOK' /\ ServerOK'
  BY <1>1, <1>2 DEF VerdictsOK, ServerOK
<1>5. CASE finals[t] = "none"
  <2>1. PICK s : Redo(t, s)
    BY <1>5 DEF ProvideSecrets
  <2>2. AttemptsOK' /\ PortsOK' /\ QuestionsOK' /\ RunsOK' /\ Held' /\ Awaited'
    BY <1>2, <1>3, <2>1, RedoIs
  <2>3. QED
    BY <1>4, <2>2 DEF RecordsInv, Tables
<1>6. CASE finals[t] # "none"
  <2>1. attempts' = attempts /\ gates' = gates /\ runs' = runs
    BY <1>6 DEF ProvideSecrets
  <2>2. AttemptsOK' /\ PortsOK'
    BY <1>1, <1>2, <2>1 DEF AttemptsOK, IsElement, PortsOK
  <2>3. QuestionsOK'
    BY <1>1, <1>3, <2>1 DEF QuestionsOK, Questions
  <2>4. \A u \in Tasks : After(u, runs[u])
    BY <1>2, <2>1, AllStay
  <2>5. RunsOK' /\ Held' /\ Awaited'
    BY <1>1, <2>1, <2>4, NoneMoves
  <2>6. QED
    BY <1>4, <2>2, <2>3, <2>5 DEF RecordsInv, Tables
<1>7. QED
  BY <1>5, <1>6

-----------------------------------------------------------------------------
(* What the debugging tools and the pruner do. *)

\* An attempt outside any run.
LEMMA AloneIs ==
  ASSUME RecordsInv, NEW row \in Rows, row.idx <= New, row.kind # "fanout_element",
         Alone(row), events' \in [Kinds -> Nat]
  PROVE  RecordsInv'
<1> DEFINE pending == [row EXCEPT !.status = "secret_pending"]
           running == [row EXCEPT !.status = "running"]
<1>1. RunsOK /\ AttemptsOK /\ PortsOK /\ QuestionsOK /\ VerdictsOK /\ ServerOK
  BY DEF RecordsInv, Tables
<1>2. ports' = ports /\ gates' = gates /\ keys' = keys /\ finals' = finals /\ runs' = runs
  BY DEF Alone
<1>3. PICK new \in Rows :
        /\ new.idx <= New /\ new.kind # "fanout_element" /\ Start(new)
        /\ Asked(secrets, secrets', New) /\ executors' \subseteq executors \cup {New}
  <2>1. CASE Lacking(row.task, row.stage)
    <3>1. Start(pending) /\ secrets' = secrets \cup {[attempt |-> New, open |-> TRUE]} /\ executors' = executors
      BY <2>1 DEF Alone, StartWithoutKey
    <3>2. pending \in Rows /\ pending.idx <= New /\ pending.kind # "fanout_element"
      BY RowPends
    <3>3. QED
      BY <3>1, <3>2 DEF Asked
  <2>2. CASE ~Lacking(row.task, row.stage)
    <3>1. Start(running) /\ secrets' = secrets /\ executors' = executors \cup {New}
      BY <2>2 DEF Alone, Execute
    <3>2. running \in Rows /\ running.idx <= New /\ running.kind # "fanout_element"
      BY RowRuns
    <3>3. QED
      BY <3>1, <3>2 DEF Asked
  <2>3. QED
    BY <2>1, <2>2
<1>4. /\ AttemptsOK' /\ PortsOK'
      /\ DOMAIN attempts' = DOMAIN attempts \cup {New}
      /\ executors \cup {New} \subseteq 1..issued' /\ recent' \subseteq 1..issued'
      /\ \A u \in Tasks : After(u, runs[u])
  BY <1>2, <1>3, RowStarts
<1>5. QuestionsOK'
  BY <1>1, <1>2, <1>3, <1>4, QuestionsAsked DEF Asked
<1>6. VerdictsOK' /\ ServerOK'
  BY <1>1, <1>2, <1>3, <1>4 DEF VerdictsOK, ServerOK
<1>7. RunsOK' /\ Held' /\ Awaited'
  BY <1>1, <1>2, <1>4, NoneMoves
<1>8. QED
  BY <1>4, <1>5, <1>6, <1>7 DEF RecordsInv, Tables

LEMMA StepReplayStage ==
  ASSUME RecordsInv, NEW a, ReplayStage(a)
  PROVE  RecordsInv'
<1> DEFINE row == Row(attempts[a].task, attempts[a].stage, "replay", "running", attempts[a].read)
<1>1. AttemptsOK /\ events \in [Kinds -> Nat]
  BY DEF RecordsInv, Tables, ServerOK
<1>2. attempts[a] \in Rows
  BY <1>1 DEF ReplayStage, AttemptsOK
<1>3. attempts[a].task \in Tasks /\ attempts[a].stage \in Stages /\ attempts[a].read \in Nat
  BY <1>2 DEF Rows
<1>4. row \in Rows /\ row.idx <= New /\ row.kind = "replay"
  BY <1>1, <1>3, RowIs
<1>5. events' \in [Kinds -> Nat]
  BY <1>1, CountIs DEF Kinds, ReplayStage
<1>6. Alone(row)
  BY DEF ReplayStage
<1> HIDE DEF row
<1>7. QED
  BY <1>4, <1>5, <1>6, AloneIs

LEMMA StepDryRunStage ==
  ASSUME RecordsInv, NEW t \in Tasks, NEW s \in Stages, DryRunStage(t, s)
  PROVE  RecordsInv'
<1> DEFINE row == Row(t, s, "dry_run", "running", 0)
<1>1. AttemptsOK /\ events \in [Kinds -> Nat]
  BY DEF RecordsInv, Tables, ServerOK
<1>2. row \in Rows /\ row.idx <= New /\ row.kind = "dry_run"
  BY <1>1, RowIs
<1>3. events' \in [Kinds -> Nat]
  BY <1>1, CountIs DEF Kinds, DryRunStage
<1>4. Alone(row)
  BY DEF DryRunStage
<1> HIDE DEF row
<1>5. QED
  BY <1>2, <1>3, <1>4, AloneIs

LEMMA StepWriteFromOutside ==
  ASSUME RecordsInv, NEW a, WriteFromOutside(a)
  PROVE  RecordsInv'
<1> DEFINE w == [attempt |-> a, outside |-> TRUE]
<1>1. RunsOK /\ AttemptsOK /\ PortsOK /\ QuestionsOK /\ VerdictsOK /\ ServerOK
  BY DEF RecordsInv, Tables
<1>2. a \in DOMAIN attempts /\ attempts' = attempts /\ issued' = issued
      /\ gates' = gates /\ secrets' = secrets /\ keys' = keys /\ finals' = finals
      /\ executors' = executors /\ recent' = recent /\ runs' = runs
  BY DEF WriteFromOutside
<1>3. Store(w)
  BY DEF WriteFromOutside
<1>4. events' \in [Kinds -> Nat]
  BY <1>1, CountIs DEF Kinds, WriteFromOutside, ServerOK
<1>5. PortsOK' /\ \A b : WrittenAfter(b) => Written(b) \/ w = [attempt |-> b, outside |-> FALSE]
  <2>1. w \in [attempt : DOMAIN attempts', outside : BOOLEAN]
    BY <1>2
  <2>2. QED
    BY <1>1, <1>2, <1>3, <2>1, StoredIs
<1>6. \A b : WrittenAfter(b) => Written(b)
  <2>1. \A b : w # [attempt |-> b, outside |-> FALSE]
    OBVIOUS
  <2>2. QED
    BY <1>5, <2>1
<1>7. AttemptsOK' /\ Grown
  BY <1>1, <1>2 DEF AttemptsOK, IsElement, Grown
<1>8. QuestionsOK'
  BY <1>1, <1>2, QuestionsKept
<1>9. VerdictsOK' /\ ServerOK'
  BY <1>1, <1>2, <1>4 DEF VerdictsOK, ServerOK
<1>10. \A u \in Tasks : After(u, runs[u])
  BY <1>2, <1>6, <1>7, RunsRemain
<1>11. RunsOK' /\ Held' /\ Awaited'
  BY <1>1, <1>2, <1>10, NoneMoves
<1>12. QED
  BY <1>5, <1>7, <1>8, <1>9, <1>11 DEF RecordsInv, Tables

\* Rows of tasks with a verdict go: no run without one stands on them.
LEMMA StepPrune ==
  ASSUME RecordsInv, NEW as, Prune(Prunable(as)), as \subseteq DOMAIN attempts
  PROVE  RecordsInv'
<1> DEFINE gone == Prunable(as)
<1>1. RunsOK /\ AttemptsOK /\ PortsOK /\ QuestionsOK /\ VerdictsOK /\ ServerOK
  BY DEF RecordsInv, Tables
<1>2. /\ attempts' = Restrict(attempts, DOMAIN attempts \ gone)
      /\ ports' = Restrict(ports, DOMAIN ports \ WritesOf(gone))
      /\ gates' = {g \in gates : g.attempt \notin gone}
      /\ {x.attempt : x \in secrets} \cap gone = {}
  BY DEF Prune
<1>3. issued' = issued /\ secrets' = secrets /\ keys' = keys /\ finals' = finals /\ runs' = runs
      /\ executors' = executors /\ recent' = recent
  BY DEF Prune
<1>4. events' \in [Kinds -> Nat]
  BY <1>1, CountIs DEF Kinds, Prune, ServerOK
<1>5. \A a \in gone : finals[attempts[a].task] # "none"
  BY DEF Prunable
<1> HIDE DEF gone
<1>6. DOMAIN attempts' = DOMAIN attempts \ gone /\ \A a \in DOMAIN attempts' : attempts'[a] = attempts[a]
  BY <1>2 DEF Restrict
<1>7. /\ DOMAIN ports' \subseteq DOMAIN ports
      /\ \A k \in DOMAIN ports' : ports'[k] = ports[k] /\ ports[k].attempt \notin gone
  BY <1>2 DEF Restrict, WritesOf
<1>8. AttemptsOK'
  BY <1>1, <1>3, <1>6 DEF AttemptsOK, IsElement
<1>9. PortsOK'
  <2>1. PICK n \in Nat : DOMAIN ports \subseteq 1..n
    BY <1>1 DEF PortsOK
  <2>2. DOMAIN ports' \subseteq 1..n
    BY <1>7, <2>1
  <2>3. \A k \in DOMAIN ports' : ports'[k] \in [attempt : DOMAIN attempts', outside : BOOLEAN]
    BY <1>1, <1>6, <1>7 DEF PortsOK
  <2>4. QED
    BY <2>2, <2>3 DEF PortsOK
<1>10. QuestionsOK'
  <2>1. \A g \in Questions(DOMAIN attempts) : g.attempt \notin gone => g \in Questions(DOMAIN attempts')
    BY <1>6 DEF Questions
  <2>2. gates \subseteq Questions(DOMAIN attempts) /\ secrets \subseteq Questions(DOMAIN attempts)
    BY <1>1 DEF QuestionsOK, Questions
  <2>3. QED
    BY <1>2, <1>3, <2>1, <2>2 DEF QuestionsOK, Questions
<1>11. VerdictsOK' /\ ServerOK'
  BY <1>1, <1>3, <1>4 DEF VerdictsOK, ServerOK
<1>12. ASSUME NEW u \in Tasks PROVE After(u, runs[u])
  <2>1. Awaits(runs[u]) /\ (finals[u] = "none" => Holds(u, runs[u]))
    BY DEF RecordsInv, Held, Awaited
  <2>2. runs[u].at \in 0..issued'
    BY <1>3, <2>1 DEF Awaits
  <2>3. runs[u].on /\ WrittenAfter(runs[u].at) => attempts'[runs[u].at].kind = "fanout_element"
    <3>1. WrittenAfter(runs[u].at) => Written(runs[u].at) /\ runs[u].at \in DOMAIN attempts'
      BY <1>7, <1>9 DEF WrittenAfter, Written, PortsOK
    <3>2. QED
      BY <1>6, <2>1, <3>1 DEF Awaits, IsElement
  <2>4. ASSUME NEW a \in Of(u), finals[u] = "none"
        PROVE  a \in DOMAIN attempts' /\ attempts'[a].task = u
    BY <1>5, <1>6, <2>4 DEF Of
  <2>5. QED
    BY <1>3, <2>1, <2>2, <2>3, <2>4 DEF After, Holds
<1>13. RunsOK' /\ Held' /\ Awaited'
  BY <1>1, <1>3, <1>12, NoneMoves
<1>14. QED
  BY <1>8, <1>9, <1>10, <1>11, <1>13 DEF RecordsInv, Tables

LEMMA StepPruner ==
  ASSUME RecordsInv, Pruner
  PROVE  RecordsInv'
<1>1. CASE \E t \in Tasks : PruneTask(t)
  <2>1. PICK t \in Tasks : PruneTask(t)
    BY <1>1
  <2>2. Of(t) \subseteq DOMAIN attempts
    BY DEF Of
  <2>3. QED
    BY <2>1, <2>2, StepPrune DEF PruneTask
<1>2. CASE \E a \in DOMAIN attempts : PruneOlder(a)
  <2>1. PICK than \in DOMAIN attempts : PruneOlder(than)
    BY <1>2
  <2> DEFINE as == {a \in DOMAIN attempts : a < than}
  <2>2. Prune(Prunable(as)) /\ as \subseteq DOMAIN attempts
    BY <2>1 DEF PruneOlder
  <2> HIDE DEF as
  <2>3. QED
    BY <2>2, StepPrune
<1>3. QED
  BY <1>1, <1>2 DEF Pruner

-----------------------------------------------------------------------------
(* What the server does. *)

LEMMA StepCrash ==
  ASSUME RecordsInv, Crash
  PROVE  RecordsInv'
<1> DEFINE f == [t \in Tasks |-> NoRun]
<1>1. AttemptsOK /\ PortsOK /\ QuestionsOK /\ VerdictsOK /\ ServerOK
  BY DEF RecordsInv, Tables
<1>2. attempts' = attempts /\ issued' = issued /\ ports' = ports /\ gates' = gates /\ secrets' = secrets
      /\ keys' = keys /\ finals' = finals /\ executors' = {} /\ recent' = recent
  BY DEF Crash, db
<1>3. runs' = f
  BY DEF Crash
<1>4. events' \in [Kinds -> Nat]
  BY <1>1, CountIs DEF Kinds, Crash, ServerOK
<1>5. AttemptsOK' /\ PortsOK' /\ QuestionsOK'
  BY <1>1, <1>2 DEF AttemptsOK, IsElement, PortsOK, QuestionsOK
<1>6. VerdictsOK' /\ ServerOK'
  BY <1>1, <1>2, <1>4 DEF VerdictsOK, ServerOK
<1>7. f \in [Tasks -> Runs] /\ \A u \in Tasks : After(u, f[u])
  BY <1>5, AfterNoRun, NoRunIs DEF Run
<1> HIDE DEF f
<1>8. RunsOK' /\ Held' /\ Awaited'
  BY <1>3, <1>7, RunsConclude
<1>9. QED
  BY <1>5, <1>6, <1>8 DEF RecordsInv, Tables

LEMMA StepBoot ==
  ASSUME RecordsInv, Boot
  PROVE  RecordsInv'
<1> DEFINE orphaned == {a \in DOMAIN attempts : attempts[a].task \in Orphans /\ attempts[a].status = "running"}
           f == [t \in Tasks |-> IF t \in Orphans /\ ToResume(t) THEN Hydrated(t) ELSE NoRun]
<1>1. AttemptsOK /\ PortsOK /\ QuestionsOK /\ VerdictsOK /\ ServerOK
  BY DEF RecordsInv, Tables
<1>2. attempts' = [a \in DOMAIN attempts |->
                     IF a \in orphaned THEN [attempts[a] EXCEPT !.status = "superseded"] ELSE attempts[a]]
  BY DEF Boot
<1>3. issued' = issued /\ ports' = ports /\ gates' = gates /\ secrets' = secrets
      /\ executors' = executors /\ recent' = recent /\ events' = events
  BY DEF Boot
<1>4. finals' = [t \in Tasks |-> IF t \in Orphans /\ Recovered(t) THEN "completed" ELSE finals[t]]
  BY DEF Boot
<1>5. keys' \subseteq keys
  BY DEF Boot
<1>6. runs' = f
  BY DEF Boot
<1>7. Restated
  BY <1>1, <1>2, SomeRestated
<1>8. AttemptsOK' /\ PortsOK' /\ QuestionsOK' /\ Grown
  <2>1. gates' \subseteq Questions(DOMAIN attempts) /\ secrets' \subseteq Questions(DOMAIN attempts)
    BY <1>1, <1>3 DEF QuestionsOK, Questions
  <2>2. QED
    BY <1>3, <1>7, <2>1, RestatedRows
<1>9. VerdictsOK'
  BY <1>1, <1>4 DEF VerdictsOK
<1>10. ServerOK'
  BY <1>1, <1>3, <1>5 DEF ServerOK
<1>11. ASSUME NEW u \in Tasks PROVE f[u] \in Runs /\ After(u, f[u])
  <2>1. f[u] = Hydrated(u) \/ f[u] = NoRun
    OBVIOUS
  <2> HIDE DEF f
  <2>2. Hydrated(u) \in Runs /\ Hydrated(u).at = 0
        /\ \A x \in Stages : Hydrated(u).value[x] = 0 \/ Hydrated(u).value[x] \in Of(u)
    BY HydratedIs DEF RecordsInv
  <2>3. After(u, Hydrated(u))
    BY <1>8, <2>2, Resumed
  <2>4. NoRun \in Runs /\ After(u, NoRun)
    BY <1>8, AfterNoRun, NoRunIs DEF Run
  <2>5. QED
    BY <2>1, <2>2, <2>3, <2>4
<1>12. RunsOK' /\ Held' /\ Awaited'
  <2>1. f \in [Tasks -> Runs]
    BY <1>11
  <2> HIDE DEF f
  <2>2. QED
    BY <1>6, <1>11, <2>1, RunsConclude
<1>13. QED
  BY <1>8, <1>9, <1>10, <1>12 DEF RecordsInv, Tables

LEMMA StepTimePasses ==
  ASSUME RecordsInv, TimePasses
  PROVE  RecordsInv'
<1>1. RunsOK /\ AttemptsOK /\ PortsOK /\ QuestionsOK /\ VerdictsOK /\ ServerOK
  BY DEF RecordsInv, Tables
<1>2. attempts' = attempts /\ issued' = issued /\ ports' = ports /\ gates' = gates /\ secrets' = secrets
      /\ keys' = keys /\ finals' = finals /\ runs' = runs /\ executors' = executors /\ events' = events
  BY DEF TimePasses, db
<1>3. recent' \subseteq executors
  BY DEF TimePasses
<1>4. AttemptsOK' /\ PortsOK' /\ QuestionsOK'
  BY <1>1, <1>2 DEF AttemptsOK, IsElement, PortsOK, QuestionsOK
<1>5. VerdictsOK' /\ ServerOK'
  BY <1>1, <1>2, <1>3 DEF VerdictsOK, ServerOK
<1>6. \A u \in Tasks : After(u, runs[u])
  BY <1>2, AllStay
<1>7. RunsOK' /\ Held' /\ Awaited'
  BY <1>1, <1>2, <1>6, NoneMoves
<1>8. QED
  BY <1>4, <1>5, <1>7 DEF RecordsInv, Tables

LEMMA StepNothing ==
  ASSUME RecordsInv, UNCHANGED vars
  PROVE  RecordsInv'
<1>1. attempts' = attempts /\ issued' = issued /\ ports' = ports /\ gates' = gates /\ secrets' = secrets
      /\ keys' = keys /\ finals' = finals /\ runs' = runs /\ executors' = executors
      /\ recent' = recent /\ events' = events
  BY DEF vars
<1>2. Tables'
  BY <1>1, Unchanged DEF RecordsInv
<1>3. \A u \in Tasks : After(u, runs[u])
  BY <1>1, AllStay
<1>4. RunsOK' /\ Held' /\ Awaited'
  BY <1>1, <1>3, NoneMoves DEF RecordsInv
<1>5. QED
  BY <1>2, <1>4 DEF RecordsInv

-----------------------------------------------------------------------------
(* The theorems. *)

LEMMA RecordsInit == Init => RecordsInv
<1> SUFFICES ASSUME Init PROVE RecordsInv
  OBVIOUS
<1>1. attempts = <<>> /\ issued = 0 /\ ports = <<>> /\ gates = {} /\ secrets = {}
  BY DEF Init
<1>2. AttemptsOK /\ QuestionsOK
  BY <1>1 DEF AttemptsOK, QuestionsOK
<1>3. PortsOK
  <2>1. DOMAIN ports \subseteq 1..0
    BY <1>1
  <2>2. QED
    BY <1>1, <2>1 DEF PortsOK
<1>4. VerdictsOK
  BY DEF Init, VerdictsOK
<1>5. ServerOK
  <2>1. keys \subseteq Tasks
    BY DEF Init
  <2>2. executors = {} /\ recent = {} /\ events = [k \in Kinds |-> 0]
    BY DEF Init
  <2>3. QED
    BY <2>1, <2>2 DEF ServerOK
<1>6. ASSUME NEW u \in Tasks
      PROVE  runs[u] \in Runs /\ runs[u].at = 0 /\ \A s \in Stages : runs[u].value[s] = 0
  <2> DEFINE z == [s \in Stages |-> 0]
             q == [NoRun EXCEPT !.on = TRUE]
  <2>1. runs[u] = NoRun \/ runs[u] = q
    BY DEF Init
  <2>2. Run(NoRun, NoRun, 0, z)
    BY NoRunIs
  <2>3. q \in Runs /\ q.at = NoRun.at /\ q.value = NoRun.value
    BY <2>2, RunStarts DEF Run
  <2> HIDE DEF q
  <2>4. QED
    BY <2>1, <2>2, <2>3 DEF Run
<1>7. RunsOK
  <2>1. runs \in [Tasks -> {NoRun, [NoRun EXCEPT !.on = TRUE]}]
    BY DEF Init
  <2>2. QED
    BY <1>6, <2>1 DEF RunsOK
<1>8. Held
  BY <1>6 DEF Held, Holds
<1>9. Awaited
  <2>1. \A b : ~Written(b)
    BY <1>1 DEF Written
  <2>2. QED
    BY <1>1, <1>6, <2>1 DEF Awaited, Awaits
<1>10. QED
  BY <1>2, <1>3, <1>4, <1>5, <1>7, <1>8, <1>9 DEF RecordsInv, Tables

LEMMA RecordsStep ==
  ASSUME RecordsInv, [Next]_vars
  PROVE  RecordsInv'
<1>1. CASE \E t \in Tasks : Advance(t)
  BY <1>1, StepOpenGate, StepStartStage, StepPauseForSecret, StepBeginPass, StepStartElement, StepAggregate
     DEF Advance
<1>2. CASE Person
  <2>1. CASE \E g \in gates : Answer(g)
    BY <2>1, StepAnswer
  <2>2. CASE \E t \in Tasks : Cancel(t) \/ ProvideSecrets(t) \/ \E s \in Stages : Retry(t, s)
    BY <2>2, StepCancel, StepProvideSecrets, StepRetry
  <2>3. QED
    BY <1>2, <2>1, <2>2 DEF Person
<1>3. CASE Debugger
  BY <1>3, StepReplayStage, StepWriteFromOutside, StepDryRunStage DEF Debugger
<1>4. CASE \E a \in executors : ExecutorStep(a)
  BY <1>4, StepWrite, StepFinish, StepRowless, StepAgentRetries, StepTimesOut DEF ExecutorStep
<1>5. CASE \E t \in Tasks : RunEnds(t)
  BY <1>5, StepRunEnds
<1>6. CASE Pruner \/ Crash \/ Boot \/ TimePasses
  BY <1>6, StepPruner, StepCrash, StepBoot, StepTimePasses
<1>7. CASE UNCHANGED vars
  BY <1>7, StepNothing
<1>8. QED
  BY <1>1, <1>2, <1>3, <1>4, <1>5, <1>6, <1>7 DEF Next

LEMMA PoweredStep ==
  ASSUME Powered, [Next]_vars
  PROVE  Powered'
<1>1. up' = up \/ up' = TRUE \/ up' = FALSE
  BY Zenon DEF Next, vars, db, Advance, OpenGate, StartStage, PauseForSecret, BeginPass, StartElement, Aggregate,
     Person, Answer, Cancel, ProvideSecrets, Retry, Debugger, ReplayStage, WriteFromOutside, DryRunStage, Alone,
     ExecutorStep, Write, Finish, Rowless, AgentRetries, TimesOut, RunEnds, Pruner, PruneTask, PruneOlder, Prune,
     Crash, Boot, TimePasses
<1>2. QED
  BY <1>1 DEF Powered

\* The invariant holds in every reachable state.
THEOREM RecordsInvariant == Spec => [](RecordsInv /\ Powered)
<1>1. Init => RecordsInv /\ Powered
  <2>1. Init => Powered
    BY DEF Init, Powered
  <2>2. QED
    BY <2>1, RecordsInit
<1>2. RecordsInv /\ Powered /\ [Next]_vars => (RecordsInv /\ Powered)'
  BY RecordsStep, PoweredStep
<1>3. QED
  BY <1>1, <1>2, PTL DEF Spec

\* Every row, and everything the server knows of a task, keeps its type: no two
\* attempts share an id, questions and ports belong to attempts in the database, and a
\* run only collects elements the array has.
THEOREM RecordTypes == Spec => []TypeOK
<1>1. RecordsInv /\ Powered => TypeOK
  BY DEF RecordsInv, Tables, Powered, AttemptsOK, PortsOK, QuestionsOK, VerdictsOK, ServerOK, RunsOK, TypeOK
<1>2. QED
  BY <1>1, RecordsInvariant, PTL

\* Pruning by task or by age takes no row that a run at work stands on
\* (buildAttemptSelectWhere), however the run came to hold it: the inputs it was given,
\* those a boot or a retry hydrated, and the attempt it waits for.
THEOREM HistoryKept == Spec => []HistoryIsKept
<1>1. RecordsInv => HistoryIsKept
  <2> SUFFICES ASSUME RecordsInv, NEW t \in Tasks, Working(t)
               PROVE  (Range(runs[t].value) \cup {runs[t].at}) \ {0} \subseteq DOMAIN attempts
    BY DEF HistoryIsKept
  <2>1. Holds(t, runs[t])
    BY DEF Working, RecordsInv, Held
  <2>2. DOMAIN runs[t].value = Stages
    BY RunIs DEF RecordsInv, RunsOK
  <2>3. QED
    BY <2>1, <2>2 DEF Holds, Of, Range
<1>2. QED
  BY <1>1, RecordsInvariant, PTL

-----------------------------------------------------------------------------
(* What the status is told from: an inductive invariant. *)

Open(a) == [attempt |-> a, open |-> TRUE]

\* What a run waits for is an attempt of its task, at the first stage that is not done.
AtStands ==
  \A t \in Tasks : runs[t].at \in DOMAIN attempts =>
    /\ attempts[runs[t].at].task = t /\ attempts[runs[t].at].stage = At(t)
    /\ Undone(t) # {}
    /\ At(t) \in Fanouts => IsElement(runs[t].at)

\* A pass is one over the array of the fanout the run is at.
PassIsAtFanout == \A t \in Tasks : runs[t].pass => Undone(t) # {} /\ At(t) \in Fanouts

\* People answer gates, and nobody else has one to do.
GatesAreGates ==
  /\ \A g \in gates : attempts[g.attempt].stage \in Gates
  /\ \A a \in executors \cap DOMAIN attempts : attempts[a].stage \notin Gates

\* Whatever is running has an executor or an open question, once the server is up.
RunningIsAttended ==
  up => \A a \in DOMAIN attempts :
    attempts[a].status = "running" /\ finals[attempts[a].task] = "none" =>
      a \in executors \/ Open(a) \in gates

\* Only a cancelled task can have both a verdict and a run.
OnIsOpen ==
  \A t \in Tasks : /\ runs[t].on => finals[t] \in {"none", "cancelled"}
                   /\ runs[t].interrupted => finals[t] = "cancelled"

\* No attempt of the stage is newer, replays excepted.
Newest(a) ==
  \A b \in OfStage(attempts[a].task, attempts[a].stage) :
    b = a \/ attempts[b].kind = "replay" \/ attempts[b].idx < attempts[a].idx

\* What an attempt shows that a run at work waits for.
Shown(a) ==
  IF attempts[a].stage \in Gates THEN Open(a) \in gates
  ELSE /\ attempts[a].status = "running" /\ a \in executors
       /\ attempts[a].stage \in Agents => a \in recent
       /\ attempts[a].stage \notin Agents => Newest(a)

WorkIsShown == \A t \in Tasks : Working(t) /\ runs[t].at # 0 => Shown(runs[t].at)

\* Without outages, a question is open only while its run waits for the answer.
OpenIsAwaited ==
  events["outages"] = 0 => \A g \in gates : g.open =>
    LET t == attempts[g.attempt].task IN
      finals[t] = "cancelled" \/ (runs[t].on /\ runs[t].at = g.attempt /\ ~Over(t))

\* A server that is down went down.
OutageIsCounted == ~up => events["outages"] # 0

StatusInv ==
  OutageIsCounted /\ AtStands /\ PassIsAtFanout /\ GatesAreGates /\ RunningIsAttended /\ OnIsOpen /\ WorkIsShown /\ OpenIsAwaited

-----------------------------------------------------------------------------
(* It implies the property. *)

\* Latest is one of the greatest index.
LEMMA LatestIs ==
  ASSUME AttemptsOK, NEW as \in SUBSET (DOMAIN attempts), as # {}
  PROVE  Latest(as) \in as /\ \A b \in as : attempts[b].idx <= attempts[Latest(as)].idx
<1> DEFINE I == {attempts[a].idx : a \in as}
<1>1. I \in SUBSET (0..issued) /\ I # {} /\ issued \in Nat
  <2>1. ASSUME NEW a \in as PROVE attempts[a].idx \in 0..issued
    <3>1. attempts[a] \in Rows /\ attempts[a].idx <= issued /\ issued \in Nat
      BY DEF AttemptsOK
    <3>2. QED
      BY <3>1 DEF Rows
  <2>2. QED
    BY <2>1 DEF AttemptsOK
<1>2. Max(I) \in I /\ \A y \in I : y <= Max(I)
  BY <1>1, Greatest
<1>3. \E a \in as : \A b \in as : attempts[b].idx <= attempts[a].idx
  BY <1>2
<1>4. QED
  BY <1>3 DEF Latest

LEMMA StatusFollows ==
  ASSUME RecordsInv, Powered, StatusInv
  PROVE  StatusIsTrue
<1> SUFFICES ASSUME up, Settled, NEW t \in Tasks
             PROVE  /\ Working(t) /\ ~Overtaken(t) => Status(t) \in {"running", "gated", "secret_pending"}
                    /\ AtGate(t) /\ OpenSecrets(t) = {} => Status(t) = "gated" /\ Listed(t) = "gated"
                    /\ /\ Of(t) # {} /\ finals[t] = "none" /\ ~runs[t].on
                       /\ Of(t) \cap (executors \cup recent) = {} /\ OpenGates(t) = {} /\ OpenSecrets(t) = {}
                       => Status(t) = "orphaned"
                    /\ finals[t] \in {"completed", "failed"} /\ events["outages"] = 0 /\ OpenSecrets(t) = {} =>
                         Status(t) = finals[t] /\ Listed(t) = finals[t]
  BY DEF StatusIsTrue
<1> DEFINE a == runs[t].at
<1>1. AttemptsOK /\ RunsOK /\ QuestionsOK
  BY DEF RecordsInv, Tables
<1>2. OpenSecrets(t) = {} => PendingSecrets(t) = {}
  BY DEF PendingSecrets
<1>3. ASSUME Working(t)
      PROVE  /\ a # 0 /\ a \in Of(t) /\ attempts[a].stage = At(t) /\ Shown(a) /\ finals[t] = "none"
             /\ attempts[a].stage \in Gates => OpenGates(t) # {}
  <2>1. a # 0
    BY <1>3 DEF Settled, Ready, Working
  <2>2. a \in Of(t)
    BY <1>3, <2>1 DEF RecordsInv, Held, Holds, Working
  <2>3. attempts[a].stage = At(t)
    BY <2>2 DEF StatusInv, AtStands, Of
  <2>4. Shown(a)
    BY <1>3, <2>1 DEF StatusInv, WorkIsShown
  <2>5. attempts[a].stage \in Gates => Open(a) \in OpenGates(t)
    BY <2>2, <2>4 DEF Shown, OpenGates, Open
  <2>6. QED
    BY <1>3, <2>1, <2>2, <2>3, <2>4, <2>5 DEF Working
<1>4. ASSUME Working(t), ~Overtaken(t)
      PROVE  Status(t) \in {"running", "gated", "secret_pending"}
  <2>1. CASE attempts[a].stage \in Gates
    BY <1>3, <1>4, <2>1 DEF Status
  <2>2. CASE attempts[a].stage \in Agents \ Gates
    <3>1. AliveLately(t)
      <4>1. a \in Of(t) /\ a \in recent /\ attempts[a].status = "running"
        BY <1>3, <1>4, <2>2 DEF Shown
      <4>2. a \notin In(Of(t), {"superseded"})
        BY <4>1 DEF In
      <4>3. QED
        BY <4>1, <4>2 DEF AliveLately
    <3>2. Of(t) # {} /\ finals[t] = "none"
      BY <1>3, <1>4
    <3> HIDE DEF a
    <3>3. QED
      BY <3>1, <3>2 DEF Status
  <2>3. CASE attempts[a].stage \notin Gates \cup Agents
    <3> DEFINE as == OfStage(t, attempts[a].stage)
    <3>1. a \in as /\ as \in SUBSET (DOMAIN attempts) /\ attempts[a].task = t /\ attempts[a].status = "running"
      BY <1>3, <1>4, <2>3 DEF OfStage, Of, Shown
    <3>2. \A b \in as : attempts[b].kind # "replay"
      BY <1>3, <1>4, <2>3 DEF Overtaken
    <3>3. \A b \in as : b = a \/ attempts[b].idx < attempts[a].idx
      BY <1>3, <1>4, <2>3, <3>1, <3>2 DEF Shown, Newest
    <3>4. Latest(as) \in as /\ attempts[a].idx <= attempts[Latest(as)].idx
      BY <1>1, <3>1, LatestIs
    <3>5. attempts[a].idx \in Nat /\ attempts[Latest(as)].idx \in Nat
      BY <1>1, <3>1, <3>4 DEF AttemptsOK, Rows
    <3>6. a = Latest(as)
      BY <3>3, <3>4, <3>5
    <3>7. a \in In(Of(t), {"running"})
      BY <1>3, <1>4, <3>1 DEF In
    <3>8. \E b \in In(Of(t), {"running"}) : b = Latest(OfStage(t, attempts[b].stage))
      BY <3>6, <3>7
    <3>9. QED
      BY <1>3, <1>4, <3>8 DEF Status
  <2>4. QED
    BY <2>1, <2>2, <2>3
<1>5. AtGate(t) /\ OpenSecrets(t) = {} => Status(t) = "gated" /\ Listed(t) = "gated"
  BY <1>2, <1>3 DEF AtGate, Status, Listed
<1>6. ASSUME Of(t) # {}, finals[t] = "none", Of(t) \cap (executors \cup recent) = {},
             OpenGates(t) = {}, OpenSecrets(t) = {}
      PROVE  Status(t) = "orphaned"
  <2>1. In(Of(t), {"running"}) = {}
    <3>1. ASSUME NEW b \in Of(t), attempts[b].status = "running" PROVE FALSE
      <4>1. b \in DOMAIN attempts /\ attempts[b].task = t
        BY DEF Of
      <4>2. Open(b) \in gates
        BY <1>6, <3>1, <4>1 DEF StatusInv, RunningIsAttended
      <4>3. Open(b) \in OpenGates(t)
        BY <3>1, <4>2 DEF OpenGates, Open
      <4>4. QED
        BY <1>6, <4>3
    <3>2. QED
      BY <3>1 DEF In
  <2>2. ~AliveLately(t)
    BY <1>6 DEF AliveLately
  <2>3. QED
    BY <1>2, <1>6, <2>1, <2>2 DEF Status
<1>7. ASSUME finals[t] \in {"completed", "failed"}, events["outages"] = 0, OpenSecrets(t) = {}
      PROVE  Status(t) = finals[t] /\ Listed(t) = finals[t]
  <2>1. OpenGates(t) = {}
    <3>1. ASSUME NEW g \in gates, g.open, g.attempt \in Of(t) PROVE FALSE
      <4>1. attempts[g.attempt].task = t
        BY <3>1 DEF Of
      <4>2. runs[t].on
        BY <1>7, <3>1, <4>1 DEF StatusInv, OpenIsAwaited
      <4>3. QED
        BY <1>7, <4>2 DEF StatusInv, OnIsOpen
    <3>2. QED
      BY <3>1 DEF OpenGates
  <2>2. QED
    BY <1>2, <1>7, <2>1 DEF Status, Listed
<1>8. QED
  BY <1>4, <1>5, <1>6, <1>7

-----------------------------------------------------------------------------
(* What keeps each part. *)

\* Attempts are known by what they were opened with.
Known ==
  \A a \in DOMAIN attempts' : a = New \/
    /\ a \in DOMAIN attempts
    /\ attempts'[a].task = attempts[a].task /\ attempts'[a].stage = attempts[a].stage
    /\ attempts'[a].kind = attempts[a].kind /\ attempts'[a].idx = attempts[a].idx

LEMMA NewIsNew ==
  ASSUME RecordsInv
  PROVE  /\ New \in Nat /\ New # 0 /\ New \notin DOMAIN attempts /\ New \notin executors
         /\ \A g \in gates : g.attempt # New /\ g.attempt \in DOMAIN attempts
         /\ \A u \in Tasks : runs[u].at # New
         /\ 0 \notin DOMAIN attempts
<1>1. issued \in Nat /\ DOMAIN attempts \subseteq 1..issued /\ executors \subseteq 1..issued /\ New = issued + 1
  BY DEF RecordsInv, Tables, AttemptsOK, ServerOK, New
<1>2. New \in Nat /\ New # 0 /\ New \notin DOMAIN attempts /\ New \notin executors /\ 0 \notin DOMAIN attempts
  BY <1>1
<1>3. \A g \in gates : g.attempt \in DOMAIN attempts
  BY DEF RecordsInv, Tables, QuestionsOK
<1>4. \A u \in Tasks : runs[u].at \in 0..issued
  BY DEF RecordsInv, Awaited, Awaits
<1>5. QED
  BY <1>1, <1>2, <1>3, <1>4

\* Questions are closed, or asked by a new gate; nobody new works on a gate.
LEMMA GatesStay ==
  ASSUME RecordsInv, RecordsInv', GatesAreGates, Known,
         \A g \in gates' : (\E h \in gates : h.attempt = g.attempt)
                           \/ (g.attempt = New /\ attempts'[New].stage \in Gates),
         \A a \in executors' : a \in executors \/ (a = New /\ attempts'[New].stage \notin Gates)
  PROVE  GatesAreGates'
<1>1. \A g \in gates' : g.attempt \in DOMAIN attempts'
  BY DEF RecordsInv, Tables, QuestionsOK
<1>2. New \notin executors /\ \A g \in gates : g.attempt # New
  BY NewIsNew
<1>3. ASSUME NEW g \in gates' PROVE attempts'[g.attempt].stage \in Gates
  BY <1>1, <1>2 DEF GatesAreGates, Known
<1>4. ASSUME NEW a \in executors' \cap DOMAIN attempts' PROVE attempts'[a].stage \notin Gates
  BY <1>2 DEF GatesAreGates, Known
<1>5. QED
  BY <1>3, <1>4 DEF GatesAreGates

\* The run of u goes on as it was, as far as the status is told from it.
Same(u) ==
  /\ runs'[u].on = runs[u].on /\ runs'[u].at = runs[u].at /\ runs'[u].value = runs[u].value
  /\ runs'[u].failed = runs[u].failed /\ runs'[u].paused = runs[u].paused
  /\ runs'[u].interrupted = runs[u].interrupted /\ runs'[u].pass = runs[u].pass

LEMMA SameIs ==
  ASSUME NEW u \in Tasks, Same(u)
  PROVE  Undone(u)' = Undone(u) /\ At(u)' = At(u) /\ (Over(u)' <=> Over(u))
<1>1. Undone(u)' = Undone(u)
  BY DEF Undone, Same
<1>2. QED
  BY <1>1 DEF At, Over, Same

\* What it waits for, of which it waits no longer, waits as before or waits anew.
Rests(u) == runs'[u].at = 0
Waits(u) == runs'[u].at = runs[u].at /\ runs'[u].value = runs[u].value
Takes(u) ==
  /\ runs'[u].at = New /\ runs'[u].value = runs[u].value /\ Undone(u) # {}
  /\ New \in DOMAIN attempts' /\ attempts'[New].task = u /\ attempts'[New].stage = At(u)
  /\ At(u) \in Fanouts => attempts'[New].kind = "fanout_element"

LEMMA StandsStay ==
  ASSUME RecordsInv, RecordsInv', AtStands, Known, \A u \in Tasks : Rests(u) \/ Waits(u) \/ Takes(u)
  PROVE  AtStands'
<1> SUFFICES ASSUME NEW u \in Tasks, runs'[u].at \in DOMAIN attempts'
             PROVE  /\ attempts'[runs'[u].at].task = u /\ attempts'[runs'[u].at].stage = At(u)'
                    /\ Undone(u)' # {}
                    /\ At(u)' \in Fanouts => IsElement(runs[u].at)'
  BY DEF AtStands
<1>1. ~Rests(u)
  <2>1. 0 \notin DOMAIN attempts'
    BY DEF RecordsInv, Tables, AttemptsOK
  <2>2. QED
    BY <2>1 DEF Rests
<1>2. runs'[u].value = runs[u].value
  BY <1>1 DEF Waits, Takes
<1>3. Undone(u)' = Undone(u)
  BY <1>2 DEF Undone
<1>4. At(u)' = At(u)
  BY <1>3 DEF At
<1>5. CASE Waits(u)
  <2>1. runs[u].at # New
    BY NewIsNew
  <2>2. QED
    BY <1>3, <1>4, <1>5, <2>1 DEF Waits, Known, AtStands, IsElement
<1>6. CASE Takes(u)
  BY <1>3, <1>4, <1>6 DEF Takes, IsElement
<1>7. QED
  BY <1>1, <1>5, <1>6

LEMMA PassStays ==
  ASSUME PassIsAtFanout,
         \A u \in Tasks : runs'[u].pass =>
           runs'[u].value = runs[u].value /\ (runs[u].pass \/ (Undone(u) # {} /\ At(u) \in Fanouts))
  PROVE  PassIsAtFanout'
<1> SUFFICES ASSUME NEW u \in Tasks, runs'[u].pass
             PROVE  Undone(u)' # {} /\ At(u)' \in Fanouts
  BY DEF PassIsAtFanout
<1>1. runs'[u].value = runs[u].value /\ Undone(u) # {} /\ At(u) \in Fanouts
  BY DEF PassIsAtFanout
<1>2. Undone(u)' = Undone(u)
  BY <1>1 DEF Undone
<1>3. At(u)' = At(u)
  BY <1>2 DEF At
<1>4. QED
  BY <1>1, <1>2, <1>3

\* A new attempt is not in the way of what a shows.
Aside(a) ==
  New \in DOMAIN attempts' =>
    \/ attempts'[New].task # attempts[a].task
    \/ attempts'[New].stage # attempts[a].stage
    \/ attempts'[New].stage \in Agents
    \/ attempts'[New].kind = "replay"

LEMMA ShownStays ==
  ASSUME RecordsInv, Known, NEW a \in DOMAIN attempts, a \in DOMAIN attempts', Shown(a), Aside(a),
         a \in executors => a \in executors' /\ attempts'[a].status = attempts[a].status,
         a \in executors /\ attempts[a].stage \in Agents /\ a \in recent => a \in recent',
         Open(a) \in gates => Open(a) \in gates'
  PROVE  Shown(a)'
<1>1. a # New
  BY NewIsNew
<1>2. attempts'[a].task = attempts[a].task /\ attempts'[a].stage = attempts[a].stage /\ attempts'[a].idx = attempts[a].idx
  BY <1>1 DEF Known
<1>3. CASE attempts[a].stage \in Gates
  BY <1>2, <1>3 DEF Shown, Open
<1>4. CASE attempts[a].stage \notin Gates
  <2>1. attempts[a].status = "running" /\ a \in executors /\ (attempts[a].stage \in Agents => a \in recent)
        /\ (attempts[a].stage \notin Agents => Newest(a))
    BY <1>4 DEF Shown
  <2>2. attempts[a].stage \notin Agents => Newest(a)'
    <3> SUFFICES ASSUME attempts[a].stage \notin Agents, NEW b \in DOMAIN attempts',
                        attempts'[b].task = attempts[a].task, attempts'[b].stage = attempts[a].stage
                 PROVE  b = a \/ attempts'[b].kind = "replay" \/ attempts'[b].idx < attempts'[a].idx
      BY <1>2 DEF Newest, OfStage, Of
    <3>1. CASE b = New
      BY <3>1 DEF Aside
    <3>2. CASE b # New
      BY <1>2, <2>1, <3>2 DEF Known, Newest, OfStage, Of
    <3>3. QED
      BY <3>1, <3>2
  <2>3. QED
    BY <1>2, <1>4, <2>1, <2>2 DEF Shown
<1>5. QED
  BY <1>3, <1>4

LEMMA WorkStays ==
  ASSUME RecordsInv, WorkIsShown, NEW new,
         \A u \in Tasks :
           \/ Rests(u) \/ ~Working(u)' \/ (runs'[u].at = new /\ Shown(new)')
           \/ Working(u) /\ Waits(u) /\ (runs[u].at \in Of(u) /\ Shown(runs[u].at) => Shown(runs[u].at)')
  PROVE  WorkIsShown'
<1> SUFFICES ASSUME NEW u \in Tasks, Working(u)', runs'[u].at # 0
             PROVE  Shown(runs[u].at)'
  BY DEF WorkIsShown
<1>1. CASE runs'[u].at = new /\ Shown(new)'
  BY <1>1 DEF Shown, Open, Newest
<1>2. CASE Working(u) /\ Waits(u) /\ (runs[u].at \in Of(u) /\ Shown(runs[u].at) => Shown(runs[u].at)')
  <2>1. runs[u].at \in Of(u)
    BY <1>2 DEF Waits, Working, RecordsInv, Held, Holds
  <2>2. Shown(runs[u].at)
    BY <1>2 DEF Waits, WorkIsShown
  <2>3. QED
    BY <1>2, <2>1, <2>2
<1>3. QED
  BY <1>1, <1>2 DEF Rests

\* What is running stays attended, or is attended anew.
LEMMA AttendedStay ==
  ASSUME RunningIsAttended, Known,
         up' => \A a \in DOMAIN attempts' :
           attempts'[a].status = "running" /\ finals'[attempts'[a].task] = "none" =>
             \/ a \in executors' \/ Open(a) \in gates'
             \/ /\ up /\ a # New /\ attempts[a].status = "running" /\ finals[attempts[a].task] = "none"
                /\ a \in executors => a \in executors'
                /\ Open(a) \in gates => Open(a) \in gates'
  PROVE  RunningIsAttended'
BY DEF RunningIsAttended, Known, Open

\* The run a question is for goes on, or the question is closed.
LEMMA AwaitedStay ==
  ASSUME RecordsInv, RecordsInv', OpenIsAwaited, Known, events'["outages"] = 0 => events["outages"] = 0,
         \A g \in gates' : \A u \in Tasks : g.open /\ u = attempts'[g.attempt].task /\ events'["outages"] = 0 =>
             \/ finals'[u] = "cancelled"
             \/ g \in gates /\ (Same(u) \/ runs[u].at # g.attempt) /\ (finals[u] = "cancelled" => finals'[u] = "cancelled")
             \/ g.attempt = New /\ runs'[u].on /\ runs'[u].at = New /\ ~Over(u)'
  PROVE  OpenIsAwaited'
<1> SUFFICES ASSUME events'["outages"] = 0, NEW g \in gates', g.open,
                    NEW u \in Tasks, u = attempts'[g.attempt].task, finals'[u] # "cancelled"
             PROVE  runs'[u].on /\ runs'[u].at = g.attempt /\ ~Over(u)'
  <2>1. \A g \in gates' : attempts'[g.attempt].task \in Tasks
    BY DEF RecordsInv, Tables, QuestionsOK, AttemptsOK, Rows
  <2>2. QED
    BY <2>1 DEF OpenIsAwaited
<1>1. g.attempt \in DOMAIN attempts'
  BY DEF RecordsInv, Tables, QuestionsOK
<1>2. CASE g.attempt = New /\ runs'[u].on /\ runs'[u].at = New /\ ~Over(u)'
  BY <1>2
<1>3. CASE g \in gates /\ (Same(u) \/ runs[u].at # g.attempt) /\ (finals[u] = "cancelled" => finals'[u] = "cancelled")
  <2>1. g.attempt # New
    BY <1>3, NewIsNew
  <2>2. attempts[g.attempt].task = u
    BY <1>1, <2>1 DEF Known
  <2>3. runs[u].on /\ runs[u].at = g.attempt /\ ~Over(u)
    BY <1>3, <2>2 DEF OpenIsAwaited
  <2>4. Same(u)
    BY <1>3, <2>3
  <2>5. QED
    BY <1>1, <2>3, <2>4, SameIs DEF Same
<1>4. QED
  BY <1>2, <1>3

-----------------------------------------------------------------------------
(* Actions that open an attempt. *)

LEMMA OpensRow ==
  ASSUME RecordsInv, NEW row, attempts' = Put(attempts, New, row)
  PROVE  /\ Known /\ DOMAIN attempts' = DOMAIN attempts \cup {New} /\ attempts'[New] = row
         /\ \A a \in DOMAIN attempts : attempts'[a] = attempts[a]
<1>1. New \notin DOMAIN attempts
  BY NewIsNew
<1>2. /\ DOMAIN attempts' = DOMAIN attempts \cup {New} /\ attempts'[New] = row
      /\ \A a \in DOMAIN attempts : attempts'[a] = attempts[a]
  BY <1>1 DEF Put
<1>3. QED
  BY <1>2 DEF Known

\* It is the newest of its stage.
LEMMA RowIsNewest ==
  ASSUME RecordsInv, NEW t, NEW s, NEW kind, NEW status, NEW read, NEW b \in OfStage(t, s)
  PROVE  attempts[b].idx < Row(t, s, kind, status, read).idx
<1> DEFINE I == {0} \cup {attempts[a].idx : a \in OfStage(t, s)}
<1>1. ASSUME NEW a \in OfStage(t, s) PROVE attempts[a].idx \in 0..issued
  <2>1. attempts[a] \in Rows /\ attempts[a].idx <= issued /\ issued \in Nat
    BY DEF OfStage, Of, RecordsInv, Tables, AttemptsOK
  <2>2. QED
    BY <2>1 DEF Rows
<1>2. I \in SUBSET (0..issued) /\ I # {} /\ issued \in Nat
  BY <1>1 DEF RecordsInv, Tables, AttemptsOK
<1>3. Max(I) \in 0..issued /\ attempts[b].idx <= Max(I)
  BY <1>2, Greatest
<1>4. Row(t, s, kind, status, read).idx = 1 + Max(I)
  BY DEF Row
<1>5. QED
  BY <1>1, <1>2, <1>3, <1>4

\* The run of t, which waits for nothing, opens the attempt or goes on without it.
Begins(t, row) ==
  /\ Ready(t) /\ runs'[t].on = runs[t].on /\ runs'[t].interrupted = runs[t].interrupted
  /\ runs'[t].pass => runs[t].pass /\ runs'[t].value = runs[t].value
  /\ \/ runs'[t].at = 0
     \/ /\ runs'[t].at = New /\ runs'[t].value = runs[t].value
        /\ runs'[t].failed = runs[t].failed /\ runs'[t].paused = runs[t].paused
        /\ row.stage = At(t) /\ row.status = "running"
        /\ At(t) \in Fanouts => row.kind = "fanout_element"
        /\ \A b \in OfStage(t, At(t)) : attempts[b].idx < row.idx

LEMMA RowOpens ==
  ASSUME RecordsInv, RecordsInv', StatusInv, NEW t \in Tasks, NEW row, row.task = t,
         attempts' = Put(attempts, New, row), recent' = recent \cup {New},
         \/ gates' = gates
         \/ gates' = gates \cup {Open(New)} /\ row.stage \in Gates /\ Begins(t, row) /\ runs'[t].at = New,
         \/ executors' = executors
         \/ executors' = executors \cup {New} /\ row.stage \notin Gates,
         finals' = finals, up' = up, events'["outages"] = events["outages"],
         row.status = "running" => (Open(New) \in gates' /\ row.stage \in Gates) \/ New \in executors',
         \A u \in Tasks \ {t} : Same(u),
         Begins(t, row) \/ (Same(t) /\ (row.kind = "replay" \/ Of(t) = {}))
  PROVE  StatusInv'
<1>1. /\ Known /\ DOMAIN attempts' = DOMAIN attempts \cup {New} /\ attempts'[New] = row
      /\ \A a \in DOMAIN attempts : attempts'[a] = attempts[a]
  BY OpensRow
<1>2. /\ New # 0 /\ New \notin DOMAIN attempts
      /\ \A g \in gates : g.attempt # New /\ g.attempt \in DOMAIN attempts
  BY NewIsNew
<1>3. /\ OutageIsCounted /\ AtStands /\ PassIsAtFanout /\ GatesAreGates /\ RunningIsAttended /\ OnIsOpen /\ WorkIsShown /\ OpenIsAwaited
  BY DEF StatusInv
<1>4. Begins(t, row) => runs[t].at = 0 /\ runs[t].on /\ ~Over(t) /\ Undone(t) # {}
  BY DEF Begins, Ready, Over
<1>5. AtStands'
  <2>1. \A u \in Tasks : Rests(u) \/ Waits(u) \/ Takes(u)
    <3>1. \A u \in Tasks : Same(u) => Waits(u)
      BY DEF Same, Waits
    <3>2. Begins(t, row) => Rests(t) \/ Takes(t)
      BY <1>1, <1>4 DEF Begins, Rests, Takes
    <3>3. QED
      BY <3>1, <3>2
  <2>2. QED
    BY <1>1, <1>3, <2>1, StandsStay
<1>12. PassIsAtFanout'
  <2>1. ASSUME NEW u \in Tasks, runs'[u].pass PROVE runs[u].pass /\ runs'[u].value = runs[u].value
    <3>1. CASE Same(u)
      BY <2>1, <3>1 DEF Same
    <3>2. CASE u = t /\ Begins(t, row)
      BY <2>1, <3>2 DEF Begins
    <3>3. QED
      BY <3>1, <3>2
  <2>2. \A u \in Tasks : runs'[u].pass =>
          runs'[u].value = runs[u].value /\ (runs[u].pass \/ (Undone(u) # {} /\ At(u) \in Fanouts))
    BY <2>1, Zenon
  <2>3. QED
    BY <1>3, <2>2, PassStays, Zenon
<1>6. GatesAreGates'
  BY <1>1, <1>2, <1>3, GatesStay DEF Open
<1>7. RunningIsAttended'
  <2>1. \A a \in DOMAIN attempts : a # New /\ attempts'[a].status = attempts[a].status /\ attempts'[a].task = attempts[a].task
    BY <1>1, <1>2
  <2>2. QED
    BY <1>1, <1>3, <2>1, AttendedStay DEF Open
<1>8. OnIsOpen'
  BY <1>3 DEF OnIsOpen, Same, Begins
<1>9. WorkIsShown'
  <2>0. PICK new : new = New
    OBVIOUS
  <2>1. ASSUME NEW u \in Tasks, Same(u), u # t \/ row.kind = "replay" \/ Of(t) = {}, Working(u)'
        PROVE  Working(u) /\ Waits(u) /\ (runs[u].at \in Of(u) /\ Shown(runs[u].at) => Shown(runs[u].at)')
    <3>1. Working(u) /\ Waits(u)
      BY <2>1, SameIs DEF Same, Waits, Working
    <3>0. PICK a : a = runs[u].at
      OBVIOUS
    <3>2. runs'[u].at = a
      BY <3>0, <3>1 DEF Waits
    <3>3. ASSUME a \in Of(u), Shown(a) PROVE Shown(a)'
      <4>1. a \in DOMAIN attempts /\ attempts[a].task = u
        BY <3>3 DEF Of
      <4>2. Aside(a)
        BY <1>1, <2>1, <3>3, <4>1 DEF Aside
      <4>3. QED
        BY <1>1, <3>3, <4>1, <4>2, ShownStays
    <3>4. QED
      BY <3>0, <3>1, <3>2, <3>3 DEF Shown, Open, Newest
  <2>2. ASSUME Begins(t, row), ~Rests(t)
        PROVE  runs'[t].at = new /\ Shown(new)'
    <3>1. runs'[t].at = new /\ new \in DOMAIN attempts' /\ attempts'[new] = row /\ row.stage = At(t) /\ row.status = "running"
      BY <1>1, <2>0, <2>2 DEF Begins, Rests
    <3>2. row.stage \in Gates => Open(new) \in gates'
      BY <2>0, <3>1, <1>6 DEF GatesAreGates
    <3>3. row.stage \notin Gates => new \in executors' /\ new \in recent'
      BY <2>0, <3>1
    <3>4. \A b \in DOMAIN attempts' : attempts'[b].task = t /\ attempts'[b].stage = row.stage =>
             b = new \/ attempts'[b].idx < row.idx
      BY <1>1, <2>0, <2>2, <3>1 DEF Begins, Rests, OfStage, Of
    <3>5. Newest(new)'
      BY <3>1, <3>4 DEF Newest, OfStage, Of
    <3>6. QED
      BY <3>1, <3>2, <3>3, <3>5 DEF Shown, Open
  <2>3. \A u \in Tasks :
          \/ Rests(u) \/ ~Working(u)' \/ (runs'[u].at = new /\ Shown(new)')
          \/ Working(u) /\ Waits(u) /\ (runs[u].at \in Of(u) /\ Shown(runs[u].at) => Shown(runs[u].at)')
    BY <2>1, <2>2
  <2>4. QED
    BY <1>3, <2>3, WorkStays
<1>10. OpenIsAwaited'
  <2>1. ASSUME NEW g \in gates', NEW u \in Tasks, g.open, u = attempts'[g.attempt].task
        PROVE  \/ g \in gates /\ (Same(u) \/ runs[u].at # g.attempt)
               \/ g.attempt = New /\ runs'[u].on /\ runs'[u].at = New /\ ~Over(u)'
    <3>1. CASE g \in gates
      <4>1. g.attempt # 0
        BY <3>1, NewIsNew
      <4>2. QED
        BY <1>4, <3>1, <4>1
    <3>2. CASE g \notin gates
      <4>1. g = Open(New) /\ Begins(t, row) /\ runs'[t].at = New
        BY <3>2
      <4>2. u = t /\ g.attempt = New
        BY <1>1, <2>1, <4>1 DEF Open
      <4>3. ~Over(t)'
        BY <1>2, <1>4, <4>1 DEF Begins, Over, Undone
      <4>4. QED
        BY <1>4, <4>1, <4>2, <4>3 DEF Begins
    <3>3. QED
      BY <3>1, <3>2
  <2>2. QED
    BY <1>1, <1>3, <2>1, AwaitedStay
<1>13. OutageIsCounted'
  BY <1>3 DEF OutageIsCounted
<1>11. QED
  BY <1>5, <1>6, <1>7, <1>8, <1>9, <1>10, <1>12, <1>13 DEF StatusInv

LEMMA CountSpares ==
  ASSUME RecordsInv, NEW k \in Kinds \ {"outages"}, Count(k)
  PROVE  events'["outages"] = events["outages"]
<1>1. events \in [Kinds -> Nat] /\ "outages" \in Kinds
  BY DEF RecordsInv, Tables, ServerOK, Kinds
<1>2. events' = [events EXCEPT ![k] = @ + 1]
  BY Zenon DEF Count
<1>3. QED
  BY <1>1, <1>2

\* The run of t changes, the others are as they were.
LEMMA OthersSame ==
  ASSUME RunsOK, NEW t \in Tasks, NEW r, runs' = [runs EXCEPT ![t] = r]
  PROVE  runs'[t] = r /\ \A u \in Tasks \ {t} : runs'[u] = runs[u] /\ Same(u)
BY DEF RunsOK, Same

LEMMA OpenGateStatus ==
  ASSUME RecordsInv, RecordsInv', StatusInv, NEW t \in Tasks, OpenGate(t)
  PROVE  StatusInv'
<1> DEFINE row == Row(t, At(t), "regular", "running", Input(t))
           r == [runs[t] EXCEPT !.at = New]
<1>1. row.task = t /\ row.stage = At(t) /\ row.status = "running" /\ At(t) \in Gates /\ At(t) \notin Fanouts
  BY DEF Row, OpenGate
<1>2. \A b \in OfStage(t, At(t)) : attempts[b].idx < row.idx
  BY RowIsNewest
<1>3. Start(row)
  BY DEF OpenGate
<1> HIDE DEF row
<1>4. attempts' = Put(attempts, New, row) /\ recent' = recent \cup {New} /\ finals' = finals /\ up' = up
      /\ events' = events /\ executors' = executors /\ gates' = gates \cup {Open(New)} /\ Ready(t)
      /\ runs' = [runs EXCEPT ![t] = r]
  BY <1>3 DEF OpenGate, Start, Open
<1>5. runs[t] \in Runs /\ RunsOK
  BY DEF RecordsInv, RunsOK
<1>6. /\ r.at = New /\ r.value = runs[t].value /\ r.on = runs[t].on /\ r.failed = runs[t].failed
      /\ r.paused = runs[t].paused /\ r.interrupted = runs[t].interrupted /\ r.pass = runs[t].pass
  BY <1>5 DEF Runs
<1> HIDE DEF r
<1>7. runs'[t] = r /\ \A u \in Tasks \ {t} : Same(u)
  BY <1>4, <1>5, OthersSame
<1>8. Begins(t, row) /\ runs'[t].at = New
  BY <1>1, <1>2, <1>4, <1>6, <1>7 DEF Begins
<1>9. QED
  BY <1>1, <1>4, <1>7, <1>8, RowOpens

LEMMA StartStageStatus ==
  ASSUME RecordsInv, RecordsInv', StatusInv, NEW t \in Tasks, StartStage(t)
  PROVE  StatusInv'
<1> DEFINE row == Row(t, At(t), "regular", "running", Input(t))
           r == [runs[t] EXCEPT !.at = New]
<1>1. row.task = t /\ row.stage = At(t) /\ row.status = "running" /\ At(t) \notin Gates \cup Fanouts
      /\ [row EXCEPT !.status = "running"] = row
  BY DEF Row, StartStage
<1>2. \A b \in OfStage(t, At(t)) : attempts[b].idx < row.idx
  BY RowIsNewest
<1>3. Execute(row)
  BY DEF StartStage
<1> HIDE DEF row
<1>4. attempts' = Put(attempts, New, row) /\ recent' = recent \cup {New} /\ finals' = finals /\ up' = up
      /\ events' = events /\ executors' = executors \cup {New} /\ gates' = gates /\ Ready(t)
      /\ runs' = [runs EXCEPT ![t] = r]
  BY <1>1, <1>3 DEF StartStage, Start, Execute
<1>5. runs[t] \in Runs /\ RunsOK
  BY DEF RecordsInv, RunsOK
<1>6. /\ r.at = New /\ r.value = runs[t].value /\ r.on = runs[t].on /\ r.failed = runs[t].failed
      /\ r.paused = runs[t].paused /\ r.interrupted = runs[t].interrupted /\ r.pass = runs[t].pass
  BY <1>5 DEF Runs
<1> HIDE DEF r
<1>7. runs'[t] = r /\ \A u \in Tasks \ {t} : Same(u)
  BY <1>4, <1>5, OthersSame
<1>8. Begins(t, row)
  BY <1>1, <1>2, <1>4, <1>6, <1>7 DEF Begins
<1>9. QED
  BY <1>1, <1>4, <1>7, <1>8, RowOpens

LEMMA PauseForSecretStatus ==
  ASSUME RecordsInv, RecordsInv', StatusInv, NEW t \in Tasks, PauseForSecret(t)
  PROVE  StatusInv'
<1> DEFINE row == [Row(t, At(t), "regular", "running", Input(t)) EXCEPT !.status = "secret_pending"]
           r == [runs[t] EXCEPT !.paused = TRUE]
<1>1. row.task = t /\ row.status = "secret_pending"
  BY DEF Row
<1>2. Start(row)
  BY DEF PauseForSecret, StartWithoutKey
<1> HIDE DEF row
<1>3. attempts' = Put(attempts, New, row) /\ recent' = recent \cup {New} /\ finals' = finals /\ up' = up
      /\ events' = events /\ executors' = executors /\ gates' = gates /\ Ready(t)
      /\ runs' = [runs EXCEPT ![t] = r]
  BY <1>2 DEF PauseForSecret, Start
<1>4. runs[t] \in Runs /\ RunsOK
  BY DEF RecordsInv, RunsOK
<1>5. /\ r.at = runs[t].at /\ r.on = runs[t].on /\ r.interrupted = runs[t].interrupted
      /\ r.pass = runs[t].pass /\ r.value = runs[t].value
  BY <1>4 DEF Runs
<1> HIDE DEF r
<1>6. runs'[t] = r /\ \A u \in Tasks \ {t} : Same(u)
  BY <1>3, <1>4, OthersSame
<1>7. Begins(t, row)
  BY <1>3, <1>5, <1>6 DEF Begins, Ready
<1>8. QED
  BY <1>1, <1>3, <1>6, <1>7, RowOpens

LEMMA StartElementStatus ==
  ASSUME RecordsInv, RecordsInv', StatusInv, NEW t \in Tasks, StartElement(t)
  PROVE  StatusInv'
<1> DEFINE row0 == Row(t, At(t), "fanout_element", "running", Input(t))
           row == [[row0 EXCEPT !.elem = Min(Missing(t))] EXCEPT !.status = "running"]
           r == [runs[t] EXCEPT !.at = New]
<1>1. row0.task = t /\ row0.stage = At(t) /\ row0.status = "running" /\ row.kind = "fanout_element"
      /\ row.task = row0.task /\ row.stage = row0.stage /\ row.status = row0.status /\ row.idx = row0.idx
  BY DEF Row
<1>2. \A b \in OfStage(t, At(t)) : attempts[b].idx < row0.idx
  BY RowIsNewest
<1>3. Execute([row0 EXCEPT !.elem = Min(Missing(t))]) /\ runs[t].pass
  BY DEF StartElement
<1>4. attempts' = Put(attempts, New, row) /\ recent' = recent \cup {New} /\ executors' = executors \cup {New}
  BY <1>3 DEF Start, Execute
<1> HIDE DEF row, row0
<1>5. finals' = finals /\ up' = up /\ events' = events /\ gates' = gates /\ Ready(t)
      /\ runs' = [runs EXCEPT ![t] = r] /\ runs[t].pass
  BY DEF StartElement
<1>6. runs[t] \in Runs /\ RunsOK
  BY DEF RecordsInv, RunsOK
<1>7. /\ r.at = New /\ r.value = runs[t].value /\ r.on = runs[t].on /\ r.failed = runs[t].failed
      /\ r.paused = runs[t].paused /\ r.interrupted = runs[t].interrupted /\ r.pass = runs[t].pass
  BY <1>6 DEF Runs
<1> HIDE DEF r
<1>8. runs'[t] = r /\ \A u \in Tasks \ {t} : Same(u)
  BY <1>5, <1>6, OthersSame
<1>9. Begins(t, row)
  BY <1>1, <1>2, <1>5, <1>7, <1>8 DEF Begins
<1>10. row.stage \notin Gates
  BY <1>1, <1>5 DEF StatusInv, PassIsAtFanout
<1>11. QED
  BY <1>1, <1>4, <1>5, <1>8, <1>9, <1>10, RowOpens

LEMMA AggregateStatus ==
  ASSUME RecordsInv, RecordsInv', StatusInv, NEW t \in Tasks, Aggregate(t)
  PROVE  StatusInv'
<1> DEFINE row == Row(t, At(t), "fanout_aggregate", "success", Input(t))
           r == [runs[t] EXCEPT !.value[At(t)] = New, !.pass = FALSE, !.elems = {}]
<1>1. row.task = t /\ row.status = "success"
  BY DEF Row
<1>2. Start(row)
  BY DEF Aggregate
<1> HIDE DEF row
<1>3. attempts' = Put(attempts, New, row) /\ recent' = recent \cup {New} /\ finals' = finals /\ up' = up
      /\ events' = events /\ executors' = executors /\ gates' = gates /\ Ready(t)
      /\ runs' = [runs EXCEPT ![t] = r]
  BY <1>2 DEF Aggregate, Start
<1>4. runs[t] \in Runs /\ RunsOK
  BY DEF RecordsInv, RunsOK
<1>5. r.at = runs[t].at /\ r.on = runs[t].on /\ r.interrupted = runs[t].interrupted /\ ~r.pass
  BY <1>4 DEF Runs
<1> HIDE DEF r
<1>6. runs'[t] = r /\ \A u \in Tasks \ {t} : Same(u)
  BY <1>3, <1>4, OthersSame
<1>7. Begins(t, row)
  BY <1>3, <1>5, <1>6 DEF Begins, Ready
<1>8. QED
  BY <1>1, <1>3, <1>6, <1>7, RowOpens

\* An attempt outside any run.
LEMMA AloneStatus ==
  ASSUME RecordsInv, RecordsInv', StatusInv, NEW t \in Tasks, NEW row, row.task = t, row.stage \notin Gates,
         row.status = "running", row.kind = "replay" \/ Of(t) = {},
         row = [row EXCEPT !.status = "running"],
         LET p == [row EXCEPT !.status = "secret_pending"]
         IN  p.task = t /\ p.stage = row.stage /\ p.kind = row.kind /\ p.status = "secret_pending",
         Alone(row), events'["outages"] = events["outages"]
  PROVE  StatusInv'
<1> DEFINE p == [row EXCEPT !.status = "secret_pending"]
<1>1. gates' = gates /\ finals' = finals /\ up' = up /\ runs' = runs
  BY DEF Alone
<1>2. \A u \in Tasks : Same(u)
  BY <1>1 DEF Same
<1>3. CASE Lacking(row.task, row.stage)
  <2>1. StartWithoutKey(row) /\ executors' = executors
    BY <1>3 DEF Alone
  <2>2. attempts' = Put(attempts, New, p) /\ recent' = recent \cup {New}
    BY <2>1 DEF StartWithoutKey, Start
  <2>3. p.task = t /\ p.stage = row.stage /\ p.kind = row.kind /\ p.status = "secret_pending"
    OBVIOUS
  <2> HIDE DEF p
  <2>4. QED
    BY <1>1, <1>2, <2>1, <2>2, <2>3, RowOpens
<1>4. CASE ~Lacking(row.task, row.stage)
  <2>1. Execute(row)
    BY <1>4 DEF Alone
  <2>2. attempts' = Put(attempts, New, row) /\ recent' = recent \cup {New} /\ executors' = executors \cup {New}
    BY <2>1 DEF Execute, Start
  <2>3. QED
    BY <1>1, <1>2, <2>2, RowOpens
<1>5. QED
  BY <1>3, <1>4

LEMMA ReplayStageStatus ==
  ASSUME RecordsInv, RecordsInv', StatusInv, NEW a, ReplayStage(a)
  PROVE  StatusInv'
<1> DEFINE row == Row(attempts[a].task, attempts[a].stage, "replay", "running", attempts[a].read)
           p == [row EXCEPT !.status = "secret_pending"]
<1>1. attempts[a] \in Rows
  BY DEF ReplayStage, RecordsInv, Tables, AttemptsOK
<1>2. attempts[a].task \in Tasks /\ attempts[a].stage \notin Gates
  BY <1>1 DEF Rows, ReplayStage, Runnable
<1>3. /\ row.task = attempts[a].task /\ row.stage = attempts[a].stage /\ row.status = "running" /\ row.kind = "replay"
      /\ row = [row EXCEPT !.status = "running"]
      /\ p.task = row.task /\ p.stage = row.stage /\ p.kind = row.kind /\ p.status = "secret_pending"
  BY DEF Row
<1>4. Alone(row) /\ events'["outages"] = events["outages"]
  BY CountSpares DEF ReplayStage, Kinds
<1> HIDE DEF row
<1>5. QED
  BY <1>2, <1>3, <1>4, AloneStatus

LEMMA DryRunStageStatus ==
  ASSUME RecordsInv, RecordsInv', StatusInv, NEW t \in Tasks, NEW s \in Stages, DryRunStage(t, s)
  PROVE  StatusInv'
<1> DEFINE row == Row(t, s, "dry_run", "running", 0)
           p == [row EXCEPT !.status = "secret_pending"]
<1>1. /\ row.task = t /\ row.stage = s /\ row.status = "running"
      /\ row = [row EXCEPT !.status = "running"]
      /\ p.task = row.task /\ p.stage = row.stage /\ p.kind = row.kind /\ p.status = "secret_pending"
  BY DEF Row
<1>2. Alone(row) /\ events'["outages"] = events["outages"]
  BY CountSpares DEF DryRunStage, Kinds
<1>3. s \notin Gates /\ Of(t) = {}
  BY DEF DryRunStage, Runnable
<1> HIDE DEF row
<1>4. QED
  BY <1>1, <1>2, <1>3, AloneStatus

-----------------------------------------------------------------------------
(* Actions that open none. *)

\* What a shows is not touched.
Steady(a) ==
  /\ a \in executors => a \in executors' /\ attempts'[a].status = attempts[a].status
  /\ a \in executors /\ attempts[a].stage \in Agents /\ a \in recent => a \in recent'
  /\ Open(a) \in gates => Open(a) \in gates'

LEMMA NoneOpens ==
  ASSUME RecordsInv, RecordsInv', StatusInv, Known, DOMAIN attempts' \subseteq DOMAIN attempts,
         \A u \in Tasks : Rests(u) \/ Waits(u),
         \A u \in Tasks : runs'[u].pass =>
           runs'[u].value = runs[u].value /\ (runs[u].pass \/ (Undone(u) # {} /\ At(u) \in Fanouts)),
         \A g \in gates' : \E h \in gates : h.attempt = g.attempt,
         executors' \subseteq executors,
         \A u \in Tasks : /\ runs'[u].on => finals'[u] \in {"none", "cancelled"}
                          /\ runs'[u].interrupted => finals'[u] = "cancelled",
         ~up' => events'["outages"] # 0,
         \A u \in Tasks : Working(u)' /\ runs'[u].at # 0 =>
           Working(u) /\ Waits(u) /\ (runs[u].at \in Of(u) => Steady(runs[u].at)),
         up' => \A a \in DOMAIN attempts' :
           attempts'[a].status = "running" /\ finals'[attempts'[a].task] = "none" =>
             /\ up /\ attempts[a].status = "running" /\ finals[attempts[a].task] = "none"
             /\ a \in executors => a \in executors'
             /\ Open(a) \in gates => Open(a) \in gates',
         events'["outages"] = 0 => events["outages"] = 0,
         \A g \in gates' : \A u \in Tasks :
           g.open /\ u = attempts[g.attempt].task /\ g.attempt \in DOMAIN attempts /\ events'["outages"] = 0 =>
             \/ finals'[u] = "cancelled"
             \/ g \in gates /\ (Same(u) \/ runs[u].at # g.attempt) /\ (finals[u] = "cancelled" => finals'[u] = "cancelled")
  PROVE  StatusInv'
<1>1. New \notin DOMAIN attempts' /\ \A g \in gates : g.attempt # New
  BY NewIsNew
<1>2. /\ OutageIsCounted /\ AtStands /\ PassIsAtFanout /\ GatesAreGates /\ RunningIsAttended
      /\ OnIsOpen /\ WorkIsShown /\ OpenIsAwaited
  BY DEF StatusInv
<1>3. OutageIsCounted'
  BY DEF OutageIsCounted
<1>4. AtStands'
  BY <1>2, StandsStay
<1>5. PassIsAtFanout'
  BY <1>2, PassStays, Zenon
<1>6. GatesAreGates'
  BY <1>2, GatesStay
<1>7. RunningIsAttended'
  BY <1>1, <1>2, AttendedStay
<1>8. OnIsOpen'
  BY DEF OnIsOpen
<1>9. WorkIsShown'
  <2>1. ASSUME NEW u \in Tasks, Working(u)', runs'[u].at # 0
        PROVE  Working(u) /\ Waits(u) /\ (runs[u].at \in Of(u) /\ Shown(runs[u].at) => Shown(runs[u].at)')
    <3>1. Working(u) /\ Waits(u)
      BY <2>1
    <3>0. PICK a : a = runs[u].at
      OBVIOUS
    <3>2. runs'[u].at = a
      BY <3>0, <3>1 DEF Waits
    <3>3. ASSUME a \in Of(u), Shown(a) PROVE Shown(a)'
      <4>1. a \in DOMAIN attempts /\ attempts[a].task = u
        BY <3>3 DEF Of
      <4>2. a \in DOMAIN attempts'
        BY <2>1, <3>2 DEF RecordsInv, Held, Holds, Working, Of
      <4>3. Steady(a)
        BY <2>1, <3>0, <3>3
      <4>4. Aside(a)
        BY <1>1 DEF Aside
      <4>5. QED
        BY <3>3, <4>1, <4>2, <4>3, <4>4, ShownStays DEF Steady
    <3>4. QED
      BY <3>0, <3>1, <3>2, <3>3 DEF Shown, Open, Newest
  <2>2. PICK new : new = 0
    OBVIOUS
  <2>3. \A u \in Tasks :
          \/ Rests(u) \/ ~Working(u)' \/ (runs'[u].at = new /\ Shown(new)')
          \/ Working(u) /\ Waits(u) /\ (runs[u].at \in Of(u) /\ Shown(runs[u].at) => Shown(runs[u].at)')
    BY <2>1 DEF Rests
  <2>4. QED
    BY <1>2, <2>3, WorkStays
<1>10. OpenIsAwaited'
  <2>1. \A g \in gates' : g.attempt \in DOMAIN attempts' /\ g.attempt \in DOMAIN attempts
    BY DEF RecordsInv, Tables, QuestionsOK
  <2>2. \A g \in gates' : attempts'[g.attempt].task = attempts[g.attempt].task
    BY <1>1, <2>1 DEF Known
  <2>3. QED
    BY <1>2, <2>1, <2>2, AwaitedStay
<1>11. QED
  BY <1>3, <1>4, <1>5, <1>6, <1>7, <1>8, <1>9, <1>10 DEF StatusInv

LEMMA RestatedKnown ==
  ASSUME AttemptsOK, Restated
  PROVE  Known /\ DOMAIN attempts' = DOMAIN attempts
<1>1. ASSUME NEW a \in DOMAIN attempts
      PROVE  /\ attempts'[a].task = attempts[a].task /\ attempts'[a].stage = attempts[a].stage
             /\ attempts'[a].kind = attempts[a].kind /\ attempts'[a].idx = attempts[a].idx
  <2>1. PICK st \in {"running", "success", "error", "secret_pending", "superseded"} :
          attempts'[a] = [attempts[a] EXCEPT !.status = st]
    BY DEF Restated
  <2>2. attempts[a] \in Rows
    BY DEF AttemptsOK
  <2>3. QED
    BY <2>1, <2>2 DEF Rows
<1>2. QED
  BY <1>1 DEF Known, Restated

\* One attempt, which was running or not, ends.
LEMMA OneEnds ==
  ASSUME AttemptsOK, NEW a \in DOMAIN attempts, NEW st \in {"success", "error"},
         attempts' = [attempts EXCEPT ![a].status = st]
  PROVE  /\ Known /\ DOMAIN attempts' = DOMAIN attempts /\ attempts'[a].status = st
         /\ \A b \in DOMAIN attempts : attempts'[b].task = attempts[b].task /\ (b # a => attempts'[b] = attempts[b])
<1>1. Known /\ DOMAIN attempts' = DOMAIN attempts
  BY OneRestated, RestatedKnown
<1>2. attempts[a] \in Rows
  BY DEF AttemptsOK
<1>3. attempts'[a].status = st /\ attempts'[a].task = attempts[a].task
  BY <1>2 DEF Rows
<1>4. QED
  BY <1>1, <1>3

\* No question is about an attempt somebody works on, and no such attempt is a gate's.
LEMMA ExecutedIsNoGate ==
  ASSUME GatesAreGates, NEW a \in executors, a \in DOMAIN attempts
  PROVE  attempts[a].stage \notin Gates /\ \A g \in gates : g.attempt # a
BY DEF GatesAreGates

LEMMA BeginPassStatus ==
  ASSUME RecordsInv, RecordsInv', StatusInv, NEW t \in Tasks, BeginPass(t)
  PROVE  StatusInv'
<1> DEFINE r == [runs[t] EXCEPT !.pass = TRUE, !.elems = Preserved(t, At(t))]
<1>1. attempts' = attempts /\ gates' = gates /\ finals' = finals /\ up' = up /\ executors' = executors
      /\ recent' = recent /\ events' = events /\ runs' = [runs EXCEPT ![t] = r]
      /\ Ready(t) /\ At(t) \in Fanouts
  BY DEF BeginPass, db
<1>2. runs[t] \in Runs /\ RunsOK
  BY DEF RecordsInv, RunsOK
<1>3. /\ r.at = runs[t].at /\ r.value = runs[t].value /\ r.on = runs[t].on /\ r.failed = runs[t].failed
      /\ r.paused = runs[t].paused /\ r.interrupted = runs[t].interrupted
  BY <1>2 DEF Runs
<1> HIDE DEF r
<1>4. runs'[t] = r /\ \A u \in Tasks \ {t} : Same(u)
  BY <1>1, <1>2, OthersSame
<1>5. runs[t].at = 0 /\ Undone(t) # {}
  BY <1>1 DEF Ready, Over
<1>6. /\ OutageIsCounted /\ RunningIsAttended /\ OnIsOpen
  BY DEF StatusInv
<1>7. \A g \in gates : g.attempt # 0
  BY NewIsNew
<1>8. \A u \in Tasks : Waits(u) /\ (Rests(u) \/ Same(u)) /\ runs'[u].on = runs[u].on /\ runs'[u].interrupted = runs[u].interrupted
  BY <1>3, <1>4, <1>5 DEF Waits, Same, Rests
<1>9. \A u \in Tasks : runs'[u].pass =>
        runs'[u].value = runs[u].value /\ (runs[u].pass \/ (Undone(u) # {} /\ At(u) \in Fanouts))
  BY <1>1, <1>3, <1>4, <1>5 DEF Same
<1>10. \A u \in Tasks : Working(u)' /\ runs'[u].at # 0 =>
           Working(u) /\ Waits(u) /\ (runs[u].at \in Of(u) => Steady(runs[u].at))
  BY <1>1, <1>8, SameIs DEF Working, Same, Rests, Steady
<1>11. Known
  BY <1>1 DEF Known
<1>12. \A g \in gates' : \A u \in Tasks : Same(u) \/ runs[u].at # g.attempt
  BY <1>1, <1>3, <1>4, <1>5, <1>7
<1>13. QED
  BY <1>1, <1>6, <1>8, <1>9, <1>10, <1>11, <1>12, NoneOpens DEF OutageIsCounted, OnIsOpen

LEMMA WriteStatus ==
  ASSUME RecordsInv, RecordsInv', StatusInv, NEW a, Write(a)
  PROVE  StatusInv'
<1> DEFINE r(t) == [runs[t] EXCEPT !.value[attempts[a].stage] = a, !.at = 0]
<1>1. attempts' = attempts /\ gates' = gates /\ finals' = finals /\ up' = up /\ executors' = executors
      /\ recent' = recent /\ events' = events /\ a \in executors /\ a \in DOMAIN attempts
      /\ runs' = [t \in Tasks |-> IF t \in Waiting(a) /\ ~IsElement(a) THEN r(t) ELSE runs[t]]
  BY DEF Write
<1>2. \A t \in Tasks : runs[t] \in Runs
  BY DEF RecordsInv, RunsOK
<1>3. /\ OutageIsCounted /\ OnIsOpen /\ AtStands /\ PassIsAtFanout /\ GatesAreGates
  BY DEF StatusInv
<1>4. ASSUME NEW t \in Tasks, t \in Waiting(a), ~IsElement(a)
      PROVE  /\ runs[t].at = a /\ runs'[t].at = 0 /\ ~runs'[t].pass /\ runs'[t].on = runs[t].on
             /\ runs'[t].interrupted = runs[t].interrupted
  <2>1. runs'[t] = r(t)
    BY <1>1, <1>4
  <2>2. runs[t].at = a
    BY <1>4 DEF Waiting
  <2>3. ~runs[t].pass
    BY <1>1, <1>3, <1>4, <2>2 DEF AtStands, PassIsAtFanout
  <2>4. r(t).at = 0 /\ r(t).pass = runs[t].pass /\ r(t).on = runs[t].on /\ r(t).interrupted = runs[t].interrupted
    BY <1>2 DEF Runs
  <2>5. QED
    BY <2>1, <2>2, <2>3, <2>4
<1>5. \A t \in Tasks : (t \in Waiting(a) /\ ~IsElement(a)) \/ (runs'[t] = runs[t] /\ Same(t))
  BY <1>1 DEF Same
<1> HIDE DEF r
<1>6. \A u \in Tasks : Same(u) \/ (Rests(u) /\ runs[u].at = a /\ ~runs'[u].pass)
  BY <1>4, <1>5 DEF Rests
<1>7. \A u \in Tasks : /\ Rests(u) \/ Waits(u)
                       /\ runs'[u].on = runs[u].on /\ runs'[u].interrupted = runs[u].interrupted
  BY <1>4, <1>5 DEF Rests, Waits
<1>8. \A u \in Tasks : runs'[u].pass =>
        runs'[u].value = runs[u].value /\ (runs[u].pass \/ (Undone(u) # {} /\ At(u) \in Fanouts))
  BY <1>6 DEF Same
<1>9. \A u \in Tasks : Working(u)' /\ runs'[u].at # 0 =>
           Working(u) /\ Waits(u) /\ (runs[u].at \in Of(u) => Steady(runs[u].at))
  BY <1>1, <1>6, SameIs DEF Working, Same, Rests, Waits, Steady
<1>10. Known
  BY <1>1 DEF Known
<1>11. \A g \in gates' : \A u \in Tasks : Same(u) \/ runs[u].at # g.attempt
  BY <1>1, <1>3, <1>6, ExecutedIsNoGate
<1>12. QED
  BY <1>1, <1>3, <1>7, <1>8, <1>9, <1>10, <1>11, NoneOpens DEF OutageIsCounted, OnIsOpen

\* The runs that waited for a, if any, stop waiting for it; the others go on.
Leaves(a) ==
  \A u \in Tasks :
    \/ Same(u) /\ (runs[u].on /\ runs[u].at = a => Over(u))
    \/ /\ runs[u].at = a /\ (runs'[u].at = 0 \/ ~Working(u)') /\ runs'[u].at \in {0, a}
       /\ runs'[u].on = runs[u].on /\ runs'[u].interrupted = runs[u].interrupted
       /\ runs'[u].pass = runs[u].pass /\ runs'[u].value = runs[u].value

LEMMA AttemptLeft ==
  ASSUME RecordsInv, RecordsInv', StatusInv, NEW a \in executors, Leaves(a), Known,
         DOMAIN attempts' = DOMAIN attempts, a \in DOMAIN attempts => attempts'[a].status # "running",
         \A b \in DOMAIN attempts : attempts'[b].task = attempts[b].task /\ (b # a => attempts'[b] = attempts[b]),
         gates' = gates, finals' = finals, up' = up, executors' = executors \/ executors' = executors \ {a},
         recent' = recent, events'["outages"] = events["outages"]
  PROVE  StatusInv'
<1>1. /\ OutageIsCounted /\ OnIsOpen /\ GatesAreGates /\ \A g \in gates : g.attempt \in DOMAIN attempts
  BY NewIsNew DEF StatusInv
<1>2. \A g \in gates : g.attempt # a
  BY <1>1, ExecutedIsNoGate
<1>3. \A u \in Tasks : /\ Rests(u) \/ Waits(u)
                       /\ runs'[u].on = runs[u].on /\ runs'[u].interrupted = runs[u].interrupted
                       /\ runs'[u].pass = runs[u].pass /\ runs'[u].value = runs[u].value
  BY DEF Leaves, Same, Rests, Waits
<1>4. ASSUME NEW u \in Tasks, Working(u)', runs'[u].at # 0
      PROVE  Working(u) /\ Waits(u) /\ (runs[u].at \in Of(u) => Steady(runs[u].at))
  <2>1. Same(u) /\ (runs[u].on /\ runs[u].at = a => Over(u))
    BY <1>4 DEF Leaves
  <2>2. Working(u) /\ Waits(u)
    BY <1>4, <2>1, SameIs DEF Working, Same, Waits
  <2>3. runs[u].at # a
    BY <2>1, <2>2 DEF Working
  <2>4. QED
    BY <2>2, <2>3 DEF Steady, Of
<1>5. \A g \in gates' : \A u \in Tasks : Same(u) \/ runs[u].at # g.attempt
  BY <1>2 DEF Leaves
<1>6. \A b \in DOMAIN attempts' :
        attempts'[b].status = "running" => b # a /\ b \in DOMAIN attempts /\ attempts'[b] = attempts[b]
  OBVIOUS
<1>7. QED
  BY <1>1, <1>3, <1>4, <1>5, <1>6, NoneOpens DEF OutageIsCounted, OnIsOpen

LEMMA FinishStatus ==
  ASSUME RecordsInv, RecordsInv', StatusInv, NEW a, NEW status \in {"success", "error"}, Finish(a, status)
  PROVE  StatusInv'
<1> DEFINE r(t) == [runs[t] EXCEPT !.failed = TRUE]
           q(t) == [runs[t] EXCEPT !.at = 0, !.elems = @ \cup {attempts[a].elem}]
<1>1. /\ a \in executors /\ a \in DOMAIN attempts /\ attempts' = [attempts EXCEPT ![a].status = status]
      /\ executors' = executors \ {a} /\ gates' = gates /\ finals' = finals /\ up' = up
      /\ recent' = recent /\ events' = events
      /\ runs' = [t \in Tasks |-> IF t \notin Waiting(a) THEN runs[t] ELSE IF status = "error" THEN r(t) ELSE q(t)]
  BY DEF Finish
<1>2. \A t \in Tasks : runs[t] \in Runs
  BY DEF RecordsInv, RunsOK
<1>3. \A t \in Tasks :
        /\ r(t).failed /\ r(t).at = runs[t].at /\ r(t).on = runs[t].on /\ r(t).interrupted = runs[t].interrupted
        /\ r(t).pass = runs[t].pass /\ r(t).value = runs[t].value
        /\ q(t).at = 0 /\ q(t).on = runs[t].on /\ q(t).interrupted = runs[t].interrupted
        /\ q(t).pass = runs[t].pass /\ q(t).value = runs[t].value
  BY <1>2 DEF Runs
<1> HIDE DEF r, q
<1>4. Leaves(a)
  <2>1. ASSUME NEW u \in Tasks, u \in Waiting(a), status = "error"
        PROVE  /\ runs[u].at = a /\ ~Working(u)' /\ runs'[u].at = a
               /\ runs'[u].on = runs[u].on /\ runs'[u].interrupted = runs[u].interrupted
               /\ runs'[u].pass = runs[u].pass /\ runs'[u].value = runs[u].value
    BY <1>1, <1>3, <2>1 DEF Waiting, Working, Over
  <2>2. ASSUME NEW u \in Tasks, u \in Waiting(a), status # "error"
        PROVE  /\ runs[u].at = a /\ runs'[u].at = 0
               /\ runs'[u].on = runs[u].on /\ runs'[u].interrupted = runs[u].interrupted
               /\ runs'[u].pass = runs[u].pass /\ runs'[u].value = runs[u].value
    BY <1>1, <1>3, <2>2 DEF Waiting
  <2>3. ASSUME NEW u \in Tasks, u \notin Waiting(a)
        PROVE  Same(u) /\ ~(runs[u].on /\ runs[u].at = a)
    BY <1>1, <2>3 DEF Waiting, Same
  <2>4. QED
    BY <2>1, <2>2, <2>3 DEF Leaves
<1>5. /\ Known /\ DOMAIN attempts' = DOMAIN attempts /\ attempts'[a].status = status
      /\ \A b \in DOMAIN attempts : attempts'[b].task = attempts[b].task /\ (b # a => attempts'[b] = attempts[b])
  BY <1>1, OneEnds DEF RecordsInv, Tables
<1>6. QED
  BY <1>1, <1>4, <1>5, AttemptLeft

LEMMA RowlessStatus ==
  ASSUME RecordsInv, RecordsInv', StatusInv, NEW a, Rowless(a)
  PROVE  StatusInv'
<1> DEFINE r(t) == [runs[t] EXCEPT !.failed = TRUE]
<1>1. /\ a \in executors /\ a \notin DOMAIN attempts /\ attempts' = attempts
      /\ executors' = executors \ {a} /\ gates' = gates /\ finals' = finals /\ up' = up
      /\ recent' = recent /\ events' = events
      /\ runs' = [t \in Tasks |-> IF t \in Waiting(a) THEN r(t) ELSE runs[t]]
  BY DEF Rowless, db
<1>2. \A t \in Tasks : runs[t] \in Runs
  BY DEF RecordsInv, RunsOK
<1>3. \A t \in Tasks :
        /\ r(t).failed /\ r(t).at = runs[t].at /\ r(t).on = runs[t].on /\ r(t).interrupted = runs[t].interrupted
        /\ r(t).pass = runs[t].pass /\ r(t).value = runs[t].value
  BY <1>2 DEF Runs
<1> HIDE DEF r
<1>4. Leaves(a)
  <2>1. ASSUME NEW u \in Tasks, u \in Waiting(a)
        PROVE  /\ runs[u].at = a /\ ~Working(u)' /\ runs'[u].at = a
               /\ runs'[u].on = runs[u].on /\ runs'[u].interrupted = runs[u].interrupted
               /\ runs'[u].pass = runs[u].pass /\ runs'[u].value = runs[u].value
    BY <1>1, <1>3, <2>1 DEF Waiting, Working, Over
  <2>3. ASSUME NEW u \in Tasks, u \notin Waiting(a)
        PROVE  Same(u) /\ ~(runs[u].on /\ runs[u].at = a)
    BY <1>1, <2>3 DEF Waiting, Same
  <2>4. QED
    BY <2>1, <2>3 DEF Leaves
<1>5. Known
  BY <1>1 DEF Known
<1>6. QED
  BY <1>1, <1>4, <1>5, AttemptLeft

LEMMA TimesOutStatus ==
  ASSUME RecordsInv, RecordsInv', StatusInv, NEW a \in executors, TimesOut(a)
  PROVE  StatusInv'
<1> DEFINE q(t) == [runs[t] EXCEPT !.at = 0]
<1>1. /\ a \in DOMAIN attempts /\ attempts' = [attempts EXCEPT ![a].status = "error"]
      /\ executors' = executors /\ gates' = gates /\ finals' = finals /\ up' = up /\ recent' = recent
      /\ runs' = [t \in Tasks |-> IF t \in Waiting(a) THEN q(t) ELSE runs[t]]
  BY DEF TimesOut
<1>2. \A t \in Tasks : runs[t] \in Runs
  BY DEF RecordsInv, RunsOK
<1>3. \A t \in Tasks :
        /\ q(t).at = 0 /\ q(t).on = runs[t].on /\ q(t).interrupted = runs[t].interrupted
        /\ q(t).pass = runs[t].pass /\ q(t).value = runs[t].value
  BY <1>2 DEF Runs
<1> HIDE DEF q
<1>4. Leaves(a)
  <2>2. ASSUME NEW u \in Tasks, u \in Waiting(a)
        PROVE  /\ runs[u].at = a /\ runs'[u].at = 0
               /\ runs'[u].on = runs[u].on /\ runs'[u].interrupted = runs[u].interrupted
               /\ runs'[u].pass = runs[u].pass /\ runs'[u].value = runs[u].value
    BY <1>1, <1>3, <2>2 DEF Waiting
  <2>3. ASSUME NEW u \in Tasks, u \notin Waiting(a)
        PROVE  Same(u) /\ ~(runs[u].on /\ runs[u].at = a)
    BY <1>1, <2>3 DEF Waiting, Same
  <2>4. QED
    BY <2>2, <2>3 DEF Leaves
<1>5. /\ Known /\ DOMAIN attempts' = DOMAIN attempts /\ attempts'[a].status = "error"
      /\ \A b \in DOMAIN attempts : attempts'[b].task = attempts[b].task /\ (b # a => attempts'[b] = attempts[b])
  BY <1>1, OneEnds DEF RecordsInv, Tables
<1>6. events'["outages"] = events["outages"]
  BY CountSpares DEF TimesOut, Kinds
<1>7. QED
  BY <1>1, <1>4, <1>5, <1>6, AttemptLeft

LEMMA RunEndsStatus ==
  ASSUME RecordsInv, RecordsInv', StatusInv, NEW t \in Tasks, RunEnds(t)
  PROVE  StatusInv'
<1> DEFINE v == IF runs[t].paused \/ finals[t] = "cancelled" THEN finals[t]
                ELSE IF Undone(t) = {} /\ ~runs[t].interrupted THEN "completed" ELSE "failed"
<1>1. /\ attempts' = attempts /\ executors' = executors /\ gates' = gates /\ finals' = [finals EXCEPT ![t] = v]
      /\ up' = up /\ recent' = recent /\ events' = events /\ runs' = [runs EXCEPT ![t] = NoRun]
      /\ (Over(t) \/ runs[t].interrupted)
  BY DEF RunEnds
<1>2. (v = "none" => finals[t] = "none") /\ (finals[t] = "cancelled" => v = "cancelled")
  OBVIOUS
<1> HIDE DEF v
<1>3. RunsOK /\ VerdictsOK /\ OutageIsCounted /\ OnIsOpen /\ OpenIsAwaited
  BY DEF RecordsInv, Tables, StatusInv
<1>4. runs'[t] = NoRun /\ \A u \in Tasks \ {t} : Same(u) /\ finals'[u] = finals[u]
  BY <1>1, <1>3, OthersSame DEF VerdictsOK
<1>5. finals'[t] = v
  BY <1>1, <1>3 DEF VerdictsOK
<1>6. Rests(t) /\ ~runs'[t].on /\ ~runs'[t].interrupted /\ ~runs'[t].pass
  BY <1>4 DEF NoRun, Rests
<1>7. \A u \in Tasks : u = t \/ (Same(u) /\ Waits(u) /\ finals'[u] = finals[u])
  BY <1>4 DEF Same, Waits
<1>8. \A u \in Tasks : /\ Rests(u) \/ Waits(u)
                       /\ runs'[u].on => finals'[u] \in {"none", "cancelled"}
                       /\ runs'[u].interrupted => finals'[u] = "cancelled"
                       /\ runs'[u].pass => runs[u].pass /\ runs'[u].value = runs[u].value
                       /\ finals'[u] = "none" => finals[u] = "none"
  BY <1>2, <1>3, <1>5, <1>6, <1>7 DEF OnIsOpen, Same
<1>9. \A u \in Tasks : Working(u)' /\ runs'[u].at # 0 =>
           Working(u) /\ Waits(u) /\ (runs[u].at \in Of(u) => Steady(runs[u].at))
  <2>1. \A a : Steady(a)
    BY <1>1 DEF Steady
  <2>2. QED
    BY <1>6, <1>7, <2>1, SameIs DEF Working, Same
<1>10. Known
  BY <1>1 DEF Known
<1>11. \A g \in gates' : \A u \in Tasks :
         g.open /\ u = attempts[g.attempt].task /\ g.attempt \in DOMAIN attempts /\ events'["outages"] = 0 =>
           \/ finals'[u] = "cancelled"
           \/ g \in gates /\ (Same(u) \/ runs[u].at # g.attempt) /\ (finals[u] = "cancelled" => finals'[u] = "cancelled")
  <2>1. ASSUME NEW g \in gates, g.open, t = attempts[g.attempt].task, events["outages"] = 0
        PROVE  finals[t] = "cancelled"
    BY <1>1, <1>3, <2>1 DEF OpenIsAwaited, OnIsOpen
  <2>2. QED
    BY <1>1, <1>2, <1>5, <1>7, <2>1
<1>12. \A a \in DOMAIN attempts : attempts[a].task \in Tasks
  BY DEF RecordsInv, Tables, AttemptsOK, Rows
<1>13. \A u \in Tasks : runs'[u].pass =>
        runs'[u].value = runs[u].value /\ (runs[u].pass \/ (Undone(u) # {} /\ At(u) \in Fanouts))
  BY <1>8
<1>14. QED
  BY <1>1, <1>3, <1>8, <1>9, <1>10, <1>11, <1>12, <1>13, NoneOpens DEF OutageIsCounted

LEMMA AgentRetriesStatus ==
  ASSUME RecordsInv, RecordsInv', StatusInv, NEW a, AgentRetries(a)
  PROVE  StatusInv'
<1> DEFINE q == attempts[a]
           row0 == Row(q.task, q.stage, q.kind, "running", q.read)
           row == [row0 EXCEPT !.elem = q.elem]
           old == [attempts EXCEPT ![a].status = "error"]
           e(u) == [runs[u] EXCEPT !.at = New]
<1>1. /\ a \in executors /\ a \in DOMAIN attempts /\ q.stage \in Agents
      /\ attempts' = Put(old, New, row) /\ gates' = gates /\ finals' = finals /\ up' = up
      /\ executors' = (executors \ {a}) \cup {New} /\ recent' = recent \cup {New}
      /\ runs' = [u \in Tasks |-> IF u \in Waiting(a) THEN e(u) ELSE runs[u]]
  BY DEF AgentRetries
<1>2. events'["outages"] = events["outages"]
  BY CountSpares DEF AgentRetries, Kinds
<1>3. /\ OutageIsCounted /\ AtStands /\ PassIsAtFanout /\ GatesAreGates /\ RunningIsAttended
      /\ OnIsOpen /\ WorkIsShown /\ OpenIsAwaited
  BY DEF StatusInv
<1>4. AttemptsOK /\ \A u \in Tasks : runs[u] \in Runs
  BY DEF RecordsInv, RunsOK, Tables
<1>5. New \notin DOMAIN attempts /\ New # a
      /\ \A g \in gates : g.attempt # New /\ g.attempt # a /\ g.attempt \in DOMAIN attempts
  BY <1>1, <1>3, NewIsNew, ExecutedIsNoGate
<1>6. /\ row0.task = q.task /\ row0.stage = q.stage /\ row0.kind = q.kind /\ row0.status = "running"
      /\ row.task = row0.task /\ row.stage = row0.stage /\ row.kind = row0.kind /\ row.status = row0.status
  BY DEF Row
<1> HIDE DEF row0, row
<1>7. /\ DOMAIN old = DOMAIN attempts /\ old[a].status = "error"
      /\ \A b \in DOMAIN attempts :
           /\ old[b].idx = attempts[b].idx /\ old[b].task = attempts[b].task
           /\ old[b].stage = attempts[b].stage /\ old[b].kind = attempts[b].kind
           /\ b # a => old[b] = attempts[b]
  BY <1>1, <1>4 DEF AttemptsOK, Rows
<1> HIDE DEF old
<1>8. /\ DOMAIN attempts' = DOMAIN attempts \cup {New} /\ attempts'[New] = row
      /\ \A b \in DOMAIN attempts : attempts'[b] = old[b]
  BY <1>1, <1>5, <1>7 DEF Put
<1>9. Known
  BY <1>7, <1>8 DEF Known
<1>10. \A u \in Tasks :
         /\ e(u).at = New /\ e(u).value = runs[u].value /\ e(u).on = runs[u].on /\ e(u).failed = runs[u].failed
         /\ e(u).paused = runs[u].paused /\ e(u).interrupted = runs[u].interrupted /\ e(u).pass = runs[u].pass
  BY <1>4 DEF Runs
<1> HIDE DEF e
<1>11. \A u \in Tasks :
         /\ runs'[u].on = runs[u].on /\ runs'[u].value = runs[u].value /\ runs'[u].failed = runs[u].failed
         /\ runs'[u].paused = runs[u].paused /\ runs'[u].interrupted = runs[u].interrupted
         /\ runs'[u].pass = runs[u].pass
         /\ IF u \in Waiting(a) THEN runs[u].at = a /\ runs'[u].at = New ELSE Same(u)
  BY <1>1, <1>10 DEF Same, Waiting
<1>12. AtStands'
  <2>1. ASSUME NEW u \in Tasks, u \in Waiting(a) PROVE Takes(u)
    <3>1. q.task = u /\ q.stage = At(u) /\ Undone(u) # {} /\ (At(u) \in Fanouts => IsElement(a))
      BY <1>1, <1>3, <1>11, <2>1 DEF AtStands
    <3>2. QED
      BY <1>6, <1>8, <1>11, <2>1, <3>1 DEF Takes, IsElement
  <2>2. \A u \in Tasks : Rests(u) \/ Waits(u) \/ Takes(u)
    BY <1>11, <2>1 DEF Same, Waits
  <2>3. QED
    BY <1>3, <1>9, <2>2, StandsStay
<1>13. PassIsAtFanout'
  <2>1. \A u \in Tasks : runs'[u].pass =>
          runs'[u].value = runs[u].value /\ (runs[u].pass \/ (Undone(u) # {} /\ At(u) \in Fanouts))
    BY <1>11
  <2>2. QED
    BY <1>3, <2>1, PassStays, Zenon
<1>14. q.stage \notin Gates
  BY <1>1, <1>3, ExecutedIsNoGate
<1>15. GatesAreGates'
  BY <1>1, <1>3, <1>6, <1>8, <1>9, <1>14, GatesStay
<1>16. RunningIsAttended'
  BY <1>1, <1>3, <1>7, <1>8, <1>9, AttendedStay
<1>17. OnIsOpen'
  BY <1>1, <1>3, <1>11 DEF OnIsOpen
<1>18. WorkIsShown'
  <2>0. PICK new : new = New
    OBVIOUS
  <2>1. ASSUME NEW u \in Tasks, u \notin Waiting(a), Working(u)'
        PROVE  Working(u) /\ Waits(u) /\ (runs[u].at \in Of(u) /\ Shown(runs[u].at) => Shown(runs[u].at)')
    <3>1. Working(u) /\ Waits(u) /\ runs[u].at # a
      BY <1>1, <1>11, <2>1, SameIs DEF Same, Waits, Working, Waiting
    <3>2. PICK b : b = runs[u].at
      OBVIOUS
    <3>3. runs'[u].at = b
      BY <3>1, <3>2 DEF Waits
    <3>4. ASSUME b \in Of(u), Shown(b) PROVE Shown(b)'
      <4>1. b \in DOMAIN attempts /\ b # a
        BY <3>1, <3>2, <3>4 DEF Of
      <4>2. Aside(b)
        BY <1>1, <1>6, <1>8 DEF Aside
      <4>3. QED
        BY <1>1, <1>7, <1>8, <1>9, <3>4, <4>1, <4>2, ShownStays
    <3>5. QED
      BY <3>1, <3>2, <3>3, <3>4 DEF Shown, Open, Newest
  <2>2. ASSUME NEW u \in Tasks, u \in Waiting(a)
        PROVE  runs'[u].at = new /\ Shown(new)'
    <3>1. runs'[u].at = new /\ attempts'[new] = row /\ row.stage = q.stage /\ row.status = "running"
          /\ new \in executors' /\ new \in recent'
      BY <1>1, <1>6, <1>8, <1>11, <2>0, <2>2
    <3>2. QED
      BY <1>1, <1>14, <3>1 DEF Shown
  <2>3. \A u \in Tasks :
          \/ Rests(u) \/ ~Working(u)' \/ (runs'[u].at = new /\ Shown(new)')
          \/ Working(u) /\ Waits(u) /\ (runs[u].at \in Of(u) /\ Shown(runs[u].at) => Shown(runs[u].at)')
    BY <2>1, <2>2
  <2>4. QED
    BY <1>3, <2>3, WorkStays
<1>19. OpenIsAwaited'
  BY <1>1, <1>2, <1>3, <1>5, <1>9, <1>11, AwaitedStay
<1>20. OutageIsCounted'
  BY <1>1, <1>2, <1>3 DEF OutageIsCounted
<1>21. QED
  BY <1>12, <1>13, <1>15, <1>16, <1>17, <1>18, <1>19, <1>20 DEF StatusInv

\* Nothing the status is told from changes, except that agents at work give signs of life.
LEMMA NothingMoves ==
  ASSUME RecordsInv, RecordsInv', StatusInv, attempts' = attempts, gates' = gates, runs' = runs,
         executors' = executors, finals' = finals, up' = up, events'["outages"] = events["outages"],
         \A a \in executors \cap DOMAIN attempts : attempts[a].stage \in Agents /\ a \in recent => a \in recent'
  PROVE  StatusInv'
<1>1. OutageIsCounted /\ OnIsOpen /\ \A u \in Tasks : Same(u) /\ Waits(u)
  BY DEF StatusInv, Same, Waits
<1>2. Known
  BY DEF Known
<1>3. ASSUME NEW u \in Tasks, Working(u)'
      PROVE  Working(u) /\ Waits(u) /\ (runs[u].at \in Of(u) => Steady(runs[u].at))
  <2>1. Working(u)
    BY <1>1, <1>3, SameIs DEF Working
  <2>2. QED
    BY <1>1, <2>1 DEF Steady, Of
<1>4. QED
  BY <1>1, <1>2, <1>3, NoneOpens DEF OutageIsCounted, OnIsOpen

LEMMA WriteFromOutsideStatus ==
  ASSUME RecordsInv, RecordsInv', StatusInv, NEW a, WriteFromOutside(a)
  PROVE  StatusInv'
<1>1. events'["outages"] = events["outages"]
  BY CountSpares DEF WriteFromOutside, Kinds
<1>2. QED
  BY <1>1, NothingMoves DEF WriteFromOutside

LEMMA TimePassesStatus ==
  ASSUME RecordsInv, RecordsInv', StatusInv, TimePasses
  PROVE  StatusInv'
BY NothingMoves DEF TimePasses, db

LEMMA NothingStatus ==
  ASSUME RecordsInv, RecordsInv', StatusInv, UNCHANGED vars
  PROVE  StatusInv'
BY NothingMoves DEF vars

LEMMA PruneStatus ==
  ASSUME RecordsInv, RecordsInv', StatusInv, NEW as, Prune(Prunable(as))
  PROVE  StatusInv'
<1> DEFINE gone == Prunable(as)
<1>1. /\ attempts' = Restrict(attempts, DOMAIN attempts \ gone)
      /\ gates' = {g \in gates : g.attempt \notin gone}
      /\ finals' = finals /\ up' = up /\ runs' = runs /\ executors' = executors /\ recent' = recent
  BY DEF Prune
<1>2. events'["outages"] = events["outages"]
  BY CountSpares DEF Prune, Kinds
<1>3. \A a \in gone : finals[attempts[a].task] # "none"
  BY DEF Prunable
<1> HIDE DEF gone
<1>4. DOMAIN attempts' = DOMAIN attempts \ gone /\ \A a \in DOMAIN attempts' : attempts'[a] = attempts[a]
  BY <1>1 DEF Restrict
<1>5. OutageIsCounted /\ OnIsOpen /\ \A u \in Tasks : Same(u) /\ Waits(u)
  BY <1>1 DEF StatusInv, Same, Waits
<1>6. Known
  BY <1>4 DEF Known
<1>7. ASSUME NEW u \in Tasks, Working(u)'
      PROVE  Working(u) /\ Waits(u) /\ (runs[u].at \in Of(u) => Steady(runs[u].at))
  <2>1. Working(u)
    BY <1>1, <1>5, <1>7, SameIs DEF Working
  <2>2. ASSUME NEW a \in Of(u) PROVE Steady(a)
    <3>1. a \notin gone
      BY <1>3, <2>1 DEF Of, Working
    <3>2. QED
      BY <1>1, <1>4, <3>1 DEF Steady, Open, Of
  <2>3. QED
    BY <1>5, <2>1, <2>2
<1>8. \A a \in DOMAIN attempts' : Open(a) \in gates => Open(a) \in gates'
  BY <1>1, <1>4 DEF Open
<1>9. QED
  BY <1>1, <1>2, <1>4, <1>5, <1>6, <1>7, <1>8, NoneOpens DEF OutageIsCounted, OnIsOpen

LEMMA PrunerStatus ==
  ASSUME RecordsInv, RecordsInv', StatusInv, Pruner
  PROVE  StatusInv'
<1>1. PICK as : Prune(Prunable(as))
  BY DEF Pruner, PruneTask, PruneOlder
<1>2. QED
  BY <1>1, PruneStatus

LEMMA CrashStatus ==
  ASSUME RecordsInv, RecordsInv', StatusInv, Crash
  PROVE  StatusInv'
<1>1. /\ attempts' = attempts /\ gates' = gates /\ executors' = {} /\ ~up' /\ runs' = [t \in Tasks |-> NoRun]
  BY DEF Crash, db
<1>2. events'["outages"] # 0
  <2>1. events \in [Kinds -> Nat] /\ "outages" \in Kinds
    BY DEF RecordsInv, Tables, ServerOK, Kinds
  <2>2. events' = [events EXCEPT !["outages"] = @ + 1]
    BY Zenon DEF Count, Crash
  <2>3. QED
    BY <2>1, <2>2
<1>3. Known
  BY <1>1 DEF Known
<1>4. \A u \in Tasks : Rests(u) /\ ~runs'[u].on /\ ~runs'[u].interrupted /\ ~runs'[u].pass
  BY <1>1 DEF NoRun, Rests
<1>5. \A u \in Tasks : ~Working(u)'
  BY <1>4 DEF Working
<1>6. \A g \in gates' : \E h \in gates : h.attempt = g.attempt
  BY <1>1
<1>7. DOMAIN attempts' \subseteq DOMAIN attempts /\ executors' \subseteq executors
  BY <1>1
<1>8. QED
  BY <1>1, <1>2, <1>3, <1>4, <1>5, <1>6, <1>7, NoneOpens

LEMMA AnswerStatus ==
  ASSUME RecordsInv, RecordsInv', StatusInv, NEW g0 \in gates, Answer(g0)
  PROVE  StatusInv'
<1> DEFINE a == g0.attempt
           t == attempts[a].task
           s == attempts[a].stage
           st == IF attempts[a].status = "running" THEN "success" ELSE attempts[a].status
           r == [runs[t] EXCEPT !.value[s] = runs[t].at, !.at = 0]
           moves == Waiting(runs[t].at) = {t} /\ ~Over(t) /\ At(t) = s
           closed == [g0 EXCEPT !.open = FALSE]
<1>1. /\ g0.open /\ gates' = (gates \ {g0}) \cup {closed} /\ attempts' = [attempts EXCEPT ![a].status = st]
      /\ runs' = IF moves THEN [runs EXCEPT ![t] = r] ELSE runs
      /\ finals' = finals /\ up' = up /\ executors' = executors /\ recent' = recent /\ events' = events
  BY DEF Answer
<1>2. /\ OutageIsCounted /\ AtStands /\ PassIsAtFanout /\ GatesAreGates /\ OnIsOpen /\ OpenIsAwaited
  BY DEF StatusInv
<1>3. AttemptsOK /\ RunsOK /\ gates \subseteq Questions(DOMAIN attempts)
  BY DEF RecordsInv, Tables, QuestionsOK, Questions
<1>4. a \in DOMAIN attempts /\ attempts[a] \in Rows /\ t \in Tasks /\ s \in Gates /\ a # 0
  BY <1>2, <1>3, NewIsNew DEF GatesAreGates, AttemptsOK, Rows, Questions
<1>5. st \in {"success", "error", "secret_pending", "superseded"}
  BY <1>4 DEF Rows
<1>6. closed.attempt = a /\ ~closed.open /\ \A g \in gates : g.open /\ g.attempt = a => g = g0
  BY <1>1, <1>3 DEF Questions
<1> HIDE DEF closed
<1>7. /\ Known /\ DOMAIN attempts' = DOMAIN attempts /\ attempts'[a].status = st
      /\ \A b \in DOMAIN attempts : attempts'[b].task = attempts[b].task /\ (b # a => attempts'[b] = attempts[b])
  <2>1. attempts'[a].status = st /\ attempts'[a].task = attempts[a].task
    BY <1>1, <1>4 DEF Rows
  <2>2. Restated
    BY <1>1, <1>3, <1>4, <1>5, OneRestated
  <2> HIDE DEF st
  <2>3. Known /\ DOMAIN attempts' = DOMAIN attempts
    BY <1>3, <2>2, RestatedKnown
  <2>4. QED
    BY <1>1, <1>4, <2>1, <2>3
<1> HIDE DEF st
<1>8. runs[t] \in Runs
  BY <1>3, <1>4 DEF RunsOK
<1>9. r.at = 0 /\ r.on = runs[t].on /\ r.pass = runs[t].pass /\ r.interrupted = runs[t].interrupted
  BY <1>8 DEF Runs
<1> HIDE DEF r
<1>10. ASSUME moves
       PROVE  /\ runs'[t].at = 0 /\ runs'[t].on = runs[t].on /\ ~runs'[t].pass
              /\ runs'[t].interrupted = runs[t].interrupted /\ \A u \in Tasks \ {t} : Same(u)
  <2>1. runs'[t] = r /\ \A u \in Tasks \ {t} : Same(u)
    BY <1>1, <1>3, <1>4, <1>10, OthersSame
  <2>2. s \notin Fanouts /\ At(t) = s
    BY <1>4, <1>10, RecordsAssumption
  <2>3. ~runs[t].pass
    BY <1>2, <1>4, <2>2 DEF PassIsAtFanout
  <2>4. QED
    BY <1>9, <2>1, <2>3
<1>11. ~moves => \A u \in Tasks : Same(u)
  BY <1>1 DEF Same
<1>12. \A u \in Tasks : Same(u) \/ (moves /\ u = t)
  BY <1>10, <1>11
<1>13. \A u \in Tasks : /\ Rests(u) \/ Waits(u)
                        /\ runs'[u].on = runs[u].on /\ runs'[u].interrupted = runs[u].interrupted
                        /\ runs'[u].pass => runs'[u].value = runs[u].value /\ runs[u].pass
  BY <1>10, <1>12 DEF Same, Rests, Waits
<1>14. ASSUME NEW u \in Tasks, Working(u)', runs'[u].at # 0
       PROVE  Working(u) /\ Waits(u) /\ (runs[u].at \in Of(u) => Steady(runs[u].at))
  <2>1. Same(u) /\ ~(moves /\ u = t)
    BY <1>10, <1>12, <1>14
  <2>2. Working(u) /\ Waits(u) /\ runs[u].at # 0
    BY <1>1, <1>14, <2>1, SameIs DEF Working, Same, Waits
  <2>3. ASSUME runs[u].at \in Of(u) PROVE runs[u].at # a
    <3>1. CASE u # t
      BY <2>3, <3>1 DEF Of
    <3>2. CASE u = t
      <4>1. ASSUME NEW v \in Tasks, runs[v].at = runs[u].at PROVE v = u
        BY <1>2, <2>3, <4>1 DEF AtStands, Of
      <4>2. Waiting(runs[t].at) = {t}
        BY <1>4, <2>2, <3>2, <4>1 DEF Waiting, Working
      <4>3. At(t) # s
        BY <2>1, <2>2, <3>2, <4>2 DEF Working
      <4>4. QED
        BY <1>2, <1>4, <2>3, <3>2, <4>3 DEF AtStands, Of
    <3>3. QED
      BY <3>1, <3>2
  <2>4. ASSUME NEW b \in Of(u), b # a PROVE Steady(b)
    BY <1>1, <1>7, <2>4 DEF Steady, Of, Open
  <2>5. QED
    BY <2>2, <2>3, <2>4
<1>15. \A g \in gates' : \E h \in gates : h.attempt = g.attempt
  BY <1>1, <1>6
<1>16. \A b \in DOMAIN attempts' : attempts'[b].status = "running" =>
         b # a /\ b \in DOMAIN attempts /\ attempts'[b] = attempts[b] /\ (Open(b) \in gates => Open(b) \in gates')
  BY <1>1, <1>5, <1>7 DEF Open
<1>17. ASSUME NEW g \in gates', g.open, NEW u \in Tasks, u = attempts[g.attempt].task, events["outages"] = 0,
              finals[u] # "cancelled"
       PROVE  g \in gates /\ (Same(u) \/ runs[u].at # g.attempt)
  <2>1. g \in gates /\ g # g0
    BY <1>1, <1>6, <1>17
  <2>2. g.attempt # a
    BY <1>6, <1>17, <2>1
  <2>3. u = t => runs[t].at = a
    BY <1>1, <1>2, <1>17 DEF OpenIsAwaited
  <2>4. QED
    BY <1>12, <2>1, <2>2, <2>3
<1>18. \A u \in Tasks : runs'[u].pass =>
        runs'[u].value = runs[u].value /\ (runs[u].pass \/ (Undone(u) # {} /\ At(u) \in Fanouts))
  BY <1>13
<1> HIDE DEF a, t, s, moves
<1>19. QED
  BY <1>1, <1>2, <1>7, <1>13, <1>14, <1>15, <1>16, <1>17, <1>18, NoneOpens DEF OutageIsCounted, OnIsOpen

LEMMA CancelStatus ==
  ASSUME RecordsInv, RecordsInv', StatusInv, NEW t \in Tasks, Cancel(t)
  PROVE  StatusInv'
<1> DEFINE r == [runs[t] EXCEPT !.interrupted = runs[t].on]
<1>1. /\ attempts' = attempts /\ executors' = executors /\ gates' = ClosedGates(Of(t))
      /\ finals' = [finals EXCEPT ![t] = "cancelled"] /\ up' = up /\ recent' = recent /\ events' = events
      /\ runs' = [runs EXCEPT ![t] = r]
  BY DEF Cancel
<1>2. RunsOK /\ VerdictsOK /\ OutageIsCounted /\ OnIsOpen /\ runs[t] \in Runs
  BY DEF RecordsInv, Tables, StatusInv, RunsOK
<1>3. /\ r.at = runs[t].at /\ r.on = runs[t].on /\ r.pass = runs[t].pass /\ r.value = runs[t].value
  BY <1>2 DEF Runs
<1> HIDE DEF r
<1>4. runs'[t] = r /\ \A u \in Tasks \ {t} : Same(u)
  BY <1>1, <1>2, OthersSame
<1>5. finals'[t] = "cancelled" /\ \A u \in Tasks \ {t} : finals'[u] = finals[u]
  BY <1>1, <1>2 DEF VerdictsOK
<1>6. \A u \in Tasks : /\ Waits(u) /\ runs'[u].on = runs[u].on
                       /\ runs'[u].pass = runs[u].pass /\ runs'[u].value = runs[u].value
                       /\ u = t \/ (Same(u) /\ finals'[u] = finals[u])
  BY <1>3, <1>4, <1>5 DEF Waits, Same
<1>7. \A u \in Tasks : /\ runs'[u].on => finals'[u] \in {"none", "cancelled"}
                       /\ runs'[u].interrupted => finals'[u] = "cancelled"
  BY <1>2, <1>5, <1>6 DEF OnIsOpen, Same
<1>8. \A b \in DOMAIN attempts : attempts[b].task # t => (Open(b) \in gates => Open(b) \in gates')
  BY <1>1 DEF ClosedGates, Open, Of
<1>9. ASSUME NEW u \in Tasks, Working(u)'
      PROVE  Working(u) /\ Waits(u) /\ (runs[u].at \in Of(u) => Steady(runs[u].at))
  <2>1. u # t /\ Same(u) /\ finals'[u] = finals[u]
    BY <1>5, <1>6, <1>9 DEF Working
  <2>2. Working(u)
    BY <1>9, <2>1, SameIs DEF Working, Same
  <2>3. ASSUME NEW b \in Of(u) PROVE Steady(b)
    BY <1>1, <1>8, <2>1 DEF Steady, Of
  <2>4. QED
    BY <1>6, <2>2, <2>3
<1>10. Known
  BY <1>1 DEF Known
<1>11. \A g \in gates' : /\ \E h \in gates : h.attempt = g.attempt
                         /\ g.open => g \in gates
  <2>1. gates \subseteq Questions(DOMAIN attempts)
    BY DEF RecordsInv, Tables, QuestionsOK, Questions
  <2>2. QED
    BY <1>1, <2>1 DEF ClosedGates, Questions
<1>12. \A a \in DOMAIN attempts : attempts[a].task \in Tasks
  BY DEF RecordsInv, Tables, AttemptsOK, Rows
<1>13. QED
  BY <1>1, <1>2, <1>5, <1>6, <1>7, <1>8, <1>9, <1>10, <1>11, <1>12, NoneOpens DEF OutageIsCounted

LEMMA HydratedRuns ==
  ASSUME NEW t
  PROVE  LET h == Hydrated(t) IN h.at = 0 /\ h.on /\ ~h.pass /\ ~h.interrupted
BY DEF Hydrated, NoRun

\* The run of t, which is off, starts again.
LEMMA RedoStatus ==
  ASSUME RecordsInv, RecordsInv', StatusInv, NEW t \in Tasks, NEW s, Redo(t, s), ~runs[t].on, finals[t] = "none",
         finals' = finals, up' = up, executors' = executors, recent' = recent, events'["outages"] = events["outages"]
  PROVE  StatusInv'
<1> DEFINE as == {a \in Of(t) : attempts[a].stage >= s}
           gone == In(as, {"success", "running", "error"}) \ {a \in In(as, {"success"}) : IsElement(a)}
           h == Hydrated(t)
           r == [h EXCEPT !.value = [x \in Stages |-> IF x >= s THEN 0 ELSE h.value[x]]]
<1>1. attempts' = [a \in DOMAIN attempts |->
                     IF a \in gone THEN [attempts[a] EXCEPT !.status = "superseded"] ELSE attempts[a]]
  BY DEF Redo
<1>2. gates' = ClosedGates(as)
  BY DEF Redo
<1>3. runs' = [runs EXCEPT ![t] = r]
  BY DEF Redo
<1>4. as \subseteq Of(t) /\ gone \subseteq Of(t) /\ \A a \in as : attempts[a].status = "running" => a \in gone
  BY DEF In
<1>5. Restated
  BY <1>1, SomeRestated DEF RecordsInv, Tables
<1>6. Known /\ DOMAIN attempts' = DOMAIN attempts
  BY <1>5, RestatedKnown DEF RecordsInv, Tables
<1>7. \A a \in DOMAIN attempts : a \notin gone => attempts'[a] = attempts[a]
  BY <1>1
<1>8. \A a \in gone : attempts'[a].status = "superseded"
  <2>1. \A a \in gone : a \in DOMAIN attempts /\ attempts[a] \in Rows
    BY <1>4 DEF Of, RecordsInv, Tables, AttemptsOK
  <2>2. QED
    BY <1>1, <2>1 DEF Rows
<1> HIDE DEF gone
<1>9. RunsOK /\ VerdictsOK /\ OutageIsCounted /\ OnIsOpen /\ OpenIsAwaited /\ h \in Runs
  BY HydratedIs DEF RecordsInv, Tables, StatusInv
<1>10. h.at = 0 /\ ~h.pass /\ ~h.interrupted
  BY HydratedRuns
<1> HIDE DEF h
<1>11. r.at = 0 /\ ~r.pass /\ ~r.interrupted
  BY <1>9, <1>10 DEF Runs
<1> HIDE DEF r
<1>12. runs'[t] = r /\ \A u \in Tasks \ {t} : Same(u)
  BY <1>3, <1>9, OthersSame
<1>13. \A u \in Tasks : /\ Rests(u) \/ Waits(u)
                        /\ u = t \/ Same(u)
                        /\ runs'[u].pass => runs'[u].value = runs[u].value /\ runs[u].pass
                        /\ runs'[u].on => finals'[u] \in {"none", "cancelled"}
                        /\ runs'[u].interrupted => finals'[u] = "cancelled"
  BY <1>9, <1>11, <1>12 DEF Rests, Waits, Same, OnIsOpen
<1>14. \A b \in DOMAIN attempts : b \notin as => (Open(b) \in gates => Open(b) \in gates')
  BY <1>2 DEF ClosedGates, Open
<1>15. ASSUME NEW u \in Tasks, Working(u)', runs'[u].at # 0
       PROVE  Working(u) /\ Waits(u) /\ (runs[u].at \in Of(u) => Steady(runs[u].at))
  <2>1. u # t /\ Same(u)
    BY <1>11, <1>12, <1>15
  <2>2. Working(u) /\ Waits(u)
    BY <1>15, <2>1, SameIs DEF Working, Same, Waits
  <2>3. ASSUME NEW b \in Of(u) PROVE Steady(b)
    <3>1. b \notin as /\ b \notin gone /\ b \in DOMAIN attempts
      BY <1>4, <2>1 DEF Of
    <3>2. QED
      BY <1>7, <1>14, <3>1 DEF Steady
  <2>4. QED
    BY <2>2, <2>3
<1>16. \A g \in gates' : /\ \E q \in gates : q.attempt = g.attempt
                         /\ g.open => g \in gates
  <2>1. gates \subseteq Questions(DOMAIN attempts)
    BY DEF RecordsInv, Tables, QuestionsOK, Questions
  <2>2. QED
    BY <1>2, <2>1 DEF ClosedGates, Questions
<1>17. \A b \in DOMAIN attempts' : attempts'[b].status = "running" =>
         b \in DOMAIN attempts /\ attempts'[b] = attempts[b] /\ (Open(b) \in gates => Open(b) \in gates')
  <2>1. ASSUME NEW b \in DOMAIN attempts, attempts'[b].status = "running"
        PROVE  b \notin gone /\ b \notin as
    BY <1>4, <1>7, <1>8, <2>1
  <2>2. QED
    BY <1>6, <1>7, <1>14, <2>1
<1>18. ASSUME NEW g \in gates', g.open, NEW u \in Tasks, u = attempts[g.attempt].task, events["outages"] = 0
       PROVE  finals[u] = "cancelled" \/ (g \in gates /\ Same(u))
  <2>1. g \in gates
    BY <1>16, <1>18
  <2>2. u = t => FALSE
    BY <1>9, <1>18, <2>1 DEF OpenIsAwaited
  <2>3. QED
    BY <1>13, <2>1, <2>2
<1>19. \A u \in Tasks : runs'[u].pass =>
        runs'[u].value = runs[u].value /\ (runs[u].pass \/ (Undone(u) # {} /\ At(u) \in Fanouts))
  BY <1>13
<1> HIDE DEF as
<1>20. QED
  BY <1>6, <1>9, <1>13, <1>15, <1>16, <1>17, <1>18, <1>19, NoneOpens DEF OutageIsCounted

LEMMA RetryStatus ==
  ASSUME RecordsInv, RecordsInv', StatusInv, NEW t \in Tasks, NEW s \in Stages, Retry(t, s)
  PROVE  StatusInv'
<1>1. events'["outages"] = events["outages"]
  BY CountSpares DEF Retry, Kinds
<1>2. QED
  BY <1>1, RedoStatus DEF Retry

LEMMA ProvideSecretsStatus ==
  ASSUME RecordsInv, RecordsInv', StatusInv, NEW t \in Tasks, ProvideSecrets(t)
  PROVE  StatusInv'
<1>1. /\ ~runs[t].on /\ finals' = finals /\ up' = up /\ executors' = executors /\ recent' = recent /\ events' = events
  BY DEF ProvideSecrets
<1>2. CASE finals[t] = "none"
  <2>1. PICK s : Redo(t, s)
    BY <1>2 DEF ProvideSecrets
  <2>2. QED
    BY <1>1, <1>2, <2>1, RedoStatus
<1>3. CASE finals[t] # "none"
  BY <1>1, <1>3, NothingMoves DEF ProvideSecrets
<1>4. QED
  BY <1>2, <1>3

LEMMA BootStatus ==
  ASSUME RecordsInv, RecordsInv', StatusInv, Boot
  PROVE  StatusInv'
<1> DEFINE left == {a \in DOMAIN attempts : attempts[a].task \in Orphans /\ attempts[a].status = "running"}
<1>1. /\ ~up /\ up' /\ gates' = gates /\ executors' = executors /\ events' = events
      /\ attempts' = [a \in DOMAIN attempts |->
                        IF a \in left THEN [attempts[a] EXCEPT !.status = "superseded"] ELSE attempts[a]]
      /\ finals' = [t \in Tasks |-> IF t \in Orphans /\ Recovered(t) THEN "completed" ELSE finals[t]]
      /\ runs' = [t \in Tasks |-> IF t \in Orphans /\ ToResume(t) THEN Hydrated(t) ELSE NoRun]
  BY DEF Boot
<1>2. OutageIsCounted /\ AttemptsOK
  BY DEF StatusInv, RecordsInv, Tables
<1>3. events'["outages"] # 0
  BY <1>1, <1>2 DEF OutageIsCounted
<1>4. Restated
  BY <1>1, <1>2, SomeRestated
<1>5. Known /\ DOMAIN attempts' = DOMAIN attempts
  BY <1>2, <1>4, RestatedKnown
<1>6. \A u \in Tasks : /\ runs'[u].at = 0 /\ ~runs'[u].pass /\ ~runs'[u].interrupted
                       /\ runs'[u].on => finals'[u] = "none"
  <2>1. ASSUME NEW u \in Tasks, u \in Orphans, ToResume(u)
        PROVE  runs'[u] = Hydrated(u) /\ finals'[u] = "none"
    BY <1>1, <2>1 DEF Recovered, Orphans
  <2>2. ASSUME NEW u \in Tasks, ~(u \in Orphans /\ ToResume(u))
        PROVE  runs'[u].at = 0 /\ ~runs'[u].on /\ ~runs'[u].pass /\ ~runs'[u].interrupted
    BY <1>1, <2>2 DEF NoRun
  <2>3. QED
    BY <2>1, <2>2, HydratedRuns
<1>7. \A u \in Tasks : Rests(u)
  BY <1>6 DEF Rests
<1>8. ASSUME NEW a \in DOMAIN attempts', attempts'[a].status = "running", finals'[attempts'[a].task] = "none"
      PROVE  FALSE
  <2>1. a \in DOMAIN attempts /\ attempts[a] \in Rows /\ attempts[a].task \in Tasks
    BY <1>2, <1>5 DEF AttemptsOK, Rows
  <2>2. a \notin left
    BY <1>1, <1>8, <2>1 DEF Rows
  <2>3. attempts'[a] = attempts[a]
    BY <1>1, <2>1, <2>2
  <2>4. finals[attempts[a].task] = "none"
    BY <1>1, <1>8, <2>1, <2>3
  <2>5. attempts[a].task \in Orphans
    BY <2>1, <2>4 DEF Orphans, Of
  <2>6. QED
    BY <1>8, <2>1, <2>2, <2>3, <2>5
<1>9. \A g \in gates' : \E h \in gates : h.attempt = g.attempt
  BY <1>1
<1>10. \A u \in Tasks : /\ runs'[u].on => finals'[u] \in {"none", "cancelled"}
                        /\ runs'[u].interrupted => finals'[u] = "cancelled"
  BY <1>6
<1>11. executors' \subseteq executors /\ DOMAIN attempts' \subseteq DOMAIN attempts
  BY <1>1, <1>5
<1> HIDE DEF left
<1>12. QED
  BY <1>1, <1>3, <1>5, <1>6, <1>7, <1>8, <1>9, <1>10, <1>11, NoneOpens

-----------------------------------------------------------------------------
LEMMA StatusInit == Init => StatusInv
<1> SUFFICES ASSUME Init PROVE StatusInv
  OBVIOUS
<1>1. attempts = <<>> /\ gates = {} /\ up /\ finals = [t \in Tasks |-> "none"] /\ executors = {}
  BY DEF Init
<1>2. ASSUME NEW u \in Tasks
      PROVE  runs[u].at = 0 /\ ~runs[u].pass /\ ~runs[u].interrupted /\ finals[u] = "none"
  <2>1. runs[u] = NoRun \/ runs[u] = [NoRun EXCEPT !.on = TRUE]
    BY DEF Init
  <2>2. QED
    BY <1>1, <2>1 DEF NoRun
<1>3. QED
  BY <1>1, <1>2 DEF StatusInv, OutageIsCounted, AtStands, PassIsAtFanout, GatesAreGates, RunningIsAttended,
     OnIsOpen, WorkIsShown, OpenIsAwaited

LEMMA StatusStep ==
  ASSUME RecordsInv, RecordsInv', StatusInv, [Next]_vars
  PROVE  StatusInv'
<1>1. CASE \E t \in Tasks : Advance(t)
  BY <1>1, OpenGateStatus, StartStageStatus, PauseForSecretStatus, BeginPassStatus, StartElementStatus,
     AggregateStatus DEF Advance
<1>2. CASE Person
  <2>1. CASE \E g \in gates : Answer(g)
    BY <2>1, AnswerStatus
  <2>2. CASE \E t \in Tasks : Cancel(t) \/ ProvideSecrets(t) \/ \E s \in Stages : Retry(t, s)
    BY <2>2, CancelStatus, ProvideSecretsStatus, RetryStatus
  <2>3. QED
    BY <1>2, <2>1, <2>2 DEF Person
<1>3. CASE Debugger
  BY <1>3, ReplayStageStatus, WriteFromOutsideStatus, DryRunStageStatus DEF Debugger
<1>4. CASE \E a \in executors : ExecutorStep(a)
  BY <1>4, WriteStatus, FinishStatus, RowlessStatus, AgentRetriesStatus, TimesOutStatus DEF ExecutorStep
<1>5. CASE \E t \in Tasks : RunEnds(t)
  BY <1>5, RunEndsStatus
<1>6. CASE Pruner \/ Crash \/ Boot \/ TimePasses
  BY <1>6, PrunerStatus, CrashStatus, BootStatus, TimePassesStatus
<1>7. CASE UNCHANGED vars
  BY <1>7, NothingStatus
<1>8. QED
  BY <1>1, <1>2, <1>3, <1>4, <1>5, <1>6, <1>7 DEF Next

\* getTaskStatus tells what goes on: whatever is replayed, retried, written from
\* outside, timed out or pruned, in any pipeline, a task at work is not reported as over,
\* unknown or (unless a replay overtook its script) orphaned, one at a gate is reported
\* as gated, one nobody works on is reported as orphaned within a minute, and a verdict
\* is reported as recorded.
THEOREM StatusTrue == Spec => []StatusIsTrue
<1>1. RecordsInv /\ Powered /\ StatusInv => StatusIsTrue
  BY StatusFollows
<1>2. Init => StatusInv
  BY StatusInit
<1>3. RecordsInv /\ RecordsInv' /\ StatusInv /\ [Next]_vars => StatusInv'
  BY StatusStep
<1>4. QED
  BY <1>1, <1>2, <1>3, RecordsInvariant, PTL DEF Spec
=============================================================================
