--------------------------- MODULE LifecycleProofs ---------------------------
(***************************************************************************)
(* The lifecycle of a task for any chain of stages and any number of       *)
(* events: it implements TaskVerdict, what the database calls running is   *)
(* running, and finished work is kept.                                     *)
(***************************************************************************)
EXTENDS LifecycleProperties, TLAPS, WellFoundedInduction

USE LifecycleAssumption

-----------------------------------------------------------------------------
(* The runner. *)

\* What the updates of a runner do to the fields the proofs are about.
LEMMA NobodyRuns == NoRunner \in Runners /\ NoRunner.done = {} /\ NoRunner.allowed = {} /\ NoRunner.at = 0
BY DEF NoRunner, Runners, Stages

LEMMA RunnerFields ==
  ASSUME NEW r \in Runners
  PROVE  r.done \subseteq Stages /\ r.allowed \subseteq Stages /\ r.at \in 0..N
BY DEF Runners

LEMMA AtStage ==
  ASSUME NEW r \in Runners, NEW s \in 0..N
  PROVE  /\ [r EXCEPT !.at = s] \in Runners
         /\ [r EXCEPT !.at = s].done = r.done /\ [r EXCEPT !.at = s].allowed = r.allowed
         /\ [r EXCEPT !.at = s].at = s
BY DEF Runners

PausedRun(r, s) == [r EXCEPT !.at = s, !.failed = TRUE, !.paused = TRUE]

LEMMA PausedAt ==
  ASSUME NEW r \in Runners, NEW s \in 0..N, NEW q, q = PausedRun(r, s)
  PROVE  q \in Runners /\ q.done = r.done /\ q.allowed = r.allowed /\ q.at = s
BY DEF Runners, PausedRun

DoneRun(r, s) == [r EXCEPT !.done = @ \cup {s}, !.at = 0]

LEMMA DoneWith ==
  ASSUME NEW r \in Runners, NEW s \in Stages, NEW q, q = DoneRun(r, s)
  PROVE  q \in Runners /\ q.done = r.done \cup {s} /\ q.allowed = r.allowed /\ q.at = 0
<1> DEFINE D == r.done \cup {s}
<1>1. D \in SUBSET Stages /\ 0 \in 0..N
  BY RunnerFields
<1>2. q = [r EXCEPT !.done = D, !.at = 0]
  BY DEF DoneRun
<1> HIDE DEF D
<1>3. q \in Runners /\ q.done = D /\ q.allowed = r.allowed /\ q.at = 0
  BY <1>1, <1>2 DEF Runners
<1>4. QED
  BY <1>3 DEF D

\* Updates that touch none of those fields.
Same(q, r) == q \in Runners /\ q.done = r.done /\ q.allowed = r.allowed /\ q.at = r.at

LEMMA FlagUp ==
  ASSUME NEW r \in Runners
  PROVE  /\ Same([r EXCEPT !.failed = TRUE], r)
         /\ Same([r EXCEPT !.expired = TRUE], r)
         /\ Same([r EXCEPT !.deaf = TRUE], r)
         /\ Same([r EXCEPT !.interrupted = TRUE, !.grace = TRUE], r)
BY DEF Runners, Same

ResetTo(r, D, A) == [r EXCEPT !.done = D, !.allowed = A, !.at = 0]

LEMMA ResetRunner ==
  ASSUME NEW r \in Runners, NEW D \in SUBSET Stages, NEW A \in SUBSET Stages
  PROVE  /\ ResetTo(r, D, A) \in Runners
         /\ ResetTo(r, D, A).done = D /\ ResetTo(r, D, A).allowed = A /\ ResetTo(r, D, A).at = 0
<1>1. 0 \in 0..N
  OBVIOUS
<1>2. QED
  BY <1>1 DEF ResetTo, Runners

LaunchedAt(D, A) ==
  [registered |-> TRUE, done |-> D, allowed |-> A, at |-> 0, failed |-> FALSE,
   interrupted |-> FALSE, grace |-> FALSE, deaf |-> FALSE, paused |-> FALSE, expired |-> FALSE]

LEMMA LaunchedRunner ==
  ASSUME NEW D \in SUBSET Stages, NEW A \in SUBSET Stages
  PROVE  /\ LaunchedAt(D, A) \in Runners
         /\ LaunchedAt(D, A).done = D /\ LaunchedAt(D, A).allowed = A /\ LaunchedAt(D, A).at = 0
<1>1. 0 \in 0..N
  OBVIOUS
<1>2. LaunchedAt(D, A) \in Runners
  BY <1>1 DEF LaunchedAt, Runners
<1>3. LaunchedAt(D, A).done = D /\ LaunchedAt(D, A).allowed = A /\ LaunchedAt(D, A).at = 0
  BY DEF LaunchedAt
<1>4. QED
  BY <1>2, <1>3

LEMMA ApprovedRunner ==
  ASSUME NEW r \in Runners, NEW g \in Gates
  PROVE  r.done \cup {g} \in SUBSET Stages /\ r.allowed \cup {g + 1} \in SUBSET Stages
<1>1. g \in Stages /\ g + 1 \in Stages
  BY DEF Stages
<1>2. QED
  BY <1>1, RunnerFields

LEMMA RejectedWith ==
  ASSUME NEW r \in Runners, NEW q,
         q = [r EXCEPT !.done = {}, !.allowed = {}, !.at = 0, !.grace = FALSE, !.deaf = FALSE]
  PROVE  q \in Runners /\ q.done = {} /\ q.allowed = {} /\ q.at = 0
<1> DEFINE e == ResetTo(r, {}, {})
<1>1. e \in Runners /\ e.done = {} /\ e.allowed = {} /\ e.at = 0
  BY ResetRunner
<1>2. q = [e EXCEPT !.grace = FALSE, !.deaf = FALSE]
  BY DEF ResetTo, Runners
<1> HIDE DEF e
<1>3. QED
  BY <1>1, <1>2 DEF Runners

-----------------------------------------------------------------------------
(* The database. *)

RowsType == [Stages -> Seq(Statuses)]
QuestionsType == [Gates -> Seq(Answers)]

LEMMA GateStage == \A g \in Gates : g \in Stages /\ g + 1 \in Stages /\ (g + 1) - 1 = g /\ g > 1
BY DEF Stages

LEMMA RowsAre ==
  ASSUME NEW rs \in RowsType, NEW s \in Stages
  PROVE  /\ rs[s] \in Seq(Statuses) /\ Len(rs[s]) \in Nat /\ DOMAIN rs[s] = 1..Len(rs[s])
         /\ \A k \in DOMAIN rs[s] : rs[s][k] \in Statuses
BY DEF RowsType

LEMMA QuestionsAre ==
  ASSUME questions \in QuestionsType, NEW g \in Gates
  PROVE  /\ questions[g] \in Seq(Answers) /\ Len(questions[g]) \in Nat
         /\ DOMAIN questions[g] = 1..Len(questions[g])
         /\ \A k \in DOMAIN questions[g] : questions[g][k] \in Answers
BY DEF QuestionsType

LEMMA FunctionIsSequence ==
  ASSUME NEW S, NEW n \in Nat, NEW t \in [1..n -> S]
  PROVE  t \in Seq(S) /\ Len(t) = n /\ DOMAIN t = 1..n
OBVIOUS

\* rs has the attempts of rows, with other statuses.
Restated(rs) ==
  /\ rs \in RowsType
  /\ \A s \in Stages : Len(rs[s]) = Len(rows[s]) /\ DOMAIN rs[s] = DOMAIN rows[s]

\* One attempt more, the newest.
WithAttempt(s, st) == [rows EXCEPT ![s] = Append(@, st)]

LEMMA NewAttempt ==
  ASSUME rows \in RowsType, NEW s \in Stages, NEW st \in Statuses, NEW rs, rs = WithAttempt(s, st)
  PROVE  /\ rs \in RowsType
         /\ \A t \in Stages \ {s} : rs[t] = rows[t]
         /\ Len(rs[s]) = Len(rows[s]) + 1 /\ DOMAIN rs[s] = 1..(Len(rows[s]) + 1)
         /\ \A k \in DOMAIN rows[s] : rs[s][k] = rows[s][k]
         /\ rs[s][Len(rows[s]) + 1] = st
<1> DEFINE t == Append(rows[s], st)
<1>1. rows[s] \in Seq(Statuses) /\ t \in Seq(Statuses) /\ rs[s] = t
  BY RowsAre DEF RowsType, WithAttempt
<1>2. /\ rs \in RowsType
      /\ \A u \in Stages \ {s} : rs[u] = rows[u]
  BY <1>1 DEF RowsType, WithAttempt
<1>3. QED
  BY <1>1, <1>2

\* Another status for one attempt.
WithStatus(s, k, st) == [rows EXCEPT ![s][k] = st]

LEMMA NewStatus ==
  ASSUME rows \in RowsType, NEW s \in Stages, NEW k \in DOMAIN rows[s], NEW st \in Statuses, NEW rs,
         rs = WithStatus(s, k, st)
  PROVE  /\ Restated(rs)
         /\ \A t \in Stages \ {s} : rs[t] = rows[t]
         /\ \A q \in DOMAIN rows[s] : q # k => rs[s][q] = rows[s][q]
         /\ rs[s][k] = st
<1> DEFINE t == [rows[s] EXCEPT ![k] = st]
<1>1. /\ t \in Seq(Statuses) /\ Len(t) = Len(rows[s]) /\ DOMAIN t = DOMAIN rows[s]
      /\ t[k] = st /\ \A q \in DOMAIN rows[s] : q # k => t[q] = rows[s][q]
  BY RowsAre
<1>2. rs = [rows EXCEPT ![s] = t]
  BY DEF WithStatus
<1>3. /\ rs \in RowsType /\ rs[s] = t
      /\ \A u \in Stages \ {s} : rs[u] = rows[u]
  BY <1>1, <1>2 DEF RowsType
<1>4. QED
  BY <1>1, <1>3 DEF Restated

\* Marking attempts gives them one status, and no attempt another one.
LEMMA MarkedAttempts ==
  ASSUME rows \in RowsType, NEW S, NEW from, NEW to \in Statuses
  PROVE  /\ Restated(Marked(rows, S, from, to))
         /\ \A s \in Stages : \A k \in DOMAIN rows[s] :
              /\ Marked(rows, S, from, to)[s][k] \in {rows[s][k], to}
              /\ s \in S /\ rows[s][k] \in from => Marked(rows, S, from, to)[s][k] = to
<1> DEFINE t(s) == [k \in DOMAIN rows[s] |-> IF s \in S /\ rows[s][k] \in from THEN to ELSE rows[s][k]]
<1>1. ASSUME NEW s \in Stages
      PROVE  t(s) \in Seq(Statuses) /\ Len(t(s)) = Len(rows[s]) /\ DOMAIN t(s) = DOMAIN rows[s]
  <2>1. Len(rows[s]) \in Nat /\ DOMAIN rows[s] = 1..Len(rows[s]) /\ \A k \in DOMAIN rows[s] : rows[s][k] \in Statuses
    BY RowsAre
  <2>2. t(s) \in [1..Len(rows[s]) -> Statuses]
    BY <2>1
  <2> HIDE DEF t
  <2>3. QED
    BY <2>1, <2>2, FunctionIsSequence
<1>2. ASSUME NEW s \in Stages, NEW k \in DOMAIN rows[s]
      PROVE  /\ t(s)[k] \in {rows[s][k], to}
             /\ s \in S /\ rows[s][k] \in from => t(s)[k] = to
  OBVIOUS
<1>3. Marked(rows, S, from, to) \in RowsType /\ \A s \in Stages : Marked(rows, S, from, to)[s] = t(s)
  BY <1>1 DEF Marked, RowsType
<1>4. QED
  BY <1>1, <1>2, <1>3 DEF Restated

\* What a person said stays said.
Said(g, k) == questions[g][k] \in {"approved", "rejected"}

\* qs has the questions of questions; what was answered still is, alike.
Reanswered(qs) ==
  /\ qs \in QuestionsType
  /\ \A g \in Gates : Len(qs[g]) = Len(questions[g]) /\ DOMAIN qs[g] = DOMAIN questions[g]
  /\ \A g \in Gates : \A k \in DOMAIN questions[g] : Said(g, k) => qs[g][k] = questions[g][k]

LEMMA ClosedQuestions ==
  ASSUME questions \in QuestionsType, NEW S
  PROVE  /\ Reanswered(ClosedIn(S))
         /\ \A g \in Gates : \A k \in DOMAIN questions[g] :
              ClosedIn(S)[g][k] \in {"approved", "rejected"} => ClosedIn(S)[g][k] = questions[g][k]
<1> DEFINE t(g) == [k \in DOMAIN questions[g] |->
                      IF g \in S /\ questions[g][k] = "open" THEN "closed" ELSE questions[g][k]]
<1>1. ASSUME NEW g \in Gates
      PROVE  t(g) \in Seq(Answers) /\ Len(t(g)) = Len(questions[g]) /\ DOMAIN t(g) = DOMAIN questions[g]
  <2>1. /\ Len(questions[g]) \in Nat /\ DOMAIN questions[g] = 1..Len(questions[g])
        /\ \A k \in DOMAIN questions[g] : questions[g][k] \in Answers
    BY QuestionsAre
  <2>2. t(g) \in [1..Len(questions[g]) -> Answers]
    BY <2>1 DEF Answers
  <2> HIDE DEF t
  <2>3. QED
    BY <2>1, <2>2, FunctionIsSequence
<1>2. ASSUME NEW g \in Gates, NEW k \in DOMAIN questions[g]
      PROVE  /\ Said(g, k) => t(g)[k] = questions[g][k]
             /\ t(g)[k] \in {"approved", "rejected"} => t(g)[k] = questions[g][k]
  BY DEF Said
<1>3. ClosedIn(S) \in QuestionsType /\ \A g \in Gates : ClosedIn(S)[g] = t(g)
  BY <1>1 DEF ClosedIn, QuestionsType
<1>4. QED
  BY <1>1, <1>2, <1>3 DEF Reanswered

WithQuestion(g) == [questions EXCEPT ![g] = Append(@, "open")]

LEMMA NewQuestion ==
  ASSUME questions \in QuestionsType, NEW g \in Gates, NEW qs, qs = WithQuestion(g)
  PROVE  /\ qs \in QuestionsType
         /\ \A h \in Gates \ {g} : qs[h] = questions[h]
         /\ Len(qs[g]) = Len(questions[g]) + 1 /\ DOMAIN qs[g] = 1..(Len(questions[g]) + 1)
         /\ \A k \in DOMAIN questions[g] : qs[g][k] = questions[g][k]
         /\ qs[g][Len(questions[g]) + 1] = "open"
<1> DEFINE t == Append(questions[g], "open")
<1>1. questions[g] \in Seq(Answers) /\ t \in Seq(Answers) /\ qs[g] = t
  BY QuestionsAre DEF QuestionsType, Answers, WithQuestion
<1>2. /\ qs \in QuestionsType
      /\ \A h \in Gates \ {g} : qs[h] = questions[h]
  BY <1>1 DEF QuestionsType, WithQuestion
<1>3. QED
  BY <1>1, <1>2

WithAnswer(g, k, a) == [questions EXCEPT ![g][k] = a]

LEMMA NewAnswer ==
  ASSUME questions \in QuestionsType, NEW g \in Gates, NEW k \in DOMAIN questions[g],
         NEW a \in {"approved", "rejected"}, questions[g][k] = "open", NEW qs,
         qs = WithAnswer(g, k, a)
  PROVE  /\ Reanswered(qs)
         /\ \A h \in Gates \ {g} : qs[h] = questions[h]
         /\ \A q \in DOMAIN questions[g] : q # k => qs[g][q] = questions[g][q]
         /\ qs[g][k] = a
<1> DEFINE t == [questions[g] EXCEPT ![k] = a]
<1>1. /\ t \in Seq(Answers) /\ Len(t) = Len(questions[g]) /\ DOMAIN t = DOMAIN questions[g]
      /\ t[k] = a /\ \A q \in DOMAIN questions[g] : q # k => t[q] = questions[g][q]
  BY QuestionsAre DEF Answers
<1>2. qs = [questions EXCEPT ![g] = t]
  BY DEF WithAnswer
<1>3. /\ qs \in QuestionsType /\ qs[g] = t
      /\ \A h \in Gates \ {g} : qs[h] = questions[h]
  BY <1>1, <1>2 DEF QuestionsType
<1>4. QED
  BY <1>1, <1>3 DEF Reanswered, Said

-----------------------------------------------------------------------------
(* The inductive invariant, in named parts. *)

ApprovedGates == {g \in Gates : HasAnswer(g, {"approved"})}

\* A gate asks once per attempt, and its attempt succeeds by an answer only.
AnswersSound ==
  /\ \A g \in Gates : Len(questions[g]) = Len(rows[g])
  /\ \A g \in Gates : \A k \in DOMAIN rows[g] : rows[g][k] = "success" => Said(g, k)

\* No stage behind a gate was ever tried before the gate was approved.
PassedIsApproved == \A g \in Gates : Len(rows[g + 1]) > 0 => g \in ApprovedGates

\* The snapshot a refused launch restores says nothing the answers do not.
SavedSound ==
  \A c \in migration.saved :
    /\ c[2] \in DOMAIN rows[c[1]]
    /\ c[1] \in Gates /\ c[3] = "success" => Said(c[1], c[2])

\* What a run believes of its gates: a route is open only behind an approval, and a
\* gate that is done without an answer (a route not taken) has nothing done behind it.
RunnerSound ==
  /\ \A g \in Gates : g + 1 \in runner.allowed => g \in ApprovedGates
  /\ runner.at # 0 => Len(rows[runner.at]) > 0
  /\ \A g \in Gates : g \in runner.done /\ g + 1 \in runner.done => g \in AnsweredGates

GateInv == AnswersSound /\ PassedIsApproved /\ SavedSound /\ RunnerSound

\* The types, in groups a step changes together.
Db ==
  /\ rows \in RowsType /\ questions \in QuestionsType
  /\ missing \subseteq Keyed /\ rerun \in 0..N
  /\ finals \in {"none", "completed", "failed", "cancelled"}

Flying ==
  /\ flying \subseteq Stages \X (Nat \ {0}) \X BOOLEAN
  /\ \A e \in flying : e[1] \notin Gates /\ e[2] \in DOMAIN rows[e[1]]

Others ==
  /\ server \in {"up", "stopping", "down"}
  /\ runner \in Runners
  /\ migration \in Migrations
  /\ events \in [Kinds -> Nat]

KeysType == keys \in BOOLEAN

LEMMA TypeParts == TypeOK <=> Db /\ Flying /\ Others /\ KeysType
BY Zenon DEF TypeOK, Db, Flying, Others, KeysType, RowsType, QuestionsType

LEMMA TypePartsNext == TypeOK' <=> Db' /\ Flying' /\ Others' /\ KeysType'
BY TypeParts, PTL

LifeInv == Db /\ Flying /\ Others /\ KeysType /\ GateInv

-----------------------------------------------------------------------------
(* What a step leaves alone. *)

\* The step neither starts an attempt nor asks a question, forgets no answer, and
\* no attempt of a gate succeeds by it but with an answer.
Quiet ==
  /\ Restated(rows') /\ Reanswered(questions')
  /\ \A g \in Gates : \A k \in DOMAIN rows[g] :
       rows'[g][k] = "success" => rows[g][k] = "success" \/ Said(g, k)'

\* Attempts and questions are only added, and answers are kept.
Grows ==
  /\ rows' \in RowsType /\ questions' \in QuestionsType
  /\ \A s \in Stages : DOMAIN rows[s] \subseteq DOMAIN rows'[s] /\ Len(rows[s]) <= Len(rows'[s])
  /\ \A g \in Gates : \A k \in DOMAIN questions[g] :
       k \in DOMAIN questions'[g] /\ (Said(g, k) => questions'[g][k] = questions[g][k])

LEMMA QuietGrows ==
  ASSUME Quiet, rows \in RowsType
  PROVE  Grows
<1>1. \A s \in Stages : Len(rows[s]) \in Nat
  BY RowsAre
<1>2. QED
  BY <1>1 DEF Quiet, Restated, Reanswered, Grows

\* Whoever has answered or approved still has.
LEMMA AnswersStay ==
  ASSUME Grows
  PROVE  AnsweredGates \subseteq AnsweredGates' /\ ApprovedGates \subseteq ApprovedGates'
<1>1. ASSUME NEW g \in Gates, NEW k \in DOMAIN questions[g], Said(g, k)
      PROVE  k \in DOMAIN questions'[g] /\ questions'[g][k] = questions[g][k]
  BY <1>1 DEF Grows
<1>2. ASSUME NEW g \in AnsweredGates
      PROVE  g \in AnsweredGates'
  <2>1. g \in Gates
    BY DEF AnsweredGates
  <2>2. PICK k \in DOMAIN questions[g] : Said(g, k)
    BY DEF AnsweredGates, HasAnswer, Said
  <2>3. QED
    BY <1>1, <2>1, <2>2 DEF AnsweredGates, HasAnswer, Said
<1>3. ASSUME NEW g \in ApprovedGates
      PROVE  g \in ApprovedGates'
  <2>1. g \in Gates
    BY DEF ApprovedGates
  <2>2. PICK k \in DOMAIN questions[g] : questions[g][k] = "approved"
    BY DEF ApprovedGates, HasAnswer
  <2>3. Said(g, k)
    BY <2>2 DEF Said
  <2>4. QED
    BY <1>1, <2>1, <2>2, <2>3 DEF ApprovedGates, HasAnswer
<1>4. QED
  BY <1>2, <1>3

LEMMA ApprovedIsAnswered == ApprovedGates \subseteq AnsweredGates
BY DEF ApprovedGates, AnsweredGates, HasAnswer

LEMMA QuietAnswers ==
  ASSUME AnswersSound, PassedIsApproved, rows \in RowsType, Quiet
  PROVE  AnswersSound' /\ PassedIsApproved'
<1>1. Grows /\ ApprovedGates \subseteq ApprovedGates'
  BY QuietGrows, AnswersStay
<1>2. ASSUME NEW g \in Gates
      PROVE  /\ Len(questions'[g]) = Len(rows'[g])
             /\ DOMAIN rows'[g] = DOMAIN rows[g]
             /\ Len(rows'[g + 1]) = Len(rows[g + 1])
  BY GateStage DEF Quiet, Restated, Reanswered, AnswersSound
<1>3. ASSUME NEW g \in Gates, NEW k \in DOMAIN rows[g], rows'[g][k] = "success"
      PROVE  Said(g, k)'
  <2>1. CASE Said(g, k)'
    BY <2>1
  <2>2. CASE rows[g][k] = "success"
    <3>1. /\ Len(rows[g]) \in Nat /\ DOMAIN rows[g] = 1..Len(rows[g])
          /\ Len(questions[g]) = Len(rows[g]) /\ Said(g, k)
      BY <2>2, GateStage, RowsAre DEF AnswersSound
    <3>2. questions' \in QuestionsType /\ Len(questions'[g]) = Len(rows[g])
      BY <3>1 DEF Quiet, Reanswered
    <3>3. k \in DOMAIN questions[g]
      <4>1. DOMAIN questions'[g] = 1..Len(rows[g]) /\ DOMAIN questions'[g] = DOMAIN questions[g]
        BY <3>2 DEF Quiet, Reanswered, QuestionsType
      <4>2. QED
        BY <3>1, <4>1
    <3>4. questions'[g][k] = questions[g][k]
      BY <3>1, <3>3 DEF Quiet, Reanswered
    <3>5. QED
      BY <3>1, <3>4 DEF Said
  <2>3. QED
    BY <1>3, <2>1, <2>2 DEF Quiet
<1>4. QED
  BY <1>1, <1>2, <1>3 DEF AnswersSound, PassedIsApproved

LEMMA SavedStays ==
  ASSUME SavedSound, AnswersSound, rows \in RowsType, questions \in QuestionsType, migration \in Migrations,
         Grows, migration'.saved \subseteq migration.saved
  PROVE  SavedSound'
<1> SUFFICES ASSUME NEW c \in migration'.saved
             PROVE  /\ c[2] \in DOMAIN rows'[c[1]]
                    /\ c[1] \in Gates /\ c[3] = "success" => Said(c[1], c[2])'
  BY DEF SavedSound
<1>1. c \in migration.saved /\ c[1] \in Stages
  BY DEF Migrations
<1>2. c[2] \in DOMAIN rows[c[1]] /\ c[2] \in DOMAIN rows'[c[1]]
  BY <1>1 DEF SavedSound, Grows
<1>3. ASSUME c[1] \in Gates, c[3] = "success"
      PROVE  Said(c[1], c[2])'
  <2>1. Said(c[1], c[2])
    BY <1>1, <1>3 DEF SavedSound
  <2>2. Len(questions[c[1]]) = Len(rows[c[1]])
    BY <1>3 DEF AnswersSound
  <2>3. c[2] \in DOMAIN questions[c[1]]
    BY <1>1, <1>2, <1>3, <2>2, RowsAre, QuestionsAre
  <2>4. questions'[c[1]][c[2]] = questions[c[1]][c[2]]
    BY <1>3, <2>1, <2>3 DEF Grows
  <2>5. QED
    BY <2>1, <2>4 DEF Said
<1>4. QED
  BY <1>2, <1>3

LEMMA RunnerStays ==
  ASSUME RunnerSound, rows \in RowsType, runner \in Runners, Grows, Same(runner', runner)
  PROVE  RunnerSound'
<1>1. AnsweredGates \subseteq AnsweredGates' /\ ApprovedGates \subseteq ApprovedGates'
  BY AnswersStay
<1>2. runner'.done = runner.done /\ runner'.allowed = runner.allowed /\ runner'.at = runner.at
  BY DEF Same
<1>3. ASSUME runner'.at # 0
      PROVE  Len(rows'[runner'.at]) > 0
  <2>1. runner.at \in Stages
    BY <1>2, <1>3, RunnerFields DEF Stages
  <2>2. Len(rows[runner.at]) > 0 /\ Len(rows[runner.at]) \in Nat /\ Len(rows'[runner.at]) \in Nat
    BY <1>2, <1>3, <2>1, RowsAre DEF RunnerSound, Grows
  <2>3. QED
    BY <1>2, <2>1, <2>2 DEF Grows
<1>4. QED
  BY <1>1, <1>2, <1>3 DEF RunnerSound

LEMMA NobodyIsSound ==
  ASSUME runner' = NoRunner
  PROVE  runner' \in Runners /\ RunnerSound'
BY NobodyRuns DEF RunnerSound

LEMMA NothingSaved ==
  ASSUME migration' = NoMigration
  PROVE  migration' \in Migrations /\ SavedSound'
BY DEF NoMigration, Migrations, SavedSound

LEMMA FlyingStays ==
  ASSUME Flying, Grows, flying' \subseteq flying
  PROVE  Flying'
BY DEF Flying, Grows

LEMMA Counted ==
  ASSUME events \in [Kinds -> Nat], NEW f \in Kinds, Count(f)
  PROVE  events' \in [Kinds -> Nat]
<1>1. events' = [events EXCEPT ![f] = events[f] + 1] /\ events[f] \in Nat
  BY Zenon DEF Count
<1>2. QED
  BY <1>1

\* A quiet step, from what it makes of the rest.
LEMMA QuietStep ==
  ASSUME LifeInv, Quiet,
         missing' \subseteq Keyed, rerun' \in 0..N,
         finals' \in {"none", "completed", "failed", "cancelled"},
         flying' \subseteq flying, server' \in {"up", "stopping", "down"},
         migration' \in Migrations, SavedSound', runner' \in Runners, RunnerSound',
         events' \in [Kinds -> Nat], KeysType'
  PROVE  LifeInv'
<1>1. Grows
  BY QuietGrows DEF LifeInv, Db
<1>2. AnswersSound' /\ PassedIsApproved'
  BY QuietAnswers DEF LifeInv, Db, GateInv
<1>3. Db'
  BY DEF Db, Quiet, Restated, Reanswered
<1>4. Flying'
  BY <1>1, FlyingStays DEF LifeInv
<1>5. Others'
  BY DEF Others
<1>6. QED
  BY Zenon, <1>2, <1>3, <1>4, <1>5 DEF LifeInv, GateInv

-----------------------------------------------------------------------------
(* The updates several actions share. *)

\* Steps that leave the database alone.
LEMMA DatabaseStays ==
  ASSUME LifeInv, UNCHANGED <<rows, questions>>
  PROVE  Quiet /\ Grows
<1>1. rows \in RowsType /\ questions \in QuestionsType
  BY DEF LifeInv, Db
<1>2. Restated(rows') /\ Reanswered(questions')
  BY <1>1 DEF Restated, Reanswered
<1>3. Quiet
  BY <1>2 DEF Quiet
<1>4. QED
  BY <1>1, <1>3, QuietGrows

LEMMA QuestionsStay ==
  ASSUME questions \in QuestionsType, questions' = questions
  PROVE  Reanswered(questions')
BY DEF Reanswered

\* Attempts are marked by a status that is no success, open questions closed.
LEMMA MarkedIsQuiet ==
  ASSUME LifeInv, NEW S, NEW from, NEW to \in Statuses \ {"success"},
         rows' = Marked(rows, S, from, to), Reanswered(questions')
  PROVE  Quiet
<1>1. rows \in RowsType
  BY DEF LifeInv, Db
<1>2. Restated(rows') /\ \A s \in Stages : \A k \in DOMAIN rows[s] : rows'[s][k] \in {rows[s][k], to}
  BY <1>1, MarkedAttempts
<1>3. QED
  BY <1>2, GateStage DEF Quiet

LEMMA ReconciledIsQuiet ==
  ASSUME LifeInv, rows' = Reconciled, UNCHANGED questions
  PROVE  Quiet
<1>1. CASE finals = "none"
  <2>1. rows' = Marked(rows, Stages, {"running"}, "superseded")
    BY <1>1 DEF Reconciled
  <2>2. QED
    BY <2>1, MarkedIsQuiet, QuestionsStay DEF LifeInv, Db, Statuses
<1>2. CASE finals # "none"
  BY <1>2, DatabaseStays DEF Reconciled
<1>3. QED
  BY <1>1, <1>2

LEMMA ClosedIsQuiet ==
  ASSUME LifeInv, NEW S, UNCHANGED rows, questions' = ClosedIn(S)
  PROVE  Quiet
<1>1. Reanswered(questions')
  BY ClosedQuestions DEF LifeInv, Db
<1>2. QED
  BY <1>1 DEF Quiet, Restated, LifeInv, Db

LEMMA InterruptedIsSame ==
  ASSUME runner \in Runners
  PROVE  Same(Interrupted, runner)
BY FlagUp DEF Interrupted, Same

\* The supersede transaction.
LEMMA SupersedeStep ==
  ASSUME LifeInv, NEW s \in 0..N, Supersede(s)
  PROVE  Quiet /\ rerun' \in 0..N /\ migration' \in Migrations /\ SavedSound'
<1> DEFINE saved == {c \in Attempts : c[1] >= s /\ c[3] \in SupersededStatuses}
<1>1. rows \in RowsType /\ questions \in QuestionsType
  BY DEF LifeInv, Db
<1>2. Quiet
  <2>1. rows' = Marked(rows, s..N, SupersededStatuses, "superseded") /\ questions' = ClosedIn(s..N)
    BY DEF Supersede
  <2>2. Reanswered(questions')
    BY <1>1, <2>1, ClosedQuestions
  <2>3. QED
    BY <2>1, <2>2, MarkedIsQuiet DEF Statuses
<1>3. ASSUME NEW c \in saved
      PROVE  /\ c \in Stages \X (Nat \ {0}) \X Statuses
             /\ c[2] \in DOMAIN rows[c[1]] /\ c[3] = rows[c[1]][c[2]]
  <2>1. PICK t \in Stages : \E k \in DOMAIN rows[t] : c = <<t, k, rows[t][k]>>
    BY DEF Attempts
  <2>2. PICK k \in DOMAIN rows[t] : c = <<t, k, rows[t][k]>>
    BY <2>1
  <2>3. k \in Nat \ {0} /\ rows[t][k] \in Statuses
    BY <1>1, RowsAre
  <2>4. QED
    BY <2>2, <2>3
<1>4. migration' = [pc |-> "starting", from |-> s, saved |-> saved]
  BY DEF Supersede
<1>5. ASSUME NEW c \in migration'.saved
      PROVE  /\ c[2] \in DOMAIN rows'[c[1]]
             /\ c[1] \in Gates /\ c[3] = "success" => Said(c[1], c[2])'
  <2>1. c \in saved
    BY <1>4
  <2>2. c[1] \in Stages /\ c[2] \in DOMAIN rows[c[1]] /\ c[3] = rows[c[1]][c[2]]
    BY <1>3, <2>1
  <2>3. c[2] \in DOMAIN rows'[c[1]]
    BY <1>2, <2>2 DEF Quiet, Restated
  <2>4. ASSUME c[1] \in Gates, rows[c[1]][c[2]] = "success"
        PROVE  Said(c[1], c[2])'
    <3>1. Said(c[1], c[2]) /\ Len(questions[c[1]]) = Len(rows[c[1]])
      BY <2>2, <2>4 DEF LifeInv, GateInv, AnswersSound
    <3>2. c[2] \in DOMAIN questions[c[1]]
      BY <1>1, <2>2, <2>4, <3>1, RowsAre, QuestionsAre
    <3>3. questions'[c[1]][c[2]] = questions[c[1]][c[2]]
      BY <1>2, <2>4, <3>1, <3>2 DEF Quiet, Reanswered
    <3>4. QED
      BY <3>1, <3>3 DEF Said
  <2>5. QED
    BY <2>2, <2>3, <2>4
<1>6. migration' \in Migrations
  <2>1. saved \in SUBSET (Stages \X (Nat \ {0}) \X Statuses) /\ s \in 0..N
    BY <1>3 DEF Stages
  <2> HIDE DEF saved
  <2>2. QED
    BY <1>4, <2>1 DEF Migrations
<1>7. rerun' \in 0..N
  BY DEF Supersede, Stages
<1>8. QED
  BY <1>2, <1>5, <1>6, <1>7 DEF SavedSound

\* What a migration does to a task when it begins.
LEMMA BeginStep ==
  ASSUME LifeInv, NEW s \in Stages, Begin(s)
  PROVE  /\ Quiet /\ rerun' \in 0..N /\ migration' \in Migrations /\ SavedSound'
         /\ runner' \in Runners /\ RunnerSound'
<1>0. /\ runner \in Runners /\ RunnerSound /\ rows \in RowsType /\ rerun \in 0..N
  BY DEF LifeInv, Others, Db, GateInv
<1>1. CASE Busy
  <2>1. runner' = Interrupted /\ UNCHANGED <<rows, questions, rerun>>
        /\ migration' = [NoMigration EXCEPT !.pc = "waiting", !.from = s]
    BY <1>1 DEF Begin
  <2>2. Quiet /\ Grows
    BY <2>1, DatabaseStays
  <2>3. migration' = [pc |-> "waiting", from |-> s, saved |-> {}]
    BY <2>1 DEF NoMigration
  <2>4. migration' \in Migrations /\ SavedSound'
    BY <2>3 DEF Migrations, SavedSound, Stages
  <2>5. Same(runner', runner)
    BY <1>0, <2>1, InterruptedIsSame
  <2>6. QED
    BY <1>0, <2>1, <2>2, <2>4, <2>5, RunnerStays DEF Same
<1>2. CASE ~Busy
  <2>1. Supersede(s) /\ runner' = runner
    BY <1>2 DEF Begin
  <2>2. Quiet /\ rerun' \in 0..N /\ migration' \in Migrations /\ SavedSound'
    BY <2>1, SupersedeStep DEF Stages
  <2>3. Same(runner', runner)
    BY <1>0, <2>1 DEF Same
  <2>4. QED
    BY <1>0, <2>2, <2>3, QuietGrows, RunnerStays DEF Same
<1>3. QED
  BY <1>1, <1>2

-----------------------------------------------------------------------------
(* Launching a run. *)

\* A gate whose attempt succeeded was answered.
LEMMA SucceededIsAnswered ==
  ASSUME LifeInv, NEW g \in Gates, g \in Succeeded
  PROVE  g \in AnsweredGates
<1>1. rows \in RowsType /\ questions \in QuestionsType /\ AnswersSound
  BY DEF LifeInv, Db, GateInv
<1>2. PICK k \in DOMAIN rows[g] : rows[g][k] = "success"
  BY DEF Succeeded, HasRow
<1>3. Said(g, k) /\ Len(questions[g]) = Len(rows[g])
  BY <1>1, <1>2 DEF AnswersSound
<1>4. k \in DOMAIN questions[g]
  BY <1>1, <1>2, <1>3, GateStage, RowsAre, QuestionsAre
<1>5. QED
  BY <1>3, <1>4 DEF Said, AnsweredGates, HasAnswer

\* A run resumed from the database believes only what the answers say: a gate whose
\* attempt succeeded was answered, and one that was skipped has nothing behind it.
LEMMA HydratedIsSound ==
  ASSUME LifeInv, Grows, runner' = Hydrated
  PROVE  runner' \in Runners /\ RunnerSound'
<1> DEFINE done == Succeeded \cup AnsweredGates
           allowed == {g + 1 : g \in {x \in Gates : HasAnswer(x, {"approved"})}}
                      \cup {1 : g \in {x \in Gates : HasAnswer(x, {"rejected"})}}
           skipped == IF 1 \in allowed THEN {g + 1 : g \in Gates \cap done} \ allowed ELSE {}
<1>1. runner' = LaunchedAt(done \cup skipped, allowed)
  BY DEF Hydrated, NoRunner, LaunchedAt
<1>2. rows \in RowsType /\ questions \in QuestionsType /\ AnswersSound /\ PassedIsApproved
  BY DEF LifeInv, Db, GateInv
<1>3. 1 \in Stages
  BY DEF Stages
<1>4. done \subseteq Stages /\ allowed \subseteq Stages /\ skipped \subseteq Stages
  BY <1>3, GateStage DEF Succeeded, AnsweredGates
<1>5. ASSUME NEW g \in Gates, g \in Succeeded
      PROVE  g \in AnsweredGates
  BY <1>5, SucceededIsAnswered
<1>6. ASSUME NEW g \in Gates, g + 1 \in allowed
      PROVE  g \in ApprovedGates
  <2>1. g + 1 # 1
    BY GateStage
  <2>2. PICK h \in Gates : HasAnswer(h, {"approved"}) /\ g + 1 = h + 1
    BY <1>6, <2>1
  <2>3. g = h
    BY <2>2, GateStage DEF Stages
  <2>4. QED
    BY <2>2, <2>3 DEF ApprovedGates
<1>7. ASSUME NEW g \in Gates, g \in done \cup skipped, g + 1 \in done \cup skipped
      PROVE  g \in AnsweredGates
  <2> SUFFICES ASSUME g \notin AnsweredGates
               PROVE  FALSE
    OBVIOUS
  <2>1. g \notin done
    BY <1>5
  <2>2. g \notin ApprovedGates /\ Len(rows[g + 1]) = 0
    BY <1>2, ApprovedIsAnswered, GateStage, RowsAre DEF PassedIsApproved
  <2>3. g + 1 \notin Succeeded
    <3>1. DOMAIN rows[g + 1] = {}
      BY <1>2, <2>2, GateStage, RowsAre
    <3>2. QED
      BY <3>1 DEF Succeeded, HasRow
  <2>4. g + 1 \notin AnsweredGates
    <3>1. ASSUME g + 1 \in Gates
          PROVE  DOMAIN questions[g + 1] = {}
      BY <1>2, <2>2, <3>1, QuestionsAre DEF AnswersSound
    <3>2. QED
      BY <3>1 DEF AnsweredGates, HasAnswer
  <2>5. g + 1 \notin skipped
    <3>1. ASSUME NEW h \in Gates \cap done, g + 1 = h + 1
          PROVE  FALSE
      BY <2>1, <3>1, GateStage DEF Stages
    <3>2. QED
      BY <3>1
  <2>6. QED
    BY <1>7, <2>3, <2>4, <2>5
<1> HIDE DEF allowed, done, skipped
<1>8. done \cup skipped \in SUBSET Stages /\ allowed \in SUBSET Stages
  BY <1>4
<1>9. runner' \in Runners /\ runner'.done = done \cup skipped /\ runner'.allowed = allowed /\ runner'.at = 0
  BY <1>1, <1>8, LaunchedRunner
<1>10. AnsweredGates \subseteq AnsweredGates' /\ ApprovedGates \subseteq ApprovedGates'
  BY AnswersStay
<1>11. QED
  BY <1>6, <1>7, <1>9, <1>10 DEF RunnerSound

FinalsType == finals \in {"none", "completed", "failed", "cancelled"}

LEMMA LaunchStep ==
  ASSUME LifeInv, Grows, Launch
  PROVE  runner' \in Runners /\ RunnerSound' /\ FinalsType' /\ KeysType'
<1>0. runner \in Runners /\ RunnerSound /\ rows \in RowsType /\ FinalsType /\ KeysType
  BY DEF LifeInv, Others, Db, GateInv, FinalsType
<1>1. CASE runner.registered
  <2>1. runner' = runner /\ finals' = (IF finals = "none" THEN "failed" ELSE finals)
    BY <1>1 DEF Launch
  <2>2. keys' = FALSE
    BY Zenon, <1>1 DEF Launch
  <2>3. KeysType'
    BY Zenon, <2>2 DEF KeysType
  <2>4. runner' \in Runners /\ RunnerSound'
    BY <1>0, <2>1, RunnerStays DEF Same
  <2>5. QED
    BY <1>0, <2>1, <2>3, <2>4 DEF FinalsType
<1>2. CASE ~runner.registered
  <2>1. runner' = Hydrated /\ finals' = finals
    BY <1>2 DEF Launch
  <2>2. keys' = keys
    BY Zenon, <1>2 DEF Launch
  <2>3. KeysType'
    BY Zenon, <1>0, <2>2 DEF KeysType
  <2>4. QED
    BY <1>0, <2>1, <2>3, HydratedIsSound DEF FinalsType
<1>3. QED
  BY <1>1, <1>2

-----------------------------------------------------------------------------
(* An answer. *)

LEMMA AnsweredStep ==
  ASSUME LifeInv, NEW g \in Gates, NEW k \in DOMAIN questions[g], NEW a \in {"approved", "rejected"},
         Answered(g, k, a)
  PROVE  Quiet /\ questions'[g][k] = a /\ k \in DOMAIN questions'[g] /\ missing' \subseteq Keyed /\ rerun' \in 0..N /\ FinalsType' /\ KeysType'
<1>1. rows \in RowsType /\ questions \in QuestionsType /\ AnswersSound /\ FinalsType /\ KeysType
      /\ missing \subseteq Keyed /\ rerun \in 0..N
  BY DEF LifeInv, Db, GateInv, FinalsType
<1>2. k \in DOMAIN rows[g]
  BY <1>1, GateStage, RowsAre, QuestionsAre DEF AnswersSound
<1>3. /\ Reanswered(questions') /\ questions'[g][k] = a
      /\ \A h \in Gates \ {g} : questions'[h] = questions[h]
  <2>1. questions[g][k] = "open" /\ questions' = WithAnswer(g, k, a)
    BY Zenon DEF Answered, WithAnswer
  <2>2. QED
    BY <1>1, <2>1, NewAnswer
<1> DEFINE st == IF rows[g][k] = "running" THEN "success" ELSE rows[g][k]
<1>4. st \in Statuses
  BY <1>1, <1>2, GateStage, RowsAre DEF Statuses
<1>5. rows' = WithStatus(g, k, st)
  BY DEF Answered, WithStatus
<1> HIDE DEF st
<1>6. /\ Restated(rows')
      /\ \A t \in Stages \ {g} : rows'[t] = rows[t]
      /\ \A q \in DOMAIN rows[g] : q # k => rows'[g][q] = rows[g][q]
  <2>1. rows \in RowsType /\ g \in Stages
    BY <1>1, GateStage
  <2>2. QED
    BY <1>2, <1>4, <1>5, <2>1, NewStatus
<1>7. Said(g, k)'
  BY <1>3 DEF Said
<1>8. Quiet
  BY <1>3, <1>6, <1>7, GateStage DEF Quiet
<1>9. missing' = missing /\ rerun' = rerun /\ finals' = finals /\ keys' = keys
  BY Zenon DEF Answered
<1>10. KeysType'
  BY Zenon, <1>1, <1>9 DEF KeysType
<1>11. QED
  BY <1>1, <1>3, <1>8, <1>9, <1>10 DEF Reanswered, FinalsType

-----------------------------------------------------------------------------
(* One lemma per action. *)

LEMMA Facts ==
  ASSUME LifeInv
  PROVE  /\ rows \in RowsType /\ questions \in QuestionsType /\ missing \subseteq Keyed /\ rerun \in 0..N
         /\ FinalsType /\ KeysType /\ Flying /\ server \in {"up", "stopping", "down"}
         /\ runner \in Runners /\ migration \in Migrations /\ events \in [Kinds -> Nat]
         /\ AnswersSound /\ PassedIsApproved /\ SavedSound /\ RunnerSound
BY DEF LifeInv, Db, Others, GateInv, FinalsType

LEMMA KeysStay ==
  ASSUME KeysType, keys' = keys
  PROVE  KeysType'
BY Zenon DEF KeysType

LEMMA KeysGo ==
  ASSUME keys' = FALSE
  PROVE  KeysType'
BY Zenon DEF KeysType

\* What a step does not assign stays sound.
LEMMA Untouched ==
  ASSUME LifeInv
  PROVE  /\ missing' = missing => missing' \subseteq Keyed
         /\ rerun' = rerun => rerun' \in 0..N
         /\ finals' = finals => FinalsType'
         /\ flying' = flying => flying' \subseteq flying
         /\ server' = server => server' \in {"up", "stopping", "down"}
         /\ events' = events => events' \in [Kinds -> Nat]
         /\ Grows /\ migration' = migration => migration' \in Migrations /\ SavedSound'
         /\ Grows /\ Same(runner', runner) => runner' \in Runners /\ RunnerSound'
         /\ runner' = runner => Same(runner', runner)
<1>1. Grows /\ migration' = migration => migration' \in Migrations /\ SavedSound'
  BY Facts, SavedStays
<1>2. Grows /\ Same(runner', runner) => runner' \in Runners /\ RunnerSound'
  BY Facts, RunnerStays DEF Same
<1>3. QED
  BY <1>1, <1>2, Facts DEF FinalsType, Same

LEMMA QuietStep2 ==
  ASSUME LifeInv, Quiet, missing' \subseteq Keyed, rerun' \in 0..N, FinalsType', KeysType',
         flying' \subseteq flying, server' \in {"up", "stopping", "down"},
         migration' \in Migrations, SavedSound', runner' \in Runners, RunnerSound',
         events' \in [Kinds -> Nat]
  PROVE  LifeInv'
BY QuietStep DEF FinalsType

LEMMA WipedStep ==
  ASSUME Wiped
  PROVE  /\ runner' \in Runners /\ RunnerSound' /\ migration' \in Migrations /\ SavedSound'
         /\ flying' \subseteq flying
BY NobodyIsSound, NothingSaved DEF Wiped

LEMMA QuietStays ==
  ASSUME LifeInv, Quiet
  PROVE  Grows
BY Facts, QuietGrows

LEMMA FinishKeeps ==
  ASSUME LifeInv, Finish
  PROVE  LifeInv'
<1>1. UNCHANGED <<rows, questions, missing, rerun, server, flying, migration, events>>
      /\ runner' = NoRunner /\ finals' = Recorded
  BY Zenon DEF Finish
<1>2. keys' = (keys /\ runner.paused)
  BY Zenon DEF Finish, KeysAfterRun
<1>3. KeysType'
  BY <1>2 DEF KeysType
<1>4. FinalsType'
  BY <1>1, Facts DEF Recorded, Classified, FinalsType
<1>5. Quiet /\ Grows
  BY <1>1, DatabaseStays
<1>6. runner' \in Runners /\ RunnerSound'
  BY <1>1, NobodyIsSound
<1>7. QED
  BY <1>1, <1>3, <1>4, <1>5, <1>6, Untouched, QuietStep2

\* Timers: only a flag of the run.
LEMMA FlagKeeps ==
  ASSUME LifeInv, UNCHANGED <<db, server, flying, migration, events>>, Same(runner', runner)
  PROVE  LifeInv'
<1>1. UNCHANGED <<rows, questions, missing, finals, rerun>>
  BY Zenon DEF db
<1>2. keys' = keys
  BY Zenon DEF db
<1>3. KeysType'
  BY <1>2, Facts, KeysStay
<1>4. Quiet /\ Grows
  BY <1>1, DatabaseStays
<1>5. QED
  BY <1>1, <1>3, <1>4, Untouched, QuietStep2

LEMMA TimeoutKeeps ==
  ASSUME LifeInv, Timeout
  PROVE  LifeInv'
<1>1. Same(runner', runner)
  BY Facts, FlagUp DEF Timeout
<1>2. UNCHANGED <<db, server, flying, migration, events>>
  BY Zenon DEF Timeout
<1>3. QED
  BY Zenon, <1>1, <1>2, FlagKeeps

LEMMA GraceExpiresKeeps ==
  ASSUME LifeInv, GraceExpires
  PROVE  LifeInv'
<1>1. Same(runner', runner)
  BY Facts, FlagUp DEF GraceExpires
<1>2. UNCHANGED <<db, server, flying, migration, events>>
  BY Zenon DEF GraceExpires
<1>3. QED
  BY Zenon, <1>1, <1>2, FlagKeeps

LEMMA StutterKeeps ==
  ASSUME LifeInv, UNCHANGED vars
  PROVE  LifeInv'
<1>1. UNCHANGED <<db, server, flying, migration, events>> /\ runner' = runner
  BY Zenon DEF vars, db
<1>2. QED
  BY Zenon, <1>1, Untouched, FlagKeeps

LEMMA CancelKeeps ==
  ASSUME LifeInv, Cancel
  PROVE  LifeInv'
<1>1. /\ UNCHANGED <<rows, rerun, server, flying, migration, events>>
      /\ finals' = "cancelled" /\ questions' = ClosedIn(Gates) /\ missing' = {} /\ runner' = Interrupted
  BY Zenon DEF Cancel
<1>2. KeysType'
  BY Zenon, KeysGo DEF Cancel
<1>3. Quiet /\ Grows
  BY <1>1, ClosedIsQuiet, QuietStays
<1>4. Same(runner', runner)
  BY <1>1, Facts, InterruptedIsSame
<1>5. FinalsType'
  BY <1>1 DEF FinalsType
<1>6. QED
  BY <1>1, <1>2, <1>3, <1>4, <1>5, Untouched, QuietStep2

LEMMA MigrateKeeps ==
  ASSUME LifeInv, NEW s \in Stages, Migrate(s)
  PROVE  LifeInv'
<1>1. Begin(s) /\ Count("migrations") /\ UNCHANGED <<missing, finals, server, flying>>
  BY Zenon DEF Migrate
<1>2. keys' = keys
  BY Zenon DEF Migrate
<1>3. KeysType'
  BY <1>2, Facts, KeysStay
<1>4. events' \in [Kinds -> Nat]
  BY <1>1, Facts, Counted DEF Kinds
<1>5. QED
  BY <1>1, <1>3, <1>4, BeginStep, Untouched, QuietStep2

LEMMA ProvideSecretsKeeps ==
  ASSUME LifeInv, ProvideSecrets
  PROVE  LifeInv'
<1>1. missing' = {} /\ UNCHANGED <<finals, server, flying, events>>
  BY Zenon DEF ProvideSecrets
<1>2. keys' = TRUE
  BY Zenon DEF ProvideSecrets
<1>3. KeysType'
  BY Zenon, <1>2 DEF KeysType
<1>4. CASE finals = "none" /\ migration.pc = "idle"
  <2>1. PICK s \in missing : Begin(s)
    BY <1>4 DEF ProvideSecrets
  <2>2. s \in Stages
    BY Facts
  <2>3. QED
    BY <1>1, <1>3, <2>1, <2>2, BeginStep, Untouched, QuietStep2
<1>5. CASE ~(finals = "none" /\ migration.pc = "idle")
  <2>1. UNCHANGED <<rows, questions, rerun, runner, migration>>
    BY <1>5 DEF ProvideSecrets
  <2>2. Quiet /\ Grows
    BY <2>1, DatabaseStays
  <2>3. QED
    BY <1>1, <1>3, <2>1, <2>2, Untouched, QuietStep2
<1>6. QED
  BY <1>4, <1>5

LEMMA TerminatedKeeps ==
  ASSUME LifeInv, Terminated
  PROVE  LifeInv'
<1>1. /\ migration.pc = "waiting" /\ Supersede(migration.from)
      /\ UNCHANGED <<missing, finals, server, runner, flying, events>>
  BY Zenon DEF Terminated
<1>2. keys' = keys
  BY Zenon DEF Terminated
<1>3. KeysType'
  BY <1>2, Facts, KeysStay
<1>4. migration.from \in 0..N
  BY Facts DEF Migrations
<1>5. Quiet /\ rerun' \in 0..N /\ migration' \in Migrations /\ SavedSound'
  BY <1>1, <1>4, SupersedeStep
<1>6. Grows
  BY <1>5, QuietStays
<1>7. QED
  BY <1>1, <1>3, <1>5, <1>6, Untouched, QuietStep2

LEMMA WaitTimesOutKeeps ==
  ASSUME LifeInv, WaitTimesOut
  PROVE  LifeInv'
<1>1. migration' = NoMigration /\ UNCHANGED <<rows, questions, missing, finals, rerun, server, runner, flying, events>>
  BY Zenon DEF WaitTimesOut, db
<1>2. keys' = keys
  BY Zenon DEF WaitTimesOut, db
<1>3. KeysType'
  BY <1>2, Facts, KeysStay
<1>4. Quiet /\ Grows
  BY <1>1, DatabaseStays
<1>5. QED
  BY <1>1, <1>3, <1>4, NothingSaved, Untouched, QuietStep2

LEMMA CrashKeeps ==
  ASSUME LifeInv, Crash
  PROVE  LifeInv'
<1>1. server' = "down" /\ Wiped /\ Count("outages") /\ UNCHANGED <<rows, questions, missing, finals, rerun>>
  BY Zenon DEF Crash, db
<1>2. keys' = keys
  BY Zenon DEF Crash, db
<1>3. KeysType'
  BY <1>2, Facts, KeysStay
<1>4. Quiet
  BY <1>1, DatabaseStays
<1>5. events' \in [Kinds -> Nat]
  BY <1>1, Facts, Counted DEF Kinds
<1>6. QED
  BY <1>1, <1>3, <1>4, <1>5, WipedStep, Untouched, QuietStep2

LEMMA AnswerUnheardKeeps ==
  ASSUME LifeInv, NEW g \in Gates, NEW k \in DOMAIN questions[g], AnswerUnheard(g, k)
  PROVE  LifeInv'
<1>1. PICK a \in {"approved", "rejected"} : Answered(g, k, a)
  BY Zenon DEF AnswerUnheard
<1>2. server' = "down" /\ Wiped /\ Count("outages")
  BY Zenon DEF AnswerUnheard
<1>3. Quiet /\ missing' \subseteq Keyed /\ rerun' \in 0..N /\ FinalsType' /\ KeysType'
  BY <1>1, AnsweredStep
<1>4. events' \in [Kinds -> Nat]
  BY <1>2, Facts, Counted DEF Kinds
<1>5. QED
  BY <1>2, <1>3, <1>4, WipedStep, QuietStep2

LEMMA StopBeginsKeeps ==
  ASSUME LifeInv, StopBegins
  PROVE  LifeInv'
<1>1. /\ server' = "stopping" /\ runner' = Interrupted /\ Count("outages")
      /\ UNCHANGED <<rows, questions, missing, finals, rerun, flying, migration>>
  BY Zenon DEF StopBegins, db
<1>2. keys' = keys
  BY Zenon DEF StopBegins, db
<1>3. KeysType'
  BY <1>2, Facts, KeysStay
<1>4. Quiet /\ Grows
  BY <1>1, DatabaseStays
<1>5. events' \in [Kinds -> Nat]
  BY <1>1, Facts, Counted DEF Kinds
<1>6. Same(runner', runner)
  BY <1>1, Facts, InterruptedIsSame
<1>7. QED
  BY <1>1, <1>3, <1>4, <1>5, <1>6, Untouched, QuietStep2

LEMMA StopEndsKeeps ==
  ASSUME LifeInv, StopEnds
  PROVE  LifeInv'
<1>1. /\ server' = "down" /\ rows' = Reconciled /\ Wiped
      /\ UNCHANGED <<questions, missing, finals, rerun, events>>
  BY Zenon DEF StopEnds
<1>2. keys' = keys
  BY Zenon DEF StopEnds
<1>3. KeysType'
  BY <1>2, Facts, KeysStay
<1>4. Quiet
  BY <1>1, ReconciledIsQuiet
<1>5. QED
  BY <1>1, <1>3, <1>4, WipedStep, Untouched, QuietStep2

LEMMA LaunchedFinals ==
  ASSUME LifeInv, Grows, \/ Launch
                         \/ UNCHANGED <<runner, finals, keys>>
  PROVE  runner' \in Runners /\ RunnerSound' /\ FinalsType' /\ KeysType'
<1>1. CASE Launch
  BY <1>1, LaunchStep
<1>2. CASE UNCHANGED <<runner, finals, keys>>
  <2>1. UNCHANGED <<runner, finals>>
    BY Zenon, <1>2
  <2>2. KeysType'
    BY Zenon, <1>2, Facts, KeysStay
  <2>3. QED
    BY <2>1, <2>2, Untouched
<1>3. QED
  BY Zenon, <1>1, <1>2

LEMMA BootKeeps ==
  ASSUME LifeInv, Boot
  PROVE  LifeInv'
<1>1. server' = "up" /\ rows' = Reconciled /\ UNCHANGED <<questions, missing, rerun, flying, migration>>
  BY Zenon DEF Boot
<1>2. Quiet /\ Grows
  BY <1>1, ReconciledIsQuiet, QuietStays
<1>3. CASE UNCHANGED events /\ (Launch \/ UNCHANGED <<runner, finals, keys>>)
  <2>1. runner' \in Runners /\ RunnerSound' /\ FinalsType' /\ KeysType'
    BY Zenon, <1>2, <1>3, LaunchedFinals
  <2>2. events' = events
    BY Zenon, <1>3
  <2>3. QED
    BY <1>1, <1>2, <2>1, <2>2, Untouched, QuietStep2
<1>4. CASE finals' = "completed" /\ keys' = FALSE /\ UNCHANGED <<runner, events>>
  <2>1. KeysType'
    BY Zenon, <1>4, KeysGo
  <2>2. finals' = "completed" /\ UNCHANGED <<runner, events>>
    BY Zenon, <1>4
  <2>3. FinalsType'
    BY <2>2 DEF FinalsType
  <2>4. QED
    BY <1>1, <1>2, <2>1, <2>2, <2>3, Untouched, QuietStep2
<1>5. CASE Count("refusals") /\ UNCHANGED <<runner, finals, keys>>
  <2>1. runner' \in Runners /\ RunnerSound' /\ FinalsType' /\ KeysType'
    BY Zenon, <1>2, <1>5, LaunchedFinals
  <2>2. events' \in [Kinds -> Nat]
    BY <1>5, Facts, Counted DEF Kinds
  <2>3. QED
    BY <1>1, <1>2, <2>1, <2>2, Untouched, QuietStep2
<1>6. \/ UNCHANGED events /\ (Launch \/ UNCHANGED <<runner, finals, keys>>)
      \/ finals' = "completed" /\ keys' = FALSE /\ UNCHANGED <<runner, events>>
      \/ Count("refusals") /\ UNCHANGED <<runner, finals, keys>>
  BY Zenon DEF Boot
<1>7. QED
  BY Zenon, <1>3, <1>4, <1>5, <1>6

\* The statuses a refused launch puts back.
Restored ==
  [s \in Stages |-> [k \in DOMAIN rows[s] |->
     IF \E c \in migration.saved : c[1] = s /\ c[2] = k
       THEN (CHOOSE c \in migration.saved : c[1] = s /\ c[2] = k)[3] ELSE rows[s][k]]]

LEMMA RestoredIsQuiet ==
  ASSUME LifeInv, rows' = Restored, UNCHANGED questions
  PROVE  Quiet
<1> DEFINE found(s, k) == CHOOSE c \in migration.saved : c[1] = s /\ c[2] = k
           saved(s, k) == \E c \in migration.saved : c[1] = s /\ c[2] = k
           t(s) == [k \in DOMAIN rows[s] |-> IF saved(s, k) THEN found(s, k)[3] ELSE rows[s][k]]
<1>0. rows \in RowsType /\ questions \in QuestionsType /\ SavedSound /\ AnswersSound
      /\ migration.saved \subseteq Stages \X (Nat \ {0}) \X Statuses
  BY Facts DEF Migrations
<1>1. ASSUME NEW s \in Stages, NEW k \in DOMAIN rows[s], saved(s, k)
      PROVE  /\ found(s, k) \in migration.saved /\ found(s, k)[1] = s /\ found(s, k)[2] = k
             /\ found(s, k)[3] \in Statuses
             /\ s \in Gates /\ found(s, k)[3] = "success" => Said(s, k)
  <2>1. found(s, k) \in migration.saved /\ found(s, k)[1] = s /\ found(s, k)[2] = k
    BY <1>1
  <2> HIDE DEF found
  <2>2. found(s, k)[3] \in Statuses
    BY <1>0, <2>1
  <2>3. QED
    BY <1>0, <2>1, <2>2 DEF SavedSound
<1> HIDE DEF found, saved
<1>2. ASSUME NEW s \in Stages
      PROVE  t(s) \in Seq(Statuses) /\ Len(t(s)) = Len(rows[s]) /\ DOMAIN t(s) = DOMAIN rows[s]
  <2>1. Len(rows[s]) \in Nat /\ DOMAIN rows[s] = 1..Len(rows[s]) /\ \A k \in DOMAIN rows[s] : rows[s][k] \in Statuses
    BY <1>0, RowsAre
  <2>2. t(s) \in [1..Len(rows[s]) -> Statuses]
    BY <1>1, <2>1
  <2> HIDE DEF t
  <2>3. QED
    BY <2>1, <2>2, FunctionIsSequence
<1>3. ASSUME NEW g \in Gates, NEW k \in DOMAIN rows[g], t(g)[k] = "success"
      PROVE  rows[g][k] = "success" \/ Said(g, k)
  BY <1>1, <1>3, GateStage
<1>4. rows' \in RowsType /\ \A s \in Stages : rows'[s] = t(s)
  BY <1>2 DEF Restored, RowsType, found, saved
<1> HIDE DEF t
<1>5. Restated(rows')
  BY <1>2, <1>4 DEF Restated
<1>6. Reanswered(questions')
  BY <1>0, QuestionsStay
<1>7. ASSUME NEW g \in Gates, NEW k \in DOMAIN rows[g], rows'[g][k] = "success"
      PROVE  rows[g][k] = "success" \/ Said(g, k)'
  <2>1. rows[g][k] = "success" \/ Said(g, k)
    BY <1>3, <1>4, <1>7, GateStage
  <2>2. QED
    BY <2>1 DEF Said
<1>8. QED
  BY <1>5, <1>6, <1>7 DEF Quiet

LEMMA ResumeKeeps ==
  ASSUME LifeInv, Resume
  PROVE  LifeInv'
<1>1. migration' = NoMigration /\ UNCHANGED <<questions, missing, rerun, server, flying>>
  BY Zenon DEF Resume
<1>2. CASE Launch /\ UNCHANGED <<rows, events>>
  <2>1. UNCHANGED <<rows, events>>
    BY Zenon, <1>2
  <2>2. Quiet /\ Grows
    BY <1>1, <2>1, DatabaseStays
  <2>3. runner' \in Runners /\ RunnerSound' /\ FinalsType' /\ KeysType'
    BY Zenon, <1>2, <2>2, LaunchedFinals
  <2>4. QED
    BY <1>1, <2>1, <2>2, <2>3, NothingSaved, Untouched, QuietStep2
<1>3. CASE Count("refusals") /\ rows' = Restored /\ UNCHANGED <<runner, finals, keys>>
  <2>1. Quiet /\ Grows
    BY <1>1, <1>3, RestoredIsQuiet, QuietStays
  <2>2. runner' \in Runners /\ RunnerSound' /\ FinalsType' /\ KeysType'
    BY Zenon, <1>3, <2>1, LaunchedFinals
  <2>3. events' \in [Kinds -> Nat]
    BY <1>3, Facts, Counted DEF Kinds
  <2>4. QED
    BY <1>1, <2>1, <2>2, <2>3, NothingSaved, Untouched, QuietStep2
<1>4. QED
  BY Zenon, <1>2, <1>3 DEF Resume, Restored

LEMMA ApproveKeeps ==
  ASSUME LifeInv, NEW g \in Gates, NEW k \in DOMAIN questions[g], Approve(g, k)
  PROVE  LifeInv'
<1>1. Answered(g, k, "approved") /\ UNCHANGED <<server, flying, migration, events>>
  BY Zenon DEF Approve
<1>2. /\ Quiet /\ questions'[g][k] = "approved" /\ k \in DOMAIN questions'[g]
      /\ missing' \subseteq Keyed /\ rerun' \in 0..N /\ FinalsType' /\ KeysType'
  BY <1>1, AnsweredStep
<1>3. Grows
  BY <1>2, QuietStays
<1>4. g \in AnsweredGates' /\ g \in ApprovedGates'
  BY <1>2 DEF AnsweredGates, ApprovedGates, HasAnswer
<1>5. runner' \in Runners /\ RunnerSound'
  <2>1. CASE Hears /\ runner.at = g
    <3>1. runner' = ResetTo(runner, runner.done \cup {g}, runner.allowed \cup {g + 1})
      BY <2>1 DEF Approve, ResetTo
    <3>2. /\ runner' \in Runners /\ runner'.done = runner.done \cup {g}
          /\ runner'.allowed = runner.allowed \cup {g + 1} /\ runner'.at = 0
      BY <3>1, Facts, ApprovedRunner, ResetRunner
    <3>3. AnsweredGates \subseteq AnsweredGates' /\ ApprovedGates \subseteq ApprovedGates'
      BY <1>3, AnswersStay
    <3>4. ASSUME NEW h \in Gates, h + 1 = g
          PROVE  h \in AnsweredGates'
      <4>1. Len(rows[h + 1]) > 0
        BY <2>1, <3>4, Facts, GateStage DEF RunnerSound
      <4>2. h \in ApprovedGates
        BY <4>1, Facts DEF PassedIsApproved
      <4>3. QED
        BY <4>2, <3>3, ApprovedIsAnswered
    <3>5. ASSUME NEW h \in Gates, h + 1 = g + 1
          PROVE  h = g
      BY <3>5, GateStage DEF Stages
    <3>6. QED
      BY <1>4, <3>2, <3>3, <3>4, <3>5, Facts DEF RunnerSound
  <2>2. CASE ~(Hears /\ runner.at = g)
    <3>1. runner' = runner
      BY Zenon, <2>2 DEF Approve
    <3>2. QED
      BY <1>3, <3>1, Untouched
  <2>3. QED
    BY <2>1, <2>2
<1>6. QED
  BY <1>1, <1>2, <1>3, <1>5, Untouched, QuietStep2

LEMMA RejectKeeps ==
  ASSUME LifeInv, NEW g \in Gates, NEW k \in DOMAIN questions[g], Reject(g, k)
  PROVE  LifeInv'
<1>1. Answered(g, k, "rejected") /\ Count("rejects") /\ UNCHANGED <<server, flying, migration>>
  BY Zenon DEF Reject
<1>2. Quiet /\ missing' \subseteq Keyed /\ rerun' \in 0..N /\ FinalsType' /\ KeysType'
  BY <1>1, AnsweredStep
<1>3. Grows
  BY <1>2, QuietStays
<1>4. events' \in [Kinds -> Nat]
  BY <1>1, Facts, Counted DEF Kinds
<1>5. runner' \in Runners /\ RunnerSound'
  <2>1. CASE Live
    <3>1. runner' = [runner EXCEPT !.done = {}, !.allowed = {}, !.at = 0, !.grace = FALSE, !.deaf = FALSE]
      BY <2>1 DEF Reject
    <3>2. runner' \in Runners /\ runner'.done = {} /\ runner'.allowed = {} /\ runner'.at = 0
      BY <3>1, Facts, RejectedWith
    <3>3. QED
      BY <3>2 DEF RunnerSound
  <2>2. CASE ~Live
    <3>1. runner' = runner
      BY Zenon, <2>2 DEF Reject
    <3>2. QED
      BY <1>3, <3>1, Untouched
  <2>3. QED
    BY <2>1, <2>2
<1>6. QED
  BY <1>1, <1>2, <1>3, <1>4, <1>5, Untouched, QuietStep2

\* An executor delivers: only its run hears of it.
LEMMA DeliverKeeps ==
  ASSUME LifeInv, NEW e \in flying, Deliver(e)
  PROVE  LifeInv'
<1>1. /\ UNCHANGED <<rows, questions, missing, finals, rerun, server, migration, events>>
      /\ flying' = (flying \ {e}) \cup {<<e[1], e[2], TRUE>>}
  BY Zenon DEF Deliver, db
<1>2. keys' = keys
  BY Zenon DEF Deliver, db
<1>3. KeysType'
  BY <1>2, Facts, KeysStay
<1>4. Quiet /\ Grows
  BY <1>1, DatabaseStays
<1>5. /\ e \in Stages \X (Nat \ {0}) \X BOOLEAN /\ e[1] \notin Gates /\ e[2] \in DOMAIN rows[e[1]]
      /\ e[1] \in Stages /\ e[2] \in Nat \ {0}
  BY Facts DEF Flying
<1>6. Flying'
  <2> DEFINE d == <<e[1], e[2], TRUE>>
  <2>1. d \in Stages \X (Nat \ {0}) \X BOOLEAN /\ d[1] = e[1] /\ d[2] = e[2]
    BY <1>5
  <2> HIDE DEF d
  <2>2. QED
    BY <1>1, <1>5, <2>1, Facts DEF Flying, d
<1>7. runner' \in Runners /\ RunnerSound'
  <2>1. CASE Current(e)
    <3>1. runner' = DoneRun(runner, e[1]) /\ runner.at = e[1]
      BY <2>1 DEF Deliver, Current, DoneRun
    <3>2. /\ runner' \in Runners /\ runner'.done = runner.done \cup {e[1]}
          /\ runner'.allowed = runner.allowed /\ runner'.at = 0
      BY <1>5, <3>1, Facts, DoneWith
    <3>3. AnsweredGates \subseteq AnsweredGates' /\ ApprovedGates \subseteq ApprovedGates'
      BY <1>4, AnswersStay
    <3>4. ASSUME NEW h \in Gates, h + 1 = e[1]
          PROVE  h \in AnsweredGates
      <4>1. Len(rows[h + 1]) > 0
        <5>1. runner.at # 0
          BY <3>1, <1>5 DEF Stages
        <5>2. QED
          BY <3>1, <3>4, <5>1, Facts DEF RunnerSound
      <4>2. QED
        BY <4>1, Facts, ApprovedIsAnswered DEF PassedIsApproved
    <3>5. QED
      BY <1>5, <3>2, <3>3, <3>4, Facts DEF RunnerSound
  <2>2. CASE ~Current(e)
    <3>1. runner' = runner
      BY Zenon, <2>2 DEF Deliver
    <3>2. QED
      BY <1>4, <3>1, Untouched
  <2>3. QED
    BY <2>1, <2>2
<1>8. migration' \in Migrations /\ SavedSound'
  BY <1>1, <1>4, Untouched
<1>9. AnswersSound' /\ PassedIsApproved'
  BY <1>4, Facts, QuietAnswers
<1>10. Db' /\ Others'
  BY <1>1, <1>7, <1>8, Facts DEF Db, Others, FinalsType
<1>11. QED
  BY Zenon, <1>3, <1>6, <1>7, <1>8, <1>9, <1>10 DEF LifeInv, GateInv

LEMMA ReturnKeeps ==
  ASSUME LifeInv, NEW e \in flying, NEW st \in {"success", "error"}, Return(e, st)
  PROVE  LifeInv'
<1>1. UNCHANGED <<questions, missing, finals, rerun, server, migration, events>>
      /\ flying' = flying \ {e} /\ rows' = WithStatus(e[1], e[2], st)
  BY Zenon DEF Return, WithStatus
<1>2. keys' = keys
  BY Zenon DEF Return
<1>3. KeysType'
  BY <1>2, Facts, KeysStay
<1>4. e[1] \in Stages \ Gates /\ e[2] \in DOMAIN rows[e[1]] /\ st \in Statuses
  BY Facts DEF Flying, Statuses
<1>5. Restated(rows') /\ \A t \in Stages \ {e[1]} : rows'[t] = rows[t]
  <2>1. rows \in RowsType
    BY Facts
  <2>2. QED
    BY <1>1, <1>4, <2>1, NewStatus
<1>6. Reanswered(questions')
  BY <1>1, Facts, QuestionsStay
<1>7. Quiet
  BY <1>4, <1>5, <1>6, GateStage DEF Quiet
<1>8. Grows
  BY <1>7, QuietStays
<1>9. Same(runner', runner)
  <2>1. runner' = [runner EXCEPT !.failed = TRUE] \/ runner' = runner
    BY Zenon DEF Return
  <2>2. QED
    BY <2>1, Facts, FlagUp DEF Same
<1>10. flying' \subseteq flying
  BY <1>1
<1>11. QED
  BY <1>1, <1>3, <1>7, <1>8, <1>9, <1>10, Untouched, QuietStep2

\* A stage is tried: behind a gate only when the gate was approved.
LEMMA TriedBehindApproved ==
  ASSUME LifeInv, NEW s \in Stages, Ready(s), NEW st \in Statuses, rows' = WithAttempt(s, st), Grows
  PROVE  PassedIsApproved' /\ Len(rows'[s]) > 0
<1>1. /\ \A t \in Stages \ {s} : rows'[t] = rows[t]
      /\ Len(rows'[s]) = Len(rows[s]) + 1 /\ Len(rows[s]) \in Nat
  <2>1. rows \in RowsType
    BY Facts
  <2>2. QED
    BY <2>1, NewAttempt, RowsAre
<1>2. ApprovedGates \subseteq ApprovedGates'
  BY AnswersStay
<1>3. ASSUME NEW g \in Gates, Len(rows'[g + 1]) > 0
      PROVE  g \in ApprovedGates
  <2>1. CASE g + 1 = s
    <3>1. g + 1 \in runner.allowed
      BY <2>1, GateStage DEF Ready
    <3>2. QED
      BY <3>1, Facts DEF RunnerSound
  <2>2. CASE g + 1 # s
    BY <1>1, <1>3, <2>2, GateStage, Facts DEF PassedIsApproved
  <2>3. QED
    BY <2>1, <2>2
<1>4. QED
  BY <1>1, <1>2, <1>3 DEF PassedIsApproved

\* The run is at the stage it has tried.
LEMMA AtTriedStage ==
  ASSUME LifeInv, Grows, NEW s \in Stages, Len(rows'[s]) > 0, runner' \in Runners,
         runner'.done = runner.done, runner'.allowed = runner.allowed, runner'.at = s
  PROVE  RunnerSound'
<1>1. AnsweredGates \subseteq AnsweredGates' /\ ApprovedGates \subseteq ApprovedGates'
  BY AnswersStay
<1>2. QED
  BY <1>1, Facts DEF RunnerSound

LEMMA PauseKeeps ==
  ASSUME LifeInv, NEW s \in Stages, Pause(s)
  PROVE  LifeInv'
<1>1. /\ UNCHANGED <<questions, finals, server, flying, migration, events>>
      /\ rows' = WithAttempt(s, "secret_pending") /\ missing' = missing \cup {s} /\ rerun' = 0
      /\ runner' = PausedRun(runner, s) /\ Ready(s) /\ s \in Keyed
  BY Zenon DEF Pause, Lacking, WithAttempt, PausedRun
<1>2. keys' = keys
  BY Zenon DEF Pause
<1>3. KeysType'
  BY <1>2, Facts, KeysStay
<1>4. "secret_pending" \in Statuses /\ s \in 0..N /\ s \notin Gates
  BY <1>1 DEF Statuses, Stages
<1>5. /\ rows' \in RowsType /\ \A t \in Stages \ {s} : rows'[t] = rows[t]
      /\ Len(rows'[s]) = Len(rows[s]) + 1 /\ DOMAIN rows'[s] = 1..(Len(rows[s]) + 1)
      /\ Len(rows[s]) \in Nat /\ DOMAIN rows[s] = 1..Len(rows[s])
      /\ \A t \in Stages : Len(rows[t]) \in Nat
  <2>1. rows \in RowsType
    BY Facts
  <2>2. QED
    BY <1>1, <1>4, <2>1, NewAttempt, RowsAre
<1>6. Grows
  <2>1. questions' = questions /\ questions \in QuestionsType
    BY <1>1, Facts
  <2>2. QED
    BY <1>5, <2>1 DEF Grows
<1>7. PassedIsApproved' /\ Len(rows'[s]) > 0
  BY <1>1, <1>4, <1>6, TriedBehindApproved
<1>8. runner' \in Runners /\ runner'.done = runner.done /\ runner'.allowed = runner.allowed /\ runner'.at = s
  <2>1. runner' = PausedRun(runner, s) /\ runner \in Runners
    BY Zenon, <1>1, Facts
  <2>2. QED
    BY <1>4, <2>1, PausedAt
<1>9. RunnerSound'
  BY <1>6, <1>7, <1>8, AtTriedStage
<1>10. AnswersSound'
  BY <1>1, <1>4, <1>5, Facts, GateStage DEF AnswersSound, Said
<1>11. migration' \in Migrations /\ SavedSound'
  BY <1>1, <1>6, Untouched
<1>12. Flying'
  BY <1>1, <1>6, Facts, FlyingStays
<1>13. Db'
  BY <1>1, <1>5, Facts DEF Db, FinalsType
<1>14. Others'
  BY <1>1, <1>8, <1>11, Facts DEF Others
<1>15. QED
  BY Zenon, <1>3, <1>7, <1>9, <1>10, <1>11, <1>12, <1>13, <1>14 DEF LifeInv, GateInv

LEMMA OpenKeeps ==
  ASSUME LifeInv, NEW s \in Stages, Open(s)
  PROVE  LifeInv'
<1>1. /\ UNCHANGED <<missing, finals, server, migration, events>>
      /\ rows' = WithAttempt(s, "running") /\ rerun' = 0
      /\ runner' = [runner EXCEPT !.at = s] /\ Ready(s)
  BY Zenon DEF Open, WithAttempt
<1>2. keys' = keys
  BY Zenon DEF Open
<1>3. KeysType'
  BY <1>2, Facts, KeysStay
<1>4. "running" \in Statuses /\ s \in 0..N
  BY DEF Statuses, Stages
<1>5. /\ rows' \in RowsType /\ \A t \in Stages \ {s} : rows'[t] = rows[t]
      /\ Len(rows'[s]) = Len(rows[s]) + 1 /\ DOMAIN rows'[s] = 1..(Len(rows[s]) + 1)
      /\ Len(rows[s]) \in Nat /\ DOMAIN rows[s] = 1..Len(rows[s])
      /\ \A k \in DOMAIN rows[s] : rows'[s][k] = rows[s][k]
      /\ rows'[s][Len(rows[s]) + 1] = "running"
      /\ \A t \in Stages : Len(rows[t]) \in Nat
  <2>1. rows \in RowsType
    BY Facts
  <2>2. QED
    BY <1>1, <1>4, <2>1, NewAttempt, RowsAre
<1>6. Grows /\ questions' \in QuestionsType /\ AnswersSound' /\ Flying'
  <2>1. CASE s \in Gates
    <3>1. questions' = WithQuestion(s) /\ flying' = flying
      BY Zenon, <2>1 DEF Open, WithQuestion
    <3>2. /\ questions' \in QuestionsType
          /\ \A h \in Gates \ {s} : questions'[h] = questions[h]
          /\ Len(questions'[s]) = Len(questions[s]) + 1 /\ DOMAIN questions'[s] = 1..(Len(questions[s]) + 1)
          /\ \A k \in DOMAIN questions[s] : questions'[s][k] = questions[s][k]
          /\ DOMAIN questions[s] = 1..Len(questions[s]) /\ Len(questions[s]) = Len(rows[s])
      <4>1. questions \in QuestionsType
        BY Facts
      <4>2. QED
        BY <2>1, <3>1, <4>1, NewQuestion, QuestionsAre, Facts DEF AnswersSound
    <3>3. \A h \in Gates : \A k \in DOMAIN questions[h] :
            k \in DOMAIN questions'[h] /\ questions'[h][k] = questions[h][k]
      BY <1>5, <3>2
    <3>4. Grows
      BY <1>5, <3>2, <3>3 DEF Grows
    <3>5. AnswersSound'
      <4>1. ASSUME NEW g \in Gates
            PROVE  Len(questions'[g]) = Len(rows'[g])
        BY <1>5, <3>2, Facts, GateStage DEF AnswersSound
      <4>2. ASSUME NEW g \in Gates, NEW k \in DOMAIN rows'[g], rows'[g][k] = "success"
            PROVE  Said(g, k)'
        <5>1. k \in DOMAIN rows[g] /\ rows[g][k] = "success"
          <6>1. CASE g = s
            <7>1. k \in 1..(Len(rows[s]) + 1) /\ k # Len(rows[s]) + 1
              BY <1>5, <4>2, <6>1
            <7>2. k \in DOMAIN rows[s]
              BY <1>5, <7>1
            <7>3. QED
              BY <1>5, <4>2, <6>1, <7>2
          <6>2. CASE g # s
            BY <1>5, <4>2, <6>2, GateStage
          <6>3. QED
            BY <6>1, <6>2
        <5>2. Said(g, k) /\ k \in DOMAIN questions[g]
          BY <5>1, Facts, GateStage, RowsAre, QuestionsAre DEF AnswersSound
        <5>3. QED
          BY <3>3, <5>2 DEF Said
      <4>3. QED
        BY <4>1, <4>2 DEF AnswersSound
    <3>6. QED
      BY <3>1, <3>2, <3>4, <3>5, Facts, FlyingStays
  <2>2. CASE s \notin Gates
    <3>1. questions' = questions /\ flying' = flying \cup {<<s, NextAttempt(s), FALSE>>}
      BY Zenon, <2>2 DEF Open
    <3>2. Grows
      BY <1>5, <3>1, Facts DEF Grows
    <3>3. AnswersSound'
      BY <1>5, <2>2, <3>1, Facts, GateStage DEF AnswersSound, Said
    <3>4. Flying'
      <4> DEFINE d == <<s, NextAttempt(s), FALSE>>
      <4>1. d \in Stages \X (Nat \ {0}) \X BOOLEAN /\ d[1] = s /\ d[2] = Len(rows[s]) + 1
        <5>1. NextAttempt(s) = Len(rows[s]) + 1 /\ NextAttempt(s) \in Nat \ {0}
          BY <1>5 DEF NextAttempt
        <5>2. QED
          BY <5>1
      <4> HIDE DEF d
      <4>2. d[1] \notin Gates /\ d[2] \in DOMAIN rows'[d[1]]
        BY <1>5, <2>2, <4>1
      <4>3. flying' = flying \cup {d}
        BY <3>1 DEF d
      <4>4. QED
        BY <3>2, <4>1, <4>2, <4>3, Facts DEF Flying, Grows
    <3>5. QED
      BY <3>1, <3>2, <3>3, <3>4, Facts
  <2>3. QED
    BY <2>1, <2>2
<1>7. PassedIsApproved' /\ Len(rows'[s]) > 0
  BY <1>1, <1>4, <1>6, TriedBehindApproved
<1>8. runner' \in Runners /\ runner'.done = runner.done /\ runner'.allowed = runner.allowed /\ runner'.at = s
  BY <1>1, <1>4, Facts, AtStage
<1>9. RunnerSound'
  BY <1>6, <1>7, <1>8, AtTriedStage
<1>10. migration' \in Migrations /\ SavedSound'
  BY <1>1, <1>6, Untouched
<1>11. Db'
  BY <1>1, <1>5, <1>6, Facts DEF Db, FinalsType
<1>12. Others'
  BY <1>1, <1>8, <1>10, Facts DEF Others
<1>13. QED
  BY Zenon, <1>3, <1>6, <1>7, <1>9, <1>10, <1>11, <1>12 DEF LifeInv, GateInv

-----------------------------------------------------------------------------
(* The theorems. *)

LEMMA LifeInit == Init => LifeInv
<1> SUFFICES ASSUME Init
             PROVE  LifeInv
  OBVIOUS
<1>1. KeysType
  BY Zenon DEF Init, KeysType
<1>2. /\ rows = [s \in Stages |-> <<>>] /\ questions = [g \in Gates |-> <<>>] /\ missing = {}
      /\ finals = "none" /\ rerun = 0 /\ server = "up" /\ flying = {} /\ migration = NoMigration
      /\ events = [f \in Kinds |-> 0]
  BY Zenon DEF Init
<1>3. runner = LaunchedAt({}, {})
  BY DEF Init, NoRunner, LaunchedAt
<1>4. runner \in Runners /\ runner.done = {} /\ runner.allowed = {} /\ runner.at = 0
  BY <1>3, LaunchedRunner
<1>5. /\ \A s \in Stages : rows[s] = <<>> /\ Len(rows[s]) = 0 /\ DOMAIN rows[s] = {}
      /\ \A g \in Gates : questions[g] = <<>> /\ Len(questions[g]) = 0
      /\ rows \in RowsType /\ questions \in QuestionsType
  BY <1>2 DEF RowsType, QuestionsType
<1>6. Db
  BY <1>2, <1>5 DEF Db
<1>7. Flying
  BY <1>2 DEF Flying
<1>8. Others
  <2>1. events \in [Kinds -> Nat] /\ migration \in Migrations
    BY <1>2 DEF NoMigration, Migrations
  <2>2. QED
    BY <1>2, <1>4, <2>1 DEF Others
<1>9. AnswersSound /\ PassedIsApproved
  <2>1. \A g \in Gates : DOMAIN rows[g] = {} /\ Len(rows[g]) = 0 /\ Len(questions[g]) = 0 /\ Len(rows[g + 1]) = 0
    BY <1>5, GateStage
  <2>2. AnswersSound
    BY <2>1 DEF AnswersSound
  <2>3. PassedIsApproved
    BY <2>1 DEF PassedIsApproved
  <2>4. QED
    BY <2>2, <2>3
<1>10. SavedSound /\ RunnerSound
  BY <1>2, <1>4 DEF SavedSound, RunnerSound, NoMigration
<1>11. QED
  BY Zenon, <1>1, <1>6, <1>7, <1>8, <1>9, <1>10 DEF LifeInv, GateInv

LEMMA LifeStep ==
  ASSUME LifeInv, [Next]_vars
  PROVE  LifeInv'
<1>1. ASSUME NEW s \in Stages, Open(s) \/ Pause(s)
      PROVE  LifeInv'
  BY Zenon, <1>1, OpenKeeps, PauseKeeps
<1>2. ASSUME RunStep
      PROVE  LifeInv'
  BY Zenon, <1>2, DeliverKeeps, ReturnKeeps, FinishKeeps, TimeoutKeeps, GraceExpiresKeeps DEF RunStep
<1>3. ASSUME Person
      PROVE  LifeInv'
  BY Zenon, <1>3, ApproveKeeps, RejectKeeps, CancelKeeps, ProvideSecretsKeeps, MigrateKeeps DEF Person
<1>4. ASSUME MigrationStep
      PROVE  LifeInv'
  BY Zenon, <1>4, TerminatedKeeps, WaitTimesOutKeeps, ResumeKeeps DEF MigrationStep
<1>5. ASSUME ServerStep
      PROVE  LifeInv'
  BY Zenon, <1>5, CancelKeeps, CrashKeeps, StopBeginsKeeps, StopEndsKeeps, BootKeeps, AnswerUnheardKeeps
     DEF ServerStep, Sweep
<1>6. CASE UNCHANGED vars
  BY Zenon, <1>6, StutterKeeps
<1>7. QED
  BY Zenon, <1>1, <1>2, <1>3, <1>4, <1>5, <1>6 DEF Next

LEMMA LifeInvariant == Spec => []LifeInv
BY LifeInit, LifeStep, PTL DEF Spec

\* The tables and the memory of the server keep their types, whatever order starts,
\* answers, retries, migrations, crashes and boots come in (task-registry.ts, kernel.ts,
\* migration-orchestrator.ts, orphan-reconciler.ts).
THEOREM LifecycleTypes == Spec => []TypeOK
<1>1. LifeInv => TypeOK
  BY TypeParts DEF LifeInv
<1>2. QED
  BY <1>1, LifeInvariant, PTL

-----------------------------------------------------------------------------
(* The refinement: what each step is to the people who own the task. *)

\* Nobody is heard who was not.
NobodyHeard ==
  \A g \in Gates : \A k \in DOMAIN questions'[g] :
    Said(g, k)' => k \in DOMAIN questions[g] /\ Said(g, k)

LEMMA HeardStays ==
  ASSUME Grows, NobodyHeard
  PROVE  AnsweredGates' = AnsweredGates
<1>1. AnsweredGates \subseteq AnsweredGates'
  BY AnswersStay
<1>2. ASSUME NEW g \in AnsweredGates'
      PROVE  g \in AnsweredGates
  <2>1. g \in Gates
    BY DEF AnsweredGates
  <2>2. PICK k \in DOMAIN questions'[g] : Said(g, k)'
    BY DEF AnsweredGates, HasAnswer, Said
  <2>3. k \in DOMAIN questions[g] /\ Said(g, k)
    BY <2>1, <2>2 DEF NobodyHeard
  <2>4. QED
    BY <2>1, <2>3 DEF AnsweredGates, HasAnswer, Said
<1>3. QED
  BY <1>1, <1>2

LEMMA UnaskedIsUnheard ==
  ASSUME UNCHANGED questions
  PROVE  AnsweredGates' = AnsweredGates
BY DEF AnsweredGates, HasAnswer

LEMMA ClosedIsUnheard ==
  ASSUME LifeInv, Grows, NEW S, questions' = ClosedIn(S)
  PROVE  AnsweredGates' = AnsweredGates
<1>1. \A g \in Gates : \A k \in DOMAIN questions[g] :
        ClosedIn(S)[g][k] \in {"approved", "rejected"} => ClosedIn(S)[g][k] = questions[g][k]
  BY Facts, ClosedQuestions
<1>2. Reanswered(questions')
  BY Facts, ClosedQuestions
<1>3. NobodyHeard
  BY <1>1, <1>2 DEF NobodyHeard, Reanswered, Said
<1>4. QED
  BY <1>3, HeardStays

LEMMA OpenIsUnheard ==
  ASSUME LifeInv, NEW s \in Stages, Open(s)
  PROVE  AnsweredGates' = AnsweredGates
<1>1. CASE s \in Gates
  <2>1. questions' = WithQuestion(s) /\ questions \in QuestionsType
    BY <1>1, Facts DEF Open, WithQuestion
  <2>2. /\ \A h \in Gates \ {s} : questions'[h] = questions[h]
        /\ DOMAIN questions'[s] = 1..(Len(questions[s]) + 1)
        /\ \A k \in DOMAIN questions[s] : questions'[s][k] = questions[s][k]
        /\ questions'[s][Len(questions[s]) + 1] = "open"
        /\ DOMAIN questions[s] = 1..Len(questions[s]) /\ Len(questions[s]) \in Nat
    BY <1>1, <2>1, NewQuestion, QuestionsAre
  <2>3. ASSUME NEW g \in Gates, NEW k \in DOMAIN questions'[g], questions'[g][k] # "open"
        PROVE  k \in DOMAIN questions[g] /\ questions'[g][k] = questions[g][k]
    <3>1. CASE g = s
      <4>1. k \in 1..Len(questions[s])
        BY <2>2, <2>3, <3>1
      <4>2. QED
        BY <2>2, <3>1, <4>1
    <3>2. CASE g # s
      BY <2>2, <3>2
    <3>3. QED
      BY <3>1, <3>2
  <2>4. ASSUME NEW g \in Gates, HasAnswer(g, {"approved", "rejected"})'
        PROVE  HasAnswer(g, {"approved", "rejected"})
    BY <2>3, <2>4 DEF HasAnswer
  <2>5. ASSUME NEW g \in Gates, HasAnswer(g, {"approved", "rejected"})
        PROVE  HasAnswer(g, {"approved", "rejected"})'
    <3>1. PICK k \in DOMAIN questions[g] : questions[g][k] \in {"approved", "rejected"}
      BY <2>5 DEF HasAnswer
    <3>2. CASE g = s
      <4>1. k \in 1..Len(questions[s]) /\ questions'[s][k] = questions[s][k]
        BY Zenon, <2>2, <3>1, <3>2
      <4>2. k \in 1..(Len(questions[s]) + 1)
        BY <2>2, <4>1
      <4>3. QED
        BY <2>2, <3>1, <3>2, <4>1, <4>2 DEF HasAnswer
    <3>3. CASE g # s
      <4>1. questions'[g] = questions[g]
        BY Zenon, <2>2, <3>3
      <4>2. QED
        BY <3>1, <4>1 DEF HasAnswer
    <3>4. QED
      BY <3>2, <3>3
  <2>6. QED
    BY <2>4, <2>5 DEF AnsweredGates
<1>2. CASE s \notin Gates
  <2>1. questions' = questions
    BY Zenon, <1>2 DEF Open
  <2>2. QED
    BY <2>1, UnaskedIsUnheard
<1>3. QED
  BY <1>1, <1>2

LEMMA AnsweredIsHeard ==
  ASSUME LifeInv, NEW g \in Gates, NEW k \in DOMAIN questions[g], NEW a \in {"approved", "rejected"},
         Answered(g, k, a)
  PROVE  AnsweredGates' = AnsweredGates \cup {g} /\ finals' = finals
<1>1. Quiet /\ questions'[g][k] = a /\ k \in DOMAIN questions'[g]
  BY AnsweredStep
<1>2. AnsweredGates \subseteq AnsweredGates'
  BY <1>1, QuietStays, AnswersStay
<1>3. g \in AnsweredGates'
  BY <1>1 DEF AnsweredGates, HasAnswer
<1>4. questions[g][k] = "open" /\ questions' = WithAnswer(g, k, a) /\ questions \in QuestionsType
  BY Zenon, Facts DEF Answered, WithAnswer
<1>5. \A h \in Gates \ {g} : questions'[h] = questions[h]
  BY <1>4, NewAnswer
<1>6. ASSUME NEW h \in AnsweredGates', h # g
      PROVE  h \in AnsweredGates
  BY <1>5, <1>6 DEF AnsweredGates, HasAnswer
<1>7. finals' = finals
  BY Zenon DEF Answered
<1>8. g \in Gates /\ AnsweredGates' \subseteq Gates
  BY DEF AnsweredGates
<1>9. QED
  BY <1>2, <1>3, <1>6, <1>7, <1>8

\* What a step may be: nothing, an answer, a verdict.
Told ==
  \/ AnsweredGates' = AnsweredGates /\ finals' = finals
  \/ \E g \in Gates : AnsweredGates' = AnsweredGates \cup {g} /\ finals' = finals
  \/ /\ AnsweredGates' = AnsweredGates
     /\ \/ finals # "cancelled" /\ AnsweredGates = Gates /\ finals' = "completed"
        \/ finals # "cancelled" /\ finals' = "failed"
        \/ finals = "none" /\ finals' = "cancelled"

LEMMA ToldIsVerdict ==
  ASSUME Told
  PROVE  [Verdict!Next]_(Verdict!vars)
BY DEF Told, Verdict!Next, Verdict!vars, Verdict!Answer, Verdict!Complete, Verdict!Fail, Verdict!Cancel

LEMMA FinishTells ==
  ASSUME LifeInv, Finish
  PROVE  Told
<1>1. finals' = Recorded /\ questions' = questions
  BY Zenon DEF Finish
<1>2. AnsweredGates' = AnsweredGates
  BY <1>1, UnaskedIsUnheard
<1>3. ASSUME runner.done = Stages
      PROVE  AnsweredGates = Gates
  <2>1. \A g \in Gates : g \in AnsweredGates
    BY <1>3, Facts, GateStage DEF RunnerSound
  <2>2. QED
    BY <2>1 DEF AnsweredGates
<1>4. QED
  BY <1>1, <1>2, <1>3 DEF Recorded, Classified, Told

LEMMA LaunchTells ==
  ASSUME Launch \/ UNCHANGED <<runner, finals, keys>>, AnsweredGates' = AnsweredGates
  PROVE  Told
<1>1. finals' = finals \/ (finals = "none" /\ finals' = "failed")
  BY Zenon DEF Launch
<1>2. QED
  BY <1>1 DEF Told

LEMMA BootTells ==
  ASSUME LifeInv, Boot
  PROVE  Told
<1>1. AnsweredGates' = AnsweredGates
  BY UnaskedIsUnheard DEF Boot
<1>2. CASE Launch \/ UNCHANGED <<runner, finals, keys>>
  BY Zenon, <1>1, <1>2, LaunchTells
<1>3. CASE finals = "none" /\ NothingPending /\ finals' = "completed"
  <2>1. \A g \in Gates : g \in AnsweredGates
    BY <1>3, GateStage, SucceededIsAnswered DEF NothingPending
  <2>2. AnsweredGates = Gates
    BY <2>1 DEF AnsweredGates
  <2>3. QED
    BY <1>1, <1>3, <2>2 DEF Told
<1>4. QED
  BY Zenon, <1>2, <1>3 DEF Boot

LEMMA BeginIsUnheard ==
  ASSUME LifeInv, NEW s \in Stages, Begin(s)
  PROVE  AnsweredGates' = AnsweredGates
<1>1. CASE Busy
  BY <1>1, UnaskedIsUnheard DEF Begin
<1>2. CASE ~Busy
  <2>1. Grows
    BY BeginStep, QuietStays
  <2>2. questions' = ClosedIn(s..N)
    BY Zenon, <1>2 DEF Begin, Supersede
  <2>3. QED
    BY <2>1, <2>2, ClosedIsUnheard
<1>3. QED
  BY <1>1, <1>2

LEMMA RunTells ==
  ASSUME LifeInv, RunStep
  PROVE  Told
<1>1. CASE Finish
  BY <1>1, FinishTells
<1>2. CASE ~Finish
  <2>1. questions' = questions /\ finals' = finals
    BY Zenon, <1>2 DEF RunStep, Deliver, Return, Timeout, GraceExpires, db
  <2>2. QED
    BY <2>1, UnaskedIsUnheard DEF Told
<1>3. QED
  BY <1>1, <1>2

LEMMA CancelTells ==
  ASSUME LifeInv, Cancel
  PROVE  Told
<1>1. questions' = ClosedIn(Gates) /\ rows' = rows /\ finals = "none" /\ finals' = "cancelled"
  BY Zenon DEF Cancel
<1>2. Grows
  BY <1>1, ClosedIsQuiet, QuietStays
<1>3. AnsweredGates' = AnsweredGates
  BY <1>1, <1>2, ClosedIsUnheard
<1>4. QED
  BY <1>1, <1>3 DEF Told

LEMMA PersonTells ==
  ASSUME LifeInv, Person
  PROVE  Told
<1>1. ASSUME NEW g \in Gates, NEW k \in DOMAIN questions[g], Approve(g, k) \/ Reject(g, k)
      PROVE  Told
  <2>1. PICK a \in {"approved", "rejected"} : Answered(g, k, a)
    BY Zenon, <1>1 DEF Approve, Reject
  <2>2. QED
    BY <2>1, AnsweredIsHeard DEF Told
<1>2. ASSUME NEW s \in Stages, Migrate(s)
      PROVE  Told
  <2>1. Begin(s) /\ finals' = finals
    BY Zenon, <1>2 DEF Migrate
  <2>2. QED
    BY <2>1, BeginIsUnheard DEF Told
<1>3. CASE ProvideSecrets
  <2>1. finals' = finals
    BY Zenon, <1>3 DEF ProvideSecrets
  <2>2. questions' = questions \/ \E s \in missing : Begin(s)
    BY Zenon, <1>3 DEF ProvideSecrets
  <2>3. missing \subseteq Stages
    BY Facts
  <2>4. AnsweredGates' = AnsweredGates
    BY <2>2, <2>3, BeginIsUnheard, UnaskedIsUnheard
  <2>5. QED
    BY <2>1, <2>4 DEF Told
<1>4. QED
  BY Zenon, <1>1, <1>2, <1>3, CancelTells DEF Person

LEMMA MigrationTells ==
  ASSUME LifeInv, MigrationStep
  PROVE  Told
<1>1. CASE Terminated
  <2>1. questions' = ClosedIn(migration.from..N) /\ finals' = finals /\ Supersede(migration.from)
    BY Zenon, <1>1 DEF Terminated, Supersede
  <2>2. migration.from \in 0..N
    BY Facts DEF Migrations
  <2>3. Grows
    BY <2>1, <2>2, SupersedeStep, QuietStays
  <2>4. AnsweredGates' = AnsweredGates
    BY <2>1, <2>3, ClosedIsUnheard
  <2>5. QED
    BY <2>1, <2>4 DEF Told
<1>2. CASE WaitTimesOut
  <2>1. questions' = questions /\ finals' = finals
    BY Zenon, <1>2 DEF WaitTimesOut, db
  <2>2. QED
    BY <2>1, UnaskedIsUnheard DEF Told
<1>3. CASE Resume
  <2>1. questions' = questions /\ (Launch \/ UNCHANGED <<runner, finals, keys>>)
    BY Zenon, <1>3 DEF Resume
  <2>2. AnsweredGates' = AnsweredGates
    BY <2>1, UnaskedIsUnheard
  <2>3. QED
    BY Zenon, <2>1, <2>2, LaunchTells
<1>4. QED
  BY Zenon, <1>1, <1>2, <1>3 DEF MigrationStep

LEMMA ServerTells ==
  ASSUME LifeInv, ServerStep
  PROVE  Told
<1>1. CASE Sweep
  BY <1>1, CancelTells DEF Sweep
<1>2. CASE Crash \/ StopBegins \/ StopEnds
  <2>1. questions' = questions /\ finals' = finals
    BY Zenon, <1>2 DEF Crash, StopBegins, StopEnds, db
  <2>2. QED
    BY <2>1, UnaskedIsUnheard DEF Told
<1>3. ASSUME NEW g \in Gates, NEW k \in DOMAIN questions[g], AnswerUnheard(g, k)
      PROVE  Told
  <2>1. PICK a \in {"approved", "rejected"} : Answered(g, k, a)
    BY Zenon, <1>3 DEF AnswerUnheard
  <2>2. QED
    BY <2>1, AnsweredIsHeard DEF Told
<1>4. QED
  BY Zenon, <1>1, <1>2, <1>3, BootTells DEF ServerStep

LEMMA StepTells ==
  ASSUME LifeInv, [Next]_vars
  PROVE  Told
<1>1. ASSUME NEW s \in Stages, Open(s) \/ Pause(s)
      PROVE  Told
  <2>1. CASE Open(s)
    <3>1. finals' = finals
      BY Zenon, <2>1 DEF Open
    <3>2. QED
      BY <2>1, <3>1, OpenIsUnheard DEF Told
  <2>2. CASE Pause(s)
    <3>1. questions' = questions /\ finals' = finals
      BY Zenon, <2>2 DEF Pause
    <3>2. QED
      BY <3>1, UnaskedIsUnheard DEF Told
  <2>3. QED
    BY <1>1, <2>1, <2>2
<1>2. CASE UNCHANGED vars
  <2>1. questions' = questions /\ finals' = finals
    BY Zenon, <1>2 DEF vars
  <2>2. QED
    BY <2>1, UnaskedIsUnheard DEF Told
<1>3. QED
  BY Zenon, <1>1, <1>2, RunTells, PersonTells, MigrationTells, ServerTells DEF Next

\* The detailed lifecycle implements TaskVerdict for every chain of stages and gates:
\* however starts, answers, cancellations, migrations, crashes and boots interleave, a
\* task is completed only when every gate was answered by a person, and a cancelled
\* task stays cancelled (cancelTask, the upsert of runPipeline, bootResumability).
THEOREM LifecycleImplements == Spec => ImplementsTaskVerdict
<1>1. Init => Verdict!Init
  <2> SUFFICES ASSUME Init
               PROVE  Verdict!Init
    OBVIOUS
  <2>1. finals = "none" /\ questions = [g \in Gates |-> <<>>]
    BY Zenon DEF Init
  <2>2. \A g \in Gates : DOMAIN questions[g] = {}
    BY <2>1
  <2>3. AnsweredGates = {}
    BY <2>2 DEF AnsweredGates, HasAnswer
  <2>4. QED
    BY <2>1, <2>3 DEF Verdict!Init
<1>2. LifeInv /\ [Next]_vars => [Verdict!Next]_(Verdict!vars)
  BY Zenon, StepTells, ToldIsVerdict
<1>3. QED
  BY <1>1, <1>2, LifeInvariant, PTL DEF Spec, ImplementsTaskVerdict, Verdict!Spec

-----------------------------------------------------------------------------
(* What the database calls running is running. *)

\* No agent or script attempt comes to be running by the step, no executor goes.
RunningStays ==
  /\ \A s \in Stages \ Gates : \A k \in DOMAIN rows'[s] :
       rows'[s][k] = "running" => k \in DOMAIN rows[s] /\ rows[s][k] = "running"
  /\ flying' = flying

LEMMA RowsStayRunning ==
  ASSUME UNCHANGED <<rows, flying>>
  PROVE  RunningStays
BY DEF RunningStays

LEMMA MarkedStaysRunning ==
  ASSUME LifeInv, NEW S, NEW from, rows' = Marked(rows, S, from, "superseded"), flying' = flying
  PROVE  RunningStays
<1>1. /\ Restated(rows')
      /\ \A s \in Stages : \A k \in DOMAIN rows[s] : rows'[s][k] \in {rows[s][k], "superseded"}
  BY Facts, MarkedAttempts DEF Statuses
<1>2. QED
  BY <1>1 DEF RunningStays, Restated

LEMMA StillExecuted ==
  ASSUME RunningRowsHaveExecutors, RunningStays,
         server' = "up" => server = "up", finals' = "none" => finals = "none",
         events'.refusals = 0 => events.refusals = 0
  PROVE  RunningRowsHaveExecutors'
BY DEF RunningRowsHaveExecutors, RunningStays

LEMMA BeginStaysRunning ==
  ASSUME LifeInv, NEW s \in Stages, Begin(s), flying' = flying
  PROVE  RunningStays
<1>1. CASE Busy
  BY <1>1, RowsStayRunning DEF Begin
<1>2. CASE ~Busy
  <2>1. rows' = Marked(rows, s..N, SupersededStatuses, "superseded")
    BY Zenon, <1>2 DEF Begin, Supersede
  <2>2. QED
    BY <2>1, MarkedStaysRunning
<1>3. QED
  BY <1>1, <1>2

LEMMA AnsweredStaysRunning ==
  ASSUME LifeInv, NEW g \in Gates, NEW k \in DOMAIN questions[g], NEW a, Answered(g, k, a), flying' = flying
  PROVE  RunningStays
<1>1. \A s \in Stages \ Gates : rows'[s] = rows[s]
  BY Facts, GateStage DEF Answered, RowsType
<1>2. QED
  BY <1>1 DEF RunningStays

LEMMA EventsKept ==
  ASSUME LifeInv, NEW f \in Kinds, Count(f), events'.refusals = 0
  PROVE  events.refusals = 0 /\ f # "refusals"
<1>1. /\ events' = [events EXCEPT ![f] = events[f] + 1] /\ events \in [Kinds -> Nat]
      /\ "refusals" \in Kinds
  BY Zenon, Facts DEF Count, Kinds
<1>2. QED
  BY <1>1

LEMMA OpenExecutes ==
  ASSUME LifeInv, RunningRowsHaveExecutors, NEW s \in Stages, Open(s)
  PROVE  RunningRowsHaveExecutors'
<1>1. /\ UNCHANGED <<finals, server, events>> /\ rows' = WithAttempt(s, "running")
  BY Zenon DEF Open, WithAttempt
<1>2. /\ \A t \in Stages \ {s} : rows'[t] = rows[t]
      /\ DOMAIN rows'[s] = 1..(Len(rows[s]) + 1)
      /\ Len(rows[s]) \in Nat /\ DOMAIN rows[s] = 1..Len(rows[s])
      /\ \A k \in DOMAIN rows[s] : rows'[s][k] = rows[s][k]
  <2>1. rows \in RowsType /\ "running" \in Statuses
    BY Facts DEF Statuses
  <2>2. QED
    BY <1>1, <2>1, NewAttempt, RowsAre
<1>3. flying \subseteq flying'
  BY DEF Open
<1>4. s \notin Gates => <<s, Len(rows[s]) + 1, FALSE>> \in flying'
  BY DEF Open, NextAttempt
<1>5. ASSUME NEW t \in Stages \ Gates, NEW k \in DOMAIN rows'[t], rows'[t][k] = "running",
             server' = "up", finals' = "none", events'.refusals = 0
      PROVE  \E e \in flying' : e[1] = t /\ e[2] = k
  <2>1. CASE t = s /\ k = Len(rows[s]) + 1
    BY <1>4, <2>1
  <2>2. CASE ~(t = s /\ k = Len(rows[s]) + 1)
    <3>1. k \in DOMAIN rows[t] /\ rows[t][k] = "running"
      <4>1. CASE t = s
        BY <1>2, <1>5, <2>2, <4>1
      <4>2. CASE t # s
        BY <1>2, <1>5, <4>2
      <4>3. QED
        BY <4>1, <4>2
    <3>2. \E e \in flying : e[1] = t /\ e[2] = k
      BY <1>1, <1>5, <3>1 DEF RunningRowsHaveExecutors
    <3>3. QED
      BY <1>3, <3>2
  <2>3. QED
    BY <2>1, <2>2
<1>6. QED
  BY <1>5 DEF RunningRowsHaveExecutors

LEMMA PauseExecutes ==
  ASSUME LifeInv, RunningRowsHaveExecutors, NEW s \in Stages, Pause(s)
  PROVE  RunningRowsHaveExecutors'
<1>1. UNCHANGED <<finals, server, events, flying>> /\ rows' = WithAttempt(s, "secret_pending")
  BY Zenon DEF Pause, WithAttempt
<1>2. /\ \A t \in Stages \ {s} : rows'[t] = rows[t]
      /\ DOMAIN rows'[s] = 1..(Len(rows[s]) + 1)
      /\ Len(rows[s]) \in Nat /\ DOMAIN rows[s] = 1..Len(rows[s])
      /\ \A k \in DOMAIN rows[s] : rows'[s][k] = rows[s][k]
      /\ rows'[s][Len(rows[s]) + 1] = "secret_pending"
  <2>1. rows \in RowsType /\ "secret_pending" \in Statuses
    BY Facts DEF Statuses
  <2>2. QED
    BY <1>1, <2>1, NewAttempt, RowsAre
<1>3. ASSUME NEW t \in Stages, NEW k \in DOMAIN rows'[t], rows'[t][k] = "running"
      PROVE  k \in DOMAIN rows[t] /\ rows[t][k] = "running"
  <2>1. CASE t = s
    <3>1. k \in 1..(Len(rows[s]) + 1) /\ k # Len(rows[s]) + 1
      BY <1>2, <1>3, <2>1
    <3>2. k \in DOMAIN rows[s]
      BY <1>2, <3>1
    <3>3. QED
      BY <1>2, <1>3, <2>1, <3>2
  <2>2. CASE t # s
    BY <1>2, <1>3, <2>2
  <2>3. QED
    BY <2>1, <2>2
<1>4. RunningStays
  BY <1>1, <1>3 DEF RunningStays
<1>5. QED
  BY <1>1, <1>4, StillExecuted

LEMMA DeliverExecutes ==
  ASSUME LifeInv, RunningRowsHaveExecutors, NEW e \in flying, Deliver(e)
  PROVE  RunningRowsHaveExecutors'
<1>1. /\ UNCHANGED <<rows, finals, server, events>>
      /\ flying' = (flying \ {e}) \cup {<<e[1], e[2], TRUE>>}
  BY Zenon DEF Deliver, db
<1>2. ASSUME NEW t, NEW k, NEW d \in flying, d[1] = t, d[2] = k
      PROVE  \E x \in flying' : x[1] = t /\ x[2] = k
  <2>1. CASE d = e
    <3>1. <<e[1], e[2], TRUE>> \in flying' /\ <<e[1], e[2], TRUE>>[1] = t /\ <<e[1], e[2], TRUE>>[2] = k
      BY <1>1, <1>2, <2>1
    <3>2. QED
      BY <3>1
  <2>2. CASE d # e
    BY <1>1, <1>2, <2>2
  <2>3. QED
    BY <2>1, <2>2
<1>3. ASSUME NEW t \in Stages \ Gates, NEW k \in DOMAIN rows[t], rows[t][k] = "running",
             server = "up", finals = "none", events.refusals = 0
      PROVE  \E x \in flying' : x[1] = t /\ x[2] = k
  <2>1. PICK d \in flying : d[1] = t /\ d[2] = k
    BY <1>3 DEF RunningRowsHaveExecutors
  <2>2. QED
    BY <1>2, <2>1
<1>4. UNCHANGED <<rows, finals, server, events>>
  BY <1>1
<1>5. QED
  BY <1>3, <1>4 DEF RunningRowsHaveExecutors

LEMMA ReturnExecutes ==
  ASSUME LifeInv, RunningRowsHaveExecutors, NEW e \in flying, NEW st \in {"success", "error"}, Return(e, st)
  PROVE  RunningRowsHaveExecutors'
<1>1. UNCHANGED <<finals, server, events>>
      /\ flying' = flying \ {e} /\ rows' = WithStatus(e[1], e[2], st)
  BY Zenon DEF Return, WithStatus
<1>2. e[1] \in Stages \ Gates /\ e[2] \in DOMAIN rows[e[1]] /\ st \in Statuses /\ rows \in RowsType
  BY Facts DEF Flying, Statuses
<1>3. /\ Restated(rows') /\ \A t \in Stages \ {e[1]} : rows'[t] = rows[t]
      /\ \A q \in DOMAIN rows[e[1]] : q # e[2] => rows'[e[1]][q] = rows[e[1]][q]
      /\ rows'[e[1]][e[2]] = st
  BY <1>1, <1>2, NewStatus
<1>4. ASSUME NEW t \in Stages, NEW k \in DOMAIN rows'[t], rows'[t][k] = "running"
      PROVE  k \in DOMAIN rows[t] /\ rows[t][k] = "running" /\ ~(e[1] = t /\ e[2] = k)
  BY <1>3, <1>4 DEF Restated
<1>5. QED
  BY <1>1, <1>4 DEF RunningRowsHaveExecutors

LEMMA BootExecutes ==
  ASSUME LifeInv, Boot
  PROVE  RunningRowsHaveExecutors'
<1>1. rows' = Reconciled
  BY Zenon DEF Boot
<1>2. finals' = "none" => finals = "none"
  BY Zenon DEF Boot, Launch
<1>3. ASSUME finals' = "none", NEW s \in Stages, NEW k \in DOMAIN rows'[s]
      PROVE  rows'[s][k] # "running"
  <2>1. rows' = Marked(rows, Stages, {"running"}, "superseded")
    BY <1>1, <1>2, <1>3 DEF Reconciled
  <2>2. /\ Restated(rows')
        /\ \A t \in Stages : \A q \in DOMAIN rows[t] :
             /\ rows'[t][q] \in {rows[t][q], "superseded"}
             /\ rows[t][q] = "running" => rows'[t][q] = "superseded"
    BY <2>1, Facts, MarkedAttempts DEF Statuses
  <2>3. k \in DOMAIN rows[s]
    BY <2>2 DEF Restated
  <2>4. QED
    BY <2>2, <2>3
<1>4. QED
  BY <1>3 DEF RunningRowsHaveExecutors

LEMMA ResumeExecutes ==
  ASSUME LifeInv, RunningRowsHaveExecutors, Resume
  PROVE  RunningRowsHaveExecutors'
<1>1. server' = server /\ flying' = flying
  BY Zenon DEF Resume
<1>2. CASE Launch /\ UNCHANGED <<rows, events>>
  <2>1. UNCHANGED <<rows, events>> /\ (finals' = "none" => finals = "none")
    BY Zenon, <1>2 DEF Launch
  <2>2. QED
    BY <1>1, <2>1, RowsStayRunning, StillExecuted
<1>3. CASE Count("refusals")
  <2>1. events'.refusals # 0
    BY <1>3, EventsKept DEF Kinds
  <2>2. QED
    BY <2>1 DEF RunningRowsHaveExecutors
<1>4. QED
  BY Zenon, <1>2, <1>3 DEF Resume

LEMMA PersonExecutes ==
  ASSUME LifeInv, RunningRowsHaveExecutors, Person
  PROVE  RunningRowsHaveExecutors'
<1>1. server' = server /\ flying' = flying /\ (finals' = "none" => finals = "none")
  BY Zenon DEF Person, Approve, Reject, Answered, Cancel, ProvideSecrets, Migrate
<1>2. events' = events \/ Count("rejects") \/ Count("migrations")
  BY Zenon DEF Person, Approve, Reject, Cancel, ProvideSecrets, Migrate
<1>3. events'.refusals = 0 => events.refusals = 0
  BY <1>2, EventsKept DEF Kinds
<1>4. RunningStays
  <2>1. ASSUME NEW g \in Gates, NEW k \in DOMAIN questions[g], Approve(g, k) \/ Reject(g, k)
        PROVE  RunningStays
    <3>1. PICK a \in {"approved", "rejected"} : Answered(g, k, a)
      BY Zenon, <2>1 DEF Approve, Reject
    <3>2. QED
      BY <1>1, <3>1, AnsweredStaysRunning
  <2>2. ASSUME NEW s \in Stages, Migrate(s)
        PROVE  RunningStays
    <3>1. Begin(s)
      BY Zenon, <2>2 DEF Migrate
    <3>2. QED
      BY <1>1, <3>1, BeginStaysRunning
  <2>3. CASE Cancel
    BY <1>1, <2>3, RowsStayRunning DEF Cancel
  <2>4. CASE ProvideSecrets
    <3>1. rows' = rows \/ \E s \in missing : Begin(s)
      BY Zenon, <2>4 DEF ProvideSecrets
    <3>2. missing \subseteq Stages
      BY Facts
    <3>3. QED
      BY <1>1, <3>1, <3>2, BeginStaysRunning, RowsStayRunning
  <2>5. QED
    BY Zenon, <2>1, <2>2, <2>3, <2>4 DEF Person
<1>5. QED
  BY <1>1, <1>3, <1>4, StillExecuted

LEMMA ServerExecutes ==
  ASSUME LifeInv, RunningRowsHaveExecutors, ServerStep
  PROVE  RunningRowsHaveExecutors'
<1>1. CASE Sweep
  <2>1. UNCHANGED <<rows, flying, server, events>> /\ finals' = "cancelled"
    BY Zenon, <1>1 DEF Sweep, Cancel
  <2>2. QED
    BY <2>1 DEF RunningRowsHaveExecutors
<1>2. CASE Boot
  BY <1>2, BootExecutes
<1>3. CASE ~Sweep /\ ~Boot
  <2>1. server' = "down" \/ server' = "stopping"
    BY Zenon, <1>3 DEF ServerStep, Crash, StopBegins, StopEnds, AnswerUnheard
  <2>2. QED
    BY <2>1 DEF RunningRowsHaveExecutors
<1>4. QED
  BY <1>1, <1>2, <1>3

LEMMA MigrationExecutes ==
  ASSUME LifeInv, RunningRowsHaveExecutors, MigrationStep
  PROVE  RunningRowsHaveExecutors'
<1>1. CASE Terminated
  <2>1. /\ rows' = Marked(rows, migration.from..N, SupersededStatuses, "superseded")
        /\ UNCHANGED <<finals, server, flying, events>>
    BY Zenon, <1>1 DEF Terminated, Supersede
  <2>2. QED
    BY <2>1, MarkedStaysRunning, StillExecuted
<1>2. CASE WaitTimesOut
  <2>1. UNCHANGED <<rows, finals, server, flying, events>>
    BY Zenon, <1>2 DEF WaitTimesOut, db
  <2>2. QED
    BY <2>1, RowsStayRunning, StillExecuted
<1>3. QED
  BY Zenon, <1>1, <1>2, ResumeExecutes DEF MigrationStep

LEMMA RunExecutes ==
  ASSUME LifeInv, RunningRowsHaveExecutors, RunStep
  PROVE  RunningRowsHaveExecutors'
<1>1. CASE Finish
  <2>1. UNCHANGED <<rows, server, flying, events>> /\ (finals' = "none" => finals = "none")
    BY Zenon, <1>1 DEF Finish, Recorded, Classified
  <2>2. QED
    BY <2>1, RowsStayRunning, StillExecuted
<1>2. CASE Timeout \/ GraceExpires
  <2>1. UNCHANGED <<rows, finals, server, flying, events>>
    BY Zenon, <1>2 DEF Timeout, GraceExpires, db
  <2>2. QED
    BY <2>1, RowsStayRunning, StillExecuted
<1>3. QED
  BY Zenon, <1>1, <1>2, DeliverExecutes, ReturnExecutes DEF RunStep

\* While the server is up, an attempt the database calls running is running: an executor
\* reports before it goes, and whatever a crash or a shutdown leaves is superseded before
\* the server listens again (orphan-reconciler.ts, graceful-shutdown.ts); only a refused
\* launch restores the status of an attempt that has ended (migration-orchestrator.ts).
THEOREM LifecycleExecutors == Spec => []RunningRowsHaveExecutors
<1>1. Init => RunningRowsHaveExecutors
  <2> SUFFICES ASSUME Init
               PROVE  RunningRowsHaveExecutors
    OBVIOUS
  <2>1. rows = [s \in Stages |-> <<>>]
    BY Zenon DEF Init
  <2>2. \A s \in Stages : DOMAIN rows[s] = {}
    BY <2>1
  <2>3. QED
    BY <2>2 DEF RunningRowsHaveExecutors
<1>2. LifeInv /\ RunningRowsHaveExecutors /\ [Next]_vars => RunningRowsHaveExecutors'
  <2> SUFFICES ASSUME LifeInv, RunningRowsHaveExecutors, [Next]_vars
               PROVE  RunningRowsHaveExecutors'
    OBVIOUS
  <2>1. CASE UNCHANGED vars
    <3>1. UNCHANGED <<rows, finals, server, flying, events>>
      BY Zenon, <2>1 DEF vars
    <3>2. QED
      BY <3>1, RowsStayRunning, StillExecuted
  <2>2. QED
    BY Zenon, <2>1, OpenExecutes, PauseExecutes, RunExecutes, PersonExecutes, MigrationExecutes, ServerExecutes
       DEF Next
<1>3. QED
  BY <1>1, <1>2, LifeInvariant, PTL DEF Spec

-----------------------------------------------------------------------------
(* Finished work is kept: the inductive invariant. *)

\* The statuses of an attempt that was tried and has not been put aside.
Tried == {"running", "success", "error"}

LastIn(s, statuses) == Len(rows[s]) > 0 /\ rows[s][Len(rows[s])] \in statuses

Exempt(s) == PausedAfter(s) /\ \E t \in 1..(s - 1) : Orphaned(t)

\* Without its key the keyed stage K only ever waited, and nothing behind it was tried.
Pristine(K) ==
  /\ \A k \in DOMAIN rows[K] : rows[K][k] = "secret_pending"
  /\ \A u \in Stages : u > K => Len(rows[u]) = 0
  /\ \A e \in flying : e[1] < K

\* The run paused at K: everything before it was tried, and its executors may wind up.
Waiting(K) ==
  /\ K \in Keyed /\ HasRow(K, {"secret_pending"}) /\ Pristine(K)
  /\ \A g \in Gates : g < K => g \in ApprovedGates
  /\ flying = {} \/ \A t \in Stages \ Gates : t < K => LastIn(t, Tried)
  /\ ~Live

DownIsEmpty == server = "down" => flying = {} /\ ~runner.registered /\ migration.pc = "idle"

\* An executor never works for an attempt that waits for a secret.
FlyingIsNotWaiting == \A e \in flying : rows[e[1]][e[2]] # "secret_pending"

\* A migration, while nobody asks for one, is the retry of the stage that got its key.
PausesWait ==
  /\ finals = "none" /\ missing # {} => ~keys
  /\ finals = "none" => \A K \in missing : Waiting(K)
  /\ migration.pc # "idle" => Waiting(migration.from)
  /\ migration.saved = {}

\* The task is open and its key is not there.
Lack == finals = "none" /\ ~keys

\* Until then a stage is tried once per life of the server.
DoneIsTried ==
  runner.registered =>
    \A t \in runner.done : IF t \in Gates THEN t \in ApprovedGates ELSE LastIn(t, Tried)

OnlyLastStands ==
  \A s \in Stages : \A k \in DOMAIN rows[s] : k # Len(rows[s]) => rows[s][k] \notin {"success", "running"}

AtOrBehind(s) == s \in runner.done \cup {runner.at}

StandingIsPassed ==
  Hears => /\ \A s \in Stages : LastIn(s, {"running", "success"}) => AtOrBehind(s)
           /\ \A e \in flying : AtOrBehind(e[1])

LackSound ==
  Lack =>
    /\ migration.pc = "idle"
    /\ \A K \in Keyed : Pristine(K) /\ (runner.registered => K \notin runner.done)
    /\ DoneIsTried /\ OnlyLastStands /\ StandingIsPassed
    /\ \A e \in flying : e[2] = Len(rows[e[1]])

\* Work that may still turn out to have succeeded.
InHand(s) == (\E e \in flying : e[1] = s) \/ (s \in Gates /\ HasRow(s, {"running"}))

\* The run is about to try again a stage whose newest attempt was not put aside.
AboutToOrphan(s) == PausedAfter(s) /\ \E t \in 1..s : Ready(t) /\ t \notin Gates /\ LastIn(t, Tried)

\* What has succeeded, or still may, is behind the run, or excepted.
WorkIsBehind ==
  Hears => \A s \in Stages :
    /\ HasRow(s, {"success"}) => AtOrBehind(s) \/ Exempt(s)
    /\ InHand(s) => AtOrBehind(s) \/ Exempt(s) \/ AboutToOrphan(s)

PauseInv == FlyingIsNotWaiting /\ PausesWait /\ LackSound
KeptInv == DownIsEmpty /\ (LeftAlone => PauseInv /\ WorkIsBehind)

-----------------------------------------------------------------------------
(* What a step leaves alone. *)

\* Once somebody has asked, somebody has.
LEMMA AloneBefore ==
  ASSUME LifeInv, Grows, events'.migrations = 0 => events.migrations = 0, LeftAlone'
  PROVE  LeftAlone
<1>1. \A g \in Gates : HasAnswer(g, {"rejected"}) => HasAnswer(g, {"rejected"})'
  <2> SUFFICES ASSUME NEW g \in Gates, NEW k \in DOMAIN questions[g], questions[g][k] = "rejected"
               PROVE  k \in DOMAIN questions'[g] /\ questions'[g][k] = "rejected"
    BY DEF HasAnswer
  <2>1. QED
    BY DEF Grows, Said
<1>2. QED
  BY <1>1 DEF LeftAlone

\* The attempts stay, and only what was in hand gets another status, a final one.
Mild ==
  /\ Restated(rows')
  /\ \A s \in Stages : \A k \in DOMAIN rows[s] :
       \/ rows'[s][k] = rows[s][k]
       \/ /\ rows'[s][k] \in {"success", "error"} /\ rows[s][k] # "secret_pending"
          /\ (s \in Gates /\ rows[s][k] = "running") \/ (\E e \in flying : e[1] = s /\ e[2] = k)

\* No executor starts.
Fewer == \A e \in flying' : \E d \in flying : d[1] = e[1] /\ d[2] = e[2]

LEMMA MildRows ==
  ASSUME LifeInv, Mild, NEW s \in Stages
  PROVE  /\ Len(rows'[s]) = Len(rows[s]) /\ DOMAIN rows'[s] = DOMAIN rows[s]
         /\ HasRow(s, {"secret_pending"}) => HasRow(s, {"secret_pending"})'
         /\ LastIn(s, Tried) => LastIn(s, Tried)'
         /\ Orphaned(s) => Orphaned(s)'
         /\ (\A k \in DOMAIN rows[s] : rows[s][k] = "secret_pending") =>
              \A k \in DOMAIN rows'[s] : rows'[s][k] = "secret_pending"
<1>1. /\ Len(rows'[s]) = Len(rows[s]) /\ DOMAIN rows'[s] = DOMAIN rows[s]
      /\ Len(rows[s]) \in Nat /\ DOMAIN rows[s] = 1..Len(rows[s])
  BY Facts, RowsAre DEF Mild, Restated
<1>2. \A k \in DOMAIN rows[s] :
        /\ rows[s][k] = "secret_pending" => rows'[s][k] = "secret_pending"
        /\ rows'[s][k] = rows[s][k] \/ rows'[s][k] \in {"success", "error"}
  BY DEF Mild
<1>3. HasRow(s, {"secret_pending"}) => HasRow(s, {"secret_pending"})'
  BY <1>1, <1>2 DEF HasRow
<1>4. LastIn(s, Tried) => LastIn(s, Tried)'
  BY <1>1, <1>2 DEF LastIn, Tried
<1>5. Orphaned(s) => Orphaned(s)'
  BY <1>1, <1>2 DEF Orphaned
<1>6. QED
  BY <1>1, <1>2, <1>3, <1>4, <1>5

LEMMA ExemptStays ==
  ASSUME LifeInv, Mild, NEW s \in Stages
  PROVE  (PausedAfter(s) => PausedAfter(s)') /\ (Exempt(s) => Exempt(s)')
<1>1. PausedAfter(s) => PausedAfter(s)'
  BY MildRows DEF PausedAfter
<1>2. \A t \in 1..(s - 1) : t \in Stages
  BY DEF Stages
<1>3. QED
  BY <1>1, <1>2, MildRows DEF Exempt

\* Rows a reconciliation has marked: nothing runs.
Swept ==
  /\ Restated(rows') /\ flying' = {}
  /\ \A s \in Stages : \A k \in DOMAIN rows[s] :
       \/ rows'[s][k] = rows[s][k]
       \/ rows[s][k] = "running" /\ rows'[s][k] = "superseded"

LEMMA MildSame ==
  ASSUME LifeInv, rows' = rows
  PROVE  Mild
BY Facts DEF Mild, Restated

LEMMA SweptSame ==
  ASSUME LifeInv, rows' = Reconciled, flying' = {}
  PROVE  /\ Swept
         /\ finals = "none" => \A s \in Stages : \A k \in DOMAIN rows'[s] : rows'[s][k] # "running"
<1>1. CASE finals = "none"
  <2>1. rows' = Marked(rows, Stages, {"running"}, "superseded")
    BY <1>1 DEF Reconciled
  <2>2. /\ Restated(rows')
        /\ \A t \in Stages : \A q \in DOMAIN rows[t] :
             /\ rows'[t][q] \in {rows[t][q], "superseded"}
             /\ rows[t][q] = "running" => rows'[t][q] = "superseded"
    BY <2>1, Facts, MarkedAttempts DEF Statuses
  <2>3. \A t \in Stages : \A q \in DOMAIN rows[t] :
          rows[t][q] # "running" => rows'[t][q] = rows[t][q]
    BY <2>1, Facts DEF Marked, RowsType
  <2>4. QED
    BY <2>2, <2>3 DEF Swept, Restated
<1>2. CASE finals # "none"
  BY <1>2, Facts DEF Reconciled, Swept, Restated
<1>3. QED
  BY <1>1, <1>2

LEMMA WaitingStays ==
  ASSUME LifeInv, NEW K, Waiting(K), Mild \/ Swept, Fewer, ApprovedGates \subseteq ApprovedGates', ~Live'
  PROVE  Waiting(K)'
<1>1. K \in Keyed /\ K \in Stages /\ HasRow(K, {"secret_pending"}) /\ Pristine(K)
  BY DEF Waiting
<1>2. \A u \in Stages : Len(rows'[u]) = Len(rows[u])
  BY DEF Mild, Swept, Restated
<1>3. /\ HasRow(K, {"secret_pending"})'
      /\ \A k \in DOMAIN rows'[K] : rows'[K][k] = "secret_pending"
  <2>1. CASE Mild
    BY <1>1, <2>1, MildRows DEF Pristine
  <2>2. CASE Swept
    BY <1>1, <2>2 DEF Pristine, HasRow, Swept, Restated
  <2>3. QED
    BY <2>1, <2>2
<1>4. Pristine(K)'
  BY <1>1, <1>2, <1>3 DEF Pristine, Fewer
<1>5. flying' = {} \/ \A t \in Stages \ Gates : t < K => LastIn(t, Tried)'
  <2>1. CASE Swept
    BY <2>1 DEF Swept
  <2>2. CASE Mild
    <3>1. flying = {} => flying' = {}
      BY DEF Fewer
    <3>2. QED
      BY <2>2, <3>1, MildRows DEF Waiting
  <2>3. QED
    BY <2>1, <2>2
<1>6. \A g \in Gates : g < K => g \in ApprovedGates'
  BY DEF Waiting
<1>7. QED
  BY Zenon, <1>1, <1>3, <1>4, <1>5, <1>6 DEF Waiting

LEMMA PausesStay ==
  ASSUME LifeInv, FlyingIsNotWaiting, PausesWait, Mild \/ Swept, Fewer,
         ApprovedGates \subseteq ApprovedGates', Live' => Live,
         finals' = "none" => finals = "none", missing' \subseteq missing,
         finals' = "none" /\ missing' # {} => ~keys',
         migration'.pc # "idle" => migration.pc # "idle" /\ migration'.from = migration.from,
         migration'.saved = {}
  PROVE  FlyingIsNotWaiting' /\ PausesWait'
<1>1. \A K : Waiting(K) => Waiting(K)'
  <2>1. \A K : Waiting(K) => ~Live'
    BY Zenon DEF Waiting
  <2>2. QED
    BY Zenon, <2>1, WaitingStays
<1>2. ASSUME NEW e \in flying'
      PROVE  rows'[e[1]][e[2]] # "secret_pending"
  <2>1. PICK d \in flying : d[1] = e[1] /\ d[2] = e[2]
    BY DEF Fewer
  <2>2. d[1] \in Stages /\ d[2] \in DOMAIN rows[d[1]] /\ rows[d[1]][d[2]] # "secret_pending"
    BY Facts DEF Flying, FlyingIsNotWaiting
  <2>3. CASE Mild
    BY <2>1, <2>2, <2>3 DEF Mild
  <2>4. CASE Swept
    BY <2>4 DEF Swept
  <2>5. QED
    BY <2>3, <2>4
<1>3. FlyingIsNotWaiting'
  BY <1>2 DEF FlyingIsNotWaiting
<1>4. finals' = "none" => \A K \in missing' : Waiting(K)'
  BY Zenon, <1>1 DEF PausesWait
<1>5. migration'.pc # "idle" => Waiting(migration.from)'
  <2> SUFFICES ASSUME migration'.pc # "idle"
               PROVE  Waiting(migration.from)'
    OBVIOUS
  <2>1. PICK K : K = migration'.from
    OBVIOUS
  <2>2. Waiting(K)
    BY Zenon, <2>1 DEF PausesWait
  <2>3. Waiting(K)'
    BY <1>1, <2>2
  <2>4. QED
    BY <2>1, <2>3 DEF Waiting, Pristine, HasRow
<1>6. QED
  BY Zenon, <1>3, <1>4, <1>5 DEF PausesWait

LEMMA LackStays ==
  ASSUME LifeInv, LackSound, Mild, Fewer, ApprovedGates \subseteq ApprovedGates',
         Lack' => Lack, migration'.pc # "idle" => migration.pc # "idle",
         runner'.registered => runner.registered,
         Lack => \A t \in runner'.done :
           \/ t \in runner.done
           \/ t \in ApprovedGates'
           \/ t \in Stages \ (Gates \cup Keyed) /\ LastIn(t, Tried),
         Hears' => Hears /\ \A s \in Stages : AtOrBehind(s) => AtOrBehind(s)'
  PROVE  LackSound'
<1> SUFFICES ASSUME Lack'
             PROVE  /\ migration'.pc = "idle"
                    /\ \A K \in Keyed : Pristine(K)' /\ (runner'.registered => K \notin runner'.done)
                    /\ DoneIsTried' /\ OnlyLastStands' /\ StandingIsPassed'
                    /\ \A e \in flying' : e[2] = Len(rows'[e[1]])
  BY Zenon DEF LackSound
<1>1. /\ Lack /\ migration.pc = "idle" /\ DoneIsTried /\ OnlyLastStands /\ StandingIsPassed
      /\ \A K \in Keyed : Pristine(K) /\ (runner.registered => K \notin runner.done)
      /\ \A e \in flying : e[2] = Len(rows[e[1]])
  BY Zenon DEF LackSound
<1>2. \A u \in Stages : Len(rows'[u]) = Len(rows[u]) /\ DOMAIN rows'[u] = DOMAIN rows[u]
                        /\ Len(rows[u]) \in Nat /\ DOMAIN rows[u] = 1..Len(rows[u])
  BY Facts, RowsAre DEF Mild, Restated
<1>3. ASSUME NEW K \in Keyed
      PROVE  Pristine(K)' /\ (runner'.registered => K \notin runner'.done)
  <2>1. K \in Stages \ Gates /\ Pristine(K)
    BY <1>1
  <2>2. \A k \in DOMAIN rows'[K] : rows'[K][k] = "secret_pending"
    BY <2>1, MildRows DEF Pristine
  <2>3. K \notin ApprovedGates'
    BY <2>1 DEF ApprovedGates
  <2>4. QED
    BY <1>1, <1>2, <2>1, <2>2, <2>3 DEF Pristine, Fewer
<1>4. DoneIsTried'
  <2> SUFFICES ASSUME runner'.registered, NEW t \in runner'.done
               PROVE  IF t \in Gates THEN t \in ApprovedGates' ELSE LastIn(t, Tried)'
    BY DEF DoneIsTried
  <2>1. t \in ApprovedGates' \/ t \in ApprovedGates \/ (t \in Stages \ Gates /\ LastIn(t, Tried))
    BY <1>1, Facts, RunnerFields DEF DoneIsTried
  <2>2. t \in Stages \ Gates /\ LastIn(t, Tried) => LastIn(t, Tried)'
    BY MildRows
  <2>3. t \in ApprovedGates' => t \in Gates
    BY DEF ApprovedGates
  <2>4. QED
    BY <2>1, <2>2, <2>3
<1>5. ASSUME NEW s \in Stages, NEW k \in DOMAIN rows'[s], rows'[s][k] \in {"success", "running"}
      PROVE  \/ rows[s][k] \in {"success", "running"}
             \/ \E e \in flying : e[1] = s /\ e[2] = k
  BY <1>2, <1>5 DEF Mild
<1>6. OnlyLastStands'
  BY <1>1, <1>2, <1>5 DEF OnlyLastStands
<1>7. StandingIsPassed'
  <2> SUFFICES ASSUME Hears'
               PROVE  /\ \A s \in Stages : LastIn(s, {"running", "success"})' => AtOrBehind(s)'
                      /\ \A e \in flying' : AtOrBehind(e[1])'
    BY Zenon DEF StandingIsPassed
  <2>1. /\ \A s \in Stages : LastIn(s, {"running", "success"}) => AtOrBehind(s)
        /\ \A e \in flying : e[1] \in Stages /\ AtOrBehind(e[1])
    BY <1>1, Facts DEF StandingIsPassed, Flying
  <2>2. ASSUME NEW s \in Stages, LastIn(s, {"running", "success"})'
        PROVE  AtOrBehind(s)
    BY <1>2, <1>5, <2>1, <2>2 DEF LastIn
  <2>3. \A e \in flying' : AtOrBehind(e[1])'
    BY <2>1 DEF Fewer
  <2>4. QED
    BY <2>2, <2>3
<1>8. \A e \in flying' : e[2] = Len(rows'[e[1]])
  BY <1>1, <1>2, Facts DEF Fewer, Flying
<1>9. QED
  BY <1>1, <1>3, <1>4, <1>6, <1>7, <1>8

\* Once a run has settled nothing is about to be tried.
LEMMA NothingIsDue ==
  ASSUME Settled
  PROVE  \A s \in Stages : ~AboutToOrphan(s)
<1>1. \A s \in Stages : \A t \in 1..s : t \in Stages
  BY DEF Stages
<1>2. QED
  BY <1>1 DEF Settled, AboutToOrphan

LEMMA BehindStays ==
  ASSUME LifeInv, WorkIsBehind, Mild, Fewer,
         Hears' => Hears /\ \A s \in Stages : AtOrBehind(s) => AtOrBehind(s)',
         \A s \in Stages : AboutToOrphan(s) => rows' = rows /\ AboutToOrphan(s)'
  PROVE  WorkIsBehind'
<1> SUFFICES ASSUME Hears', NEW s \in Stages
             PROVE  /\ HasRow(s, {"success"})' => AtOrBehind(s)' \/ Exempt(s)'
                    /\ InHand(s)' => AtOrBehind(s)' \/ Exempt(s)' \/ AboutToOrphan(s)'
  BY Zenon DEF WorkIsBehind
<1>1. DOMAIN rows'[s] = DOMAIN rows[s]
  BY DEF Mild, Restated
<1>2. HasRow(s, {"success"})' => HasRow(s, {"success"}) \/ InHand(s)
  <2> SUFFICES ASSUME NEW k \in DOMAIN rows[s], rows'[s][k] = "success"
               PROVE  HasRow(s, {"success"}) \/ InHand(s)
    BY <1>1 DEF HasRow
  <2>1. QED
    BY DEF HasRow, InHand, Mild
<1>3. InHand(s)' => InHand(s)
  <2>1. (\E e \in flying' : e[1] = s) => \E e \in flying : e[1] = s
    BY DEF Fewer
  <2>2. HasRow(s, {"running"})' => HasRow(s, {"running"})
    BY <1>1 DEF HasRow, Mild
  <2>3. QED
    BY <2>1, <2>2 DEF InHand
<1>4. AtOrBehind(s) \/ Exempt(s) => AtOrBehind(s)' \/ Exempt(s)'
  BY ExemptStays
<1>5. AboutToOrphan(s) /\ HasRow(s, {"success"})' => HasRow(s, {"success"})
  BY DEF HasRow
<1>6. HasRow(s, {"success"})' => HasRow(s, {"success"}) \/ AtOrBehind(s) \/ Exempt(s)
  BY <1>2, <1>5 DEF WorkIsBehind
<1>7. HasRow(s, {"success"}) => AtOrBehind(s) \/ Exempt(s)
  BY DEF WorkIsBehind
<1>8. InHand(s)' => AtOrBehind(s) \/ Exempt(s) \/ AboutToOrphan(s)'
  BY <1>3 DEF WorkIsBehind
<1>9. QED
  BY Zenon, <1>4, <1>6, <1>7, <1>8

\* A step that marks what runs, while no run is registered.
LEMMA SweptKeeps ==
  ASSUME LifeInv, LackSound, Swept, ApprovedGates \subseteq ApprovedGates',
         Lack' => Lack, migration'.pc # "idle" => migration.pc # "idle", ~runner'.registered
  PROVE  LackSound' /\ WorkIsBehind'
<1>1. WorkIsBehind'
  BY DEF WorkIsBehind, Hears, Live
<1>2. ASSUME Lack'
      PROVE  /\ migration'.pc = "idle"
             /\ \A K \in Keyed : Pristine(K)'
             /\ OnlyLastStands'
  <2>1. Lack /\ migration.pc = "idle" /\ OnlyLastStands /\ \A K \in Keyed : Pristine(K)
    BY Zenon, <1>2 DEF LackSound
  <2>2. \A u \in Stages : Len(rows'[u]) = Len(rows[u]) /\ DOMAIN rows'[u] = DOMAIN rows[u]
    BY DEF Swept, Restated
  <2>3. \A K \in Keyed : Pristine(K)'
    BY <2>1, <2>2 DEF Pristine, Swept
  <2>4. OnlyLastStands'
    BY <2>1, <2>2 DEF OnlyLastStands, Swept
  <2>5. QED
    BY <2>1, <2>3, <2>4
<1>3. DoneIsTried' /\ StandingIsPassed' /\ \A e \in flying' : e[2] = Len(rows'[e[1]])
  BY DEF DoneIsTried, StandingIsPassed, Hears, Live, Swept
<1>4. QED
  BY Zenon, <1>1, <1>2, <1>3 DEF LackSound

-----------------------------------------------------------------------------
(* The run: what its updates do to what it hears. *)

\* The run goes on or ends, as far as it can be told from what it was.
Onward ==
  /\ Live' => Live
  /\ runner'.registered => runner.registered
  /\ Hears' => Hears /\ \A s \in Stages : AtOrBehind(s) => AtOrBehind(s)'

LEMMA SameGoesOn ==
  ASSUME runner \in Runners, Same(runner', runner), runner'.registered = runner.registered,
         Live' => Live, Hears' => Hears
  PROVE  Onward /\ runner'.done = runner.done
BY DEF Onward, Same, AtOrBehind

LEMMA NobodyGoesOn ==
  ASSUME runner' = NoRunner
  PROVE  Onward /\ ~runner'.registered /\ runner'.done = {}
BY NobodyRuns DEF Onward, NoRunner, Hears, Live

LEMMA UnchangedGoesOn ==
  ASSUME runner' = runner
  PROVE  Onward /\ runner'.done = runner.done
BY DEF Onward, AtOrBehind, Hears, Live, Finished

LEMMA InterruptedGoesOn ==
  ASSUME runner \in Runners, runner' = Interrupted
  PROVE  Onward /\ runner'.done = runner.done
<1>1. CASE runner.registered
  <2>1. runner' = [runner EXCEPT !.interrupted = TRUE, !.grace = TRUE]
    BY <1>1 DEF Interrupted
  <2>2. /\ runner'.registered = runner.registered /\ runner'.done = runner.done /\ runner'.at = runner.at
        /\ runner'.failed = runner.failed /\ runner'.expired = runner.expired /\ runner'.deaf = runner.deaf
    BY <2>1 DEF Runners
  <2>3. QED
    BY <2>2 DEF Onward, AtOrBehind, Hears, Live, Finished
<1>2. CASE ~runner.registered
  BY <1>2, UnchangedGoesOn DEF Interrupted
<1>3. QED
  BY <1>1, <1>2

LEMMA FailedGoesOn ==
  ASSUME runner \in Runners, runner' = [runner EXCEPT !.failed = TRUE]
  PROVE  Onward /\ runner'.done = runner.done
BY DEF Runners, Onward, AtOrBehind, Hears, Live, Finished

LEMMA ExpiredGoesOn ==
  ASSUME runner \in Runners, runner' = [runner EXCEPT !.expired = TRUE], Live
  PROVE  Onward /\ runner'.done = runner.done
BY DEF Runners, Onward, AtOrBehind, Hears, Live, Finished

LEMMA DeafGoesOn ==
  ASSUME runner \in Runners, runner' = [runner EXCEPT !.deaf = TRUE]
  PROVE  Onward /\ runner'.done = runner.done
BY DEF Runners, Onward, AtOrBehind, Hears, Live, Finished

\* The stage it is at is done.
LEMMA DoneGoesOn ==
  ASSUME Hears, runner'.registered = runner.registered,
         runner'.done = runner.done \cup {runner.at}, runner'.at = 0
  PROVE  Onward
BY DEF Onward, AtOrBehind, Hears, Live

-----------------------------------------------------------------------------
(* One lemma per action. *)

\* A step of the kinds above, while nothing has been asked for.
LEMMA MildKeeps ==
  ASSUME LifeInv, PauseInv, WorkIsBehind, Settled, Mild, Fewer, Grows, Onward,
         finals' = "none" => finals = "none", missing' \subseteq missing,
         finals' = "none" /\ missing' # {} => ~keys', Lack' => Lack,
         migration'.pc # "idle" => migration.pc # "idle" /\ migration'.from = migration.from,
         migration'.saved = {},
         Lack => \A t \in runner'.done :
           \/ t \in runner.done
           \/ t \in ApprovedGates'
           \/ t \in Stages \ (Gates \cup Keyed) /\ LastIn(t, Tried)
  PROVE  PauseInv' /\ WorkIsBehind'
<1>1. FlyingIsNotWaiting /\ PausesWait /\ LackSound
  BY Zenon DEF PauseInv
<1>2. ApprovedGates \subseteq ApprovedGates'
  BY AnswersStay
<1>3. FlyingIsNotWaiting' /\ PausesWait'
  BY <1>1, <1>2, PausesStay DEF Onward
<1>4. LackSound'
  BY <1>1, <1>2, LackStays DEF Onward
<1>5. WorkIsBehind'
  BY NothingIsDue, BehindStays DEF Onward
<1>6. QED
  BY Zenon, <1>3, <1>4, <1>5 DEF PauseInv

LEMMA SecretsStay ==
  ASSUME PausesWait, finals' = finals, keys' = keys, missing' \subseteq missing
  PROVE  /\ finals' = "none" => finals = "none"
         /\ finals' = "none" /\ missing' # {} => ~keys'
         /\ Lack' => Lack
<1>1. missing' # {} => missing # {}
  OBVIOUS
<1>2. QED
  BY Zenon, <1>1 DEF PausesWait, Lack

LEMMA MigrationStays ==
  ASSUME PausesWait, migration' = migration \/ migration' = NoMigration
  PROVE  /\ migration'.pc # "idle" => migration.pc # "idle" /\ migration'.from = migration.from
         /\ migration'.saved = {}
BY DEF PausesWait, NoMigration

LEMMA Parts ==
  ASSUME PauseInv
  PROVE  FlyingIsNotWaiting /\ PausesWait /\ LackSound
BY Zenon DEF PauseInv

LEMMA DeliverBehind ==
  ASSUME LifeInv, PauseInv, WorkIsBehind, Settled, NEW e \in flying, Deliver(e)
  PROVE  PauseInv' /\ WorkIsBehind'
<1>1. /\ UNCHANGED <<rows, questions, missing, finals, rerun, server, migration, events>>
      /\ flying' = (flying \ {e}) \cup {<<e[1], e[2], TRUE>>} /\ rows[e[1]][e[2]] = "running"
  BY Zenon DEF Deliver, db
<1>2. keys' = keys
  BY Zenon DEF Deliver, db
<1>3. Mild /\ Grows
  BY <1>1, MildSame, DatabaseStays
<1>4. Fewer
  <2> DEFINE d == <<e[1], e[2], TRUE>>
  <2>1. d[1] = e[1] /\ d[2] = e[2] /\ flying' = (flying \ {e}) \cup {d}
    BY <1>1
  <2> HIDE DEF d
  <2>2. QED
    BY <2>1 DEF Fewer
<1>5. e[1] \in Stages \ Gates /\ e[2] \in DOMAIN rows[e[1]] /\ e[1] # 0
  BY Facts DEF Flying, Stages
<1>6. CASE Current(e)
  <2>1. Hears /\ runner.at = e[1] /\ runner' = DoneRun(runner, e[1])
    BY <1>6 DEF Deliver, Current, DoneRun
  <2>2. runner'.done = runner.done \cup {e[1]} /\ runner'.at = 0
    BY <1>5, <2>1, Facts, DoneWith
  <2>3. runner'.registered = runner.registered
    BY <2>1, Facts DEF DoneRun, Runners
  <2>4. Onward
    BY <2>1, <2>2, <2>3, DoneGoesOn
  <2>5. Lack => e[1] \in Stages \ (Gates \cup Keyed) /\ LastIn(e[1], Tried)
    <3>1. SUFFICES ASSUME Lack
                   PROVE  e[1] \in Stages \ (Gates \cup Keyed) /\ LastIn(e[1], Tried)
      OBVIOUS
    <3>2. e[2] = Len(rows[e[1]]) /\ \A K \in Keyed : Pristine(K)
      BY <3>1, Parts DEF LackSound
    <3>3. Len(rows[e[1]]) \in Nat /\ DOMAIN rows[e[1]] = 1..Len(rows[e[1]])
      BY <1>5, Facts, RowsAre
    <3>4. LastIn(e[1], Tried)
      BY <1>1, <1>5, <3>2, <3>3 DEF LastIn, Tried
    <3>5. e[1] \notin Keyed
      BY <1>5, <3>2 DEF Pristine, Stages
    <3>6. QED
      BY <1>5, <3>4, <3>5
  <2>6. QED
    BY <1>1, <1>2, <1>3, <1>4, <2>2, <2>4, <2>5, Parts, SecretsStay, MigrationStays, MildKeeps
<1>7. CASE ~Current(e)
  <2>1. runner' = runner
    BY Zenon, <1>7 DEF Deliver
  <2>2. Onward /\ runner'.done = runner.done
    BY <2>1, UnchangedGoesOn
  <2>3. QED
    BY <1>1, <1>2, <1>3, <1>4, <2>2, Parts, SecretsStay, MigrationStays, MildKeeps
<1>8. QED
  BY <1>6, <1>7

LEMMA ReturnBehind ==
  ASSUME LifeInv, PauseInv, WorkIsBehind, Settled, NEW e \in flying, NEW st \in {"success", "error"}, Return(e, st)
  PROVE  PauseInv' /\ WorkIsBehind'
<1>1. UNCHANGED <<questions, missing, finals, rerun, server, migration, events>>
      /\ flying' = flying \ {e} /\ rows' = WithStatus(e[1], e[2], st)
  BY Zenon DEF Return, WithStatus
<1>2. keys' = keys
  BY Zenon DEF Return
<1>3. e[1] \in Stages \ Gates /\ e[2] \in DOMAIN rows[e[1]] /\ st \in Statuses /\ rows \in RowsType
  BY Facts DEF Flying, Statuses
<1>4. /\ Restated(rows') /\ \A t \in Stages \ {e[1]} : rows'[t] = rows[t]
      /\ \A q \in DOMAIN rows[e[1]] : q # e[2] => rows'[e[1]][q] = rows[e[1]][q]
      /\ rows'[e[1]][e[2]] = st
  BY <1>1, <1>3, NewStatus
<1>5. rows[e[1]][e[2]] # "secret_pending"
  BY Parts DEF FlyingIsNotWaiting
<1>6. Mild
  BY <1>4, <1>5 DEF Mild
<1>7. Fewer
  BY <1>1 DEF Fewer
<1>8. Grows
  <2>1. Reanswered(questions')
    BY <1>1, Facts, QuestionsStay
  <2>2. Quiet
    BY <1>3, <1>4, <2>1, GateStage DEF Quiet
  <2>3. QED
    BY <2>2, QuietStays
<1>9. Onward /\ runner'.done = runner.done
  <2>1. runner' = [runner EXCEPT !.failed = TRUE] \/ runner' = runner
    BY Zenon DEF Return
  <2>2. QED
    BY <2>1, Facts, FailedGoesOn, UnchangedGoesOn
<1>10. QED
  BY <1>1, <1>2, <1>6, <1>7, <1>8, <1>9, Parts, SecretsStay, MigrationStays, MildKeeps

\* Steps that only change what the run hears.
LEMMA RunnerBehind ==
  ASSUME LifeInv, PauseInv, WorkIsBehind, Settled, UNCHANGED <<rows, questions, missing, finals>>,
         keys' = keys, migration' = migration \/ migration' = NoMigration,
         flying' = flying \/ flying' = {}, Onward, runner'.done = runner.done \/ runner'.done = {}
  PROVE  PauseInv' /\ WorkIsBehind'
<1>1. Mild /\ Grows /\ Fewer
  BY MildSame, DatabaseStays DEF Fewer
<1>2. QED
  BY <1>1, Parts, SecretsStay, MigrationStays, MildKeeps

LEMMA TimersBehind ==
  ASSUME LifeInv, PauseInv, WorkIsBehind, Settled, Timeout \/ GraceExpires
  PROVE  PauseInv' /\ WorkIsBehind'
<1>1. UNCHANGED <<rows, questions, missing, finals>> /\ migration' = migration /\ flying' = flying
  BY Zenon DEF Timeout, GraceExpires, db
<1>2. keys' = keys
  BY Zenon DEF Timeout, GraceExpires, db
<1>3. Onward /\ runner'.done = runner.done
  BY Facts, ExpiredGoesOn, DeafGoesOn DEF Timeout, GraceExpires
<1>4. QED
  BY <1>1, <1>2, <1>3, RunnerBehind

LEMMA FinishBehind ==
  ASSUME LifeInv, PauseInv, WorkIsBehind, Settled, Finish
  PROVE  PauseInv' /\ WorkIsBehind'
<1>1. UNCHANGED <<rows, questions, missing, rerun, server, flying, migration, events>>
      /\ runner' = NoRunner /\ finals' = Recorded
  BY Zenon DEF Finish
<1>2. Onward /\ runner'.done = {}
  BY <1>1, NobodyGoesOn
<1>3. CASE runner.paused
  <2>1. keys' = keys
    BY Zenon, <1>3, Facts DEF Finish, KeysAfterRun, KeysType
  <2>2. finals' = finals
    BY <1>1, <1>3 DEF Recorded
  <2>3. QED
    BY <1>1, <1>2, <2>1, <2>2, RunnerBehind
<1>4. CASE ~runner.paused
  <2>1. finals' # "none"
    BY <1>1, <1>4 DEF Recorded, Classified
  <2>2. Mild /\ Grows /\ Fewer
    BY <1>1, MildSame, DatabaseStays DEF Fewer
  <2>3. ~Lack'
    BY <2>1 DEF Lack
  <2>4. QED
    BY <1>1, <1>2, <2>1, <2>2, <2>3, Parts, MigrationStays, MildKeeps
<1>5. QED
  BY <1>3, <1>4

LEMMA CancelBehind ==
  ASSUME LifeInv, PauseInv, WorkIsBehind, Settled, Cancel
  PROVE  PauseInv' /\ WorkIsBehind'
<1>1. /\ UNCHANGED <<rows, rerun, server, flying, migration, events>>
      /\ finals' = "cancelled" /\ questions' = ClosedIn(Gates) /\ missing' = {} /\ runner' = Interrupted
  BY Zenon DEF Cancel
<1>2. Onward /\ runner'.done = runner.done
  BY <1>1, Facts, InterruptedGoesOn
<1>3. Mild /\ Fewer
  BY <1>1, MildSame DEF Fewer
<1>4. Grows
  BY <1>1, ClosedIsQuiet, QuietStays
<1>5. ~Lack' /\ finals' # "none"
  BY <1>1 DEF Lack
<1>6. QED
  BY <1>1, <1>2, <1>3, <1>4, <1>5, Parts, MigrationStays, MildKeeps

LEMMA CrashBehind ==
  ASSUME LifeInv, PauseInv, WorkIsBehind, Settled, Crash \/ StopBegins
  PROVE  PauseInv' /\ WorkIsBehind'
<1>1. UNCHANGED <<rows, questions, missing, finals>>
  BY Zenon DEF Crash, StopBegins, db
<1>2. keys' = keys
  BY Zenon DEF Crash, StopBegins, db
<1>3. CASE Crash
  <2>1. runner' = NoRunner /\ flying' = {} /\ migration' = NoMigration
    BY Zenon, <1>3 DEF Crash, Wiped
  <2>2. Onward /\ runner'.done = {}
    BY <2>1, NobodyGoesOn
  <2>3. QED
    BY <1>1, <1>2, <2>1, <2>2, RunnerBehind
<1>4. CASE StopBegins
  <2>1. runner' = Interrupted /\ flying' = flying /\ migration' = migration
    BY Zenon, <1>4 DEF StopBegins
  <2>2. Onward /\ runner'.done = runner.done
    BY <2>1, Facts, InterruptedGoesOn
  <2>3. QED
    BY <1>1, <1>2, <2>1, <2>2, RunnerBehind
<1>5. QED
  BY <1>3, <1>4

\* An answer that approves, heard or not.
LEMMA AnsweredIsMild ==
  ASSUME LifeInv, NEW g \in Gates, NEW k \in DOMAIN questions[g], NEW a \in {"approved", "rejected"},
         Answered(g, k, a)
  PROVE  /\ Mild /\ Grows /\ missing' = missing /\ finals' = finals /\ keys' = keys
         /\ a = "approved" => g \in ApprovedGates'
         /\ a = "rejected" => ~LeftAlone'
<1>1. Quiet /\ questions'[g][k] = a /\ k \in DOMAIN questions'[g]
  BY AnsweredStep
<1>2. rows \in RowsType /\ questions \in QuestionsType /\ AnswersSound
  BY Facts
<1>3. k \in DOMAIN rows[g] /\ g \in Stages
  BY <1>2, GateStage, RowsAre, QuestionsAre DEF AnswersSound
<1> DEFINE st == IF rows[g][k] = "running" THEN "success" ELSE rows[g][k]
<1>4. st \in Statuses
  BY <1>2, <1>3, RowsAre DEF Statuses
<1>5. rows' = WithStatus(g, k, st)
  BY DEF Answered, WithStatus
<1>6. st = rows[g][k] \/ (st = "success" /\ rows[g][k] = "running")
  OBVIOUS
<1> HIDE DEF st
<1>7. /\ Restated(rows')
      /\ \A t \in Stages \ {g} : rows'[t] = rows[t]
      /\ \A q \in DOMAIN rows[g] : q # k => rows'[g][q] = rows[g][q]
      /\ rows'[g][k] = st
  BY <1>2, <1>3, <1>4, <1>5, NewStatus
<1>8. Mild
  BY <1>6, <1>7 DEF Mild
<1>9. missing' = missing /\ finals' = finals /\ keys' = keys
  BY Zenon DEF Answered
<1>10. a = "approved" => g \in ApprovedGates'
  BY <1>1 DEF ApprovedGates, HasAnswer
<1>11. a = "rejected" => ~LeftAlone'
  BY <1>1 DEF LeftAlone, HasAnswer
<1>12. QED
  BY <1>1, <1>8, <1>9, <1>10, <1>11, QuietStays

LEMMA ApproveBehind ==
  ASSUME LifeInv, PauseInv, WorkIsBehind, Settled,
         NEW g \in Gates, NEW k \in DOMAIN questions[g], Approve(g, k)
  PROVE  PauseInv' /\ WorkIsBehind'
<1>1. Answered(g, k, "approved") /\ UNCHANGED <<server, flying, migration, events>>
  BY Zenon DEF Approve
<1>2. Mild /\ Grows /\ missing' = missing /\ finals' = finals /\ keys' = keys /\ g \in ApprovedGates'
  BY <1>1, AnsweredIsMild
<1>3. Fewer
  BY <1>1 DEF Fewer
<1>4. CASE Hears /\ runner.at = g
  <2>1. runner' = ResetTo(runner, runner.done \cup {g}, runner.allowed \cup {g + 1})
    BY <1>4 DEF Approve, ResetTo
  <2>2. runner'.done = runner.done \cup {g} /\ runner'.at = 0
    BY <2>1, Facts, ApprovedRunner, ResetRunner
  <2>3. runner'.registered = runner.registered
    BY <2>1, Facts DEF ResetTo, Runners
  <2>4. Onward
    BY <1>4, <2>2, <2>3, DoneGoesOn
  <2>5. QED
    BY <1>1, <1>2, <1>3, <2>2, <2>4, Parts, SecretsStay, MigrationStays, MildKeeps
<1>5. CASE ~(Hears /\ runner.at = g)
  <2>1. runner' = runner
    BY Zenon, <1>5 DEF Approve
  <2>2. Onward /\ runner'.done = runner.done
    BY <2>1, UnchangedGoesOn
  <2>3. QED
    BY <1>1, <1>2, <1>3, <2>2, Parts, SecretsStay, MigrationStays, MildKeeps
<1>6. QED
  BY <1>4, <1>5

LEMMA AnswerUnheardBehind ==
  ASSUME LifeInv, PauseInv, WorkIsBehind, Settled, LeftAlone',
         NEW g \in Gates, NEW k \in DOMAIN questions[g], AnswerUnheard(g, k)
  PROVE  PauseInv' /\ WorkIsBehind'
<1>1. Answered(g, k, "approved") \/ Answered(g, k, "rejected")
  BY Zenon DEF AnswerUnheard
<1>2. Mild /\ Grows /\ missing' = missing /\ finals' = finals /\ keys' = keys
  BY <1>1, AnsweredIsMild
<1>3. runner' = NoRunner /\ flying' = {} /\ migration' = NoMigration
  BY Zenon DEF AnswerUnheard, Wiped
<1>4. Fewer /\ Onward /\ runner'.done = {}
  BY <1>3, NobodyGoesOn DEF Fewer
<1>5. QED
  BY <1>2, <1>3, <1>4, Parts, SecretsStay, MigrationStays, MildKeeps

\* The retry of the keyed stage supersedes nothing: it has only waited.
LEMMA NothingToSupersede ==
  ASSUME LifeInv, NEW K, Waiting(K), Supersede(K)
  PROVE  Mild /\ Grows /\ migration'.saved = {} /\ migration'.from = K
<1>1. K \in Stages /\ Pristine(K) /\ rows \in RowsType
  BY Facts DEF Waiting
<1>2. \A s \in Stages : Len(rows[s]) \in Nat /\ DOMAIN rows[s] = 1..Len(rows[s])
  BY <1>1, RowsAre
<1>3. ASSUME NEW s \in Stages, NEW k \in DOMAIN rows[s], s >= K
      PROVE  rows[s][k] \notin SupersededStatuses
  <2>1. CASE s = K
    BY <1>1, <2>1 DEF Pristine, SupersededStatuses
  <2>2. CASE s # K
    BY <1>1, <1>2, <1>3, <2>2 DEF Pristine, Stages
  <2>3. QED
    BY <2>1, <2>2
<1>4. rows' = Marked(rows, K..N, SupersededStatuses, "superseded")
  BY DEF Supersede
<1>5. Restated(rows')
  BY <1>1, <1>4, MarkedAttempts DEF Statuses
<1>6. ASSUME NEW s \in Stages, NEW k \in DOMAIN rows[s]
      PROVE  rows'[s][k] = rows[s][k]
  <2>1. s \in K..N => s >= K
    BY <1>1 DEF Stages
  <2>2. QED
    BY <1>3, <1>4, <2>1 DEF Marked
<1>7. Mild
  BY <1>5, <1>6 DEF Mild
<1>8. Grows
  <2>1. Quiet
    BY <1>1, SupersedeStep DEF Stages
  <2>2. QED
    BY <2>1, QuietStays
<1>9. migration'.saved = {} /\ migration'.from = K
  <2>1. migration' = [pc |-> "starting", from |-> K,
                      saved |-> {c \in Attempts : c[1] >= K /\ c[3] \in SupersededStatuses}]
    BY DEF Supersede
  <2>2. \A c \in Attempts : ~(c[1] >= K /\ c[3] \in SupersededStatuses)
    BY <1>3 DEF Attempts
  <2>3. QED
    BY <2>1, <2>2
<1>10. QED
  BY <1>7, <1>8, <1>9

LEMMA TerminatedBehind ==
  ASSUME LifeInv, PauseInv, WorkIsBehind, Settled, Terminated
  PROVE  PauseInv' /\ WorkIsBehind'
<1>1. /\ migration.pc = "waiting" /\ Supersede(migration.from)
      /\ UNCHANGED <<missing, finals, server, runner, flying, events>>
  BY Zenon DEF Terminated
<1>2. keys' = keys
  BY Zenon DEF Terminated
<1>3. Waiting(migration.from)
  BY <1>1, Parts DEF PausesWait
<1>4. Mild /\ Grows /\ migration'.saved = {} /\ migration'.from = migration.from
  BY <1>1, <1>3, NothingToSupersede
<1>5. Fewer /\ Onward /\ runner'.done = runner.done
  BY <1>1, UnchangedGoesOn DEF Fewer
<1>6. QED
  BY <1>1, <1>2, <1>4, <1>5, Parts, SecretsStay, MildKeeps

LEMMA WaitTimesOutBehind ==
  ASSUME PauseInv
  PROVE  ~WaitTimesOut
BY Parts DEF WaitTimesOut, PausesWait, Waiting

\* The key is there, and the stage that waited for it is retried.
LEMMA ProvideSecretsBehind ==
  ASSUME LifeInv, PauseInv, WorkIsBehind, Settled, ProvideSecrets
  PROVE  PauseInv' /\ WorkIsBehind'
<1>1. missing # {} /\ missing' = {} /\ UNCHANGED <<finals, server, flying, events>>
  BY Zenon DEF ProvideSecrets
<1>2. ~Lack'
  BY Zenon DEF ProvideSecrets, Lack
<1>3. Fewer
  BY <1>1 DEF Fewer
<1>4. CASE finals = "none" /\ migration.pc = "idle"
  <2>1. PICK s \in missing : Begin(s)
    BY Zenon, <1>4 DEF ProvideSecrets
  <2>2. Waiting(s) /\ s \in Stages
    BY <1>4, Facts, Parts DEF PausesWait
  <2>3. /\ Mild /\ Grows /\ migration'.saved = {} /\ migration'.from = s
        /\ Onward /\ runner'.done = runner.done
    <3>1. CASE Busy
      <4>1. runner' = Interrupted /\ UNCHANGED <<rows, questions>>
            /\ migration' = [NoMigration EXCEPT !.pc = "waiting", !.from = s]
        BY Zenon, <3>1, <2>1 DEF Begin
      <4>2. migration'.saved = {} /\ migration'.from = s
        BY <4>1 DEF NoMigration
      <4>3. QED
        BY <4>1, <4>2, Facts, InterruptedGoesOn, MildSame, DatabaseStays
    <3>2. CASE ~Busy
      <4>1. Supersede(s) /\ runner' = runner
        BY Zenon, <3>2, <2>1 DEF Begin
      <4>2. QED
        BY <2>2, <4>1, NothingToSupersede, UnchangedGoesOn
    <3>3. QED
      BY <3>1, <3>2
  <2>4. FlyingIsNotWaiting' /\ PausesWait'
    <3>1. ApprovedGates \subseteq ApprovedGates'
      BY <2>3, AnswersStay
    <3>2. Waiting(s)'
      <4>1. ~Live'
        BY <2>2, <2>3 DEF Waiting, Onward
      <4>2. QED
        BY <1>3, <2>2, <2>3, <3>1, <4>1, WaitingStays
    <3>3. Waiting(migration.from)'
      BY <2>3, <3>2 DEF Waiting, Pristine, HasRow
    <3>4. FlyingIsNotWaiting'
      BY <1>1, <2>3, Facts, Parts DEF FlyingIsNotWaiting, Mild, Flying
    <3>5. QED
      BY Zenon, <1>1, <2>3, <3>3, <3>4 DEF PausesWait
  <2>5. LackSound'
    BY Zenon, <1>2 DEF LackSound
  <2>6. WorkIsBehind'
    BY <1>3, <2>3, NothingIsDue, BehindStays DEF Onward
  <2>7. QED
    BY Zenon, <2>4, <2>5, <2>6 DEF PauseInv
<1>5. CASE ~(finals = "none" /\ migration.pc = "idle")
  <2>1. UNCHANGED <<rows, questions, rerun, runner, migration>>
    BY Zenon, <1>5 DEF ProvideSecrets
  <2>2. Mild /\ Grows /\ Onward /\ runner'.done = runner.done
    BY <2>1, MildSame, DatabaseStays, UnchangedGoesOn
  <2>3. QED
    BY <1>1, <1>2, <1>3, <2>1, <2>2, Parts, MigrationStays, MildKeeps
<1>6. QED
  BY <1>4, <1>5

\* A run launched while nobody has rejected anything.
LEMMA HydratedAlone ==
  ASSUME LifeInv, LeftAlone, runner' = Hydrated
  PROVE  /\ runner'.done = Succeeded \cup ApprovedGates /\ runner'.at = 0
         /\ runner'.registered /\ ~runner'.failed /\ ~runner'.expired /\ ~runner'.deaf
         /\ \A g \in ApprovedGates : g + 1 \in runner'.allowed
         /\ \A g \in Gates : g \in Succeeded => g \in ApprovedGates
<1> DEFINE done == Succeeded \cup AnsweredGates
           allowed == {g + 1 : g \in {x \in Gates : HasAnswer(x, {"approved"})}}
                      \cup {1 : g \in {x \in Gates : HasAnswer(x, {"rejected"})}}
           skipped == IF 1 \in allowed THEN {g + 1 : g \in Gates \cap done} \ allowed ELSE {}
<1>1. runner' = LaunchedAt(done \cup skipped, allowed)
  BY DEF Hydrated, NoRunner, LaunchedAt
<1>2. AnsweredGates = ApprovedGates
  BY DEF LeftAlone, AnsweredGates, ApprovedGates, HasAnswer
<1>3. 1 \notin allowed
  BY GateStage DEF LeftAlone
<1>4. skipped = {}
  BY <1>3
<1>5. \A g \in ApprovedGates : g + 1 \in allowed
  BY DEF ApprovedGates
<1>6. \A g \in Gates : g \in Succeeded => g \in ApprovedGates
  BY <1>2, SucceededIsAnswered
<1> HIDE DEF done, allowed, skipped
<1>7. /\ runner'.done = done \cup skipped /\ runner'.at = 0 /\ runner'.allowed = allowed
      /\ runner'.registered /\ ~runner'.failed /\ ~runner'.expired /\ ~runner'.deaf
  BY <1>1 DEF LaunchedAt
<1>8. runner'.done = Succeeded \cup ApprovedGates
  BY <1>2, <1>4, <1>7 DEF done
<1>9. QED
  BY <1>5, <1>6, <1>7, <1>8

\* Of the stages up to s, the first the run has not done.
LEMMA FirstUndone ==
  ASSUME NEW s \in Stages, NEW D, s \notin D
  PROVE  \E t \in 1..s : t \in Stages /\ t \notin D /\ 1..(t - 1) \subseteq D
<1> DEFINE T == {x \in 1..s : x \notin D}
<1>1. T \subseteq Nat /\ T # {}
  BY DEF Stages
<1>2. PICK t \in T : \A y \in T : <<y, t>> \notin OpToRel(<, Nat)
  BY <1>1, NatLessThanWellFounded, WFMin
<1>3. \A y \in T : ~(y < t)
  BY <1>1, <1>2 DEF OpToRel
<1>4. \A y \in 1..(t - 1) : y \in 1..s /\ y < t
  BY <1>1 DEF Stages
<1>5. t \in 1..s /\ t \in Stages
  BY DEF Stages
<1>6. QED
  BY <1>3, <1>4, <1>5

\* The stage that got its key is retried over what was done, and what winds up.
LEMMA RelaunchBehind ==
  ASSUME LifeInv, LeftAlone, NEW K, Waiting(K), runner' = Hydrated, UNCHANGED <<rows, flying, questions>>
  PROVE  WorkIsBehind'
<1> SUFFICES ASSUME NEW s \in Stages
             PROVE  /\ HasRow(s, {"success"})' => AtOrBehind(s)'
                    /\ InHand(s)' => AtOrBehind(s)' \/ AboutToOrphan(s)'
  BY Zenon DEF WorkIsBehind
<1>1. /\ runner'.done = Succeeded \cup ApprovedGates /\ runner'.at = 0
      /\ runner'.registered /\ ~runner'.failed /\ ~runner'.expired /\ ~runner'.deaf
      /\ \A g \in ApprovedGates : g + 1 \in runner'.allowed
  BY HydratedAlone
<1>2. /\ K \in Stages /\ K \in Keyed /\ HasRow(K, {"secret_pending"}) /\ Pristine(K)
      /\ \A g \in Gates : g < K => g \in ApprovedGates
      /\ flying = {} \/ \A t \in Stages \ Gates : t < K => LastIn(t, Tried)
  BY DEF Waiting
<1>3. HasRow(s, {"success"})' => AtOrBehind(s)'
  BY <1>1 DEF HasRow, Succeeded, AtOrBehind
<1>4. ASSUME NEW e \in flying, e[1] = s
      PROVE  AtOrBehind(s)' \/ AboutToOrphan(s)'
  <2> SUFFICES ASSUME s \notin runner'.done
               PROVE  AboutToOrphan(s)'
    BY DEF AtOrBehind
  <2>1. s < K
    BY <1>2, <1>4 DEF Pristine
  <2>2. PICK t \in 1..s : t \in Stages /\ t \notin runner'.done /\ 1..(t - 1) \subseteq runner'.done
    BY FirstUndone
  <2>3. t < K
    BY <1>2, <2>1, <2>2 DEF Stages
  <2>4. t \notin Gates
    BY <1>1, <1>2, <2>2, <2>3
  <2>5. LastIn(t, Tried)'
    <3>1. LastIn(t, Tried)
      BY <1>2, <1>4, <2>2, <2>3, <2>4
    <3>2. QED
      BY <3>1 DEF LastIn
  <2>6. Hears'
    BY <1>1, <2>2 DEF Hears, Live, Finished
  <2>7. (t - 1) \in Gates => t \in runner'.allowed
    <3>1. ASSUME (t - 1) \in Gates
          PROVE  t \in runner'.allowed
      <4>1. t - 1 < K /\ (t - 1) + 1 = t
        BY <1>2, <2>2, <2>3 DEF Stages
      <4>2. QED
        BY <1>1, <1>2, <3>1, <4>1
    <3>2. QED
      BY <3>1
  <2>8. Ready(t)'
    BY <1>1, <2>2, <2>6, <2>7 DEF Ready
  <2>9. PausedAfter(s)'
    BY <1>2, <2>1 DEF PausedAfter, HasRow
  <2>10. QED
    BY <2>2, <2>4, <2>5, <2>8, <2>9 DEF AboutToOrphan
<1>5. ASSUME s \in Gates, HasRow(s, {"running"})
      PROVE  AtOrBehind(s)'
  <2>1. s < K
    <3>1. s # K
      BY <1>2, <1>5
    <3>2. ~(s > K)
      <4>1. Len(rows[s]) # 0
        BY <1>5, Facts, RowsAre DEF HasRow
      <4>2. QED
        BY <1>2, <4>1 DEF Pristine
    <3>3. QED
      BY <1>2, <3>1, <3>2 DEF Stages
  <2>2. QED
    BY <1>1, <1>2, <1>5, <2>1 DEF AtOrBehind
<1>6. InHand(s)' => (\E e \in flying : e[1] = s) \/ (s \in Gates /\ HasRow(s, {"running"}))
  BY DEF InHand, HasRow
<1>7. QED
  BY <1>3, <1>4, <1>5, <1>6

LEMMA NothingToRestore ==
  ASSUME LifeInv, rows' = Restored, migration.saved = {}
  PROVE  rows' = rows
<1>1. rows \in RowsType
  BY Facts
<1>2. rows' = [s \in Stages |-> [k \in DOMAIN rows[s] |-> rows[s][k]]]
  BY DEF Restored
<1>3. \A s \in Stages : rows[s] = [k \in DOMAIN rows[s] |-> rows[s][k]]
  BY <1>1, RowsAre
<1>4. QED
  BY <1>1, <1>2, <1>3 DEF RowsType

LEMMA ResumeBehind ==
  ASSUME LifeInv, LeftAlone, PauseInv, WorkIsBehind, Settled, Resume
  PROVE  PauseInv' /\ WorkIsBehind'
<1>1. /\ migration.pc = "starting" /\ migration' = NoMigration
      /\ UNCHANGED <<questions, missing, rerun, server, flying>>
  BY Zenon DEF Resume
<1>2. Waiting(migration.from) /\ ~Lack
  BY <1>1, Parts DEF PausesWait, LackSound
<1>3. Fewer
  BY <1>1 DEF Fewer
<1>4. CASE Launch /\ UNCHANGED <<rows, events>>
  <2>1. rows' = rows
    BY Zenon, <1>4
  <2>2. Mild /\ Grows
    BY <1>1, <2>1, MildSame, DatabaseStays
  <2>3. CASE runner.registered
    <3>1. runner' = runner /\ finals' # "none"
      BY <1>4, <2>3 DEF Launch
    <3>2. Onward /\ runner'.done = runner.done /\ ~Lack'
      BY <3>1, UnchangedGoesOn DEF Lack
    <3>3. QED
      BY <1>1, <1>3, <2>2, <3>1, <3>2, Parts, MigrationStays, MildKeeps
  <2>4. CASE ~runner.registered
    <3>1. runner' = Hydrated /\ finals' = finals
      BY <1>4, <2>4 DEF Launch
    <3>2. keys' = keys
      BY Zenon, <1>4, <2>4 DEF Launch
    <3>3. WorkIsBehind'
      <4>1. PICK K : K = migration.from
        OBVIOUS
      <4>2. Waiting(K)
        BY Zenon, <1>2, <4>1
      <4>3. QED
        BY <1>1, <2>1, <3>1, <4>2, RelaunchBehind
    <3>4. LackSound'
      BY Zenon, <1>2, <3>1, <3>2 DEF LackSound, Lack
    <3>5. ~(finals = "none" /\ missing # {})
      BY Zenon, <1>2, Parts DEF PausesWait, Lack
    <3>6. PausesWait'
      BY <1>1, <3>1, <3>5 DEF PausesWait, NoMigration
    <3>7. FlyingIsNotWaiting'
      BY <1>1, <2>1, Parts DEF FlyingIsNotWaiting
    <3>8. QED
      BY Zenon, <3>3, <3>4, <3>6, <3>7 DEF PauseInv
  <2>5. QED
    BY <2>3, <2>4
<1>5. CASE Count("refusals") /\ rows' = Restored /\ UNCHANGED <<runner, finals, keys>>
  <2>1. rows' = rows
    BY <1>5, Parts, NothingToRestore DEF PausesWait
  <2>2. Mild /\ Grows
    BY <1>1, <2>1, MildSame, DatabaseStays
  <2>3. runner' = runner /\ finals' = finals /\ keys' = keys
    BY Zenon, <1>5
  <2>4. Onward /\ runner'.done = runner.done
    BY <2>3, UnchangedGoesOn
  <2>5. QED
    BY <1>1, <1>3, <2>2, <2>3, <2>4, Parts, SecretsStay, MigrationStays, MildKeeps
<1>6. QED
  BY Zenon, <1>4, <1>5 DEF Resume, Restored

LEMMA StopEndsBehind ==
  ASSUME LifeInv, PauseInv, StopEnds
  PROVE  PauseInv' /\ WorkIsBehind'
<1>1. /\ rows' = Reconciled /\ UNCHANGED <<questions, missing, finals, rerun, events>>
      /\ runner' = NoRunner /\ flying' = {} /\ migration' = NoMigration
  BY Zenon DEF StopEnds, Wiped
<1>2. keys' = keys
  BY Zenon DEF StopEnds
<1>3. Swept /\ Fewer /\ Onward /\ ~runner'.registered
  BY <1>1, SweptSame, NobodyGoesOn DEF Fewer
<1>4. ApprovedGates \subseteq ApprovedGates'
  BY <1>1 DEF ApprovedGates, HasAnswer
<1>5. /\ finals' = "none" => finals = "none"
      /\ finals' = "none" /\ missing' # {} => ~keys'
      /\ Lack' => Lack
      /\ migration'.pc # "idle" => migration.pc # "idle" /\ migration'.from = migration.from
      /\ migration'.saved = {}
  BY <1>1, <1>2, Parts, SecretsStay, MigrationStays
<1>6. FlyingIsNotWaiting' /\ PausesWait'
  BY <1>1, <1>3, <1>4, <1>5, Parts, PausesStay DEF Onward
<1>7. LackSound' /\ WorkIsBehind'
  BY <1>3, <1>4, <1>5, Parts, SweptKeeps
<1>8. QED
  BY Zenon, <1>6, <1>7 DEF PauseInv

\* A boot that launches no run.
LEMMA QuietBoot ==
  ASSUME LifeInv, PauseInv, Swept, Fewer, ~runner.registered, migration.pc = "idle",
         UNCHANGED <<questions, missing, migration, runner>>,
         finals' = "none" => finals' = finals /\ keys' = keys
  PROVE  PauseInv' /\ WorkIsBehind'
<1>1. Onward
  BY UnchangedGoesOn
<1>2. ApprovedGates \subseteq ApprovedGates'
  BY DEF ApprovedGates, HasAnswer
<1>3. /\ finals' = "none" => finals = "none"
      /\ finals' = "none" /\ missing' # {} => ~keys'
      /\ Lack' => Lack
      /\ migration'.pc # "idle" => migration.pc # "idle" /\ migration'.from = migration.from
      /\ migration'.saved = {}
  <2>1. CASE finals' = "none"
    BY <2>1, Parts, SecretsStay, MigrationStays
  <2>2. CASE finals' # "none"
    BY <2>2, Parts, MigrationStays DEF Lack
  <2>3. QED
    BY <2>1, <2>2
<1>4. FlyingIsNotWaiting' /\ PausesWait'
  BY <1>1, <1>2, <1>3, Parts, PausesStay DEF Onward
<1>5. LackSound' /\ WorkIsBehind'
  BY <1>2, <1>3, Parts, SweptKeeps
<1>6. QED
  BY Zenon, <1>4, <1>5 DEF PauseInv

\* A task resumed at boot starts from every success: nothing else still may be one.
LEMMA LaunchingBoot ==
  ASSUME LifeInv, LeftAlone, PauseInv, Swept, flying = {}, runner' = Hydrated,
         \A s \in Stages : \A k \in DOMAIN rows'[s] : rows'[s][k] # "running",
         UNCHANGED <<questions, migration, finals>>, keys' = keys,
         missing' = {}, migration.pc = "idle"
  PROVE  PauseInv' /\ WorkIsBehind'
<1>1. /\ runner'.done = Succeeded \cup ApprovedGates /\ runner'.at = 0
      /\ \A g \in Gates : g \in Succeeded => g \in ApprovedGates
  BY HydratedAlone
<1>2. \A s \in Stages : Len(rows'[s]) = Len(rows[s]) /\ DOMAIN rows'[s] = DOMAIN rows[s]
                        /\ Len(rows[s]) \in Nat /\ DOMAIN rows[s] = 1..Len(rows[s])
  BY Facts, RowsAre DEF Swept, Restated
<1>3. ASSUME NEW s \in Stages, NEW k \in DOMAIN rows'[s], rows'[s][k] = "success"
      PROVE  rows[s][k] = "success" /\ AtOrBehind(s)'
  <2>1. rows[s][k] = "success" /\ k \in DOMAIN rows[s]
    BY <1>2, <1>3 DEF Swept
  <2>2. s \in Succeeded
    BY <2>1 DEF Succeeded, HasRow
  <2>3. QED
    BY <1>1, <2>1, <2>2 DEF AtOrBehind
<1>4. FlyingIsNotWaiting' /\ PausesWait'
  <2>1. flying' = {} /\ migration'.pc = "idle" /\ migration'.saved = {}
    BY Parts DEF Swept, PausesWait
  <2>2. QED
    BY <2>1 DEF FlyingIsNotWaiting, PausesWait
<1>5. WorkIsBehind'
  BY <1>3 DEF WorkIsBehind, HasRow, InHand, Swept
<1>6. LackSound'
  <2> SUFFICES ASSUME Lack'
               PROVE  /\ migration'.pc = "idle"
                      /\ \A K \in Keyed : Pristine(K)' /\ K \notin runner'.done
                      /\ DoneIsTried' /\ OnlyLastStands' /\ StandingIsPassed'
                      /\ \A e \in flying' : e[2] = Len(rows'[e[1]])
    BY Zenon DEF LackSound
  <2>1. /\ migration.pc = "idle" /\ OnlyLastStands /\ \A K \in Keyed : Pristine(K)
    BY Zenon, Parts DEF LackSound, Lack
  <2>2. ASSUME NEW K \in Keyed
        PROVE  Pristine(K)' /\ K \notin runner'.done
    <3>1. Pristine(K) /\ K \in Stages \ Gates
      BY <2>1
    <3>2. Pristine(K)'
      BY <1>2, <3>1 DEF Pristine, Swept
    <3>3. K \notin Succeeded /\ K \notin ApprovedGates
      BY <3>1 DEF Pristine, Succeeded, HasRow, ApprovedGates
    <3>4. QED
      BY <1>1, <3>2, <3>3
  <2>3. OnlyLastStands'
    BY <1>2, <2>1 DEF OnlyLastStands, Swept
  <2>4. DoneIsTried'
    <3> SUFFICES ASSUME NEW t \in runner'.done
                 PROVE  IF t \in Gates THEN t \in ApprovedGates' ELSE LastIn(t, Tried)'
      BY DEF DoneIsTried
    <3>1. ApprovedGates' = ApprovedGates /\ ApprovedGates \subseteq Gates
      BY DEF ApprovedGates, HasAnswer
    <3>2. CASE t \in Gates
      BY <1>1, <3>1, <3>2
    <3>3. CASE t \notin Gates
      <4>1. PICK k \in DOMAIN rows[t] : rows[t][k] = "success"
        BY <1>1, <3>1, <3>3 DEF Succeeded, HasRow
      <4>2. t \in Stages
        BY <1>1, <3>1, <3>3 DEF Succeeded
      <4>3. k = Len(rows[t])
        BY <2>1, <4>1, <4>2 DEF OnlyLastStands
      <4>4. rows'[t][k] = "success" /\ Len(rows'[t]) > 0
        BY <1>2, <4>1, <4>2, <4>3 DEF Swept
      <4>5. QED
        BY <1>2, <3>3, <4>2, <4>3, <4>4 DEF LastIn, Tried
    <3>4. QED
      BY <3>2, <3>3
  <2>5. StandingIsPassed'
    <3>1. ASSUME NEW s \in Stages, LastIn(s, {"running", "success"})'
          PROVE  AtOrBehind(s)'
      <4>1. Len(rows'[s]) \in DOMAIN rows'[s] /\ rows'[s][Len(rows'[s])] \in {"running", "success"}
        BY <1>2, <3>1 DEF LastIn
      <4>2. QED
        BY <1>3, <4>1
    <3>2. QED
      BY <3>1 DEF StandingIsPassed, Swept
  <2>6. QED
    BY <2>1, <2>2, <2>3, <2>4, <2>5 DEF Swept
<1>7. QED
  BY Zenon, <1>4, <1>5, <1>6 DEF PauseInv

LEMMA BootBehind ==
  ASSUME LifeInv, LeftAlone, PauseInv, DownIsEmpty, Boot
  PROVE  PauseInv' /\ WorkIsBehind'
<1>1. server = "down" /\ rows' = Reconciled /\ UNCHANGED <<questions, missing, rerun, flying, migration>>
  BY Zenon DEF Boot
<1>2. flying = {} /\ ~runner.registered /\ migration.pc = "idle"
  BY <1>1 DEF DownIsEmpty
<1>3. Swept /\ Fewer
  BY <1>1, <1>2, SweptSame DEF Fewer
<1>4. CASE UNCHANGED <<runner, finals, keys>>
  <2>1. runner' = runner /\ finals' = finals /\ keys' = keys
    BY Zenon, <1>4
  <2>2. QED
    BY <1>1, <1>2, <1>3, <2>1, QuietBoot
<1>5. CASE finals' = "completed" /\ UNCHANGED runner
  BY <1>1, <1>2, <1>3, <1>5, QuietBoot
<1>6. CASE finals = "none" /\ missing = {} /\ Launch
  <2>1. runner' = Hydrated /\ finals' = finals
    BY <1>2, <1>6 DEF Launch
  <2>2. keys' = keys
    BY Zenon, <1>2, <1>6 DEF Launch
  <2>3. \A s \in Stages : \A k \in DOMAIN rows'[s] : rows'[s][k] # "running"
    BY <1>1, <1>2, <1>6, SweptSame
  <2>4. QED
    BY <1>1, <1>2, <1>3, <1>6, <2>1, <2>2, <2>3, LaunchingBoot
<1>7. QED
  BY Zenon, <1>4, <1>5, <1>6 DEF Boot

\* A new attempt: what it leaves of the others, and of those before it.
LEMMA TriedRows ==
  ASSUME LifeInv, NEW s \in Stages, NEW st \in {"running", "secret_pending"}, rows' = WithAttempt(s, st)
  PROVE  /\ \A t \in Stages \ {s} : rows'[t] = rows[t]
         /\ Len(rows'[s]) = Len(rows[s]) + 1 /\ DOMAIN rows'[s] = 1..(Len(rows[s]) + 1)
         /\ \A k \in DOMAIN rows[s] : rows'[s][k] = rows[s][k]
         /\ rows'[s][Len(rows[s]) + 1] = st
         /\ \A t \in Stages : /\ Len(rows[t]) \in Nat /\ DOMAIN rows[t] = 1..Len(rows[t])
                              /\ DOMAIN rows[t] \subseteq DOMAIN rows'[t] /\ Len(rows[t]) <= Len(rows'[t])
                              /\ \A k \in DOMAIN rows[t] : rows'[t][k] = rows[t][k]
<1>1. rows \in RowsType /\ st \in Statuses
  BY Facts DEF Statuses
<1>2. /\ \A t \in Stages \ {s} : rows'[t] = rows[t]
      /\ Len(rows'[s]) = Len(rows[s]) + 1 /\ DOMAIN rows'[s] = 1..(Len(rows[s]) + 1)
      /\ \A k \in DOMAIN rows[s] : rows'[s][k] = rows[s][k]
      /\ rows'[s][Len(rows[s]) + 1] = st
  BY <1>1, NewAttempt
<1>3. \A t \in Stages : Len(rows[t]) \in Nat /\ DOMAIN rows[t] = 1..Len(rows[t])
  BY <1>1, RowsAre
<1>4. QED
  BY <1>2, <1>3

LEMMA OpenBehind ==
  ASSUME LifeInv, PauseInv, WorkIsBehind, NEW s \in Stages, Open(s)
  PROVE  PauseInv' /\ WorkIsBehind'
<1>1. /\ UNCHANGED <<missing, finals, server, migration, events>>
      /\ rows' = WithAttempt(s, "running") /\ runner' = [runner EXCEPT !.at = s]
      /\ Ready(s) /\ ~Lacking(s)
  BY Zenon DEF Open, WithAttempt
<1>2. keys' = keys
  BY Zenon DEF Open
<1>3. /\ \A t \in Stages \ {s} : rows'[t] = rows[t]
      /\ Len(rows'[s]) = Len(rows[s]) + 1 /\ DOMAIN rows'[s] = 1..(Len(rows[s]) + 1)
      /\ \A k \in DOMAIN rows[s] : rows'[s][k] = rows[s][k]
      /\ rows'[s][Len(rows[s]) + 1] = "running"
      /\ \A t \in Stages : /\ Len(rows[t]) \in Nat /\ DOMAIN rows[t] = 1..Len(rows[t])
                           /\ DOMAIN rows[t] \subseteq DOMAIN rows'[t] /\ Len(rows[t]) <= Len(rows'[t])
                           /\ \A k \in DOMAIN rows[t] : rows'[t][k] = rows[t][k]
  BY <1>1, TriedRows
<1>4. /\ runner'.done = runner.done /\ runner'.at = s /\ runner'.registered = runner.registered
      /\ runner'.failed = runner.failed /\ runner'.expired = runner.expired /\ runner'.deaf = runner.deaf
  <2>1. s \in 0..N
    BY DEF Stages
  <2>2. QED
    BY <1>1, <2>1, Facts DEF Runners
<1>5. /\ Live /\ Hears /\ runner.at = 0 /\ runner.registered
      /\ s \notin runner.done /\ 1..(s - 1) \subseteq runner.done
  BY <1>1 DEF Ready, Hears, Live
<1>6. \A t \in Stages : AtOrBehind(t) <=> t \in runner.done
  BY <1>5 DEF AtOrBehind, Stages
<1>7. \A t \in Stages : AtOrBehind(t)' <=> t \in runner.done \/ t = s
  BY <1>4 DEF AtOrBehind
<1>8. ASSUME NEW e \in flying'
      PROVE  \/ e \in flying /\ e[1] \in Stages /\ e[2] \in DOMAIN rows[e[1]]
             \/ e[1] = s /\ e[2] = Len(rows[s]) + 1 /\ s \notin Gates
  <2>1. flying' = flying \/ (s \notin Gates /\ flying' = flying \cup {<<s, NextAttempt(s), FALSE>>})
    BY Zenon DEF Open
  <2>2. e \in flying \/ (s \notin Gates /\ e = <<s, Len(rows[s]) + 1, FALSE>>)
    BY <2>1 DEF NextAttempt
  <2>3. e \in flying => e[1] \in Stages /\ e[2] \in DOMAIN rows[e[1]]
    BY Facts DEF Flying
  <2>4. e = <<s, Len(rows[s]) + 1, FALSE>> => e[1] = s /\ e[2] = Len(rows[s]) + 1
    OBVIOUS
  <2>5. QED
    BY <2>2, <2>3, <2>4
<1>9. flying \subseteq flying'
  BY DEF Open
<1>10. ApprovedGates \subseteq ApprovedGates'
  <2>1. questions' = questions \/ (s \in Gates /\ questions' = WithQuestion(s))
    BY Zenon DEF Open, WithQuestion
  <2>2. CASE questions' = questions
    BY <2>2 DEF ApprovedGates, HasAnswer
  <2>3. CASE s \in Gates /\ questions' = WithQuestion(s)
    <3>1. questions \in QuestionsType
      BY Facts
    <3>2. /\ \A h \in Gates \ {s} : questions'[h] = questions[h]
          /\ DOMAIN questions'[s] = 1..(Len(questions[s]) + 1)
          /\ \A k \in DOMAIN questions[s] : questions'[s][k] = questions[s][k]
          /\ Len(questions[s]) \in Nat /\ DOMAIN questions[s] = 1..Len(questions[s])
      BY <2>3, <3>1, NewQuestion, QuestionsAre
    <3>3. \A h \in Gates : \A k \in DOMAIN questions[h] :
            k \in DOMAIN questions'[h] /\ questions'[h][k] = questions[h][k]
      BY <2>3, <3>2
    <3>4. QED
      BY <3>3 DEF ApprovedGates, HasAnswer
  <2>4. QED
    BY <2>1, <2>2, <2>3
<1>11. FlyingIsNotWaiting'
  BY <1>3, <1>8, Parts DEF FlyingIsNotWaiting
<1>12. PausesWait'
  <2>1. \A K : ~Waiting(K)
    BY Zenon, <1>5 DEF Waiting
  <2>2. migration.pc = "idle" /\ (finals = "none" => missing = {}) /\ migration.saved = {}
    BY <2>1, Parts DEF PausesWait
  <2>3. QED
    BY <1>1, <2>2 DEF PausesWait
<1>13. LackSound'
  <2> SUFFICES ASSUME Lack'
               PROVE  /\ migration'.pc = "idle"
                      /\ \A K \in Keyed : Pristine(K)' /\ K \notin runner'.done
                      /\ DoneIsTried' /\ OnlyLastStands' /\ StandingIsPassed'
                      /\ \A e \in flying' : e[2] = Len(rows'[e[1]])
    BY Zenon DEF LackSound
  <2>1. Lack
    BY Zenon, <1>1, <1>2 DEF Lack
  <2>2. /\ migration.pc = "idle" /\ DoneIsTried /\ OnlyLastStands /\ StandingIsPassed
        /\ \A K \in Keyed : Pristine(K) /\ K \notin runner.done
        /\ \A e \in flying : e[2] = Len(rows[e[1]])
    BY Zenon, <1>5, <2>1, Parts DEF LackSound
  <2>3. s \notin Keyed
    BY Zenon, <1>1, <2>1 DEF Lacking, Lack
  <2>4. ~LastIn(s, {"running", "success"}) /\ \A e \in flying : e[1] # s
    BY <1>5, <1>6, <2>2 DEF StandingIsPassed
  <2>5. ASSUME NEW K \in Keyed
        PROVE  Pristine(K)' /\ K \notin runner'.done
    <3>1. Pristine(K) /\ K \in Stages /\ K # s /\ K \notin runner.done
      BY <2>2, <2>3
    <3>2. s < K
      BY <1>5, <3>1 DEF Stages
    <3>3. rows'[K] = rows[K] /\ \A u \in Stages : u > K => rows'[u] = rows[u]
      BY <1>3, <3>1, <3>2 DEF Stages
    <3>4. \A e \in flying' : e[1] < K
      BY <1>8, <3>1, <3>2 DEF Pristine
    <3>5. QED
      BY <1>4, <3>1, <3>3, <3>4 DEF Pristine
  <2>6. DoneIsTried'
    <3> SUFFICES ASSUME NEW t \in runner.done
                 PROVE  IF t \in Gates THEN t \in ApprovedGates' ELSE LastIn(t, Tried)'
      BY <1>4 DEF DoneIsTried
    <3>1. t \in Stages /\ rows'[t] = rows[t]
      BY <1>3, <1>5, Facts, RunnerFields
    <3>2. IF t \in Gates THEN t \in ApprovedGates ELSE LastIn(t, Tried)
      BY <1>5, <2>2 DEF DoneIsTried
    <3>3. QED
      BY <1>10, <3>1, <3>2 DEF LastIn
  <2>7. OnlyLastStands'
    <3> SUFFICES ASSUME NEW t \in Stages, NEW k \in DOMAIN rows'[t], k # Len(rows'[t])
                 PROVE  rows'[t][k] \notin {"success", "running"}
      BY DEF OnlyLastStands
    <3>1. CASE t # s
      BY <1>3, <2>2, <3>1 DEF OnlyLastStands
    <3>2. CASE t = s
      <4>1. k \in DOMAIN rows[s] /\ rows'[s][k] = rows[s][k]
        BY <1>3, <3>2
      <4>2. CASE k = Len(rows[s])
        BY <1>3, <2>4, <3>2, <4>1, <4>2 DEF LastIn
      <4>3. CASE k # Len(rows[s])
        BY <2>2, <3>2, <4>1, <4>3 DEF OnlyLastStands
      <4>4. QED
        BY <4>2, <4>3
    <3>3. QED
      BY <3>1, <3>2
  <2>8. StandingIsPassed'
    <3>1. ASSUME NEW t \in Stages, LastIn(t, {"running", "success"})'
          PROVE  AtOrBehind(t)'
      <4>1. CASE t = s
        BY <1>7, <4>1
      <4>2. CASE t # s
        <5>1. LastIn(t, {"running", "success"})
          BY <1>3, <3>1, <4>2 DEF LastIn
        <5>2. QED
          BY <1>5, <1>6, <1>7, <2>2, <5>1 DEF StandingIsPassed
      <4>3. QED
        BY <4>1, <4>2
    <3>2. ASSUME NEW e \in flying'
          PROVE  AtOrBehind(e[1])'
      <4>1. e[1] = s \/ (e \in flying /\ e[1] \in Stages)
        BY <1>8
      <4>2. e \in flying => AtOrBehind(e[1])
        BY <1>5, <2>2 DEF StandingIsPassed
      <4>3. QED
        BY <1>6, <1>7, <4>1, <4>2
    <3>3. QED
      BY <3>1, <3>2 DEF StandingIsPassed
  <2>9. \A e \in flying' : e[2] = Len(rows'[e[1]])
    <3>1. ASSUME NEW e \in flying'
          PROVE  e[2] = Len(rows'[e[1]])
      BY <1>3, <1>8, <2>2, <2>4
    <3>2. QED
      BY <3>1
  <2>10. QED
    BY <1>1, <2>2, <2>5, <2>6, <2>7, <2>8, <2>9
<1>14. WorkIsBehind'
  <2> SUFFICES ASSUME NEW t \in Stages
               PROVE  /\ HasRow(t, {"success"})' => AtOrBehind(t)' \/ Exempt(t)'
                      /\ InHand(t)' => AtOrBehind(t)' \/ Exempt(t)'
    BY Zenon DEF WorkIsBehind
  <2>0. CASE t = s
    BY <1>7, <2>0
  <2> SUFFICES ASSUME t # s
               PROVE  /\ HasRow(t, {"success"})' => AtOrBehind(t)' \/ Exempt(t)'
                      /\ InHand(t)' => AtOrBehind(t)' \/ Exempt(t)'
    BY <2>0
  <2>1. HasRow(t, {"success"})' => HasRow(t, {"success"})
    BY <1>3 DEF HasRow
  <2>2. InHand(t)' => InHand(t)
    BY <1>3, <1>8 DEF InHand, HasRow
  <2>3. AtOrBehind(t) => AtOrBehind(t)'
    BY <1>6, <1>7
  <2>4. PausedAfter(t) => PausedAfter(t)'
    <3>1. \A u \in Stages : HasRow(u, {"secret_pending"}) => HasRow(u, {"secret_pending"})'
      BY <1>3 DEF HasRow
    <3>2. QED
      BY <3>1 DEF PausedAfter
  <2>5. \A u \in Stages : Orphaned(u) => Orphaned(u)'
    BY <1>3 DEF Orphaned
  <2>6. Exempt(t) => Exempt(t)'
    <3>1. \A u \in 1..(t - 1) : u \in Stages
      BY DEF Stages
    <3>2. QED
      BY <2>4, <2>5, <3>1 DEF Exempt
  <2>7. AboutToOrphan(t) => Exempt(t)'
    <3> SUFFICES ASSUME PausedAfter(t), NEW r \in 1..t, Ready(r), LastIn(r, Tried)
                 PROVE  Exempt(t)'
      BY DEF AboutToOrphan
    <3>1. r \in Stages /\ r \notin runner.done /\ 1..(r - 1) \subseteq runner.done
      BY DEF Ready, Stages
    <3>2. r = s
      BY <1>5, <3>1 DEF Stages
    <3>3. s \in 1..(t - 1)
      BY <3>2 DEF Stages
    <3>4. Orphaned(s)'
      <4>1. Len(rows[s]) \in DOMAIN rows[s] /\ rows[s][Len(rows[s])] \in Tried
        BY <1>3, <3>2 DEF LastIn
      <4>2. /\ Len(rows[s]) \in DOMAIN rows'[s] /\ Len(rows[s]) < Len(rows'[s])
            /\ rows'[s][Len(rows[s])] \notin {"superseded", "secret_pending"}
        BY <1>3, <4>1 DEF Tried
      <4>3. QED
        BY <4>2 DEF Orphaned
    <3>5. QED
      BY <2>4, <3>3, <3>4 DEF Exempt
  <2>8. QED
    BY <1>5, <2>1, <2>2, <2>3, <2>6, <2>7 DEF WorkIsBehind
<1>15. QED
  BY Zenon, <1>11, <1>12, <1>13, <1>14 DEF PauseInv

LEMMA PauseBehind ==
  ASSUME LifeInv, PauseInv, NEW s \in Stages, Pause(s)
  PROVE  PauseInv' /\ WorkIsBehind'
<1>1. /\ UNCHANGED <<questions, finals, server, flying, migration, events>>
      /\ rows' = WithAttempt(s, "secret_pending") /\ missing' = missing \cup {s}
      /\ runner' = PausedRun(runner, s) /\ Ready(s) /\ s \in Keyed
  BY Zenon DEF Pause, Lacking, WithAttempt, PausedRun
<1>2. keys' = keys /\ ~keys'
  BY Zenon DEF Pause, Lacking
<1>3. /\ \A t \in Stages \ {s} : rows'[t] = rows[t]
      /\ Len(rows'[s]) = Len(rows[s]) + 1 /\ DOMAIN rows'[s] = 1..(Len(rows[s]) + 1)
      /\ \A k \in DOMAIN rows[s] : rows'[s][k] = rows[s][k]
      /\ rows'[s][Len(rows[s]) + 1] = "secret_pending"
      /\ \A t \in Stages : /\ Len(rows[t]) \in Nat /\ DOMAIN rows[t] = 1..Len(rows[t])
                           /\ DOMAIN rows[t] \subseteq DOMAIN rows'[t] /\ Len(rows[t]) <= Len(rows'[t])
                           /\ \A k \in DOMAIN rows[t] : rows'[t][k] = rows[t][k]
  BY <1>1, TriedRows
<1>4. runner'.done = runner.done /\ runner'.failed
  <2>1. s \in 0..N
    BY DEF Stages
  <2>2. QED
    BY <1>1, <2>1, Facts DEF PausedRun, Runners
<1>5. ~Live' /\ ~Hears'
  BY <1>4 DEF Hears, Live, Finished
<1>6. /\ Live /\ Hears /\ runner.at = 0 /\ runner.registered
      /\ s \notin runner.done /\ 1..(s - 1) \subseteq runner.done
  BY <1>1 DEF Ready, Hears, Live
<1>7. ApprovedGates' = ApprovedGates
  BY <1>1 DEF ApprovedGates, HasAnswer
<1>8. /\ \A K : ~Waiting(K)
      /\ migration.pc = "idle" /\ (finals = "none" => missing = {}) /\ migration.saved = {}
  <2>1. \A K : ~Waiting(K)
    BY Zenon, <1>6 DEF Waiting
  <2>2. QED
    BY <2>1, Parts DEF PausesWait
<1>9. FlyingIsNotWaiting'
  BY <1>1, <1>3, Facts, Parts DEF FlyingIsNotWaiting, Flying
<1>10. WorkIsBehind'
  BY <1>5 DEF WorkIsBehind
<1>11. ASSUME Lack
       PROVE  /\ LackSound' /\ Waiting(s)'
  <2>1. /\ DoneIsTried /\ OnlyLastStands
        /\ \A K \in Keyed : Pristine(K) /\ K \notin runner.done
        /\ \A e \in flying : e[2] = Len(rows[e[1]])
    BY Zenon, <1>6, <1>11, Parts DEF LackSound
  <2>2. ASSUME NEW K \in Keyed
        PROVE  Pristine(K)'
    <3>1. Pristine(K) /\ K \in Stages /\ K \notin runner.done
      BY <2>1
    <3>2. ~(K < s)
      BY <1>6, <3>1 DEF Stages
    <3>3. \A k \in DOMAIN rows'[K] : rows'[K][k] = "secret_pending"
      <4>1. CASE K = s
        BY <1>3, <3>1, <4>1 DEF Pristine
      <4>2. CASE K # s
        BY <1>3, <3>1, <4>2 DEF Pristine
      <4>3. QED
        BY <4>1, <4>2
    <3>4. \A u \in Stages : u > K => rows'[u] = rows[u]
      BY <1>3, <3>1, <3>2 DEF Stages
    <3>5. QED
      BY <1>1, <3>1, <3>3, <3>4 DEF Pristine
  <2>3. ASSUME NEW t \in runner.done
        PROVE  IF t \in Gates THEN t \in ApprovedGates' ELSE LastIn(t, Tried)'
    <3>1. t \in Stages /\ rows'[t] = rows[t]
      BY <1>3, <1>6, Facts, RunnerFields
    <3>2. IF t \in Gates THEN t \in ApprovedGates ELSE LastIn(t, Tried)
      BY <1>6, <2>1 DEF DoneIsTried
    <3>3. QED
      BY <1>7, <3>1, <3>2 DEF LastIn
  <2>4. DoneIsTried'
    BY <1>4, <2>3 DEF DoneIsTried
  <2>5. OnlyLastStands'
    <3> SUFFICES ASSUME NEW t \in Stages, NEW k \in DOMAIN rows'[t], k # Len(rows'[t])
                 PROVE  rows'[t][k] \notin {"success", "running"}
      BY DEF OnlyLastStands
    <3>1. CASE t # s
      BY <1>3, <2>1, <3>1 DEF OnlyLastStands
    <3>2. CASE t = s
      <4>1. k \in DOMAIN rows[s] /\ rows'[s][k] = rows[s][k]
        BY <1>3, <3>2
      <4>2. rows[s][k] = "secret_pending"
        BY <1>1, <2>1, <4>1 DEF Pristine
      <4>3. QED
        BY <3>2, <4>1, <4>2
    <3>3. QED
      BY <3>1, <3>2
  <2>6. \A e \in flying' : e[2] = Len(rows'[e[1]])
    <3>1. ASSUME NEW e \in flying
          PROVE  e[2] = Len(rows'[e[1]])
      <4>1. e[1] \in Stages /\ e[1] # s
        BY <1>1, <2>1, Facts DEF Flying, Pristine, Stages
      <4>2. QED
        BY <1>3, <2>1, <4>1
    <3>2. QED
      BY <1>1, <3>1
  <2>7. LackSound'
    <3>1. migration'.pc = "idle" /\ StandingIsPassed'
      BY <1>1, <1>5, <1>8 DEF StandingIsPassed
    <3>2. \A K \in Keyed : K \notin runner'.done
      BY <1>4, <2>1
    <3>3. QED
      BY Zenon, <2>2, <2>4, <2>5, <2>6, <3>1, <3>2 DEF LackSound
  <2>8. Waiting(s)'
    <3>1. HasRow(s, {"secret_pending"})' /\ Pristine(s)'
      BY <1>1, <1>3, <2>2 DEF HasRow
    <3>2. ASSUME NEW t \in Stages, t < s
          PROVE  t \in runner.done
      BY <1>6, <3>2 DEF Stages
    <3>3. \A g \in Gates : g < s => g \in ApprovedGates'
      BY <2>3, <3>2, GateStage
    <3>4. \A t \in Stages \ Gates : t < s => LastIn(t, Tried)'
      BY <2>3, <3>2
    <3>5. QED
      BY Zenon, <1>1, <1>5, <3>1, <3>3, <3>4 DEF Waiting
  <2>9. QED
    BY <2>7, <2>8
<1>12. finals = "none" => Lack
  BY Zenon, <1>2 DEF Lack
<1>13. Lack' => Lack
  BY Zenon, <1>1, <1>2 DEF Lack
<1>14. LackSound'
  BY Zenon, <1>11, <1>13 DEF LackSound
<1>15. PausesWait'
  <2>1. finals' = "none" => \A K \in missing' : Waiting(K)'
    <3>1. SUFFICES ASSUME finals = "none"
                   PROVE  \A K \in missing' : Waiting(K)'
      BY <1>1
    <3>2. missing' = {s}
      BY <1>1, <1>8, <3>1
    <3>3. \A K \in missing' : K = s
      BY <3>2
    <3>4. QED
      BY <1>11, <1>12, <3>1, <3>3
  <2>2. migration'.pc = "idle" /\ migration'.saved = {}
    BY <1>1, <1>8
  <2>3. QED
    BY Zenon, <1>2, <2>1, <2>2 DEF PausesWait
<1>16. QED
  BY Zenon, <1>9, <1>10, <1>14, <1>15 DEF PauseInv

-----------------------------------------------------------------------------
(* The theorem. *)

\* A server that is down has nothing in its memory.
LEMMA DownStays ==
  ASSUME DownIsEmpty, [Next]_vars
  PROVE  DownIsEmpty'
<1> SUFFICES ASSUME server' = "down"
             PROVE  flying' = {} /\ ~runner'.registered /\ migration'.pc = "idle"
  BY DEF DownIsEmpty
<1>1. CASE Wiped
  BY <1>1 DEF Wiped, NoRunner, NoMigration
<1>2. CASE UNCHANGED <<server, flying, runner, migration>>
  BY <1>2 DEF DownIsEmpty
<1>3. CASE server = "down"
  <2>1. flying = {} /\ ~runner.registered /\ migration.pc = "idle"
    BY <1>3 DEF DownIsEmpty
  <2>2. ~Live /\ ~Hears /\ ~Serving
    BY <1>3, <2>1 DEF Live, Hears, Serving
  <2>3. ~\E s \in Stages : Open(s) \/ Pause(s)
    BY Zenon, <2>2 DEF Open, Pause, Ready
  <2>4. ~RunStep
    BY Zenon, <2>1, <2>2 DEF RunStep, Finish, Timeout, GraceExpires
  <2>5. ~Person
    BY Zenon, <2>2 DEF Person, Approve, Reject, Cancel, ProvideSecrets, Migrate
  <2>6. ~MigrationStep
    BY <2>1 DEF MigrationStep, Terminated, WaitTimesOut, Resume
  <2>7. ~ServerStep \/ Boot
    BY <1>3, <2>2 DEF ServerStep, Sweep, Cancel, Crash, StopBegins, StopEnds, AnswerUnheard
  <2>8. ~Boot
    BY DEF Boot
  <2>9. UNCHANGED vars
    BY Zenon, <2>3, <2>4, <2>5, <2>6, <2>7, <2>8 DEF Next
  <2>10. QED
    BY Zenon, <1>2, <2>9 DEF vars
<1>4. CASE server # "down"
  <2>1. Wiped
    BY Zenon, <1>4 DEF Next, RunStep, Person, MigrationStep, ServerStep, Open, Pause, Deliver, Return, Finish,
       Timeout, GraceExpires, Approve, Reject, Cancel, Sweep, ProvideSecrets, Migrate, Terminated, WaitTimesOut,
       Resume, Crash, StopBegins, StopEnds, Boot, AnswerUnheard, vars
  <2>2. QED
    BY <1>1, <2>1
<1>5. QED
  BY <1>3, <1>4

\* What a step may make of the questions and of the attempts.
LEMMA QuestionsBecome ==
  ASSUME [Next]_vars
  PROVE  \/ questions' = questions
         \/ questions' = ClosedIn(Gates)
         \/ questions' = ClosedIn(migration.from..N)
         \/ \E s \in missing : questions' = ClosedIn(s..N)
         \/ \E s \in Stages : questions' = ClosedIn(s..N)
         \/ \E s \in Gates : questions' = WithQuestion(s)
         \/ \E g \in Gates : \E k \in DOMAIN questions[g] : Answered(g, k, "approved") \/ Answered(g, k, "rejected")
<1>1. \A s : Begin(s) => questions' = questions \/ questions' = ClosedIn(s..N)
  BY Zenon DEF Begin, Supersede
<1>2. RunStep => questions' = questions
  BY Zenon DEF RunStep, Deliver, Return, Finish, Timeout, GraceExpires, db
<1>3. ASSUME Person
      PROVE  \/ questions' = questions \/ questions' = ClosedIn(Gates)
             \/ \E s \in missing : questions' = ClosedIn(s..N)
             \/ \E s \in Stages : questions' = ClosedIn(s..N)
             \/ \E g \in Gates : \E k \in DOMAIN questions[g] : Answered(g, k, "approved") \/ Answered(g, k, "rejected")
  BY Zenon, <1>1, <1>3 DEF Person, Approve, Reject, Cancel, ProvideSecrets, Migrate
<1>4. MigrationStep => questions' = questions \/ questions' = ClosedIn(migration.from..N)
  BY Zenon DEF MigrationStep, Terminated, WaitTimesOut, Resume, Supersede, db
<1>5. ASSUME ServerStep
      PROVE  \/ questions' = questions \/ questions' = ClosedIn(Gates)
             \/ \E g \in Gates : \E k \in DOMAIN questions[g] : Answered(g, k, "approved") \/ Answered(g, k, "rejected")
  BY Zenon, <1>5 DEF ServerStep, Sweep, Cancel, Crash, StopBegins, StopEnds, Boot, AnswerUnheard, db
<1>6. ASSUME NEW s \in Stages, Open(s) \/ Pause(s)
      PROVE  questions' = questions \/ \E g \in Gates : questions' = WithQuestion(g)
  BY Zenon, <1>6 DEF Open, Pause, WithQuestion
<1>7. UNCHANGED vars => questions' = questions
  BY Zenon DEF vars
<1>8. QED
  BY Zenon, <1>2, <1>3, <1>4, <1>5, <1>6, <1>7 DEF Next

LEMMA StillAlone ==
  ASSUME LifeInv, [Next]_vars, LeftAlone'
  PROVE  LeftAlone
<1>1. events'.migrations = 0 => events.migrations = 0
  <2>1. events' = events \/ \E f \in Kinds : Count(f)
    BY Zenon DEF Next, RunStep, Person, MigrationStep, ServerStep, Open, Pause, Deliver, Return, Finish,
       Timeout, GraceExpires, Approve, Reject, Cancel, Sweep, ProvideSecrets, Migrate, Terminated, WaitTimesOut,
       Resume, Crash, StopBegins, StopEnds, Boot, AnswerUnheard, vars, Kinds
  <2>2. ASSUME NEW f \in Kinds, Count(f)
        PROVE  events'.migrations = 0 => events.migrations = 0
    <3>1. /\ events' = [events EXCEPT ![f] = events[f] + 1] /\ events \in [Kinds -> Nat]
          /\ "migrations" \in Kinds
      BY Zenon, <2>2, Facts DEF Count, Kinds
    <3>2. QED
      BY <3>1
  <2>3. QED
    BY <2>1, <2>2
<1>2. ASSUME NEW g \in Gates, NEW k \in DOMAIN questions[g], questions[g][k] = "rejected"
      PROVE  k \in DOMAIN questions'[g] /\ questions'[g][k] = "rejected"
  <2>0. questions \in QuestionsType /\ Said(g, k)
    BY <1>2, Facts DEF Said
  <2>1. \A S : questions' = ClosedIn(S) => k \in DOMAIN questions'[g] /\ questions'[g][k] = "rejected"
    BY <1>2, <2>0, ClosedQuestions DEF Reanswered
  <2>2. ASSUME NEW s \in Gates, questions' = WithQuestion(s)
        PROVE  k \in DOMAIN questions'[g] /\ questions'[g][k] = "rejected"
    <3>1. /\ \A h \in Gates \ {s} : questions'[h] = questions[h]
          /\ DOMAIN questions'[s] = 1..(Len(questions[s]) + 1)
          /\ \A q \in DOMAIN questions[s] : questions'[s][q] = questions[s][q]
          /\ Len(questions[s]) \in Nat /\ DOMAIN questions[s] = 1..Len(questions[s])
      BY <2>0, <2>2, NewQuestion, QuestionsAre
    <3>2. QED
      BY <1>2, <3>1
  <2>3. ASSUME NEW h \in Gates, NEW q \in DOMAIN questions[h], Answered(h, q, "approved") \/ Answered(h, q, "rejected")
        PROVE  k \in DOMAIN questions'[g] /\ questions'[g][k] = "rejected"
    <3>1. Grows
      BY <2>3, AnsweredIsMild
    <3>2. QED
      BY <1>2, <2>0, <3>1 DEF Grows
  <2>4. questions' = questions => k \in DOMAIN questions'[g] /\ questions'[g][k] = "rejected"
    BY <1>2
  <2>5. QED
    BY Zenon, <2>1, <2>2, <2>3, <2>4, QuestionsBecome
<1>3. QED
  BY <1>1, <1>2 DEF LeftAlone, HasAnswer

\* Only a run at its next stage adds an attempt.
LEMMA AttemptsAreOpened ==
  ASSUME LifeInv, [Next]_vars, ~\E s \in Stages : Open(s) \/ Pause(s)
  PROVE  \A s \in Stages : Len(rows'[s]) = Len(rows[s])
<1>1. rows \in RowsType
  BY Facts
<1>2. \A S, from : rows' = Marked(rows, S, from, "superseded") => \A s \in Stages : Len(rows'[s]) = Len(rows[s])
  BY <1>1, MarkedAttempts DEF Statuses, Restated
<1>3. ASSUME NEW s, Begin(s)
      PROVE  \A t \in Stages : Len(rows'[t]) = Len(rows[t])
  <2>1. rows' = rows \/ rows' = Marked(rows, s..N, SupersededStatuses, "superseded")
    BY Zenon, <1>3 DEF Begin, Supersede
  <2>2. QED
    BY <1>2, <2>1
<1>4. ASSUME RunStep
      PROVE  \A t \in Stages : Len(rows'[t]) = Len(rows[t])
  <2>1. rows' = rows \/ \E e \in flying : \E st \in {"success", "error"} : Return(e, st)
    BY Zenon, <1>4 DEF RunStep, Deliver, Finish, Timeout, GraceExpires, db
  <2>2. ASSUME NEW e \in flying, NEW st \in {"success", "error"}, Return(e, st)
        PROVE  \A t \in Stages : Len(rows'[t]) = Len(rows[t])
    <3>1. e[1] \in Stages /\ e[2] \in DOMAIN rows[e[1]] /\ st \in Statuses
      BY Facts DEF Flying, Statuses
    <3>2. rows' = WithStatus(e[1], e[2], st)
      BY <2>2 DEF Return, WithStatus
    <3>3. QED
      BY <1>1, <3>1, <3>2, NewStatus DEF Restated
  <2>3. QED
    BY <2>1, <2>2
<1>5. ASSUME NEW g \in Gates, NEW k \in DOMAIN questions[g], Answered(g, k, "approved") \/ Answered(g, k, "rejected")
      PROVE  \A t \in Stages : Len(rows'[t]) = Len(rows[t])
  BY <1>5, AnsweredIsMild DEF Mild, Restated
<1>6. ASSUME Person
      PROVE  \A t \in Stages : Len(rows'[t]) = Len(rows[t])
  <2>1. \/ rows' = rows \/ \E s : Begin(s)
        \/ \E g \in Gates : \E k \in DOMAIN questions[g] : Answered(g, k, "approved") \/ Answered(g, k, "rejected")
    BY Zenon, <1>6 DEF Person, Approve, Reject, Cancel, ProvideSecrets, Migrate
  <2>2. QED
    BY <1>3, <1>5, <2>1
<1>7. ASSUME MigrationStep
      PROVE  \A t \in Stages : Len(rows'[t]) = Len(rows[t])
  <2>1. \/ rows' = rows \/ (rows' = Restored /\ questions' = questions)
        \/ rows' = Marked(rows, migration.from..N, SupersededStatuses, "superseded")
    BY Zenon, <1>7 DEF MigrationStep, Terminated, WaitTimesOut, Resume, Supersede, Restored, db
  <2>2. CASE rows' = Restored /\ questions' = questions
    BY <2>2, RestoredIsQuiet DEF Quiet, Restated
  <2>3. QED
    BY <1>2, <2>1, <2>2
<1>8. ASSUME ServerStep
      PROVE  \A t \in Stages : Len(rows'[t]) = Len(rows[t])
  <2>1. \/ rows' = rows \/ rows' = Marked(rows, Stages, {"running"}, "superseded")
        \/ \E g \in Gates : \E k \in DOMAIN questions[g] : Answered(g, k, "approved") \/ Answered(g, k, "rejected")
    BY Zenon, <1>8 DEF ServerStep, Sweep, Cancel, Crash, StopBegins, StopEnds, Boot, AnswerUnheard, Reconciled, db
  <2>2. QED
    BY <1>2, <1>5, <2>1
<1>9. UNCHANGED vars => rows' = rows
  BY Zenon DEF vars
<1>10. QED
  BY Zenon, <1>4, <1>6, <1>7, <1>8, <1>9 DEF Next

LEMMA KeptInit == Init => KeptInv
<1> SUFFICES ASSUME Init
             PROVE  KeptInv
  OBVIOUS
<1>1. /\ rows = [s \in Stages |-> <<>>] /\ missing = {} /\ server = "up" /\ flying = {} /\ migration = NoMigration
  BY Zenon DEF Init
<1>2. runner.registered /\ runner.done = {}
  <2>1. runner = LaunchedAt({}, {})
    BY DEF Init, NoRunner, LaunchedAt
  <2>2. QED
    BY <2>1 DEF LaunchedAt
<1>3. \A s \in Stages : Len(rows[s]) = 0 /\ DOMAIN rows[s] = {}
  BY <1>1
<1>4. DownIsEmpty
  BY <1>1 DEF DownIsEmpty
<1>5. FlyingIsNotWaiting /\ PausesWait
  BY <1>1 DEF FlyingIsNotWaiting, PausesWait, NoMigration
<1>6. LackSound
  <2>1. \A K \in Keyed : Pristine(K)
    BY <1>1, <1>3 DEF Pristine
  <2>2. DoneIsTried /\ OnlyLastStands /\ StandingIsPassed
    BY <1>1, <1>2, <1>3 DEF DoneIsTried, OnlyLastStands, StandingIsPassed, LastIn
  <2>3. QED
    BY <1>1, <1>2, <2>1, <2>2 DEF LackSound, NoMigration
<1>7. WorkIsBehind
  BY <1>1, <1>3, GateStage DEF WorkIsBehind, InHand, HasRow
<1>8. QED
  BY Zenon, <1>4, <1>5, <1>6, <1>7 DEF KeptInv, PauseInv

LEMMA KeptStep ==
  ASSUME LifeInv, KeptInv, [Next]_vars
  PROVE  KeptInv'
<1>1. DownIsEmpty'
  BY Zenon, DownStays DEF KeptInv
<1>2. ASSUME LeftAlone'
      PROVE  PauseInv' /\ WorkIsBehind'
  <2>1. LeftAlone /\ PauseInv /\ WorkIsBehind /\ DownIsEmpty
    BY Zenon, <1>2, StillAlone DEF KeptInv
  <2>2. CASE UNCHANGED vars
    <3>1. /\ UNCHANGED <<rows, questions, missing, finals, server, runner, flying, migration, events>>
          /\ keys' = keys
      BY Zenon, <2>2 DEF vars
    <3>2. Onward /\ runner'.done = runner.done
      BY <3>1, UnchangedGoesOn
    <3>3. Mild /\ Grows /\ Fewer
      BY <3>1, MildSame, DatabaseStays DEF Fewer
    <3>4. FlyingIsNotWaiting' /\ PausesWait' /\ LackSound'
      <4>1. ApprovedGates \subseteq ApprovedGates'
        BY <3>3, AnswersStay
      <4>2. FlyingIsNotWaiting' /\ PausesWait'
        BY <2>1, <3>1, <3>2, <3>3, <4>1, Parts, SecretsStay, MigrationStays, PausesStay DEF Onward
      <4>3. LackSound'
        BY <2>1, <3>1, <3>2, <3>3, <4>1, Parts, SecretsStay, LackStays DEF Onward
      <4>4. QED
        BY <4>2, <4>3
    <3>5. ASSUME NEW t \in Stages
          PROVE  Ready(t) => Ready(t)'
      BY <3>1 DEF Ready, Hears, Live, Finished
    <3>6. ASSUME NEW s \in Stages
          PROVE  AboutToOrphan(s) => AboutToOrphan(s)'
      <4>1. \A t \in 1..s : t \in Stages /\ (LastIn(t, Tried) => LastIn(t, Tried)')
        BY <3>1 DEF LastIn, Stages
      <4>2. PausedAfter(s) => PausedAfter(s)'
        BY <3>3, ExemptStays
      <4>3. QED
        BY <3>5, <4>1, <4>2 DEF AboutToOrphan
    <3>7. WorkIsBehind'
      <4>1. \A s \in Stages : AboutToOrphan(s) => rows' = rows /\ AboutToOrphan(s)'
        BY Zenon, <3>1, <3>6
      <4>2. LifeInv /\ WorkIsBehind /\ Mild /\ Fewer
        BY Zenon, <2>1, <3>3
      <4>3. Hears' => Hears /\ \A s \in Stages : AtOrBehind(s) => AtOrBehind(s)'
        BY Zenon, <3>2 DEF Onward
      <4>4. QED
        BY Zenon, <4>1, <4>2, <4>3, BehindStays
    <3>8. QED
      BY Zenon, <3>4, <3>7 DEF PauseInv
  <2>3. CASE \E s \in Stages : Open(s) \/ Pause(s)
    BY Zenon, <2>1, <2>3, OpenBehind, PauseBehind
  <2>4. CASE Settled /\ RunStep
    BY Zenon, <2>1, <2>4, DeliverBehind, ReturnBehind, FinishBehind, TimersBehind DEF RunStep
  <2>5. CASE Settled /\ Person
    <3>1. ASSUME NEW g \in Gates, NEW k \in DOMAIN questions[g]
          PROVE  ~Reject(g, k)
      <4>1. Reject(g, k) => Answered(g, k, "rejected")
        BY Zenon DEF Reject
      <4>2. QED
        BY <1>2, <4>1, AnsweredIsMild
    <3>2. \A s \in Stages : ~Migrate(s)
      <4>1. \A s \in Stages : Migrate(s) => Count("migrations")
        BY Zenon DEF Migrate
      <4>2. ~Count("migrations")
        <5>1. "migrations" \in Kinds /\ events \in [Kinds -> Nat] /\ events'.migrations = 0
          BY <1>2, Facts DEF Kinds, LeftAlone
        <5>2. Count("migrations") => events' = [events EXCEPT !["migrations"] = events["migrations"] + 1]
          BY Zenon DEF Count
        <5>3. QED
          BY <5>1, <5>2
      <4>3. QED
        BY <4>1, <4>2
    <3>3. QED
      BY Zenon, <2>1, <2>5, <3>1, <3>2, ApproveBehind, CancelBehind, ProvideSecretsBehind DEF Person
  <2>6. CASE Settled /\ MigrationStep
    BY Zenon, <2>1, <2>6, TerminatedBehind, WaitTimesOutBehind, ResumeBehind DEF MigrationStep
  <2>7. CASE Settled /\ ServerStep
    BY Zenon, <1>2, <2>1, <2>7, CancelBehind, CrashBehind, StopEndsBehind, BootBehind, AnswerUnheardBehind
       DEF ServerStep, Sweep
  <2>8. QED
    BY Zenon, <2>2, <2>3, <2>4, <2>5, <2>6, <2>7 DEF Next
<1>3. QED
  BY Zenon, <1>1, <1>2 DEF KeptInv

\* As long as nobody asks for work to be redone, what has succeeded is not done again,
\* through any number of crashes, shutdowns, refused launches and pauses for the secret:
\* a resumed run takes every success for done (the hydration of runner.ts), and only the
\* retry after a pause can overtake an executor that is still winding up.
THEOREM LifecycleKeepsWork == Spec => FinishedWorkIsKept
<1> DEFINE A == LeftAlone =>
         \A s \in Stages : Len(rows'[s]) > Len(rows[s]) /\ HasRow(s, {"success"}) =>
           PausedAfter(s) /\ \E t \in 1..(s - 1) : Orphaned(t)
<1>1. LifeInv /\ KeptInv /\ [Next]_vars => [A]_vars
  <2> SUFFICES ASSUME LifeInv, KeptInv, [Next]_vars, LeftAlone,
                      NEW s \in Stages, Len(rows'[s]) > Len(rows[s]), HasRow(s, {"success"})
               PROVE  Exempt(s)
    BY DEF Exempt
  <2>1. WorkIsBehind
    BY Zenon DEF KeptInv
  <2>2. PICK t \in Stages : Open(t) \/ Pause(t)
    <3>1. Len(rows[s]) \in Nat
      BY Facts, RowsAre
    <3>2. QED
      BY <3>1, AttemptsAreOpened
  <2>3. Ready(t)
    BY Zenon, <2>2 DEF Open, Pause
  <2>4. t = s
    <3>1. rows' = WithAttempt(t, "running") \/ rows' = WithAttempt(t, "secret_pending")
      BY Zenon, <2>2 DEF Open, Pause, WithAttempt
    <3>2. \A u \in Stages \ {t} : rows'[u] = rows[u]
      BY <3>1, TriedRows
    <3>3. Len(rows[s]) \in Nat
      BY Facts, RowsAre
    <3>4. QED
      BY <3>2, <3>3
  <2>5. Hears /\ ~AtOrBehind(s)
    BY <2>3, <2>4 DEF Ready, AtOrBehind, Stages
  <2>6. QED
    BY <2>1, <2>5 DEF WorkIsBehind
<1>2. Spec => [](LifeInv /\ KeptInv)
  BY LifeInit, LifeStep, KeptInit, KeptStep, PTL DEF Spec
<1>3. QED
  BY <1>1, <1>2, PTL DEF Spec, FinishedWorkIsKept
=============================================================================
