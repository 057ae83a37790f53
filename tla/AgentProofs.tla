----------------------------- MODULE AgentProofs -----------------------------
(***************************************************************************)
(* The agent executor for any outputs, budgets and number of rounds: an    *)
(* interrupted agent gets one more turn, retries stay silent and are       *)
(* bounded, record and row agree, and the whole of it implements StageCall.*)
(***************************************************************************)
EXTENDS AgentAttempt, TLAPS

-----------------------------------------------------------------------------
(* The machine. *)

\* Nothing was armed at the start, a round in flight when the interrupt came is
\* the last one, and only a machine that ended has come back since.
MachineInv(m) ==
  /\ m \in Machines
  /\ m.at = "starting" => ~m.armed
  /\ m.armed /\ m.at \in {"dispatching", "compacting"} => m.summaryUsed
  /\ m.returns <= 1
  /\ ~Final(m) => m.returns = 0

\* n is a sound machine that knows of no interrupt m does not know of.
Follows(m, n) ==
  /\ MachineInv(n)
  /\ n.armed = m.armed
  /\ n.result = "interrupted" => m.armed \/ m.result = "interrupted"

\* A fresh machine is sound.
LEMMA NewMachineSound == MachineInv(NewMachine) /\ ~NewMachine.armed /\ NewMachine.result = "none"
BY DEF MachineInv, NewMachine, Machines, Final

LEMMA FollowsItself == ASSUME NEW m, MachineInv(m) PROVE Follows(m, m)
BY DEF Follows

LEMMA FollowsTwice ==
  ASSUME NEW m, NEW n, NEW o, Follows(m, n), Follows(n, o) PROVE Follows(m, o)
BY DEF Follows

Places == {"starting", "waiting", "dispatching", "compacting", "done", "error"}
Results == {"none", "success", "error", "interrupted"}

\* What the updates the machine is made of do to its fields.
LEMMA SetAt ==
  ASSUME NEW m \in Machines, NEW x \in Places
  PROVE  /\ [m EXCEPT !.at = x] \in Machines
         /\ [m EXCEPT !.at = x].at = x
         /\ [m EXCEPT !.at = x].pending = m.pending
         /\ [m EXCEPT !.at = x].armed = m.armed
         /\ [m EXCEPT !.at = x].summaryUsed = m.summaryUsed
         /\ [m EXCEPT !.at = x].returns = m.returns
         /\ [m EXCEPT !.at = x].result = m.result
BY DEF Machines, Places, Results

LEMMA SetReturns ==
  ASSUME NEW m \in Machines, NEW x \in Nat
  PROVE  /\ [m EXCEPT !.returns = x] \in Machines
         /\ [m EXCEPT !.returns = x].at = m.at
         /\ [m EXCEPT !.returns = x].pending = m.pending
         /\ [m EXCEPT !.returns = x].armed = m.armed
         /\ [m EXCEPT !.returns = x].summaryUsed = m.summaryUsed
         /\ [m EXCEPT !.returns = x].returns = x
         /\ [m EXCEPT !.returns = x].result = m.result
BY DEF Machines, Places, Results

LEMMA SetResult ==
  ASSUME NEW m \in Machines, NEW x \in Results
  PROVE  /\ [m EXCEPT !.result = x] \in Machines
         /\ [m EXCEPT !.result = x].at = m.at
         /\ [m EXCEPT !.result = x].pending = m.pending
         /\ [m EXCEPT !.result = x].armed = m.armed
         /\ [m EXCEPT !.result = x].summaryUsed = m.summaryUsed
         /\ [m EXCEPT !.result = x].returns = m.returns
         /\ [m EXCEPT !.result = x].result = x
BY DEF Machines, Places, Results

LEMMA SetPending ==
  ASSUME NEW m \in Machines, NEW x \in Nat
  PROVE  /\ [m EXCEPT !.pending = x] \in Machines
         /\ [m EXCEPT !.pending = x].at = m.at
         /\ [m EXCEPT !.pending = x].pending = x
         /\ [m EXCEPT !.pending = x].armed = m.armed
         /\ [m EXCEPT !.pending = x].summaryUsed = m.summaryUsed
         /\ [m EXCEPT !.pending = x].returns = m.returns
         /\ [m EXCEPT !.pending = x].result = m.result
BY DEF Machines, Places, Results

LEMMA FieldTypes ==
  ASSUME NEW m \in Machines
  PROVE  m.pending \in Nat /\ m.returns \in Nat /\ m.at \in Places /\ m.result \in Results
BY DEF Machines, Places, Results

LEMMA PlacesAndResults ==
  /\ "waiting" \in Places /\ "dispatching" \in Places /\ "compacting" \in Places
  /\ "done" \in Places /\ "error" \in Places
  /\ "success" \in Results /\ "error" \in Results /\ "interrupted" \in Results
BY DEF Places, Results

\* Coming back to waiting ends a machine that has used its last round.
LEMMA WaitingFollows ==
  ASSUME NEW m, m \in Machines, ~Final(m), m.returns = 0
  PROVE  (m.armed => m.summaryUsed) => Follows(m, Waiting(m))
<1> DEFINE here == [m EXCEPT !.at = "waiting"]
           back == [here EXCEPT !.returns = m.returns + 1]
           done == [back EXCEPT !.at = "done"]
           over == [done EXCEPT !.result = "interrupted"]
<1>1. /\ here \in Machines /\ here.at = "waiting" /\ here.returns = 0
      /\ here.armed = m.armed /\ here.result = m.result
  BY SetAt, PlacesAndResults
<1>2. m.returns + 1 \in Nat /\ m.returns + 1 <= 1 /\ 0 <= 1
  BY FieldTypes
<1> HIDE DEF here
<1>3. back \in Machines /\ back.returns = m.returns + 1 /\ back.armed = m.armed
  BY <1>1, <1>2, SetReturns
<1> HIDE DEF back
<1>4. done \in Machines /\ done.at = "done" /\ done.returns = m.returns + 1 /\ done.armed = m.armed
  BY <1>3, SetAt, PlacesAndResults
<1> HIDE DEF done
<1>5. over \in Machines /\ over.at = "done" /\ over.returns <= 1 /\ over.armed = m.armed
  BY <1>2, <1>4, SetResult, PlacesAndResults
<1> HIDE DEF over
<1>6. ASSUME m.armed, m.summaryUsed PROVE Follows(m, Waiting(m))
  <2>1. Waiting(m) = over
    BY <1>6 DEF Waiting, Back, Ended, over, done, back, here
  <2> QED
    BY <1>5, <1>6, <2>1, Zenon DEF Follows, MachineInv, Final
<1>7. ASSUME ~m.armed PROVE Follows(m, Waiting(m))
  <2>1. Waiting(m) = here
    BY <1>7 DEF Waiting, Back, here
  <2> QED
    BY <1>1, <1>2, <1>7, <2>1, Zenon DEF Follows, MachineInv, Final
<1> QED
  BY <1>6, <1>7

LEMMA SdkInitFollows == ASSUME NEW m, MachineInv(m) PROVE Follows(m, SdkInit(m))
<1>1. CASE m.at = "starting"
  BY <1>1, WaitingFollows DEF MachineInv, SdkInit, Final
<1>2. CASE m.at # "starting"
  BY <1>2, FollowsItself DEF SdkInit
<1> QED
  BY <1>1, <1>2

\* Leaving waiting after an interrupt uses the last round.
LEMMA MarkedSame ==
  ASSUME NEW m, m \in Machines
  PROVE  /\ Marked(m) \in Machines /\ (m.armed => Marked(m).summaryUsed)
         /\ Marked(m).armed = m.armed /\ Marked(m).returns = m.returns
         /\ Marked(m).result = m.result /\ Marked(m).at = m.at
<1>1. CASE m.armed
  <2>1. Marked(m) = [m EXCEPT !.summaryUsed = TRUE]
    BY <1>1 DEF Marked
  <2> QED
    BY <1>1, <2>1 DEF Machines
<1>2. CASE ~m.armed
  <2>1. Marked(m) = m
    BY <1>2 DEF Marked, Machines
  <2> QED
    BY <1>2, <2>1
<1> QED
  BY <1>1, <1>2

LEMMA ToolUseFollows == ASSUME NEW m, MachineInv(m) PROVE Follows(m, ToolUse(m))
<1>1. CASE m.at = "waiting"
  <2>0. m.armed => Marked(m).summaryUsed
    BY MarkedSame DEF MachineInv
  <2>1. /\ Marked(m) \in Machines
        /\ Marked(m).armed = m.armed /\ Marked(m).returns = m.returns /\ Marked(m).result = m.result
    BY MarkedSame DEF MachineInv
  <2> DEFINE u == [Marked(m) EXCEPT !.at = "dispatching"]
             n == [u EXCEPT !.pending = Marked(m).pending + 1]
  <2>2. /\ u \in Machines /\ u.at = "dispatching" /\ u.summaryUsed = Marked(m).summaryUsed
        /\ u.armed = Marked(m).armed /\ u.returns = Marked(m).returns /\ u.result = Marked(m).result
    BY <2>1, SetAt, PlacesAndResults
  <2>3. Marked(m).pending + 1 \in Nat
    BY <2>1, FieldTypes
  <2> HIDE DEF u
  <2>4. /\ n \in Machines /\ n.at = "dispatching" /\ n.summaryUsed = Marked(m).summaryUsed
        /\ n.armed = Marked(m).armed /\ n.returns = Marked(m).returns /\ n.result = Marked(m).result
    BY <2>2, <2>3, SetPending
  <2>5. ToolUse(m) = n
    BY <1>1 DEF ToolUse, u
  <2> HIDE DEF n
  <2> QED
    BY <1>1, <2>0, <2>1, <2>4, <2>5 DEF Follows, MachineInv, Final
<1>2. CASE m.at = "dispatching"
  BY <1>2 DEF Follows, MachineInv, ToolUse, Machines, Final
<1>3. CASE m.at \notin {"waiting", "dispatching"}
  BY <1>3, FollowsItself DEF ToolUse
<1> QED
  BY <1>1, <1>2, <1>3

LEMMA ToolResultFollows == ASSUME NEW m, MachineInv(m) PROVE Follows(m, ToolResult(m))
<1>1. CASE m.at = "dispatching" /\ m.pending = 1
  <2> DEFINE n == [m EXCEPT !.pending = 0]
  <2>1. n \in Machines /\ ~Final(n) /\ n.returns = 0 /\ (n.armed => n.summaryUsed)
    BY <1>1 DEF MachineInv, Machines, Final
  <2>2. Follows(n, Waiting(n))
    BY <2>1, WaitingFollows
  <2>3. n.armed = m.armed /\ n.result = m.result
    BY DEF MachineInv, Machines
  <2>4. ToolResult(m) = Waiting(n)
    BY <1>1 DEF ToolResult
  <2> QED
    BY <2>2, <2>3, <2>4 DEF Follows
<1>2. CASE ~(m.at = "dispatching" /\ m.pending = 1)
  BY <1>2 DEF Follows, MachineInv, ToolResult, Machines, Final
<1> QED
  BY <1>1, <1>2

LEMMA CompactStartedFollows == ASSUME NEW m, MachineInv(m) PROVE Follows(m, CompactStarted(m))
<1>1. CASE m.at = "waiting"
  <2>1. CompactStarted(m) = [Marked(m) EXCEPT !.at = "compacting"]
    BY <1>1 DEF CompactStarted
  <2> QED
    BY <1>1, <2>1, MarkedSame DEF Follows, MachineInv, Machines, Final
<1>2. CASE m.at # "waiting"
  BY <1>2, FollowsItself DEF CompactStarted
<1> QED
  BY <1>1, <1>2

LEMMA CompactEndedFollows == ASSUME NEW m, MachineInv(m) PROVE Follows(m, CompactEnded(m))
<1>1. CASE m.at = "compacting"
  BY <1>1, WaitingFollows DEF MachineInv, CompactEnded, Final
<1>2. CASE m.at # "compacting"
  BY <1>2, FollowsItself DEF CompactEnded
<1> QED
  BY <1>1, <1>2

LEMMA ArrivingFollows ==
  ASSUME NEW m, NEW c \in BOOLEAN, MachineInv(m) PROVE Follows(m, Arriving(m, c))
BY CompactEndedFollows, FollowsItself DEF Arriving

LEMMA ResultFollows ==
  ASSUME NEW m, MachineInv(m)
  PROVE  Follows(m, ResultSuccess(m)) /\ Follows(m, ResultError(m))
BY DEF Follows, MachineInv, ResultSuccess, ResultError, Ended, Machines, Final

LEMMA AssistantFollows ==
  ASSUME NEW m, NEW c \in BOOLEAN, NEW tools \in 0..2, MachineInv(m)
  PROVE  Follows(m, Assistant(m, c, tools))
<1> DEFINE n == Arriving(m, c)
<1>1. Follows(m, n)
  BY ArrivingFollows
<1>2. Follows(n, ToolUse(n)) /\ Follows(ToolUse(n), ToolUse(ToolUse(n)))
  <2>1. MachineInv(n)
    BY <1>1 DEF Follows
  <2>2. Follows(n, ToolUse(n))
    BY <2>1, ToolUseFollows
  <2>3. MachineInv(ToolUse(n))
    BY <2>2 DEF Follows
  <2> QED
    BY <2>2, <2>3, ToolUseFollows
<1>3. Assistant(m, c, tools) \in {n, ToolUse(n), ToolUse(ToolUse(n))}
  BY DEF Assistant
<1> QED
  BY <1>1, <1>2, <1>3, FollowsTwice

\* An interrupt, at any time, leaves the machine sound.
LEMMA InterruptedSound == ASSUME NEW m, MachineInv(m) PROVE MachineInv(Interrupted(m))
BY DEF MachineInv, Interrupted, Ended, Machines, Final

-----------------------------------------------------------------------------
(* The attempts. *)

RecordType == [open : BOOLEAN, reason : Reasons, session : BOOLEAN]

\* The call is open until it returns, an attempt is running while it has a query,
\* and what ended before the next one starts did not succeed.
Phases ==
  /\ returned = "none" <=> pc # "returned"
  /\ row = "running" <=> pc \in {"stream", "settle"}
  /\ pc \in {"loop", "backoff"} /\ attempts > 0 => row \in {"error", "secret_pending"}

Records ==
  /\ record.open => record.reason = "none"
  /\ RecordAgreesWithRow

\* A machine hears of no interrupt that was not sent.
Hearing ==
  /\ MachineInv(machine)
  /\ machine.armed => aborted
  /\ machine.result = "interrupted" => aborted

\* What has been tried and what may still be, the attempt about to start included.
Spent == attempts + retries + mcpLeft + (IF pc \in {"loop", "backoff"} THEN 1 ELSE 0)

Largest(n) == n \in RetryOptions /\ \A k \in RetryOptions : k <= n

Budgeted == \A n \in RetryOptions : Largest(n) => Spent <= n + 1 + McpBudget

\* The inductive invariant.
AgentInv == TypeOK /\ Phases /\ Records /\ Hearing /\ Budgeted /\ SilentWhileRetrying

LEMMA AgentInit == Init => AgentInv
<1> SUFFICES ASSUME Init PROVE AgentInv
  OBVIOUS
<1>1. Hearing
  BY NewMachineSound DEF Init, Hearing
<1>2. TypeOK
  <2>1. retries \in Nat
    BY AttemptAssumption DEF Init
  <2>2. mcpLeft \in 0..McpBudget /\ round \in 0..FeedbackRounds /\ said \in 0..MaxMessages
    BY AttemptAssumption DEF Init
  <2>3. machine \in Machines
    BY <1>1 DEF Hearing, MachineInv
  <2>4. record \in [open : BOOLEAN, reason : Reasons, session : BOOLEAN]
    BY DEF Init, Reasons
  <2> QED
    BY <2>1, <2>2, <2>3, <2>4 DEF Init, TypeOK, Configs, PcStates
<1>3. Phases /\ Records /\ SilentWhileRetrying
  BY DEF Init, Phases, Records, RecordAgreesWithRow, SilentWhileRetrying
<1>4. Budgeted
  <2>1. retries \in Nat /\ retries \in RetryOptions /\ Spent = retries + McpBudget + 1
    BY AttemptAssumption DEF Init, Spent
  <2> QED
    BY <2>1, AttemptAssumption DEF Budgeted, Largest
<1> QED
  BY <1>1, <1>2, <1>3, <1>4 DEF AgentInv

\* An open record is closed once, with the reason given.
LEMMA Closed ==
  ASSUME NEW rec \in RecordType, rec.open = TRUE, NEW reason \in Reasons
  PROVE  /\ Close(rec, reason) \in RecordType
         /\ Close(rec, reason).open = FALSE
         /\ Close(rec, reason).reason = reason
<1>1. [rec EXCEPT !.open = FALSE, !.reason = reason] \in RecordType
  BY DEF RecordType
<1>2. /\ [rec EXCEPT !.open = FALSE, !.reason = reason].open = FALSE
      /\ [rec EXCEPT !.open = FALSE, !.reason = reason].reason = reason
  BY DEF RecordType
<1>3. Close(rec, reason) = [rec EXCEPT !.open = FALSE, !.reason = reason]
  BY DEF Close
<1> QED
  BY <1>1, <1>2, <1>3, Zenon

\* The types of what the end of an attempt writes.
EndTypes ==
  /\ retries \in Nat /\ mcpLeft \in 0..McpBudget
  /\ pc \in PcStates
  /\ row \in {"none", "running", "success", "error", "secret_pending"}
  /\ record \in RecordType
  /\ reported \in BOOLEAN
  /\ returned \in {"none", "success", "error", "secret_pending"}

\* Another attempt is paid for by one budget or the other.
LEMMA PaidFor ==
  ASSUME NEW total \in Nat, NEW a \in Nat, NEW r \in Nat, NEW l \in Nat, a + r + l <= total,
         NEW p, NEW r1, NEW l1,
         \/ p = "returned" /\ r1 = r /\ l1 = l
         \/ p = "backoff" /\ r1 = r /\ l > 0 /\ l1 = l - 1
         \/ p = "loop" /\ r > 0 /\ r1 = r - 1 /\ l1 = l
  PROVE  /\ a + r1 + l1 + (IF p \in {"loop", "backoff"} THEN 1 ELSE 0) <= total
         /\ a + r1 + l1 + (IF p \in {"loop", "backoff"} THEN 1 ELSE 0) \in Nat
OBVIOUS

\* However an attempt ends, the row and its record tell the same story, a failure is
\* only reported when nothing is tried again, and no budget is overdrawn.
LEMMA FinishKeeps ==
  ASSUME AgentInv, pc # "returned",
         NEW rec \in RecordType, rec.open = TRUE,
         NEW status \in {"success", "error", "secret_pending"},
         NEW reason \in Reasons \ {"none"},
         NEW mcp \in BOOLEAN, NEW silent \in BOOLEAN,
         status = "success" <=> reason = "natural_completion",
         status = "secret_pending" <=> reason = "secret_pending",
         reason = "interrupted" => aborted,
         status = "error" /\ ~silent => IsFinalAttempt \/ config = "broken",
         Finish(rec, status, reason, mcp, silent),
         config' = config, aborted' = aborted,
         attempts' \in Nat,
         attempts' + retries + mcpLeft <= Spent
  PROVE  EndTypes' /\ Phases' /\ Records' /\ Budgeted' /\ SilentWhileRetrying'
<1> DEFINE free == status = "error" /\ FreeRetry(mcp)
<1>1. /\ row' = status
      /\ record' = Close(rec, reason)
      /\ reported' = (reported \/ (status = "error" /\ ~silent))
      /\ \/ /\ status = "success"
            /\ pc' = "returned" /\ returned' = status
            /\ retries' = retries /\ mcpLeft' = mcpLeft
         \/ /\ status = "error" /\ mcpLeft > 0
            /\ pc' = "backoff" /\ mcpLeft' = mcpLeft - 1
            /\ retries' = retries /\ returned' = returned
         \/ /\ status # "success" /\ retries > 0
            /\ pc' = "loop" /\ retries' = retries - 1
            /\ mcpLeft' = mcpLeft /\ returned' = returned
         \/ /\ status # "success"
            /\ pc' = "returned" /\ returned' = status
            /\ retries' = retries /\ mcpLeft' = mcpLeft
  BY DEF Finish, FreeRetry
<1>2. /\ retries \in Nat /\ mcpLeft \in 0..McpBudget /\ McpBudget \in Nat /\ attempts \in Nat
      /\ reported \in BOOLEAN /\ returned = "none"
  BY AttemptAssumption DEF AgentInv, TypeOK, Phases
<1>3. record' \in RecordType /\ record'.open = FALSE /\ record'.reason = reason
  BY <1>1, Closed
<1>4. retries' \in Nat /\ mcpLeft' \in 0..McpBudget
  BY <1>1, <1>2
<1>5. pc' \in {"loop", "backoff", "returned"}
  BY <1>1
<1>6. /\ pc' = "returned" => returned' = status
      /\ pc' # "returned" => returned' = "none" /\ status # "success"
  BY <1>1, <1>2
<1>7. EndTypes'
  <2>1. reported' \in BOOLEAN
    BY <1>1
  <2> QED
    BY <1>1, <1>3, <1>4, <1>5, <1>6, <2>1 DEF EndTypes, PcStates
<1>8. Phases'
  BY <1>1, <1>5, <1>6 DEF Phases
<1>9. Records'
  BY <1>1, <1>3, Zenon DEF Records, RecordAgreesWithRow
<1>10. Budgeted'
  <2>1. Spent \in Nat
    BY <1>2 DEF Spent
  <2>2. \/ pc' = "returned" /\ retries' = retries /\ mcpLeft' = mcpLeft
        \/ pc' = "backoff" /\ retries' = retries /\ mcpLeft > 0 /\ mcpLeft' = mcpLeft - 1
        \/ pc' = "loop" /\ retries > 0 /\ retries' = retries - 1 /\ mcpLeft' = mcpLeft
    BY <1>1, Zenon
  <2>3. mcpLeft \in Nat
    BY <1>2
  <2> HIDE DEF free
  <2>6. Spent' <= Spent /\ Spent' \in Nat
    BY <1>2, <2>1, <2>2, <2>3, PaidFor, Zenon DEF Spent
  <2>4. Budgeted
    BY DEF AgentInv
  <2> QED
    BY <2>1, <2>4, <2>6, AttemptAssumption DEF Budgeted, Largest
<1>11. SilentWhileRetrying'
  <2> SUFFICES ASSUME reported', config # "broken" PROVE pc' = "returned"
    BY DEF SilentWhileRetrying
  <2>1. CASE reported
    BY <2>1 DEF AgentInv, SilentWhileRetrying
  <2>2. CASE ~reported
    <3>0. reported' = (reported \/ (status = "error" /\ ~silent))
      BY <1>1, Zenon
    <3>1. status = "error" /\ IsFinalAttempt
      BY <2>2, <3>0, Zenon
    <3>2. retries = 0 /\ mcpLeft = 0
      BY <3>1, Zenon DEF IsFinalAttempt
    <3>3. ~(mcpLeft > 0) /\ ~(retries > 0)
      BY <3>2
    <3> QED
      BY <1>1, <3>1, <3>3, Zenon
  <2> QED
    BY <2>1, <2>2
<1> QED
  BY <1>7, <1>8, <1>9, <1>10, <1>11

\* The rest of the state's types.
QueryTypes ==
  /\ config \in Configs /\ attempts \in Nat /\ round \in 0..FeedbackRounds
  /\ machine \in Machines
  /\ resumed \in BOOLEAN /\ compact \in BOOLEAN /\ inited \in BOOLEAN /\ killed \in BOOLEAN
  /\ said \in 0..MaxMessages
  /\ nested \subseteq written /\ written \subseteq delivered /\ delivered \subseteq Outputs
  /\ aborted \in BOOLEAN

LEMMA TypesTogether == TypeOK <=> EndTypes /\ QueryTypes
BY DEF TypeOK, EndTypes, QueryTypes, RecordType

\* A step that leaves the query alone and ends the attempt keeps the invariant.
LEMMA EndKeeps ==
  ASSUME AgentInv, EndTypes', Phases', Records', Budgeted', SilentWhileRetrying',
         UNCHANGED <<config, round, resumed, machine, compact, inited, said, killed, delivered, aborted>>,
         attempts' \in Nat,
         \/ UNCHANGED <<written, nested>>
         \/ written' = {} /\ nested' = {}
  PROVE  AgentInv'
<1>1. QueryTypes
  BY TypesTogether DEF AgentInv
<1>2. QueryTypes'
  BY <1>1, Zenon DEF QueryTypes
<1>3. Hearing'
  BY Zenon DEF AgentInv, Hearing, MachineInv, Final
<1>4. TypeOK'
  BY <1>2, TypesTogether, PTL
<1> QED
  BY <1>3, <1>4 DEF AgentInv

\* Steps that leave the rows and the budgets alone keep what is said of them.
LEMMA QueryKeeps ==
  ASSUME AgentInv,
         UNCHANGED <<config, retries, mcpLeft, pc, attempts, row, record, reported, returned>>,
         aborted => aborted',
         QueryTypes', Hearing'
  PROVE  AgentInv'
<1>1. EndTypes
  BY TypesTogether DEF AgentInv
<1>2. EndTypes'
  BY <1>1, Zenon DEF EndTypes
<1>3. TypeOK'
  BY <1>2, TypesTogether, PTL
<1>4. Phases' /\ SilentWhileRetrying'
  BY Zenon DEF AgentInv, Phases, SilentWhileRetrying
<1>5. Records'
  BY Zenon DEF AgentInv, Records, RecordAgreesWithRow
<1>6. Budgeted'
  BY Zenon DEF AgentInv, Budgeted, Spent, Largest
<1> QED
  BY <1>3, <1>4, <1>5, <1>6 DEF AgentInv

-----------------------------------------------------------------------------
(* Every step keeps the invariant. *)

\* A query that starts hears of an interrupt that came before.
LEMMA NewQueryHears ==
  ASSUME AgentInv, NewQuery, aborted' = aborted
  PROVE  /\ Hearing'
         /\ machine' \in Machines /\ killed' \in BOOLEAN
         /\ compact' = FALSE /\ inited' = FALSE /\ said' = 0
<1>1. aborted \in BOOLEAN
  BY DEF AgentInv, TypeOK
<1>2. MachineInv(machine')
  BY NewMachineSound, InterruptedSound DEF NewQuery
<1>3. ~aborted => ~machine'.armed /\ machine'.result # "interrupted"
  BY NewMachineSound, Zenon DEF NewQuery
<1>4. Hearing'
  BY <1>2, <1>3, Zenon DEF Hearing, MachineInv, Final
<1>5. machine' \in Machines
  BY <1>2 DEF MachineInv
<1> QED
  BY <1>1, <1>4, <1>5 DEF NewQuery

LEMMA GiveUpKeeps == AgentInv /\ GiveUp => AgentInv'
<1> SUFFICES ASSUME AgentInv, GiveUp PROVE AgentInv'
  OBVIOUS
<1>1. row \in {"error", "secret_pending"} /\ returned = "none"
  BY DEF GiveUp, AgentInv, Phases
<1>2. EndTypes'
  <2>1. EndTypes
    BY TypesTogether DEF AgentInv
  <2> QED
    BY <1>1, <2>1, Zenon DEF GiveUp, EndTypes, PcStates
<1>3. Phases'
  BY <1>1 DEF GiveUp, Phases
<1>4. Records' /\ SilentWhileRetrying'
  BY Zenon DEF GiveUp, AgentInv, Records, RecordAgreesWithRow, SilentWhileRetrying
<1>5. Budgeted'
  <2>1. attempts \in Nat /\ retries \in Nat /\ mcpLeft \in Nat
    BY AttemptAssumption DEF AgentInv, TypeOK
  <2>2. Spent' <= Spent /\ Spent \in Nat /\ Spent' \in Nat
    BY <2>1 DEF GiveUp, Spent
  <2> QED
    BY <2>2, AttemptAssumption DEF AgentInv, Budgeted, Largest
<1> QED
  BY <1>2, <1>3, <1>4, <1>5, EndKeeps DEF GiveUp, query, AgentInv, TypeOK

LEMMA BeginKeeps == AgentInv /\ BeginAttempt => AgentInv'
<1> SUFFICES ASSUME AgentInv, BeginAttempt PROVE AgentInv'
  OBVIOUS
<1>1. /\ Hearing' /\ machine' \in Machines /\ killed' \in BOOLEAN
      /\ compact' = FALSE /\ inited' = FALSE /\ said' = 0
  BY NewQueryHears DEF BeginAttempt
<1>2. attempts \in Nat /\ retries \in Nat /\ mcpLeft \in Nat /\ MaxMessages \in Nat /\ FeedbackRounds \in Nat
  BY AttemptAssumption DEF AgentInv, TypeOK
<1>3. record' \in RecordType /\ record' = NewRecord
  BY DEF BeginAttempt, NewRecord, RecordType, Reasons
<1>4. EndTypes'
  <2>1. EndTypes
    BY TypesTogether DEF AgentInv
  <2> QED
    BY <1>3, <2>1, Zenon DEF BeginAttempt, EndTypes, PcStates
<1>5. QueryTypes'
  <2>1. QueryTypes
    BY TypesTogether DEF AgentInv
  <2>2. attempts' \in Nat /\ said' \in 0..MaxMessages /\ round' \in 0..FeedbackRounds
    BY <1>1, <1>2 DEF BeginAttempt
  <2>3. nested' \subseteq written' /\ written' \subseteq delivered'
    BY DEF BeginAttempt
  <2>4. compact' \in BOOLEAN /\ inited' \in BOOLEAN /\ resumed' \in BOOLEAN
    BY <1>1, Zenon DEF BeginAttempt
  <2> QED
    BY <1>1, <2>1, <2>2, <2>3, <2>4, Zenon DEF BeginAttempt, QueryTypes
<1>6. Phases' /\ SilentWhileRetrying'
  <2>1. Phases'
    BY DEF BeginAttempt, Again, AgentInv, Phases
  <2>2. SilentWhileRetrying'
    BY DEF BeginAttempt, Again, AgentInv, SilentWhileRetrying
  <2> QED
    BY <2>1, <2>2
<1>7. Records'
  BY <1>3 DEF BeginAttempt, Records, RecordAgreesWithRow, NewRecord
<1>8. Budgeted'
  <2>1. Spent' = Spent
    BY <1>2 DEF BeginAttempt, Again, Spent
  <2> QED
    BY <2>1 DEF AgentInv, Budgeted, Largest
<1> QED
  BY <1>1, <1>4, <1>5, <1>6, <1>7, <1>8, TypesTogether, PTL DEF AgentInv

LEMMA BackoffKeeps == AgentInv /\ BackoffEnds => AgentInv'
<1> SUFFICES ASSUME AgentInv, BackoffEnds PROVE AgentInv'
  OBVIOUS
<1>1. EndTypes'
  <2>1. EndTypes
    BY TypesTogether DEF AgentInv
  <2> QED
    BY <2>1, Zenon DEF BackoffEnds, EndTypes, PcStates
<1>2. Phases'
  BY DEF BackoffEnds, AgentInv, Phases
<1>3. Records' /\ SilentWhileRetrying'
  BY Zenon DEF BackoffEnds, AgentInv, Records, RecordAgreesWithRow, SilentWhileRetrying
<1>4. Budgeted'
  <2>1. Spent' = Spent
    BY DEF BackoffEnds, Spent
  <2> QED
    BY <2>1 DEF AgentInv, Budgeted, Largest
<1> QED
  BY <1>1, <1>2, <1>3, <1>4, EndKeeps DEF BackoffEnds, query, AgentInv, TypeOK

LEMMA FreshRecord == NewRecord \in RecordType /\ NewRecord.open = TRUE
BY DEF NewRecord, RecordType, Reasons

\* An attempt that ends at once is one of those still to come.
LEMMA OneOfThose ==
  ASSUME AgentInv, pc = "loop"
  PROVE  (attempts + 1) + retries + mcpLeft <= Spent /\ attempts + 1 \in Nat
<1>1. attempts \in Nat /\ retries \in Nat /\ mcpLeft \in Nat
  BY AttemptAssumption DEF AgentInv, TypeOK
<1> QED
  BY <1>1 DEF Spent

LEMMA PauseKeeps == AgentInv /\ PauseForSecret => AgentInv'
<1> SUFFICES ASSUME AgentInv, PauseForSecret PROVE AgentInv'
  OBVIOUS
<1>1. /\ pc = "loop" /\ attempts' = attempts + 1
      /\ Finish(NewRecord, "secret_pending", "secret_pending", FALSE, ~IsFinalAttempt)
      /\ UNCHANGED <<config, round, resumed, machine, compact, inited, said, killed, delivered, aborted>>
      /\ written' = {} /\ nested' = {}
  BY DEF PauseForSecret, EndAtOnce, Again, query
<1>2. /\ pc # "returned" /\ "secret_pending" \in Reasons \ {"none"} /\ (~IsFinalAttempt) \in BOOLEAN
      /\ attempts' \in Nat /\ attempts' + retries + mcpLeft <= Spent
  <2>1. (~IsFinalAttempt) \in BOOLEAN
    OBVIOUS
  <2> QED
    BY <1>1, <2>1, OneOfThose DEF Reasons
<1>3. EndTypes' /\ Phases' /\ Records' /\ Budgeted' /\ SilentWhileRetrying'
  BY <1>1, <1>2, FreshRecord, FinishKeeps, Zenon
<1> QED
  BY <1>1, <1>3, OneOfThose, EndKeeps

LEMMA RefuseKeeps == AgentInv /\ RefuseConfig => AgentInv'
<1> SUFFICES ASSUME AgentInv, RefuseConfig PROVE AgentInv'
  OBVIOUS
<1>1. /\ pc = "loop" /\ attempts' = attempts + 1 /\ config = "broken"
      /\ Finish(NewRecord, "error", "error", FALSE, FALSE)
      /\ UNCHANGED <<config, round, resumed, machine, compact, inited, said, killed, delivered, aborted>>
      /\ written' = {} /\ nested' = {}
  BY DEF RefuseConfig, EndAtOnce, Again, query
<1>2. EndTypes' /\ Phases' /\ Records' /\ Budgeted' /\ SilentWhileRetrying'
  <2>1. /\ pc # "returned" /\ "error" \in Reasons \ {"none"} /\ FALSE \in BOOLEAN
        /\ attempts' \in Nat /\ attempts' + retries + mcpLeft <= Spent
    BY <1>1, OneOfThose DEF Reasons
  <2> QED
    BY <1>1, <2>1, FreshRecord, FinishKeeps, Zenon
<1> QED
  BY <1>1, <1>2, OneOfThose, EndKeeps

\* While there is a query its attempt is running and its record open.
LEMMA InAttempt ==
  ASSUME AgentInv, pc \in {"stream", "settle"}
  PROVE  /\ record \in RecordType /\ record.open = TRUE /\ row = "running"
         /\ attempts \in Nat /\ attempts + retries + mcpLeft <= Spent
         /\ pc # "returned" /\ returned = "none"
<1>1. row = "running" /\ pc # "returned" /\ returned = "none"
  BY DEF AgentInv, Phases
<1>2. record \in RecordType
  BY TypesTogether DEF AgentInv, EndTypes
<1>3. record.open = TRUE
  <2>1. record.open
    BY <1>1, Zenon DEF AgentInv, Records, RecordAgreesWithRow
  <2>2. record.open \in BOOLEAN
    BY <1>2 DEF RecordType
  <2> QED
    BY <2>1, <2>2, Zenon
<1>4. attempts \in Nat /\ retries \in Nat /\ mcpLeft \in Nat
  BY AttemptAssumption DEF AgentInv, TypeOK
<1>5. attempts + retries + mcpLeft <= Spent
  BY <1>4 DEF Spent
<1> QED
  BY <1>1, <1>2, <1>3, <1>4, <1>5, Zenon

\* A session noted in the record changes nothing else of it.
LEMMA WithSession ==
  ASSUME NEW rec \in RecordType
  PROVE  /\ [rec EXCEPT !.session = TRUE] \in RecordType
         /\ [rec EXCEPT !.session = TRUE].open = rec.open
         /\ [rec EXCEPT !.session = TRUE].reason = rec.reason
BY DEF RecordType

\* An attempt that fails with its query.
LEMMA FailKeeps ==
  ASSUME AgentInv, pc \in {"stream", "settle"},
         NEW rec \in RecordType, rec.open = TRUE,
         NEW reason \in {"error", "interrupted"}, NEW mcp \in BOOLEAN,
         reason = "interrupted" => aborted,
         Fail(rec, reason, mcp),
         UNCHANGED <<config, attempts, aborted>>
  PROVE  EndTypes' /\ Phases' /\ Records' /\ Budgeted' /\ SilentWhileRetrying'
<1>1. /\ Finish(rec, "error", reason, mcp, ~IsFinalAttempt)
      /\ reason # "natural_completion" /\ reason # "secret_pending"
      /\ reason \in Reasons \ {"none"}
  BY DEF Fail, Reasons
<1>2. (~IsFinalAttempt) \in BOOLEAN
  OBVIOUS
<1>3. attempts' \in Nat /\ attempts' + retries + mcpLeft <= Spent
  BY InAttempt, Zenon
<1> QED
  BY <1>1, <1>2, <1>3, InAttempt, FinishKeeps, Zenon

LEMMA InitArrivesKeeps == AgentInv /\ InitArrives => AgentInv'
<1> SUFFICES ASSUME AgentInv, InitArrives PROVE AgentInv'
  OBVIOUS
<1>1. record' \in RecordType /\ record'.open = record.open /\ record'.reason = record.reason
  BY InAttempt, WithSession DEF InitArrives, Streaming
<1>2. Follows(machine, machine')
  BY SdkInitFollows DEF InitArrives, AgentInv, Hearing
<1>3. Hearing' /\ machine' \in Machines
  BY <1>2, Zenon DEF InitArrives, AgentInv, Hearing, Follows, MachineInv
<1>4. EndTypes'
  <2>1. EndTypes
    BY TypesTogether DEF AgentInv
  <2> QED
    BY <1>1, <2>1, Zenon DEF InitArrives, EndTypes
<1>5. QueryTypes'
  <2>1. QueryTypes
    BY TypesTogether DEF AgentInv
  <2> QED
    BY <1>3, <2>1, Zenon DEF InitArrives, QueryTypes
<1>6. Phases' /\ SilentWhileRetrying' /\ Budgeted'
  BY Zenon DEF InitArrives, AgentInv, Phases, SilentWhileRetrying, Budgeted, Spent, Largest
<1>7. Records'
  BY <1>1, Zenon DEF InitArrives, AgentInv, Records, RecordAgreesWithRow
<1> QED
  BY <1>3, <1>4, <1>5, <1>6, <1>7, TypesTogether, PTL DEF AgentInv

LEMMA ServersFailKeeps == \A mcp \in BOOLEAN : AgentInv /\ ServersFail(mcp) => AgentInv'
<1> SUFFICES ASSUME NEW mcp \in BOOLEAN, AgentInv, ServersFail(mcp) PROVE AgentInv'
  OBVIOUS
<1>1. pc \in {"stream", "settle"}
  BY DEF ServersFail, Streaming
<1> DEFINE rec == [record EXCEPT !.session = TRUE]
<1>2. rec \in RecordType /\ rec.open = TRUE
  BY <1>1, InAttempt, WithSession
<1> HIDE DEF rec
<1>3. Fail(rec, "error", mcp) /\ UNCHANGED <<config, attempts, aborted>>
  BY DEF ServersFail, rec
<1>4. EndTypes' /\ Phases' /\ Records' /\ Budgeted' /\ SilentWhileRetrying'
  BY <1>1, <1>2, <1>3, FailKeeps
<1>5. QueryTypes'
  <2>1. QueryTypes
    BY TypesTogether DEF AgentInv
  <2> QED
    BY <2>1, Zenon DEF ServersFail, QueryTypes
<1>6. Hearing'
  BY Zenon DEF ServersFail, AgentInv, Hearing, MachineInv, Final
<1> QED
  BY <1>4, <1>5, <1>6, TypesTogether, PTL DEF AgentInv

\* A message the machine reads.
LEMMA SpeechKeeps ==
  ASSUME AgentInv, Follows(machine, machine'), compact' \in BOOLEAN, said' \in 0..MaxMessages,
         UNCHANGED <<inited, killed>>, InQuery
  PROVE  AgentInv'
<1>1. Hearing' /\ machine' \in Machines
  BY Zenon DEF AgentInv, Hearing, InQuery, Follows, MachineInv
<1>2. QueryTypes'
  <2>1. QueryTypes
    BY TypesTogether DEF AgentInv
  <2> QED
    BY <1>1, <2>1, Zenon DEF InQuery, QueryTypes
<1> QED
  BY <1>1, <1>2, QueryKeeps DEF InQuery

LEMMA SaidMore == AgentInv /\ Talking => said + 1 \in 0..MaxMessages
BY AttemptAssumption DEF AgentInv, TypeOK, Talking

LEMMA TalkKeeps ==
  /\ \A tools \in 0..2 : AgentInv /\ AssistantSays(tools) => AgentInv'
  /\ AgentInv /\ ToolAnswers => AgentInv'
  /\ AgentInv /\ CompactBoundary => AgentInv'
  /\ \A ok \in BOOLEAN : AgentInv /\ ResultArrives(ok) => AgentInv'
<1>1. ASSUME AgentInv
      PROVE  /\ MachineInv(machine) /\ compact \in BOOLEAN /\ said \in 0..MaxMessages
             /\ Follows(machine, Arriving(machine, compact))
  BY <1>1, ArrivingFollows DEF AgentInv, TypeOK, Hearing
<1>2. ASSUME NEW tools \in 0..2, AgentInv, AssistantSays(tools) PROVE AgentInv'
  <2>1. Follows(machine, machine')
    BY <1>1, <1>2, AssistantFollows DEF AssistantSays
  <2>2. said' \in 0..MaxMessages
    BY <1>2, SaidMore DEF AssistantSays
  <2> QED
    BY <1>2, <2>1, <2>2, SpeechKeeps DEF AssistantSays
<1>3. ASSUME AgentInv, ToolAnswers PROVE AgentInv'
  <2>1. Follows(machine, machine')
    BY <1>1, <1>3, ToolResultFollows, FollowsTwice DEF ToolAnswers, Follows
  <2>2. said' \in 0..MaxMessages
    BY <1>3, SaidMore DEF ToolAnswers
  <2> QED
    BY <1>3, <2>1, <2>2, SpeechKeeps DEF ToolAnswers
<1>4. ASSUME AgentInv, CompactBoundary PROVE AgentInv'
  <2>1. Follows(machine, machine')
    BY <1>1, <1>4, CompactStartedFollows DEF CompactBoundary
  <2>2. said' \in 0..MaxMessages
    BY <1>4, SaidMore DEF CompactBoundary
  <2> QED
    BY <1>4, <2>1, <2>2, SpeechKeeps DEF CompactBoundary
<1>5. ASSUME NEW ok \in BOOLEAN, AgentInv, ResultArrives(ok) PROVE AgentInv'
  <2>1. Follows(machine, machine')
    BY <1>1, <1>5, ResultFollows, FollowsTwice DEF ResultArrives, Follows
  <2> QED
    BY <1>1, <1>5, <2>1, SpeechKeeps DEF ResultArrives
<1> QED
  BY <1>2, <1>3, <1>4, <1>5

LEMMA WritePortKeeps ==
  \A p \in Outputs, json \in BOOLEAN : AgentInv /\ WritePort(p, json) => AgentInv'
<1> SUFFICES ASSUME NEW p \in Outputs, NEW json \in BOOLEAN, AgentInv, WritePort(p, json)
             PROVE  AgentInv'
  OBVIOUS
<1>1. QueryTypes
  BY TypesTogether DEF AgentInv
<1>2. nested' \subseteq written' /\ written' \subseteq delivered' /\ delivered' \subseteq Outputs
  BY <1>1 DEF WritePort, QueryTypes
<1>3. QueryTypes'
  BY <1>1, <1>2, Zenon DEF WritePort, query, QueryTypes
<1>4. Hearing'
  BY Zenon DEF WritePort, query, AgentInv, Hearing, MachineInv, Final
<1> QED
  BY <1>3, <1>4, QueryKeeps DEF WritePort

LEMMA StreamClosesKeeps == AgentInv /\ StreamCloses => AgentInv'
<1> SUFFICES ASSUME AgentInv, StreamCloses PROVE AgentInv'
  OBVIOUS
<1>1. EndTypes'
  <2>1. EndTypes
    BY TypesTogether DEF AgentInv
  <2> QED
    BY <2>1, Zenon DEF StreamCloses, EndTypes, PcStates
<1>2. Phases'
  BY DEF StreamCloses, Streaming, AgentInv, Phases
<1>3. Records'
  BY Zenon DEF StreamCloses, AgentInv, Records, RecordAgreesWithRow
<1>4. SilentWhileRetrying'
  <2>1. ~(reported /\ config # "broken")
    BY DEF StreamCloses, Streaming, AgentInv, SilentWhileRetrying
  <2> QED
    BY <2>1, Zenon DEF StreamCloses, SilentWhileRetrying
<1>5. Budgeted'
  <2>1. Spent' = Spent
    BY DEF StreamCloses, Streaming, Spent
  <2> QED
    BY <2>1 DEF AgentInv, Budgeted, Largest
<1> QED
  BY <1>1, <1>2, <1>3, <1>4, <1>5, EndKeeps DEF StreamCloses, query, AgentInv, TypeOK

LEMMA InterruptKeeps == AgentInv /\ Interrupt => AgentInv'
<1> SUFFICES ASSUME AgentInv, Interrupt PROVE AgentInv'
  OBVIOUS
<1>1. MachineInv(machine')
  BY InterruptedSound DEF Interrupt, AgentInv, Hearing
<1>2. Hearing' /\ machine' \in Machines /\ killed' \in BOOLEAN
  <2>1. Hearing' /\ machine' \in Machines
    BY <1>1, Zenon DEF Interrupt, Hearing, MachineInv
  <2>2. killed' \in BOOLEAN
    BY DEF Interrupt, AgentInv, TypeOK
  <2> QED
    BY <2>1, <2>2
<1>3. QueryTypes'
  <2>1. QueryTypes
    BY TypesTogether DEF AgentInv
  <2> QED
    BY <1>2, <2>1, Zenon DEF Interrupt, QueryTypes
<1> QED
  BY <1>2, <1>3, QueryKeeps DEF Interrupt

\* What remains of an attempt whose query is over.
LEMMA SettledKeeps ==
  ASSUME AgentInv, Ending, EndTypes', Phases', Records', Budgeted', SilentWhileRetrying'
  PROVE  AgentInv'
BY EndKeeps DEF Ending, query, AgentInv, TypeOK

LEMMA QueryFailsKeeps == AgentInv /\ QueryFails => AgentInv'
<1> SUFFICES ASSUME AgentInv, QueryFails PROVE AgentInv'
  OBVIOUS
<1> DEFINE reason == IF machine.result = "interrupted" THEN "interrupted" ELSE "error"
<1>1. reason \in {"error", "interrupted"} /\ (reason = "interrupted" => aborted)
  BY DEF AgentInv, Hearing
<1>2. pc \in {"stream", "settle"} /\ Fail(record, reason, FALSE)
  BY DEF QueryFails
<1> HIDE DEF reason
<1>3. FALSE \in BOOLEAN /\ UNCHANGED <<config, attempts, aborted>>
  BY DEF QueryFails, Ending
<1>4. EndTypes' /\ Phases' /\ Records' /\ Budgeted' /\ SilentWhileRetrying'
  BY <1>1, <1>2, <1>3, InAttempt, FailKeeps, Zenon
<1> QED
  BY <1>4, SettledKeeps DEF QueryFails

LEMMA NonCompliantKeeps == AgentInv /\ NonCompliant => AgentInv'
<1> SUFFICES ASSUME AgentInv, NonCompliant PROVE AgentInv'
  OBVIOUS
<1>1. /\ pc \in {"stream", "settle"} /\ Fail(record, "error", FALSE)
      /\ FALSE \in BOOLEAN /\ UNCHANGED <<config, attempts, aborted>>
  BY DEF NonCompliant, Ending
<1>2. EndTypes' /\ Phases' /\ Records' /\ Budgeted' /\ SilentWhileRetrying'
  BY <1>1, InAttempt, FailKeeps
<1> QED
  BY <1>2, SettledKeeps DEF NonCompliant

LEMMA SucceedKeeps == AgentInv /\ Succeed => AgentInv'
<1> SUFFICES ASSUME AgentInv, Succeed PROVE AgentInv'
  OBVIOUS
<1>1. /\ pc \in {"stream", "settle"}
      /\ Finish(record, "success", "natural_completion", FALSE, TRUE)
      /\ UNCHANGED <<config, attempts, aborted>>
  BY DEF Succeed, Ending
<1>2. /\ "natural_completion" \in Reasons \ {"none"} /\ FALSE \in BOOLEAN /\ TRUE \in BOOLEAN
      /\ "natural_completion" # "secret_pending" /\ "natural_completion" # "interrupted"
      /\ "success" # "secret_pending" /\ "success" # "error"
  BY DEF Reasons
<1>3. attempts' \in Nat /\ attempts' + retries + mcpLeft <= Spent
  BY <1>1, InAttempt, Zenon
<1>4. EndTypes' /\ Phases' /\ Records' /\ Budgeted' /\ SilentWhileRetrying'
  BY <1>1, <1>2, <1>3, InAttempt, FinishKeeps, Zenon
<1> QED
  BY <1>4, SettledKeeps DEF Succeed

LEMMA FeedbackKeeps == AgentInv /\ Feedback => AgentInv'
<1> SUFFICES ASSUME AgentInv, Feedback PROVE AgentInv'
  OBVIOUS
<1>1. /\ Hearing' /\ machine' \in Machines /\ killed' \in BOOLEAN
      /\ compact' = FALSE /\ inited' = FALSE /\ said' = 0
  BY NewQueryHears DEF Feedback
<1>2. EndTypes'
  <2>1. EndTypes
    BY TypesTogether DEF AgentInv
  <2> QED
    BY <2>1, Zenon DEF Feedback, EndTypes, PcStates
<1>3. QueryTypes'
  <2>1. QueryTypes
    BY TypesTogether DEF AgentInv
  <2>2. said' \in 0..MaxMessages /\ round' \in 0..FeedbackRounds
    BY <1>1, <2>1, AttemptAssumption DEF Feedback, LastRound, QueryTypes
  <2>3. compact' \in BOOLEAN /\ inited' \in BOOLEAN /\ resumed' \in BOOLEAN
    <3>1. (inited \/ resumed) \in BOOLEAN
      OBVIOUS
    <3>2. resumed' = (inited \/ resumed)
      BY Zenon DEF Feedback, SessionToResume
    <3> QED
      BY <1>1, <3>1, <3>2, Zenon
  <2> QED
    BY <1>1, <2>1, <2>2, <2>3, Zenon DEF Feedback, QueryTypes
<1>4. Phases'
  BY DEF Feedback, AgentInv, Phases
<1>5. Records'
  BY Zenon DEF Feedback, AgentInv, Records, RecordAgreesWithRow
<1>6. SilentWhileRetrying'
  <2>1. ~(reported /\ config # "broken")
    BY DEF Feedback, AgentInv, SilentWhileRetrying
  <2> QED
    BY <2>1, Zenon DEF Feedback, SilentWhileRetrying
<1>7. Budgeted'
  <2>1. Spent' = Spent
    BY DEF Feedback, Spent
  <2> QED
    BY <2>1 DEF AgentInv, Budgeted, Largest
<1> QED
  BY <1>1, <1>2, <1>3, <1>4, <1>5, <1>6, <1>7, TypesTogether, PTL DEF AgentInv

LEMMA StutterKeeps == AgentInv /\ UNCHANGED vars => AgentInv'
<1> SUFFICES ASSUME AgentInv, UNCHANGED vars PROVE AgentInv'
  OBVIOUS
<1>1. QueryTypes /\ Hearing
  BY TypesTogether DEF AgentInv
<1>2. QueryTypes'
  BY <1>1, Zenon DEF vars, QueryTypes
<1>3. Hearing'
  BY <1>1, Zenon DEF vars, Hearing, MachineInv, Final
<1> QED
  BY <1>2, <1>3, QueryKeeps DEF vars

\* The invariant is inductive.
LEMMA AgentStep == AgentInv /\ [Next]_vars => AgentInv'
BY GiveUpKeeps, BeginKeeps, PauseKeeps, RefuseKeeps, BackoffKeeps, InitArrivesKeeps,
   ServersFailKeeps, TalkKeeps, WritePortKeeps, StreamClosesKeeps, InterruptKeeps,
   QueryFailsKeeps, SucceedKeeps, NonCompliantKeeps, FeedbackKeeps, StutterKeeps, Zenon
   DEF Next

LEMMA AgentInvariant == Spec => []AgentInv
BY AgentInit, AgentStep, PTL DEF Spec

-----------------------------------------------------------------------------
(* What follows. *)

\* Every variable has its type, in every run of the executor.
THEOREM AgentTypes == Spec => []TypeOK
BY AgentInvariant, PTL DEF AgentInv

\* An interrupted agent returns to waiting at most once, whatever it was doing, in
\* whatever feedback round (agent-machine.ts:104).
THEOREM InterruptedOnce == Spec => []OneMoreTurn
<1>1. AgentInv => OneMoreTurn
  BY DEF AgentInv, Hearing, MachineInv, OneMoreTurn
<1> QED
  BY <1>1, AgentInvariant, PTL

\* A failure is dispatched only when nothing will be tried again (real-executor.ts:302).
THEOREM RetriesAreSilent == Spec => []SilentWhileRetrying
BY AgentInvariant, PTL DEF AgentInv

\* The execution record and the attempt row agree at every moment of every attempt.
THEOREM RecordsAgree == Spec => []RecordAgreesWithRow
<1>1. AgentInv => RecordAgreesWithRow
  BY DEF AgentInv, Records
<1> QED
  BY <1>1, AgentInvariant, PTL

\* Retries of both kinds together never exceed the two budgets (real-executor.ts:316).
THEOREM RetriesAreBounded == Spec => []AttemptsAreBounded
<1>1. AgentInv => AttemptsAreBounded
  <2> SUFFICES ASSUME AgentInv, NEW n \in RetryOptions, \A k \in RetryOptions : k <= n
               PROVE  attempts <= n + 1 + McpBudget
    BY DEF AttemptsAreBounded
  <2>1. Spent <= n + 1 + McpBudget
    BY DEF AgentInv, Budgeted, Largest
  <2>2. attempts \in Nat /\ retries \in Nat /\ mcpLeft \in Nat /\ n \in Nat /\ McpBudget \in Nat
    BY AttemptAssumption DEF AgentInv, TypeOK
  <2> QED
    BY <2>1, <2>2 DEF Spent
<1> QED
  BY <1>1, AgentInvariant, PTL

-----------------------------------------------------------------------------
(* The refinement. *)

\* A call starts open, with nothing delivered.
LEMMA CallInit == Init => Call!Init
BY DEF Init, Call!Init

\* An attempt that ends gives the call one of its results, or leaves it open.
LEMMA FinishImplements ==
  ASSUME NEW rec, NEW status \in {"error", "secret_pending"}, NEW reason, NEW mcp, NEW silent,
         Finish(rec, status, reason, mcp, silent), returned = "none", delivered' = delivered
  PROVE  [Call!Next]_<<IF returned = "none" THEN "open" ELSE returned, delivered>>
BY DEF Finish, Call!Next, Call!GiveUp

\* Every step of the executor is a step of the call, or none.
LEMMA CallStep ==
  AgentInv /\ [Next]_vars => [Call!Next]_<<IF returned = "none" THEN "open" ELSE returned, delivered>>
<1> DEFINE Done == [Call!Next]_<<IF returned = "none" THEN "open" ELSE returned, delivered>>
<1> SUFFICES ASSUME AgentInv, [Next]_vars PROVE Done
  OBVIOUS
<1>1. (returned = "none") <=> (pc # "returned")
  BY DEF AgentInv, Phases
<1>2. CASE GiveUp
  <2>1. returned = "none" /\ row \in {"error", "secret_pending"}
    BY <1>2 DEF GiveUp, AgentInv, Phases
  <2> QED
    BY <1>2, <2>1 DEF GiveUp, Call!Next, Call!GiveUp
<1>3. CASE BeginAttempt \/ BackoffEnds \/ InitArrives \/ StreamCloses \/ Interrupt \/ Feedback
  <2>1. UNCHANGED <<returned, delivered>>
    BY <1>3 DEF BeginAttempt, BackoffEnds, InitArrives, StreamCloses, Interrupt, Feedback
  <2> QED
    BY <2>1
<1>4. CASE \/ \E tools \in 0..2 : AssistantSays(tools)
           \/ ToolAnswers \/ CompactBoundary
           \/ \E ok \in BOOLEAN : ResultArrives(ok)
  <2>1. UNCHANGED <<returned, delivered>>
    BY <1>4 DEF AssistantSays, ToolAnswers, CompactBoundary, ResultArrives, InQuery
  <2> QED
    BY <2>1
<1>5. CASE PauseForSecret \/ RefuseConfig
  <2>1. returned = "none" /\ delivered' = delivered
    BY <1>1, <1>5 DEF PauseForSecret, RefuseConfig, Again, EndAtOnce
  <2> QED
    BY <1>5, <2>1, FinishImplements DEF PauseForSecret, RefuseConfig, EndAtOnce
<1>6. CASE (\E mcp \in BOOLEAN : ServersFail(mcp)) \/ QueryFails \/ NonCompliant
  <2>1. returned = "none" /\ delivered' = delivered
    BY <1>1, <1>6 DEF ServersFail, Streaming, QueryFails, NonCompliant, Ending
  <2> QED
    BY <1>6, <2>1, FinishImplements DEF ServersFail, QueryFails, NonCompliant, Fail
<1>7. CASE Succeed
  <2>1. returned = "none" /\ delivered' = delivered /\ returned' = "success"
    BY <1>1, <1>7 DEF Succeed, Ending, Finish
  <2>2. delivered = Outputs
    BY <1>7 DEF Succeed, Compliant, AgentInv, TypeOK
  <2> QED
    BY <2>1, <2>2 DEF Call!Next, Call!Succeed
<1>8. CASE \E p \in Outputs, json \in BOOLEAN : WritePort(p, json)
  <2>1. returned = "none" /\ returned' = returned
    BY <1>1, <1>8 DEF WritePort, Streaming
  <2>2. \E p \in Outputs : delivered' = delivered \cup {p}
    BY <1>8 DEF WritePort
  <2> QED
    BY <2>1, <2>2 DEF Call!Next, Call!Deliver
<1>9. CASE UNCHANGED vars
  BY <1>9 DEF vars
<1> QED
  BY <1>2, <1>3, <1>4, <1>5, <1>6, <1>7, <1>8, <1>9 DEF Next

\* Seen from the runner the executor is one call: it delivers outputs while it is open,
\* returns once, and returns success only when it has delivered them all (executor.ts).
THEOREM ExecutorImplementsCall == Spec => ImplementsStageCall
<1>1. Init => Call!Init
  BY CallInit
<1>2. AgentInv /\ [Next]_vars => [Call!Next]_<<IF returned = "none" THEN "open" ELSE returned, delivered>>
  BY CallStep
<1> QED
  BY <1>1, <1>2, AgentInvariant, PTL DEF Spec, ImplementsStageCall, Call!Spec
=============================================================================
