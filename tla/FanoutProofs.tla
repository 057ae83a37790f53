---------------------------- MODULE FanoutProofs ----------------------------
(***************************************************************************)
(* A fanout stage for any arrays, pool size and number of retries: no row  *)
(* is left running, nothing new begins once the pass is to stop, and what  *)
(* a successful pass publishes is the source, element by element, as long  *)
(* as the arrays delivered agree on the indices they share.                *)
(***************************************************************************)
EXTENDS Fanout, WellFoundedInduction, TLAPS

USE FanoutAssumption

-----------------------------------------------------------------------------
(* The inductive invariant, in named parts. *)

\* A row left open is the newest of an element a worker is busy with.
OpenRowsAwaited ==
  \A i \in Elements : \A k \in DOMAIN rows[i] :
    rows[i][k].status = "running" => i \in DOMAIN awaited /\ k = Len(rows[i])

\* What the locals of a call hold between two calls.
Between ==
  /\ phase # "running" => DOMAIN awaited = {}
  /\ phase = "idle" => cursor = 1 /\ DOMAIN aggregated = {} /\ ~firstError /\ ~secretSeen
  /\ phase # "over" => result = "none"

\* The cursor is past whatever was begun, and everything it is past was begun.
CursorInv ==
  /\ cursor <= Len(source) + 1
  /\ \A i \in DOMAIN awaited : i \in DOMAIN source /\ i < cursor
  /\ \A i \in DOMAIN aggregated : i \in DOMAIN source /\ i < cursor
  /\ Stopped \/ \A i \in 1..(cursor - 1) : i \in DOMAIN aggregated \/ i \in DOMAIN awaited
  /\ result = "success" => ~Stopped /\ cursor = Len(source) + 1

FanoutInv == TypeOK /\ OpenRowsAwaited /\ Between /\ CursorInv

\* The arrays agree on the indices they share: a rewound upstream stage may
\* deliver more elements or fewer, never another one at an index.
SameItems == \A s, t \in Sources : \A i \in DOMAIN s \cap DOMAIN t : s[i] = t[i]

\* What this pass reuses and collects comes from the source.
FromSource ==
  /\ \A i \in DOMAIN preserved : i \in DOMAIN source /\ preserved[i] = source[i]
  /\ \A i \in DOMAIN aggregated : aggregated[i] = source[i]
  /\ aggregated = [i \in DOMAIN aggregated |-> aggregated[i]]

\* Every row was opened for an item that some array has at its index.
RowsFromSources ==
  \A i \in Elements : \A k \in DOMAIN rows[i] :
    \E s \in Sources : i \in DOMAIN s /\ rows[i][k].item = s[i]

-----------------------------------------------------------------------------
(* The data. *)

\* An array of the source: its indices and what it holds.
LEMMA SourceType ==
  ASSUME NEW s \in Sources
  PROVE  /\ DOMAIN s \subseteq Elements
         /\ Len(s) \in Nat /\ DOMAIN s = 1..Len(s)
         /\ \A i \in DOMAIN s : s[i] \in Items
<1>1. s \in Seq(Items)
  OBVIOUS
<1>2. QED
  BY <1>1 DEF Elements

\* A nonempty set of positions in a sequence has a last one.
LEMMA LastPosition ==
  ASSUME NEW n \in Nat, NEW S \in SUBSET (1..n), S # {}
  PROVE  \E k \in S : \A q \in S : q <= k
<1> DEFINE T == {m \in Nat : \E k \in S : m = n - k}
<1>1. T # {} /\ T \subseteq Nat
  <2>1. PICK k \in S : TRUE
    OBVIOUS
  <2>2. n - k \in T
    BY <2>1
  <2>3. QED
    BY <2>2
<1>2. PICK x \in T : \A y \in T : ~(<<y, x>> \in OpToRel(<, Nat))
  BY <1>1, NatLessThanWellFounded, WFMin
<1>3. PICK k \in S : x = n - k
  BY <1>2
<1>4. ASSUME NEW q \in S PROVE q <= k
  <2>1. n - q \in T
    OBVIOUS
  <2>2. ~(n - q < x)
    BY <1>2, <2>1 DEF OpToRel
  <2>3. QED
    BY <1>3, <2>2
<1>5. QED
  BY <1>4

LEMMA FunctionIsSequence ==
  ASSUME NEW S, NEW n \in Nat, NEW t \in [1..n -> S]
  PROVE  t \in Seq(S) /\ Len(t) = n /\ DOMAIN t = 1..n
OBVIOUS

RowsType == [Elements -> Seq(Row)]

\* rs is rows with other statuses.
Restated(rs) ==
  /\ rs \in RowsType
  /\ \A i \in Elements :
       /\ Len(rs[i]) = Len(rows[i]) /\ DOMAIN rs[i] = DOMAIN rows[i]
       /\ \A k \in DOMAIN rows[i] : rs[i][k].item = rows[i][k].item

LEMMA RowsAre ==
  ASSUME NEW rs \in RowsType, NEW i \in Elements
  PROVE  /\ rs[i] \in Seq(Row) /\ Len(rs[i]) \in Nat /\ DOMAIN rs[i] = 1..Len(rs[i])
         /\ \A k \in DOMAIN rs[i] : rs[i][k] \in Row
BY DEF RowsType

\* A new row is the newest and the only one that changes.
LEMMA OpenedRows ==
  ASSUME NEW rs \in RowsType, NEW i \in Elements, source[i] \in Items
  PROVE  /\ Opened(rs, i) \in RowsType
         /\ \A j \in Elements \ {i} : Opened(rs, i)[j] = rs[j]
         /\ Len(Opened(rs, i)[i]) = Len(rs[i]) + 1
         /\ DOMAIN Opened(rs, i)[i] = 1..(Len(rs[i]) + 1)
         /\ \A k \in 1..Len(rs[i]) : Opened(rs, i)[i][k] = rs[i][k]
         /\ Opened(rs, i)[i][Len(rs[i]) + 1] = [item |-> source[i], status |-> "running"]
<1> DEFINE r == [item |-> source[i], status |-> "running"]
<1>1. rs[i] \in Seq(Row) /\ r \in Row
  BY DEF RowsType, Row, Statuses
<1>2. Append(rs[i], r) \in Seq(Row)
  BY <1>1
<1>3. /\ Opened(rs, i) \in RowsType
      /\ \A j \in Elements \ {i} : Opened(rs, i)[j] = rs[j]
      /\ Opened(rs, i)[i] = Append(rs[i], r)
  BY <1>2 DEF Opened, RowsType
<1>4. QED
  BY <1>1, <1>3

\* Closing a row changes its status and nothing else.
LEMMA ClosedRows ==
  ASSUME rows \in RowsType, NEW i \in Elements, NEW k \in DOMAIN rows[i], NEW status \in Statuses
  PROVE  /\ Restated(Closed(<<i, k>>, status))
         /\ \A j \in Elements \ {i} : Closed(<<i, k>>, status)[j] = rows[j]
         /\ \A q \in DOMAIN rows[i] : q # k => Closed(<<i, k>>, status)[i][q] = rows[i][q]
         /\ Closed(<<i, k>>, status)[i][k].status = status
<1> DEFINE r == [rows[i][k] EXCEPT !.status = status]
           t == [rows[i] EXCEPT ![k] = r]
<1>1. rows[i] \in Seq(Row) /\ rows[i][k] \in Row
  BY RowsAre
<1>2. r \in Row /\ r.status = status /\ r.item = rows[i][k].item
  BY <1>1 DEF Row
<1>3. /\ t \in Seq(Row) /\ Len(t) = Len(rows[i]) /\ DOMAIN t = DOMAIN rows[i]
      /\ t[k] = r /\ \A q \in DOMAIN rows[i] : q # k => t[q] = rows[i][q]
  BY <1>1, <1>2
<1>4. Closed(<<i, k>>, status) = [rows EXCEPT ![i] = t]
  BY DEF Closed
<1>5. /\ Closed(<<i, k>>, status) \in RowsType /\ Closed(<<i, k>>, status)[i] = t
      /\ \A j \in Elements \ {i} : Closed(<<i, k>>, status)[j] = rows[j]
  BY <1>1, <1>3, <1>4 DEF RowsType
<1>6. Restated(Closed(<<i, k>>, status))
  BY <1>1, <1>2, <1>3, <1>5 DEF Restated
<1>7. QED
  BY <1>2, <1>3, <1>5, <1>6

\* A timeout leaves no row of the element running.
LEMMA TimedOutRows ==
  ASSUME rows \in RowsType, NEW i \in Elements
  PROVE  /\ Restated(TimedOut(i))
         /\ \A j \in Elements \ {i} : TimedOut(i)[j] = rows[j]
         /\ \A k \in DOMAIN rows[i] : TimedOut(i)[i][k].status # "running"
<1> DEFINE t == [k \in DOMAIN rows[i] |->
                   IF rows[i][k].status = "running" THEN [rows[i][k] EXCEPT !.status = "error"] ELSE rows[i][k]]
<1>1. rows[i] \in Seq(Row) /\ Len(rows[i]) \in Nat /\ DOMAIN rows[i] = 1..Len(rows[i])
  BY RowsAre
<1>2. ASSUME NEW k \in DOMAIN rows[i]
      PROVE  t[k] \in Row /\ t[k].item = rows[i][k].item /\ t[k].status # "running"
  <2>1. rows[i][k] \in Row
    BY RowsAre
  <2>2. QED
    BY <2>1 DEF Row, Statuses
<1>3. t \in Seq(Row) /\ Len(t) = Len(rows[i]) /\ DOMAIN t = DOMAIN rows[i]
  <2>1. t \in [1..Len(rows[i]) -> Row]
    BY <1>1, <1>2
  <2> HIDE DEF t
  <2>2. QED
    BY <1>1, <2>1, FunctionIsSequence
<1>4. /\ TimedOut(i) \in RowsType /\ TimedOut(i)[i] = t
      /\ \A j \in Elements \ {i} : TimedOut(i)[j] = rows[j]
  BY <1>3 DEF TimedOut, RowsType
<1>5. QED
  BY <1>2, <1>3, <1>4 DEF Restated

\* Marking rows never opens one.
LEMMA MarkedRows ==
  ASSUME rows \in RowsType, NEW from, NEW to \in Statuses \ {"running"}
  PROVE  /\ Restated(Marked(from, to))
         /\ \A i \in Elements : \A k \in DOMAIN rows[i] :
              Marked(from, to)[i][k].status = "running" =>
                rows[i][k].status = "running" /\ "running" \notin from
<1> DEFINE t(i) == [k \in DOMAIN rows[i] |->
                      IF rows[i][k].status \in from THEN [rows[i][k] EXCEPT !.status = to] ELSE rows[i][k]]
<1>1. ASSUME NEW i \in Elements, NEW k \in DOMAIN rows[i]
      PROVE  /\ t(i)[k] \in Row /\ t(i)[k].item = rows[i][k].item
             /\ t(i)[k].status = "running" => rows[i][k].status = "running" /\ "running" \notin from
  <2>1. rows[i][k] \in Row
    BY RowsAre
  <2>2. QED
    BY <2>1 DEF Row, Statuses
<1>2. ASSUME NEW i \in Elements
      PROVE  t(i) \in Seq(Row) /\ Len(t(i)) = Len(rows[i]) /\ DOMAIN t(i) = DOMAIN rows[i]
  <2>1. Len(rows[i]) \in Nat /\ DOMAIN rows[i] = 1..Len(rows[i])
    BY RowsAre
  <2>2. t(i) \in [1..Len(rows[i]) -> Row]
    BY <1>1, <2>1
  <2> HIDE DEF t
  <2>3. QED
    BY <2>1, <2>2, FunctionIsSequence
<1>3. Marked(from, to) \in RowsType /\ \A i \in Elements : Marked(from, to)[i] = t(i)
  BY <1>2 DEF Marked, RowsType
<1> HIDE DEF t
<1>4. Restated(Marked(from, to))
  BY <1>1, <1>2, <1>3 DEF Restated
<1>5. ASSUME NEW i \in Elements, NEW k \in DOMAIN rows[i], Marked(from, to)[i][k].status = "running"
      PROVE  rows[i][k].status = "running" /\ "running" \notin from
  <2>1. t(i)[k].status = "running"
    BY <1>3, <1>5
  <2>2. QED
    BY <1>1, <2>1
<1>6. QED
  BY <1>4, <1>5

\* Maps from elements, extended, cut and empty.
LEMMA MapWith ==
  ASSUME NEW f, NEW S, IsMap(f, S), NEW i \in Elements, NEW v \in S
  PROVE  /\ IsMap(With(f, i, v), S) /\ DOMAIN With(f, i, v) = DOMAIN f \cup {i}
         /\ With(f, i, v)[i] = v /\ \A j \in DOMAIN f : j # i => With(f, i, v)[j] = f[j]
BY DEF With, IsMap

LEMMA MapWithout ==
  ASSUME NEW f, NEW S, IsMap(f, S), NEW i
  PROVE  IsMap(Without(f, i), S) /\ DOMAIN Without(f, i) = DOMAIN f \ {i}
BY DEF Without, IsMap

LEMMA EmptyMap == \A S : IsMap(<<>>, S) /\ DOMAIN <<>> = {}
BY DEF IsMap

\* A new pass starts from the newest success of every index that has one.
LEMMA PreservedType ==
  ASSUME TypeOK
  PROVE  /\ IsMap(Preserved, Items)
         /\ \A i \in DOMAIN Preserved :
              i \in DOMAIN source /\ \E k \in DOMAIN rows[i] : Preserved[i] = rows[i][k].item
<1> DEFINE last(i) == CHOOSE k \in Successes(i) : \A q \in Successes(i) : q <= k
<1>1. rows \in RowsType /\ source \in Sources /\ DOMAIN source \subseteq Elements
  BY SourceType DEF TypeOK, RowsType
<1>2. ASSUME NEW i \in Elements, Successes(i) # {}
      PROVE  last(i) \in DOMAIN rows[i]
  <2>1. Len(rows[i]) \in Nat /\ DOMAIN rows[i] = 1..Len(rows[i])
    BY <1>1, RowsAre
  <2>2. Successes(i) \in SUBSET (1..Len(rows[i]))
    BY <2>1 DEF Successes
  <2>3. \E k \in Successes(i) : \A q \in Successes(i) : q <= k
    BY <1>2, <2>1, <2>2, LastPosition
  <2>4. QED
    BY <2>1, <2>2, <2>3
<1>3. ASSUME NEW i \in DOMAIN Preserved
      PROVE  /\ i \in DOMAIN source /\ last(i) \in DOMAIN rows[i]
             /\ Preserved[i] = rows[i][last(i)].item
  <2>1. i \in DOMAIN source /\ Successes(i) # {} /\ Preserved[i] = rows[i][last(i)].item
    BY DEF Preserved
  <2>2. QED
    BY <1>1, <1>2, <2>1
<1> HIDE DEF last
<1>4. ASSUME NEW i \in DOMAIN Preserved PROVE Preserved[i] \in Items
  <2>1. rows[i][last(i)] \in Row
    BY <1>1, <1>3, RowsAre
  <2>2. QED
    BY <1>3, <2>1 DEF Row
<1>5. DOMAIN Preserved \subseteq Elements
  BY <1>1, <1>3
<1>6. QED
  BY <1>3, <1>4, <1>5 DEF IsMap

-----------------------------------------------------------------------------
(* One lemma per action. *)

\* The flags and the rest of the types, apart.
Flags ==
  keyStored \in BOOLEAN /\ firstError \in BOOLEAN /\ secretSeen \in BOOLEAN /\ interrupted \in BOOLEAN

Data ==
  /\ source \in Sources
  /\ rows \in RowsType
  /\ inFlight \subseteq Elements \X (Nat \ {0})
  /\ \A e \in inFlight : e[2] \in DOMAIN rows[e[1]]
  /\ phase \in {"idle", "running", "over"}
  /\ cursor \in Nat \ {0}
  /\ IsMap(awaited, 0..ElementRetries) /\ IsMap(preserved, Items) /\ IsMap(aggregated, Items)
  /\ result \in {"none", "success", "error", "secret_pending"}
  /\ events \in [passes : Nat, crashes : Nat, rewinds : Nat, migrations : Nat]

LEMMA TypeParts == TypeOK <=> Flags /\ Data
BY Zenon DEF TypeOK, Flags, Data, RowsType

LEMMA TypePartsNext == TypeOK' <=> Flags' /\ Data'
BY TypeParts, PTL

Counts == [passes : Nat, crashes : Nat, rewinds : Nat, migrations : Nat]

LEMMA CountsType ==
  ASSUME NEW c \in Counts
  PROVE  /\ [c EXCEPT !.passes = @ + 1] \in Counts /\ [c EXCEPT !.crashes = @ + 1] \in Counts
         /\ [c EXCEPT !.rewinds = @ + 1] \in Counts /\ [c EXCEPT !.migrations = @ + 1] \in Counts
<1>1. c.passes \in Nat /\ c.crashes \in Nat /\ c.rewinds \in Nat /\ c.migrations \in Nat
  BY DEF Counts
<1>2. [c EXCEPT !.passes = @ + 1] \in Counts
  BY <1>1 DEF Counts
<1>3. [c EXCEPT !.crashes = @ + 1] \in Counts
  BY <1>1 DEF Counts
<1>4. [c EXCEPT !.rewinds = @ + 1] \in Counts
  BY <1>1 DEF Counts
<1>5. [c EXCEPT !.migrations = @ + 1] \in Counts
  BY <1>1 DEF Counts
<1>6. QED
  BY <1>2, <1>3, <1>4, <1>5

LEMMA FanoutInit == Init => FanoutInv
<1> SUFFICES ASSUME Init PROVE FanoutInv
  OBVIOUS
<1>1. Len(source) \in Nat /\ DOMAIN source = 1..Len(source)
  BY SourceType DEF Init
<1>2. DOMAIN <<>> = {} /\ \A S : IsMap(<<>>, S)
  BY EmptyMap
<1>3. rows \in [Elements -> Seq(Row)]
  BY DEF Init
<1>4. TypeOK
  <2>1. Flags
    BY DEF Init, Flags
  <2>2. Data
    BY <1>2, <1>3 DEF Init, Data, RowsType
  <2>3. QED
    BY <2>1, <2>2, TypeParts
<1>5. OpenRowsAwaited /\ Between
  BY <1>2 DEF Init, OpenRowsAwaited, Between
<1>6. CursorInv
  BY <1>1, <1>2 DEF Init, CursorInv, Stopped
<1>7. QED
  BY <1>4, <1>5, <1>6 DEF FanoutInv

\* What the invariant says of the variables, for the steps below.
LEMMA Known ==
  ASSUME FanoutInv
  PROVE  /\ Flags /\ Data /\ OpenRowsAwaited /\ Between /\ CursorInv
         /\ rows \in RowsType /\ source \in Sources
         /\ IsMap(awaited, 0..ElementRetries) /\ IsMap(preserved, Items) /\ IsMap(aggregated, Items)
         /\ Len(source) \in Nat /\ DOMAIN source = 1..Len(source) /\ DOMAIN source \subseteq Elements
         /\ \A i \in DOMAIN source : source[i] \in Items
         /\ cursor \in Nat \ {0} /\ cursor <= Len(source) + 1
         /\ \A i \in DOMAIN awaited : i \in DOMAIN source /\ i \in Elements /\ i < cursor
         /\ \A i \in Elements : Len(rows[i]) \in Nat /\ DOMAIN rows[i] = 1..Len(rows[i])
<1>1. Flags /\ Data /\ OpenRowsAwaited /\ Between /\ CursorInv
  BY TypeParts, Zenon DEF FanoutInv
<1>2. /\ rows \in RowsType /\ source \in Sources /\ cursor \in Nat \ {0}
      /\ IsMap(awaited, 0..ElementRetries) /\ IsMap(preserved, Items) /\ IsMap(aggregated, Items)
  BY <1>1 DEF Data
<1>3. /\ Len(source) \in Nat /\ DOMAIN source = 1..Len(source) /\ DOMAIN source \subseteq Elements
      /\ \A i \in DOMAIN source : source[i] \in Items
  BY <1>2, SourceType
<1>4. cursor <= Len(source) + 1
  BY <1>1 DEF CursorInv
<1>5. \A i \in DOMAIN awaited : i \in DOMAIN source /\ i < cursor
  BY <1>1 DEF CursorInv
<1>6. \A i \in Elements : Len(rows[i]) \in Nat /\ DOMAIN rows[i] = 1..Len(rows[i])
  BY <1>2, RowsAre
<1>7. QED
  BY <1>1, <1>2, <1>3, <1>4, <1>5, <1>6

LEMMA StartKeeps == FanoutInv /\ Start => FanoutInv'
<1> SUFFICES ASSUME FanoutInv, Start PROVE FanoutInv'
  OBVIOUS
<1>1. TypeOK'
  <2>1. Flags /\ Data /\ IsMap(Preserved, Items)
    BY TypeParts, PreservedType DEF FanoutInv
  <2>2. Flags'
    BY <2>1 DEF Start, Flags
  <2>3. events' \in Counts
    BY <2>1, CountsType DEF Start, Data, Counts
  <2>4. phase' = "running" /\ preserved' = Preserved
    BY DEF Start
  <2>5. UNCHANGED <<source, rows, inFlight, cursor, awaited, aggregated, result>>
    BY DEF Start
  <2>6. Data'
    BY <2>1, <2>3, <2>4, <2>5 DEF Data, IsMap, Counts
  <2>7. QED
    BY <2>2, <2>6, TypePartsNext
<1>2. OpenRowsAwaited'
  BY DEF FanoutInv, Start, OpenRowsAwaited
<1>3. Between' /\ CursorInv'
  BY DEF FanoutInv, Start, Between, CursorInv, Stopped
<1>4. QED
  BY <1>1, <1>2, <1>3 DEF FanoutInv

LEMMA ReuseKeeps == FanoutInv /\ Reuse => FanoutInv'
<1> SUFFICES ASSUME FanoutInv, Reuse PROVE FanoutInv'
  OBVIOUS
<1>1. cursor \in DOMAIN source /\ cursor \in Elements /\ preserved[cursor] \in Items
  BY Known DEF IsMap, Reuse, WorkerTakes
<1>2. /\ IsMap(aggregated', Items) /\ DOMAIN aggregated' = DOMAIN aggregated \cup {cursor}
  <2>1. IsMap(aggregated, Items) /\ aggregated' = With(aggregated, cursor, preserved[cursor])
    BY Known DEF Reuse
  <2>2. QED
    BY <1>1, <2>1, MapWith
<1>3. cursor' = cursor + 1 /\ cursor' \in Nat \ {0} /\ cursor' <= Len(source) + 1
  BY Known DEF Reuse, WorkerTakes
<1>4. TypeOK'
  <2>1. Flags /\ Data
    BY TypeParts DEF FanoutInv
  <2>2. Flags'
    BY <2>1 DEF Reuse, Flags
  <2>3. Data'
    BY <1>2, <1>3, <2>1 DEF Reuse, Data
  <2>4. QED
    BY <2>2, <2>3, TypePartsNext
<1>5. OpenRowsAwaited' /\ Between'
  BY DEF FanoutInv, Reuse, WorkerTakes, OpenRowsAwaited, Between
<1>6. CursorInv'
  BY <1>1, <1>2, <1>3, Known DEF FanoutInv, Reuse, WorkerTakes, CursorInv, Stopped, Between
<1>7. QED
  BY <1>4, <1>5, <1>6 DEF FanoutInv

LEMMA BailKeeps == FanoutInv /\ Bail => FanoutInv'
<1> SUFFICES ASSUME FanoutInv, Bail PROVE FanoutInv'
  OBVIOUS
<1>1. cursor' = cursor + 1 /\ cursor' \in Nat \ {0} /\ cursor' <= Len(source) + 1
  BY Known DEF Bail, WorkerTakes
<1>2. TypeOK'
  <2>1. Flags /\ Data
    BY TypeParts DEF FanoutInv
  <2>2. Flags'
    BY <2>1 DEF Bail, Flags
  <2>3. Data'
    BY <1>1, <2>1 DEF Bail, Data, IsMap
  <2>4. QED
    BY <2>2, <2>3, TypePartsNext
<1>3. OpenRowsAwaited' /\ Between'
  BY DEF FanoutInv, Bail, WorkerTakes, OpenRowsAwaited, Between
<1>4. CursorInv'
  BY <1>1, Known DEF FanoutInv, Bail, WorkerTakes, CursorInv, Stopped, Between
<1>5. QED
  BY <1>2, <1>3, <1>4 DEF FanoutInv

\* Between the try that ended and the next, no row of the element is open.
RestsWith(i, rs) ==
  /\ Restated(rs)
  /\ \A j \in Elements \ {i} : rs[j] = rows[j]
  /\ \A k \in DOMAIN rows[i] : rs[i][k].status # "running"

\* Closing the try a worker waits for leaves the element at rest.
LEMMA ClosedRests ==
  ASSUME FanoutInv, NEW i \in DOMAIN awaited, TryOf(i) \in inFlight,
         NEW status \in Statuses \ {"running"}
  PROVE  RestsWith(i, Closed(TryOf(i), status))
<1>1. i \in Elements /\ Len(rows[i]) \in Nat /\ DOMAIN rows[i] = 1..Len(rows[i]) /\ rows \in RowsType
  BY Known
<1>2. TryOf(i) = <<i, Len(rows[i])>>
  BY DEF TryOf
<1>3. Len(rows[i]) \in DOMAIN rows[i]
  BY <1>2, Known DEF Data
<1>4. \A k \in DOMAIN rows[i] : rows[i][k].status = "running" => k = Len(rows[i])
  BY <1>1, Known DEF OpenRowsAwaited
<1>5. /\ Restated(Closed(TryOf(i), status))
      /\ \A j \in Elements \ {i} : Closed(TryOf(i), status)[j] = rows[j]
      /\ \A k \in DOMAIN rows[i] : k # Len(rows[i]) => Closed(TryOf(i), status)[i][k] = rows[i][k]
      /\ Closed(TryOf(i), status)[i][Len(rows[i])].status = status
  <2> DEFINE n == Len(rows[i])
  <2>1. n \in DOMAIN rows[i] /\ status \in Statuses
    BY <1>3
  <2> HIDE DEF n
  <2>2. /\ Restated(Closed(<<i, n>>, status))
        /\ \A j \in Elements \ {i} : Closed(<<i, n>>, status)[j] = rows[j]
        /\ \A k \in DOMAIN rows[i] : k # n => Closed(<<i, n>>, status)[i][k] = rows[i][k]
        /\ Closed(<<i, n>>, status)[i][n].status = status
    BY <1>1, <2>1, ClosedRows
  <2>3. QED
    BY <1>2, <2>2 DEF n
<1>6. ASSUME NEW k \in DOMAIN rows[i] PROVE Closed(TryOf(i), status)[i][k].status # "running"
  <2>1. CASE k = Len(rows[i])
    BY <1>5, <2>1
  <2>2. CASE k # Len(rows[i])
    BY <1>4, <1>5, <2>2
  <2>3. QED
    BY <2>1, <2>2
<1>7. QED
  BY <1>5, <1>6 DEF RestsWith

\* So does the timeout, whose executor still runs.
LEMMA TimedOutRests ==
  ASSUME FanoutInv, NEW i \in DOMAIN awaited PROVE RestsWith(i, TimedOut(i))
BY Known, TimedOutRows DEF RestsWith

\* An element that rests is not awaited any more: nothing of it is open.
LEMMA RestedRows ==
  ASSUME FanoutInv, NEW i \in DOMAIN awaited, RestsWith(i, rows'),
         inFlight' \subseteq inFlight, awaited' = Without(awaited, i)
  PROVE  /\ OpenRowsAwaited'
         /\ rows' \in RowsType
         /\ inFlight' \subseteq Elements \X (Nat \ {0})
         /\ \A e \in inFlight' : e[2] \in DOMAIN rows'[e[1]]
         /\ IsMap(awaited', 0..ElementRetries) /\ DOMAIN awaited' = DOMAIN awaited \ {i}
<1>1. Restated(rows') /\ rows' \in RowsType /\ \A j \in Elements : DOMAIN rows'[j] = DOMAIN rows[j]
  BY DEF RestsWith, Restated
<1>2. IsMap(awaited', 0..ElementRetries) /\ DOMAIN awaited' = DOMAIN awaited \ {i}
  BY Known, MapWithout
<1>3. OpenRowsAwaited'
  BY <1>1, <1>2, Known DEF OpenRowsAwaited, RestsWith
<1>4. /\ inFlight' \subseteq Elements \X (Nat \ {0})
      /\ \A e \in inFlight' : e[2] \in DOMAIN rows'[e[1]]
  BY <1>1, Known DEF Data
<1>5. QED
  BY <1>1, <1>2, <1>3, <1>4

\* An element that is tried again has one open row, its newest.
LEMMA TriedAgain ==
  ASSUME FanoutInv, NEW i \in DOMAIN awaited, NEW rs, RestsWith(i, rs),
         NEW flying \in SUBSET inFlight, awaited[i] > 0,
         rows' = Opened(rs, i), inFlight' = flying \cup {<<i, Len(rs[i]) + 1>>},
         awaited' = With(awaited, i, awaited[i] - 1)
  PROVE  /\ OpenRowsAwaited'
         /\ rows' \in RowsType
         /\ inFlight' \subseteq Elements \X (Nat \ {0})
         /\ \A e \in inFlight' : e[2] \in DOMAIN rows'[e[1]]
         /\ IsMap(awaited', 0..ElementRetries) /\ DOMAIN awaited' = DOMAIN awaited
<1>1. i \in Elements /\ source[i] \in Items /\ Len(rows[i]) \in Nat /\ DOMAIN rows[i] = 1..Len(rows[i])
  BY Known
<1>2. /\ rs \in RowsType /\ \A j \in Elements : Len(rs[j]) = Len(rows[j]) /\ DOMAIN rs[j] = DOMAIN rows[j]
      /\ \A j \in Elements \ {i} : rs[j] = rows[j]
      /\ \A k \in DOMAIN rows[i] : rs[i][k].status # "running"
  BY DEF RestsWith, Restated
<1>3. /\ rows' \in RowsType
      /\ \A j \in Elements \ {i} : rows'[j] = rows[j]
      /\ Len(rows'[i]) = Len(rows[i]) + 1 /\ DOMAIN rows'[i] = 1..(Len(rows[i]) + 1)
      /\ \A k \in DOMAIN rows[i] : rows'[i][k] = rs[i][k]
  <2>1. rs \in RowsType /\ Len(rs[i]) = Len(rows[i]) /\ DOMAIN rows[i] = 1..Len(rs[i])
    BY <1>1, <1>2
  <2>2. /\ rows' \in RowsType
        /\ \A j \in Elements \ {i} : rows'[j] = rs[j]
        /\ Len(rows'[i]) = Len(rs[i]) + 1 /\ DOMAIN rows'[i] = 1..(Len(rs[i]) + 1)
        /\ \A k \in 1..Len(rs[i]) : rows'[i][k] = rs[i][k]
    BY <1>1, <2>1, OpenedRows
  <2>3. QED
    BY <1>2, <2>1, <2>2
<1>4. awaited[i] - 1 \in 0..ElementRetries
  <2>1. awaited[i] \in 0..ElementRetries
    BY Known DEF IsMap
  <2>2. QED
    BY <2>1
<1>5. IsMap(awaited', 0..ElementRetries) /\ DOMAIN awaited' = DOMAIN awaited
  <2>1. IsMap(awaited, 0..ElementRetries) /\ DOMAIN awaited \cup {i} = DOMAIN awaited
    BY Known
  <2>2. QED
    BY <1>1, <1>4, <2>1 DEF IsMap, With
<1>6. OpenRowsAwaited'
  <2> SUFFICES ASSUME NEW j \in Elements, NEW k \in DOMAIN rows'[j], rows'[j][k].status = "running"
               PROVE  j \in DOMAIN awaited /\ k = Len(rows'[j])
    BY <1>5 DEF OpenRowsAwaited
  <2>1. CASE j = i
    <3>1. k \in 1..(Len(rows[i]) + 1) /\ (k \in DOMAIN rows[i] => rows'[i][k] = rs[i][k])
      BY <1>3, <2>1
    <3>2. k \notin DOMAIN rows[i]
      BY <1>2, <2>1, <3>1
    <3>3. QED
      BY <1>1, <1>3, <2>1, <3>1, <3>2
  <2>2. CASE j # i
    <3>1. rows'[j] = rows[j]
      BY <1>3, <2>2
    <3>2. QED
      BY <3>1, Known DEF OpenRowsAwaited
  <2>3. QED
    BY <2>1, <2>2
<1>7. /\ inFlight' \subseteq Elements \X (Nat \ {0})
      /\ \A e \in inFlight' : e[2] \in DOMAIN rows'[e[1]]
  <2>1. \A e \in flying : e \in Elements \X (Nat \ {0}) /\ e[2] \in DOMAIN rows[e[1]]
    BY Known DEF Data
  <2>2. \A e \in flying : e[2] \in DOMAIN rows'[e[1]]
    BY <1>1, <1>3, <2>1
  <2>3. QED
    BY <1>1, <1>2, <1>3, <2>1, <2>2
<1>8. QED
  BY <1>3, <1>5, <1>6, <1>7

\* A try that ended without an output: the next one, or the end of the element.
LEMMA NextTryKeeps ==
  ASSUME FanoutInv, NEW i \in DOMAIN awaited, NEW rs, RestsWith(i, rs), NEW flying \in SUBSET inFlight,
         NextTry(i, rs, flying),
         UNCHANGED <<source, keyStored, phase, cursor, preserved, aggregated,
                     secretSeen, interrupted, result, events>>
  PROVE  FanoutInv'
<1> DEFINE rowFacts ==
      /\ OpenRowsAwaited'
      /\ rows' \in RowsType
      /\ inFlight' \subseteq Elements \X (Nat \ {0})
      /\ \A e \in inFlight' : e[2] \in DOMAIN rows'[e[1]]
      /\ IsMap(awaited', 0..ElementRetries)
<1>1. \/ rowFacts /\ DOMAIN awaited' = DOMAIN awaited /\ firstError' = firstError
      \/ rowFacts /\ DOMAIN awaited' = DOMAIN awaited \ {i} /\ firstError' = TRUE
  <2>1. CASE /\ awaited[i] > 0
             /\ rows' = Opened(rs, i)
             /\ inFlight' = flying \cup {<<i, Len(rs[i]) + 1>>}
             /\ awaited' = With(awaited, i, awaited[i] - 1)
             /\ UNCHANGED firstError
    BY <2>1, TriedAgain
  <2>2. CASE /\ rows' = rs /\ inFlight' = flying
             /\ awaited' = Without(awaited, i)
             /\ firstError' = TRUE
    BY <2>2, RestedRows
  <2>3. QED
    BY <2>1, <2>2 DEF NextTry
<1>2. rowFacts
  BY <1>1
<1>3. Flags'
  BY <1>1, Known DEF Flags
<1>4. Data'
  <2>1. UNCHANGED <<source, phase, cursor, preserved, aggregated, result, events>>
    OBVIOUS
  <2>2. QED
    BY <1>2, <2>1, Known DEF Data, IsMap
<1>5. Between' /\ CursorInv'
  BY <1>1, Known DEF Between, CursorInv, Stopped
<1>6. QED
  BY <1>2, <1>3, <1>4, <1>5, TypePartsNext DEF FanoutInv

LEMMA BeginKeeps == FanoutInv /\ Begin => FanoutInv'
<1> SUFFICES ASSUME FanoutInv, Begin PROVE FanoutInv'
  OBVIOUS
<1> DEFINE c == cursor
           n == Len(rows[c]) + 1
<1>1. /\ c \in Elements /\ c \in DOMAIN source /\ source[c] \in Items /\ c \notin DOMAIN awaited
      /\ Len(rows[c]) \in Nat /\ DOMAIN rows[c] = 1..Len(rows[c]) /\ rows \in RowsType
  BY Known DEF Begin, WorkerTakes
<1>2. /\ rows' \in RowsType
      /\ \A j \in Elements \ {c} : rows'[j] = rows[j]
      /\ Len(rows'[c]) = n /\ DOMAIN rows'[c] = 1..n
      /\ \A k \in DOMAIN rows[c] : rows'[c][k] = rows[c][k]
  <2>1. rows' = Opened(rows, c)
    BY DEF Begin
  <2>2. /\ Opened(rows, c) \in RowsType
        /\ \A j \in Elements \ {c} : Opened(rows, c)[j] = rows[j]
        /\ Len(Opened(rows, c)[c]) = Len(rows[c]) + 1
        /\ DOMAIN Opened(rows, c)[c] = 1..(Len(rows[c]) + 1)
        /\ \A k \in 1..Len(rows[c]) : Opened(rows, c)[c][k] = rows[c][k]
    BY <1>1, OpenedRows, Zenon
  <2>3. QED
    BY <1>1, <2>1, <2>2
<1>3. IsMap(awaited', 0..ElementRetries) /\ DOMAIN awaited' = DOMAIN awaited \cup {c}
  <2>1. IsMap(awaited, 0..ElementRetries) /\ awaited' = With(awaited, c, ElementRetries)
    BY Known DEF Begin
  <2>2. QED
    BY <1>1, <2>1 DEF IsMap, With
<1>4. cursor' = c + 1 /\ cursor' \in Nat \ {0} /\ cursor' <= Len(source) + 1
  BY Known DEF Begin, WorkerTakes
<1>5. OpenRowsAwaited'
  <2> SUFFICES ASSUME NEW j \in Elements, NEW k \in DOMAIN rows'[j], rows'[j][k].status = "running"
               PROVE  j \in DOMAIN awaited' /\ k = Len(rows'[j])
    BY DEF OpenRowsAwaited
  <2>1. CASE j = c
    <3>1. k \in 1..n /\ (k \in DOMAIN rows[c] => rows'[c][k] = rows[c][k])
      BY <1>2, <2>1
    <3>2. k \notin DOMAIN rows[c]
      BY <1>1, <2>1, <3>1, Known DEF OpenRowsAwaited
    <3>3. QED
      BY <1>1, <1>2, <1>3, <2>1, <3>1, <3>2
  <2>2. CASE j # c
    <3>1. rows'[j] = rows[j]
      BY <1>2, <2>2
    <3>2. QED
      BY <1>3, <3>1, Known DEF OpenRowsAwaited
  <2>3. QED
    BY <2>1, <2>2
<1>6. /\ inFlight' \subseteq Elements \X (Nat \ {0})
      /\ \A e \in inFlight' : e[2] \in DOMAIN rows'[e[1]]
  <2>1. \A e \in inFlight : e \in Elements \X (Nat \ {0}) /\ e[2] \in DOMAIN rows[e[1]]
    BY Known DEF Data
  <2>2. \A e \in inFlight : e[2] \in DOMAIN rows'[e[1]]
    BY <1>1, <1>2, <2>1
  <2>3. inFlight' = inFlight \cup {<<c, n>>}
    BY DEF Begin
  <2>4. QED
    BY <1>1, <1>2, <2>1, <2>2, <2>3
<1>7. Flags'
  BY Known DEF Begin, Flags
<1>8. Data'
  <2>1. UNCHANGED <<source, phase, preserved, aggregated, result, events>>
    BY DEF Begin
  <2>2. QED
    BY <1>2, <1>3, <1>4, <1>6, <2>1, Known DEF Data, IsMap
<1>9. Between' /\ CursorInv'
  BY <1>1, <1>3, <1>4, Known DEF Begin, WorkerTakes, Between, CursorInv, Stopped
<1>10. QED
  BY <1>5, <1>7, <1>8, <1>9, TypePartsNext DEF FanoutInv

LEMMA FailsKeeps == \A i \in Elements : FanoutInv /\ TryFails(i) => FanoutInv'
<1> SUFFICES ASSUME NEW i \in Elements, FanoutInv, TryFails(i) PROVE FanoutInv'
  OBVIOUS
<1>1. i \in DOMAIN awaited /\ RestsWith(i, Closed(TryOf(i), "error"))
  BY ClosedRests DEF TryFails, Statuses
<1>2. QED
  BY <1>1, NextTryKeeps DEF TryFails

LEMMA TimesOutKeeps == \A i \in Elements : FanoutInv /\ TryTimesOut(i) => FanoutInv'
<1> SUFFICES ASSUME NEW i \in Elements, FanoutInv, TryTimesOut(i) PROVE FanoutInv'
  OBVIOUS
<1>1. i \in DOMAIN awaited /\ RestsWith(i, TimedOut(i))
  BY TimedOutRests DEF TryTimesOut
<1>2. QED
  BY <1>1, NextTryKeeps DEF TryTimesOut

LEMMA SucceedsKeeps == \A i \in Elements : FanoutInv /\ TrySucceeds(i) => FanoutInv'
<1> SUFFICES ASSUME NEW i \in Elements, FanoutInv, TrySucceeds(i) PROVE FanoutInv'
  OBVIOUS
<1>1. i \in DOMAIN awaited /\ RestsWith(i, rows')
  BY ClosedRests DEF TrySucceeds, Statuses
<1>2. /\ OpenRowsAwaited'
      /\ rows' \in RowsType
      /\ inFlight' \subseteq Elements \X (Nat \ {0})
      /\ \A e \in inFlight' : e[2] \in DOMAIN rows'[e[1]]
      /\ IsMap(awaited', 0..ElementRetries) /\ DOMAIN awaited' = DOMAIN awaited \ {i}
  BY <1>1, RestedRows DEF TrySucceeds
<1>3. IsMap(aggregated', Items) /\ DOMAIN aggregated' = DOMAIN aggregated \cup {i}
  <2> DEFINE v == rows[i][Len(rows[i])].item
  <2>1. Len(rows[i]) \in DOMAIN rows[i]
    BY <1>1, Known DEF TrySucceeds, TryOf, Data
  <2>2. v \in Items
    BY <2>1, Known, RowsAre DEF Row
  <2>3. IsMap(aggregated, Items) /\ aggregated' = With(aggregated, i, v)
    BY Known DEF TrySucceeds, Collected
  <2> HIDE DEF v
  <2>4. QED
    BY <2>2, <2>3, MapWith
<1>4. Flags'
  BY Known DEF TrySucceeds, Flags
<1>5. Data'
  <2>1. UNCHANGED <<source, phase, cursor, preserved, result, events>>
    BY DEF TrySucceeds
  <2>2. QED
    BY <1>2, <1>3, <2>1, Known DEF Data, IsMap
<1>6. Between' /\ CursorInv'
  BY <1>1, <1>2, <1>3, Known DEF TrySucceeds, Between, CursorInv, Stopped
<1>7. QED
  BY <1>2, <1>4, <1>5, <1>6, TypePartsNext DEF FanoutInv

LEMMA PausesKeeps == \A i \in Elements : FanoutInv /\ TryPauses(i) => FanoutInv'
<1> SUFFICES ASSUME NEW i \in Elements, FanoutInv, TryPauses(i) PROVE FanoutInv'
  OBVIOUS
<1>1. i \in DOMAIN awaited /\ RestsWith(i, rows')
  BY ClosedRests DEF TryPauses, Statuses
<1>2. /\ OpenRowsAwaited'
      /\ rows' \in RowsType
      /\ inFlight' \subseteq Elements \X (Nat \ {0})
      /\ \A e \in inFlight' : e[2] \in DOMAIN rows'[e[1]]
      /\ IsMap(awaited', 0..ElementRetries) /\ DOMAIN awaited' = DOMAIN awaited \ {i}
  BY <1>1, RestedRows DEF TryPauses
<1>3. Flags'
  BY Known DEF TryPauses, Flags
<1>4. Data'
  <2>1. UNCHANGED <<source, phase, cursor, preserved, aggregated, result, events>>
    BY DEF TryPauses
  <2>2. QED
    BY <1>2, <2>1, Known DEF Data, IsMap
<1>5. Between' /\ CursorInv'
  BY <1>1, <1>2, Known DEF TryPauses, Between, CursorInv, Stopped
<1>6. QED
  BY <1>2, <1>3, <1>4, <1>5, TypePartsNext DEF FanoutInv

LEMMA LateEndKeeps ==
  \A e \in inFlight, status \in {"success", "error", "secret_pending"} :
    FanoutInv /\ LateEnd(e, status) => FanoutInv'
<1> SUFFICES ASSUME NEW e \in inFlight, NEW status \in {"success", "error", "secret_pending"},
                    FanoutInv, LateEnd(e, status)
             PROVE  FanoutInv'
  OBVIOUS
<1>1. PICK i \in Elements : \E k \in DOMAIN rows[i] : e = <<i, k>>
  BY Known DEF Data
<1>2. PICK k \in DOMAIN rows[i] : e = <<i, k>>
  BY <1>1
<1>3. /\ Restated(rows')
      /\ \A j \in Elements \ {i} : rows'[j] = rows[j]
      /\ \A q \in DOMAIN rows[i] : q # k => rows'[i][q] = rows[i][q]
      /\ rows'[i][k].status # "running"
  <2>1. rows \in RowsType /\ rows' = Closed(<<i, k>>, status)
    BY <1>2, Known DEF LateEnd
  <2>2. status \in Statuses /\ status # "running"
    BY DEF Statuses
  <2>3. QED
    BY <2>1, <2>2, ClosedRows
<1>4. \A j \in Elements : \A q \in DOMAIN rows'[j] :
        rows'[j][q].status = "running" => rows[j][q].status = "running"
  <2> SUFFICES ASSUME NEW j \in Elements, NEW q \in DOMAIN rows'[j], rows'[j][q].status = "running"
               PROVE  rows[j][q].status = "running"
    OBVIOUS
  <2>1. CASE j = i
    BY <1>3, <2>1 DEF Restated
  <2>2. CASE j # i
    BY <1>3, <2>2
  <2>3. QED
    BY <2>1, <2>2
<1>5. OpenRowsAwaited'
  <2>1. awaited' = awaited
    BY DEF LateEnd
  <2>2. QED
    BY <1>3, <1>4, <2>1, Known DEF OpenRowsAwaited, Restated
<1>6. Flags'
  BY Known DEF LateEnd, Flags
<1>7. Data'
  <2>1. UNCHANGED <<source, phase, cursor, awaited, preserved, aggregated, result, events>>
    BY DEF LateEnd
  <2>2. inFlight' \subseteq inFlight
    BY DEF LateEnd
  <2>3. QED
    BY <1>3, <2>1, <2>2, Known DEF Data, IsMap, Restated
<1>8. Between' /\ CursorInv'
  BY Known DEF LateEnd, Between, CursorInv, Stopped
<1>9. QED
  BY <1>5, <1>6, <1>7, <1>8, TypePartsNext DEF FanoutInv

LEMMA PassEndsKeeps == FanoutInv /\ PassEnds => FanoutInv'
<1> SUFFICES ASSUME FanoutInv, PassEnds PROVE FanoutInv'
  OBVIOUS
<1>1. OpenRowsAwaited'
  BY Known DEF PassEnds, OpenRowsAwaited
<1>2. Flags'
  BY Known DEF PassEnds, Flags
<1>3. result' \in {"error", "secret_pending", "success"} /\ (result' = "success" => ~Stopped)
  BY DEF PassEnds, Stopped
<1>4. Data'
  <2>1. UNCHANGED <<source, rows, inFlight, cursor, awaited, preserved, aggregated, events>> /\ phase' = "over"
    BY DEF PassEnds
  <2>2. QED
    BY <1>3, <2>1, Known DEF Data, IsMap
<1>5. Between'
  BY Known DEF PassEnds, Between
<1>6. CursorInv'
  <2>1. result' = "success" => cursor = Len(source) + 1
    BY <1>3, Known DEF PassEnds
  <2>2. QED
    BY <1>3, <2>1, Known DEF PassEnds, CursorInv, Stopped
<1>7. QED
  BY <1>1, <1>2, <1>4, <1>5, <1>6, TypePartsNext DEF FanoutInv

LEMMA InterruptKeeps == FanoutInv /\ Interrupt => FanoutInv'
<1> SUFFICES ASSUME FanoutInv, Interrupt PROVE FanoutInv'
  OBVIOUS
<1>1. OpenRowsAwaited' /\ Between' /\ CursorInv'
  BY Known DEF Interrupt, OpenRowsAwaited, Between, CursorInv, Stopped
<1>2. Flags'
  BY Known DEF Interrupt, Flags
<1>3. Data'
  <2>1. UNCHANGED <<source, rows, inFlight, phase, cursor, awaited, preserved, aggregated, result, events>>
    BY DEF Interrupt
  <2>2. QED
    BY <2>1, Known DEF Data, IsMap
<1>4. QED
  BY <1>1, <1>2, <1>3, TypePartsNext DEF FanoutInv

\* The call is over and its rows were marked: everything starts afresh.
LEMMA FreshKeeps ==
  ASSUME FanoutInv, NoCall, source' \in Sources, keyStored' \in BOOLEAN, events' \in Counts,
         Restated(rows'), inFlight' \subseteq inFlight,
         \A i \in Elements : \A k \in DOMAIN rows[i] : rows'[i][k].status # "running"
  PROVE  FanoutInv'
<1>1. DOMAIN <<>> = {} /\ \A S : IsMap(<<>>, S)
  BY EmptyMap
<1>2. rows' \in RowsType /\ \A i \in Elements : DOMAIN rows'[i] = DOMAIN rows[i]
  BY DEF Restated
<1>3. Len(source') \in Nat /\ DOMAIN source' = 1..Len(source')
  BY SourceType
<1>4. OpenRowsAwaited'
  BY <1>2 DEF OpenRowsAwaited
<1>5. Between'
  BY <1>1 DEF NoCall, Between
<1>6. CursorInv'
  BY <1>1, <1>3 DEF NoCall, CursorInv, Stopped
<1>7. Flags'
  BY Known DEF NoCall, Flags
<1>8. Data'
  <2>1. /\ phase' = "idle" /\ cursor' = 1 /\ result' = "none"
        /\ awaited' = <<>> /\ preserved' = <<>> /\ aggregated' = <<>>
    BY DEF NoCall
  <2>2. /\ inFlight' \subseteq Elements \X (Nat \ {0})
        /\ \A e \in inFlight' : e[2] \in DOMAIN rows'[e[1]]
    BY <1>2, Known DEF Data
  <2>3. IsMap(awaited', 0..ElementRetries) /\ IsMap(preserved', Items) /\ IsMap(aggregated', Items)
    BY <1>1, <2>1
  <2>4. QED
    BY <1>2, <2>1, <2>2, <2>3 DEF Data, Counts
<1>9. QED
  BY <1>4, <1>5, <1>6, <1>7, <1>8, TypePartsNext DEF FanoutInv

LEMMA CrashKeeps == FanoutInv /\ Crash => FanoutInv'
<1> SUFFICES ASSUME FanoutInv, Crash PROVE FanoutInv'
  OBVIOUS
<1>1. /\ Restated(rows')
      /\ \A i \in Elements : \A k \in DOMAIN rows[i] : rows'[i][k].status # "running"
  <2>1. rows \in RowsType /\ rows' = Marked({"running"}, "superseded")
    BY Known DEF Crash
  <2>2. QED
    BY <2>1, MarkedRows DEF Statuses
<1>2. events' \in Counts
  BY Known, CountsType DEF Crash, Data, Counts
<1>3. source' \in Sources /\ keyStored' \in BOOLEAN /\ inFlight' \subseteq inFlight /\ NoCall
  BY Known DEF Crash, Flags
<1>4. QED
  BY <1>1, <1>2, <1>3, FreshKeeps

\* Nothing is open after a migration, a retry or the provision of a secret.
LEMMA SparedRows ==
  ASSUME FanoutInv
  PROVE  /\ Restated(Spared)
         /\ \A i \in Elements : \A k \in DOMAIN rows[i] : Spared[i][k].status # "running"
BY Known, MarkedRows DEF Spared, Statuses

LEMMA ProvideKeeps == FanoutInv /\ ProvideSecrets => FanoutInv'
<1> SUFFICES ASSUME FanoutInv, ProvideSecrets PROVE FanoutInv'
  OBVIOUS
<1>1. /\ Restated(rows')
      /\ \A i \in Elements : \A k \in DOMAIN rows[i] : rows'[i][k].status # "running"
  BY SparedRows DEF ProvideSecrets
<1>2. events' \in Counts
  BY Known DEF ProvideSecrets, Data, Counts
<1>3. source' \in Sources /\ keyStored' \in BOOLEAN /\ inFlight' \subseteq inFlight /\ NoCall
  BY Known DEF ProvideSecrets
<1>4. QED
  BY <1>1, <1>2, <1>3, FreshKeeps

LEMMA MigrateKeeps == FanoutInv /\ Migrate => FanoutInv'
<1> SUFFICES ASSUME FanoutInv, Migrate PROVE FanoutInv'
  OBVIOUS
<1>1. /\ Restated(rows')
      /\ \A i \in Elements : \A k \in DOMAIN rows[i] : rows'[i][k].status # "running"
  BY SparedRows DEF Migrate
<1>2. events' \in Counts
  BY Known, CountsType DEF Migrate, Data, Counts
<1>3. source' \in Sources /\ keyStored' \in BOOLEAN /\ inFlight' \subseteq inFlight /\ NoCall
  BY Known DEF Migrate, Flags
<1>4. QED
  BY <1>1, <1>2, <1>3, FreshKeeps

LEMMA RewindKeeps == FanoutInv /\ Rewind => FanoutInv'
<1> SUFFICES ASSUME FanoutInv, Rewind PROVE FanoutInv'
  OBVIOUS
<1>1. /\ Restated(rows')
      /\ \A i \in Elements : \A k \in DOMAIN rows[i] :
           rows'[i][k].status = "running" => rows[i][k].status = "running"
  <2>1. rows \in RowsType /\ rows' = Marked({"success"}, "superseded")
    BY Known DEF Rewind, RewoundRows
  <2>2. QED
    BY <2>1, MarkedRows DEF Statuses
<1>2. DOMAIN awaited = {}
  BY Known DEF Rewind, Between
<1>3. \A i \in Elements : \A k \in DOMAIN rows[i] : rows'[i][k].status # "running"
  BY <1>1, <1>2, Known DEF OpenRowsAwaited
<1>4. events' \in Counts
  BY Known, CountsType DEF Rewind, Data, Counts
<1>5. source' \in Sources /\ keyStored' \in BOOLEAN /\ inFlight' \subseteq inFlight /\ NoCall
  BY Known DEF Rewind, Flags
<1>6. QED
  BY <1>1, <1>3, <1>4, <1>5, FreshKeeps

LEMMA StutterKeeps == FanoutInv /\ UNCHANGED vars => FanoutInv'
<1> SUFFICES ASSUME FanoutInv, UNCHANGED vars PROVE FanoutInv'
  OBVIOUS
<1>1. OpenRowsAwaited' /\ Between' /\ CursorInv'
  BY Known DEF vars, OpenRowsAwaited, Between, CursorInv, Stopped
<1>2. Flags'
  BY Known DEF vars, Flags
<1>3. Data'
  <2>1. UNCHANGED <<source, rows, inFlight, phase, cursor, awaited, preserved, aggregated, result, events>>
    BY DEF vars
  <2>2. QED
    BY <2>1, Known DEF Data, IsMap
<1>4. QED
  BY <1>1, <1>2, <1>3, TypePartsNext DEF FanoutInv

LEMMA FanoutStep == FanoutInv /\ [Next]_vars => FanoutInv'
BY StartKeeps, ReuseKeeps, BailKeeps, BeginKeeps, PassEndsKeeps, SucceedsKeeps, FailsKeeps,
   PausesKeeps, TimesOutKeeps, LateEndKeeps, InterruptKeeps, CrashKeeps, ProvideKeeps,
   MigrateKeeps, RewindKeeps, StutterKeeps, Zenon DEF Next

LEMMA FanoutInvariant == Spec => []FanoutInv
BY FanoutInit, FanoutStep, PTL DEF Spec

-----------------------------------------------------------------------------
(* The theorems. *)

\* Fanout.tla: rows, maps and locals keep their types, for any arrays,
\* concurrency and retries.
THEOREM FanoutTypes == Spec => []TypeOK
BY FanoutInvariant, PTL DEF FanoutInv

\* runner-fanout.ts:337: no row of an element is left running once the pass is
\* over, whatever timed out, failed, paused, crashed or was rewound.
THEOREM RowsAreClosed == Spec => []NothingLeftRunning
<1>1. FanoutInv => NothingLeftRunning
  BY DEF FanoutInv, OpenRowsAwaited, Between, NothingLeftRunning
<1>2. QED
  BY <1>1, FanoutInvariant, PTL

\* runner-fanout.ts:414: a stage that succeeds has an output for every element
\* and for no other index, also if the source changed between two passes.
THEOREM SuccessIsComplete == Spec => [](result = "success" => DOMAIN aggregated = DOMAIN source)
<1>1. FanoutInv /\ result = "success" => DOMAIN aggregated = DOMAIN source
  <2> SUFFICES ASSUME FanoutInv, result = "success" PROVE DOMAIN aggregated = DOMAIN source
    OBVIOUS
  <2>1. DOMAIN awaited = {}
    BY Known DEF Between
  <2>2. /\ \A i \in DOMAIN aggregated : i \in DOMAIN source
        /\ \A i \in 1..(cursor - 1) : i \in DOMAIN aggregated
        /\ cursor = Len(source) + 1
    BY <2>1, Known DEF CursorInv
  <2>3. Len(source) \in Nat /\ DOMAIN source = 1..Len(source)
    BY Known
  <2>4. cursor - 1 = Len(source)
    BY <2>2, <2>3
  <2>5. DOMAIN source \subseteq DOMAIN aggregated
    BY <2>2, <2>3, <2>4
  <2>6. DOMAIN aggregated \subseteq DOMAIN source
    BY <2>2
  <2>7. QED
    BY <2>5, <2>6
<1>2. QED
  BY <1>1, FanoutInvariant, PTL

\* runner-fanout.ts:182 and Bug 81: after the first error, the first pause or
\* an interrupt, no element begins.
THEOREM StopIsHeeded == Spec => NoNewElementAfterStop
<1>1. ASSUME FanoutInv, [Next]_vars, phase = "running" /\ (firstError \/ secretSeen \/ interrupted)
      PROVE  DOMAIN awaited' \subseteq DOMAIN awaited
  <2>1. \A i \in DOMAIN awaited : \A v : DOMAIN With(awaited, i, v) = DOMAIN awaited
    BY DEF With
  <2>2. \A i : DOMAIN Without(awaited, i) \subseteq DOMAIN awaited
    BY DEF Without
  <2>3. \A i \in DOMAIN awaited : \A rs, fl : NextTry(i, rs, fl) => DOMAIN awaited' \subseteq DOMAIN awaited
    BY <2>1, <2>2 DEF NextTry
  <2>4. CASE UNCHANGED vars
    BY <2>4 DEF vars
  <2>5. CASE Start \/ Reuse \/ Bail \/ Begin \/ PassEnds
    BY <1>1, <2>5 DEF Start, Reuse, Bail, Begin, PassEnds, WorkerTakes, Stopped
  <2>6. ASSUME NEW i \in Elements, TrySucceeds(i) \/ TryFails(i) \/ TryPauses(i) \/ TryTimesOut(i)
        PROVE  DOMAIN awaited' \subseteq DOMAIN awaited
    BY <2>2, <2>3, <2>6 DEF TrySucceeds, TryFails, TryPauses, TryTimesOut
  <2>7. ASSUME NEW e \in inFlight, NEW status, LateEnd(e, status)
        PROVE  DOMAIN awaited' \subseteq DOMAIN awaited
    BY <2>7 DEF LateEnd
  <2>8. CASE Interrupt
    BY <2>8 DEF Interrupt
  <2>9. CASE Crash \/ ProvideSecrets \/ Migrate \/ Rewind
    <3>1. awaited' = <<>>
      BY <2>9 DEF Crash, ProvideSecrets, Migrate, Rewind, NoCall
    <3>2. QED
      BY <3>1, EmptyMap
  <2>10. QED
    BY <1>1, <2>4, <2>5, <2>6, <2>7, <2>8, <2>9, Zenon DEF Next
<1>2. QED
  BY <1>1, FanoutInvariant, PTL DEF Spec, NoNewElementAfterStop

-----------------------------------------------------------------------------
(* The outputs come from the source. *)

\* The log only grows: a step changes statuses, or opens one row, from the
\* source's item.
LogGrows ==
  \/ Restated(rows')
  \/ \E i \in DOMAIN source, rs \in RowsType : Restated(rs) /\ rows' = Opened(rs, i)

LEMMA NothingRestated == rows \in RowsType => Restated(rows)
BY DEF Restated

LEMMA LogStep == FanoutInv /\ [Next]_vars => LogGrows
<1> SUFFICES ASSUME FanoutInv, [Next]_vars PROVE LogGrows
  OBVIOUS
<1>1. Restated(rows) /\ rows \in RowsType
  BY Known, NothingRestated
<1>2. CASE UNCHANGED rows
  BY <1>1, <1>2 DEF LogGrows
<1>3. CASE Begin
  <2>1. cursor \in DOMAIN source /\ rows' = Opened(rows, cursor)
    BY <1>3, Known DEF Begin, WorkerTakes
  <2>2. QED
    BY <1>1, <2>1 DEF LogGrows
<1>4. ASSUME NEW i \in DOMAIN awaited, NEW rs, RestsWith(i, rs), NEW flying, NextTry(i, rs, flying)
      PROVE  LogGrows
  <2>1. Restated(rs) /\ rs \in RowsType /\ i \in DOMAIN source
    BY <1>4, Known DEF RestsWith, Restated
  <2>2. rows' = rs \/ rows' = Opened(rs, i)
    BY <1>4 DEF NextTry
  <2>3. QED
    BY <2>1, <2>2 DEF LogGrows
<1>5. ASSUME NEW i \in Elements, TryFails(i) \/ TryTimesOut(i) PROVE LogGrows
  <2>1. CASE TryFails(i)
    <3>1. i \in DOMAIN awaited /\ RestsWith(i, Closed(TryOf(i), "error"))
      BY <2>1, ClosedRests DEF TryFails, Statuses
    <3>2. QED
      BY <1>4, <2>1, <3>1 DEF TryFails
  <2>2. CASE TryTimesOut(i)
    <3>1. i \in DOMAIN awaited /\ RestsWith(i, TimedOut(i))
      BY <2>2, TimedOutRests DEF TryTimesOut
    <3>2. QED
      BY <1>4, <2>2, <3>1 DEF TryTimesOut
  <2>3. QED
    BY <1>5, <2>1, <2>2
<1>6. ASSUME NEW i \in Elements, TrySucceeds(i) \/ TryPauses(i) PROVE LogGrows
  <2>1. RestsWith(i, rows')
    BY <1>6, ClosedRests DEF TrySucceeds, TryPauses, Statuses
  <2>2. QED
    BY <2>1 DEF RestsWith, LogGrows
<1>7. ASSUME NEW e \in inFlight, NEW status \in {"success", "error", "secret_pending"}, LateEnd(e, status)
      PROVE  LogGrows
  <2>1. PICK i \in Elements : \E k \in DOMAIN rows[i] : e = <<i, k>>
    BY Known DEF Data
  <2>2. PICK k \in DOMAIN rows[i] : e = <<i, k>>
    BY <2>1
  <2>3. status \in Statuses /\ rows' = Closed(<<i, k>>, status)
    BY <1>7, <2>2 DEF LateEnd, Statuses
  <2>4. QED
    BY <1>1, <2>3, ClosedRows DEF LogGrows
<1>8. CASE Crash \/ ProvideSecrets \/ Migrate \/ Rewind
  BY <1>1, <1>8, MarkedRows, SparedRows
  DEF Crash, ProvideSecrets, Migrate, Rewind, RewoundRows, LogGrows, Statuses
<1>9. CASE Start \/ Reuse \/ Bail \/ PassEnds \/ Interrupt
  <2>1. UNCHANGED rows
    BY <1>9 DEF Start, Reuse, Bail, PassEnds, Interrupt
  <2>2. QED
    BY <1>2, <2>1
<1>10. CASE UNCHANGED vars
  <2>1. UNCHANGED rows
    BY <1>10 DEF vars
  <2>2. QED
    BY <1>2, <2>1
<1>11. QED
  BY <1>3, <1>5, <1>6, <1>7, <1>8, <1>9, <1>10, Zenon DEF Next

LEMMA RowsStep == FanoutInv /\ RowsFromSources /\ [Next]_vars => RowsFromSources'
<1> SUFFICES ASSUME FanoutInv, RowsFromSources, [Next]_vars PROVE RowsFromSources'
  OBVIOUS
<1>1. CASE Restated(rows')
  BY <1>1 DEF RowsFromSources, Restated
<1>2. ASSUME NEW i \in DOMAIN source, NEW rs \in RowsType, Restated(rs), rows' = Opened(rs, i)
      PROVE  RowsFromSources'
  <2>1. /\ i \in Elements /\ source[i] \in Items /\ source \in Sources
        /\ Len(rows[i]) \in Nat /\ DOMAIN rows[i] = 1..Len(rows[i])
    BY Known
  <2>2. /\ \A j \in Elements : DOMAIN rs[j] = DOMAIN rows[j]
        /\ \A j \in Elements : \A k \in DOMAIN rows[j] : rs[j][k].item = rows[j][k].item
        /\ Len(rs[i]) = Len(rows[i])
    BY <1>2, <2>1 DEF Restated
  <2>3. /\ \A j \in Elements \ {i} : rows'[j] = rs[j]
        /\ DOMAIN rows'[i] = 1..(Len(rs[i]) + 1)
        /\ \A k \in 1..Len(rs[i]) : rows'[i][k] = rs[i][k]
        /\ rows'[i][Len(rs[i]) + 1] = [item |-> source[i], status |-> "running"]
    BY <1>2, <2>1, OpenedRows
  <2> SUFFICES ASSUME NEW j \in Elements, NEW k \in DOMAIN rows'[j]
               PROVE  \E s \in Sources : j \in DOMAIN s /\ rows'[j][k].item = s[j]
    BY DEF RowsFromSources
  <2>4. CASE j = i /\ k = Len(rows[i]) + 1
    <3>1. rows'[j][k].item = source[j]
      BY <2>2, <2>3, <2>4
    <3>2. QED
      BY <2>1, <2>4, <3>1
  <2>5. CASE j = i /\ k # Len(rows[i]) + 1
    <3>1. k \in DOMAIN rows[i]
      BY <2>1, <2>2, <2>3, <2>5
    <3>2. rows'[j][k].item = rows[j][k].item
      BY <2>1, <2>2, <2>3, <2>5, <3>1
    <3>3. QED
      BY <2>5, <3>1, <3>2 DEF RowsFromSources
  <2>6. CASE j # i
    <3>1. k \in DOMAIN rows[j] /\ rows'[j][k].item = rows[j][k].item
      BY <2>2, <2>3, <2>6
    <3>2. QED
      BY <3>1 DEF RowsFromSources
  <2>7. QED
    BY <2>4, <2>5, <2>6
<1>3. QED
  BY <1>1, <1>2, LogStep DEF LogGrows

\* The rows of an index the source has were opened for the source's item.
LEMMA RowsMatch ==
  ASSUME SameItems, FanoutInv, RowsFromSources, NEW i \in DOMAIN source, NEW k \in DOMAIN rows[i]
  PROVE  rows[i][k].item = source[i]
<1>1. source \in Sources /\ i \in Elements
  BY Known
<1>2. PICK s \in Sources : i \in DOMAIN s /\ rows[i][k].item = s[i]
  BY <1>1 DEF RowsFromSources
<1>3. QED
  BY <1>1, <1>2 DEF SameItems

LEMMA FromStep ==
  ASSUME SameItems PROVE FanoutInv /\ RowsFromSources /\ FromSource /\ [Next]_vars => FromSource'
<1> SUFFICES ASSUME FanoutInv, RowsFromSources, FromSource, [Next]_vars PROVE FromSource'
  OBVIOUS
<1>1. CASE UNCHANGED <<source, preserved, aggregated>>
  BY <1>1 DEF FromSource
<1>2. CASE Start
  <2>1. \A i \in DOMAIN Preserved : i \in DOMAIN source /\ Preserved[i] = source[i]
    BY PreservedType, RowsMatch DEF FanoutInv
  <2>2. QED
    BY <1>2, <2>1 DEF Start, FromSource
<1>3. ASSUME NEW i \in DOMAIN source, aggregated' = With(aggregated, i, source[i]), UNCHANGED <<source, preserved>>
      PROVE  FromSource'
  BY <1>3 DEF FromSource, With
<1>4. CASE Reuse
  BY <1>3, <1>4 DEF Reuse, FromSource
<1>5. ASSUME NEW i \in Elements, TrySucceeds(i) PROVE FromSource'
  <2>1. i \in DOMAIN source /\ Len(rows[i]) \in DOMAIN rows[i]
    BY <1>5, Known DEF TrySucceeds, TryOf, Data
  <2>2. aggregated' = With(aggregated, i, source[i])
    BY <1>5, <2>1, RowsMatch DEF TrySucceeds, Collected
  <2>3. QED
    BY <1>3, <1>5, <2>1, <2>2 DEF TrySucceeds
<1>6. CASE Crash \/ ProvideSecrets \/ Migrate \/ Rewind
  <2>1. preserved' = <<>> /\ aggregated' = <<>>
    BY <1>6 DEF Crash, ProvideSecrets, Migrate, Rewind, NoCall
  <2>2. QED
    BY <2>1, EmptyMap DEF FromSource
<1>7. CASE Bail \/ Begin \/ PassEnds \/ Interrupt
  BY <1>1, <1>7 DEF Bail, Begin, PassEnds, Interrupt
<1>8. ASSUME NEW i \in Elements, TryFails(i) \/ TryPauses(i) \/ TryTimesOut(i) PROVE FromSource'
  BY <1>1, <1>8 DEF TryFails, TryPauses, TryTimesOut
<1>9. ASSUME NEW e \in inFlight, NEW status, LateEnd(e, status) PROVE FromSource'
  BY <1>1, <1>9 DEF LateEnd
<1>10. CASE UNCHANGED vars
  BY <1>1, <1>10 DEF vars
<1>11. QED
  BY <1>2, <1>4, <1>5, <1>6, <1>7, <1>8, <1>9, <1>10, Zenon DEF Next

\* runner-fanout.ts:118 and :414: outputs are assigned by index, in the order
\* of the input: a stage that succeeds publishes one per element, each computed
\* from the element the source holds now, if the arrays agree on the indices
\* they share.  Without that a row of another array is reused (MCFanoutStale).
THEOREM AggregateIsSource ==
  ASSUME SameItems PROVE Spec => []AggregateMatchesSource
<1>1. Init => RowsFromSources /\ FromSource
  <2> SUFFICES ASSUME Init PROVE RowsFromSources /\ FromSource
    OBVIOUS
  <2>1. rows = [i \in Elements |-> <<>>] /\ preserved = <<>> /\ aggregated = <<>>
    BY DEF Init
  <2>2. RowsFromSources
    BY <2>1, EmptyMap DEF RowsFromSources
  <2>3. FromSource
    BY <2>1, EmptyMap DEF FromSource
  <2>4. QED
    BY <2>2, <2>3
<1>2. Spec => [](FanoutInv /\ RowsFromSources /\ FromSource)
  BY <1>1, FanoutInit, FanoutStep, RowsStep, FromStep, PTL DEF Spec
<1>3. (result = "success" => DOMAIN aggregated = DOMAIN source) /\ FanoutInv /\ FromSource
        => AggregateMatchesSource
  <2> SUFFICES ASSUME FanoutInv, FromSource, result = "success", DOMAIN aggregated = DOMAIN source
               PROVE  aggregated = source
    BY DEF AggregateMatchesSource
  <2>1. aggregated = [i \in DOMAIN source |-> source[i]]
    BY DEF FromSource
  <2>2. source \in Seq(Items)
    BY Known
  <2>3. QED
    BY <2>1, <2>2
<1>4. QED
  BY <1>2, <1>3, SuccessIsComplete, PTL
=============================================================================
