------------------------- MODULE EventStreamProofs -------------------------
(***************************************************************************)
(* The delivery guarantees of the event stream, for any number of clients, *)
(* drivers and callers, any ring and any bounds: a resuming client never   *)
(* sees an event twice or out of order, no connected client loses an event *)
(* the ring still holds, and nobody waits for an event that is there.      *)
(***************************************************************************)
EXTENDS EventStream, TLAPS

USE DEF Subscribers

\* How many events the task had before this server started.
Base == published - nextSeq + 1

\* What is in the ring or in flight was published by this server, under its number.
Stamped(e) == 1 <= e.seq /\ e.seq < nextSeq /\ e.id = e.seq + Base

Numbers == 1 <= nextSeq /\ 0 <= Base /\ 1 <= lifetime

RingIsStamped ==
  /\ \A e \in history : Stamped(e)
  /\ \A e, f \in history : e.seq = f.seq => e = f

FlightIsStamped ==
  \A c \in Clients : \A e \in wire[c] :
    /\ c \in open
    /\ Stamped(e)
    /\ \A f \in wire[c] : e.seq = f.seq => e = f
    /\ \A f \in history : e.seq = f.seq => e = f

\* Nobody was told of an event that is still to come.
ToldArePast == \A s \in Subscribers : \A i \in told[s] : i <= published

\* A resuming client acknowledges all it received, also to a server that restarted.
Acknowledged == \A c \in Resuming : \A i \in told[c] : i <= Base + last[c]

\* Whoever is connected or waits has its listener in the set.
OpenIsHeard == \A s \in open : <<s, calls[s]>> \in listeners

\* While the server lives nobody acknowledges more than there is, and what was
\* acknowledged and is retained was told.
PositionsAreTrue ==
  lifetime = 1 =>
    /\ \A s \in Subscribers : last[s] < nextSeq
    /\ \A c \in Resuming : \A e \in history : e.seq <= last[c] => e.id \in told[c]
    /\ \A d \in Drivers : \A e \in history :
         e.kind \in Wanted[d] /\ e.seq <= last[d] => e.id \in told[d]

\* The inductive invariant.
StreamInv ==
  /\ TypeOK
  /\ Numbers
  /\ RingIsStamped
  /\ FlightIsStamped
  /\ ToldArePast
  /\ Acknowledged
  /\ OpenIsHeard
  /\ PositionsAreTrue
  /\ OnlyNewsInFlight
  /\ NothingRetainedIsLost
  /\ NobodyWaitsInVain

-----------------------------------------------------------------------------
\* The invariant holds of a server that has just started for the first time.
LEMMA StreamInit == Init => StreamInv
<1> SUFFICES ASSUME Init PROVE StreamInv
  OBVIOUS
<1>1. TypeOK
  BY DEF Init, TypeOK, Verdicts, Tasks
<1>2. Numbers /\ RingIsStamped /\ ToldArePast /\ Acknowledged /\ OpenIsHeard
  BY SubscribersAssumption DEF Init, Numbers, Base, RingIsStamped, ToldArePast, Acknowledged,
     OpenIsHeard
<1>3. FlightIsStamped /\ PositionsAreTrue
  BY SubscribersAssumption DEF Init, FlightIsStamped, PositionsAreTrue
<1>4. OnlyNewsInFlight /\ NothingRetainedIsLost /\ NobodyWaitsInVain
  BY SubscribersAssumption DEF Init, OnlyNewsInFlight, NothingRetainedIsLost, NobodyWaitsInVain
<1> QED
  BY <1>1, <1>2, <1>3, <1>4 DEF StreamInv

\* Steps of the runner that publish nothing.
LEMMA SilentStep ==
  ASSUME StreamInv, task' \in Tasks, task'.gate => task.gate, UNCHANGED <<bus, calls, lifetime>>
  PROVE  StreamInv'
BY DEF StreamInv, bus, TypeOK, Numbers, Base, RingIsStamped, FlightIsStamped, Stamped, ToldArePast,
   Acknowledged, OpenIsHeard, PositionsAreTrue, OnlyNewsInFlight, NothingRetainedIsLost,
   NobodyWaitsInVain, Decides

\* The event a publication makes.
New(kind, ok) == [id |-> published + 1, seq |-> nextSeq, kind |-> kind, ok |-> ok]

\* The waits it settles.
Settled(e, gate) == {s \in Hearing \ Clients : Matches(s, e, gate)}

\* Publication: everybody connected gets the event, and every wait it is for returns.
LEMMA PublishStep ==
  ASSUME NEW kind \in Kinds, NEW ok \in BOOLEAN, NEW gate \in BOOLEAN,
         StreamInv, task' \in Tasks, Publish(kind, ok, gate), task'.gate = gate,
         gate => task.gate \/ kind = "gate_opened"
  PROVE  StreamInv'
<1> USE SubscribersAssumption
<1>e. PICK e : e = New(kind, ok)
  OBVIOUS
<1>s. PICK S : S = Settled(e, gate)
  OBVIOUS
<1>1. /\ e \in Events /\ e.id = published + 1 /\ e.seq = nextSeq /\ e.kind = kind
      /\ S \subseteq Drivers \cup Callers /\ S \subseteq open
  BY <1>e, <1>s DEF New, Settled, Hearing, StreamInv, TypeOK, Events
<1>2. /\ published' = published + 1 /\ nextSeq' = nextSeq + 1 /\ lifetime' = lifetime
      /\ calls' = calls /\ open' = open \ S
      /\ history' = Trimmed(history \cup {e}, nextSeq)
      /\ wire' = [c \in Clients |-> IF c \in Hearing THEN wire[c] \cup {e} ELSE wire[c]]
      /\ told' = [s \in Subscribers |-> IF s \in S THEN told[s] \cup {e.id} ELSE told[s]]
      /\ last' = [s \in Subscribers |-> IF s \in S \cap Drivers THEN e.seq ELSE last[s]]
      /\ verdict' = [w \in Callers |-> IF w \in S THEN Verdict(e) ELSE verdict[w]]
      /\ \E gone \in SUBSET Stale : listeners' = (listeners \ gone) \ {<<s, calls[s]>> : s \in S}
  BY <1>e, <1>s DEF Publish, Return, New, Settled
<1>3. history' \subseteq history \cup {e} /\ Base' = Base
  BY <1>2, LimitAssumption DEF Trimmed, Base, StreamInv, TypeOK
<1>4. TypeOK'
  <2>1. history' \subseteq Events /\ wire' \in [Clients -> SUBSET Events]
    BY <1>1, <1>2, <1>3 DEF StreamInv, TypeOK
  <2>2. told' \in [Subscribers -> SUBSET Nat] /\ last' \in [Subscribers -> Nat]
    BY <1>1, <1>2 DEF StreamInv, TypeOK, Events
  <2>3. verdict' \in [Callers -> Verdicts]
    BY <1>2 DEF StreamInv, TypeOK, Verdict, Verdicts
  <2>4. listeners' \subseteq Subscribers \X Nat /\ open' \subseteq Subscribers
    BY <1>2 DEF StreamInv, TypeOK
  <2>5. nextSeq' \in Nat /\ published' \in Nat /\ lifetime' \in Nat
    BY <1>2 DEF StreamInv, TypeOK
  <2>6. calls' \in [Subscribers -> Nat]
    BY <1>2 DEF StreamInv, TypeOK
  <2> QED
    BY <2>1, <2>2, <2>3, <2>4, <2>5, <2>6 DEF TypeOK
<1>5. Numbers'
  BY <1>2, <1>3 DEF StreamInv, Numbers, TypeOK
<1>6. /\ Stamped(e)'
      /\ \A f \in Events : Stamped(f) => Stamped(f)' /\ f.seq < e.seq
  <2>1. nextSeq \in Nat /\ published \in Nat /\ 1 <= nextSeq
    BY DEF StreamInv, TypeOK, Numbers
  <2>2. Stamped(e)'
    BY <1>1, <1>2, <1>3, <2>1 DEF Stamped, Base
  <2>3. ASSUME NEW f \in Events, Stamped(f) PROVE Stamped(f)' /\ f.seq < e.seq
    BY <1>1, <1>2, <1>3, <2>1, <2>3 DEF Stamped, Base, Events
  <2> QED
    BY <2>2, <2>3
<1>7. RingIsStamped'
  <2>1. \A f \in history : f \in Events /\ Stamped(f)' /\ f.seq < e.seq
    BY <1>6 DEF StreamInv, TypeOK, RingIsStamped
  <2>2. \A f \in history' : Stamped(f)'
    BY <1>3, <1>6, <2>1
  <2>3. \A f, g \in history' : f.seq = g.seq => f = g
    BY <1>1, <1>3, <2>1 DEF StreamInv, RingIsStamped, Events
  <2> QED
    BY <2>2, <2>3 DEF RingIsStamped, Stamped, Base
<1>8. FlightIsStamped'
  <2> SUFFICES ASSUME NEW c \in Clients, NEW x \in wire'[c]
               PROVE  /\ c \in open'
                      /\ Stamped(x)'
                      /\ \A f \in wire'[c] : x.seq = f.seq => x = f
                      /\ \A f \in history' : x.seq = f.seq => x = f
    BY DEF FlightIsStamped, Stamped, Base
  <2>1. wire'[c] \subseteq wire[c] \cup {e} /\ (e \in wire'[c] => c \in open \/ e \in wire[c])
    BY <1>2 DEF Hearing
  <2>2. wire[c] \subseteq Events /\ history \subseteq Events
    BY DEF StreamInv, TypeOK
  <2>3. \A y \in wire[c] : y.seq < e.seq /\ Stamped(y)'
    BY <1>6, <2>2 DEF StreamInv, FlightIsStamped
  <2>4. \A y \in history : y.seq < e.seq
    BY <1>6, <2>2 DEF StreamInv, RingIsStamped
  <2>5. c \in open' /\ Stamped(x)'
    <3>1. c \in open
      BY <2>1 DEF StreamInv, FlightIsStamped
    <3>2. c \in open'
      BY <1>1, <1>2, <3>1
    <3>3. Stamped(x)'
      BY <1>6, <2>1, <2>3
    <3> QED
      BY <3>2, <3>3
  <2>6. \A f \in wire'[c] \cup history' : x.seq = f.seq => x = f
    BY <1>1, <1>3, <2>1, <2>2, <2>3, <2>4 DEF StreamInv, FlightIsStamped, Events
  <2> QED
    BY <2>5, <2>6
<1>9. ToldArePast' /\ Acknowledged'
  <2>1. ToldArePast'
    BY <1>1, <1>2 DEF ToldArePast, StreamInv, TypeOK
  <2>2. \A c \in Clients : told'[c] = told[c] /\ last'[c] = last[c]
    BY <1>1, <1>2
  <2> QED
    BY <1>3, <2>1, <2>2 DEF Acknowledged, StreamInv
<1>10. OpenIsHeard'
  <2> SUFFICES ASSUME NEW s \in open' PROVE <<s, calls'[s]>> \in listeners'
    BY DEF OpenIsHeard
  <2>1. s \in open /\ s \notin S /\ <<s, calls[s]>> \in listeners
    BY <1>2 DEF StreamInv, OpenIsHeard
  <2>2. <<s, calls[s]>> \notin Stale
    BY <2>1 DEF Stale
  <2> QED
    BY <1>2, <2>1, <2>2
<1>11. PositionsAreTrue'
  <2> SUFFICES ASSUME lifetime = 1 PROVE PositionsAreTrue'
    BY <1>2 DEF PositionsAreTrue
  <2>1. \A s \in Subscribers : last[s] < nextSeq /\ last[s] \in Nat
    BY DEF StreamInv, PositionsAreTrue, TypeOK
  <2>2. \A s \in Subscribers : last'[s] < nextSeq'
    BY <1>1, <1>2, <2>1 DEF StreamInv, TypeOK
  <2>3. ASSUME NEW c \in Resuming, NEW x \in history', x.seq <= last'[c]
        PROVE  x.id \in told'[c]
    <3>1. last'[c] = last[c] /\ told'[c] = told[c]
      BY <1>1, <1>2
    <3>2. x # e
      BY <1>1, <2>1, <2>3, <3>1 DEF StreamInv, TypeOK
    <3> QED
      BY <1>3, <2>3, <3>1, <3>2 DEF StreamInv, PositionsAreTrue
  <2>4. ASSUME NEW d \in Drivers, NEW x \in history', x.kind \in Wanted[d], x.seq <= last'[d]
        PROVE  x.id \in told'[d]
    <3>1. CASE d \notin S
      <4>1. last'[d] = last[d] /\ told'[d] = told[d]
        BY <1>2, <3>1
      <4>2. x # e
        BY <1>1, <2>1, <2>4, <4>1 DEF StreamInv, TypeOK
      <4> QED
        BY <1>3, <2>4, <4>1, <4>2 DEF StreamInv, PositionsAreTrue
    <3>2. CASE d \in S
      <4>1. told'[d] = told[d] \cup {e.id} /\ d \in open
        BY <1>1, <1>2, <3>2
      <4>2. CASE x = e
        BY <4>1, <4>2
      <4>3. CASE x # e
        BY <1>3, <2>4, <4>1, <4>3 DEF StreamInv, NobodyWaitsInVain
      <4> QED
        BY <4>2, <4>3
    <3> QED
      BY <3>1, <3>2
  <2> QED
    BY <2>2, <2>3, <2>4 DEF PositionsAreTrue
<1>12. OnlyNewsInFlight'
  <2> SUFFICES ASSUME NEW c \in Resuming, NEW x \in wire'[c], NEW i \in told'[c]
               PROVE  i < x.id
    BY DEF OnlyNewsInFlight
  <2>1. told'[c] = told[c] /\ wire'[c] \subseteq wire[c] \cup {e}
    BY <1>1, <1>2
  <2>2. i \in Nat /\ i <= published /\ published \in Nat
    BY <2>1 DEF StreamInv, ToldArePast, TypeOK
  <2> QED
    BY <1>1, <2>1, <2>2 DEF StreamInv, OnlyNewsInFlight
<1>13. NothingRetainedIsLost'
  <2> SUFFICES ASSUME NEW c \in Clients \cap open', lifetime = 1 \/ c \notin Resuming,
                      NEW x \in history'
               PROVE  x.id \in told'[c] \/ x \in wire'[c]
    BY <1>2 DEF NothingRetainedIsLost
  <2>1. c \in open /\ c \in Hearing
    BY <1>2 DEF Hearing, StreamInv, OpenIsHeard
  <2>2. told'[c] = told[c] /\ wire'[c] = wire[c] \cup {e}
    BY <1>1, <1>2, <2>1
  <2> QED
    BY <1>3, <2>1, <2>2 DEF StreamInv, NothingRetainedIsLost
<1>14. NobodyWaitsInVain'
  <2>1. ASSUME lifetime = 1, NEW d \in Drivers \cap open', NEW x \in history',
               x.kind \in Wanted[d]
        PROVE  x.id \in told'[d]
    <3>1. d \in open /\ d \in Hearing /\ d \notin S /\ told'[d] = told[d]
      BY <1>2, <2>1 DEF Hearing, StreamInv, OpenIsHeard
    <3>2. x # e
      BY <1>s, <1>1, <2>1, <3>1 DEF Settled, Matches, StreamInv, PositionsAreTrue
    <3> QED
      BY <1>3, <2>1, <3>1, <3>2 DEF StreamInv, NobodyWaitsInVain
  <2>2. ASSUME NEW w \in Callers \cap open', NEW x \in history'
        PROVE  ~Decides(x, gate)
    <3>1. w \in open /\ w \in Hearing /\ w \notin S
      BY <1>2 DEF Hearing, StreamInv, OpenIsHeard
    <3>2. ~Decides(e, gate)
      BY <1>s, <3>1 DEF Settled, Matches
    <3>3. x \in history => ~Decides(x, task.gate)
      BY <3>1 DEF StreamInv, NobodyWaitsInVain
    <3> QED
      BY <1>1, <1>3, <3>2, <3>3 DEF Decides
  <2> QED
    BY <1>2, <2>1, <2>2 DEF NobodyWaitsInVain
<1> QED
  BY <1>4, <1>5, <1>7, <1>8, <1>9, <1>10, <1>11, <1>12, <1>13, <1>14 DEF StreamInv

\* A new connection: the ring beyond the acknowledged position is on its way.
LEMMA ConnectStep ==
  ASSUME NEW c \in Clients, StreamInv, Connect(c)
  PROVE  StreamInv'
<1> USE SubscribersAssumption
<1>0. PICK from : from = IF c \in Resuming THEN last[c] ELSE 0
  OBVIOUS
<1>1. /\ from \in Nat /\ from = IF c \in Resuming THEN last[c] ELSE 0
      /\ wire' = [wire EXCEPT ![c] = {e \in history : e.seq > from}]
  BY <1>0 DEF Connect, Replay, StreamInv, TypeOK
<1>2. /\ c \notin open /\ open' = open \cup {c}
      /\ calls' = [calls EXCEPT ![c] = @ + 1]
      /\ listeners' = listeners \cup {<<c, calls[c] + 1>>}
      /\ UNCHANGED <<history, nextSeq, published, last, told, verdict, task, lifetime>>
  BY DEF Connect, Listen
<1>3. /\ wire'[c] = {e \in history : e.seq > from}
      /\ \A x \in Clients \ {c} : wire'[x] = wire[x]
  BY <1>1 DEF StreamInv, TypeOK
<1>4. TypeOK'
  <2>1. wire' \in [Clients -> SUBSET Events]
    BY <1>1 DEF StreamInv, TypeOK
  <2>2. calls' \in [Subscribers -> Nat]
    BY <1>2 DEF StreamInv, TypeOK
  <2>3. listeners' \subseteq Subscribers \X Nat /\ open' \subseteq Subscribers
    BY <1>2 DEF StreamInv, TypeOK
  <2> QED
    BY <1>2, <2>1, <2>2, <2>3 DEF StreamInv, TypeOK
<1>5. Numbers' /\ RingIsStamped' /\ ToldArePast' /\ Acknowledged' /\ PositionsAreTrue'
  BY <1>2 DEF StreamInv, Numbers, Base, RingIsStamped, Stamped, ToldArePast, Acknowledged,
     PositionsAreTrue
<1>6. FlightIsStamped'
  <2> SUFFICES ASSUME NEW x \in Clients, NEW e \in wire'[x]
               PROVE  /\ x \in open' /\ Stamped(e)
                      /\ \A f \in wire'[x] \cup history : e.seq = f.seq => e = f
    BY <1>2 DEF FlightIsStamped, Stamped, Base
  <2>1. CASE x # c
    BY <1>2, <1>3, <2>1 DEF FlightIsStamped, StreamInv
  <2>2. CASE x = c
    BY <1>2, <1>3, <2>2 DEF RingIsStamped, StreamInv
  <2> QED
    BY <2>1, <2>2
<1>7. OpenIsHeard'
  BY <1>2 DEF OpenIsHeard, StreamInv, TypeOK
<1>8. OnlyNewsInFlight'
  <2> SUFFICES ASSUME NEW x \in Resuming, NEW e \in wire'[x], NEW i \in told[x]
               PROVE  i < e.id
    BY <1>2 DEF OnlyNewsInFlight
  <2>1. CASE x # c
    BY <1>3, <2>1 DEF StreamInv, OnlyNewsInFlight
  <2>2. CASE x = c
    <3>1. e \in history /\ e.seq > last[c] /\ e \in Events /\ last[c] \in Nat
      BY <1>1, <1>3, <2>2 DEF StreamInv, TypeOK
    <3>2. i <= Base + last[c] /\ i \in Nat
      BY <2>2 DEF StreamInv, Acknowledged, TypeOK
    <3>3. e.id = e.seq + Base /\ Base \in Int
      BY <3>1 DEF StreamInv, RingIsStamped, Stamped, Base, TypeOK
    <3> QED
      BY <3>1, <3>2, <3>3 DEF Events
  <2> QED
    BY <2>1, <2>2
<1>9. NothingRetainedIsLost'
  <2> SUFFICES ASSUME NEW x \in Clients \cap open', lifetime = 1 \/ x \notin Resuming,
                      NEW e \in history
               PROVE  e.id \in told[x] \/ e \in wire'[x]
    BY <1>2 DEF NothingRetainedIsLost
  <2>1. CASE x # c
    BY <1>2, <1>3, <2>1 DEF StreamInv, NothingRetainedIsLost
  <2>2. CASE x = c /\ c \notin Resuming
    BY <1>1, <1>3, <2>2 DEF StreamInv, RingIsStamped, Stamped, TypeOK, Events
  <2>3. CASE x = c /\ c \in Resuming
    <3>1. e.seq <= last[c] => e.id \in told[c]
      BY <2>3 DEF StreamInv, PositionsAreTrue
    <3>2. e.seq \in Nat /\ last[c] \in Nat
      BY DEF StreamInv, TypeOK, Events
    <3> QED
      BY <1>1, <1>3, <2>3, <3>1, <3>2
  <2> QED
    BY <2>1, <2>2, <2>3
<1>10. NobodyWaitsInVain'
  BY <1>2 DEF StreamInv, NobodyWaitsInVain
<1> QED
  BY <1>4, <1>5, <1>6, <1>7, <1>8, <1>9, <1>10 DEF StreamInv

\* The next frame arrives, and the client remembers its id.
LEMMA ReceiveStep ==
  ASSUME NEW c \in Clients, StreamInv, Receive(c)
  PROVE  StreamInv'
<1> USE SubscribersAssumption
<1>1. PICK e \in wire[c] : /\ IsFirst(e, wire[c])
                           /\ wire' = [wire EXCEPT ![c] = @ \ {e}]
                           /\ last' = [last EXCEPT ![c] = e.seq]
                           /\ told' = [told EXCEPT ![c] = @ \cup {e.id}]
  BY DEF Receive
<1>2. UNCHANGED <<history, nextSeq, published, listeners, open, verdict, calls, task, lifetime>>
  BY DEF Receive
<1>3. /\ e \in Events /\ Stamped(e) /\ c \in open
      /\ \A f \in wire[c] \cup history : e.seq = f.seq => e = f
  BY <1>1 DEF StreamInv, TypeOK, FlightIsStamped
<1>4. /\ wire'[c] = wire[c] \ {e} /\ last'[c] = e.seq /\ told'[c] = told[c] \cup {e.id}
      /\ \A x \in Clients \ {c} : wire'[x] = wire[x]
      /\ \A x \in Subscribers \ {c} : last'[x] = last[x] /\ told'[x] = told[x]
  BY <1>1 DEF StreamInv, TypeOK
<1>5. TypeOK'
  <2>1. wire' \in [Clients -> SUBSET Events]
    BY <1>1 DEF StreamInv, TypeOK
  <2>2. last' \in [Subscribers -> Nat] /\ told' \in [Subscribers -> SUBSET Nat]
    BY <1>1, <1>3 DEF StreamInv, TypeOK, Events
  <2> QED
    BY <1>2, <2>1, <2>2 DEF StreamInv, TypeOK
<1>6. Numbers' /\ RingIsStamped' /\ OpenIsHeard' /\ Base' = Base /\ Base \in Int
  BY <1>2 DEF StreamInv, Numbers, Base, RingIsStamped, Stamped, OpenIsHeard, TypeOK
<1>7. FlightIsStamped'
  <2>1. \A x \in Clients : wire'[x] \subseteq wire[x]
    BY <1>4
  <2> QED
    BY <1>2, <2>1 DEF FlightIsStamped, StreamInv, Stamped, Base
<1>8. ToldArePast'
  <2>1. e.id <= published
    BY <1>3 DEF Stamped, Base, StreamInv, TypeOK, Events
  <2> QED
    BY <1>2, <1>4, <2>1 DEF ToldArePast, StreamInv
<1>9. Acknowledged'
  <2> SUFFICES ASSUME c \in Resuming, NEW i \in told'[c] PROVE i <= Base + e.seq
    BY <1>4, <1>6 DEF Acknowledged, StreamInv
  <2>1. e.id = Base + e.seq /\ e.id \in Nat /\ told[c] \subseteq Nat
    BY <1>3, <1>6 DEF Stamped, StreamInv, TypeOK, Events
  <2>2. i \in told[c] => i < e.id
    BY <1>1 DEF StreamInv, OnlyNewsInFlight
  <2> QED
    BY <1>4, <2>1, <2>2
<1>10. OnlyNewsInFlight'
  <2> SUFFICES ASSUME c \in Resuming, NEW f \in wire'[c], NEW i \in told'[c] PROVE i < f.id
    BY <1>4 DEF OnlyNewsInFlight, StreamInv
  <2>1. f \in wire[c] /\ f # e /\ f \in Events /\ Stamped(f)
    BY <1>4 DEF StreamInv, TypeOK, FlightIsStamped
  <2>2. e.seq < f.seq
    BY <1>1, <1>3, <2>1 DEF IsFirst, Events
  <2>3. e.id < f.id
    BY <1>3, <1>6, <2>1, <2>2 DEF Stamped, Events
  <2> QED
    BY <1>4, <2>1, <2>3 DEF StreamInv, OnlyNewsInFlight
<1>11. NothingRetainedIsLost'
  <2> SUFFICES ASSUME NEW x \in Clients \cap open, lifetime = 1 \/ x \notin Resuming,
                      NEW f \in history
               PROVE  f.id \in told'[x] \/ f \in wire'[x]
    BY <1>2 DEF NothingRetainedIsLost
  <2>1. f.id \in told[x] \/ f \in wire[x]
    BY DEF StreamInv, NothingRetainedIsLost
  <2> QED
    BY <1>4, <2>1
<1>12. NobodyWaitsInVain'
  BY <1>2, <1>4 DEF StreamInv, NobodyWaitsInVain
<1>13. PositionsAreTrue'
  <2> SUFFICES ASSUME lifetime = 1 PROVE PositionsAreTrue'
    BY <1>2 DEF PositionsAreTrue
  <2>1. \A s \in Subscribers : last'[s] < nextSeq
    BY <1>3, <1>4 DEF Stamped, StreamInv, PositionsAreTrue
  <2>2. ASSUME NEW x \in Resuming, NEW f \in history, f.seq <= last'[x]
        PROVE  f.id \in told'[x]
    <3>1. CASE x # c
      BY <1>4, <2>2, <3>1 DEF StreamInv, PositionsAreTrue
    <3>2. CASE x = c
      <4>1. f.seq <= e.seq /\ f \in Events
        BY <1>4, <2>2, <3>2 DEF StreamInv, TypeOK
      <4>2. f.id \in told[c] \/ f \in wire[c]
        BY <1>3, <3>2 DEF StreamInv, NothingRetainedIsLost
      <4>3. f \in wire[c] => f = e
        BY <1>1, <1>3, <4>1 DEF IsFirst, Events
      <4> QED
        BY <1>4, <3>2, <4>2, <4>3
    <3> QED
      BY <3>1, <3>2
  <2>3. ASSUME NEW d \in Drivers, NEW f \in history, f.kind \in Wanted[d], f.seq <= last'[d]
        PROVE  f.id \in told'[d]
    BY <1>4, <2>3 DEF StreamInv, PositionsAreTrue
  <2> QED
    BY <1>2, <2>1, <2>2, <2>3 DEF PositionsAreTrue
<1> QED
  BY <1>5, <1>6, <1>7, <1>8, <1>9, <1>10, <1>11, <1>12, <1>13 DEF StreamInv

\* A broken connection loses what was in flight.
LEMMA DisconnectStep ==
  ASSUME NEW c \in Clients, StreamInv, Disconnect(c)
  PROVE  StreamInv'
<1>1. /\ open' = open \ {c} /\ wire' = [wire EXCEPT ![c] = {}]
      /\ UNCHANGED <<history, nextSeq, published, listeners, last, told, verdict, calls, task,
                     lifetime>>
  BY DEF Disconnect
<1>2. wire'[c] = {} /\ \A x \in Clients \ {c} : wire'[x] = wire[x]
  BY <1>1 DEF StreamInv, TypeOK
<1>3. TypeOK'
  BY <1>1 DEF StreamInv, TypeOK
<1>4. /\ Numbers' /\ RingIsStamped' /\ ToldArePast'
      /\ Acknowledged' /\ OpenIsHeard' /\ PositionsAreTrue'
  BY <1>1 DEF StreamInv, Numbers, Base, RingIsStamped, Stamped, ToldArePast, Acknowledged,
     OpenIsHeard, PositionsAreTrue
<1>5. FlightIsStamped'
  BY <1>1, <1>2 DEF StreamInv, FlightIsStamped, Stamped, Base
<1>6. OnlyNewsInFlight' /\ NothingRetainedIsLost' /\ NobodyWaitsInVain'
  BY <1>1, <1>2, SubscribersAssumption
  DEF StreamInv, OnlyNewsInFlight, NothingRetainedIsLost, NobodyWaitsInVain
<1> QED
  BY <1>3, <1>4, <1>5, <1>6 DEF StreamInv

\* Removing the listener of a connection that is gone takes nobody else's away.
LEMMA CancelStep ==
  ASSUME NEW l \in Stale, StreamInv, Cancel(l)
  PROVE  StreamInv'
<1>1. /\ listeners' = listeners \ {l}
      /\ UNCHANGED <<history, nextSeq, published, open, last, wire, told, verdict, calls, task,
                     lifetime>>
  BY DEF Cancel
<1>2. OpenIsHeard'
  BY <1>1 DEF StreamInv, OpenIsHeard, Stale
<1>3. TypeOK'
  BY <1>1 DEF StreamInv, TypeOK
<1> QED
  BY <1>1, <1>2, <1>3 DEF StreamInv, Numbers, Base, RingIsStamped, FlightIsStamped, Stamped,
     ToldArePast, Acknowledged, PositionsAreTrue, OnlyNewsInFlight, NothingRetainedIsLost,
     NobodyWaitsInVain

\* What a call of a wait finds in the ring.
Found(s) == {e \in Replay(IF s \in Drivers THEN last[s] ELSE 0) : Matches(s, e, task.gate)}

\* A wait that finds nothing joins the listeners: all it is for is yet to come, or
\* was acknowledged before.
LEMMA WaitOnStep ==
  ASSUME NEW s \in Drivers \cup Callers, StreamInv, Wait(s), Found(s) = {},
         open' = open \cup {s}, listeners' = listeners \cup {<<s, calls[s] + 1>>},
         UNCHANGED <<told, last, verdict>>
  PROVE  StreamInv'
<1> USE SubscribersAssumption
<1>1. /\ s \notin open /\ s \notin Clients /\ calls' = [calls EXCEPT ![s] = @ + 1]
      /\ UNCHANGED <<history, nextSeq, published, wire, task, lifetime>>
  BY DEF Wait, Listen
<1>2. TypeOK'
  <2>1. calls' \in [Subscribers -> Nat]
    BY <1>1 DEF StreamInv, TypeOK
  <2>2. listeners' \subseteq Subscribers \X Nat /\ open' \subseteq Subscribers
    BY <1>1 DEF StreamInv, TypeOK
  <2> QED
    BY <1>1, <2>1, <2>2 DEF StreamInv, TypeOK
<1>3. OpenIsHeard'
  BY <1>1 DEF OpenIsHeard, StreamInv, TypeOK
<1>4. Numbers' /\ RingIsStamped' /\ ToldArePast' /\ Acknowledged' /\ PositionsAreTrue'
  BY <1>1 DEF StreamInv, Numbers, Base, RingIsStamped, Stamped, ToldArePast, Acknowledged,
     PositionsAreTrue
<1>5. FlightIsStamped'
  BY <1>1 DEF StreamInv, FlightIsStamped, Stamped, Base
<1>6. OnlyNewsInFlight' /\ NothingRetainedIsLost'
  BY <1>1 DEF StreamInv, OnlyNewsInFlight, NothingRetainedIsLost
<1>7. NobodyWaitsInVain'
  <2>1. ASSUME lifetime = 1, NEW d \in Drivers \cap open', NEW e \in history,
               e.kind \in Wanted[d]
        PROVE  e.id \in told[d]
    <3>1. CASE d # s
      BY <2>1, <3>1 DEF StreamInv, NobodyWaitsInVain
    <3>2. CASE d = s
      <4>1. ~(e.seq > last[s])
        BY <2>1, <3>2 DEF Found, Replay, Matches
      <4>2. e.seq <= last[s]
        BY <4>1 DEF StreamInv, TypeOK, Events
      <4> QED
        BY <2>1, <3>2, <4>2 DEF StreamInv, PositionsAreTrue
    <3> QED
      BY <3>1, <3>2
  <2>2. ASSUME NEW w \in Callers \cap open', NEW e \in history
        PROVE  ~Decides(e, task.gate)
    <3>1. CASE w # s
      BY <2>2, <3>1 DEF StreamInv, NobodyWaitsInVain
    <3>2. CASE w = s
      <4>1. e.seq > 0
        BY DEF StreamInv, RingIsStamped, Stamped, TypeOK, Events
      <4> QED
        BY <3>2, <4>1 DEF Found, Replay, Matches
    <3> QED
      BY <3>1, <3>2
  <2> QED
    BY <1>1, <2>1, <2>2 DEF NobodyWaitsInVain
<1> QED
  BY <1>2, <1>3, <1>4, <1>5, <1>6, <1>7 DEF StreamInv

\* A wait the ring settles: it takes the first event it is for, so the position it
\* returns skips none.
LEMMA WaitOverStep ==
  ASSUME NEW s \in Drivers \cup Callers, StreamInv, Wait(s),
         NEW e \in Found(s), IsFirst(e, Found(s)), Return({s}, e),
         listeners' = IF s \in Drivers THEN listeners \cup {<<s, calls[s] + 1>>} ELSE listeners,
         UNCHANGED open
  PROVE  StreamInv'
<1> USE SubscribersAssumption
<1>1. /\ s \notin open /\ s \notin Clients /\ calls' = [calls EXCEPT ![s] = @ + 1]
      /\ UNCHANGED <<history, nextSeq, published, wire, task, lifetime>>
  BY DEF Wait, Listen
<1>2. /\ e \in history /\ e \in Events /\ Stamped(e)
      /\ \A f \in history : e.seq = f.seq => e = f
  BY DEF Found, Replay, StreamInv, TypeOK, RingIsStamped
<1>3. /\ told' = [x \in Subscribers |-> IF x = s THEN told[x] \cup {e.id} ELSE told[x]]
      /\ last' = [x \in Subscribers |-> IF x = s /\ x \in Drivers THEN e.seq ELSE last[x]]
      /\ verdict' = [w \in Callers |-> IF w = s THEN Verdict(e) ELSE verdict[w]]
  BY DEF Return
<1>4. /\ \A c \in Clients : told'[c] = told[c] /\ last'[c] = last[c]
      /\ \A x \in Subscribers : told[x] \subseteq told'[x]
  BY <1>1, <1>3
<1>5. TypeOK'
  <2>1. calls' \in [Subscribers -> Nat]
    BY <1>1 DEF StreamInv, TypeOK
  <2>2. told' \in [Subscribers -> SUBSET Nat] /\ last' \in [Subscribers -> Nat]
    BY <1>2, <1>3 DEF StreamInv, TypeOK, Events
  <2>3. verdict' \in [Callers -> Verdicts]
    BY <1>3 DEF StreamInv, TypeOK, Verdict, Verdicts
  <2>4. listeners' \subseteq Subscribers \X Nat
    BY <1>1 DEF StreamInv, TypeOK
  <2> QED
    BY <1>1, <2>1, <2>2, <2>3, <2>4 DEF StreamInv, TypeOK
<1>6. OpenIsHeard'
  BY <1>1 DEF OpenIsHeard, StreamInv, TypeOK
<1>7. Numbers' /\ RingIsStamped'
  BY <1>1 DEF StreamInv, Numbers, Base, RingIsStamped, Stamped
<1>8. FlightIsStamped'
  BY <1>1 DEF StreamInv, FlightIsStamped, Stamped, Base
<1>9. ToldArePast'
  <2>1. e.id <= published
    BY <1>2 DEF Stamped, Base, StreamInv, TypeOK, Events
  <2> QED
    BY <1>1, <1>3, <2>1 DEF ToldArePast, StreamInv
<1>10. Acknowledged' /\ OnlyNewsInFlight' /\ NothingRetainedIsLost'
  BY <1>1, <1>4 DEF StreamInv, Acknowledged, Base, OnlyNewsInFlight, NothingRetainedIsLost
<1>11. NobodyWaitsInVain'
  BY <1>1, <1>4 DEF StreamInv, NobodyWaitsInVain
<1>12. PositionsAreTrue'
  <2> SUFFICES ASSUME lifetime = 1 PROVE PositionsAreTrue'
    BY <1>1 DEF PositionsAreTrue
  <2>1. \A x \in Subscribers : last'[x] < nextSeq
    BY <1>2, <1>3 DEF Stamped, StreamInv, PositionsAreTrue
  <2>2. \A c \in Resuming : \A f \in history : f.seq <= last'[c] => f.id \in told'[c]
    BY <1>4 DEF StreamInv, PositionsAreTrue
  <2>3. ASSUME NEW d \in Drivers, NEW f \in history, f.kind \in Wanted[d], f.seq <= last'[d]
        PROVE  f.id \in told'[d]
    <3>1. CASE d # s \/ f.seq <= last[d]
      BY <1>3, <1>4, <2>3, <3>1 DEF StreamInv, PositionsAreTrue
    <3>2. CASE d = s /\ ~(f.seq <= last[d])
      <4>1. f.seq > last[s] /\ f.seq <= e.seq /\ f \in Events
        BY <1>3, <2>3, <3>2 DEF StreamInv, TypeOK, Events
      <4>2. f \in Found(s)
        BY <2>3, <3>2, <4>1 DEF Found, Replay, Matches
      <4>3. f = e
        BY <1>2, <4>1, <4>2 DEF IsFirst, Events
      <4> QED
        BY <1>3, <3>2, <4>3
    <3> QED
      BY <3>1, <3>2
  <2> QED
    BY <1>1, <2>1, <2>2, <2>3 DEF PositionsAreTrue
<1> QED
  BY <1>5, <1>6, <1>7, <1>8, <1>9, <1>10, <1>11, <1>12 DEF StreamInv

\* A call of either tool.
LEMMA WaitStep ==
  ASSUME NEW s \in Drivers \cup Callers, StreamInv, Wait(s)
  PROVE  StreamInv'
<1>1. CASE /\ Found(s) = {}
           /\ open' = open \cup {s}
           /\ listeners' = listeners \cup {<<s, calls[s] + 1>>}
           /\ UNCHANGED <<told, last, verdict>>
  BY <1>1, WaitOnStep
<1>2. CASE /\ \E e \in Found(s) : IsFirst(e, Found(s)) /\ Return({s}, e)
           /\ listeners' = IF s \in Drivers THEN listeners \cup {<<s, calls[s] + 1>>}
                           ELSE listeners
           /\ UNCHANGED open
  BY <1>2, WaitOverStep
<1> QED
  BY <1>1, <1>2 DEF Wait, Found

\* A wait that gives up.
LEMMA TimeoutStep ==
  ASSUME NEW s \in Drivers \cup Callers, StreamInv, Timeout(s)
  PROVE  StreamInv'
<1> USE SubscribersAssumption
<1>1. /\ open' = open \ {s} /\ listeners' = listeners \ {<<s, calls[s]>>}
      /\ s \notin Clients
      /\ UNCHANGED <<history, nextSeq, published, last, wire, told, calls, task, lifetime>>
  BY DEF Timeout
<1>2. TypeOK'
  <2>1. verdict' \in [Callers -> Verdicts]
    BY DEF Timeout, StreamInv, TypeOK, Verdicts
  <2> QED
    BY <1>1, <2>1 DEF StreamInv, TypeOK
<1>3. OpenIsHeard'
  BY <1>1 DEF StreamInv, OpenIsHeard
<1>4. FlightIsStamped'
  BY <1>1 DEF StreamInv, FlightIsStamped, Stamped, Base
<1>5. /\ Numbers' /\ RingIsStamped' /\ ToldArePast' /\ Acknowledged' /\ PositionsAreTrue'
  BY <1>1 DEF StreamInv, Numbers, Base, RingIsStamped, Stamped, ToldArePast, Acknowledged,
     PositionsAreTrue
<1>6. OnlyNewsInFlight' /\ NothingRetainedIsLost' /\ NobodyWaitsInVain'
  BY <1>1 DEF StreamInv, OnlyNewsInFlight, NothingRetainedIsLost, NobodyWaitsInVain
<1> QED
  BY <1>2, <1>3, <1>4, <1>5, <1>6 DEF StreamInv

\* A server that starts again knows nobody and numbers from 1; every event of the
\* lifetimes before counts as its base.
LEMMA RestartStep ==
  ASSUME StreamInv, Restart
  PROVE  StreamInv'
<1> USE SubscribersAssumption
<1>1. /\ lifetime' = lifetime + 1 /\ history' = {} /\ nextSeq' = 1 /\ listeners' = {}
      /\ open' = {} /\ wire' = [c \in Clients |-> {}]
      /\ UNCHANGED <<published, last, told, verdict, calls>>
  BY DEF Restart
<1>2. TypeOK'
  <2>1. task' \in Tasks
    BY DEF Restart, StreamInv, TypeOK, Tasks
  <2>2. wire' \in [Clients -> SUBSET Events]
    BY <1>1
  <2> QED
    BY <1>1, <2>1, <2>2 DEF StreamInv, TypeOK
<1>3. Base' = published /\ published \in Nat /\ Base <= published /\ Base \in Int
  BY <1>1 DEF Base, StreamInv, TypeOK, Numbers
<1>4. Numbers' /\ RingIsStamped' /\ FlightIsStamped' /\ OpenIsHeard' /\ PositionsAreTrue'
  BY <1>1, <1>3 DEF Numbers, RingIsStamped, FlightIsStamped, OpenIsHeard, PositionsAreTrue,
     StreamInv, TypeOK
<1>5. ToldArePast'
  BY <1>1 DEF StreamInv, ToldArePast
<1>6. Acknowledged'
  <2> SUFFICES ASSUME NEW c \in Resuming, NEW i \in told[c] PROVE i <= published + last[c]
    BY <1>1, <1>3 DEF Acknowledged
  <2>1. i <= published /\ i \in Nat /\ last[c] \in Nat
    BY DEF StreamInv, ToldArePast, TypeOK
  <2> QED
    BY <1>3, <2>1
<1>7. OnlyNewsInFlight' /\ NothingRetainedIsLost' /\ NobodyWaitsInVain'
  BY <1>1 DEF OnlyNewsInFlight, NothingRetainedIsLost, NobodyWaitsInVain
<1> QED
  BY <1>2, <1>4, <1>5, <1>6, <1>7 DEF StreamInv

-----------------------------------------------------------------------------
\* What the runner publishes.
LEMMA RunnerPublishes ==
  ASSUME StreamInv, Progress \/ OpenGate \/ StageError \/ SecretMissing \/ RunFinal
  PROVE  StreamInv'
<1>0. task \in Tasks /\ task.gate \in BOOLEAN
  BY DEF StreamInv, TypeOK, Tasks
<1>1. CASE Progress
  <2>1. task' = task /\ Publish("other", TRUE, task.gate)
    BY <1>1 DEF Progress
  <2> QED
    BY <1>0, <2>1, PublishStep DEF Kinds
<1>2. CASE OpenGate
  <2>1. task' \in Tasks /\ task'.gate = TRUE /\ Publish("gate_opened", TRUE, TRUE)
    BY <1>0, <1>2 DEF OpenGate, Tasks
  <2> QED
    BY <1>0, <2>1, PublishStep DEF Kinds
<1>3. CASE StageError
  <2>1. task' \in Tasks /\ task'.gate = task.gate /\ Publish("stage_error", FALSE, task.gate)
    BY <1>0, <1>3 DEF StageError, Tasks
  <2> QED
    BY <1>0, <2>1, PublishStep DEF Kinds
<1>4. CASE SecretMissing
  <2>1. task' \in Tasks /\ task'.gate = task.gate /\ Publish("stage_error", FALSE, task.gate)
    BY <1>0, <1>4 DEF SecretMissing, Tasks
  <2> QED
    BY <1>0, <2>1, PublishStep DEF Kinds
<1>5. CASE RunFinal
  <2>1. PICK ok \in BOOLEAN :
          /\ task' = [task EXCEPT !.state = IF ok THEN "completed" ELSE "failed"]
          /\ Publish("run_final", ok, task.gate)
    BY <1>5 DEF RunFinal
  <2>2. task' \in Tasks /\ task'.gate = task.gate
    BY <1>0, <2>1 DEF Tasks
  <2> QED
    BY <1>0, <2>1, <2>2, PublishStep DEF Kinds
<1> QED
  BY <1>1, <1>2, <1>3, <1>4, <1>5

\* What the runner does without a word to the stream.
LEMMA RunnerIsSilent ==
  ASSUME StreamInv, AnswerGate \/ Pause \/ ProvideSecrets
  PROVE  StreamInv'
<1>0. task \in Tasks
  BY DEF StreamInv, TypeOK
<1>1. UNCHANGED <<bus, calls, lifetime>>
  BY DEF AnswerGate, Pause, ProvideSecrets
<1>2. ASSUME AnswerGate PROVE task' \in Tasks /\ ~task'.gate
  <2>1. PICK rewind \in BOOLEAN :
          task' = [task EXCEPT !.gate = FALSE, !.broken = @ /\ ~rewind]
    BY <1>2 DEF AnswerGate
  <2>2. (task.broken /\ ~rewind) \in BOOLEAN
    OBVIOUS
  <2> QED
    BY <1>0, <2>1, <2>2 DEF Tasks
<1>3. ASSUME Pause PROVE task' \in Tasks /\ task'.gate = task.gate
  BY <1>0, <1>3 DEF Pause, Tasks
<1>4. ASSUME ProvideSecrets PROVE task' \in Tasks /\ ~task'.gate
  BY <1>4 DEF ProvideSecrets, Tasks
<1>5. task' \in Tasks /\ (task'.gate => task.gate)
  BY <1>2, <1>3, <1>4
<1> QED
  BY <1>1, <1>5, SilentStep

\* Every step keeps the invariant.
LEMMA StreamStep == StreamInv /\ [Next]_vars => StreamInv'
<1> SUFFICES ASSUME StreamInv, [Next]_vars PROVE StreamInv'
  OBVIOUS
<1>1. CASE Progress \/ OpenGate \/ StageError \/ SecretMissing \/ RunFinal
  BY <1>1, RunnerPublishes
<1>2. CASE AnswerGate \/ Pause \/ ProvideSecrets
  BY <1>2, RunnerIsSilent
<1>3. ASSUME NEW c \in Clients, Connect(c) \/ Receive(c) \/ Disconnect(c) PROVE StreamInv'
  BY <1>3, ConnectStep, ReceiveStep, DisconnectStep
<1>4. ASSUME NEW l \in Stale, Cancel(l) PROVE StreamInv'
  BY <1>4, CancelStep
<1>5. ASSUME NEW s \in Drivers \cup Callers, Wait(s) \/ Timeout(s) PROVE StreamInv'
  BY <1>5, WaitStep, TimeoutStep
<1>6. CASE Restart
  BY <1>6, RestartStep
<1>7. CASE UNCHANGED vars
  <2>1. task' \in Tasks /\ task' = task /\ UNCHANGED <<bus, calls, lifetime>>
    BY <1>7 DEF vars, StreamInv, TypeOK
  <2> QED
    BY <2>1, SilentStep
<1> QED
  BY <1>1, <1>2, <1>3, <1>4, <1>5, <1>6, <1>7 DEF Next

-----------------------------------------------------------------------------
\* The inductive invariant holds throughout.
THEOREM StreamInvariant == Spec => []StreamInv
<1> QED
  BY StreamInit, StreamStep, PTL DEF Spec

\* All variables keep their types.
THEOREM StreamTypeCorrect == Spec => []TypeOK
<1>1. StreamInv => TypeOK
  BY DEF StreamInv
<1> QED
  BY <1>1, StreamInvariant, PTL

\* A client that sends Last-Event-ID is never given an event twice or out of order,
\* whatever connections break and however often the server restarts.
THEOREM NewsOnly == Spec => []OnlyNewsInFlight
<1>1. StreamInv => OnlyNewsInFlight
  BY DEF StreamInv
<1> QED
  BY <1>1, StreamInvariant, PTL

\* Every event the ring holds has reached each connected client or is on its way.
THEOREM RetainedIsDelivered == Spec => []NothingRetainedIsLost
<1>1. StreamInv => NothingRetainedIsLost
  BY DEF StreamInv
<1> QED
  BY <1>1, StreamInvariant, PTL

\* No wait_for_task_event or wait_pipeline_result sits on an event it is for.
THEOREM WaitsEnd == Spec => []NobodyWaitsInVain
<1>1. StreamInv => NobodyWaitsInVain
  BY DEF StreamInv
<1> QED
  BY <1>1, StreamInvariant, PTL
=============================================================================
