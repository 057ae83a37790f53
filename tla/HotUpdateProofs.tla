--------------------------- MODULE HotUpdateProofs ---------------------------
(* For any submissions and any requests: every agent of a proposed version finds  *)
(* its prompt, and what is approved unseen leaves the graph alone.  Both rest on  *)
(* what makes a version: it is submitted or proposed, so some IR that passed the  *)
(* validator, with prompts that resolve, has its hash.                            *)
EXTENDS HotUpdateProperties, TLAPS

\* No two stages of a name.
Apart(stages) == \A s, u \in stages : s.name = u.name => s = u

StageSet(v) == ToSet(Pool[v].ir.stages)

\* What validation and the check of the prompts leave of a version, whatever the
\* order its file lists the stages in.
Checked(v) ==
  /\ v \in Versions
  /\ Apart(StageSet(v))
  /\ {s.impl : s \in {x \in StageSet(v) : x.type = "agent"}} \subseteq DOMAIN Pool[v].prompts

LEMMA CheckedIfValid ==
  ASSUME NEW v, NEW x, v \in Versions, SameVersion(Pool[v], x), Valid(x.ir), Resolves(x.ir, x.prompts)
  PROVE  Checked(v)
<1>1. ToSet(Pool[v].ir.stages) = ToSet(x.ir.stages) /\ Pool[v].prompts = x.prompts
  BY DEF SameVersion, Canonical
<1>2. Apart(ToSet(x.ir.stages))
  BY DEF Valid, NamesOK, Apart, ToSet
<1>3. {s.impl : s \in {y \in ToSet(x.ir.stages) : y.type = "agent"}} \subseteq DOMAIN x.prompts
  BY DEF Resolves, PromptRefs
<1> QED BY <1>1, <1>2, <1>3 DEF Checked, StageSet

LEMMA PlacesAreVersions ==
  ASSUME NEW S, NEW v \in Places(Pool, S)
  PROVE  v \in Versions /\ \E x \in S : SameVersion(Pool[v], x)
BY DEF Places, Versions

\* submit, updateRegistryPipeline.
LEMMA SubmittedIsChecked ==
  ASSUME NEW v \in Submitted
  PROVE  Checked(v)
<1>1. PICK x \in {s \in ToSet(Submissions) : Accepted(s)} : v \in Versions /\ SameVersion(Pool[v], x)
  BY PlacesAreVersions DEF Submitted
<1>2. Valid(x.ir) /\ Resolves(x.ir, x.prompts)
  BY DEF Accepted, Resolves
<1> QED BY <1>1, <1>2, CheckedIfValid

LEMMA UpdateIsChecked ==
  ASSUME NEW v \in Updates
  PROVE  Checked(v)
<1>1. PICK x \in {s \in ToSet(Submissions) : Updating(s)} : v \in Versions /\ SameVersion(Pool[v], x)
  BY PlacesAreVersions DEF Updates
<1>2. Valid(x.ir) /\ Resolves(x.ir, x.prompts)
  BY DEF Updating
<1> QED BY <1>1, <1>2, CheckedIfValid

\* propose.
LEMMA ProposedIsChecked ==
  ASSUME NEW v \in Versions, NEW prompted \in BOOLEAN, NEW k \in DOMAIN Requests,
         NEW w \in Outcome[v][prompted][k]
  PROVE  Checked(w)
<1>1. Outcome[v][prompted][k] = Places(Pool, Proposed(Pool[v], prompted, Requests[k]))
  BY DEF Outcome, Outcomes, Versions
<1>2. PICK x \in Proposed(Pool[v], prompted, Requests[k]) : w \in Versions /\ SameVersion(Pool[w], x)
  BY <1>1, PlacesAreVersions
<1>3. Valid(x.ir) /\ Resolves(x.ir, x.prompts)
  BY DEF Proposed
<1> QED BY <1>2, <1>3, CheckedIfValid

-----------------------------------------------------------------------------
(* The registry and what refers to it. *)

Reruns == Known \cup {None} \cup {Requests[k].rerun : k \in DOMAIN Requests}
          \cup {Diverges[v][w] : v, w \in Versions}

Listings == BOOLEAN \cup {Requests[k].listed : k \in DOMAIN Requests}

Filings == [base : registry, to : registry, status : {"pending", "approved", "rejected"},
            rerun : Reruns, listed : Listings, auto : BOOLEAN]

\* What no step breaks: the registry holds only what was checked, every reference to a
\* version is to one that is there, only a crash leaves a version without its prompts,
\* and only what Harmless says is harmless was approved unseen.
RegistryInv ==
  /\ faults \in Nat
  /\ \A v \in registry : Checked(v)
  /\ faults = 0 => registry \subseteq stored
  /\ proposals \in Seq(Filings)
  /\ \A k \in DOMAIN proposals :
       proposals[k].auto => Harmless[proposals[k].base][proposals[k].to]
  /\ latest \in {0} \cup registry
  /\ visited \subseteq registry
  /\ run \in [live : BOOLEAN, version : {0} \cup registry, from : Reruns, failed : SUBSET Known]

LEMMA InitialRegistry == Init => RegistryInv
BY DEF Init, RegistryInv, Filings, Reruns

\* A registration, whether or not a crash cuts it short.
LEMMA RegisterKeeps ==
  ASSUME RegistryInv, NEW v, Checked(v), NEW crashed \in BOOLEAN, Register(v, crashed)
  PROVE  /\ registry \subseteq registry' /\ v \in registry'
         /\ \A w \in registry' : Checked(w)
         /\ faults' \in Nat
         /\ faults' = 0 => registry' \subseteq stored'
BY DEF RegistryInv, Register

\* Rows stay well formed while the registry grows.
LEMMA FilingsGrow ==
  ASSUME RegistryInv, registry \subseteq registry'
  PROVE  proposals \in Seq(Filings)'
<1>1. Filings \subseteq Filings'
  BY DEF Filings
<1>2. proposals \in Seq(Filings)
  BY DEF RegistryInv
<1> QED BY <1>1, <1>2

LEMMA FiledKeeps ==
  ASSUME RegistryInv, registry \subseteq registry',
         NEW v \in registry', NEW w \in registry',
         NEW status \in {"pending", "approved", "rejected"},
         NEW rerun \in Reruns, NEW listed \in Listings, NEW auto \in BOOLEAN,
         auto => Harmless[v][w],
         Filed(v, w, status, rerun, listed, auto)
  PROVE  /\ proposals' \in Seq(Filings)'
         /\ \A k \in DOMAIN proposals' :
              proposals'[k].auto => Harmless[proposals'[k].base][proposals'[k].to]
<1> DEFINE row == [base |-> v, to |-> w, status |-> status, rerun |-> rerun, listed |-> listed, auto |-> auto]
<1>1. proposals \in Seq(Filings)'
  BY FilingsGrow
<1>2. row \in Filings'
  BY DEF Filings
<1>3. proposals' = Append(proposals, row)
  BY DEF Filed
<1> HIDE DEF row
<1>4. /\ DOMAIN proposals' = 1..(Len(proposals) + 1)
      /\ \A k \in 1..Len(proposals) : proposals'[k] = proposals[k]
      /\ proposals'[Len(proposals) + 1] = row
  BY <1>1, <1>3
<1>5. \A k \in DOMAIN proposals' :
        proposals'[k].auto => Harmless[proposals'[k].base][proposals'[k].to]
  <2> SUFFICES ASSUME NEW k \in DOMAIN proposals', proposals'[k].auto
               PROVE  Harmless[proposals'[k].base][proposals'[k].to]
    OBVIOUS
  <2>1. CASE k \in 1..Len(proposals)
    BY <2>1, <1>1, <1>4 DEF RegistryInv
  <2>2. CASE k = Len(proposals) + 1
    BY <2>2, <1>4 DEF row
  <2> QED BY <2>1, <2>2, <1>1, <1>4
<1> QED BY <1>1, <1>2, <1>3, <1>5

\* A migration to a registered version.
LEMMA MoveKeeps ==
  ASSUME RegistryInv, NEW v \in registry, NEW w \in registry, NEW rerun \in Reruns, Move(v, w, rerun)
  PROVE  /\ registry' = registry /\ stored' = stored /\ faults' = faults
         /\ latest' = latest
         /\ visited' \subseteq registry
         /\ run' \in [live : BOOLEAN, version : {0} \cup registry, from : Reruns, failed : SUBSET Known]
<1>1. /\ registry' = registry /\ stored' = stored /\ faults' = faults
      /\ latest' = latest /\ visited' \subseteq registry
  BY DEF Move, RegistryInv
<1>2. run' \in [live : BOOLEAN, version : {0} \cup registry, from : Reruns, failed : SUBSET Known]
  <2>1. CASE rerun = None
    <3>1. run' = [run EXCEPT !.live = FALSE, !.from = None]
      BY <2>1 DEF Move
    <3>2. None \in Reruns
      BY DEF Reruns
    <3> QED BY <3>1, <3>2 DEF RegistryInv
  <2>2. CASE rerun # None
    <3>1. run' = [live |-> rerun \in StagesOf[w], version |-> w, from |-> rerun, failed |-> {}]
      BY <2>2 DEF Move
    <3> QED BY <3>1
  <2> QED BY <2>1, <2>2
<1> QED BY <1>1, <1>2

\* A step that leaves the registry alone and files at most an answer.
LEMMA TaskStepKeeps ==
  ASSUME RegistryInv, UNCHANGED <<registry, stored, proposals, faults>>,
         latest' \in {0} \cup registry, visited' \subseteq registry,
         run' \in [live : BOOLEAN, version : {0} \cup registry, from : Reruns, failed : SUBSET Known]
  PROVE  RegistryInv'
BY DEF RegistryInv, Filings

LEMMA StepKeepsRegistry == RegistryInv /\ [Next]_vars => RegistryInv'
<1> SUFFICES ASSUME RegistryInv, [Next]_vars
             PROVE  RegistryInv'
  OBVIOUS
<1> DEFINE Run == [live : BOOLEAN, version : {0} \cup registry, from : Reruns, failed : SUBSET Known]
<1>0. /\ latest \in {0} \cup registry /\ visited \subseteq registry /\ run \in Run
      /\ \A v \in registry : v \in Versions
  BY DEF RegistryInv, Checked
<1>1. ASSUME NEW crashed \in BOOLEAN, NEW v \in Submitted, Submit(v, crashed)
      PROVE  RegistryInv'
  <2>1. Register(v, crashed) /\ UNCHANGED <<proposals, latest, visited, run>>
    BY <1>1 DEF Submit, task
  <2>2. Checked(v)
    BY SubmittedIsChecked
  <2>3. registry \subseteq registry'
    BY <2>1, <2>2, RegisterKeeps
  <2>4. proposals' \in Seq(Filings)'
    BY <2>1, <2>3, FilingsGrow
  <2> QED BY <2>1, <2>2, <2>3, <2>4, RegisterKeeps DEF RegistryInv
<1>2. ASSUME NEW crashed \in BOOLEAN, NEW v \in Updates, UpdateRegistry(v, crashed)
      PROVE  RegistryInv'
  <2>1. Register(v, crashed) /\ UNCHANGED <<proposals, latest, visited, run>>
    BY <1>2 DEF UpdateRegistry, task
  <2>2. Checked(v)
    BY UpdateIsChecked
  <2>3. registry \subseteq registry'
    BY <2>1, <2>2, RegisterKeeps
  <2>4. proposals' \in Seq(Filings)'
    BY <2>1, <2>3, FilingsGrow
  <2> QED BY <2>1, <2>2, <2>3, <2>4, RegisterKeeps DEF RegistryInv
<1>3. ASSUME NEW crashed \in BOOLEAN, NEW v \in registry, NEW k \in DOMAIN Requests, Propose(v, k, crashed)
      PROVE  RegistryInv'
  <2> DEFINE q == Requests[k]
  <2>1. PICK w \in Outcome[v][(v \in stored)][k] :
          /\ Register(w, crashed)
          /\ IF crashed THEN UNCHANGED proposals
             ELSE Filed(v, w, IF AutoApproved(q, v, w) THEN "approved" ELSE "pending",
                        q.rerun, q.listed, AutoApproved(q, v, w))
    BY <1>3 DEF Propose
  <2>2. UNCHANGED <<latest, visited, run>>
    BY <1>3 DEF Propose, task
  <2>3. Checked(w)
    <3>1. v \in Versions /\ (v \in stored) \in BOOLEAN
      BY DEF RegistryInv, Checked
    <3> DEFINE prompted == v \in stored
    <3>2. w \in Outcome[v][prompted][k]
      OBVIOUS
    <3> HIDE DEF prompted
    <3> QED BY <3>1, <3>2, ProposedIsChecked DEF prompted
  <2>4. /\ registry \subseteq registry' /\ w \in registry' /\ faults' \in Nat
        /\ \A x \in registry' : Checked(x)
        /\ faults' = 0 => registry' \subseteq stored'
    BY <2>1, <2>3, RegisterKeeps
  <2>5. /\ proposals' \in Seq(Filings)'
        /\ \A j \in DOMAIN proposals' :
             proposals'[j].auto => Harmless[proposals'[j].base][proposals'[j].to]
    <3>1. CASE crashed
      BY <3>1, <2>1, <2>4, FilingsGrow DEF RegistryInv
    <3>2. CASE ~crashed
      <4>1. AutoApproved(q, v, w) \in BOOLEAN /\ (AutoApproved(q, v, w) => Harmless[v][w])
        BY DEF AutoApproved
      <4>2. q.rerun \in Reruns /\ q.listed \in Listings
        BY DEF Reruns, Listings
      <4> QED BY <3>2, <2>1, <2>4, <4>1, <4>2, FiledKeeps
    <3> QED BY <3>1, <3>2
  <2> QED BY <1>0, <2>2, <2>4, <2>5 DEF RegistryInv
<1>4. ASSUME NEW p \in DOMAIN proposals, NEW status \in {"approved", "rejected"}, ResolveProposal(p, status)
      PROVE  RegistryInv'
  <2>1. /\ proposals' = [proposals EXCEPT ![p].status = status]
        /\ UNCHANGED <<registry, stored, latest, visited, run, faults>>
    BY <1>4 DEF ResolveProposal, task
  <2>2. proposals \in Seq(Filings) /\ Filings' = Filings
    BY <2>1 DEF RegistryInv, Filings
  <2>3. proposals[p] \in Filings
    BY <2>2
  <2>4. [proposals[p] EXCEPT !.status = status] \in Filings
    BY <2>3 DEF Filings
  <2>5. proposals' \in Seq(Filings) /\ DOMAIN proposals' = DOMAIN proposals
    BY <2>1, <2>2, <2>4
  <2>6. \A k \in DOMAIN proposals :
          /\ proposals'[k].auto = proposals[k].auto
          /\ proposals'[k].base = proposals[k].base /\ proposals'[k].to = proposals[k].to
    BY <2>1, <2>2, <2>3 DEF Filings
  <2> QED BY <2>1, <2>2, <2>5, <2>6 DEF RegistryInv
<1>5. ASSUME NEW p \in DOMAIN proposals, Migrate(p)
      PROVE  RegistryInv'
  <2>1. proposals[p] \in Filings
    BY DEF RegistryInv
  <2>2. proposals[p].base \in registry /\ proposals[p].to \in registry /\ proposals[p].rerun \in Reruns
    BY <2>1 DEF Filings
  <2>3. Move(proposals[p].base, proposals[p].to, proposals[p].rerun) /\ proposals' = proposals
    BY <1>5 DEF Migrate
  <2>4. /\ UNCHANGED <<registry, stored, faults, latest>>
        /\ visited' \subseteq registry /\ run' \in Run
    BY <2>2, <2>3, MoveKeeps
  <2> QED BY <1>0, <2>3, <2>4, TaskStepKeeps
<1>6. ASSUME NEW v \in registry, StartTask(v)
      PROVE  RegistryInv'
  <2>1. run' = [run EXCEPT !.live = TRUE, !.version = v]
    BY <1>6 DEF StartTask
  <2>2. run' \in Run
    BY <1>0, <2>1
  <2>3. UNCHANGED <<registry, stored, proposals, faults, latest, visited>>
    BY <1>6 DEF StartTask
  <2> QED BY <1>0, <2>2, <2>3, TaskStepKeeps
<1>7. ASSUME NEW v \in registry, NEW w \in registry, NEW rerun \in Reruns,
             Filed(v, w, "approved", rerun, TRUE, FALSE), Move(v, w, rerun)
      PROVE  RegistryInv'
  <2>1. /\ UNCHANGED <<registry, stored, faults, latest>>
        /\ visited' \subseteq registry /\ run' \in Run
    BY <1>7, MoveKeeps
  <2>2. TRUE \in Listings /\ (FALSE => Harmless[v][w])
    BY DEF Listings
  <2>3. /\ proposals' \in Seq(Filings)'
        /\ \A j \in DOMAIN proposals' :
             proposals'[j].auto => Harmless[proposals'[j].base][proposals'[j].to]
    BY <1>7, <2>1, <2>2, FiledKeeps
  <2> QED BY <1>0, <2>1, <2>3 DEF RegistryInv
<1>8. ASSUME NEW v \in registry, Rollback(v)
      PROVE  RegistryInv'
  <2>1. latest \in registry
    BY <1>8, <1>0 DEF Rollback
  <2>2. Diverges[latest][v] \in Reruns
    BY <2>1, <1>0 DEF Reruns
  <2> QED BY <1>8, <2>1, <2>2, <1>7 DEF Rollback
<1>9. ASSUME NEW s \in Known, Retry(s)
      PROVE  RegistryInv'
  <2>1. latest \in registry
    BY <1>9, <1>0 DEF Retry
  <2>2. s \in Reruns
    BY DEF Reruns
  <2> QED BY <1>9, <2>1, <2>2, <1>7 DEF Retry
<1>10. CASE EndRun
  <2>1. run' = [run EXCEPT !.live = FALSE]
    BY <1>10 DEF EndRun
  <2>2. run' \in Run
    BY <1>0, <2>1
  <2>3. UNCHANGED <<registry, stored, proposals, faults, latest, visited>>
    BY <1>10 DEF EndRun
  <2> QED BY <1>0, <2>2, <2>3, TaskStepKeeps
<1>11. ASSUME NEW s \in Known, StartStage(s)
       PROVE  RegistryInv'
  <2>1. latest' = run.version /\ UNCHANGED <<registry, stored, proposals, faults, visited, run>>
    BY <1>11 DEF StartStage
  <2>2. latest' \in {0} \cup registry
    BY <1>0, <2>1
  <2> QED BY <1>0, <2>1, <2>2, TaskStepKeeps
<1>12. ASSUME NEW s \in Known, NEW status \in {"success", "error"}, FinishStage(s, status)
       PROVE  RegistryInv'
  <2>1. run' = IF status = "error" THEN [run EXCEPT !.failed = @ \cup {s}] ELSE run
    BY <1>12 DEF FinishStage
  <2>2. run' \in Run
    BY <1>0, <2>1
  <2>3. UNCHANGED <<registry, stored, proposals, faults, latest, visited>>
    BY <1>12 DEF FinishStage
  <2> QED BY <1>0, <2>2, <2>3, TaskStepKeeps
<1>13. CASE UNCHANGED vars
  <2>1. UNCHANGED <<registry, stored, proposals, faults, latest, visited, run>>
    BY <1>13 DEF vars
  <2> QED BY <1>0, <2>1, TaskStepKeeps
<1> QED BY <1>1, <1>2, <1>3, <1>4, <1>5, <1>6, <1>8, <1>9, <1>10, <1>11, <1>12, <1>13 DEF Next

THEOREM RegistryHolds == Spec => []RegistryInv
BY InitialRegistry, StepKeepsRegistry, PTL DEF Spec

-----------------------------------------------------------------------------
(* What the registry promises. *)

\* The stages of a version, one of a name, are told by its names.
LEMMA StageOfName ==
  ASSUME NEW v, Checked(v), NEW s \in StageSet(v)
  PROVE  StageOf(IR(v), s.name) = s
BY DEF Checked, Apart, StageSet, StageOf, IR

LEMMA NamesOfStages ==
  ASSUME NEW ir
  PROVE  Names(ir) = {s.name : s \in ToSet(ir.stages)}
BY DEF Names, NameSeq, ToSet

\* A change classifySafeRange calls safe leaves the graph as it was.
LEMMA SafeKeepsShape ==
  ASSUME NEW v, NEW w, Checked(v), Checked(w), Safe(IR(v), IR(w))
  PROVE  Shape(v) = Shape(w)
<1>0. /\ Names(IR(v)) = {s.name : s \in StageSet(v)}
      /\ Names(IR(w)) = {s.name : s \in StageSet(w)}
  BY NamesOfStages DEF StageSet, IR
<1>1. Names(IR(v)) = Names(IR(w)) /\ ToSet(IR(v).wires) = ToSet(IR(w).wires)
  BY DEF Safe, Structural, Added, Removed
<1>2. ASSUME NEW n \in Names(IR(v))
      PROVE  LET a == StageOf(IR(v), n)
                 b == StageOf(IR(w), n)
             IN a.type = b.type /\ a.ins = b.ins /\ a.outs = b.outs /\ a.routes = b.routes
  <2>1. CASE n \in Modified(IR(v), IR(w))
    BY <2>1 DEF Safe, Structural, PromptOnly, Compared
  <2>2. CASE n \notin Modified(IR(v), IR(w))
    BY <2>2, <1>1 DEF Modified, Compared
  <2> QED BY <2>1, <2>2
<1> DEFINE row(s) == <<s.name, s.type, s.ins, s.outs, s.routes>>
<1>3. \A s \in StageSet(v) : \E u \in StageSet(w) : row(s) = row(u)
  <2> SUFFICES ASSUME NEW s \in StageSet(v)
               PROVE  \E u \in StageSet(w) : row(s) = row(u)
    OBVIOUS
  <2>0. s.name \in Names(IR(w))
    BY <1>1, <1>0
  <2>1. PICK u \in StageSet(w) : u.name = s.name
    BY <2>0, <1>0
  <2>2. s.name \in Names(IR(v))
    BY <1>0
  <2>3. StageOf(IR(v), s.name) = s /\ StageOf(IR(w), s.name) = u
    BY <2>1, StageOfName
  <2> QED BY <1>2, <2>1, <2>2, <2>3
<1>4. \A u \in StageSet(w) : \E s \in StageSet(v) : row(u) = row(s)
  <2> SUFFICES ASSUME NEW u \in StageSet(w)
               PROVE  \E s \in StageSet(v) : row(u) = row(s)
    OBVIOUS
  <2>0. u.name \in Names(IR(v))
    BY <1>1, <1>0
  <2>1. PICK s \in StageSet(v) : u.name = s.name
    BY <2>0, <1>0
  <2>2. s.name \in Names(IR(v))
    BY <1>0
  <2>3. StageOf(IR(v), s.name) = s /\ StageOf(IR(w), s.name) = u
    BY <2>1, StageOfName
  <2> QED BY <1>2, <2>1, <2>2, <2>3
<1>5. {row(s) : s \in StageSet(v)} = {row(s) : s \in StageSet(w)}
  BY <1>3, <1>4
<1> QED BY <1>1, <1>5 DEF Shape, StageSet, IR

\* Every agent of a version that was proposed finds its prompt, if no crash cut a
\* registration short (propose: PROMPT_REF_MISSING; the two transactions of a registration).
THEOREM ProposedFindPrompts == Spec => []PromptsAreFound
<1>1. RegistryInv => PromptsAreFound
  <2> SUFFICES ASSUME RegistryInv, NEW k \in DOMAIN proposals
               PROVE  LET v == proposals[k].to IN
                      /\ v \in stored => PromptRefs(IR(v)) \subseteq DOMAIN Pool[v].prompts
                      /\ faults = 0 => v \in stored
    BY DEF PromptsAreFound
  <2>1. proposals[k] \in Filings
    BY DEF RegistryInv
  <2>2. proposals[k].to \in registry
    BY <2>1 DEF Filings
  <2>3. Checked(proposals[k].to)
    BY <2>2 DEF RegistryInv
  <2>4. faults = 0 => proposals[k].to \in stored
    BY <2>2 DEF RegistryInv
  <2> QED BY <2>3, <2>4 DEF Checked, StageSet, PromptRefs, IR
<1> QED BY <1>1, RegistryHolds, PTL

\* Nobody is asked about a proposal only if it leaves the graph alone (propose: the dry
\* run's verdict and autoApprove).
THEOREM UnseenKeepsTheGraph == Spec => []AutoApprovedKeepsTheGraph
<1>1. RegistryInv => AutoApprovedKeepsTheGraph
  <2> SUFFICES ASSUME RegistryInv, NEW k \in DOMAIN proposals, proposals[k].auto
               PROVE  Shape(proposals[k].base) = Shape(proposals[k].to)
    BY DEF AutoApprovedKeepsTheGraph
  <2>1. proposals[k] \in Filings
    BY DEF RegistryInv
  <2>2. proposals[k].base \in registry /\ proposals[k].to \in registry
    BY <2>1 DEF Filings
  <2>3. Checked(proposals[k].base) /\ Checked(proposals[k].to)
    BY <2>2 DEF RegistryInv
  <2>4. Harmless[proposals[k].base][proposals[k].to]
    BY DEF RegistryInv
  <2>5. Safe(IR(proposals[k].base), IR(proposals[k].to))
    BY <2>3, <2>4 DEF Harmless, Pairs, Checked, Versions, IR
  <2> QED BY <2>3, <2>5, SafeKeepsShape
<1> QED BY <1>1, RegistryHolds, PTL
=============================================================================
