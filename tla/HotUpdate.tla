------------------------------ MODULE HotUpdate ------------------------------
(***************************************************************************)
(* The registry of pipeline versions and one task that is moved between    *)
(* them: versions are submitted and proposed as patches, proposals are     *)
(* approved or rejected, and the task is migrated, retried from a stage or *)
(* rolled back while it runs.                                              *)
(*                                                                         *)
(* The steps of a migration that interleave with the run are the subject   *)
(* of TaskLifecycle; here a migration is one step, taken when no gate is   *)
(* open, and what matters is which attempts it keeps.                      *)
(***************************************************************************)
EXTENDS PipelineVersion

CONSTANTS
  Submissions,    \* a sequence, the pipelines people submit or update: [ir, prompts]
  Requests,       \* a sequence, the proposals they make: [ops, prompts, rerun, auto, listed]
  Known,          \* every stage name that occurs in them
  MaxProposals,   \* bound: proposals made
  MaxMoves,       \* bound: migrations, retries and rollbacks
  MaxFaults       \* bound: crashes between two writes of one registration

-----------------------------------------------------------------------------
(* The versions that can come to be.  A version is its place in Pool, and the     *)
(* tables below hold what PipelineVersion says of each.                           *)

PromptRefs(ir) == {s.impl : s \in {x \in ToSet(ir.stages) : x.type = "agent"}}

Accepted(s) == Valid(s.ir) /\ PromptRefs(s.ir) = DOMAIN s.prompts

\* The prompts of the version proposed over base: those supplied, those of the base,
\* and for a promptRef that was renamed, the content under its old name.
Carried(base, prompted, ir, supplied) ==
  LET from   == IF prompted THEN base.prompts ELSE <<>>
      given  == DOMAIN supplied \cup DOMAIN from
      old(ref) == {StageOf(base.ir, s.name).impl : s \in
                     {x \in ToSet(ir.stages) : x.type = "agent" /\ x.impl = ref
                                               /\ x.name \in OfType(base.ir, "agent")}}
      renamed == {ref \in PromptRefs(ir) \ given : old(ref) \cap DOMAIN from # {}}
  IN [ref \in given \cup renamed |->
        IF ref \in DOMAIN supplied THEN supplied[ref]
        ELSE IF ref \in given THEN from[ref]
        ELSE from[CHOOSE o \in old(ref) \cap DOMAIN from : TRUE]]

\* Mutant: a promptRef need not resolve.
ResolvesUnchecked(ir, prompts) == TRUE
Resolves(ir, prompts) == PromptRefs(ir) \subseteq DOMAIN prompts

\* What updateRegistryPipeline takes: prompts no agent refers to may come along.
Updating(s) == Valid(s.ir) /\ Resolves(s.ir, s.prompts)

\* The version hash covers both.
SameVersion(x, y) == x.prompts = y.prompts /\ Canonical(x.ir) = Canonical(y.ir)

\* What propose would register for the request q over base, if it does not refuse.
Proposed(base, prompted, q) ==
  {x \in {[ir |-> ir, prompts |-> Carried(base, prompted, ir, q.prompts)] : ir \in Patched(base.ir, q.ops)} :
     /\ Valid(x.ir)
     /\ q.rerun # None => q.rerun \in Names(x.ir)
     /\ Resolves(x.ir, x.prompts)
     /\ ~SameVersion(x, base)}

Patches(S) == S \cup UNION {Proposed(x, b, Requests[k]) : x \in S, b \in BOOLEAN, k \in DOMAIN Requests}

Reachable[n \in Nat] ==
  IF n = 0 THEN {s \in ToSet(Submissions) : Updating(s)} ELSE Patches(Reachable[n - 1])

\* Each of them once.
Hash(x) == <<x.prompts, Canonical(x.ir)>>
Once(S) == {CHOOSE x \in S : Hash(x) = h : h \in {Hash(x) : x \in S}}

Pool == FoldSet(LAMBDA x, seq : Append(seq, x), <<>>, Once(Reachable[MaxProposals]))

Versions == DOMAIN Pool
IR(v) == Pool[v].ir

Places(pool, S) == {v \in DOMAIN pool : \E x \in S : SameVersion(pool[v], x)}

Submitted == Places(Pool, {s \in ToSet(Submissions) : Accepted(s)})
Updates   == Places(Pool, {s \in ToSet(Submissions) : Updating(s)})

Outcomes(pool) ==
  [v \in DOMAIN pool |-> [prompted \in BOOLEAN |-> [k \in DOMAIN Requests |->
     Places(pool, Proposed(pool[v], prompted, Requests[k]))]]]
Outcome == Outcomes(Pool)

\* What f says of each version, and of each two.
Each(pool, f(_))    == [v \in DOMAIN pool |-> f(pool[v].ir)]
Pairs(pool, f(_, _)) == [v \in DOMAIN pool |-> [w \in DOMAIN pool |-> f(pool[v].ir, pool[w].ir)]]

StagesOf == Each(Pool, Names)
GatesOf  == Each(Pool, LAMBDA ir : OfType(ir, "gate"))

\* The stages that read what s makes.
Redone == Each(Pool, LAMBDA ir : [s \in Known \cup {None} |-> Readers(ir, s)])

\* The first difference.
Diverges == Pairs(Pool, Divergence)

Harmless == Pairs(Pool, Safe)

\* The gates that send a run to s, but those s leads to.
Releasing(ir, s) ==
  {g.name : g \in {x \in ToSet(ir.stages) : x.type = "gate" /\ s \in UNION x.routes
                     /\ x.name \notin Found(Edges(ForwardWires(ir)), {s})}}

\* What s waits for.
Before == Each(Pool, LAMBDA ir : [s \in Known |->
            {e[1] : e \in {x \in Edges(ForwardWires(ir)) : x[2] = s}} \cup Releasing(ir, s)])

-----------------------------------------------------------------------------
VARIABLES
  registry,   \* pipeline_versions
  stored,     \* those whose pipeline_prompt_refs were written
  proposals,  \* pipeline_proposals: [base, to, status, rerun, listed, auto]
  attempts,   \* stage -> the status of its last attempt
  latest,     \* the version of the task's most recent attempt, 0 before the first
  visited,    \* the versions its hot_update_events name
  run,        \* the task's run: live, of a version, resumed from a stage, with those that failed
  final,      \* there is a task_finals row
  asked,      \* the proposals made, those that a crash cut short included
  moves,
  faults

task == <<attempts, latest, visited, run, final>>
vars == <<registry, stored, proposals, attempts, latest, visited, run, final, asked, moves, faults>>

TypeOK ==
  /\ stored \subseteq registry /\ registry \subseteq Versions
  /\ \A k \in DOMAIN proposals :
       /\ {proposals[k].base, proposals[k].to} \subseteq registry
       /\ proposals[k].status \in {"pending", "approved", "rejected"}
       /\ proposals[k].rerun \in Known \cup {None}
  /\ attempts \in [Known -> {"none", "running", "success", "error", "superseded"}]
  /\ latest \in {0} \cup registry /\ visited \subseteq registry
  /\ run \in [live : BOOLEAN, version : {0} \cup registry, from : Known \cup {None}, failed : SUBSET Known]
  /\ final \in BOOLEAN
  /\ asked \in 0..MaxProposals /\ moves \in 0..MaxMoves /\ faults \in 0..MaxFaults

Init ==
  /\ registry = {} /\ stored = {} /\ proposals = <<>>
  /\ attempts = [s \in Known |-> "none"]
  /\ latest = 0 /\ visited = {} /\ final = FALSE
  /\ run = [live |-> FALSE, version |-> 0, from |-> None, failed |-> {}]
  /\ asked = 0 /\ moves = 0 /\ faults = 0

-----------------------------------------------------------------------------
(* The registry. *)

\* The version is inserted, then its prompts: a crash in between leaves the first
\* alone.  (propose writes all prompts in one transaction, the others row by row: here
\* a crash comes before the first.)  A version that is there is left as it is.
Register(v, crashed) ==
  /\ registry' = registry \cup {v}
  /\ stored' = IF crashed \/ v \in registry THEN stored ELSE stored \cup {v}
  /\ crashed => v \notin registry /\ faults < MaxFaults
  /\ faults' = IF crashed THEN faults + 1 ELSE faults

Submit(v, crashed) ==
  /\ Register(v, crashed)
  /\ UNCHANGED <<proposals, task, asked, moves>>

\* The file of the pipeline's IR, written last, is read by nobody here.
UpdateRegistry(v, crashed) ==
  /\ Register(v, crashed)
  /\ UNCHANGED <<proposals, task, asked, moves>>

AutoApproved(q, v, w) == q.auto /\ Harmless[v][w]

Filed(v, w, status, rerun, listed, auto) ==
  proposals' = Append(proposals,
    [base |-> v, to |-> w, status |-> status, rerun |-> rerun, listed |-> listed, auto |-> auto])

Propose(v, k, crashed) ==
  LET q == Requests[k] IN
  /\ asked < MaxProposals /\ asked' = asked + 1
  /\ \E w \in Outcome[v][(v \in stored)][k] :
       /\ Register(w, crashed)
       /\ IF crashed THEN UNCHANGED proposals
          ELSE Filed(v, w, IF AutoApproved(q, v, w) THEN "approved" ELSE "pending",
                     q.rerun, q.listed, AutoApproved(q, v, w))
  /\ UNCHANGED <<task, moves>>

ResolveProposal(p, status) ==
  /\ proposals[p].status = "pending"
  /\ proposals' = [proposals EXCEPT ![p].status = status]
  /\ UNCHANGED <<registry, stored, task, asked, moves, faults>>

-----------------------------------------------------------------------------
(* The task. *)

\* A person may start any version, approved or not.
StartTask(v) ==
  /\ latest = 0 /\ ~run.live
  /\ run' = [run EXCEPT !.live = TRUE, !.version = v]
  /\ UNCHANGED <<registry, stored, proposals, attempts, latest, visited, final, asked, moves, faults>>

\* A resumed run takes successful attempts for done, whatever version made them.
MayStart(s) ==
  /\ run.live /\ s \in StagesOf[run.version] \ run.failed
  /\ attempts[s] \notin {"running", "success"}
  /\ \A b \in Before[run.version][s] : attempts[b] = "success"

\* A gate is answered in the same step.
StartStage(s) ==
  /\ MayStart(s)
  /\ attempts' = [attempts EXCEPT ![s] = IF s \in GatesOf[run.version] THEN "success" ELSE "running"]
  /\ latest' = run.version
  /\ UNCHANGED <<registry, stored, proposals, visited, run, final, asked, moves, faults>>

FinishStage(s, status) ==
  /\ run.live /\ attempts[s] = "running"
  /\ attempts' = [attempts EXCEPT ![s] = status]
  /\ run' = IF status = "error" THEN [run EXCEPT !.failed = @ \cup {s}] ELSE run
  /\ UNCHANGED <<registry, stored, proposals, latest, visited, final, asked, moves, faults>>

Busy == run.live /\ \E s \in Known : attempts[s] = "running"

\* Nothing is left to do, or what is left waits for a stage that failed.
EndRun ==
  /\ run.live /\ ~Busy
  /\ \A s \in Known : ~MayStart(s)
  /\ run' = [run EXCEPT !.live = FALSE]
  /\ final' = TRUE
  /\ UNCHANGED <<registry, stored, proposals, attempts, latest, visited, asked, moves, faults>>

-----------------------------------------------------------------------------
(* Moving the task. *)

\* executeMigration, at a time when the run is at some stage or over: it is
\* interrupted, the readers of the rerun stage in the new version are superseded,
\* and a run of the new version resumes.  Without a rerun stage the interrupt is
\* all; with one the new version lacks, the new run dies at once.
Move(v, w, rerun) ==
  /\ moves < MaxMoves /\ moves' = moves + 1
  /\ run.live => Busy
  /\ attempts' = [s \in Known |->
       IF s \in Redone[w][rerun] /\ attempts[s] \in {"success", "running", "error"} THEN "superseded"
       ELSE IF attempts[s] = "running" THEN "error"
       ELSE attempts[s]]
  /\ visited' = visited \cup {v, w}
  /\ run' = IF rerun = None THEN [run EXCEPT !.live = FALSE, !.from = None]
            ELSE [live |-> rerun \in StagesOf[w], version |-> w, from |-> rerun, failed |-> {}]
  /\ final' = (final \/ Busy \/ rerun \notin StagesOf[w] \cup {None})
  /\ UNCHANGED <<registry, stored, latest, asked, faults>>

Migrate(p) ==
  /\ proposals[p].status = "approved" /\ proposals[p].listed
  /\ latest # 0
  /\ Move(proposals[p].base, proposals[p].to, proposals[p].rerun)
  /\ UNCHANGED proposals

\* Retries and rollbacks file a proposal of their own, approved already.
Retry(s) ==
  /\ latest # 0 /\ ~final
  /\ s \in StagesOf[latest]
  /\ Filed(latest, latest, "approved", s, TRUE, FALSE)
  /\ Move(latest, latest, s)

Rollback(v) ==
  /\ v \in visited /\ latest # 0
  /\ Diverges[latest][v] # None
  /\ Filed(latest, v, "approved", Diverges[latest][v], TRUE, FALSE)
  /\ Move(latest, v, Diverges[latest][v])

-----------------------------------------------------------------------------
Next ==
  \/ \E crashed \in BOOLEAN :
       \/ \E v \in Submitted : Submit(v, crashed)
       \/ \E v \in Updates : UpdateRegistry(v, crashed)
       \/ \E v \in registry, k \in DOMAIN Requests : Propose(v, k, crashed)
  \/ \E p \in DOMAIN proposals :
       Migrate(p) \/ \E status \in {"approved", "rejected"} : ResolveProposal(p, status)
  \/ \E v \in registry : StartTask(v) \/ Rollback(v)
  \/ EndRun
  \/ \E s \in Known :
       StartStage(s) \/ Retry(s) \/ \E status \in {"success", "error"} : FinishStage(s, status)

Spec == Init /\ [][Next]_vars
=============================================================================
