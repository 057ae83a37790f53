-------------------------- MODULE PipelineGenerator --------------------------
(***************************************************************************)
(* How a generated pipeline comes to be registered: it is assembled by the *)
(* script for investigations or written by an agent, whose mechanical      *)
(* slips the repair script mends or refuses, and then submitted, its       *)
(* sub-pipelines first.  A run that failed can be started again.           *)
(***************************************************************************)
EXTENDS RepairIR, InvestigationIR

CONSTANTS
  Drafts,          \* what agents mean to write: sequences of IRs, the main pipeline last
  Recommendations, \* what the analysis may recommend: entries [entryId, name, command]
  Misnomers,       \* pairs of a port name and what an agent may write instead
  MaxSlips         \* bound: slips of the agent

VARIABLES
  step,        \* the stage that runs, or how the run ended
  meant,       \* the IRs that were meant
  irs,         \* the IRs as they are
  slips,       \* what the agent got wrong: a sequence of kinds
  registered   \* the versions submitted

vars == <<step, meant, irs, slips, registered>>

Steps == {"writing", "repairing", "submitting", "done", "failed"}

Init ==
  /\ step = "writing" /\ meant = <<>> /\ irs = <<>> /\ slips = <<>> /\ registered = {}

-----------------------------------------------------------------------------
(* The agent. *)

SlipKinds == {"duplicate", "input name", "port name", "missing input", "missing external", "split object"}

RenamedAt(ir, k, field) ==
  {[ir EXCEPT !.wires[k][field] = q] : q \in {m[2] : m \in {x \in Misnomers : x[1] = ir.wires[k][field]}}}

Without(f, p) == [x \in DOMAIN f \ {p} |-> f[x]]

\* An object a fanout should produce is written as one port for each of its fields, all
\* wired to where the object should go.
Split(ir, k) ==
  LET w == ir.wires[k]
      fields == StageOf(ir, w.from).outs[w.port].fields
      pieces == SetToSeq({[w EXCEPT !.port = f] : f \in fields})
  IN [ir EXCEPT !.stages = [i \in DOMAIN @ |->
                  IF @[i].name # w.from THEN @[i]
                  ELSE [@[i] EXCEPT !.outs = [f \in fields |-> Text] @@ Without(@, w.port)]],
                !.wires = SelectSeq(@, LAMBDA x : x # w) \o pieces]

\* The ways to get ir wrong that the repair script was written for.
Slips(ir, kind) ==
  CASE kind = "duplicate"  -> {[ir EXCEPT !.wires = Append(@, @[k])] : k \in DOMAIN ir.wires}
    [] kind = "input name" -> UNION {RenamedAt(ir, k, "input") : k \in DOMAIN ir.wires}
    [] kind = "port name"  -> UNION {RenamedAt(ir, k, "port") : k \in
                                {l \in DOMAIN ir.wires : ir.wires[l].from # External}}
    [] kind = "missing input" ->
         UNION {{[ir EXCEPT !.stages[i].ins = Without(@, p)] : p \in DOMAIN ir.stages[i].ins}
                  : i \in DOMAIN ir.stages}
    [] kind = "missing external" -> {[ir EXCEPT !.external = @ \ {e}] : e \in ir.external}
    [] kind = "split object" ->
         {Split(ir, k) : k \in {l \in DOMAIN ir.wires :
            LET w == ir.wires[l] IN
            /\ w.from \in FanoutStages(ir) /\ w.port \in DOMAIN StageOf(ir, w.from).outs
            /\ StageOf(ir, w.from).outs[w.port].base = "object"
            /\ \A x \in ToSet(ir.wires) : x.from = w.from /\ x.port = w.port => x = w}}

Draft ==
  /\ step = "writing" /\ irs = <<>>
  /\ \E d \in Drafts : meant' = d /\ irs' = d
  /\ UNCHANGED <<step, slips, registered>>

Slip ==
  /\ step = "writing" /\ Len(slips) < MaxSlips
  /\ \E k \in DOMAIN irs, kind \in SlipKinds : \E ir \in Slips(irs[k], kind) :
       irs' = [irs EXCEPT ![k] = ir] /\ slips' = Append(slips, kind)
  /\ UNCHANGED <<step, meant, registered>>

Written ==
  /\ step = "writing" /\ irs # <<>>
  /\ step' = "repairing"
  /\ UNCHANGED <<meant, irs, slips, registered>>

-----------------------------------------------------------------------------
(* The scripts. *)

\* genSkeleton
Assemble ==
  /\ step = "writing" /\ irs = <<>>
  /\ \E recommended \in Recommendations :
       LET made == {<<Investigation(mcps)>> : mcps \in Servers(recommended)} IN
       \/ /\ made = {}
          /\ step' = "failed"
          /\ UNCHANGED <<meant, irs>>
       \/ \E ir \in made : meant' = ir /\ irs' = ir /\ step' = "repairing"
  /\ UNCHANGED <<slips, registered>>

\* validateAndRepairIR: of all of them or of none.
Repair ==
  /\ step = "repairing"
  /\ IF \E k \in DOMAIN irs : Repairs(irs[k]) = {}
       THEN step' = "failed" /\ UNCHANGED irs
       ELSE /\ step' = "submitting"
            /\ irs' \in FoldLeft(LAMBDA S, ir : {Append(s, x) : s \in S, x \in Repairs(ir)}, {<<>>}, irs)
  /\ UNCHANGED <<meant, slips, registered>>

\* persisting: one IR after the other, to the first that is not accepted.
Submit ==
  /\ step = "submitting"
  /\ LET bad == {k \in DOMAIN irs : ~Valid(irs[k])}
         upTo == IF bad = {} THEN Len(irs) ELSE Min(bad) - 1
     IN /\ registered' = registered \cup {irs[k] : k \in 1..upTo}
        /\ step' = IF bad = {} THEN "done" ELSE "failed"
  /\ UNCHANGED <<meant, irs, slips>>

\* retry_task from the start.
StartAgain ==
  /\ step = "failed" /\ Len(slips) < MaxSlips
  /\ step' = "writing" /\ meant' = <<>> /\ irs' = <<>>
  /\ UNCHANGED <<slips, registered>>

Next == Draft \/ Slip \/ Written \/ Assemble \/ Repair \/ Submit \/ StartAgain

Spec == Init /\ [][Next]_vars

-----------------------------------------------------------------------------
(* Properties. *)

Inputs(ir, w)  == DOMAIN StageOf(ir, w.to).ins
Outputs(ir, w) == DOMAIN StageOf(ir, w.from).outs

\* The wire x comes from the port w was meant to come from, or from one made for it when
\* that port was not written, with an object of the same fields.
FromWhereMeant(ir, want, x, w) ==
  /\ x.from = w.from /\ x.guard = w.guard
  /\ \/ x.port = w.port
     \/ /\ x.from # External /\ w.port \notin Outputs(ir, w) /\ x.port \notin Outputs(want, w)
        /\ Produced(ir, x) = Produced(want, w)

\* The wire x ends at the input w was meant for, or at one made for it when that input
\* was not written.
ToWhereMeant(ir, want, x, w) ==
  /\ x.to = w.to
  /\ \/ x.input = w.input
     \/ w.input \notin Inputs(ir, w) /\ x.input \notin Inputs(want, w)

\* An input that was not written, taken for another that was meant to get no value.
TakenForUnused(ir, want, x, w) ==
  /\ x.to = w.to /\ w.input \notin Inputs(ir, w)
  /\ x.input \in Inputs(want, w)
  /\ \A v \in ToSet(want.wires) : v.to = x.to => v.input # x.input

\* The wires of ir and those of want are each other's counterparts.
Corresponds(ir, want, carries(_, _)) ==
  /\ \A w \in ToSet(want.wires) : \E x \in ToSet(ir.wires) : carries(x, w)
  /\ \A x \in ToSet(ir.wires) : \E w \in ToSet(want.wires) : carries(x, w)

\* What the agent got wrong is mended or refused: a pipeline that is registered takes
\* every value from the port it was meant to come from to the input it was meant for
\* ("Throws (does NOT silently mangle) when: fuzzy match has multiple candidates",
\* validate-and-repair-ir.ts:30).  It is what the script sets out to do; two cases it
\* gets wrong are in section 4 of the README.
NothingIsMangled ==
  step = "done" => \A k \in DOMAIN irs :
    Corresponds(irs[k], meant[k], LAMBDA x, w :
      FromWhereMeant(irs[k], meant[k], x, w) /\ ToWhereMeant(irs[k], meant[k], x, w))

\* The same with one exception, where the names of the outputs of a fanout tell them
\* apart: the repair of port names (validate-and-repair-ir.ts:140) takes an input that
\* was forgotten for the only declared one that resembles it.  It may do so only if no
\* value was meant for that one; every other value still gets where it was meant to.
MendedIsAsMeant ==
  step = "done" => \A k \in DOMAIN irs :
    Corresponds(irs[k], meant[k], LAMBDA x, w :
      /\ FromWhereMeant(irs[k], meant[k], x, w)
      /\ ToWhereMeant(irs[k], meant[k], x, w) \/ TakenForUnused(irs[k], meant[k], x, w))

Assembled == irs # <<>> /\ meant \notin Drafts

\* What the script assembles is accepted, whatever is recommended ("will pass
\* KernelService.submit by construction", assemble-investigation-ir.ts:31).  It is not:
\* section 4 of the README.
AssembledIsAccepted == Assembled => step # "failed"

\* It is refused for nothing but the servers it declares (schema.ts:141), and if it is
\* accepted, as it was assembled: the repair takes none of its many names that resemble
\* each other for another (validate-and-repair-ir.ts:140).
RefusedOnlyForServers ==
  /\ Assembled /\ step = "failed" => \E k \in DOMAIN meant : ~ServersOK(meant[k])
  /\ Assembled /\ step = "done" => irs = meant

\* One slip of those the script was written for never keeps a pipeline from being
\* registered ("each is mechanically repairable", validate-and-repair-ir.ts:9).  One does:
\* section 4 of the README.
OneSlipIsMended == Len(slips) = 1 => step # "failed"
=============================================================================
