------------------------- MODULE HotUpdateProperties -------------------------
(* What must hold of the versions people can reach by patching, and of a task  *)
(* that is moved between them.  The definitions here say what a search, an     *)
(* order or a check should come to; they share no search or sort with          *)
(* PipelineVersion.                                                            *)
EXTENDS HotUpdate

\* What is reachable from p[1] along E: p[2] is if it is in every set that holds p[1]
\* and is closed.
Leads(E, nodes) ==
  LET closed == {C \in SUBSET nodes : \A e \in E : e[1] \in C => e[2] \in C}
  IN {p \in nodes \X nodes : \A C \in closed : p[1] \in C => p[2] \in C}

Forward(ir) == {<<w.from, w.to>> : w \in {x \in ToSet(ir.wires) : x.from # External /\ x.port # Feedback}}
AnyWire(ir) == {<<w.from, w.to>> : w \in {x \in ToSet(ir.wires) : x.from # External}}

LeadsAnyway == Each(Pool, LAMBDA ir : Leads(AnyWire(ir), Names(ir)))

SoundIR(ir) ==
  LET leads == Leads(Forward(ir), Names(ir)) IN
  /\ \A e \in Forward(ir) : <<e[2], e[1]>> \notin leads
  /\ \A e \in AnyWire(ir) : {e[1], e[2]} \subseteq Names(ir)
  /\ \A k, l \in DOMAIN ir.wires :
       ir.wires[k].to = ir.wires[l].to /\ ir.wires[k].input = ir.wires[l].input => k = l
  /\ \A g \in {s \in ToSet(ir.stages) : s.type = "gate"} : \A targets \in g.routes :
       /\ targets \subseteq Names(ir)
       /\ \A t, u \in targets : <<t, g.name>> \in leads => <<u, g.name>> \in leads

IsSound == Each(Pool, SoundIR)

\* Every registered version can run: its stages do not wait for each other in a
\* circle, every wire has two ends and every input one source, and an answer of a gate
\* leads back to where the gate was reached from with all its targets or with none
\* (validateStructural, validateDag, applyPatch).
VersionsAreSound == \A v \in registry : IsSound[v]

InTurnIR(ir) ==
  LET plan  == Segments(ir)
      leads == Leads(Forward(ir), Names(ir)) IN
  /\ \A n \in Names(ir) : Cardinality({k \in DOMAIN plan : Contains(plan[k], n)}) = 1
  /\ \A k \in DOMAIN plan : \A i, j \in DOMAIN plan[k] :
       i < j => <<plan[k][i], plan[k][j]>> \in leads

InTurn == Each(Pool, InTurnIR)

\* A session never has two stages talk in it at once: of two stages of a segment one
\* leads to the other; and every stage is in one segment (planSegments).
SegmentsRunInTurn == \A v \in registry : InTurn[v]

CompleteIR(ir) ==
  LET order == ResumeOrder(ir) IN
  /\ ToSet(order) = Names(ir) /\ Len(order) = Len(ir.stages)
  /\ \A i, j \in DOMAIN order : <<order[i], order[j]>> \in Forward(ir) => i < j

Complete == Each(Pool, CompleteIR)

\* The order in which a resumed task looks for its first unfinished stage has every
\* stage, after those it waits for: a stage left out counts as finished, and the task
\* as completed (classifyOrphan).
NoStageIsOverlooked == \A v \in registry : Complete[v]

\* Every agent of a version that was proposed finds its prompt, if no crash cut a
\* registration short (propose: PROMPT_REF_MISSING).
PromptsAreFound ==
  \A k \in DOMAIN proposals :
    LET v == proposals[k].to IN
    /\ v \in stored => PromptRefs(IR(v)) \subseteq DOMAIN Pool[v].prompts
    /\ faults = 0 => v \in stored

Shape(v) ==
  <<{<<s.name, s.type, s.ins, s.outs, s.routes>> : s \in ToSet(IR(v).stages)}, ToSet(IR(v).wires)>>

\* Nobody is asked about a proposal only if it leaves the graph alone: the stages,
\* their ports, the wires and the routes of the gates ("Structural patches ignore this
\* flag and stay pending", mcp/tools/hot-update.ts).
AutoApprovedKeepsTheGraph ==
  \A k \in DOMAIN proposals :
    proposals[k].auto => Shape(proposals[k].base) = Shape(proposals[k].to)

\* A migration redoes what reads the rerun stage, directly or not, and nothing else:
\* a parallel stage keeps its work, and no stage keeps work done from what is redone
\* (computeWireTransitiveReaders, the supersede transaction).
RedoIsExact ==
  [][moves' > moves =>
      \A s \in Known :
        attempts[s] \in {"success", "error", "running"} =>
          (attempts'[s] = "superseded" <=> run'.from # None /\ <<run'.from, s>> \in LeadsAnyway[run'.version])]_vars

-----------------------------------------------------------------------------
(* What comments say and the code does not do. *)

\* A registration that a crash cut short is made up for when the proposal is made again
\* ("its retry is idempotent so leaving it standalone is fine", kernel.ts:680-681).
RegistrationIsRetryable == \A k \in DOMAIN proposals : proposals[k].to \in stored

FirstOf(old, new, d) ==
  LET names   == Names(old) \cup Names(new)
      changed == (names \ (Names(old) \cap Names(new))) \cup Modified(old, new)
      leads   == Leads(Forward(old) \cup Forward(new), names)
  IN d # None => \A c \in changed \ {d} : <<c, d>> \notin leads

\* A rollback starts at the first difference: no other stage that differs leads to the
\* one it reruns from ("Returns the topologically-earliest stage name that differs",
\* divergence.ts:3).  A reject loop keeps every stage after it out of the order.
DivergenceIsEarliest ==
  latest # 0 => \A v \in visited : FirstOf(IR(latest), IR(v), Diverges[latest][v])
=============================================================================
