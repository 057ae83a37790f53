--------------------------- MODULE PipelineVersion ---------------------------
(***************************************************************************)
(* A pipeline version as data: what a patch makes of an IR, what the       *)
(* validator lets pass, and what the kernel computes from an IR it has     *)
(* registered - the order of its stages, the segments that share a         *)
(* session, the readers of a stage, the difference between two versions.   *)
(*                                                                         *)
(* An ir is a record                                                       *)
(*   stages    a sequence of [name, type, ins, outs, fanout, impl, routes, *)
(*             resume, mcps, extra], in the order of the file              *)
(*   wires     a sequence of [from, port, to, input, guard]                *)
(*   external  the names of its externalInputs                             *)
(*   store     store_schema, a set of [stage, port, type]                  *)
(*   single    session_mode is "single".                                   *)
(* ins and outs map a port to its type; fanout names an input or is None;  *)
(* impl is the promptRef of an agent, the module of a script, the question *)
(* of a gate; routes is the set of the targets of each answer of a gate;   *)
(* resume is cross_segment_resume_from or None; mcps is a sequence of the  *)
(* [name, command] of MCP servers; extra is the rest of the config (sub-   *)
(* agents, retry, timeout).                                                *)
(* The type of a port is [base, fields, depth]: depth is how many arrays   *)
(* are around the base, fields the names of its fields if it is an object. *)
(***************************************************************************)
EXTENDS Integers, SequencesExt

None     == "none"
External == "__external__"
Feedback == "__gate_feedback__"

\* Stand for the names of MCP servers that are no identifiers, and for the reserved ones.
NoIdentifier == "no identifier"
Reserved     == "__reserved__"

NameSeq(ir) == [k \in DOMAIN ir.stages |-> ir.stages[k].name]
Names(ir)   == ToSet(NameSeq(ir))
StageOf(ir, n) == CHOOSE s \in ToSet(ir.stages) : s.name = n
OfType(ir, type) == {s.name : s \in {x \in ToSet(ir.stages) : x.type = type}}

StageWires(ir)   == {w \in ToSet(ir.wires) : w.from # External}
ForwardWires(ir) == {w \in StageWires(ir) : w.port # Feedback}
Edges(W) == {<<w.from, w.to>> : w \in W}

\* The version hash: file order is no part of it.
Canonical(ir) ==
  [stages |-> ToSet(ir.stages), wires |-> ToSet(ir.wires),
   external |-> ir.external, store |-> ir.store, single |-> ir.single]

Distinct(s) ==
  LET firsts == SelectSeq([k \in DOMAIN s |-> k], LAMBDA k : \A j \in 1..(k - 1) : s[j] # s[k])
  IN [k \in DOMAIN firsts |-> s[firsts[k]]]

\* What a search along the edges E finds, S included.
Found(E, S) ==
  LET grown(found) == found \cup {e[2] : e \in {x \in E : x[1] \in found}}
      layer[k \in Nat] == IF k = 0 THEN S ELSE grown(layer[k - 1])
  IN layer[Cardinality({e[2] : e \in E})]

-----------------------------------------------------------------------------
(* Topological orders. *)

\* Kahn's algorithm with a first-in first-out queue; succ[n] lists the successors
\* of n, as often as there are edges.
Kahn(nodes, succ) ==
  LET degree0 == [m \in ToSet(nodes) |->
                    Cardinality(UNION {{<<n, k>> : k \in {i \in DOMAIN succ[n] : succ[n][i] = m}}
                                         : n \in ToSet(nodes)})]
      release(r, m) ==
        [r EXCEPT !.degree[m] = @ - 1,
                  !.queue = IF r.degree[m] = 1 THEN Append(@, m) ELSE @]
      emit(r) ==
        IF r.queue = <<>> THEN r
        ELSE FoldLeft(release,
                      [r EXCEPT !.queue = Tail(@), !.out = Append(@, Head(r.queue))],
                      succ[Head(r.queue)])
      after[k \in Nat] ==
        IF k = 0
          THEN [queue |-> SelectSeq(nodes, LAMBDA n : degree0[n] = 0), degree |-> degree0, out |-> <<>>]
          ELSE emit(after[k - 1])
  IN after[Len(nodes)].out

\* The successors of each stage along the wires ws.
Successors(ir, ws) ==
  [n \in Names(ir) |->
     LET mine == SelectSeq(ws, LAMBDA w : w.from = n /\ w.to \in Names(ir))
     IN [k \in DOMAIN mine |-> mine[k].to]]

IsForward(w) == w.port # Feedback

\* buildDag: feedback wires are the sanctioned back-edges, a self-wire never is.
HasCycle(ir) ==
  LET succ == Successors(ir, SelectSeq(ir.wires, LAMBDA w : IsForward(w) /\ w.from # w.to))
  IN \/ Len(Kahn(NameSeq(ir), [n \in Names(ir) |-> Distinct(succ[n])])) # Len(ir.stages)
     \/ \E w \in StageWires(ir) : w.from = w.to

\* Mutant: feedback wires count.
ResumeOrderAlongAllWires(ir) == Kahn(NameSeq(ir), Successors(ir, ir.wires))
\* The order in which a resumed task looks for its first unfinished stage.
ResumeOrder(ir) == Kahn(NameSeq(ir), Successors(ir, SelectSeq(ir.wires, IsForward)))

\* The order of the segment planner: feedback wires count, and what a cycle holds
\* back follows in file order.
PlanOrder(ir) ==
  LET succ  == Successors(ir, SelectSeq(ir.wires, LAMBDA w : w.from # w.to))
      order == Kahn(NameSeq(ir), [n \in Names(ir) |-> Distinct(succ[n])])
  IN order \o SelectSeq(NameSeq(ir), LAMBDA n : ~Contains(order, n))

-----------------------------------------------------------------------------
(* Segments. *)

MayShare(s) == s.type = "agent" /\ s.fanout = None

UpstreamAgents(ir, n) ==
  {w.from : w \in {x \in StageWires(ir) : x.to = n /\ MayShare(StageOf(ir, x.from))}}

\* Mutant: every reader of an agent continues its segment.
JoinsAnyway(ir, plan, n, k) ==
  /\ MayShare(StageOf(ir, n))
  /\ \E u \in ToSet(plan.segments[k]) : UpstreamAgents(ir, n) = {u}
\* n continues the segment of its only upstream agent, unless another stage does.
Joins(ir, plan, n, k) ==
  /\ MayShare(StageOf(ir, n))
  /\ \E u \in ToSet(plan.segments[k]) : UpstreamAgents(ir, n) = {u} /\ u \notin plan.consumed

Segments(ir) ==
  LET place(plan, n) ==
        LET k == {i \in DOMAIN plan.segments : Joins(ir, plan, n, i)}
        IN IF k = {} THEN [plan EXCEPT !.segments = Append(@, <<n>>)]
           ELSE [segments |-> [i \in DOMAIN plan.segments |->
                                 IF i \in k THEN Append(plan.segments[i], n) ELSE plan.segments[i]],
                 consumed |-> plan.consumed \cup UpstreamAgents(ir, n)]
  IN IF ir.single THEN FoldLeft(place, [segments |-> <<>>, consumed |-> {}], PlanOrder(ir)).segments
     ELSE [k \in DOMAIN ir.stages |-> <<ir.stages[k].name>>]

SegmentOf(ir, n) == CHOOSE k \in DOMAIN Segments(ir) : Contains(Segments(ir)[k], n)

-----------------------------------------------------------------------------
(* The validator. *)

\* The schema an IR is parsed by first, as to the MCP servers of a stage: each has a
\* command and a name it may have, and no two have the same.
ServersOK(ir) ==
  \A s \in ToSet(ir.stages) : \A k \in DOMAIN s.mcps :
    /\ s.mcps[k].command # "" /\ s.mcps[k].name \notin {NoIdentifier, Reserved}
    /\ \A l \in 1..(k - 1) : s.mcps[l].name # s.mcps[k].name

NamesOK(ir) ==
  /\ \A k, l \in DOMAIN ir.stages : ir.stages[k].name = ir.stages[l].name => k = l
  /\ External \notin Names(ir) \cup ir.external
  /\ ir.external \cap Names(ir) = {}

GatesOK(ir) ==
  \A g \in {s \in ToSet(ir.stages) : s.type = "gate"} :
    /\ g.fanout = None /\ Feedback \notin DOMAIN g.outs
    /\ UNION g.routes \subseteq Names(ir)

FanoutOK(ir) ==
  \A s \in {x \in ToSet(ir.stages) : x.fanout # None} :
    /\ s.fanout \in DOMAIN s.ins
    /\ \E w \in ToSet(ir.wires) : w.to = s.name /\ w.input = s.fanout

\* Mutant: the targets of an answer are not looked at.
RoutesUnchecked(ir) == TRUE
\* The targets of one answer lead back to the gate together, or not at all.
RoutesOK(ir) ==
  \A g \in {s \in ToSet(ir.stages) : s.type = "gate"} : \A targets \in g.routes :
    LET back == {t \in targets : g.name \in Found(Edges(ForwardWires(ir)), {t})}
    IN back = {} \/ back = targets

SourceExists(ir, w) ==
  IF w.from = External THEN w.port \in ir.external
  ELSE /\ w.from \in Names(ir)
       /\ \/ w.port = Feedback /\ StageOf(ir, w.from).type = "gate"
          \/ w.port \in DOMAIN StageOf(ir, w.from).outs

WiresOK(ir) ==
  /\ \A w \in ToSet(ir.wires) :
       SourceExists(ir, w) /\ w.to \in Names(ir) /\ w.input \in DOMAIN StageOf(ir, w.to).ins
  /\ Cardinality({<<w.to, w.input>> : w \in ToSet(ir.wires)}) = Len(ir.wires)

DataflowOK(ir) ==
  ir.wires # <<>> \/ ir.external # {} \/ \E s \in ToSet(ir.stages) : DOMAIN s.ins \cup DOMAIN s.outs # {}

\* cross_segment_resume_from names an agent upstream, in another segment.
ResumeOK(ir) ==
  \A s \in {x \in ToSet(ir.stages) : x.type = "agent" /\ x.resume # None} :
    /\ ir.single
    /\ s.resume \in OfType(ir, "agent")
    /\ \E e \in Edges(StageWires(ir)) : e[1] = s.resume /\ s.name \in Found(Edges(StageWires(ir)), {e[2]})
    /\ SegmentOf(ir, s.name) # SegmentOf(ir, s.resume)

StoreOK(ir) ==
  \A e \in ir.store :
    /\ e.stage \in Names(ir)
    /\ e.port \in DOMAIN StageOf(ir, e.stage).outs
    /\ StageOf(ir, e.stage).outs[e.port] = e.type

TypeNamed(base) == [base |-> base, fields |-> {}, depth |-> 0]
ObjectWith(fields) == [base |-> "object", fields |-> fields, depth |-> 0]
ArrayOf(t) == [t EXCEPT !.depth = @ + 1]
Text == TypeNamed("string")

Assignable(from, to) == from.base = to.base /\ from.depth = to.depth /\ to.fields \subseteq from.fields

\* What t[0] is: a string can be indexed too.
Elements(t) == IF t.depth > 0 THEN {[t EXCEPT !.depth = @ - 1]} ELSE {t} \cap {Text}

Produced(ir, w) == IF w.port = Feedback THEN Text ELSE StageOf(ir, w.from).outs[w.port]

\* What arrives at the end of a wire: the array of what a fanout produces, and at the
\* input a fanout iterates over one element.
Delivered(ir, w) ==
  LET fans    == StageOf(ir, w.from).fanout # None
      iterates == StageOf(ir, w.to).fanout = w.input
  IN CASE fans /\ ~iterates -> {ArrayOf(Produced(ir, w))}
       [] ~fans /\ iterates -> Elements(Produced(ir, w))
       [] OTHER             -> {Produced(ir, w)}

\* tsc over the emitted module.
TypesOK(ir) ==
  \A w \in StageWires(ir) :
    \E t \in Delivered(ir, w) : Assignable(t, StageOf(ir, w.to).ins[w.input])

\* Each check looks only at what the ones before it let pass.
Valid(ir) ==
  /\ ServersOK(ir)
  /\ NamesOK(ir) /\ GatesOK(ir) /\ FanoutOK(ir) /\ RoutesOK(ir) /\ WiresOK(ir)
  /\ DataflowOK(ir) /\ ResumeOK(ir)
  /\ ~HasCycle(ir) /\ StoreOK(ir) /\ TypesOK(ir)

-----------------------------------------------------------------------------
(* Patches. *)

SameEnds(w, x) == w.from = x.from /\ w.port = x.port /\ w.to = x.to /\ w.input = x.input
Touches(w, n) == w.from = n \/ w.to = n

\* The config fields a patch may set.
Settable(type) ==
  CASE type = "agent"  -> {"impl", "extra", "mcps", "resume"}
    [] type = "script" -> {"impl", "extra"}
    [] type = "gate"   -> {"impl", "extra", "routes"}

StageRemoved(ir, n) ==
  [ir EXCEPT !.stages = SelectSeq(@, LAMBDA s : s.name # n),
             !.wires  = SelectSeq(@, LAMBDA w : ~Touches(w, n))]

AtStage(ir, n, change(_)) ==
  [ir EXCEPT !.stages = [k \in DOMAIN @ |-> IF @[k].name = n THEN change(@[k]) ELSE @[k]]]

\* The IR after the operation o, or nothing if it does not apply.
Applied(ir, o) ==
  CASE o.op = "add_stage" ->
         {x \in {[ir EXCEPT !.stages = Append(@, o.stage)]} : o.stage.name \notin Names(ir)}
    [] o.op = "remove_stage" -> {StageRemoved(ir, n) : n \in Names(ir) \cap {o.stage}}
    [] o.op = "add_wire" ->
         {x \in {[ir EXCEPT !.wires = Append(@, o.wire)]} :
            \A w \in ToSet(ir.wires) : ~SameEnds(w, o.wire)}
    [] o.op = "remove_wire" ->
         {x \in {[ir EXCEPT !.wires = SelectSeq(@, LAMBDA w : ~SameEnds(w, o.wire))]} : x # ir}
    [] o.op = "update_port_type" ->
         {AtStage(ir, n, LAMBDA s : [s EXCEPT ![o.side][o.port] = o.type]) :
            n \in {m \in Names(ir) \cap {o.stage} : o.port \in DOMAIN StageOf(ir, m)[o.side]}}
    [] o.op = "update_stage_config" ->
         {AtStage(ir, n, LAMBDA s : [s EXCEPT ![o.field] = o.value]) :
            n \in {m \in Names(ir) \cap {o.stage} : o.field \in Settable(StageOf(ir, m).type)}}
    [] o.op = "add_external_input" ->
         {[ir EXCEPT !.external = @ \cup {e}] : e \in {o.name} \ ir.external}
    [] o.op = "remove_external_input" ->
         {[ir EXCEPT !.external = @ \ {e}] : e \in {o.name} \cap ir.external}

Patched(ir, ops) == FoldLeft(LAMBDA S, o : UNION {Applied(x, o) : x \in S}, {ir}, ops)

-----------------------------------------------------------------------------
(* Two versions side by side. *)

Added(base, to)   == Names(to) \ Names(base)
Removed(base, to) == Names(base) \ Names(to)

\* What the diff compares of a stage: resume, mcps, extra and fanout are not in it.
Compared(s) == [type |-> s.type, ins |-> s.ins, outs |-> s.outs, impl |-> s.impl, routes |-> s.routes]

Modified(base, to) ==
  {n \in Names(base) \cap Names(to) : Compared(StageOf(base, n)) # Compared(StageOf(to, n))}

PromptOnly(base, to, n) ==
  /\ StageOf(base, n).type = "agent"
  /\ Compared(StageOf(to, n)) = [Compared(StageOf(base, n)) EXCEPT !.impl = StageOf(to, n).impl]

\* Mutant: wires are not compared.
StructuralInStages(base, to) ==
  \/ Added(base, to) \cup Removed(base, to) # {}
  \/ \E n \in Modified(base, to) : ~PromptOnly(base, to, n)
Structural(base, to) ==
  \/ Added(base, to) \cup Removed(base, to) # {}
  \/ ToSet(base.wires) # ToSet(to.wires)
  \/ \E n \in Modified(base, to) : ~PromptOnly(base, to, n)

\* classifySafeRange: whatever computeImpact objects to comes with a structural change.
Safe(base, to) == ~Structural(base, to)

\* The first stage, in an order along the wires of both, that is not the same in both;
\* one of those a cycle of wires holds back if there is no other.
Divergence(base, to) ==
  LET names == Distinct(NameSeq(to) \o NameSeq(base))
      E     == Edges(StageWires(base) \cup StageWires(to))
      changed == SelectSeq(NameSeq(to), LAMBDA n : n \in Added(base, to))
                 \o SelectSeq(NameSeq(base), LAMBDA n : n \in Removed(base, to))
                 \o SelectSeq(NameSeq(base), LAMBDA n : n \in Modified(base, to))
      free(out) == SelectSeq(names, LAMBDA n :
                     ~Contains(out, n) /\ \A e \in E : e[2] = n => Contains(out, e[1]))
      next(out) == IF free(out) = <<>> THEN out ELSE Append(out, Head(free(out)))
      order[k \in Nat] == IF k = 0 THEN <<>> ELSE next(order[k - 1])
      candidates == SelectSeq(order[Len(names)], LAMBDA n : Contains(changed, n)) \o changed
  IN IF changed = <<>> THEN None ELSE Head(candidates)

\* computeWireTransitiveReaders, the stage included.
\* Mutant: those that read it directly.
DirectReaders(ir, s) == {n \in Names(ir) : n = s \/ <<s, n>> \in Edges(StageWires(ir))}
Readers(ir, s) == IF s \in Names(ir) THEN Found(Edges(StageWires(ir)), {s}) ELSE {}
=============================================================================
