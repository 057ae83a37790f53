------------------------------ MODULE RepairIR ------------------------------
(***************************************************************************)
(* validate_and_repair_ir: the script between the stage that writes an IR  *)
(* and the one that submits it.  A repair of ir is the set of the IRs it   *)
(* may come to: empty when it throws, and of several members only where it *)
(* goes by the order in which ports are declared, which an IR (see         *)
(* PipelineVersion) does not have.                                         *)
(*                                                                         *)
(* Here a stage or port a wire names need not exist.                       *)
(***************************************************************************)
EXTENDS PipelineVersion

CONSTANT Inside     \* the pairs of port names of which the first is part of the second

Similar(p, q) == <<p, q>> \in Inside \/ <<q, p>> \in Inside

FanoutStages(ir) == {s.name : s \in {x \in ToSet(ir.stages) : x.fanout # None}}

\* dedupeWires
WithoutDuplicates(ir) == [ir EXCEPT !.wires = Distinct(@)]

\* Mutant: one of several will do.
MeantPerhaps(p, declared) ==
  LET alike == {q \in declared : Similar(p, q)} IN
  IF p \in declared \/ alike = {} THEN {p} ELSE alike
\* Mutant: a name is matched although it is declared.
MeantThoughDeclared(p, declared) ==
  LET alike == {q \in declared : p = q \/ Similar(p, q)} IN
  CASE alike = {}             -> {p}
    [] Cardinality(alike) = 1 -> alike
    [] OTHER                  -> {}
\* The declared port a name stands for: itself if it is declared or resembles none,
\* the one it resembles, and nothing if it resembles several.
Meant(p, declared) ==
  LET alike == {q \in declared : Similar(p, q)} IN
  CASE p \in declared \/ alike = {} -> {p}
    [] Cardinality(alike) = 1       -> alike
    [] OTHER                        -> {}

MeantInput(ir, w) ==
  IF w.to \in Names(ir) THEN Meant(w.input, DOMAIN StageOf(ir, w.to).ins) ELSE {w.input}
MeantPort(ir, w) ==
  IF w.from \in Names(ir) \ FanoutStages(ir) THEN Meant(w.port, DOMAIN StageOf(ir, w.from).outs)
  ELSE {w.port}

\* The IRs with each wire replaced by one of its readings.
Rewired(ir, readings(_)) ==
  LET of   == [k \in DOMAIN ir.wires |-> readings(ir.wires[k])]
      open == {k \in DOMAIN of : Cardinality(of[k]) > 1}
      picks == {f \in [open -> UNION {of[k] : k \in open}] : \A k \in open : f[k] \in of[k]}
      wire(k, f) == IF k \in open THEN f[k] ELSE CHOOSE w \in of[k] : TRUE
  IN {[ir EXCEPT !.wires = [k \in DOMAIN of |-> wire(k, f)]] :
        f \in {g \in picks : \A k \in DOMAIN of : of[k] # {}}}

\* repairPortNameMismatch
WithMeantPorts(ir) ==
  Rewired(ir, LAMBDA w : {[w EXCEPT !.port = p, !.input = i] : p \in MeantPort(ir, w), i \in MeantInput(ir, w)})

Undeclared(ir) ==
  SelectSeq(ir.wires, LAMBDA w : w.to \in Names(ir) /\ w.input \notin DOMAIN StageOf(ir, w.to).ins)

\* The type given to an input nobody declared: that of the port its first wire comes
\* from, as declared there.
InferredType(ir, w) ==
  IF w.from \in Names(ir) /\ w.port \in DOMAIN StageOf(ir, w.from).outs
    THEN StageOf(ir, w.from).outs[w.port] ELSE Text

\* backfillMissingTargetInputs
WithMissingInputs(ir) ==
  LET added(n) == FoldLeft(LAMBDA ins, w : IF w.to # n \/ w.input \in DOMAIN ins THEN ins
                                           ELSE ins @@ (w.input :> InferredType(ir, w)),
                           StageOf(ir, n).ins, Undeclared(ir))
  IN [ir EXCEPT !.stages = [k \in DOMAIN @ |-> [@[k] EXCEPT !.ins = added(ir.stages[k].name)]]]

-----------------------------------------------------------------------------
(* repairFanoutShape. *)

IsObjectArray(t) == t.base = "object" /\ t.depth > 0
IsScalarArray(t) == t.base \in {"string", "number", "boolean"} /\ t.depth = 1

\* The type of the input w ends at; an input that is not there has none that helps.
Wanted(ir, w) ==
  IF w.to \in Names(ir) /\ w.input \in DOMAIN StageOf(ir, w.to).ins
    THEN StageOf(ir, w.to).ins[w.input] ELSE TypeNamed("unknown")

\* The output of a fanout whose name is part of that of the input, or else the other
\* way round.
ElementFor(outs, input) ==
  LET parts  == {p \in DOMAIN outs : p = input \/ <<p, input>> \in Inside}
      wholes == {p \in DOMAIN outs : <<input, p>> \in Inside}
  IN IF parts # {} THEN parts ELSE wholes

\* Pattern A: a wire from a port the fanout does not have.
Reading(ir, w) ==
  LET outs    == StageOf(ir, w.from).outs
      objects == {p \in DOMAIN outs : outs[p].base = "object"}
      element == ElementFor(outs, w.input)
  IN CASE w.from \notin FanoutStages(ir) \/ w.port \in DOMAIN outs -> {w}
       [] IsObjectArray(Wanted(ir, w)) ->
            IF objects = {} THEN {w}
            ELSE {[w EXCEPT !.port = p] : p \in {q \in objects : objects = {q}}}
       [] IsScalarArray(Wanted(ir, w)) /\ element # {} -> {[w EXCEPT !.port = p] : p \in element}
       [] OTHER -> {w}

WithFanoutPorts(ir) == Rewired(ir, LAMBDA w : Reading(ir, w))

\* Pattern B: the places of the wires from one fanout to one input, if there are several.
Converging(ir) ==
  LET ends(k)    == <<ir.wires[k].from, ir.wires[k].to, ir.wires[k].input>>
      parallel(k) == {l \in DOMAIN ir.wires : ends(l) = ends(k)}
  IN {K \in {parallel(k) : k \in {l \in DOMAIN ir.wires : ir.wires[l].from \in FanoutStages(ir)}} :
        Cardinality(K) > 1}

FieldsOf(ir, K) ==
  {p \in {ir.wires[k].port : k \in K} : \E k \in K : p \in DOMAIN StageOf(ir, ir.wires[k].from).outs}

\* These become one wire, from a port of its own with an object of their fields.
Bundles(ir) ==
  {K \in Converging(ir) :
     /\ Cardinality(FieldsOf(ir, K)) > 1
     /\ \A k \in K : ir.wires[k].input \notin DOMAIN StageOf(ir, ir.wires[k].from).outs}

Bundled(ir) ==
  LET gone == {ir.wires[k] : k \in UNION Bundles(ir)}
      ports == {<<ir.wires[k].from, ir.wires[k].input, ObjectWith(FieldsOf(ir, K))>> :
                  <<k, K>> \in {x \in (DOMAIN ir.wires) \X Bundles(ir) : x[1] \in x[2]}}
      one   == {[w EXCEPT !.port = w.input, !.guard = "always"] : w \in gone}
      outs(s) == [p \in {x[2] : x \in {y \in ports : y[1] = s.name}} |->
                    CHOOSE t \in {x[3] : x \in ports} : <<s.name, p, t>> \in ports]
  IN [ir EXCEPT !.stages = [k \in DOMAIN @ |-> [@[k] EXCEPT !.outs = @ @@ outs(ir.stages[k])]],
                !.wires  = SelectSeq(@, LAMBDA w : w \notin gone) \o SetToSeq(one)]

\* Several wires to an input that does not take an array of objects are beyond repair.
WithFanoutShapes(ir) ==
  {Bundled(x) : x \in {y \in WithFanoutPorts(ir) :
     \A K \in Converging(y) : \A k \in K : IsObjectArray(Wanted(y, y.wires[k]))}}

-----------------------------------------------------------------------------

\* backfillExternalInputs
WithExternals(ir) ==
  [ir EXCEPT !.external = @ \cup {w.port : w \in {x \in ToSet(ir.wires) : x.from = External}}]

\* validateAndRepairIR
Repairs(ir) ==
  LET named  == WithMeantPorts(WithoutDuplicates(ir))
      filled == {WithMissingInputs(x) : x \in named}
  IN {WithExternals(x) : x \in UNION {WithFanoutShapes(y) : y \in filled}}
=============================================================================
