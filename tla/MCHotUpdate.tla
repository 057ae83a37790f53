----------------------------- MODULE MCHotUpdate -----------------------------
(* A drafter feeds two parallel stages, a gate reviews both and rejects back to  *)
(* the drafter; one session; and the changes people ask for.                     *)
EXTENDS HotUpdateProperties

Stage(name, type, ins, outs, impl) ==
  [name |-> name, type |-> type, ins |-> [p \in ins |-> Text], outs |-> [p \in outs |-> Text],
   fanout |-> None, impl |-> impl, routes |-> {}, resume |-> None, mcps |-> <<>>, extra |-> "v1"]

Wire(from, port, to, input) == [from |-> from, port |-> port, to |-> to, input |-> input, guard |-> "always"]

Base ==
  [stages |-> << Stage("publish", "agent", {"x"}, {"o"}, "p_publish"),
                 Stage("draft", "agent", {"seed", "fb"}, {"o"}, "p_draft"),
                 Stage("check", "script", {"x"}, {"o"}, "lint"),
                 Stage("edit", "agent", {"x", "y"}, {"o"}, "p_edit"),
                 [Stage("review", "gate", {"p", "q"}, {}, "ok?")
                    EXCEPT !.routes = {{"publish"}, {"draft"}}] >>,
   wires  |-> << Wire(External, "topic", "draft", "seed"),
                 Wire("draft", "o", "check", "x"), Wire("draft", "o", "edit", "x"),
                 Wire("edit", "o", "review", "p"), Wire("check", "o", "review", "q"),
                 Wire("edit", "o", "publish", "x"),
                 Wire("review", Feedback, "draft", "fb") >>,
   external |-> {"topic"}, store |-> {[stage |-> "publish", port |-> "o", type |-> Text]},
   single |-> TRUE]

BasePrompts == [p_publish |-> "v1", p_draft |-> "v1", p_edit |-> "v1"]

Twice == [Base EXCEPT !.wires = Append(@, Wire("check", "o", "publish", "x"))]

\* Without the reject loop, and not checked.
Plain ==
  [Base EXCEPT !.stages = << @[1], @[2], @[4], [@[5] EXCEPT !.routes = {{"publish"}}] >>,
               !.wires = SelectSeq(@, LAMBDA w : "check" \notin {w.from, w.to} /\ w.from # "review")]

TheSubmissions == <<[ir |-> Base, prompts |-> BasePrompts],
                    [ir |-> Plain, prompts |-> [p_check |-> "v1"] @@ BasePrompts],
                    [ir |-> Twice, prompts |-> BasePrompts]>>

Set(stage, field, value) ==
  [op |-> "update_stage_config", stage |-> stage, field |-> field, value |-> value]
Retype(stage, side, port) ==
  [op |-> "update_port_type", stage |-> stage, side |-> side, port |-> port, type |-> TypeNamed("json")]
AddStage(stage) == [op |-> "add_stage", stage |-> stage]
RemoveStage(n) == [op |-> "remove_stage", stage |-> n]
AddWire(w) == [op |-> "add_wire", wire |-> w]
RemoveWire(w) == [op |-> "remove_wire", wire |-> w]

Ask(ops, prompts, rerun) ==
  [ops |-> ops, prompts |-> prompts, rerun |-> rerun, auto |-> TRUE, listed |-> TRUE]

Translate == Stage("translate", "agent", {"x"}, {"o"}, "p_translate")

Useful ==
  << Ask(<<Set("edit", "impl", "p_edit2")>>, <<>>, "edit"),
    Ask(<<>>, [p_draft |-> "v2"], "draft"),
    Ask(<<Set("check", "extra", "v2"), [op |-> "add_external_input", name |-> "tone"]>>, <<>>, None),
    Ask(<<AddStage(Translate), AddWire(Wire("edit", "o", "translate", "x"))>>,
        [p_translate |-> "v1"], "translate"),
    Ask(<<Set("edit", "impl", "p_edit2"), AddStage(Translate), AddWire(Wire("edit", "o", "translate", "x"))>>,
        [p_translate |-> "v2"], "edit"),
    [Ask(<<RemoveStage("check")>>, <<>>, "review") EXCEPT !.listed = FALSE],
    Ask(<<AddWire(Wire("check", "o", "edit", "y"))>>, <<>>, "edit"),
    Ask(<<RemoveWire(Wire("check", "o", "review", "q"))>>, <<>>, "review"),
    Ask(<<Retype("check", "outs", "o"), Retype("review", "ins", "q")>>, <<>>, "check"),
    Ask(<<Set("review", "routes", {{"publish"}, {"edit"}}), Set("check", "impl", "lint2")>>, <<>>, "check") >>

Faulty ==
  << Ask(<<Set("publish", "impl", "p_gone")>>, [p_other |-> "v1"], None),
    Ask(<<AddStage(Translate)>>, <<>>, None),
    Ask(<<RemoveStage("publish")>>, <<>>, None),
    Ask(<<AddWire(Wire("publish", "o", "edit", "y"))>>, <<>>, "edit"),
    Ask(<<AddWire(Wire("check", "o", "publish", "x"))>>, <<>>, "publish"),
    Ask(<<Retype("check", "outs", "o")>>, <<>>, "check"),
    Ask(<<Set("review", "routes", {{"publish", "draft"}})>>, <<>>, "review"),
    Ask(<<Set("publish", "resume", "draft")>>, <<>>, "publish"),
    Ask(<<Set("publish", "routes", {})>>, <<>>, "publish"),
    Ask(<<[op |-> "remove_external_input", name |-> "topic"]>>, <<>>, "draft") >>

TheRequests == Useful \o Faulty
TheStages == Names(Base) \cup {"translate"}
=============================================================================
