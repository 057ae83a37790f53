---------------------------- MODULE TaskVerdict ----------------------------
(***************************************************************************)
(* What the people who own a task may rely on, whatever happens to the     *)
(* server: a task is completed only when a person has answered every gate  *)
(* of its pipeline, it can be cancelled only while it has no verdict, and  *)
(* a cancelled task stays cancelled.                                       *)
(***************************************************************************)
CONSTANT Gates

VARIABLES verdict, heard

vars == <<verdict, heard>>

Init == verdict = "none" /\ heard = {}

Answer(g) ==
  /\ heard' = heard \cup {g}
  /\ UNCHANGED verdict

Complete ==
  /\ verdict # "cancelled" /\ heard = Gates
  /\ verdict' = "completed"
  /\ UNCHANGED heard

Fail ==
  /\ verdict # "cancelled"
  /\ verdict' = "failed"
  /\ UNCHANGED heard

Cancel ==
  /\ verdict = "none"
  /\ verdict' = "cancelled"
  /\ UNCHANGED heard

Next == (\E g \in Gates : Answer(g)) \/ Complete \/ Fail \/ Cancel

Spec == Init /\ [][Next]_vars
=============================================================================
