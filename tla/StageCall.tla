----------------------------- MODULE StageCall -----------------------------
(***************************************************************************)
(* What the runner relies on when it calls executeStage for an agent: the  *)
(* call delivers declared outputs one by one while it is open, returns     *)
(* once, and returns success only when everything has been delivered.      *)
(***************************************************************************)
CONSTANT Outputs

VARIABLES
  call,       \* "open", then what the call returned
  delivered   \* ports for which PORT_WRITTEN was dispatched

TypeOK ==
  /\ call \in {"open", "success", "error", "secret_pending"}
  /\ delivered \subseteq Outputs

Init == call = "open" /\ delivered = {}

Deliver ==
  /\ call = "open"
  /\ \E p \in Outputs : delivered' = delivered \cup {p}
  /\ UNCHANGED call

Succeed ==
  /\ call = "open" /\ delivered = Outputs
  /\ call' = "success"
  /\ UNCHANGED delivered

GiveUp ==
  /\ call = "open"
  /\ call' \in {"error", "secret_pending"}
  /\ UNCHANGED delivered

Next == Deliver \/ Succeed \/ GiveUp

Spec == Init /\ [][Next]_<<call, delivered>>
=============================================================================
