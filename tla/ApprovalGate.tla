----------------------------- MODULE ApprovalGate -----------------------------
(***************************************************************************)
(* What external delivery promises: a delivery that requires approval is   *)
(* started only after a person endorsed it.  It says nothing of how        *)
(* approvals, tasks and attempts are stored, nor of how often a delivery   *)
(* may be started once it is clear (ADR-0006, "requires human approval").  *)
(***************************************************************************)
CONSTANT Deliveries

VARIABLES open,      \* deliveries that need no approval
          guarded,   \* deliveries that need one
          endorsed,  \* deliveries a person endorsed
          started    \* deliveries with at least one attempt

gateVars == <<open, guarded, endorsed, started>>

GateInit == open = {} /\ guarded = {} /\ endorsed = {} /\ started = {}

Announce(d, needsApproval) ==
  /\ d \notin open \cup guarded
  /\ open' = IF needsApproval THEN open ELSE open \cup {d}
  /\ guarded' = IF needsApproval THEN guarded \cup {d} ELSE guarded
  /\ UNCHANGED <<endorsed, started>>

Endorse(d) ==
  /\ d \in open \cup guarded
  /\ endorsed' = endorsed \cup {d}
  /\ UNCHANGED <<open, guarded, started>>

Start(d) ==
  /\ d \in open \/ (d \in guarded /\ d \in endorsed)
  /\ started' = started \cup {d}
  /\ UNCHANGED <<open, guarded, endorsed>>

GateNext ==
  \E d \in Deliveries :
    Endorse(d) \/ Start(d) \/ \E needsApproval \in BOOLEAN : Announce(d, needsApproval)

GateSpec == GateInit /\ [][GateNext]_gateVars
=============================================================================
