---------------------------- MODULE MCBootstrap ----------------------------
(***************************************************************************)
(* Instances of Bootstrap for TLC: model values for the process slots and  *)
(* the sets of faults the runs choose from.                                *)
(***************************************************************************)
EXTENDS Bootstrap, TLC

CONSTANTS p1, p2, p3

Slots2 == {p1, p2}
Slots3 == {p1, p2, p3}

(* Process slots are interchangeable; no run with a liveness property or a  *)
(* refinement uses this.                                                    *)
Symmetry == Permutations(Proc)

Always == {TRUE}
Never == {FALSE}
Either == BOOLEAN

NoFaults == {}
ExecMayFail == {"exec_fails"}
AllButExec == FaultKind \ {"exec_fails"}
AllButClientCrash == FaultKind \ {"client_crash"}
=============================================================================
