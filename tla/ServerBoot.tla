----------------------------- MODULE ServerBoot -----------------------------
(***************************************************************************)
(* What StartupSemaphore promises (include/libcapio.hpp, lines 8-15): at   *)
(* any time at most one process is bootstrapping the server of a workflow, *)
(* and a process forks at most one server per bootstrap.                   *)
(***************************************************************************)
EXTENDS Naturals

CONSTANT Proc

VARIABLES
  phase,    (* where each process is with respect to the bootstrap          *)
  launched  (* servers forked so far                                        *)

vars == <<phase, launched>>

Phase == {"out", "booting", "launched"}

Init ==
  /\ phase = [p \in Proc |-> "out"]
  /\ launched = 0

Enter(p) ==
  /\ \A q \in Proc : phase[q] = "out"
  /\ phase' = [phase EXCEPT ![p] = "booting"]
  /\ UNCHANGED launched

Launch(p) ==
  /\ phase[p] = "booting"
  /\ phase' = [phase EXCEPT ![p] = "launched"]
  /\ launched' = launched + 1

Leave(p) ==
  /\ phase[p] # "out"
  /\ phase' = [phase EXCEPT ![p] = "out"]
  /\ UNCHANGED launched

Next == \E p \in Proc : Enter(p) \/ Launch(p) \/ Leave(p)

Spec == Init /\ [][Next]_vars
=============================================================================
