----------------------------- MODULE MCLauncher -----------------------------
(***************************************************************************)
(* An instance of Launcher for TLC: targets in the CAPIO directory "data", *)
(* with a directory part, without one, and with a final slash; and outside *)
(* of it.                                                                  *)
(***************************************************************************)
EXTENDS Launcher

Names == {"data", "step", "__main__.py", "main.py"}
Stems == [n \in Names |-> n]
Extensions == [n \in Names |-> ""]
DataDir == <<"data">>

ScriptPaths ==
  {Py!Relative(<<"step">>), Py!Relative(<<Dot, "step">>),
   [Py!Absolute(<<"data", "step">>) EXCEPT !.slash = TRUE],
   Py!Relative(<<DotDot, "step">>)}

(* Without KeyboardInterrupt, after which the status is 0.                  *)
Outcomes == {Returns, Raises, Exit(0), Exit(3)}
=============================================================================
