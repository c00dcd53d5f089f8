----------------------------- MODULE MCProxies ------------------------------
(***************************************************************************)
(* An instance of Proxies for TLC: "data" is the CAPIO directory,          *)
(* "data.py" its sibling whose path has the same prefix, "f" another name; *)
(* the program starts in the CAPIO directory, which is "." by default.     *)
(***************************************************************************)
EXTENDS Proxies

Names == {"data", "data.py", "f"}
Stems == [n \in Names |-> IF n = "data.py" THEN "data" ELSE n]
Extensions == [n \in Names |-> IF n = "data.py" THEN ".py" ELSE ""]
SamePrefix == {<<"data", "data.py">>}
DataDir == <<"data">>

Locations == {<<>>, <<"data">>, <<"data.py">>, <<"f">>,
              <<"data", "data.py">>, <<"data", "f">>}

Literals ==
  {Py!Absolute(<<"data">>), Py!Relative(<<"f">>), Py!Relative(<<"data.py">>),
   Py!Relative(<<"..">>), [Py!Relative(<<"data">>) EXCEPT !.slash = TRUE]}

(* Without "x", which opens for reading.                                    *)
Modes == [letter : {"r", "w", "a"}, plus : BOOLEAN]
=============================================================================
