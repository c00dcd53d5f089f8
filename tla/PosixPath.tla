------------------------------ MODULE PosixPath ------------------------------
(***************************************************************************)
(* Path strings, and what Python's own os.path does with them on POSIX     *)
(* (the reference that class OsPath is documented to mirror).              *)
(*                                                                         *)
(* A path is what its string tells apart: does it start with a slash, its  *)
(* components, does it end with a slash after the last one. Two slashes in *)
(* a row are left out. A location is what an absolute path without dots    *)
(* designates: its components. There are no symbolic links.                *)
(***************************************************************************)
EXTENDS Integers, Sequences, SequencesExt

CONSTANTS
  Name,        (* the components other than the dots                         *)
  Dot, DotDot,
  Stem,        (* the stem of each name, "step" for "step.py"                *)
  Suffix       (* its extension, ".py"                                       *)

Component == Name \cup {Dot, DotDot}

Path == {p \in [root : BOOLEAN, names : Seq(Component), slash : BOOLEAN] :
           p.slash => p.names # <<>>}

Empty == [root |-> FALSE, names |-> <<>>, slash |-> FALSE]

Relative(names) == [root |-> FALSE, names |-> names, slash |-> FALSE]

Absolute(loc) == [root |-> TRUE, names |-> loc, slash |-> FALSE]

HasDots(p) == \E i \in DOMAIN p.names : p.names[i] \in {Dot, DotDot}

-----------------------------------------------------------------------------
(* What is left of a stack of components when one more is read: "." adds    *)
(* nothing, ".." takes the last one away; at the root it adds nothing, and  *)
(* at the start of a relative path it stays.                                *)
Read(stack, name, root) ==
  LET up == name = DotDot
      cancels == up /\ stack # <<>> /\ Last(stack) # DotDot
  IN CASE cancels -> Front(stack)
       [] name = Dot \/ (up /\ root /\ ~cancels) -> stack
       [] OTHER -> Append(stack, name)

Collapse(names, root) ==
  LET collapsed[n \in 0..Len(names)] ==
        IF n = 0 THEN <<>> ELSE Read(collapsed[n - 1], names[n], root)
  IN collapsed[Len(names)]

isabs(p) == p.root

basename(p) == IF p.slash \/ p.names = <<>> THEN Empty ELSE Relative(<<Last(p.names)>>)

dirname(p) ==
  IF p.slash \/ p.names = <<>>
    THEN [p EXCEPT !.slash = FALSE]
    ELSE [p EXCEPT !.names = Front(@)]

(* An absolute second part replaces the first; an empty one ends it with a  *)
(* slash.                                                                   *)
join(p, q) ==
  CASE isabs(q) \/ p = Empty -> q
    [] ~isabs(q) /\ p # Empty /\ q = Empty -> [p EXCEPT !.slash = p.names # <<>>]
    [] OTHER -> [p EXCEPT !.names = @ \o q.names, !.slash = q.slash]

normpath(p) ==
  LET names == Collapse(p.names, p.root)
  IN [root |-> p.root, slash |-> FALSE,
      names |-> IF names = <<>> /\ ~p.root THEN <<Dot>> ELSE names]

abspath(cwd, p) == normpath(join(Absolute(cwd), p))

(* The location that a path designates for a process working in cwd.        *)
LocationOf(cwd, p) == abspath(cwd, p).names

realpath(cwd, p) == abspath(cwd, p)

NamesFile(p) == ~p.slash /\ p.names # <<>> /\ Last(p.names) \in Name

(* <<path without the extension, extension>>; Suffix[x] where there is one  *)
(* and the empty path's extension otherwise.                                *)
extension(p, none) == IF NamesFile(p) THEN Suffix[Last(p.names)] ELSE none

splitext(p, none) ==
  <<IF NamesFile(p) THEN [p EXCEPT !.names[Len(p.names)] = Stem[@]] ELSE p,
    extension(p, none)>>
=============================================================================
