------------------------------- MODULE OsPath -------------------------------
(***************************************************************************)
(* Class OsPath of src/OsPath.cpp, installed in place of os.path while a   *)
(* CapioContext is active. It keeps no state: path strings go through      *)
(* std::filesystem::path, queries through libcapio_stat.                   *)
(***************************************************************************)
EXTENDS Integers, Sequences, SequencesExt

CONSTANTS Name, Dot, DotDot, Stem, Suffix

ASSUME NameAssumption ==
  /\ Dot # DotDot
  /\ Dot \notin Name /\ DotDot \notin Name
  /\ Stem \in [Name -> Name]
  /\ Name \subseteq DOMAIN Suffix

Py == INSTANCE PosixPath

-----------------------------------------------------------------------------
(* Path strings                                                             *)

isabs(p) == p.root

(* path::filename: nothing after a final slash, nothing for the root.       *)
basename(p) ==
  IF p.slash \/ p.names = <<>> THEN Py!Empty ELSE Py!Relative(<<Last(p.names)>>)

(* path::parent_path: all but the last component, which is the empty one    *)
(* after a final slash.                                                     *)
dirname(p) ==
  IF p.slash \/ p.names = <<>>
    THEN [p EXCEPT !.slash = FALSE]
    ELSE [p EXCEPT !.names = Front(@)]

split(p) == <<dirname(p), basename(p)>>

(* Mutant: the parts are put together even if the second is absolute.       *)
joinAlways(p, q) ==
  CASE p = Py!Empty -> q
    [] p # Py!Empty /\ q = Py!Empty -> p
    [] OTHER -> [p EXCEPT !.names = @ \o q.names, !.slash = q.slash]

(* The early returns, then path::operator/.                                 *)
join(p, q) ==
  CASE p = Py!Empty \/ isabs(q) -> q
    [] p # Py!Empty /\ q = Py!Empty -> p
    [] OTHER -> [p EXCEPT !.names = @ \o q.names, !.slash = q.slash]

(* path::lexically_normal: "." only for a path that was not empty; a final  *)
(* slash, or a final dot that went, leaves a slash, unless ".." is last.    *)
normpath(p) ==
  LET names == Py!Collapse(p.names, p.root)
      open_ended == p.names # <<>> /\ (p.slash \/ Last(p.names) \in {Dot, DotDot})
  IN CASE p = Py!Empty -> p
       [] names = <<>> /\ p # Py!Empty ->
            IF p.root THEN [p EXCEPT !.names = <<>>, !.slash = FALSE]
                      ELSE Py!Relative(<<Dot>>)
       [] OTHER -> [p EXCEPT !.names = names,
                             !.slash = open_ended /\ Last(names) # DotDot]

(* std::filesystem::absolute: the current directory in front, and nothing   *)
(* collapsed. Of an empty path it throws (libstdc++).                       *)
abspathThrows(p) == p = Py!Empty

abspath(cwd, p) == join(Py!Absolute(cwd), p)

normcase(p) == p

(* std::filesystem::canonical asks the kernel, not CAPIO; on_disk says what *)
(* it finds. Its exception becomes an empty path.                           *)
realpath(cwd, p, on_disk) == IF on_disk THEN Py!abspath(cwd, p) ELSE Py!Empty

(* path::stem and path::extension are of the filename alone.                *)
splitext(p, none) ==
  <<IF Py!NamesFile(p) THEN Py!Relative(<<Stem[Last(p.names)]>>) ELSE basename(p),
    Py!extension(p, none)>>

-----------------------------------------------------------------------------
(* Queries. A stat is what libcapio_stat gave: error is "none", "ENOENT" or *)
(* "other", kind is in st_mode and size in st_size, both zero on an error.  *)

(* libcapio_stat: a path that CAPIO declines is an exception; node is what  *)
(* CAPIO has at the path.                                                   *)
libcapio_stat(node, fails) ==
  IF fails THEN [error |-> "other", kind |-> "zero", size |-> 0]
  ELSE IF node.kind = "none" THEN [error |-> "ENOENT", kind |-> "zero", size |-> 0]
  ELSE [error |-> "none", kind |-> node.kind, size |-> node.size]

(* An error other than ENOENT counts as existing.                           *)
exists(stat) == stat.error # "ENOENT"

(* Mutant: st_mode is tested for any kind, not for S_IFREG.                 *)
isfileAnyKind(stat) == stat.error # "ENOENT" /\ stat.kind # "zero"

isfile(stat) == stat.error # "ENOENT" /\ stat.kind = "file"

(* True of a path that does not exist.                                      *)
isdir(stat) == ~isfile(stat)

(* Mutant: the result of libcapio_stat is returned in place of 0.           *)
getsizeOfError(stat) == IF stat.error = "ENOENT" THEN -1 ELSE stat.size

getsize(stat) == IF stat.error = "ENOENT" THEN 0 ELSE stat.size
=============================================================================
