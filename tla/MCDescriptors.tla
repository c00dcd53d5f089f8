---------------------------- MODULE MCDescriptors ----------------------------
(***************************************************************************)
(* Instances of Descriptors for TLC.                                       *)
(***************************************************************************)
EXTENDS Descriptors

CONSTANTS o1, o2, f1, f2

Objects2 == {o1, o2}
Files == {f1, f2}
OneFile == {f2}
OneFileAndDirectory == {f2, Directory}
=============================================================================
