---------------------------- MODULE MCIOWrapper ----------------------------
(***************************************************************************)
(* Instances of IOWrapper for TLC: every file of at most MaxLength bytes,  *)
(* each byte a newline or not.                                             *)
(***************************************************************************)
EXTENDS IOWrapper

None == {}
LineCalls == {"read", "readline", "next", "readlines"}
OnlyReadline == {"readline"}
Sizes == {1, 2}
Anywhere == 0..MaxLength
=============================================================================
