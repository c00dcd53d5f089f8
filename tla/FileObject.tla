----------------------------- MODULE FileObject -----------------------------
(***************************************************************************)
(* The file-object protocol IOWrapper.hpp says it implements, on a file    *)
(* that another process is still producing: what each reading method       *)
(* returns depends on the bytes after the caller's position only.          *)
(***************************************************************************)
EXTENDS Naturals, Sequences

CONSTANTS Byte, NL, ReadSizes, Offsets

VARIABLES
  content,    (* the bytes the file will have                                *)
  produced,   (* how many of them exist                                      *)
  committed,  (* the producer has closed the file                            *)
  pos,        (* the caller's position                                       *)
  result      (* the last method that returned, and its value                *)

vars == <<content, produced, committed, pos, result>>

Rest == SubSeq(content, pos + 1, produced)

AtEnd == committed /\ pos >= produced

(* A line ends with its only newline, or with the committed file.           *)
IsLine(bytes) ==
  /\ \A i \in 1..(Len(bytes) - 1) : bytes[i] # NL
  /\ \/ bytes # <<>> /\ bytes[Len(bytes)] = NL
     \/ committed /\ pos + Len(bytes) >= produced

Returns(method, bytes) ==
  /\ result' = [method |-> method, value |-> bytes]
  /\ pos' = pos + Len(bytes)
  /\ UNCHANGED <<content, produced, committed>>

Produce ==
  /\ ~committed /\ produced < Len(content)
  /\ produced' = produced + 1
  /\ UNCHANGED <<content, committed, pos, result>>

Commit ==
  /\ produced = Len(content)
  /\ committed' = TRUE
  /\ UNCHANGED <<content, produced, pos, result>>

(* readline(), and next() as long as there is a line.                       *)
Line(method) ==
  \E length \in 0..Len(Rest) :
    /\ IsLine(SubSeq(Rest, 1, length))
    /\ method = "next" => length > 0
    /\ Returns(method, SubSeq(Rest, 1, length))

(* StopIteration: only at the end of the file.                              *)
Stop == AtEnd /\ Returns("stop", <<>>)

(* read(): everything up to the end of the committed file.                  *)
ReadAll == committed /\ Returns("read", Rest)

(* read(size): at most size bytes, none only at the end.                    *)
ReadSize(size) ==
  \/ \E length \in 1..size :
       length <= Len(Rest) /\ Returns("read", SubSeq(Rest, 1, length))
  \/ AtEnd /\ Returns("read", <<>>)

Seek(offset) ==
  /\ pos' = offset
  /\ result' = [method |-> "seek", value |-> <<>>]
  /\ UNCHANGED <<content, produced, committed>>

(* A seek that fails leaves the caller where it is.                         *)
SeekFails == Returns("seek_error", <<>>)

Init ==
  /\ content \in Seq(Byte)
  /\ produced = 0
  /\ committed = FALSE
  /\ pos = 0
  /\ result = [method |-> "open", value |-> <<>>]

Next ==
  \/ Produce \/ Commit
  \/ \E method \in {"readline", "next"} : Line(method)
  \/ Stop
  \/ ReadAll
  \/ \E size \in ReadSizes : ReadSize(size)
  \/ \E offset \in Offsets : Seek(offset)
  \/ SeekFails

Spec == Init /\ [][Next]_vars
=============================================================================
