------------------------------ MODULE IOWrapper ------------------------------
(***************************************************************************)
(* The reading half of include/IOWrapper.hpp: one Python file object on a  *)
(* CAPIO stream that a producer is still writing.                          *)
(*                                                                         *)
(* A method that loops over libcapio_read takes one action per iteration,  *)
(* so the producer runs between them; the process itself does nothing else *)
(* meanwhile, since the extension holds the GIL.                           *)
(***************************************************************************)
EXTENDS Integers, Sequences

CONSTANTS
  NL, Other, NUL,  (* the newline, any other byte, the byte 0 of a resize    *)
  MaxLength,       (* bound on the length of the file                        *)
  Chunk,           (* _chunk_size                                            *)
  Calls,           (* looping methods the caller uses, a subset of Looping   *)
  ReadSizes,       (* positive arguments of read(size) it uses               *)
  NegativeSizes,   (* does it use read(size) with size < -1                  *)
  Offsets,         (* arguments of seek(offset, SEEK_SET) it uses            *)
  Careful,         (* does it use read(size) and seek only when nothing is   *)
                   (* read ahead, and seek only before an iteration ends     *)
  ReadMayFail,     (* may libcapio_read return -1                            *)
  SameProcess      (* is the producer a thread of the caller's process       *)

(* read() is read(-1); readlines() calls next() until StopIteration.        *)
Looping == {"read", "readline", "next", "readlines"}

ASSUME ConstantsAssumption ==
  /\ NL # Other /\ NUL \notin {NL, Other}
  /\ MaxLength \in Nat
  /\ Chunk \in Nat \ {0}
  /\ Calls \subseteq Looping
  /\ ReadSizes \subseteq Nat \ {0}
  /\ Offsets \subseteq Nat
  /\ {Careful, NegativeSizes, ReadMayFail, SameProcess} \subseteq BOOLEAN

VARIABLES
  content,    (* the bytes the producer is going to write                    *)
  produced,   (* how many of them it has written                             *)
  committed,  (* it has closed the file                                      *)
  off,        (* offset of the descriptor, kept by CAPIO                     *)
  buffer,     (* _buffer: bytes read ahead                                   *)
  exhausted,  (* _exhausted                                                  *)
  call,       (* the looping method under way                                *)
  out,        (* its local variable out or out_buffer                        *)
  pos,        (* history: where the caller believes to be                    *)
  result      (* history: the last method that returned, and its value       *)

vars == <<content, produced, committed, off, buffer, exhausted, call, out, pos, result>>

file == <<content, produced, committed>>

-----------------------------------------------------------------------------
Byte == {NL, Other}

Files == UNION {[1..n -> Byte] : n \in 0..MaxLength}

Init ==
  /\ content \in Files
  /\ produced = 0
  /\ committed = FALSE
  /\ off = 0
  /\ buffer = <<>>
  /\ exhausted = FALSE
  /\ call = "none"
  /\ out = <<>>
  /\ pos = 0
  /\ result = [method |-> "open", value |-> <<>>]

(* A method hands bytes (a piece of the list, in readlines) to the caller.  *)
Returns(method, bytes) ==
  /\ result' = [method |-> method, value |-> bytes]
  /\ pos' = pos + Len(bytes)

-----------------------------------------------------------------------------
(* CAPIO: the producer, and what a read may answer                          *)

(* A call holds the GIL while it waits for data: a producer in the same     *)
(* process runs between calls only.                                         *)
ProducerRuns == ~SameProcess \/ call = "none"

Produce ==
  /\ ProducerRuns
  /\ produced < Len(content)
  /\ produced' = produced + 1
  /\ UNCHANGED <<content, committed, off, buffer, exhausted, call, out, pos, result>>

Commit ==
  /\ ProducerRuns
  /\ produced = Len(content) /\ ~committed
  /\ committed' = TRUE
  /\ UNCHANGED <<content, produced, off, buffer, exhausted, call, out, pos, result>>

(* libcapio_read(size) waits for data or for the commit, and may return     *)
(* fewer bytes than asked. bytes is what it stores, n what it returns.      *)
Answers(size) ==
  {[n |-> n, bytes |-> SubSeq(content, off + 1, off + n)] :
     n \in {k \in 1..size : off + k <= produced}}
  \cup (IF committed /\ off >= produced THEN {[n |-> 0, bytes |-> <<>>]} ELSE {})
  \cup (IF ReadMayFail THEN {[n |-> -1, bytes |-> <<>>]} ELSE {})

-----------------------------------------------------------------------------
(* readline_raw, the loop of readline, next and readlines                   *)

HasLine(bytes) == \E i \in DOMAIN bytes : bytes[i] = NL

EndsFirstLine(bytes, i) ==
  bytes[i] = NL /\ \A j \in 1..(i - 1) : bytes[j] # NL

Iterating == call \in {"next", "readlines"}

InLine == call = "readline" \/ Iterating

(* readline_raw returns line: each of its callers goes on in its own way.   *)
LineRead(line) ==
  \/ /\ call = "readline"
     /\ Returns("readline", line)
     /\ call' = "none"
     /\ UNCHANGED exhausted
  \/ /\ Iterating /\ line # <<>>
     /\ Returns("next", line)
     /\ call' = IF call = "next" THEN "none" ELSE "readlines"
     /\ UNCHANGED exhausted
  \/ /\ Iterating /\ line = <<>>
     /\ Returns("stop", <<>>)
     /\ call' = "none"
     /\ exhausted' = TRUE

(* Mutant: the newline stays in the buffer.                                 *)
TakeLineKeepsNewline ==
  /\ InLine
  /\ \E nl \in DOMAIN buffer :
       /\ EndsFirstLine(buffer, nl)
       /\ LineRead(out \o SubSeq(buffer, 1, nl))
       /\ buffer' = SubSeq(buffer, nl, Len(buffer))
  /\ out' = <<>>
  /\ UNCHANGED <<file, off>>

(* Mutant: a short read taken for the end of the file.                      *)
LastLineAfterShortRead ==
  /\ InLine
  /\ ~HasLine(buffer)
  /\ \E answer \in Answers(Chunk) : answer.n <= 1
  /\ LineRead(out \o buffer)
  /\ buffer' = <<>>
  /\ out' = <<>>
  /\ UNCHANGED <<file, off>>

(* Mutant: no return at the end of the file: the loop goes round again.     *)
LastLineLoops ==
  /\ InLine
  /\ ~HasLine(buffer)
  /\ \E answer \in Answers(Chunk) : answer.n <= 0
  /\ buffer' = <<>>
  /\ out' = out \o buffer
  /\ UNCHANGED <<file, off, exhausted, call, pos, result>>

(* The buffer holds a whole line, or its end.                               *)
TakeLine ==
  /\ InLine
  /\ \E nl \in DOMAIN buffer :
       /\ EndsFirstLine(buffer, nl)
       /\ LineRead(out \o SubSeq(buffer, 1, nl))
       /\ buffer' = SubSeq(buffer, nl + 1, Len(buffer))
  /\ out' = <<>>
  /\ UNCHANGED <<file, off>>

(* It does not: what it has moves to out, and a chunk takes its place.      *)
FillBuffer ==
  /\ InLine
  /\ ~HasLine(buffer)
  /\ \E answer \in Answers(Chunk) :
       /\ answer.n > 0
       /\ off' = off + answer.n
       /\ buffer' = answer.bytes
  /\ out' = out \o buffer
  /\ UNCHANGED <<file, exhausted, call, pos, result>>

(* The end of the file, or an error: the line is what there is.             *)
LastLine ==
  /\ InLine
  /\ ~HasLine(buffer)
  /\ \E answer \in Answers(Chunk) : answer.n <= 0
  /\ LineRead(out \o buffer)
  /\ buffer' = <<>>
  /\ out' = <<>>
  /\ UNCHANGED <<file, off>>

-----------------------------------------------------------------------------
(* The methods                                                              *)

(* read() starts from the bytes read ahead; next() and readlines() stop at  *)
(* once when a previous call met the end.                                   *)
StartCall(method) ==
  /\ call = "none"
  /\ IF method \in {"next", "readlines"} /\ exhausted
       THEN Returns("stop", <<>>) /\ UNCHANGED <<call, out, buffer>>
       ELSE /\ call' = method
            /\ IF method = "read"
                 THEN out' = buffer /\ buffer' = <<>>
                 ELSE UNCHANGED <<out, buffer>>
            /\ UNCHANGED <<pos, result>>
  /\ UNCHANGED <<file, off, exhausted>>

ReadAllMore ==
  /\ call = "read"
  /\ \E answer \in Answers(Chunk) :
       /\ answer.n > 0
       /\ off' = off + answer.n
       /\ out' = out \o answer.bytes
  /\ UNCHANGED <<file, buffer, exhausted, call, pos, result>>

ReadAllEnd ==
  /\ call = "read"
  /\ \E answer \in Answers(Chunk) : answer.n = 0
  /\ Returns("read", out)
  /\ call' = "none"
  /\ out' = <<>>
  /\ UNCHANGED <<file, off, buffer, exhausted>>

(* -1 is added to read_size: the last byte is cut off, or read_size becomes *)
(* the largest size_t and the resize throws.                                *)
ReadAllFails ==
  /\ call = "read"
  /\ \E answer \in Answers(Chunk) : answer.n < 0
  /\ IF out = <<>>
       THEN Returns("length_error", <<>>)
       ELSE Returns("read", SubSeq(out, 1, Len(out) - 1))
  /\ call' = "none"
  /\ out' = <<>>
  /\ UNCHANGED <<file, off, buffer, exhausted>>

(* out_buffer is resized to size, filled from read_size on, whatever its    *)
(* end, and resized to what was read ahead plus what was read: only the     *)
(* first size bytes survive, the others are zeroes.                         *)
Resized(bytes, size) ==
  [i \in 1..Len(bytes) |-> IF i <= size THEN bytes[i] ELSE NUL]

(* Mutant: the offset is not moved by what was read.                        *)
ReadSizeStays(size) ==
  /\ call = "none"
  /\ Careful => buffer = <<>>
  /\ \E answer \in Answers(size) :
       /\ off' = off
       /\ Returns("read", Resized(buffer \o answer.bytes, size))
  /\ buffer' = <<>>
  /\ UNCHANGED <<file, exhausted, call, out>>

(* read(size) is one libcapio_read, into what is left of out_buffer.        *)
ReadSize(size) ==
  /\ call = "none"
  /\ Careful => buffer = <<>>
  /\ \E answer \in Answers(size) :
       /\ off' = off + Len(answer.bytes)
       /\ IF answer.n >= 0
            THEN Returns("read", Resized(buffer \o answer.bytes, size))
          ELSE IF buffer = <<>>
            THEN Returns("length_error", <<>>)
            ELSE Returns("read", Resized(SubSeq(buffer, 1, Len(buffer) - 1), size))
  /\ buffer' = <<>>
  /\ UNCHANGED <<file, exhausted, call, out>>

(* A negative size is a huge size_t: resize throws, when the bytes read     *)
(* ahead have left the buffer.                                              *)
ReadNegative ==
  /\ NegativeSizes
  /\ call = "none"
  /\ Returns("length_error", <<>>)
  /\ buffer' = <<>>
  /\ UNCHANGED <<file, off, exhausted, call, out>>

(* Mutant: SEEK_CUR used for SEEK_SET.                                      *)
SeekRelative(offset) ==
  /\ call = "none"
  /\ Careful => buffer = <<>> /\ ~exhausted
  /\ off' = off + offset
  /\ pos' = offset
  /\ result' = [method |-> "seek", value |-> <<>>]
  /\ UNCHANGED <<file, buffer, exhausted, call, out>>

(* libcapio_lseek moves the descriptor, or throws, or returns a negative    *)
(* number; nothing the wrapper keeps changes.                               *)
Seek(offset) ==
  /\ call = "none"
  /\ Careful => buffer = <<>> /\ ~exhausted
  /\ \/ /\ off' = offset
        /\ pos' = offset
        /\ result' = [method |-> "seek", value |-> <<>>]
     \/ /\ Returns("seek_error", <<>>)
        /\ UNCHANGED off
  /\ UNCHANGED <<file, buffer, exhausted, call, out>>

-----------------------------------------------------------------------------
CallStep ==
  TakeLine \/ FillBuffer \/ LastLine \/ ReadAllMore \/ ReadAllEnd \/ ReadAllFails

Next ==
  \/ Produce
  \/ Commit
  \/ \E method \in Calls : StartCall(method)
  \/ CallStep
  \/ \E size \in ReadSizes : ReadSize(size)
  \/ ReadNegative
  \/ \E offset \in Offsets : Seek(offset)

Spec == Init /\ [][Next]_vars

(* A call under way need not wait: there is a line, data or the end.        *)
Ready == HasLine(buffer) \/ off < produced \/ committed

(* The producer goes on to the end and closes its file, and a call under    *)
(* way goes on when it can; the caller need not call, nor a read fail.      *)
FairSpec ==
  Spec /\ WF_vars(Produce) /\ WF_vars(Commit) /\ WF_vars(Ready /\ CallStep)

-----------------------------------------------------------------------------
(* Properties                                                               *)

(* Every variable stays in its range; the offset passes the bytes that      *)
(* exist only by a seek.                                                    *)
TypeOK ==
  /\ content \in Seq(Byte) /\ Len(content) <= MaxLength
  /\ produced \in 0..Len(content)
  /\ committed \in BOOLEAN /\ (committed => produced = Len(content))
  /\ off \in Nat /\ (off <= produced \/ off \in Offsets)
  /\ buffer \in Seq(Byte)
  /\ out \in Seq(Byte)
  /\ exhausted \in BOOLEAN
  /\ call \in Looping \cup {"none"}
  /\ pos \in Nat
  /\ result.value \in Seq(Byte \cup {NUL})

(* Nothing is lost, repeated or reordered between the stream and the caller *)
(* when methods are mixed: what the wrapper holds is exactly the bytes from *)
(* the caller's position to the descriptor's.                               *)
InOrder ==
  /\ pos <= off
  /\ out \o buffer = SubSeq(content, pos + 1, off)

(* A reader is told to stop only at the end of the committed file, and not  *)
(* by an error or by an earlier end it has since moved back from.           *)
StopMeansEnd ==
  [][(LastLine \/ \E method \in {"next", "readlines"} : StartCall(method))
       => (result'.method = "stop" => committed /\ pos >= produced)]_vars

(* The buffer given to libcapio_read has room for the bytes it asks for     *)
(* (libcapio.hpp:81, "Destination buffer of at least @p size bytes"). What  *)
(* was read ahead takes the first bytes of out_buffer, resized to size.     *)
RoomForRead ==
  [][\A size \in ReadSizes :
       ReadSize(size) => LET room == size - Len(buffer) IN room >= size]_vars

(* Every method returns, once the producer has closed the file.             *)
CallReturns == call # "none" ~> call = "none"

(* Refinement: the wrapper is a file object. In between its calls the       *)
(* caller sees a position and the last result, as in FileObject.            *)
Abstract == INSTANCE FileObject

ImplementsFileObject == Abstract!Spec
=============================================================================
