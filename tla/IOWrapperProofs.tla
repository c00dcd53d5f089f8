--------------------------- MODULE IOWrapperProofs ---------------------------
(***************************************************************************)
(* Theorems about IOWrapper, for files of any length, any chunk and any    *)
(* set of calls, unless a statement says less.                             *)
(***************************************************************************)
EXTENDS IOWrapper, SequenceTheorems, TLAPS

-----------------------------------------------------------------------------
(* Lemmas about the operators of the model                                  *)

(* An answer of CAPIO stores a slice of the stream, at the offset.          *)
LEMMA AnswerProperties ==
  ASSUME TypeOK, NEW size \in Nat \ {0}, NEW answer \in Answers(size)
  PROVE  /\ answer.n \in Int /\ answer.n <= size
         /\ answer.bytes \in Seq(Byte)
         /\ answer.n > 0 => /\ off + answer.n <= produced
                            /\ Len(answer.bytes) = answer.n
                            /\ answer.bytes = SubSeq(content, off + 1, off + answer.n)
         /\ answer.n <= 0 => answer.bytes = <<>>
         /\ answer.n = 0 => committed /\ off >= produced
         /\ answer.n < 0 => ReadMayFail
<1>1. CASE answer = [n |-> 0, bytes |-> <<>>] /\ committed /\ off >= produced
  BY <1>1, EmptySeq
<1>2. CASE answer = [n |-> -1, bytes |-> <<>>] /\ ReadMayFail
  BY <1>2, EmptySeq
<1>3. ASSUME NEW n \in 1..size, off + n <= produced,
             answer = [n |-> n, bytes |-> SubSeq(content, off + 1, off + n)]
      PROVE  /\ answer.n = n /\ n \in Nat /\ n <= size
             /\ answer.bytes = SubSeq(content, off + 1, off + n)
             /\ answer.bytes \in Seq(Byte)
             /\ Len(answer.bytes) = n
  <2>1. /\ content \in Seq(Byte) /\ Len(content) \in Nat
        /\ off \in Nat /\ n \in Nat \ {0} /\ produced <= Len(content)
    BY LenProperties DEF TypeOK
  <2>2. \A i \in (off + 1)..(off + n) : content[i] \in Byte
    BY <1>3, <2>1, ElementOfSeq DEF TypeOK
  <2>3. /\ off + 1 \in Int /\ off + n \in Int /\ off + 1 <= off + n
        /\ (off + n) - (off + 1) + 1 = n
    BY <2>1
  <2>4. /\ SubSeq(content, off + 1, off + n) \in Seq(Byte)
        /\ Len(SubSeq(content, off + 1, off + n)) = n
    BY <2>2, <2>3, SubSeqProperties
  <2> QED BY <1>3, <2>1, <2>4
<1>4. \/ answer = [n |-> 0, bytes |-> <<>>] /\ committed /\ off >= produced
      \/ answer = [n |-> -1, bytes |-> <<>>] /\ ReadMayFail
      \/ \E n \in 1..size : /\ off + n <= produced
                            /\ answer = [n |-> n, bytes |-> SubSeq(content, off + 1, off + n)]
  BY DEF Answers
<1>5. CASE \E n \in 1..size :
             /\ off + n <= produced
             /\ answer = [n |-> n, bytes |-> SubSeq(content, off + 1, off + n)]
  <2>1. PICK n \in 1..size :
             /\ off + n <= produced
             /\ answer = [n |-> n, bytes |-> SubSeq(content, off + 1, off + n)]
    BY <1>5
  <2>2. n > 0
    OBVIOUS
  <2> QED BY <1>3, <2>1, <2>2
<1> QED BY <1>1, <1>2, <1>4, <1>5

(* A sequence is what comes before a point of it and what comes after.      *)
LEMMA Split ==
  ASSUME NEW S, NEW seq \in Seq(S), NEW k \in 0..Len(seq)
  PROVE  /\ SubSeq(seq, 1, k) \in Seq(S)
         /\ SubSeq(seq, k + 1, Len(seq)) \in Seq(S)
         /\ Len(SubSeq(seq, 1, k)) = k
         /\ Len(SubSeq(seq, k + 1, Len(seq))) = Len(seq) - k
         /\ SubSeq(seq, 1, k) \o SubSeq(seq, k + 1, Len(seq)) = seq
<1>1. Len(seq) \in Nat /\ \A i \in 1..Len(seq) : seq[i] \in S
  BY LenProperties, ElementOfSeq
<1>2. SubSeq(seq, 1, k) \in Seq(S) /\ Len(SubSeq(seq, 1, k)) = k
  <2>1. \A i \in 1..k : seq[i] \in S
    BY <1>1
  <2> QED BY <1>1, <2>1, SubSeqProperties
<1>3. /\ SubSeq(seq, k + 1, Len(seq)) \in Seq(S)
      /\ Len(SubSeq(seq, k + 1, Len(seq))) = Len(seq) - k
  <2>1. \A i \in (k + 1)..Len(seq) : seq[i] \in S
    BY <1>1
  <2> QED BY <1>1, <2>1, SubSeqProperties
<1>4. SubSeq(seq, 1, k) \o SubSeq(seq, k + 1, Len(seq)) = SubSeq(seq, 1, Len(seq))
  <2>1. 1 \in 1..(Len(seq) + 1) /\ k \in (1 - 1)..Len(seq) /\ Len(seq) \in k..Len(seq)
    BY <1>1
  <2> QED BY <2>1, ConcatAdjacentSubSeq
<1> QED BY <1>2, <1>3, <1>4, SubSeqFull

(* What read(size) returns is as long as what it read, and all of it, in    *)
(* order, as long as that is no more than size.                             *)
LEMMA ResizedProperties ==
  ASSUME NEW bytes \in Seq(Byte), NEW size \in Nat
  PROVE  /\ Resized(bytes, size) \in Seq(Byte \cup {NUL})
         /\ Len(Resized(bytes, size)) = Len(bytes)
         /\ Len(bytes) <= size => Resized(bytes, size) = bytes
<1>1. Len(bytes) \in Nat /\ bytes \in [1..Len(bytes) -> Byte]
  BY LenProperties
<1>2. Resized(bytes, size) \in [1..Len(bytes) -> Byte \cup {NUL}]
  BY <1>1 DEF Resized
<1>3. Resized(bytes, size) \in Seq(Byte \cup {NUL})
  BY <1>1, <1>2, SeqDef
<1>4. Len(Resized(bytes, size)) = Len(bytes)
  BY <1>1, <1>2, <1>3, LenProperties
<1>5. ASSUME Len(bytes) <= size PROVE Resized(bytes, size) = bytes
  BY <1>1, <1>5 DEF Resized
<1> QED BY <1>3, <1>4, <1>5

-----------------------------------------------------------------------------
(* Typing                                                                   *)

LEMMA LineReadType ==
  ASSUME TypeOK, NEW line \in Seq(Byte), LineRead(line)
  PROVE  /\ call' \in Looping \cup {"none"}
         /\ exhausted' \in BOOLEAN
         /\ pos' \in Nat
         /\ result'.value \in Seq(Byte \cup {NUL})
<1>1. Len(line) \in Nat /\ line \in Seq(Byte \cup {NUL})
  BY LenProperties, SeqMonotonic
<1>2. <<>> \in Seq(Byte \cup {NUL}) /\ Len(<<>>) = 0
  BY EmptySeq
<1>3. CASE call = "readline" /\ Returns("readline", line) /\ call' = "none" /\ UNCHANGED exhausted
  BY <1>1, <1>3 DEF Returns, TypeOK, Looping
<1>4. CASE Iterating /\ Returns("next", line) /\ UNCHANGED exhausted
           /\ call' = IF call = "next" THEN "none" ELSE "readlines"
  BY <1>1, <1>4 DEF Returns, TypeOK, Looping
<1>5. CASE Returns("stop", <<>>) /\ call' = "none" /\ exhausted' = TRUE
  BY <1>2, <1>5 DEF Returns, TypeOK, Looping
<1> QED BY <1>3, <1>4, <1>5 DEF LineRead

LEMMA ReturnsType ==
  ASSUME TypeOK, NEW method, NEW bytes \in Seq(Byte \cup {NUL}), Returns(method, bytes)
  PROVE  pos' \in Nat /\ result'.value \in Seq(Byte \cup {NUL})
BY LenProperties DEF Returns, TypeOK

(* Every action keeps every variable in its range.                          *)
LEMMA TypeStep == ASSUME TypeOK, [Next]_vars PROVE TypeOK'
<1> USE ConstantsAssumption DEF file
<1>0. /\ <<>> \in Seq(Byte) /\ <<>> \in Seq(Byte \cup {NUL}) /\ Len(<<>>) = 0
      /\ \A s \in Seq(Byte) : s \in Seq(Byte \cup {NUL})
  BY EmptySeq, SeqMonotonic
<1>1. CASE Produce
  BY <1>1, LenProperties DEF Produce, TypeOK
<1>2. CASE Commit
  BY <1>2 DEF Commit, TypeOK
<1>3. ASSUME NEW method \in Calls, StartCall(method) PROVE TypeOK'
  <2>1. CASE method \in {"next", "readlines"} /\ exhausted
    <3>1. pos' \in Nat /\ result'.value \in Seq(Byte \cup {NUL})
      BY <1>0, <1>3, <2>1, ReturnsType DEF StartCall
    <3> QED BY <1>3, <2>1, <3>1 DEF StartCall, TypeOK
  <2>2. CASE ~(method \in {"next", "readlines"} /\ exhausted)
    <3>1. method \in Looping
      OBVIOUS
    <3> QED BY <1>0, <1>3, <2>2, <3>1 DEF StartCall, TypeOK
  <2> QED BY <2>1, <2>2
<1>4. CASE TakeLine
  <2>1. PICK nl \in DOMAIN buffer :
          /\ LineRead(out \o SubSeq(buffer, 1, nl))
          /\ buffer' = SubSeq(buffer, nl + 1, Len(buffer))
    BY <1>4 DEF TakeLine
  <2>2. nl \in 0..Len(buffer)
    BY LenProperties DEF TypeOK
  <2>3. SubSeq(buffer, 1, nl) \in Seq(Byte) /\ buffer' \in Seq(Byte)
    BY <2>1, <2>2, Split DEF TypeOK
  <2>4. out \o SubSeq(buffer, 1, nl) \in Seq(Byte)
    BY <2>3, ConcatProperties DEF TypeOK
  <2> QED BY <1>0, <1>4, <2>1, <2>3, <2>4, LineReadType DEF TakeLine, TypeOK
<1>5. CASE FillBuffer
  <2>1. PICK answer \in Answers(Chunk) :
          answer.n > 0 /\ off' = off + answer.n /\ buffer' = answer.bytes
    BY <1>5 DEF FillBuffer
  <2>2. buffer' \in Seq(Byte) /\ off' \in Nat /\ off' <= produced
    <3>1. /\ answer.n \in Int /\ answer.bytes \in Seq(Byte)
          /\ off + answer.n <= produced
      BY <2>1, AnswerProperties
    <3> QED BY <2>1, <3>1 DEF TypeOK
  <2>3. out' \in Seq(Byte)
    BY <1>5, ConcatProperties DEF FillBuffer, TypeOK
  <2> QED BY <1>5, <2>2, <2>3 DEF FillBuffer, TypeOK
<1>6. CASE LastLine
  <2>1. out \o buffer \in Seq(Byte)
    BY ConcatProperties DEF TypeOK
  <2> QED BY <1>0, <1>6, <2>1, LineReadType DEF LastLine, TypeOK
<1>7. CASE ReadAllMore
  <2>1. PICK answer \in Answers(Chunk) :
          answer.n > 0 /\ off' = off + answer.n /\ out' = out \o answer.bytes
    BY <1>7 DEF ReadAllMore
  <2>2. answer.bytes \in Seq(Byte) /\ off' \in Nat /\ off' <= produced
    <3>1. /\ answer.n \in Int /\ answer.bytes \in Seq(Byte)
          /\ off + answer.n <= produced
      BY <2>1, AnswerProperties
    <3> QED BY <2>1, <3>1 DEF TypeOK
  <2>3. out' \in Seq(Byte)
    BY <2>1, <2>2, ConcatProperties DEF TypeOK
  <2> QED BY <1>7, <2>2, <2>3 DEF ReadAllMore, TypeOK
<1>8. CASE ReadAllEnd
  <2>1. out \in Seq(Byte \cup {NUL})
    BY <1>0 DEF TypeOK
  <2>2. pos' \in Nat /\ result'.value \in Seq(Byte \cup {NUL})
    BY <1>8, <2>1, ReturnsType DEF ReadAllEnd
  <2> QED BY <1>0, <1>8, <2>2 DEF ReadAllEnd, TypeOK
<1>9. CASE ReadAllFails
  <2>1. ASSUME out # <<>> PROVE SubSeq(out, 1, Len(out) - 1) \in Seq(Byte)
    <3>1. Len(out) - 1 \in 0..Len(out)
      BY <2>1, EmptySeq DEF TypeOK
    <3> QED BY <3>1, Split DEF TypeOK
  <2>2. pos' \in Nat /\ result'.value \in Seq(Byte \cup {NUL})
    BY <1>0, <1>9, <2>1, ReturnsType DEF ReadAllFails
  <2> QED BY <1>0, <1>9, <2>2 DEF ReadAllFails, TypeOK
<1>10. ASSUME NEW size \in ReadSizes, ReadSize(size) PROVE TypeOK'
  <2>1. PICK answer \in Answers(size) :
          /\ off' = off + Len(answer.bytes)
          /\ IF answer.n >= 0
               THEN Returns("read", Resized(buffer \o answer.bytes, size))
             ELSE IF buffer = <<>>
               THEN Returns("length_error", <<>>)
               ELSE Returns("read", Resized(SubSeq(buffer, 1, Len(buffer) - 1), size))
    BY <1>10 DEF ReadSize
  <2>2. size \in Nat \ {0}
    OBVIOUS
  <2>3. answer.bytes \in Seq(Byte) /\ answer.n \in Int
    BY <2>2, AnswerProperties
  <2>4. off' \in Nat /\ (off' <= produced \/ off' \in Offsets)
    <3>1. CASE answer.n > 0
      <4>1. Len(answer.bytes) = answer.n /\ off + answer.n <= produced
        BY <2>2, <3>1, AnswerProperties
      <4> QED BY <2>1, <2>3, <3>1, <4>1 DEF TypeOK
    <3>2. CASE ~(answer.n > 0)
      <4>1. answer.bytes = <<>>
        BY <2>2, <2>3, <3>2, AnswerProperties
      <4>2. off' = off
        BY <1>0, <2>1, <4>1 DEF TypeOK
      <4> QED BY <4>2 DEF TypeOK
    <3> QED BY <3>1, <3>2
  <2>5. Resized(buffer \o answer.bytes, size) \in Seq(Byte \cup {NUL})
    <3>1. buffer \o answer.bytes \in Seq(Byte)
      BY <2>3, ConcatProperties DEF TypeOK
    <3> QED BY <2>2, <3>1, ResizedProperties
  <2>6. ASSUME buffer # <<>>
        PROVE  Resized(SubSeq(buffer, 1, Len(buffer) - 1), size) \in Seq(Byte \cup {NUL})
    <3>1. Len(buffer) - 1 \in 0..Len(buffer)
      BY <2>6, EmptySeq DEF TypeOK
    <3>2. SubSeq(buffer, 1, Len(buffer) - 1) \in Seq(Byte)
      BY <3>1, Split DEF TypeOK
    <3> QED BY <2>2, <3>2, ResizedProperties
  <2>7. pos' \in Nat /\ result'.value \in Seq(Byte \cup {NUL})
    BY <1>0, <2>1, <2>5, <2>6, ReturnsType
  <2> QED BY <1>0, <1>10, <2>4, <2>7 DEF ReadSize, TypeOK
<1>11. ASSUME NEW offset \in Offsets, Seek(offset) PROVE TypeOK'
  <2>1. /\ pos' \in Nat /\ result'.value \in Seq(Byte \cup {NUL})
        /\ off' \in Nat /\ (off' <= produced \/ off' \in Offsets)
    <3>1. CASE off' = offset /\ pos' = offset /\ result' = [method |-> "seek", value |-> <<>>]
      BY <1>0, <3>1
    <3>2. CASE Returns("seek_error", <<>>) /\ UNCHANGED off
      BY <1>0, <3>2, ReturnsType DEF TypeOK
    <3> QED BY <1>11, <3>1, <3>2 DEF Seek
  <2> QED BY <1>0, <1>11, <2>1 DEF Seek, TypeOK
<1>12. CASE ReadNegative
  <2>1. pos' \in Nat /\ result'.value \in Seq(Byte \cup {NUL})
    BY <1>0, <1>12, ReturnsType DEF ReadNegative
  <2> QED BY <1>0, <1>12, <2>1 DEF ReadNegative, TypeOK
<1>13. CASE UNCHANGED vars
  BY <1>13 DEF vars, TypeOK
<1> QED
  BY <1>1, <1>2, <1>3, <1>4, <1>5, <1>6, <1>7, <1>8, <1>9, <1>10, <1>11, <1>12, <1>13
     DEF Next, CallStep

(* Every variable of IOWrapper always stays in its range, errors, seeks and *)
(* mixed calls included.                                                    *)
THEOREM TypeCorrect == Spec => []TypeOK
<1>1. ASSUME Init PROVE TypeOK
  <2>1. PICK n \in 0..MaxLength : content \in [1..n -> Byte]
    BY <1>1, ConstantsAssumption DEF Init, Files
  <2>2. content \in Seq(Byte)
    BY <2>1, SeqDef, ConstantsAssumption
  <2>3. Len(content) = n
    BY <2>1, <2>2, LenProperties, ConstantsAssumption
  <2>4. <<>> \in Seq(Byte) /\ <<>> \in Seq(Byte \cup {NUL})
    BY EmptySeq
  <2>5. result.value = <<>>
    BY <1>1 DEF Init
  <2>6. n \in Nat /\ n <= MaxLength
    BY ConstantsAssumption
  <2>7. Len(content) <= MaxLength /\ produced \in 0..Len(content)
    BY <1>1, <2>3, <2>6 DEF Init
  <2>8. off \in Nat /\ off <= produced /\ pos \in Nat /\ committed = FALSE
    BY <1>1 DEF Init
  <2> QED BY <1>1, <2>2, <2>4, <2>5, <2>7, <2>8 DEF Init, TypeOK
<1> QED BY <1>1, TypeStep, PTL DEF Spec
-----------------------------------------------------------------------------
(* Nothing is lost, repeated or reordered                                   *)

(* The slice the wrapper holds grows by what is read at the offset.         *)
LEMMA HeldGrows ==
  ASSUME TypeOK, InOrder, NEW answer \in Answers(Chunk), answer.n > 0
  PROVE  /\ pos <= off + answer.n
         /\ (out \o buffer) \o answer.bytes = SubSeq(content, pos + 1, off + answer.n)
<1>1. /\ off + answer.n <= produced /\ answer.n \in Nat
      /\ answer.bytes = SubSeq(content, off + 1, off + answer.n)
  BY AnswerProperties, ConstantsAssumption
<1>2. /\ content \in Seq(Byte) /\ Len(content) \in Nat /\ produced <= Len(content)
      /\ pos \in Nat /\ off \in Nat /\ produced \in Nat /\ pos <= off /\ off <= produced
  BY <1>1, LenProperties DEF TypeOK, InOrder
<1>3. /\ pos + 1 \in 1..(Len(content) + 1)
      /\ off \in ((pos + 1) - 1)..Len(content)
      /\ off + answer.n \in off..Len(content)
  <2>1. PICK n \in Nat, length \in Nat : n = answer.n /\ length = Len(content)
    BY <1>1, <1>2
  <2>2. /\ pos \in Nat /\ off \in Nat /\ pos <= off /\ off + n <= length
    BY <1>1, <1>2, <2>1
  <2>3. /\ pos + 1 \in 1..(length + 1)
        /\ off \in ((pos + 1) - 1)..length
        /\ off + n \in off..length
    BY ONLY <2>1, <2>2
  <2> QED BY <2>1, <2>3
<1>4. SubSeq(content, pos + 1, off) \o SubSeq(content, off + 1, off + answer.n)
        = SubSeq(content, pos + 1, off + answer.n)
  BY <1>2, <1>3, ConcatAdjacentSubSeq
<1>5. pos <= off + answer.n
  BY <1>1, <1>2
<1>6. out \o buffer = SubSeq(content, pos + 1, off)
  BY DEF InOrder
<1> QED BY ONLY <1>1, <1>4, <1>5, <1>6

(* The offset passes what is produced by a seek only, which takes the       *)
(* caller's position with it.                                               *)
Located == off <= produced \/ pos = off

(* The slice the wrapper holds, cut in two, and its first part returned.    *)
LEMMA HeldShrinks ==
  ASSUME TypeOK, InOrder, Located,
         NEW line \in Seq(Byte), NEW rest \in Seq(Byte), line \o rest = out \o buffer
  PROVE  /\ pos + Len(line) <= off
         /\ rest = SubSeq(content, (pos + Len(line)) + 1, off)
<1>1. /\ content \in Seq(Byte) /\ Len(content) \in Nat /\ produced <= Len(content)
      /\ pos \in Nat /\ off \in Nat /\ produced \in Nat /\ pos <= off
      /\ Len(line) \in Nat /\ Len(rest) \in Nat
  BY LenProperties DEF TypeOK, InOrder
<1>2. /\ \A i \in (pos + 1)..off : content[i] \in Byte
      /\ pos + 1 \in Int /\ off \in Int /\ off - (pos + 1) + 1 = off - pos
  <2>1. ASSUME NEW i \in (pos + 1)..off PROVE i \in 1..Len(content)
    BY <1>1 DEF Located
  <2> QED BY <1>1, <2>1, ElementOfSeq
<1>3. /\ SubSeq(content, pos + 1, off) \in Seq(Byte)
      /\ Len(SubSeq(content, pos + 1, off)) = off - pos
      /\ \A i \in 1..(off - pos) : SubSeq(content, pos + 1, off)[i] = content[pos + i]
  BY <1>1, <1>2, SubSeqProperties
<1>4. /\ Len(line) + Len(rest) = off - pos
      /\ \A i \in 1..Len(rest) : rest[i] = (line \o rest)[Len(line) + i]
  <2>1. /\ Len(line \o rest) = Len(line) + Len(rest)
        /\ \A i \in 1..(Len(line) + Len(rest)) :
             (line \o rest)[i] = IF i <= Len(line) THEN line[i] ELSE rest[i - Len(line)]
    BY ConcatProperties
  <2>2. line \o rest = SubSeq(content, pos + 1, off)
    BY DEF InOrder
  <2>3. Len(line) + Len(rest) = off - pos
    BY <1>3, <2>1, <2>2
  <2>4. ASSUME NEW i \in 1..Len(rest) PROVE rest[i] = (line \o rest)[Len(line) + i]
    <3>1. /\ Len(line) + i \in 1..(Len(line) + Len(rest))
          /\ ~(Len(line) + i <= Len(line)) /\ (Len(line) + i) - Len(line) = i
      BY <1>1
    <3> QED BY <2>1, <3>1
  <2> QED BY <2>3, <2>4
<1>5. \A i \in 1..Len(rest) : rest[i] = content[(pos + Len(line)) + i]
  <2> SUFFICES ASSUME NEW i \in 1..Len(rest)
               PROVE  rest[i] = content[(pos + Len(line)) + i]
    OBVIOUS
  <2>1. Len(line) + i \in 1..(off - pos) /\ pos + (Len(line) + i) = (pos + Len(line)) + i
    BY <1>1, <1>4
  <2>2. rest[i] = SubSeq(content, pos + 1, off)[Len(line) + i]
    BY <1>4 DEF InOrder
  <2> QED BY <1>3, <2>1, <2>2
<1> DEFINE m == (pos + Len(line)) + 1
<1>6. /\ SubSeq(content, m, off) \in Seq(Byte)
      /\ Len(SubSeq(content, m, off)) = Len(rest)
      /\ \A i \in 1..Len(rest) : SubSeq(content, m, off)[i] = content[(pos + Len(line)) + i]
  <2>1. m \in Int /\ off \in Int /\ off - m + 1 = Len(rest)
    BY <1>1, <1>4
  <2>2. \A i \in m..off : content[i] \in Byte
    BY <1>1, <1>2
  <2>3. Len(rest) = IF m <= off THEN off - m + 1 ELSE 0
    BY <1>1, <2>1
  <2>4. \A i \in 1..Len(rest) : m + i - 1 = (pos + Len(line)) + i
    BY <1>1
  <2> HIDE DEF m
  <2> QED BY <2>1, <2>2, <2>3, <2>4, SubSeqProperties
<1>7. rest = SubSeq(content, m, off)
  BY <1>5, <1>6, SeqEqual
<1> QED BY <1>1, <1>4, <1>7

(* What is left for the caller of the abstract file.                        *)
LEMMA RestLength ==
  ASSUME TypeOK
  PROVE  /\ Abstract!Rest \in Seq(Byte)
         /\ Len(Abstract!Rest) = IF pos <= produced THEN produced - pos ELSE 0
<1> DEFINE m == pos + 1
<1>1. /\ Len(content) \in Nat /\ produced <= Len(content)
      /\ \A i \in 1..Len(content) : content[i] \in Byte
      /\ pos \in Nat /\ produced \in Nat
  BY LenProperties, ElementOfSeq DEF TypeOK
<1>2. /\ m \in Int /\ produced \in Int
      /\ \A i \in m..produced : content[i] \in Byte
      /\ (IF m <= produced THEN produced - m + 1 ELSE 0)
           = (IF pos <= produced THEN produced - pos ELSE 0)
  BY <1>1
<1> HIDE DEF m
<1>3. /\ SubSeq(content, m, produced) \in Seq(Byte)
      /\ Len(SubSeq(content, m, produced)) = IF m <= produced THEN produced - m + 1 ELSE 0
  BY <1>2, SubSeqProperties
<1> QED BY <1>2, <1>3 DEF Abstract!Rest, m

(* What comes next in the stream is the first part of what the abstract     *)
(* file has left.                                                           *)
LEMMA NextIsRest ==
  ASSUME TypeOK, NEW n \in Nat, pos + n <= produced
  PROVE  /\ n \in 0..Len(Abstract!Rest)
         /\ SubSeq(Abstract!Rest, 1, n) = SubSeq(content, pos + 1, pos + n)
<1> DEFINE m == pos + 1
           all == SubSeq(content, m, produced)
           slice == SubSeq(content, m, pos + n)
<1>1. /\ Len(content) \in Nat /\ produced <= Len(content)
      /\ \A i \in 1..Len(content) : content[i] \in Byte
      /\ pos \in Nat /\ produced \in Nat
  BY LenProperties, ElementOfSeq DEF TypeOK
<1>2. /\ m \in Int /\ pos + n \in Int /\ produced \in Int
      /\ \A i \in m..produced : content[i] \in Byte
      /\ \A i \in m..(pos + n) : content[i] \in Byte
      /\ n = IF m <= pos + n THEN (pos + n) - m + 1 ELSE 0
      /\ produced - pos = IF m <= produced THEN produced - m + 1 ELSE 0
  BY <1>1
<1> HIDE DEF m
<1>3. /\ all \in Seq(Byte) /\ Len(all) = produced - pos
      /\ \A i \in 1..(produced - pos) : all[i] = content[m + i - 1]
  BY <1>2, SubSeqProperties
<1>4. /\ slice \in Seq(Byte) /\ Len(slice) = n
      /\ \A i \in 1..n : slice[i] = content[m + i - 1]
  BY <1>2, SubSeqProperties
<1> HIDE DEF all, slice
<1>5. n \in 0..Len(all) /\ \A i \in 1..n : i \in 1..(produced - pos)
  BY <1>1, <1>3
<1>6. \A i \in 1..n : all[i] = slice[i] /\ all[i] \in Byte
  BY <1>3, <1>4, <1>5, ElementOfSeq
<1>7. SubSeq(all, 1, n) \in Seq(Byte) /\ Len(SubSeq(all, 1, n)) = n
  BY <1>3, <1>5, Split
<1>8. \A i \in 1..n : SubSeq(all, 1, n)[i] = all[i]
  <2>1. 1 \in Int /\ n \in Int /\ n = (IF 1 <= n THEN n - 1 + 1 ELSE 0)
        /\ (\A i \in 1..n : 1 + i - 1 = i) /\ (\A i \in 1..n : all[i] \in Byte)
    BY <1>6
  <2> QED BY <2>1, SubSeqProperties
<1>9. SubSeq(all, 1, n) = slice
  BY <1>4, <1>6, <1>7, <1>8, SeqEqual
<1> QED BY <1>5, <1>9 DEF Abstract!Rest, all, slice, m

LEMMA HeldIsProduced ==
  ASSUME TypeOK, InOrder, off <= produced,
         NEW line \in Seq(Byte), NEW rest \in Seq(Byte), line \o rest = out \o buffer
  PROVE  /\ Len(line) \in 0..Len(Abstract!Rest)
         /\ SubSeq(Abstract!Rest, 1, Len(line)) = line
         /\ rest = <<>> => pos + Len(line) = off
<1> DEFINE all == SubSeq(content, pos + 1, produced)
           held == SubSeq(content, pos + 1, off)
<1>1. /\ content \in Seq(Byte) /\ Len(content) \in Nat /\ produced <= Len(content)
      /\ pos \in Nat /\ off \in Nat /\ produced \in Nat /\ pos <= off
      /\ Len(line) \in Nat /\ Len(rest) \in Nat
  BY LenProperties DEF TypeOK, InOrder
<1>2. /\ \A i \in (pos + 1)..produced : content[i] \in Byte
      /\ \A i \in (pos + 1)..off : content[i] \in Byte
      /\ pos + 1 \in Int /\ off - (pos + 1) + 1 = off - pos
      /\ produced - (pos + 1) + 1 = produced - pos
  BY <1>1, ElementOfSeq
<1>3. /\ all \in Seq(Byte) /\ Len(all) = produced - pos
      /\ \A i \in 1..(produced - pos) : all[i] = content[pos + i]
      /\ Len(held) = off - pos
      /\ \A i \in 1..(off - pos) : held[i] = content[pos + i]
  <2>1. ASSUME NEW n \in Nat, pos <= n, \A i \in (pos + 1)..n : content[i] \in Byte
        PROVE  /\ SubSeq(content, pos + 1, n) \in Seq(Byte)
               /\ Len(SubSeq(content, pos + 1, n)) = n - pos
               /\ \A i \in 1..(n - pos) : SubSeq(content, pos + 1, n)[i] = content[pos + i]
    <3>1. /\ pos + 1 \in Int /\ n \in Int
          /\ n - pos = IF pos + 1 <= n THEN n - (pos + 1) + 1 ELSE 0
          /\ \A i \in 1..(n - pos) : (pos + 1) + i - 1 = pos + i
      BY <1>1, <2>1
    <3> DEFINE m == pos + 1
    <3> HIDE DEF m
    <3>2. /\ m \in Int /\ n \in Int /\ \A i \in m..n : content[i] \in Byte
          /\ n - pos = IF m <= n THEN n - m + 1 ELSE 0
          /\ \A i \in 1..(n - pos) : m + i - 1 = pos + i
      BY <2>1, <3>1 DEF m
    <3>3. /\ SubSeq(content, m, n) \in Seq(Byte)
          /\ Len(SubSeq(content, m, n)) = n - pos
          /\ \A i \in 1..(n - pos) : SubSeq(content, m, n)[i] = content[pos + i]
      BY <3>2, SubSeqProperties
    <3> QED BY <3>3 DEF m
  <2>2. pos <= produced
    BY <1>1
  <2>3. all \in Seq(Byte) /\ Len(all) = produced - pos
        /\ \A i \in 1..(produced - pos) : all[i] = content[pos + i]
    BY <1>1, <1>2, <2>1, <2>2
  <2>4. Len(held) = off - pos /\ \A i \in 1..(off - pos) : held[i] = content[pos + i]
    BY <1>1, <1>2, <2>1
  <2> QED BY <2>3, <2>4
<1>4. line \o rest = held
  BY DEF InOrder
<1> HIDE DEF all, held
<1>5. /\ Len(line) + Len(rest) = off - pos
      /\ \A i \in 1..Len(line) : line[i] = held[i]
  <2>1. /\ Len(line \o rest) = Len(line) + Len(rest)
        /\ \A i \in 1..(Len(line) + Len(rest)) :
             (line \o rest)[i] = IF i <= Len(line) THEN line[i] ELSE rest[i - Len(line)]
    BY ConcatProperties
  <2>2. PICK n \in Nat, m \in Nat : n = Len(line) /\ m = Len(rest)
    BY <1>1
  <2>3. /\ off - pos = n + m
        /\ \A i \in 1..(n + m) : held[i] = IF i <= n THEN line[i] ELSE rest[i - n]
    BY <1>3, <1>4, <2>1, <2>2
  <2>4. \A i \in 1..n : i \in 1..(n + m) /\ i <= n
    OBVIOUS
  <2>5. \A i \in 1..n : line[i] = held[i]
    BY <2>3, <2>4
  <2> QED BY <2>2, <2>3, <2>5
<1>6. Len(line) \in 0..Len(all)
  BY <1>1, <1>3, <1>5
<1>7. ASSUME NEW i \in 1..Len(line) PROVE line[i] = all[i]
  <2>1. i \in 1..(off - pos) /\ i \in 1..(produced - pos)
    BY <1>1, <1>5
  <2> QED BY <1>3, <1>5, <2>1
<1>8. SubSeq(all, 1, Len(line)) = line
  <2>1. \A i \in 1..Len(line) : all[i] \in Byte
    BY <1>7, ElementOfSeq
  <2>2. /\ SubSeq(all, 1, Len(line)) \in Seq(Byte)
        /\ Len(SubSeq(all, 1, Len(line))) = Len(line)
    BY <1>3, <1>6, Split
  <2>3. \A i \in 1..Len(line) : SubSeq(all, 1, Len(line))[i] = all[i]
    BY <1>1, <2>1, SubSeqProperties
  <2> QED BY <1>7, <2>2, <2>3, SeqEqual
<1>9. rest = <<>> => pos + Len(line) = off
  BY <1>1, <1>5, EmptySeq
<1>10. Abstract!Rest = all
  BY DEF Abstract!Rest, all
<1> QED BY <1>6, <1>8, <1>9, <1>10

(* The first part of what the wrapper holds is the first part of what is    *)
(* after the caller's position; all of it reaches to the offset.            *)
LEMMA HeldIsRest ==
  ASSUME TypeOK, InOrder, Located,
         NEW line \in Seq(Byte), NEW rest \in Seq(Byte), line \o rest = out \o buffer
  PROVE  /\ Len(line) \in 0..Len(Abstract!Rest)
         /\ SubSeq(Abstract!Rest, 1, Len(line)) = line
         /\ rest = <<>> => pos + Len(line) = off
<1>1. CASE off <= produced
  BY <1>1, HeldIsProduced
<1>2. CASE pos = off
  <2>1. /\ pos \in Nat /\ off \in Nat /\ Len(line) \in Nat /\ Len(rest) \in Nat
        /\ Len(line \o rest) = Len(line) + Len(rest)
    BY LenProperties, ConcatProperties DEF TypeOK
  <2>2. line \o rest = <<>>
    <3>1. PICK m \in Int : m = pos + 1 /\ off < m
      BY <1>2, <2>1
    <3>2. SubSeq(content, m, off) = <<>>
      BY <2>1, <3>1, SubSeqEmpty
    <3> QED BY <3>1, <3>2 DEF InOrder
  <2>3. Len(line \o rest) = 0
    BY <2>2, EmptySeq
  <2>4. Len(line) = 0 /\ line = <<>>
    BY <2>1, <2>3, EmptySeq
  <2>5. 0 \in 0..Len(Abstract!Rest)
    BY RestLength, LenProperties
  <2>6. SubSeq(Abstract!Rest, 1, 0) = <<>>
    BY SubSeqEmpty
  <2> QED BY <1>2, <2>1, <2>4, <2>5, <2>6
<1> QED BY <1>1, <1>2 DEF Located

(* When nothing is held the caller is where the descriptor is.              *)
LEMMA NothingHeld ==
  ASSUME TypeOK, InOrder, Located, out \o buffer = <<>>
  PROVE  pos = off
<1>1. <<>> \in Seq(Byte) /\ <<>> \o <<>> = out \o buffer
  BY EmptySeq, ConcatEmptySeq
<1>2. pos + Len(<<>>) = off
  BY <1>1, HeldIsRest
<1> QED BY <1>2, EmptySeq DEF TypeOK

(* Between calls the wrapper holds its buffer only, in read() its local     *)
(* variable only.                                                           *)
WholeInv ==
  /\ InOrder
  /\ Located
  /\ call = "none" => out = <<>>
  /\ call = "read" => buffer = <<>>

(* A method returns the first part of what was held and keeps the rest.     *)
LEMMA ReturnStep ==
  ASSUME TypeOK, InOrder, Located,
         NEW line \in Seq(Byte), pos' = pos + Len(line), out' = <<>>,
         buffer' \in Seq(Byte), line \o buffer' = out \o buffer,
         UNCHANGED <<content, produced, off>>
  PROVE  InOrder' /\ Located'
<1>1. pos + Len(line) <= off /\ buffer' = SubSeq(content, (pos + Len(line)) + 1, off)
  BY HeldShrinks
<1>2. out' \o buffer' = buffer'
  BY ConcatEmptySeq
<1>3. pos \in Nat /\ off \in Nat /\ Len(line) \in Nat
  BY LenProperties DEF TypeOK
<1> QED BY <1>1, <1>2, <1>3 DEF InOrder, Located

(* One read(size) with nothing read ahead returns the bytes it read, all of *)
(* them: some that come next, or none at the end of the committed file.     *)
LEMMA ReadSizeBytes ==
  ASSUME Careful, ~ReadMayFail, TypeOK, WholeInv, NEW size \in ReadSizes, ReadSize(size)
  PROVE  /\ call = "none" /\ out = <<>> /\ pos = off
         /\ UNCHANGED <<content, produced, committed, call, out>> /\ buffer' = <<>>
         /\ \/ \E n \in 1..size :
                 /\ off + n <= produced /\ off' = off + n
                 /\ Returns("read", SubSeq(content, off + 1, off + n))
                 /\ Len(SubSeq(content, off + 1, off + n)) = n
            \/ /\ committed /\ off >= produced /\ off' = off
               /\ Returns("read", <<>>)
<1> USE ConstantsAssumption DEF file
<1>1. /\ call = "none" /\ out = <<>> /\ pos = off /\ buffer = <<>>
      /\ UNCHANGED <<content, produced, committed, call, out>> /\ buffer' = <<>>
  <2>1. /\ call = "none" /\ out = <<>> /\ buffer = <<>>
        /\ UNCHANGED <<content, produced, committed, call, out>> /\ buffer' = <<>>
    BY DEF ReadSize, WholeInv
  <2>2. out \o buffer = <<>>
    BY <2>1, EmptySeq, ConcatEmptySeq
  <2> QED BY <2>1, <2>2, NothingHeld DEF WholeInv
<1>2. PICK answer \in Answers(size) :
        /\ off' = off + Len(answer.bytes)
        /\ IF answer.n >= 0
             THEN Returns("read", Resized(buffer \o answer.bytes, size))
           ELSE IF buffer = <<>>
             THEN Returns("length_error", <<>>)
             ELSE Returns("read", Resized(SubSeq(buffer, 1, Len(buffer) - 1), size))
  BY DEF ReadSize
<1>3. /\ answer.n \in Int /\ answer.n <= size /\ answer.bytes \in Seq(Byte)
      /\ answer.n > 0 => /\ off + answer.n <= produced
                         /\ Len(answer.bytes) = answer.n
                         /\ answer.bytes = SubSeq(content, off + 1, off + answer.n)
      /\ answer.n <= 0 => answer.bytes = <<>>
      /\ answer.n = 0 => committed /\ off >= produced
      /\ answer.n >= 0
  BY AnswerProperties
<1>4. size \in Nat /\ Len(answer.bytes) <= size /\ off \in Nat
  BY <1>3, EmptySeq DEF TypeOK
<1>5. buffer \o answer.bytes = answer.bytes
  BY <1>1, <1>3, ConcatEmptySeq
<1>6. Resized(buffer \o answer.bytes, size) = answer.bytes
  BY <1>3, <1>4, <1>5, ResizedProperties
<1>7. Returns("read", answer.bytes)
  BY <1>2, <1>3, <1>6
<1>8. CASE answer.n > 0
  <2>1. answer.n \in 1..size
    BY <1>3, <1>4, <1>8
  <2>2. \E n \in 1..size :
          /\ off + n <= produced /\ off' = off + n
          /\ Returns("read", SubSeq(content, off + 1, off + n))
          /\ Len(SubSeq(content, off + 1, off + n)) = n
    <3> WITNESS answer.n \in 1..size
    <3> QED BY <1>2, <1>3, <1>7, <1>8
  <2> QED BY ONLY <1>1, <2>2
<1>9. CASE answer.n = 0
  <2>1. answer.bytes = <<>> /\ off' = off
    BY <1>2, <1>3, <1>4, <1>9, EmptySeq
  <2> QED BY <1>1, <1>3, <1>7, <1>9, <2>1
<1>10. answer.n > 0 \/ answer.n = 0
  BY <1>3
<1> QED BY ONLY <1>8, <1>9, <1>10

(* read() has all the bytes from the caller's position to the descriptor's. *)
LEMMA ReadAllBytes ==
  ASSUME TypeOK, WholeInv, call = "read"
  PROVE  out = SubSeq(content, pos + 1, off) /\ pos + Len(out) = off
<1>1. /\ out \in Seq(Byte) /\ <<>> \in Seq(Byte) /\ InOrder /\ Located /\ buffer = <<>>
  BY EmptySeq DEF TypeOK, WholeInv
<1>2. out \o <<>> = out /\ out \o <<>> = out \o buffer
  BY <1>1, ConcatEmptySeq
<1>3. out = SubSeq(content, pos + 1, off)
  BY <1>1, <1>2 DEF InOrder
<1> QED BY <1>1, <1>2, <1>3, HeldIsRest

(* With nothing held, the caller and the descriptor in one place, all holds.*)
LEMMA TogetherIsWhole ==
  ASSUME call' = "none", out' = <<>>, buffer' = <<>>, pos' = off', off' \in Nat
  PROVE  WholeInv'
<1>1. PICK k \in Nat : k = off'
  OBVIOUS
<1>2. k + 1 \in Int /\ k \in Int /\ k < k + 1 /\ k <= k
  OBVIOUS
<1>3. SubSeq(content', k + 1, k) = <<>>
  BY <1>2, SubSeqEmpty
<1>4. <<>> \o <<>> = <<>>
  BY EmptySeq, ConcatEmptySeq
<1> QED BY <1>1, <1>2, <1>3, <1>4 DEF WholeInv, InOrder, Located

(* Every step of a careful caller keeps WholeInv, as long as no read fails. *)
LEMMA WholeStep ==
  ASSUME Careful, ~NegativeSizes, ~ReadMayFail,
         TypeOK, WholeInv, [Next]_vars
  PROVE  WholeInv'
<1> USE ConstantsAssumption DEF file
<1>0. /\ out \in Seq(Byte) /\ buffer \in Seq(Byte) /\ out \o buffer \in Seq(Byte)
      /\ <<>> \in Seq(Byte) /\ Len(<<>>) = 0
      /\ pos \in Nat /\ off \in Nat /\ produced \in Nat /\ InOrder /\ Located
  BY ConcatProperties, EmptySeq DEF TypeOK, WholeInv
<1>1. CASE Produce \/ Commit \/ UNCHANGED vars
  <2>1. UNCHANGED <<content, off, buffer, call, out, pos>>
    BY <1>1 DEF Produce, Commit, vars
  <2>2. off <= produced => off <= produced'
    BY <1>0, <1>1 DEF Produce, Commit, vars
  <2>3. InOrder' /\ Located'
    BY <1>0, <2>1, <2>2 DEF InOrder, Located
  <2> QED BY <2>1, <2>3 DEF WholeInv
<1>2. ASSUME NEW method \in Calls, StartCall(method) PROVE WholeInv'
  <2>1. call = "none" /\ out = <<>> /\ UNCHANGED <<content, produced, off>> /\ method # "none"
    BY <1>2 DEF StartCall, WholeInv, Looping
  <2>2. CASE UNCHANGED <<out, buffer>>
    <3>1. pos' = pos
      BY <1>0, <1>2 DEF StartCall, Returns
    <3>2. InOrder' /\ Located'
      BY <1>0, <2>1, <2>2, <3>1 DEF InOrder, Located
    <3>3. call' = "read" => buffer' = <<>>
      BY <1>2, <2>1, <2>2 DEF StartCall
    <3> QED BY <2>1, <2>2, <3>2, <3>3 DEF WholeInv
  <2>3. CASE out' = buffer /\ buffer' = <<>> /\ call' = method /\ pos' = pos
    <3>1. out' \o buffer' = out \o buffer
      BY <1>0, <2>1, <2>3, ConcatEmptySeq
    <3>2. InOrder' /\ Located'
      BY <1>0, <2>1, <2>3, <3>1 DEF InOrder, Located
    <3> QED BY <2>1, <2>3, <3>2 DEF WholeInv
  <2> QED BY <1>2, <2>2, <2>3 DEF StartCall
<1>3. ASSUME NEW line \in Seq(Byte), InLine, LineRead(line), out' = <<>>
      PROVE  pos' = pos + Len(line) /\ (call' = "read" => buffer' = <<>>)
  BY <1>0, <1>3 DEF InLine, Iterating, LineRead, Returns
<1>4. CASE TakeLine
  <2>1. PICK nl \in DOMAIN buffer :
          /\ LineRead(out \o SubSeq(buffer, 1, nl))
          /\ buffer' = SubSeq(buffer, nl + 1, Len(buffer))
    BY <1>4 DEF TakeLine
  <2> DEFINE first == SubSeq(buffer, 1, nl)
  <2>2. nl \in 0..Len(buffer)
    BY <1>0, LenProperties
  <2>3. first \in Seq(Byte) /\ buffer' \in Seq(Byte) /\ first \o buffer' = buffer
    BY <1>0, <2>1, <2>2, Split
  <2>4. /\ LineRead(out \o first) /\ InLine /\ out' = <<>>
        /\ UNCHANGED <<content, produced, off>>
    BY <1>4, <2>1 DEF TakeLine
  <2> HIDE DEF first
  <2>5. out \o first \in Seq(Byte)
    BY <1>0, <2>3, ConcatProperties
  <2>6. (out \o first) \o buffer' = out \o buffer
    <3>1. out \in Seq(Byte) /\ first \in Seq(Byte) /\ buffer' \in Seq(Byte)
      BY <1>0, <2>3
    <3>2. (out \o first) \o buffer' = out \o (first \o buffer')
      BY ONLY <3>1, ConcatAssociative
    <3>3. out \o (first \o buffer') = out \o buffer
      BY <2>3, Zenon
    <3> QED BY <3>2, <3>3, Zenon
  <2>7. pos' = pos + Len(out \o first) /\ (call' = "read" => buffer' = <<>>)
    BY <1>3, <2>4, <2>5
  <2>8. InOrder' /\ Located'
    BY <1>0, <2>3, <2>4, <2>5, <2>6, <2>7, ReturnStep
  <2> QED BY <2>4, <2>7, <2>8 DEF WholeInv
<1>5. CASE FillBuffer
  <2>1. PICK answer \in Answers(Chunk) :
          answer.n > 0 /\ off' = off + answer.n /\ buffer' = answer.bytes
    BY <1>5 DEF FillBuffer
  <2>2. /\ pos <= off + answer.n
        /\ (out \o buffer) \o answer.bytes = SubSeq(content, pos + 1, off + answer.n)
    BY <1>0, <2>1, HeldGrows
  <2>3. InOrder' /\ Located'
    <3>1. off + answer.n <= produced
      BY <2>1, AnswerProperties
    <3> QED BY <1>5, <2>1, <2>2, <3>1 DEF FillBuffer, InOrder, Located
  <2>4. call' \notin {"none", "read"}
    BY <1>5 DEF FillBuffer, InLine, Iterating
  <2> QED BY <2>3, <2>4 DEF WholeInv
<1>6. CASE LastLine
  <2>1. /\ LineRead(out \o buffer) /\ InLine /\ out' = <<>> /\ buffer' = <<>>
        /\ UNCHANGED <<content, produced, off>>
    BY <1>6 DEF LastLine
  <2>2. (out \o buffer) \o buffer' = out \o buffer
    BY <1>0, <2>1, ConcatEmptySeq
  <2>3. pos' = pos + Len(out \o buffer)
    BY <1>0, <1>3, <2>1
  <2>4. InOrder' /\ Located'
    BY <1>0, <2>1, <2>2, <2>3, ReturnStep
  <2> QED BY <2>1, <2>4 DEF WholeInv
<1>7. CASE ReadAllMore
  <2>1. PICK answer \in Answers(Chunk) :
          answer.n > 0 /\ off' = off + answer.n /\ out' = out \o answer.bytes
    BY <1>7 DEF ReadAllMore
  <2>2. /\ pos <= off + answer.n
        /\ (out \o buffer) \o answer.bytes = SubSeq(content, pos + 1, off + answer.n)
    BY <1>0, <2>1, HeldGrows
  <2>3. answer.bytes \in Seq(Byte) /\ off + answer.n <= produced
    BY <1>0, <2>1, AnswerProperties
  <2>4. out' \in Seq(Byte)
    BY <1>0, <2>1, <2>3, ConcatProperties
  <2>5. /\ call = "read" /\ buffer = <<>> /\ buffer' = <<>>
        /\ UNCHANGED <<content, produced, call, pos>>
    BY <1>7 DEF ReadAllMore, WholeInv
  <2>6. out \o buffer = out /\ out' \o buffer' = out'
    BY <1>0, <2>4, <2>5, ConcatEmptySeq
  <2>7. InOrder' /\ Located'
    BY <2>1, <2>2, <2>3, <2>5, <2>6 DEF InOrder, Located
  <2> QED BY <2>5, <2>7 DEF WholeInv
<1>8. CASE ReadAllEnd
  <2>1. /\ pos' = pos + Len(out) /\ out' = <<>> /\ buffer = <<>> /\ buffer' = buffer
        /\ call' = "none" /\ UNCHANGED <<content, produced, off>>
    BY <1>8 DEF ReadAllEnd, Returns, WholeInv
  <2>2. InOrder' /\ Located'
    BY <1>0, <2>1, ReturnStep
  <2> QED BY <2>1, <2>2 DEF WholeInv
<1>9. CASE ReadAllFails
  BY <1>9, AnswerProperties DEF ReadAllFails
<1>10. ASSUME NEW size \in ReadSizes, ReadSize(size) PROVE WholeInv'
  <2>1. call' = "none" /\ out' = <<>> /\ buffer' = <<>> /\ pos = off
    BY <1>10, ReadSizeBytes
  <2>2. pos' = off' /\ off' \in Nat
    <3>1. CASE \E n \in 1..size :
                 /\ off' = off + n
                 /\ Returns("read", SubSeq(content, off + 1, off + n))
                 /\ Len(SubSeq(content, off + 1, off + n)) = n
      BY <1>0, <2>1, <3>1 DEF Returns
    <3>2. CASE off' = off /\ Returns("read", <<>>)
      BY <1>0, <2>1, <3>2 DEF Returns
    <3> QED BY <1>10, <3>1, <3>2, ReadSizeBytes
  <2> QED BY <2>1, <2>2, TogetherIsWhole
<1>11. ASSUME NEW offset \in Offsets, Seek(offset) PROVE WholeInv'
  <2>1. call' = "none" /\ buffer = <<>> /\ out = <<>> /\ out' = <<>> /\ buffer' = <<>>
    BY <1>11 DEF Seek, WholeInv
  <2>2. CASE off' = offset /\ pos' = offset
    BY <2>1, <2>2, TogetherIsWhole
  <2>3. CASE Returns("seek_error", <<>>) /\ UNCHANGED off
    <3>1. out \o buffer = <<>>
      BY <2>1, EmptySeq, ConcatEmptySeq
    <3>2. pos = off
      BY <1>0, <3>1, NothingHeld
    <3>3. pos' = off' /\ off' \in Nat
      BY <1>0, <2>3, <3>2 DEF Returns
    <3> QED BY <2>1, <3>3, TogetherIsWhole
  <2> QED BY <1>11, <2>2, <2>3 DEF Seek
<1> QED
  BY <1>1, <1>2, <1>4, <1>5, <1>6, <1>7, <1>8, <1>9, <1>10, <1>11
  DEF Next, CallStep, ReadNegative

(* However read(), read(size), readline(), iteration, readlines() and seek  *)
(* are mixed on one IOWrapper, and however CAPIO cuts its answers, the      *)
(* caller gets every byte of the stream once and in order: what it has not  *)
(* got yet, up to the offset of the descriptor, is what the wrapper holds.  *)
(* Of read(size) and seek those with nothing read ahead, and no read that   *)
(* fails: each of these breaks it.                                          *)
THEOREM InOrderCorrect ==
  ASSUME Careful, ~NegativeSizes, ~ReadMayFail
  PROVE  Spec => []InOrder
<1>1. ASSUME Init PROVE WholeInv
  <2>1. <<>> \o <<>> = <<>>
    BY EmptySeq, ConcatEmptySeq
  <2>2. SubSeq(content, 1, 0) = <<>>
    BY SubSeqEmpty
  <2> QED BY <1>1, <2>1, <2>2 DEF Init, WholeInv, InOrder, Located
<1>2. WholeInv => InOrder
  BY DEF WholeInv
<1>3. TypeOK /\ WholeInv /\ [Next]_vars => WholeInv'
  BY WholeStep
<1> QED BY <1>1, <1>2, <1>3, TypeCorrect, PTL DEF Spec

-----------------------------------------------------------------------------
(* Iteration stops at the end only                                          *)

(* What a reader was told of the end, and _exhausted, which repeats it,     *)
(* stay true as long as nobody seeks after it: the file is closed and all   *)
(* of it is his.                                                            *)
StoppedInv ==
  exhausted \/ result.method = "stop" => committed /\ pos >= produced

(* A line taken from the buffer has its newline, at least.                  *)
LEMMA LineNotEmpty ==
  ASSUME TypeOK, NEW nl \in DOMAIN buffer
  PROVE  /\ out \o SubSeq(buffer, 1, nl) \in Seq(Byte)
         /\ out \o SubSeq(buffer, 1, nl) # <<>>
<1>1. /\ nl \in 0..Len(buffer) /\ nl \in Nat /\ nl > 0
      /\ out \in Seq(Byte) /\ buffer \in Seq(Byte) /\ Len(out) \in Nat
  BY LenProperties DEF TypeOK
<1>2. SubSeq(buffer, 1, nl) \in Seq(Byte) /\ Len(SubSeq(buffer, 1, nl)) = nl
  BY <1>1, Split
<1>3. /\ out \o SubSeq(buffer, 1, nl) \in Seq(Byte)
      /\ Len(out \o SubSeq(buffer, 1, nl)) = Len(out) + nl
  BY <1>1, <1>2, ConcatProperties
<1> QED BY <1>1, <1>3, EmptySeq

(* An empty last line is read at the caller's own position, the end.        *)
LEMMA StopAtEnd ==
  ASSUME TypeOK, WholeInv, ~ReadMayFail, LastLine, out \o buffer = <<>>
  PROVE  committed /\ pos >= produced
<1>1. PICK answer \in Answers(Chunk) : answer.n <= 0
  BY DEF LastLine
<1>2. /\ answer.n \in Int /\ (answer.n < 0 => ReadMayFail)
      /\ (answer.n = 0 => committed /\ off >= produced)
  BY ConstantsAssumption, AnswerProperties
<1>3. pos = off
  BY NothingHeld DEF WholeInv
<1> QED BY <1>1, <1>2, <1>3

(* A step that tells a reader to stop is at the end.                        *)
LEMMA StopStep ==
  ASSUME ~ReadMayFail, TypeOK, WholeInv, StoppedInv,
         LastLine \/ \E method \in {"next", "readlines"} : StartCall(method),
         result'.method = "stop"
  PROVE  committed /\ pos >= produced
<1>1. CASE LastLine
  <2>1. LineRead(out \o buffer)
    BY <1>1 DEF LastLine
  <2>2. out \o buffer = <<>>
    BY <2>1 DEF LineRead, Returns
  <2> QED BY <1>1, <2>2, StopAtEnd
<1>2. ASSUME NEW method \in {"next", "readlines"}, StartCall(method)
      PROVE  exhausted \/ result.method = "stop"
  BY <1>2 DEF StartCall
<1> QED BY <1>1, <1>2 DEF StoppedInv

(* Nothing takes the end back: the file is closed, and positions only grow  *)
(* but by a seek, which comes before it.                                    *)
LEMMA StoppedStep ==
  ASSUME Careful, ~NegativeSizes, ~ReadMayFail,
         TypeOK, WholeInv, StoppedInv, [Next]_vars
  PROVE  StoppedInv'
<1> USE DEF file
<1>0. /\ pos \in Nat /\ produced \in Nat /\ Len(content) \in Nat
      /\ (committed => produced = Len(content))
      /\ out \in Seq(Byte) /\ buffer \in Seq(Byte) /\ Len(<<>>) = 0 /\ <<>> \in Seq(Byte)
      /\ out \o buffer \in Seq(Byte)
  BY EmptySeq, LenProperties, ConcatProperties DEF TypeOK
<1>1. ASSUME NEW bytes \in Seq(Byte), NEW method, Returns(method, bytes)
      PROVE  pos' \in Nat /\ pos' >= pos /\ result'.method = method
  BY <1>0, <1>1, LenProperties DEF Returns
<1>2. ASSUME UNCHANGED <<committed, produced>>, pos' \in Nat /\ pos' >= pos,
             \/ ~exhausted' /\ result'.method # "stop"
             \/ exhausted' \/ result'.method = "stop" => exhausted \/ result.method = "stop"
             \/ committed /\ pos >= produced
      PROVE  StoppedInv'
  BY <1>0, <1>2 DEF StoppedInv
<1>3. CASE Produce \/ Commit \/ UNCHANGED vars
  BY <1>0, <1>3 DEF Produce, Commit, vars, StoppedInv
<1>4. ASSUME NEW method \in Calls, StartCall(method) PROVE StoppedInv'
  <2>1. pos' \in Nat /\ pos' >= pos
    <3>1. UNCHANGED pos \/ Returns("stop", <<>>)
      BY <1>4 DEF StartCall
    <3>2. CASE UNCHANGED pos
      BY <1>0, <3>2
    <3>3. CASE Returns("stop", <<>>)
      BY <1>0, <1>1, <3>3
    <3> QED BY <3>1, <3>2, <3>3
  <2>2. exhausted' \/ result'.method = "stop" => exhausted \/ result.method = "stop"
    BY <1>4 DEF StartCall
  <2> QED BY <1>2, <1>4, <2>1, <2>2 DEF StartCall
<1>5. ASSUME NEW line \in Seq(Byte), LineRead(line), UNCHANGED <<committed, produced>>,
             line = <<>> => committed /\ pos >= produced
      PROVE  StoppedInv'
  <2>1. pos' \in Nat /\ pos' >= pos
    <3>1. \E method : Returns(method, line)
      BY <1>5 DEF LineRead
    <3> QED BY <1>1, <3>1
  <2>2. CASE line # <<>>
    <3>1. UNCHANGED exhausted /\ result'.method # "stop"
      BY <1>5, <2>2 DEF LineRead, Returns, Iterating
    <3> QED BY <1>2, <1>5, <2>1, <3>1
  <2>3. CASE line = <<>>
    BY <1>2, <1>5, <2>1, <2>3
  <2> QED BY <2>2, <2>3
<1>6. CASE TakeLine
  <2>1. PICK nl \in DOMAIN buffer : LineRead(out \o SubSeq(buffer, 1, nl))
    BY <1>6 DEF TakeLine
  <2>2. UNCHANGED <<committed, produced>>
    BY <1>6 DEF TakeLine
  <2> QED BY <1>5, <2>1, <2>2, LineNotEmpty
<1>7. CASE LastLine
  <2>1. LineRead(out \o buffer) /\ UNCHANGED <<committed, produced>>
    BY <1>7 DEF LastLine
  <2> QED BY <1>0, <1>5, <1>7, <2>1, StopAtEnd
<1>8. CASE FillBuffer \/ ReadAllMore
  BY <1>0, <1>8 DEF FillBuffer, ReadAllMore, StoppedInv
<1>9. CASE ReadAllEnd
  <2>1. Returns("read", out) /\ UNCHANGED <<committed, produced, exhausted>>
    BY <1>9 DEF ReadAllEnd
  <2> QED BY <1>0, <1>1, <1>2, <2>1
<1>10. CASE ReadAllFails
  BY <1>10, ConstantsAssumption, AnswerProperties DEF ReadAllFails
<1>11. ASSUME NEW size \in ReadSizes, ReadSize(size) PROVE StoppedInv'
  <2>1. UNCHANGED <<committed, produced, exhausted>>
    BY <1>11 DEF ReadSize
  <2>2. \E bytes \in Seq(Byte) : Returns("read", bytes)
    <3>1. CASE Returns("read", <<>>)
      BY <1>0, <3>1
    <3>2. ASSUME NEW n \in 1..size, off + n <= produced,
                 Returns("read", SubSeq(content, off + 1, off + n))
          PROVE  SubSeq(content, off + 1, off + n) \in Seq(Byte)
      <4>1. /\ \A i \in (off + 1)..(off + n) : content[i] \in Byte
            /\ off + 1 \in Int /\ off + n \in Int
        <5>1. /\ content \in Seq(Byte) /\ off \in Nat /\ produced <= Len(content)
              /\ n \in Int
          BY ConstantsAssumption DEF TypeOK
        <5>2. (off + 1)..(off + n) \subseteq 1..Len(content)
          BY <1>0, <3>2, <5>1
        <5> QED BY <5>1, <5>2, ElementOfSeq
      <4> QED BY <4>1, SubSeqProperties
    <3> QED BY <1>11, <3>1, <3>2, ReadSizeBytes
  <2>3. PICK bytes \in Seq(Byte) : Returns("read", bytes)
    BY <2>2
  <2>4. pos' \in Nat /\ pos' >= pos /\ result'.method = "read"
    BY <1>1, <2>3
  <2> QED BY <1>2, <2>1, <2>4
<1>12. ASSUME NEW offset \in Offsets, Seek(offset) PROVE StoppedInv'
  <2>1. ~exhausted' /\ result'.method # "stop"
    BY <1>12 DEF Seek, Returns
  <2> QED BY <2>1 DEF StoppedInv
<1> QED
  BY <1>3, <1>4, <1>6, <1>7, <1>8, <1>9, <1>10, <1>11, <1>12
  DEF Next, CallStep, ReadNegative

(* next() and readlines() say that there is nothing more only when there is *)
(* not: the producer has closed the file, and the caller, whatever methods  *)
(* he mixed, wherever he has sought before and however short the answers of *)
(* CAPIO were, is at its end. Of read(size) and seek those with nothing     *)
(* read ahead, no seek after an end, and no read that fails: each of these  *)
(* breaks it.                                                               *)
THEOREM StopMeansEndCorrect ==
  ASSUME Careful, ~NegativeSizes, ~ReadMayFail
  PROVE  Spec => StopMeansEnd
<1>1. ASSUME Init PROVE WholeInv /\ StoppedInv
  <2>1. <<>> \o <<>> = <<>>
    BY EmptySeq, ConcatEmptySeq
  <2>2. SubSeq(content, 1, 0) = <<>>
    BY SubSeqEmpty
  <2> QED BY <1>1, <2>1, <2>2 DEF Init, WholeInv, InOrder, Located, StoppedInv
<1>2. TypeOK /\ WholeInv /\ StoppedInv /\ [Next]_vars => WholeInv' /\ StoppedInv'
  BY WholeStep, StoppedStep
<1>3. TypeOK /\ WholeInv /\ StoppedInv
        => [(LastLine \/ \E method \in {"next", "readlines"} : StartCall(method))
              => (result'.method = "stop" => committed /\ pos >= produced)]_vars
  BY StopStep
<1> QED BY <1>1, <1>2, <1>3, TypeCorrect, PTL DEF Spec, StopMeansEnd

-----------------------------------------------------------------------------
(* The wrapper is a file object                                             *)

(* What a line call has moved to its local variable has no newline.         *)
PartialInv == InLine => ~HasLine(out)

LEMMA PartialStep ==
  ASSUME TypeOK, WholeInv, PartialInv, [Next]_vars PROVE PartialInv'
<1> USE DEF file, InLine, Iterating
<1>0. out \in Seq(Byte) /\ buffer \in Seq(Byte) /\ ~HasLine(<<>>)
  BY EmptySeq DEF TypeOK, HasLine
<1>1. ASSUME out' = <<>> PROVE PartialInv'
  BY <1>0, <1>1 DEF PartialInv, HasLine
<1>2. CASE FillBuffer
  <2>1. /\ Len(out) \in Nat /\ Len(buffer) \in Nat
        /\ DOMAIN out = 1..Len(out) /\ DOMAIN buffer = 1..Len(buffer)
        /\ DOMAIN (out \o buffer) = 1..(Len(out) + Len(buffer))
        /\ \A i \in 1..(Len(out) + Len(buffer)) :
             (out \o buffer)[i] = IF i <= Len(out) THEN out[i] ELSE buffer[i - Len(out)]
    BY <1>0, LenProperties, ConcatProperties
  <2>2. ~HasLine(out) /\ ~HasLine(buffer) /\ out' = out \o buffer
    BY <1>2 DEF FillBuffer, PartialInv
  <2>3. ASSUME NEW i \in 1..(Len(out) + Len(buffer)) PROVE (out \o buffer)[i] # NL
    <3>1. CASE i <= Len(out)
      <4>1. i \in DOMAIN out /\ (out \o buffer)[i] = out[i]
        BY <2>1, <3>1
      <4> QED BY <2>2, <4>1 DEF HasLine
    <3>2. CASE ~(i <= Len(out))
      <4>1. i - Len(out) \in DOMAIN buffer /\ (out \o buffer)[i] = buffer[i - Len(out)]
        BY <2>1, <3>2
      <4> QED BY <2>2, <4>1 DEF HasLine
    <3> QED BY <3>1, <3>2
  <2> QED BY <2>1, <2>2, <2>3 DEF PartialInv, HasLine
<1>3. ASSUME NEW method \in Calls, StartCall(method) PROVE PartialInv'
  BY <1>0, <1>3 DEF StartCall, WholeInv, PartialInv, HasLine
<1>4. CASE Produce \/ Commit \/ UNCHANGED vars
  BY <1>4 DEF Produce, Commit, vars, PartialInv, HasLine
<1>5. CASE TakeLine \/ LastLine \/ ReadAllEnd \/ ReadAllFails
  BY <1>1, <1>5 DEF TakeLine, LastLine, ReadAllEnd, ReadAllFails
<1>6. CASE ReadAllMore
  BY <1>6 DEF ReadAllMore, PartialInv
<1>7. ASSUME UNCHANGED <<call, out>> PROVE PartialInv'
  BY <1>7 DEF PartialInv, HasLine
<1>8. CASE \/ \E size \in ReadSizes : ReadSize(size)
           \/ ReadNegative
           \/ \E offset \in Offsets : Seek(offset)
  BY <1>7, <1>8 DEF ReadSize, ReadNegative, Seek
<1> QED BY <1>2, <1>3, <1>4, <1>5, <1>6, <1>8 DEF Next, CallStep

(* A line of the abstract file object: the first newline of what follows    *)
(* the position is its last byte, or there is none and the file ends.       *)
LEMMA LineIsLine ==
  ASSUME TypeOK, ~HasLine(out), NEW nl \in 0..Len(buffer),
         \A i \in 1..(nl - 1) : buffer[i] # NL,
         \/ nl > 0 /\ buffer[nl] = NL
         \/ /\ nl > 0 => buffer[nl] # NL
            /\ committed /\ pos + Len(out \o SubSeq(buffer, 1, nl)) >= produced
  PROVE  Abstract!IsLine(out \o SubSeq(buffer, 1, nl))
<1> DEFINE first == SubSeq(buffer, 1, nl)
           line == out \o first
<1>1. /\ out \in Seq(Byte) /\ buffer \in Seq(Byte)
      /\ Len(out) \in Nat /\ Len(buffer) \in Nat /\ nl \in Nat
      /\ DOMAIN out = 1..Len(out)
  BY LenProperties DEF TypeOK
<1>2. first \in Seq(Byte) /\ Len(first) = nl /\ \A i \in 1..nl : first[i] = buffer[i]
  <2>1. \A i \in 1..nl : buffer[i] \in Byte
    BY <1>1, ElementOfSeq
  <2> QED BY <1>1, <2>1, Split, SubSeqProperties
<1> HIDE DEF first
<1>3. /\ line \in Seq(Byte) /\ Len(line) = Len(out) + nl
      /\ \A i \in 1..(Len(out) + nl) :
           line[i] = IF i <= Len(out) THEN out[i] ELSE first[i - Len(out)]
  <2>1. /\ out \in Seq(Byte) /\ first \in Seq(Byte)
        /\ Len(first) = nl
    BY <1>1, <1>2
  <2>2. /\ line \in Seq(Byte) /\ Len(line) = Len(out) + Len(first)
        /\ \A i \in 1..(Len(out) + Len(first)) :
             line[i] = IF i <= Len(out) THEN out[i] ELSE first[i - Len(out)]
    BY ONLY <2>1, ConcatProperties
  <2> QED BY ONLY <2>1, <2>2
<1> HIDE DEF line
<1>4. ASSUME NEW i \in 1..(Len(line) - 1) PROVE line[i] # NL
  <2>1. CASE i <= Len(out)
    <3>1. i \in DOMAIN out /\ line[i] = out[i]
      BY <1>1, <1>3, <2>1
    <3> QED BY <3>1 DEF HasLine
  <2>2. CASE ~(i <= Len(out))
    <3>1. i - Len(out) \in 1..(nl - 1) /\ i - Len(out) \in 1..nl
          /\ line[i] = first[i - Len(out)]
      BY <1>1, <1>3, <2>2
    <3> QED BY <1>2, <3>1
  <2> QED BY <2>1, <2>2
<1>5. ASSUME nl > 0, buffer[nl] = NL PROVE line # <<>> /\ line[Len(line)] = NL
  <2>1. Len(line) \in 1..(Len(out) + nl) /\ ~(Len(line) <= Len(out))
        /\ Len(line) - Len(out) = nl /\ nl \in 1..nl
    BY <1>1, <1>3, <1>5
  <2>2. line[Len(line)] = buffer[nl]
    BY <1>2, <1>3, <2>1
  <2>3. line # <<>>
    BY <2>1, <1>1, <1>5, EmptySeq
  <2> QED BY <1>5, <2>2, <2>3
<1> QED BY <1>4, <1>5 DEF Abstract!IsLine, line, first

(* A line that a line call returns, or the stop in place of an empty one,   *)
(* is a step of the abstract file object.                                   *)
LEMMA LineReadImplements ==
  ASSUME TypeOK, InOrder, Located, UNCHANGED file,
         NEW line \in Seq(Byte), NEW rest \in Seq(Byte), line \o rest = out \o buffer,
         LineRead(line), Abstract!IsLine(line),
         line = <<>> => committed /\ pos >= produced
  PROVE  Abstract!Next
<1>1. /\ Len(line) \in 0..Len(Abstract!Rest)
      /\ SubSeq(Abstract!Rest, 1, Len(line)) = line
  BY HeldIsRest
<1>2. ASSUME NEW method, Returns(method, line) PROVE Abstract!Returns(method, line)
  BY <1>2 DEF Returns, Abstract!Returns, file
<1>3. line # <<>> => Len(line) > 0
  BY EmptySeq, LenProperties
<1>4. CASE call = "readline" /\ Returns("readline", line)
  <2>1. Abstract!Line("readline")
    BY <1>1, <1>2, <1>4 DEF Abstract!Line
  <2> QED BY <2>1 DEF Abstract!Next
<1>5. CASE line # <<>> /\ Returns("next", line)
  <2>1. Abstract!Line("next")
    BY <1>1, <1>2, <1>3, <1>5 DEF Abstract!Line
  <2> QED BY <2>1 DEF Abstract!Next
<1>6. CASE line = <<>> /\ Returns("stop", <<>>)
  <2>1. Abstract!Stop
    BY <1>6 DEF Abstract!Stop, Abstract!AtEnd, Returns, Abstract!Returns, file
  <2> QED BY <2>1 DEF Abstract!Next
<1> QED BY <1>4, <1>5, <1>6 DEF LineRead

LEMMA ImplementsStep ==
  ASSUME Careful, ~NegativeSizes, ~ReadMayFail,
         TypeOK, WholeInv, StoppedInv, PartialInv, [Next]_vars
  PROVE  [Abstract!Next]_(Abstract!vars)
<1> USE DEF file
<1>0. /\ out \in Seq(Byte) /\ buffer \in Seq(Byte) /\ <<>> \in Seq(Byte)
      /\ Located /\ InOrder
      /\ pos \in Nat /\ off \in Nat /\ produced \in Nat
      /\ committed \in BOOLEAN /\ (committed => produced = Len(content))
  BY EmptySeq DEF TypeOK, WholeInv
<1>1. CASE Produce
  <2>1. ~committed
    BY <1>0, <1>1 DEF Produce
  <2> QED BY <1>1, <2>1 DEF Produce, Abstract!Produce, Abstract!Next
<1>2. CASE Commit
  BY <1>2 DEF Commit, Abstract!Commit, Abstract!Next
<1>3. ASSUME UNCHANGED <<content, produced, committed, pos, result>>
      PROVE  [Abstract!Next]_(Abstract!vars)
  BY <1>3 DEF Abstract!vars
<1>4. ASSUME NEW method \in Calls, StartCall(method) PROVE [Abstract!Next]_(Abstract!vars)
  <2>1. CASE exhausted /\ Returns("stop", <<>>)
    <3>1. Abstract!Stop
      BY <1>4, <2>1
      DEF StartCall, StoppedInv, Abstract!Stop, Abstract!AtEnd, Returns, Abstract!Returns
    <3> QED BY <3>1 DEF Abstract!Next
  <2>2. CASE UNCHANGED <<pos, result>>
    BY <1>3, <1>4, <2>2 DEF StartCall
  <2> QED BY <1>4, <2>1, <2>2 DEF StartCall
<1>5. CASE TakeLine
  <2>1. PICK nl \in DOMAIN buffer :
          EndsFirstLine(buffer, nl) /\ LineRead(out \o SubSeq(buffer, 1, nl))
    BY <1>5 DEF TakeLine
  <2> DEFINE first == SubSeq(buffer, 1, nl)
             rest == SubSeq(buffer, nl + 1, Len(buffer))
  <2>2. nl \in 0..Len(buffer) /\ nl > 0
    BY <1>0, LenProperties
  <2>3. first \in Seq(Byte) /\ rest \in Seq(Byte) /\ first \o rest = buffer
    BY <1>0, <2>2, Split
  <2>4. out \o first \in Seq(Byte) /\ out \o first # <<>>
    BY LineNotEmpty
  <2>5. Abstract!IsLine(out \o first)
    <3>1. ~HasLine(out) /\ buffer[nl] = NL /\ \A i \in 1..(nl - 1) : buffer[i] # NL
      BY <1>5, <2>1 DEF TakeLine, PartialInv, EndsFirstLine
    <3> QED BY <2>2, <3>1, LineIsLine
  <2>6. LineRead(out \o first) /\ UNCHANGED file
    BY <1>5, <2>1 DEF TakeLine
  <2> HIDE DEF first, rest
  <2>7. (out \o first) \o rest = out \o buffer
    <3>1. out \in Seq(Byte) /\ first \in Seq(Byte) /\ rest \in Seq(Byte)
      BY <1>0, <2>3
    <3>2. (out \o first) \o rest = out \o (first \o rest)
      BY ONLY <3>1, ConcatAssociative
    <3> QED BY <2>3, <3>2
  <2> QED BY <1>0, <2>3, <2>4, <2>5, <2>6, <2>7, LineReadImplements
<1>6. CASE LastLine
  <2>1. LineRead(out \o buffer) /\ ~HasLine(buffer) /\ ~HasLine(out) /\ UNCHANGED file
    BY <1>6 DEF LastLine, PartialInv
  <2>2. committed /\ off >= produced
    <3>1. PICK answer \in Answers(Chunk) : answer.n <= 0
      BY <1>6 DEF LastLine
    <3>2. answer.n \in Int /\ (answer.n < 0 => ReadMayFail)
          /\ (answer.n = 0 => committed /\ off >= produced)
      BY ConstantsAssumption, AnswerProperties
    <3> QED BY <3>1, <3>2
  <2>3. out \o buffer \in Seq(Byte) /\ (out \o buffer) \o <<>> = out \o buffer
    BY <1>0, ConcatProperties, ConcatEmptySeq
  <2>4. pos + Len(out \o buffer) = off
    BY <1>0, <2>3, HeldIsRest
  <2>5. Abstract!IsLine(out \o buffer)
    <3>1. Len(buffer) \in 0..Len(buffer) /\ DOMAIN buffer = 1..Len(buffer)
          /\ Len(buffer) \in Nat
      BY <1>0, LenProperties
    <3>2. SubSeq(buffer, 1, Len(buffer)) = buffer
      BY <1>0, SubSeqFull
    <3>3. \A i \in 1..Len(buffer) : buffer[i] # NL
      BY <2>1, <3>1 DEF HasLine
    <3>4. (\A i \in 1..(Len(buffer) - 1) : buffer[i] # NL)
          /\ (Len(buffer) > 0 => buffer[Len(buffer)] # NL)
      BY <3>1, <3>3
    <3>5. pos + Len(out \o SubSeq(buffer, 1, Len(buffer))) >= produced
      BY <2>2, <2>4, <3>2
    <3> QED BY <2>1, <2>2, <3>1, <3>2, <3>4, <3>5, LineIsLine
  <2>6. out \o buffer = <<>> => committed /\ pos >= produced
    BY <1>6, StopAtEnd
  <2> QED BY <1>0, <2>1, <2>3, <2>5, <2>6, LineReadImplements
<1>7. CASE FillBuffer \/ ReadAllMore
  BY <1>3, <1>7 DEF FillBuffer, ReadAllMore
<1>8. CASE ReadAllEnd
  <2>1. committed /\ off >= produced
    <3>1. PICK answer \in Answers(Chunk) : answer.n = 0
      BY <1>8 DEF ReadAllEnd
    <3> QED BY <3>1, ConstantsAssumption, AnswerProperties
  <2>2. out = SubSeq(content, pos + 1, off)
    BY <1>8, ReadAllBytes DEF ReadAllEnd
  <2>3. out = Abstract!Rest
    <3>1. CASE off <= produced
      <4>1. off = produced
        BY <1>0, <2>1, <3>1
      <4> QED BY <2>2, <4>1 DEF Abstract!Rest
    <3>2. CASE pos = off
      <4>1. /\ pos + 1 \in Int /\ off \in Int /\ produced \in Int
            /\ off < pos + 1 /\ produced < pos + 1
        BY <1>0, <2>1, <3>2
      <4>2. SubSeq(content, pos + 1, off) = <<>> /\ SubSeq(content, pos + 1, produced) = <<>>
        BY <4>1, SubSeqEmpty
      <4> QED BY <2>2, <4>2 DEF Abstract!Rest
    <3> QED BY <1>0, <3>1, <3>2 DEF Located
  <2>4. Abstract!ReadAll
    BY <1>8, <2>1, <2>3 DEF ReadAllEnd, Returns, Abstract!ReadAll, Abstract!Returns
  <2> QED BY <2>4 DEF Abstract!Next
<1>9. CASE ReadAllFails
  BY <1>9, ConstantsAssumption, AnswerProperties DEF ReadAllFails
<1>10. CASE UNCHANGED vars
  BY <1>3, <1>10 DEF vars
<1>11. ASSUME NEW size \in ReadSizes, ReadSize(size) PROVE Abstract!Next
  <2>1. pos = off /\ UNCHANGED <<content, produced, committed>>
    BY <1>11, ReadSizeBytes
  <2>2. Abstract!ReadSize(size)
    <3>1. ASSUME NEW n \in 1..size, off + n <= produced,
                 Returns("read", SubSeq(content, off + 1, off + n))
          PROVE  Abstract!ReadSize(size)
      <4>1. n \in Nat /\ pos + n <= produced
        BY <2>1, <3>1, ConstantsAssumption
      <4>2. n <= Len(Abstract!Rest)
        BY <4>1, NextIsRest
      <4>3. SubSeq(Abstract!Rest, 1, n) = SubSeq(content, off + 1, off + n)
        BY <2>1, <4>1, NextIsRest
      <4>4. Abstract!Returns("read", SubSeq(Abstract!Rest, 1, n))
        BY <2>1, <3>1, <4>3 DEF Returns, Abstract!Returns
      <4> QED BY <4>2, <4>4 DEF Abstract!ReadSize
    <3>2. ASSUME committed, off >= produced, Returns("read", <<>>)
          PROVE  Abstract!ReadSize(size)
      BY <2>1, <3>2 DEF Returns, Abstract!Returns, Abstract!ReadSize, Abstract!AtEnd
    <3> QED BY <1>11, <3>1, <3>2, ReadSizeBytes
  <2> QED BY <2>2 DEF Abstract!Next
<1>12. ASSUME NEW offset \in Offsets, Seek(offset) PROVE Abstract!Next
  BY <1>12
  DEF Seek, Returns, Abstract!Returns, Abstract!Seek, Abstract!SeekFails, Abstract!Next
<1> QED
  BY <1>1, <1>2, <1>4, <1>5, <1>6, <1>7, <1>8, <1>9, <1>10, <1>11, <1>12
  DEF Next, CallStep, ReadNegative

(* IOWrapper is a file object: in whatever order its caller mixes read(),   *)
(* read(size), readline(), iteration, readlines() and seek, on a file still *)
(* being produced, past its end too, and however CAPIO cuts its answers,    *)
(* each result is one that FileObject gives for the bytes after the         *)
(* caller's position. Of read(size) and seek those with nothing read ahead, *)
(* no seek after an end of iteration, and no read that fails: each of these *)
(* breaks it.                                                               *)
THEOREM Refinement ==
  ASSUME Careful, ~NegativeSizes, ~ReadMayFail
  PROVE  Spec => ImplementsFileObject
<1> DEFINE Inv == WholeInv /\ StoppedInv /\ PartialInv
<1>1. ASSUME Init PROVE Inv
  <2>1. <<>> \o <<>> = <<>>
    BY EmptySeq, ConcatEmptySeq
  <2>2. SubSeq(content, 1, 0) = <<>>
    BY SubSeqEmpty
  <2>3. WholeInv /\ StoppedInv
    BY <1>1, <2>1, <2>2 DEF Init, WholeInv, InOrder, Located, StoppedInv
  <2>4. PartialInv
    BY <1>1 DEF Init, PartialInv, InLine, Iterating
  <2> QED BY <2>3, <2>4
<1>2. TypeOK /\ Inv /\ [Next]_vars => Inv'
  BY WholeStep, StoppedStep, PartialStep
<1>3. Init /\ TypeOK => Abstract!Init
  BY DEF Init, TypeOK, Abstract!Init
<1>4. TypeOK /\ Inv /\ [Next]_vars => [Abstract!Next]_(Abstract!vars)
  BY ImplementsStep
<1> QED
  BY <1>1, <1>2, <1>3, <1>4, TypeCorrect, PTL
  DEF Spec, ImplementsFileObject, Abstract!Spec

-----------------------------------------------------------------------------
(* The pieces a caller gets                                                 *)

(* Each value that a method returns is the piece of the file that begins    *)
(* where the last one ended, or where the caller has sought: put together,  *)
(* they are the file.                                                       *)
PiecesOfTheFile ==
  [][result'.method # "seek" /\ <<pos, result>>' # <<pos, result>>
       => /\ pos' = pos + Len(result'.value)
          /\ result'.value = SubSeq(content, pos + 1, pos')]_vars

(* What comes next is a piece of the file, at its end and beyond as well.   *)
LEMMA NextIsPiece ==
  ASSUME TypeOK, NEW n \in 0..Len(Abstract!Rest)
  PROVE  /\ Len(SubSeq(Abstract!Rest, 1, n)) = n
         /\ SubSeq(Abstract!Rest, 1, n) = SubSeq(content, pos + 1, pos + n)
<1>1. pos \in Nat /\ produced \in Nat
  BY DEF TypeOK
<1>2. Len(SubSeq(Abstract!Rest, 1, n)) = n
  BY RestLength, Split
<1>3. CASE pos <= produced
  <2>1. n \in Nat /\ pos + n <= produced
    BY <1>1, <1>3, RestLength
  <2> QED BY <1>2, <2>1, NextIsRest
<1>4. CASE ~(pos <= produced)
  <2>1. n = 0
    BY <1>4, RestLength
  <2>2. SubSeq(Abstract!Rest, 1, 0) = <<>> /\ SubSeq(content, pos + 1, pos + 0) = <<>>
    <3>1. PICK m \in Int, k \in Int : m = pos + 1 /\ k = pos + 0 /\ k < m
      BY <1>1
    <3>2. SubSeq(content, m, k) = <<>>
      BY <3>1, SubSeqEmpty
    <3>3. SubSeq(Abstract!Rest, 1, 0) = <<>>
      BY SubSeqEmpty
    <3> QED BY <3>1, <3>2, <3>3
  <2> QED BY <1>2, <2>1, <2>2
<1> QED BY <1>3, <1>4

(* A file object gives the file piece by piece.                             *)
LEMMA PieceStep ==
  ASSUME TypeOK, [Abstract!Next]_(Abstract!vars),
         result'.method # "seek", <<pos, result>>' # <<pos, result>>
  PROVE  /\ pos' = pos + Len(result'.value)
         /\ result'.value = SubSeq(content, pos + 1, pos')
<1> DEFINE rest == Abstract!Rest
<1>1. ASSUME NEW n \in 0..Len(rest), NEW method,
             Abstract!Returns(method, SubSeq(rest, 1, n))
      PROVE  /\ pos' = pos + Len(result'.value)
             /\ result'.value = SubSeq(content, pos + 1, pos')
  <2>1. result'.value = SubSeq(rest, 1, n) /\ pos' = pos + Len(SubSeq(rest, 1, n))
    BY <1>1 DEF Abstract!Returns
  <2>2. /\ Len(SubSeq(rest, 1, n)) = n
        /\ SubSeq(rest, 1, n) = SubSeq(content, pos + 1, pos + n)
    BY NextIsPiece
  <2> HIDE DEF rest
  <2> QED BY <2>1, <2>2
<1>2. /\ 0 \in 0..Len(rest) /\ <<>> = SubSeq(rest, 1, 0)
      /\ Len(rest) \in 0..Len(rest) /\ rest = SubSeq(rest, 1, Len(rest))
  <2>1. PICK r \in Seq(Byte) : r = rest
    BY RestLength
  <2>2. Len(r) \in Nat /\ SubSeq(r, 1, 0) = <<>> /\ SubSeq(r, 1, Len(r)) = r
    BY LenProperties, SubSeqEmpty, SubSeqFull
  <2> QED BY <2>1, <2>2
<1>3. CASE Abstract!Produce \/ Abstract!Commit \/ UNCHANGED Abstract!vars
  BY <1>3 DEF Abstract!Produce, Abstract!Commit, Abstract!vars
<1>4. CASE \E method \in {"readline", "next"} : Abstract!Line(method)
  <2>1. PICK method \in {"readline", "next"}, n \in 0..Len(rest) :
          Abstract!Returns(method, SubSeq(rest, 1, n))
    BY <1>4 DEF Abstract!Line
  <2> QED BY <1>1, <2>1
<1>5. CASE Abstract!Stop
  <2>1. Abstract!Returns("stop", SubSeq(rest, 1, 0))
    BY <1>2, <1>5 DEF Abstract!Stop
  <2> QED BY <1>1, <1>2, <2>1
<1>6. CASE Abstract!ReadAll
  <2>1. Abstract!Returns("read", SubSeq(rest, 1, Len(rest)))
    BY <1>2, <1>6 DEF Abstract!ReadAll
  <2> QED BY <1>1, <1>2, <2>1
<1>7. CASE \E size \in ReadSizes : Abstract!ReadSize(size)
  <2>1. PICK size \in ReadSizes : Abstract!ReadSize(size)
    BY <1>7
  <2>2. CASE Abstract!AtEnd /\ Abstract!Returns("read", <<>>)
    <3>1. Abstract!Returns("read", SubSeq(rest, 1, 0))
      BY <1>2, <2>2
    <3> QED BY <1>1, <1>2, <3>1
  <2>3. ASSUME NEW n \in 1..size, n <= Len(rest),
               Abstract!Returns("read", SubSeq(rest, 1, n))
        PROVE  n \in 0..Len(rest)
    BY <1>2, <2>3
  <2> QED BY <1>1, <2>1, <2>2, <2>3 DEF Abstract!ReadSize
<1>8. CASE \E offset \in Offsets : Abstract!Seek(offset)
  BY <1>8 DEF Abstract!Seek
<1>9. CASE Abstract!SeekFails
  <2>1. Abstract!Returns("seek_error", SubSeq(rest, 1, 0))
    BY <1>2, <1>9 DEF Abstract!SeekFails
  <2> QED BY <1>1, <1>2, <2>1
<1> QED BY <1>3, <1>4, <1>5, <1>6, <1>7, <1>8, <1>9 DEF Abstract!Next

(* A caller that mixes all methods, reads by size and seeks with nothing    *)
(* read ahead only, gets the file piece by piece while it is produced,      *)
(* however CAPIO cuts its answers, if no read fails. Of another caller, and *)
(* after errors, pieces may be lost.                                        *)
THEOREM PiecesOfTheFileCorrect ==
  ASSUME Careful, ~NegativeSizes, ~ReadMayFail
  PROVE  Spec => PiecesOfTheFile
<1>1. Spec => ImplementsFileObject
  BY Refinement
<1>2. TypeOK /\ [Abstract!Next]_(Abstract!vars) /\ [Next]_vars
      => [result'.method # "seek" /\ <<pos, result>>' # <<pos, result>>
            => /\ pos' = pos + Len(result'.value)
               /\ result'.value = SubSeq(content, pos + 1, pos')]_vars
  BY PieceStep
<1> QED
  BY <1>1, <1>2, TypeCorrect, PTL
  DEF Spec, ImplementsFileObject, Abstract!Spec, PiecesOfTheFile

=============================================================================
