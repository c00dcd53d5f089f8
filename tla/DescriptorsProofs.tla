--------------------------- MODULE DescriptorsProofs ---------------------------
(***************************************************************************)
(* Theorems about Descriptors: every open descriptor has exactly one       *)
(* owner, a wrapper writes to its own file only and all that it says it    *)
(* wrote, and a listing is complete, for any number of objects, files and  *)
(* descriptors.                                                            *)
(***************************************************************************)
EXTENDS Descriptors, TLAPS, SequenceTheorems, FiniteSetTheorems

Value == Wrapper \cup Iterator \cup {Nothing}

-----------------------------------------------------------------------------
(* Lemmas about the values of the state                                     *)

LEMMA DotsCardinality == Cardinality(Dots) = 2
  <1>1. IsFiniteSet({1}) /\ Cardinality({1}) = 1
    BY FS_Singleton
  <1>2. Cardinality({1} \cup {2}) = 2
    BY <1>1, FS_AddElement
  <1>3. {1} \cup {2} = Dots
    BY DEF Dots
  <1> QED
    BY <1>2, <1>3

LEMMA NotNothing ==
  ASSUME NEW v \in Wrapper \cup Iterator \cup Call
  PROVE  v # Nothing
  BY ConstantsAssumption DEF ConstantsAssumption

(* The kind of a value tells what it is.                                    *)
LEMMA Kinds ==
  ASSUME NEW v \in Value, v # Nothing
  PROVE  /\ v.kind = "file" => v \in Wrapper
         /\ v.kind # "file" => v \in Iterator
  <1>1. v \in Wrapper => v.kind = "file"
    BY DEF Wrapper
  <1>2. v \in Iterator => v.kind # "file"
    BY DEF Iterator
  <1> QED
    BY <1>1, <1>2 DEF Value

LEMMA NewWrapperType ==
  ASSUME NEW p \in File, NEW fd \in Fd \cup {NoFd}
  PROVE  NewWrapper(p, fd) \in Wrapper
  BY DEF NewWrapper, Wrapper

LEMMA ClosedType ==
  ASSUME NEW v \in Wrapper
  PROVE  [v EXCEPT !.closed = TRUE] \in Wrapper
  BY DEF Wrapper

LEMMA NewIteratorType ==
  ASSUME NEW kind \in {"scandir", "listdir"}, NEW fd \in Fd
  PROVE  NewIterator(kind, fd) \in Iterator
  <1>1. <<>> \in Seq(0..MaxEntries)
    BY EmptySeq
  <1> QED
    BY <1>1 DEF NewIterator, Iterator

LEMMA FinishedType ==
  ASSUME NEW v \in Iterator, NEW b \in BOOLEAN
  PROVE  [v EXCEPT !.finished = b] \in Iterator
  BY DEF Iterator

LEMMA DroppedType ==
  ASSUME NEW v \in Iterator, v.kind = "scandir"
  PROVE  [v EXCEPT !.fd = NoFd] \in Iterator
  BY DEF Iterator

LEMMA ListedType ==
  ASSUME NEW v \in Iterator, NEW entry \in 0..MaxEntries
  PROVE  [v EXCEPT !.listed = IF Len(@) < MaxEntries THEN Append(@, entry) ELSE @] \in Iterator
  <1> DEFINE l == IF Len(v.listed) < MaxEntries THEN Append(v.listed, entry) ELSE v.listed
  <1>1. v.listed \in Seq(0..MaxEntries)
    BY DEF Iterator
  <1>2. Append(v.listed, entry) \in Seq(0..MaxEntries)
    BY <1>1, AppendProperties
  <1>3. l \in Seq(0..MaxEntries)
    BY <1>1, <1>2
  <1> HIDE DEF l
  <1>4. [v EXCEPT !.listed = l] \in Iterator
    BY <1>3 DEF Iterator
  <1> QED
    BY <1>4 DEF l

-----------------------------------------------------------------------------
(* Type correctness                                                         *)

(* A method that writes has a line left to write.                           *)
LinesLeft == \A o \in Object : InWrite(o) => call.left >= 1

TypeInv == TypeOK /\ LinesLeft

LEMMA TypeInit == Init => TypeInv
  <1> SUFFICES ASSUME Init PROVE TypeInv
    OBVIOUS
  <1>1. opened \in [Fd -> Path \cup {NoPath}] /\ object \in [Object -> Value]
    BY DEF Init, Value
  <1>2. entries \in Cardinality(Dots)..MaxEntries
    BY ConstantsAssumption, DotsCardinality DEF Init, ConstantsAssumption
  <1>3. cursor \in [Fd -> 0..entries]
    BY <1>2, DotsCardinality DEF Init
  <1>4. contents \in [File -> Seq(Line)] /\ acked \in [File -> Nat]
    <2>1. <<>> \in Seq(Line)
      BY EmptySeq
    <2> QED
      BY <2>1 DEF Init
  <1>5. call \in Call \cup {Nothing} /\ LinesLeft
    BY DEF Init, LinesLeft, InWrite, Idle
  <1> QED
    BY <1>1, <1>2, <1>3, <1>4, <1>5 DEF TypeInv, TypeOK, Value

(* What the parts of the state contribute to TypeInv, and the steps on a    *)
(* descriptor.                                                              *)
LEMMA ValueOf ==
  ASSUME TypeOK, NEW o \in Object
  PROVE  object[o] \in Value
  BY DEF TypeOK, Value

LEMMA IteratorOf ==
  ASSUME TypeOK, NEW o \in Object, IsIterator(o)
  PROVE  object[o] \in Iterator
  BY ValueOf, Kinds DEF IsIterator

LEMMA WrapperOf ==
  ASSUME TypeOK, NEW o \in Object, IsWrapper(o)
  PROVE  object[o] \in Wrapper
  BY ValueOf, Kinds DEF IsWrapper

LEMMA OpensType ==
  ASSUME TypeOK, NEW fd \in Free, NEW p \in Path, Opens(fd, p)
  PROVE  /\ opened' \in [Fd -> Path \cup {NoPath}]
         /\ cursor' \in [Fd -> 0..entries]
  <1>1. 0 \in 0..entries
    BY DotsCardinality, ConstantsAssumption DEF TypeOK, ConstantsAssumption
  <1> QED
    BY <1>1 DEF TypeOK, Opens, Free

LEMMA CloseType ==
  ASSUME TypeOK, NEW fd \in Fd \cup {NoFd}, libcapio_close(fd)
  PROVE  opened' \in [Fd -> Path \cup {NoPath}]
  BY DEF TypeOK, libcapio_close

LEMMA ObjectType ==
  ASSUME TypeOK, NEW o \in Object, NEW v \in Value, object' = [object EXCEPT ![o] = v]
  PROVE  object' \in [Object -> Value]
  BY DEF TypeOK, Value

LEMMA FdOf ==
  ASSUME TypeOK, NEW o \in Object, IsWrapper(o) \/ IsIterator(o)
  PROVE  object[o].fd \in Fd \cup {NoFd}
  <1>1. CASE IsWrapper(o)
    BY <1>1, WrapperOf DEF Wrapper
  <1>2. CASE IsIterator(o)
    BY <1>2, IteratorOf DEF Iterator
  <1> QED
    BY <1>1, <1>2

(* The steps that leave no method under way, on the objects and what is     *)
(* open, with the rest unchanged.                                           *)
LEMMA IdleStepType ==
  ASSUME TypeInv,
         object' \in [Object -> Value],
         opened' \in [Fd -> Path \cup {NoPath}],
         cursor' \in [Fd -> 0..entries],
         call' = Nothing,
         UNCHANGED <<entries, contents, acked>>
  PROVE  TypeInv'
  BY DEF TypeInv, TypeOK, LinesLeft, InWrite, Idle, Value

LEMMA WriteType ==
  ASSUME TypeInv, NEW o \in Object, Write(o)
  PROVE  TypeInv'
  <1>1. InWrite(o) /\ UNCHANGED <<opened, cursor, object, entries>>
    BY DEF Write
  <1>2. object[o].path \in File
    BY <1>1, WrapperOf DEF TypeInv, InWrite, Wrapper
  <1>3. call \in Call /\ call.of = o /\ call.left \in 1..MaxLines /\ call.asked \in 0..MaxLines
    BY <1>1 DEF TypeInv, TypeOK, LinesLeft, InWrite, Idle, Call
  <1>4. ASSUME NEW whole \in BOOLEAN, NEW p, Reaches(o, p, whole)
        PROVE  contents' \in [File -> Seq(Line)]
    <2>1. [meant |-> object[o].path, whole |-> whole] \in Line
      BY <1>2 DEF Line
    <2>2. p \in File /\ contents[p] \in Seq(Line)
      BY <1>4 DEF Reaches, TypeInv, TypeOK
    <2>3. Append(contents[p], [meant |-> object[o].path, whole |-> whole]) \in Seq(Line)
      BY <2>1, <2>2, AppendProperties
    <2> QED
      BY <1>4, <2>3 DEF Reaches, TypeInv, TypeOK
  <1>5. CASE Reaches(o, Target(object[o].fd), TRUE) /\ NextLine(o)
    <2>1. contents' \in [File -> Seq(Line)]
      BY <1>4, <1>5
    <2>2. acked' \in [File -> Nat]
      BY <1>5, <1>2, <1>3 DEF NextLine, TypeInv, TypeOK
    <2>3. /\ call' \in Call \cup {Nothing}
          /\ call' # Nothing => call'.left >= 1
      <3>1. CASE call.left = 1
        BY <1>5, <3>1 DEF NextLine
      <3>2. CASE call.left # 1
        BY <1>3, <1>5, <3>2, ConstantsAssumption DEF NextLine, Call, ConstantsAssumption
      <3> QED
        BY <3>1, <3>2
    <2> QED
      BY <1>1, <2>1, <2>2, <2>3 DEF TypeInv, TypeOK, LinesLeft, InWrite, Idle
  <1>6. CASE Raises(o)
    <2>1. contents' \in [File -> Seq(Line)]
      <3>1. CASE Reaches(o, Target(object[o].fd), FALSE)
        BY <1>4, <3>1
      <3>2. CASE UNCHANGED contents
        BY <3>2 DEF TypeInv, TypeOK
      <3> QED
        BY <1>6, <3>1, <3>2 DEF Raises
    <2> QED
      BY <1>1, <1>6, <2>1 DEF TypeInv, TypeOK, LinesLeft, InWrite, Idle, Raises
  <1> QED
    BY <1>5, <1>6 DEF Write

LEMMA WrapperStepType ==
  ASSUME TypeInv, NEW o \in Object, WrapperNext(o)
  PROVE  TypeInv'
  <1> USE DEF TypeInv
  <1>1. ASSUME NEW p \in File, OpenFile(o, p) PROVE TypeInv'
    <2>1. Idle /\ UNCHANGED <<call, entries, contents, acked>>
      BY <1>1 DEF OpenFile
    <2>2. ASSUME NEW fd \in Free, Opens(fd, p), object' = [object EXCEPT ![o] = NewWrapper(p, fd)]
          PROVE  TypeInv'
      <3>1. NewWrapper(p, fd) \in Value
        BY NewWrapperType DEF Value, Free
      <3>2. p \in Path
        BY DEF Path
      <3> QED
        BY <2>1, <2>2, <3>1, <3>2, ObjectType, OpensType, IdleStepType DEF Idle
    <2>3. ASSUME object' = [object EXCEPT ![o] = NewWrapper(p, NoFd)], UNCHANGED <<opened, cursor>>
          PROVE  TypeInv'
      <3>1. NewWrapper(p, NoFd) \in Value
        BY NewWrapperType DEF Value
      <3>2. opened' \in [Fd -> Path \cup {NoPath}] /\ cursor' \in [Fd -> 0..entries]
        BY <2>3 DEF TypeOK
      <3> QED
        BY <2>1, <2>3, <3>1, <3>2, ObjectType, IdleStepType DEF Idle
    <2> QED
      BY <1>1, <2>2, <2>3 DEF OpenFile
  <1>2. CASE StartWrite(o)
    <2>1. PICK lines \in 1..MaxLines : Begins(o, lines)
      BY <1>2 DEF StartWrite
    <2>2. call' \in Call /\ call'.left >= 1
      BY <2>1, ConstantsAssumption DEF Begins, Call, ConstantsAssumption
    <2> QED
      BY <1>2, <2>2 DEF StartWrite, TypeOK, LinesLeft, InWrite
  <1>3. CASE Write(o)
    BY <1>3, WriteType
  <1>4. CASE Close(o)
    <2>1. object[o] \in Wrapper /\ object[o].fd \in Fd \cup {NoFd}
      BY <1>4, WrapperOf, FdOf DEF Close
    <2>2. object' = [object EXCEPT ![o] = [object[o] EXCEPT !.closed = TRUE]]
      BY <1>4 DEF Close
    <2>3. object' \in [Object -> Value]
      BY <2>1, <2>2, ClosedType, ObjectType DEF Value
    <2>4. opened' \in [Fd -> Path \cup {NoPath}]
      <3>1. CASE UNCHANGED opened
        BY <3>1 DEF TypeOK
      <3>2. CASE libcapio_close(object[o].fd)
        BY <3>2, <2>1, CloseType
      <3> QED
        BY <1>4, <3>1, <3>2 DEF Close
    <2>5. cursor' \in [Fd -> 0..entries]
      BY <1>4 DEF Close, TypeOK
    <2> QED
      BY <1>4, <2>3, <2>4, <2>5, IdleStepType DEF Close, Idle
  <1>5. CASE DestroyFile(o)
    <2>1. object[o].fd \in Fd \cup {NoFd}
      BY <1>5, FdOf DEF DestroyFile
    <2>2. object' \in [Object -> Value]
      BY <1>5, ObjectType DEF DestroyFile, Value
    <2>3. opened' \in [Fd -> Path \cup {NoPath}]
      <3>1. CASE UNCHANGED opened
        BY <3>1 DEF TypeOK
      <3>2. CASE libcapio_close(object[o].fd)
        BY <3>2, <2>1, CloseType
      <3> QED
        BY <1>5, <3>1, <3>2 DEF DestroyFile
    <2>4. cursor' \in [Fd -> 0..entries]
      BY <1>5 DEF DestroyFile, TypeOK
    <2> QED
      BY <1>5, <2>2, <2>3, <2>4, IdleStepType DEF DestroyFile, Idle
  <1> QED
    BY <1>1, <1>2, <1>3, <1>4, <1>5 DEF WrapperNext

(* An entry is read through an open descriptor, and is one that is there.   *)
LEMMA EntryThere ==
  ASSUME TypeOK, NEW fd \in Fd \cup {NoFd}, "entry" \in Answers(fd)
  PROVE  fd \in Fd /\ opened[fd] = Directory /\ cursor[fd] < entries
  <1>1. CASE Target(fd) \notin Path \ Foreign
    BY <1>1 DEF Answers
  <1>2. CASE Target(fd) \in Path \ Foreign
    <2>1. fd # NoFd
      BY <1>2, ConstantsAssumption DEF Target, ConstantsAssumption
    <2>2. Target(fd) = Directory /\ cursor[fd] < entries
      BY <1>2 DEF Answers
    <2> QED
      BY <2>1, <2>2 DEF Target
  <1> QED
    BY <1>1, <1>2

LEMMA IteratorStepType ==
  ASSUME TypeInv, NEW o \in Object, IteratorNext(o)
  PROVE  TypeInv'
  <1> USE DEF TypeInv
  <1>1. ASSUME NEW kind \in {"scandir", "listdir"}, Scandir(o, kind) PROVE TypeInv'
    <2>1. PICK fd \in Free : /\ Opens(fd, Directory)
                             /\ object' = [object EXCEPT ![o] = NewIterator(kind, fd)]
      BY <1>1 DEF Scandir
    <2>2. NewIterator(kind, fd) \in Value
      BY NewIteratorType DEF Value, Free
    <2>3. Directory \in Path
      BY DEF Path
    <2> QED
      BY <1>1, <2>1, <2>2, <2>3, ObjectType, OpensType, IdleStepType DEF Scandir, Idle
  <1>2. CASE StartNext(o)
    <2>1. call' \in Call /\ ~IsWrapper(o)
      BY <1>2, ConstantsAssumption
      DEF StartNext, Begins, Call, ConstantsAssumption, IsIterator, IsWrapper
    <2>2. call'.of = o
      BY <1>2 DEF StartNext, Begins
    <2> QED
      BY <1>2, <2>1, <2>2 DEF StartNext, TypeOK, LinesLeft, InWrite, IsWrapper
  <1>3. CASE ReadEntry(o)
    <2> DEFINE fd == object[o].fd
    <2>1. IsIterator(o) /\ ~Idle /\ call.of = o
      BY <1>3 DEF ReadEntry, InNext
    <2>2. fd \in Fd /\ cursor[fd] < entries
      BY <1>3, <2>1, FdOf, EntryThere DEF ReadEntry
    <2>3. cursor[fd] \in Nat /\ entries \in Nat /\ entries <= MaxEntries
      BY <2>2, DotsCardinality, ConstantsAssumption DEF TypeOK, ConstantsAssumption
    <2>4. cursor[fd] + 1 \in 0..entries /\ cursor[fd] + 1 \in 0..MaxEntries
      BY <2>2, <2>3, ConstantsAssumption DEF ConstantsAssumption
    <2>5. cursor' = [cursor EXCEPT ![fd] = cursor[fd] + 1]
          /\ UNCHANGED <<opened, entries, contents, acked>>
      BY <1>3 DEF ReadEntry
    <2>6. cursor' \in [Fd -> 0..entries]
      BY <2>2, <2>4, <2>5 DEF TypeOK
    <2>7. CASE UNCHANGED <<object, call>>
      BY <2>5, <2>6, <2>7 DEF TypeOK, LinesLeft, InWrite, Idle, IsWrapper
    <2>8. CASE Yields(o, cursor[fd] + 1)
      <3>1. object[o] \in Iterator
        BY <2>1, IteratorOf
      <3>2. object' = [object EXCEPT ![o] = [object[o] EXCEPT !.listed =
               IF Len(@) < MaxEntries THEN Append(@, cursor[fd] + 1) ELSE @]]
        BY <2>8 DEF Yields
      <3>3. object' \in [Object -> Value]
        BY <2>4, <3>1, <3>2, ListedType, ObjectType DEF Value
      <3>4. opened' \in [Fd -> Path \cup {NoPath}] /\ call' = Nothing
        BY <2>5, <2>8 DEF TypeOK, Yields
      <3> QED
        BY <2>5, <2>6, <3>3, <3>4, IdleStepType
    <2> QED
      BY <1>3, <2>7, <2>8 DEF ReadEntry
  <1>4. CASE EndOfEntries(o)
    <2>1. IsIterator(o) /\ object[o] \in Iterator
      BY <1>4, IteratorOf DEF EndOfEntries, InNext
    <2>2. UNCHANGED <<opened, cursor, entries, contents, acked>>
      BY <1>4 DEF EndOfEntries
    <2>3. call' = Nothing
      BY <1>4 DEF EndOfEntries, Yields
    <2>4. object' \in [Object -> Value]
      <3>1. ASSUME NEW b \in BOOLEAN, object' = [object EXCEPT ![o].finished = b]
            PROVE  object' \in [Object -> Value]
        <4>1. [object[o] EXCEPT !.finished = b] \in Value
          BY <2>1, FinishedType DEF Value
        <4>2. object' = [object EXCEPT ![o] = [object[o] EXCEPT !.finished = b]]
          BY <3>1
        <4> QED
          BY <4>1, <4>2, ObjectType
      <3>2. CASE Yields(o, 0)
        <4>1. 0 \in 0..MaxEntries
          BY ConstantsAssumption DEF ConstantsAssumption
        <4>2. object' = [object EXCEPT ![o] = [object[o] EXCEPT !.listed =
                 IF Len(@) < MaxEntries THEN Append(@, 0) ELSE @]]
          BY <3>2 DEF Yields
        <4> QED
          BY <2>1, <4>1, <4>2, ListedType, ObjectType DEF Value
      <3>3. (object[o].finished \/ object[o].kind = "listdir") \in BOOLEAN
        OBVIOUS
      <3>4. \/ object' = [object EXCEPT ![o].finished = TRUE]
            \/ Yields(o, 0)
            \/ object' = [object EXCEPT ![o].finished =
                            object[o].finished \/ object[o].kind = "listdir"]
        BY <1>4 DEF EndOfEntries
      <3> QED
        BY <3>1, <3>2, <3>3, <3>4
    <2>5. opened' \in [Fd -> Path \cup {NoPath}] /\ cursor' \in [Fd -> 0..entries]
      BY <2>2 DEF TypeOK
    <2> QED
      BY <2>2, <2>3, <2>4, <2>5, IdleStepType
  <1>5. CASE CloseIterator(o)
    <2>1. object[o] \in Iterator /\ object[o].kind = "scandir" /\ object[o].fd \in Fd \cup {NoFd}
      BY <1>5, IteratorOf, FdOf DEF CloseIterator
    <2>2. object' = [object EXCEPT ![o] = [object[o] EXCEPT !.fd = NoFd]]
      BY <1>5 DEF CloseIterator
    <2>3. object' \in [Object -> Value]
      BY <2>1, <2>2, DroppedType, ObjectType DEF Value
    <2>4. opened' \in [Fd -> Path \cup {NoPath}] /\ cursor' \in [Fd -> 0..entries]
      BY <1>5, <2>1, CloseType DEF CloseIterator, TypeOK
    <2> QED
      BY <1>5, <2>3, <2>4, IdleStepType DEF CloseIterator, Idle
  <1>6. CASE DestroyIterator(o)
    <2>1. object[o].fd \in Fd \cup {NoFd}
      BY <1>6, FdOf DEF DestroyIterator
    <2>2. object' \in [Object -> Value]
      BY <1>6, ObjectType DEF DestroyIterator, Value
    <2>3. opened' \in [Fd -> Path \cup {NoPath}] /\ cursor' \in [Fd -> 0..entries]
      BY <1>6, <2>1, CloseType DEF DestroyIterator, TypeOK
    <2> QED
      BY <1>6, <2>2, <2>3, IdleStepType DEF DestroyIterator, Idle
  <1> QED
    BY <1>1, <1>2, <1>3, <1>4, <1>5, <1>6 DEF IteratorNext

LEMMA TypeNext == TypeInv /\ [Next]_vars => TypeInv'
  <1> SUFFICES ASSUME TypeInv, [Next]_vars PROVE TypeInv'
    OBVIOUS
  <1>1. CASE Create
    <2>1. entries' \in Cardinality(Dots)..MaxEntries /\ entries' = entries + 1
      BY <1>1, DotsCardinality, ConstantsAssumption DEF Create, TypeInv, TypeOK, ConstantsAssumption
    <2>2. cursor' \in [Fd -> 0..entries']
      BY <1>1, <2>1, DotsCardinality, ConstantsAssumption
      DEF Create, TypeInv, TypeOK, ConstantsAssumption
    <2> QED
      BY <1>1, <2>1, <2>2 DEF Create, TypeInv, TypeOK, LinesLeft, InWrite, Idle, IsWrapper
  <1>2. ASSUME NEW o \in Object, WrapperNext(o) \/ IteratorNext(o) PROVE TypeInv'
    BY <1>2, WrapperStepType, IteratorStepType
  <1>3. CASE UNCHANGED vars
    BY <1>3 DEF vars, TypeInv, TypeOK, LinesLeft, InWrite, Idle, IsWrapper
  <1> QED
    BY <1>1, <1>2, <1>3 DEF Next

(* TypeOK holds in every run: descriptors, objects and what they have       *)
(* listed stay in range whatever fails, an iterator of listdir_proxy always *)
(* has a descriptor, and nothing is read past the end of the directory.     *)
THEOREM TypeCorrect == Spec => []TypeOK
  <1>1. TypeInv => TypeOK
    BY DEF TypeInv
  <1> QED
    BY <1>1, TypeInit, TypeNext, PTL DEF Spec

-----------------------------------------------------------------------------
(* Ownership of descriptors                                                 *)

(* What an object has to say of descriptors: the one it will still close,   *)
(* and what it was opened for.                                              *)
Held(v) ==
  IF v = Nothing THEN NoFd
  ELSE IF v.kind = "file" /\ v.closed THEN NoFd ELSE v.fd

Meant(v) == IF v.kind = "file" THEN v.path ELSE Directory

(* The descriptor an object holds refers to what it was opened for, no two  *)
(* objects hold the same one, and each that is open on what is CAPIO's is   *)
(* held.                                                                    *)
HeldIsOpen ==
  \A o \in Object : Held(object[o]) \in Fd => opened[Held(object[o])] = Meant(object[o])

HeldOnce ==
  \A o, q \in Object :
    Held(object[o]) \in Fd /\ Held(object[o]) = Held(object[q]) => o = q

OpenIsHeld ==
  \A fd \in Fd :
    opened[fd] \in Path \ Foreign => \E o \in Object : Held(object[o]) = fd

Ownership == HeldIsOpen /\ HeldOnce /\ OpenIsHeld

LEMMA NoFdIsNone == NoFd \notin Fd
  BY ConstantsAssumption DEF ConstantsAssumption, NoFd, Fd

LEMMA HeldOfNothing == Held(Nothing) = NoFd
  BY DEF Held

LEMMA HeldType ==
  ASSUME NEW v \in Value
  PROVE  /\ Held(v) \in Fd \cup {NoFd}
         /\ v # Nothing => Meant(v) \in Path
  <1>1. CASE v \in Wrapper
    BY <1>1, NotNothing DEF Held, Meant, Wrapper, Path
  <1>2. CASE v \in Iterator
    BY <1>2, NotNothing DEF Held, Meant, Iterator, Path
  <1>3. CASE v = Nothing
    BY <1>3 DEF Held
  <1> QED
    BY <1>1, <1>2, <1>3 DEF Value

(* An object that appears with a descriptor that was free.                  *)
LEMMA AcquireStep ==
  ASSUME TypeOK, Ownership, NEW o \in Object, NEW fd \in Fd, NEW v, NEW p \in Path,
         Held(object[o]) = NoFd, opened[fd] = NoPath, Held(v) = fd, Meant(v) = p,
         object' = [object EXCEPT ![o] = v], opened' = [opened EXCEPT ![fd] = p]
  PROVE  Ownership'
  <1>1. opened \in [Fd -> Path \cup {NoPath}] /\ object \in [Object -> Value]
    BY DEF TypeOK, Value
  <1>2. /\ object'[o] = v
        /\ \A q \in Object \ {o} : object'[q] = object[q]
    BY <1>1
  <1>3. /\ opened'[fd] = p
        /\ \A f \in Fd \ {fd} : opened'[f] = opened[f]
    BY <1>1
  <1>4. \A q \in Object : Held(object[q]) # fd
    <2> SUFFICES ASSUME NEW q \in Object, Held(object[q]) = fd PROVE FALSE
      OBVIOUS
    <2>1. opened[fd] = Meant(object[q])
      BY DEF Ownership, HeldIsOpen
    <2>2. object[q] # Nothing /\ object[q] \in Value
      BY <1>1, HeldOfNothing, NoFdIsNone
    <2>3. Meant(object[q]) \in Path
      BY <2>2, HeldType
    <2> QED
      BY <2>1, <2>3, ConstantsAssumption DEF ConstantsAssumption
  <1>5. HeldIsOpen'
    <2> SUFFICES ASSUME NEW q \in Object, Held(object'[q]) \in Fd
                 PROVE  opened'[Held(object'[q])] = Meant(object'[q])
      BY DEF HeldIsOpen
    <2>1. CASE q = o
      BY <1>2, <1>3, <2>1
    <2>2. CASE q # o
      BY <1>2, <1>3, <1>4, <2>2 DEF Ownership, HeldIsOpen
    <2> QED
      BY <2>1, <2>2
  <1>6. HeldOnce'
    <2> SUFFICES ASSUME NEW q \in Object, NEW r \in Object,
                        Held(object'[q]) \in Fd, Held(object'[q]) = Held(object'[r])
                 PROVE  q = r
      BY DEF HeldOnce
    <2>1. CASE q = o \/ r = o
      BY <1>2, <1>4, <2>1
    <2>2. CASE q # o /\ r # o
      BY <1>2, <2>2 DEF Ownership, HeldOnce
    <2> QED
      BY <2>1, <2>2
  <1>7. OpenIsHeld'
    <2> SUFFICES ASSUME NEW f \in Fd, opened'[f] \in Path \ Foreign
                 PROVE  \E q \in Object : Held(object'[q]) = f
      BY DEF OpenIsHeld
    <2>1. CASE f = fd
      BY <1>2, <2>1
    <2>2. CASE f # fd
      <3>1. PICK q \in Object : Held(object[q]) = f
        BY <1>3, <2>2 DEF Ownership, OpenIsHeld
      <3>2. q # o
        BY <3>1, NoFdIsNone
      <3> QED
        BY <1>2, <3>1, <3>2
    <2> QED
      BY <2>1, <2>2
  <1> QED
    BY <1>5, <1>6, <1>7 DEF Ownership

(* What closing the descriptor that object o holds does: nothing, if it     *)
(* holds none or one of a path that CAPIO declines.                         *)
Closes(o) ==
  \/ /\ Held(object[o]) = NoFd \/ opened[Held(object[o])] \in Foreign
     /\ UNCHANGED opened
  \/ /\ Held(object[o]) \in Fd
     /\ opened' = [opened EXCEPT ![Held(object[o])] = NoPath]

(* An object that lets its descriptor go.                                   *)
LEMMA ReleaseStep ==
  ASSUME TypeOK, Ownership, NEW o \in Object, NEW v, Held(v) = NoFd,
         object' = [object EXCEPT ![o] = v], Closes(o)
  PROVE  Ownership'
  <1>1. opened \in [Fd -> Path \cup {NoPath}] /\ object \in [Object -> Value]
    BY DEF TypeOK, Value
  <1>2. /\ object'[o] = v
        /\ \A q \in Object \ {o} : object'[q] = object[q]
    BY <1>1
  <1>3. \A f \in Fd : IF f = Held(object[o]) THEN opened'[f] \notin Path \ Foreign
                                             ELSE opened'[f] = opened[f]
    BY <1>1, NoFdIsNone, ConstantsAssumption DEF Closes, ConstantsAssumption
  <1>4. HeldIsOpen'
    <2> SUFFICES ASSUME NEW q \in Object, Held(object'[q]) \in Fd
                 PROVE  opened'[Held(object'[q])] = Meant(object'[q])
      BY DEF HeldIsOpen
    <2>1. q # o
      BY <1>2, NoFdIsNone
    <2>2. Held(object[q]) \in Fd /\ Held(object[q]) # Held(object[o])
      BY <1>2, <2>1 DEF Ownership, HeldOnce
    <2> QED
      BY <1>2, <1>3, <2>1, <2>2 DEF Ownership, HeldIsOpen
  <1>5. HeldOnce'
    <2> SUFFICES ASSUME NEW q \in Object, NEW r \in Object,
                        Held(object'[q]) \in Fd, Held(object'[q]) = Held(object'[r])
                 PROVE  q = r
      BY DEF HeldOnce
    <2>1. q # o /\ r # o
      BY <1>2, NoFdIsNone
    <2> QED
      BY <1>2, <2>1 DEF Ownership, HeldOnce
  <1>6. OpenIsHeld'
    <2> SUFFICES ASSUME NEW f \in Fd, opened'[f] \in Path \ Foreign
                 PROVE  \E q \in Object : Held(object'[q]) = f
      BY DEF OpenIsHeld
    <2>1. f # Held(object[o]) /\ opened[f] \in Path \ Foreign
      BY <1>3
    <2>2. PICK q \in Object : Held(object[q]) = f
      BY <2>1 DEF Ownership, OpenIsHeld
    <2> QED
      BY <1>2, <2>1, <2>2
  <1> QED
    BY <1>4, <1>5, <1>6 DEF Ownership

(* An object that changes otherwise.                                        *)
LEMMA KeepStep ==
  ASSUME TypeOK, Ownership, NEW o \in Object, NEW v,
         Held(v) = Held(object[o]), Held(v) \in Fd => Meant(v) = Meant(object[o]),
         object' = [object EXCEPT ![o] = v], UNCHANGED opened
  PROVE  Ownership'
  <1>1. object \in [Object -> Value]
    BY DEF TypeOK, Value
  <1>2. \A q \in Object : /\ Held(object'[q]) = Held(object[q])
                          /\ Held(object[q]) \in Fd => Meant(object'[q]) = Meant(object[q])
    BY <1>1
  <1>3. HeldIsOpen'
    BY <1>2 DEF Ownership, HeldIsOpen
  <1>4. HeldOnce'
    BY <1>2 DEF Ownership, HeldOnce
  <1>5. OpenIsHeld'
    BY <1>2 DEF Ownership, OpenIsHeld
  <1> QED
    BY <1>3, <1>4, <1>5 DEF Ownership

LEMMA CloseHeld ==
  ASSUME TypeOK, Ownership, NEW o \in Object, libcapio_close(Held(object[o]))
  PROVE  Closes(o)
  <1>1. object[o] \in Value
    BY ValueOf
  <1>2. CASE Held(object[o]) = NoFd
    BY <1>2, ConstantsAssumption DEF libcapio_close, Target, ConstantsAssumption, Closes
  <1>3. CASE Held(object[o]) \in Fd
    <2>1. object[o] # Nothing
      BY <1>3, HeldOfNothing, NoFdIsNone
    <2>2. opened[Held(object[o])] \in Path
      BY <1>1, <1>3, <2>1, HeldType DEF Ownership, HeldIsOpen
    <2> QED
      BY <1>3, <2>2, NoFdIsNone DEF libcapio_close, Target, Closes
  <1> QED
    BY <1>1, <1>2, <1>3, HeldType

(* Steps that touch neither what objects hold nor what is open.             *)
LEMMA SameObjects ==
  ASSUME Ownership, UNCHANGED <<object, opened>>
  PROVE  Ownership'
  BY DEF Ownership, HeldIsOpen, HeldOnce, OpenIsHeld

(* The iterator o becomes v, with the same descriptor.                      *)
LEMMA IteratorKeeps ==
  ASSUME TypeOK, Ownership, NEW o \in Object, IsIterator(o), NEW v \in Iterator,
         v.kind = object[o].kind, v.fd = object[o].fd,
         object' = [object EXCEPT ![o] = v], UNCHANGED opened
  PROVE  Ownership'
  <1>1. v # Nothing
    BY NotNothing
  <1>2. Held(v) = Held(object[o]) /\ Meant(v) = Meant(object[o])
    BY <1>1 DEF Held, Meant, IsIterator
  <1> QED
    BY <1>2, KeepStep

LEMMA HeldOfIterator ==
  ASSUME NEW o \in Object, IsIterator(o)
  PROVE  Held(object[o]) = object[o].fd
  BY DEF Held, IsIterator

LEMMA HeldOfWrapper ==
  ASSUME NEW o \in Object, IsWrapper(o)
  PROVE  Held(object[o]) = IF object[o].closed THEN NoFd ELSE object[o].fd
  BY DEF Held, IsWrapper

LEMMA WrapperStepOwnership ==
  ASSUME TypeOK, Ownership, NEW o \in Object, WrapperNext(o)
  PROVE  Ownership'
  <1>1. ASSUME NEW p \in File, OpenFile(o, p) PROVE Ownership'
    <2>1. Held(object[o]) = NoFd
      BY <1>1, HeldOfNothing DEF OpenFile
    <2>2. ASSUME NEW fd \in Fd \cup {NoFd}
          PROVE  Held(NewWrapper(p, fd)) = fd /\ Meant(NewWrapper(p, fd)) = p
      <3>1. NewWrapper(p, fd) # Nothing
        BY NewWrapperType, NotNothing
      <3> QED
        BY <3>1 DEF Held, Meant, NewWrapper
    <2>3. ASSUME NEW fd \in Free, Opens(fd, p), object' = [object EXCEPT ![o] = NewWrapper(p, fd)]
          PROVE  Ownership'
      <3>1. fd \in Fd /\ opened[fd] = NoPath /\ p \in Path
        BY DEF Free, Path
      <3>2. opened' = [opened EXCEPT ![fd] = p]
        BY <2>3 DEF Opens
      <3> QED
        BY <2>1, <2>2, <2>3, <3>1, <3>2, AcquireStep
    <2>4. ASSUME object' = [object EXCEPT ![o] = NewWrapper(p, NoFd)], UNCHANGED opened
          PROVE  Ownership'
      BY <2>1, <2>2, <2>4, KeepStep, NoFdIsNone
    <2> QED
      BY <1>1, <2>3, <2>4 DEF OpenFile
  <1>2. CASE StartWrite(o) \/ Write(o)
    BY <1>2, SameObjects DEF StartWrite, Write
  <1>3. ASSUME NEW v, Held(v) = NoFd, IsWrapper(o),
               object' = [object EXCEPT ![o] = v],
               IF object[o].closed THEN UNCHANGED opened ELSE libcapio_close(object[o].fd)
        PROVE  Ownership'
    <2>1. CASE object[o].closed
      BY <1>3, <2>1, HeldOfWrapper, ReleaseStep DEF Closes
    <2>2. CASE ~object[o].closed
      BY <1>3, <2>2, HeldOfWrapper, CloseHeld, ReleaseStep
    <2> QED
      BY <2>1, <2>2
  <1>4. CASE Close(o)
    <2>1. object[o] \in Wrapper
      BY <1>4, WrapperOf DEF Close
    <2>2. Held([object[o] EXCEPT !.closed = TRUE]) = NoFd
      <3>1. [object[o] EXCEPT !.closed = TRUE].kind = "file"
            /\ [object[o] EXCEPT !.closed = TRUE].closed
        BY <2>1 DEF Wrapper
      <3> QED
        BY <3>1 DEF Held
    <2>3. object' = [object EXCEPT ![o] = [object[o] EXCEPT !.closed = TRUE]]
      BY <1>4 DEF Close
    <2> QED
      BY <1>3, <1>4, <2>2, <2>3 DEF Close
  <1>5. CASE DestroyFile(o)
    BY <1>3, <1>5, HeldOfNothing DEF DestroyFile
  <1> QED
    BY <1>1, <1>2, <1>4, <1>5 DEF WrapperNext

LEMMA IteratorStepOwnership ==
  ASSUME TypeOK, Ownership, NEW o \in Object, IteratorNext(o)
  PROVE  Ownership'
  <1>1. ASSUME NEW kind \in {"scandir", "listdir"}, Scandir(o, kind) PROVE Ownership'
    <2>1. PICK fd \in Free : /\ Opens(fd, Directory)
                             /\ object' = [object EXCEPT ![o] = NewIterator(kind, fd)]
      BY <1>1 DEF Scandir
    <2>2. fd \in Fd /\ opened[fd] = NoPath /\ Directory \in Path
      BY DEF Free, Path
    <2>3. opened' = [opened EXCEPT ![fd] = Directory]
      BY <2>1 DEF Opens
    <2>4. NewIterator(kind, fd) # Nothing
      BY <2>2, NewIteratorType, NotNothing
    <2>5. Held(NewIterator(kind, fd)) = fd /\ Meant(NewIterator(kind, fd)) = Directory
      BY <2>4 DEF Held, Meant, NewIterator
    <2>6. Held(object[o]) = NoFd
      BY <1>1, HeldOfNothing DEF Scandir
    <2> QED
      BY <2>1, <2>2, <2>3, <2>5, <2>6, AcquireStep
  <1>2. CASE StartNext(o)
    BY <1>2, SameObjects DEF StartNext
  <1>3. ASSUME NEW entry \in 0..MaxEntries, IsIterator(o), Yields(o, entry), UNCHANGED opened
        PROVE  Ownership'
    <2> DEFINE v == [object[o] EXCEPT !.listed =
                       IF Len(@) < MaxEntries THEN Append(@, entry) ELSE @]
    <2>1. object[o] \in Iterator
      BY <1>3, IteratorOf
    <2>2. v \in Iterator
      BY <2>1, ListedType
    <2>3. v.kind = object[o].kind /\ v.fd = object[o].fd
      BY <2>1 DEF Iterator
    <2>4. object' = [object EXCEPT ![o] = v]
      BY <1>3 DEF Yields
    <2> QED
      BY <1>3, <2>2, <2>3, <2>4, IteratorKeeps
  <1>4. CASE ReadEntry(o)
    <2> DEFINE fd == object[o].fd
    <2>1. IsIterator(o)
      BY <1>4 DEF ReadEntry, InNext
    <2>2. fd \in Fd /\ cursor[fd] < entries
      BY <1>4, <2>1, FdOf, EntryThere DEF ReadEntry
    <2>3. cursor[fd] + 1 \in 0..MaxEntries
      BY <2>2, DotsCardinality, ConstantsAssumption DEF TypeOK, ConstantsAssumption
    <2> QED
      BY <1>3, <1>4, <2>1, <2>3, SameObjects DEF ReadEntry
  <1>5. CASE EndOfEntries(o)
    <2>1. IsIterator(o) /\ UNCHANGED opened /\ object[o] \in Iterator
      BY <1>5, IteratorOf DEF EndOfEntries, InNext
    <2>2. ASSUME NEW b \in BOOLEAN, object' = [object EXCEPT ![o].finished = b]
          PROVE  Ownership'
      <3>1. object' = [object EXCEPT ![o] = [object[o] EXCEPT !.finished = b]]
        BY <2>2
      <3>2. /\ [object[o] EXCEPT !.finished = b].kind = object[o].kind
            /\ [object[o] EXCEPT !.finished = b].fd = object[o].fd
        BY <2>1 DEF Iterator
      <3> QED
        BY <2>1, <3>1, <3>2, FinishedType, IteratorKeeps
    <2>3. 0 \in 0..MaxEntries
      BY ConstantsAssumption DEF ConstantsAssumption
    <2>4. (object[o].finished \/ object[o].kind = "listdir") \in BOOLEAN
      OBVIOUS
    <2>5. \/ object' = [object EXCEPT ![o].finished = TRUE]
          \/ Yields(o, 0)
          \/ object' = [object EXCEPT ![o].finished =
                          object[o].finished \/ object[o].kind = "listdir"]
      BY <1>5 DEF EndOfEntries
    <2> QED
      BY <1>3, <2>1, <2>2, <2>3, <2>4, <2>5
  <1>6. ASSUME NEW v, Held(v) = NoFd, IsIterator(o),
               object' = [object EXCEPT ![o] = v], libcapio_close(object[o].fd)
        PROVE  Ownership'
    BY <1>6, HeldOfIterator, CloseHeld, ReleaseStep
  <1>7. CASE CloseIterator(o)
    <2>1. object[o] \in Iterator /\ object[o].kind = "scandir"
      BY <1>7, IteratorOf DEF CloseIterator
    <2>2. Held([object[o] EXCEPT !.fd = NoFd]) = NoFd
      <3>1. /\ [object[o] EXCEPT !.fd = NoFd].kind = "scandir"
            /\ [object[o] EXCEPT !.fd = NoFd].fd = NoFd
        BY <2>1 DEF Iterator
      <3> QED
        BY <3>1 DEF Held
    <2>3. object' = [object EXCEPT ![o] = [object[o] EXCEPT !.fd = NoFd]]
      BY <1>7 DEF CloseIterator
    <2> QED
      BY <1>6, <1>7, <2>2, <2>3 DEF CloseIterator
  <1>8. CASE DestroyIterator(o)
    BY <1>6, <1>8, HeldOfNothing DEF DestroyIterator
  <1> QED
    BY <1>1, <1>2, <1>4, <1>5, <1>7, <1>8 DEF IteratorNext

LEMMA OwnershipNext ==
  ASSUME TypeOK, Ownership, [Next]_vars
  PROVE  Ownership'
  <1>1. CASE Create \/ UNCHANGED vars
    BY <1>1, SameObjects DEF Create, vars
  <1>2. ASSUME NEW o \in Object, WrapperNext(o) \/ IteratorNext(o) PROVE Ownership'
    BY <1>2, WrapperStepOwnership, IteratorStepOwnership
  <1> QED
    BY <1>1, <1>2 DEF Next

LEMMA OwnershipInit == Init => Ownership
  BY HeldOfNothing, NoFdIsNone, ConstantsAssumption
  DEF ConstantsAssumption, Init, Ownership, HeldIsOpen, HeldOnce, OpenIsHeld

LEMMA OwnershipIsOneOwner ==
  ASSUME TypeOK, Ownership
  PROVE  OneOwner
  <1>1. \A o \in Object, fd \in Fd : Owns(o, fd) <=> Held(object[o]) = fd
    BY NoFdIsNone DEF Owns, Held, IsWrapper
  <1>2. ASSUME NEW fd \in Fd, opened[fd] = NoPath, NEW o \in Object, Held(object[o]) = fd
        PROVE  FALSE
    <2>1. Meant(object[o]) = NoPath
      BY <1>2 DEF Ownership, HeldIsOpen
    <2>2. object[o] # Nothing /\ object[o] \in Value
      BY <1>2, ValueOf, HeldOfNothing, NoFdIsNone
    <2> QED
      BY <2>1, <2>2, HeldType, ConstantsAssumption DEF ConstantsAssumption
  <1>3. ASSUME NEW fd \in Fd, opened[fd] \in Path \ Foreign
        PROVE  \E o \in Object : Owns(o, fd)
    BY <1>1, <1>3 DEF Ownership, OpenIsHeld
  <1>4. ASSUME NEW fd \in Fd, NEW o \in Object, NEW q \in Object, Owns(o, fd), Owns(q, fd)
        PROVE  o = q
    BY <1>1, <1>4 DEF Ownership, HeldOnce
  <1> QED
    BY <1>1, <1>2, <1>3, <1>4 DEF OneOwner

(* Whatever paths CAPIO declines, each descriptor that is open on one of    *)
(* CAPIO's own has the one object that will close it, and no other has two, *)
(* in whatever order objects are made, closed, closed again and destroyed.  *)
THEOREM OneOwnerCorrect == Spec => []OneOwner
  <1>1. Init => Ownership
    BY OwnershipInit
  <1>2. TypeOK /\ Ownership /\ [Next]_vars => Ownership'
    BY OwnershipNext
  <1>3. TypeOK /\ Ownership => OneOwner
    BY OwnershipIsOneOwner
  <1> QED
    BY <1>1, <1>2, <1>3, TypeCorrect, PTL DEF Spec

-----------------------------------------------------------------------------
(* Writing                                                                  *)

(* Nobody closes a wrapper while it writes.                                 *)
WriterOpen == \A o \in Object : InWrite(o) => ~object[o].closed

LEMMA WriterOpenNext ==
  ASSUME ~UseAfterClose, TypeOK, WriterOpen, [Next]_vars
  PROVE  WriterOpen'
  <1>1. ASSUME call' = Nothing PROVE WriterOpen'
    BY <1>1 DEF WriterOpen, InWrite, Idle
  <1>2. ASSUME UNCHANGED <<object, call>> PROVE WriterOpen'
    BY <1>2 DEF WriterOpen, InWrite, Idle, IsWrapper
  <1>3. CASE Create \/ UNCHANGED vars
    BY <1>2, <1>3 DEF Create, vars
  <1>4. ASSUME NEW o \in Object, WrapperNext(o) PROVE WriterOpen'
    <2>1. ASSUME NEW p \in File, OpenFile(o, p) PROVE WriterOpen'
      BY <1>1, <2>1 DEF OpenFile, Idle
    <2>2. CASE StartWrite(o)
      <3>1. ~object[o].closed /\ UNCHANGED object
        BY <2>2 DEF StartWrite
      <3>2. call'.of = o
        BY <2>2 DEF StartWrite, Begins
      <3> QED
        BY <3>1, <3>2 DEF WriterOpen, InWrite
    <2>3. CASE Write(o)
      <3>1. InWrite(o) /\ UNCHANGED object
        BY <2>3 DEF Write
      <3>2. call' = Nothing \/ call' = [call EXCEPT !.left = @ - 1]
        BY <2>3 DEF Write, NextLine, Raises
      <3>3. CASE call' = [call EXCEPT !.left = @ - 1]
        <4>1. call'.of = o
          BY <3>1, <3>3 DEF InWrite, Idle, TypeOK, Call
        <4> QED
          BY <3>1, <4>1 DEF WriterOpen, InWrite
      <3> QED
        BY <1>1, <3>2, <3>3
    <2>4. CASE Close(o) \/ DestroyFile(o)
      BY <1>1, <2>4 DEF Close, DestroyFile, Idle
    <2> QED
      BY <1>4, <2>1, <2>2, <2>3, <2>4 DEF WrapperNext
  <1>5. ASSUME NEW o \in Object, IteratorNext(o) PROVE WriterOpen'
    <2>1. ASSUME NEW kind \in {"scandir", "listdir"}, Scandir(o, kind) PROVE WriterOpen'
      BY <1>1, <2>1 DEF Scandir, Idle
    <2>2. CASE StartNext(o)
      <3>1. call'.of = o /\ ~IsWrapper(o) /\ UNCHANGED object
        BY <2>2 DEF StartNext, Begins, IsIterator, IsWrapper
      <3> QED
        BY <3>1 DEF WriterOpen, InWrite, IsWrapper
    <2>3. CASE ReadEntry(o)
      BY <1>1, <1>2, <2>3 DEF ReadEntry, Yields
    <2>4. CASE EndOfEntries(o)
      BY <1>1, <2>4 DEF EndOfEntries, Yields
    <2>5. CASE CloseIterator(o) \/ DestroyIterator(o)
      BY <1>1, <2>5 DEF CloseIterator, DestroyIterator, Idle
    <2> QED
      BY <1>5, <2>1, <2>2, <2>3, <2>4, <2>5 DEF IteratorNext
  <1> QED
    BY <1>3, <1>4, <1>5 DEF Next

LEMMA OwnFileNext ==
  ASSUME TypeOK, Ownership, WriterOpen, OwnFileOnly, [Next]_vars
  PROVE  OwnFileOnly'
  <1>1. ASSUME UNCHANGED contents PROVE OwnFileOnly'
    BY <1>1 DEF OwnFileOnly
  <1>2. ASSUME NEW o \in Object, Write(o) PROVE OwnFileOnly'
    <2>1. InWrite(o) /\ object[o] \in Wrapper
      BY <1>2, WrapperOf DEF Write, InWrite
    <2>2. ASSUME NEW whole \in BOOLEAN, Reaches(o, Target(object[o].fd), whole)
          PROVE  OwnFileOnly'
      <3> DEFINE p == Target(object[o].fd)
                 line == [meant |-> object[o].path, whole |-> whole]
      <3>1. p \in File /\ contents' = [contents EXCEPT ![p] = Append(contents[p], line)]
        BY <2>2 DEF Reaches
      <3>2. object[o].fd \in Fd
        BY <2>1, <3>1, FdOf, ConstantsAssumption
        DEF Target, InWrite, ConstantsAssumption, Path
      <3>3. Held(object[o]) = object[o].fd
        BY <2>1, HeldOfWrapper DEF WriterOpen, InWrite
      <3>4. p = Meant(object[o])
        BY <3>2, <3>3, NoFdIsNone DEF Ownership, HeldIsOpen, Target
      <3>5. line.meant = p
        BY <2>1, <3>4 DEF Meant, InWrite, IsWrapper
      <3>6. contents[p] \in Seq(Line) /\ line \in Line
        BY <2>1, <3>1 DEF TypeOK, Line, Wrapper
      <3>7. /\ contents'[p] = Append(contents[p], line)
            /\ \A q \in File \ {p} : contents'[q] = contents[q]
        BY <3>1 DEF TypeOK
      <3> HIDE DEF p, line
      <3>8. \A i \in DOMAIN contents'[p] : contents'[p][i].meant = p
        <4> SUFFICES ASSUME NEW i \in DOMAIN contents'[p] PROVE contents'[p][i].meant = p
          OBVIOUS
        <4>1. i \in 1..Len(contents[p]) + 1
          BY <3>6, <3>7, AppendProperties
        <4>2. CASE i = Len(contents[p]) + 1
          BY <3>5, <3>6, <3>7, <4>2, AppendProperties
        <4>3. CASE i \in 1..Len(contents[p])
          <5>1. contents'[p][i] = contents[p][i] /\ i \in DOMAIN contents[p]
            BY <3>6, <3>7, <4>3, AppendProperties
          <5> QED
            BY <3>1, <5>1 DEF OwnFileOnly
        <4> QED
          BY <3>6, <4>1, <4>2, <4>3
      <3> QED
        BY <3>7, <3>8 DEF OwnFileOnly
    <2> QED
      BY <1>1, <1>2, <2>2 DEF Write, Raises
  <1>3. CASE Create \/ UNCHANGED vars
    BY <1>1, <1>3 DEF Create, vars
  <1>4. ASSUME NEW o \in Object, WrapperNext(o) PROVE OwnFileOnly'
    BY <1>1, <1>2, <1>4 DEF WrapperNext, OpenFile, StartWrite, Close, DestroyFile
  <1>5. ASSUME NEW o \in Object, IteratorNext(o) PROVE OwnFileOnly'
    BY <1>1, <1>5
    DEF IteratorNext, Scandir, StartNext, ReadEntry, EndOfEntries, CloseIterator, DestroyIterator
  <1> QED
    BY <1>3, <1>4, <1>5 DEF Next

(* As long as callers do not write through a wrapper they have closed, what *)
(* is written through a wrapper goes to the file its caller opened, however *)
(* descriptors' numbers are given out again and whatever CAPIO declines.    *)
THEOREM OwnFileOnlyCorrect == ASSUME ~UseAfterClose PROVE Spec => []OwnFileOnly
  <1> DEFINE Inv == Ownership /\ WriterOpen /\ OwnFileOnly
  <1>1. Init => Inv
    BY OwnershipInit DEF Init, WriterOpen, InWrite, Idle, OwnFileOnly
  <1>2. TypeOK /\ Inv /\ [Next]_vars => Inv'
    BY OwnershipNext, WriterOpenNext, OwnFileNext
  <1>3. Inv => OwnFileOnly
    OBVIOUS
  <1> QED
    BY <1>1, <1>2, <1>3, TypeCorrect, PTL DEF Spec

-----------------------------------------------------------------------------
(* What is acknowledged is written                                          *)

(* The lines of a file that its opener wrote whole, and those that the call *)
(* under way has written of it.                                             *)
Good(lines, p) == {i \in DOMAIN lines : lines[i] = [meant |-> p, whole |-> TRUE]}

Pending(p) ==
  IF ~Idle /\ IsWrapper(call.of) /\ object[call.of].path = p
    THEN call.asked - call.left ELSE 0

(* The count holds in the middle of a call too.                             *)
WrittenInv ==
  /\ ~Idle => call.left <= call.asked
  /\ \A p \in File : acked[p] + Pending(p) <= Cardinality(Good(contents[p], p))

LEMMA GoodFinite ==
  ASSUME NEW lines \in Seq(Line), NEW p
  PROVE  IsFiniteSet(Good(lines, p)) /\ Cardinality(Good(lines, p)) \in Nat
  <1>1. Len(lines) \in Nat /\ Good(lines, p) \subseteq 1..Len(lines)
    BY LenProperties DEF Good
  <1>2. IsFiniteSet(1..Len(lines))
    BY <1>1, FS_Interval
  <1> QED
    BY <1>1, <1>2, FS_Subset, FS_CardinalityType

(* A line more, whole or not, takes nothing away; a whole one counts.       *)
LEMMA GoodAppend ==
  ASSUME NEW lines \in Seq(Line), NEW line \in Line, NEW p
  PROVE  /\ line = [meant |-> p, whole |-> TRUE]
              => Cardinality(Good(Append(lines, line), p)) = Cardinality(Good(lines, p)) + 1
         /\ line # [meant |-> p, whole |-> TRUE]
              => Good(Append(lines, line), p) = Good(lines, p)
  <1> DEFINE n == Len(lines) + 1
             more == Append(lines, line)
  <1>1. /\ Len(lines) \in Nat /\ DOMAIN lines = 1..Len(lines)
        /\ DOMAIN more = 1..n
        /\ more[n] = line
        /\ \A i \in 1..Len(lines) : more[i] = lines[i]
    BY LenProperties, AppendProperties
  <1> HIDE DEF more
  <1>2. n \in DOMAIN more /\ n \notin DOMAIN lines /\ DOMAIN more = DOMAIN lines \cup {n}
    BY <1>1
  <1>3. CASE line = [meant |-> p, whole |-> TRUE]
    <2>1. Good(more, p) = Good(lines, p) \cup {n} /\ n \notin Good(lines, p)
      BY <1>1, <1>2, <1>3 DEF Good
    <2> QED
      BY <1>3, <2>1, GoodFinite, FS_AddElement DEF more
  <1>4. CASE line # [meant |-> p, whole |-> TRUE]
    <2>1. Good(more, p) = Good(lines, p)
      BY <1>1, <1>2, <1>4 DEF Good
    <2> QED
      BY <1>4, <2>1 DEF more
  <1> QED
    BY <1>3, <1>4

LEMMA PendingType ==
  ASSUME TypeOK, WrittenInv, NEW p
  PROVE  Pending(p) \in Nat
  <1>1. CASE Idle
    BY <1>1 DEF Pending
  <1>2. CASE ~Idle
    <2>1. call.left \in Nat /\ call.asked \in Nat /\ call.left <= call.asked
      BY <1>2, ConstantsAssumption DEF TypeOK, Call, WrittenInv, Idle, ConstantsAssumption
    <2> QED
      BY <2>1 DEF Pending
  <1> QED
    BY <1>1, <1>2

(* Steps that acknowledge nothing and lose no line: no call goes on, or it  *)
(* has not written yet, or as it was.                                       *)
LEMMA WrittenKept ==
  ASSUME TypeOK, TypeOK', WrittenInv, UNCHANGED acked,
         \A p \in File : Good(contents'[p], p) = Good(contents[p], p),
         \/ Idle'
         \/ ~Idle' /\ call'.left = call'.asked
         \/ UNCHANGED <<call, object>>
  PROVE  WrittenInv'
  <1>1. ASSUME ~Idle' PROVE call'.left \in Nat /\ call'.asked \in Nat
    BY <1>1, ConstantsAssumption DEF TypeOK, Call, Idle, ConstantsAssumption
  <1>2. ASSUME NEW p PROVE Pending(p) \in Nat /\ (Pending(p)' = 0 \/ Pending(p)' = Pending(p))
    BY <1>1, PendingType DEF Pending, Idle, IsWrapper
  <1>3. ~Idle' => call'.left <= call'.asked
    BY <1>1 DEF WrittenInv, Idle
  <1>4. ASSUME NEW p \in File
        PROVE  acked'[p] + Pending(p)' <= Cardinality(Good(contents'[p], p))
    <2>1. /\ acked[p] \in Nat /\ Cardinality(Good(contents[p], p)) \in Nat
          /\ acked[p] + Pending(p) <= Cardinality(Good(contents[p], p))
      BY GoodFinite DEF TypeOK, WrittenInv
    <2> QED
      BY <1>2, <2>1
  <1> QED
    BY <1>3, <1>4 DEF WrittenInv

LEMMA WriteWritten ==
  ASSUME TypeInv, TypeOK', Ownership, WriterOpen, WrittenInv, NEW o \in Object, Write(o)
  PROVE  WrittenInv'
  <1> USE DEF TypeInv
  <1>1. InWrite(o) /\ object[o] \in Wrapper /\ UNCHANGED object
    BY WrapperOf DEF Write, InWrite
  <1>2. object[o].path \in File /\ ~Idle /\ call.of = o /\ IsWrapper(o)
    BY <1>1 DEF Wrapper, InWrite
  <1>3. /\ call.left \in Nat /\ call.asked \in Nat
        /\ 1 <= call.left /\ call.left <= call.asked
        /\ call \in Call
    BY <1>1, <1>2, ConstantsAssumption
    DEF TypeOK, LinesLeft, Call, WrittenInv, Idle, ConstantsAssumption
  <1>4. ASSUME NEW p, NEW whole \in BOOLEAN, Reaches(o, p, whole)
        PROVE  /\ p \in File
               /\ contents[p] \in Seq(Line)
               /\ [meant |-> object[o].path, whole |-> whole] \in Line
               /\ contents'[p] = Append(contents[p], [meant |-> object[o].path, whole |-> whole])
               /\ \A q \in File \ {p} : contents'[q] = contents[q]
    BY <1>2, <1>4 DEF Reaches, TypeOK, Line
  <1>5. CASE Reaches(o, Target(object[o].fd), TRUE) /\ NextLine(o)
    <2>0. PICK p \in File : p = object[o].path
      BY <1>2
    <2> DEFINE lines == Cardinality(Good(contents[p], p))
    <2>1. Target(object[o].fd) = p
      <3>1. object[o].fd \in Fd
        BY <1>1, <1>4, <1>5, FdOf, ConstantsAssumption
        DEF Target, InWrite, ConstantsAssumption, Path
      <3>2. Held(object[o]) = object[o].fd
        BY <1>1, HeldOfWrapper DEF WriterOpen, InWrite
      <3> QED
        BY <1>2, <2>0, <3>1, <3>2, NoFdIsNone DEF Ownership, HeldIsOpen, Target, Meant, IsWrapper
    <2>2. /\ contents'[p] = Append(contents[p], [meant |-> p, whole |-> TRUE])
          /\ contents[p] \in Seq(Line) /\ [meant |-> p, whole |-> TRUE] \in Line
          /\ \A q \in File \ {p} : contents'[q] = contents[q]
      BY <1>4, <1>5, <2>0, <2>1
    <2>3. Cardinality(Good(contents'[p], p)) = lines + 1 /\ lines \in Nat
      BY <2>2, GoodAppend, GoodFinite
    <2>4. acked[p] \in Nat /\ acked[p] + (call.asked - call.left) <= lines
      BY <1>2, <2>0 DEF TypeOK, WrittenInv, Pending
    <2>5. ASSUME NEW q \in File \ {p}
          PROVE  acked'[q] + Pending(q)' <= Cardinality(Good(contents'[q], q))
      <3>1. acked'[q] = acked[q] /\ contents'[q] = contents[q]
        BY <1>2, <1>5, <2>0, <2>2, <2>5 DEF NextLine, TypeOK
      <3>2. Pending(q) = 0
        BY <1>2, <2>0 DEF Pending
      <3>3. Pending(q)' = 0
        BY <1>1, <1>2, <1>3, <1>5, <2>0 DEF Pending, NextLine, Idle, IsWrapper, Call
      <3> QED
        BY <3>1, <3>2, <3>3 DEF WrittenInv
    <2>6. CASE call.left = 1
      <3>1. Idle' /\ acked'[p] = acked[p] + call.asked
        BY <1>2, <1>5, <2>0, <2>6 DEF NextLine, Idle, TypeOK
      <3>2. Pending(p)' = 0
        BY <3>1 DEF Pending
      <3>3. acked'[p] + Pending(p)' <= Cardinality(Good(contents'[p], p))
        BY <1>3, <2>3, <2>4, <2>6, <3>1, <3>2
      <3>4. \A q \in File : acked'[q] + Pending(q)' <= Cardinality(Good(contents'[q], q))
        BY <2>5, <3>3
      <3> QED
        BY <3>1, <3>4 DEF WrittenInv
    <2>7. CASE call.left # 1
      <3>1. /\ call' = [call EXCEPT !.left = call.left - 1]
            /\ acked'[p] = acked[p]
        BY <1>2, <1>5, <2>0, <2>7 DEF NextLine, TypeOK
      <3>2. call'.of = o /\ call'.asked = call.asked /\ call'.left = call.left - 1
        BY <1>2, <1>3, <3>1 DEF Call
      <3>3. ~Idle'
        <4>1. call.left - 1 \in 0..MaxLines
          BY <1>3, <2>7, ConstantsAssumption DEF Call, ConstantsAssumption
        <4>2. call' \in Call
          BY <1>3, <3>1, <4>1 DEF Call
        <4> QED
          BY <4>2, NotNothing DEF Idle
      <3>4. Pending(p)' = call.asked - (call.left - 1)
        BY <1>1, <1>2, <2>0, <3>2, <3>3 DEF Pending, IsWrapper
      <3>5. acked'[p] + Pending(p)' <= Cardinality(Good(contents'[p], p))
        BY <1>3, <2>3, <2>4, <3>1, <3>4
      <3>6. call'.left <= call'.asked
        BY <1>3, <3>2
      <3>7. \A q \in File : acked'[q] + Pending(q)' <= Cardinality(Good(contents'[q], q))
        BY <2>5, <3>5
      <3> QED
        BY <3>6, <3>7 DEF WrittenInv
    <2> QED
      BY <2>6, <2>7
  <1>6. CASE Raises(o)
    <2>1. Idle' /\ UNCHANGED acked
      BY <1>6 DEF Raises, Idle
    <2>2. ASSUME NEW p \in File PROVE Good(contents'[p], p) = Good(contents[p], p)
      <3>1. CASE Reaches(o, Target(object[o].fd), FALSE)
        <4> DEFINE t == Target(object[o].fd)
                   part == [meant |-> object[o].path, whole |-> FALSE]
        <4>1. /\ t \in File /\ contents[t] \in Seq(Line) /\ part \in Line
              /\ contents'[t] = Append(contents[t], part)
              /\ \A q \in File \ {t} : contents'[q] = contents[q]
          BY <1>4, <3>1
        <4>2. part # [meant |-> t, whole |-> TRUE]
          OBVIOUS
        <4> HIDE DEF t, part
        <4>3. CASE p = t
          <5>1. part # [meant |-> p, whole |-> TRUE] /\ contents[p] \in Seq(Line)
            BY <4>1, <4>2, <4>3
          <5>2. Good(Append(contents[p], part), p) = Good(contents[p], p)
            BY <4>1, <5>1, GoodAppend
          <5> QED
            BY <4>1, <4>3, <5>2
        <4>4. CASE p # t
          BY <4>1, <4>4
        <4> QED
          BY <4>3, <4>4
      <3>2. CASE UNCHANGED contents
        BY <3>2
      <3> QED
        BY <1>6, <3>1, <3>2 DEF Raises
    <2> QED
      BY <2>1, <2>2, WrittenKept
  <1> QED
    BY <1>5, <1>6 DEF Write

LEMMA WrittenNext ==
  ASSUME TypeInv, TypeOK', Ownership, WriterOpen, WrittenInv, [Next]_vars
  PROVE  WrittenInv'
  <1> USE DEF TypeInv
  <1>1. CASE Create \/ UNCHANGED vars
    BY <1>1, WrittenKept DEF Create, vars
  <1>2. ASSUME NEW o \in Object, NEW n \in 0..MaxLines, Begins(o, n)
        PROVE  ~Idle' /\ call'.left = call'.asked
    <2>1. call' \in Call
      BY <1>2 DEF Begins, Call
    <2> QED
      BY <1>2, <2>1, NotNothing DEF Begins, Idle
  <1>3. ASSUME NEW o \in Object, WrapperNext(o) PROVE WrittenInv'
    <2>1. CASE Write(o)
      BY <2>1, WriteWritten
    <2>2. CASE StartWrite(o)
      <3>1. \E n \in 0..MaxLines : Begins(o, n)
        BY <2>2, ConstantsAssumption DEF StartWrite, ConstantsAssumption
      <3>2. UNCHANGED <<contents, acked>>
        BY <2>2 DEF StartWrite
      <3> QED
        BY <1>2, <3>1, <3>2, WrittenKept
    <2>3. CASE (\E p \in File : OpenFile(o, p)) \/ Close(o) \/ DestroyFile(o)
      BY <2>3, WrittenKept DEF OpenFile, Close, DestroyFile, Idle
    <2> QED
      BY <1>3, <2>1, <2>2, <2>3 DEF WrapperNext
  <1>4. ASSUME NEW o \in Object, IteratorNext(o) PROVE WrittenInv'
    <2>1. CASE StartNext(o)
      <3>1. Begins(o, 0) /\ 0 \in 0..MaxLines /\ UNCHANGED <<contents, acked>>
        BY <2>1, ConstantsAssumption DEF StartNext, ConstantsAssumption
      <3> QED
        BY <1>2, <3>1, WrittenKept
    <2>2. CASE ReadEntry(o) \/ EndOfEntries(o)
      <3>1. /\ Idle' \/ UNCHANGED <<call, object>>
            /\ UNCHANGED <<contents, acked>>
        BY <2>2 DEF ReadEntry, EndOfEntries, Yields, Idle
      <3> QED
        BY <3>1, WrittenKept
    <2>3. CASE \/ \E kind \in {"scandir", "listdir"} : Scandir(o, kind)
               \/ CloseIterator(o)
               \/ DestroyIterator(o)
      BY <2>3, WrittenKept DEF Scandir, CloseIterator, DestroyIterator, Idle
    <2> QED
      BY <1>4, <2>1, <2>2, <2>3 DEF IteratorNext
  <1> QED
    BY <1>1, <1>3, <1>4 DEF Next

LEMMA WrittenInit == Init => WrittenInv
  <1> SUFFICES ASSUME Init, NEW p \in File
               PROVE  acked[p] + Pending(p) <= Cardinality(Good(contents[p], p))
    BY DEF Init, Idle, WrittenInv
  <1>1. acked[p] = 0 /\ Pending(p) = 0 /\ contents[p] = <<>>
    BY DEF Init, Pending, Idle
  <1>2. Cardinality(Good(<<>>, p)) \in Nat
    BY EmptySeq, GoodFinite
  <1> QED
    BY <1>1, <1>2

(* A write or writelines that returned has put each of its lines whole into *)
(* the file its caller opened; whatever was written in part only, a line or *)
(* the first lines of a list, belongs to a call that raised. For callers    *)
(* that do not write through a wrapper they have closed.                    *)
THEOREM AckedMeansWrittenCorrect ==
  ASSUME ~UseAfterClose PROVE Spec => []AckedMeansWritten
  <1> DEFINE Inv == TypeInv /\ Ownership /\ WriterOpen /\ WrittenInv
  <1>1. Init => Inv
    BY TypeInit, OwnershipInit, WrittenInit DEF Init, WriterOpen, InWrite, Idle
  <1>2. Inv /\ [Next]_vars => Inv'
    BY TypeNext, OwnershipNext, WriterOpenNext, WrittenNext DEF TypeInv
  <1>3. Inv => AckedMeansWritten
    <2> SUFFICES ASSUME Inv, NEW p \in File
                 PROVE  acked[p] <= Cardinality(Good(contents[p], p))
      BY DEF AckedMeansWritten, Good
    <2>1. /\ acked[p] \in Nat /\ Pending(p) \in Nat
          /\ Cardinality(Good(contents[p], p)) \in Nat
      BY PendingType, GoodFinite DEF TypeInv, TypeOK
    <2> QED
      BY <2>1 DEF WrittenInv
  <1> QED
    BY <1>1, <1>2, <1>3, PTL DEF Spec

-----------------------------------------------------------------------------
(* Listing                                                                  *)

(* An iterator has given entries in order, and as many as its descriptor    *)
(* has passed without the dots.                                             *)
InListing(v) ==
  /\ \A i \in DOMAIN v.listed : v.listed[i] = i + 2
  /\ v.fd \in Fd => Len(v.listed) = IF cursor[v.fd] <= 2 THEN 0 ELSE cursor[v.fd] - 2

Listing == \A o \in Object : IsIterator(o) => InListing(object[o])

(* Steps on one object leave the listing of the others alone.               *)
LEMMA OthersListing ==
  ASSUME TypeOK, Listing, NEW o \in Object, NEW v,
         object' = [object EXCEPT ![o] = v],
         \A q \in Object \ {o} :
           IsIterator(q) /\ object[q].fd \in Fd => cursor'[object[q].fd] = cursor[object[q].fd],
         v # Nothing /\ v.kind # "file" => InListing(v)'
  PROVE  Listing'
  <1>1. /\ object'[o] = v
        /\ \A q \in Object \ {o} : object'[q] = object[q]
    BY DEF TypeOK
  <1>2. ASSUME NEW q \in Object, IsIterator(q)' PROVE InListing(object[q])'
    <2>1. CASE q = o
      BY <1>1, <1>2, <2>1 DEF IsIterator, InListing
    <2>2. CASE q # o
      <3>1. object'[q] = object[q] /\ IsIterator(q)
        BY <1>1, <1>2, <2>2 DEF IsIterator
      <3> QED
        BY <2>2, <3>1 DEF Listing, InListing
    <2> QED
      BY <2>1, <2>2
  <1> QED
    BY <1>2 DEF Listing

LEMMA SameCursor ==
  ASSUME TypeOK, Listing, NEW o \in Object, NEW v,
         object' = [object EXCEPT ![o] = v], UNCHANGED cursor,
         v # Nothing /\ v.kind # "file" => InListing(v)
  PROVE  Listing'
  <1>1. v # Nothing /\ v.kind # "file" => InListing(v)'
    BY DEF InListing
  <1> QED
    BY <1>1, OthersListing

LEMMA SameListing ==
  ASSUME Listing, UNCHANGED <<object, cursor>>
  PROVE  Listing'
  BY DEF Listing, InListing, IsIterator

(* The cursor of a descriptor that is free, or that o holds, is no other's. *)
LEMMA OwnCursor ==
  ASSUME TypeOK, Ownership, NEW o \in Object, NEW fd \in Fd, NEW n,
         fd \in Free \/ Held(object[o]) = fd,
         cursor' = [cursor EXCEPT ![fd] = n],
         NEW q \in Object \ {o}, IsIterator(q), object[q].fd \in Fd
  PROVE  cursor'[object[q].fd] = cursor[object[q].fd]
  <1>1. Held(object[q]) = object[q].fd
    BY HeldOfIterator
  <1>2. object[q].fd # fd
    <2>1. CASE fd \in Free
      <3>1. opened[object[q].fd] = Directory
        BY <1>1 DEF Ownership, HeldIsOpen, Meant, IsIterator
      <3> QED
        BY <2>1, <3>1, ConstantsAssumption DEF Free, ConstantsAssumption, Path
    <2>2. CASE Held(object[o]) = fd
      BY <1>1, <2>2 DEF Ownership, HeldOnce
    <2> QED
      BY <2>1, <2>2
  <1> QED
    BY <1>2 DEF TypeOK

LEMMA WrapperStepListing ==
  ASSUME TypeOK, Ownership, Listing, NEW o \in Object, WrapperNext(o)
  PROVE  Listing'
  <1>1. ASSUME NEW p \in File, OpenFile(o, p) PROVE Listing'
    <2>1. ASSUME NEW fd \in Free, Opens(fd, p), object' = [object EXCEPT ![o] = NewWrapper(p, fd)]
          PROVE  Listing'
      <3>1. cursor' = [cursor EXCEPT ![fd] = 0] /\ fd \in Fd
        BY <2>1 DEF Opens, Free
      <3>2. NewWrapper(p, fd).kind = "file"
        BY DEF NewWrapper
      <3>3. \A q \in Object \ {o} :
              IsIterator(q) /\ object[q].fd \in Fd => cursor'[object[q].fd] = cursor[object[q].fd]
        BY <3>1, OwnCursor
      <3> QED
        BY <2>1, <3>2, <3>3, OthersListing
    <2>2. ASSUME object' = [object EXCEPT ![o] = NewWrapper(p, NoFd)], UNCHANGED cursor
          PROVE  Listing'
      <3>1. NewWrapper(p, NoFd).kind = "file"
        BY DEF NewWrapper
      <3> QED
        BY <2>2, <3>1, SameCursor
    <2> QED
      BY <1>1, <2>1, <2>2 DEF OpenFile
  <1>2. CASE StartWrite(o) \/ Write(o)
    BY <1>2, SameListing DEF StartWrite, Write
  <1>3. CASE Close(o)
    <2>1. object[o] \in Wrapper
      BY <1>3, WrapperOf DEF Close
    <2>2. [object[o] EXCEPT !.closed = TRUE].kind = "file"
      BY <2>1 DEF Wrapper
    <2>3. object' = [object EXCEPT ![o] = [object[o] EXCEPT !.closed = TRUE]] /\ UNCHANGED cursor
      BY <1>3 DEF Close
    <2> QED
      BY <2>2, <2>3, SameCursor
  <1>4. CASE DestroyFile(o)
    BY <1>4, SameCursor DEF DestroyFile
  <1> QED
    BY <1>1, <1>2, <1>3, <1>4 DEF WrapperNext

(* When readdir does not fail, it answers an iterator that has its          *)
(* descriptor with an entry or with the end; one on a directory that CAPIO  *)
(* declines has no answer.                                                  *)
LEMMA HeldAnswers ==
  ASSUME TypeOK, Ownership, ~ReaddirMayFail,
         NEW o \in Object, IsIterator(o), object[o].fd \in Fd
  PROVE  Answers(object[o].fd) =
           IF Directory \in Foreign THEN {"exception"}
           ELSE IF cursor[object[o].fd] < entries THEN {"entry"} ELSE {"zero"}
  <1>1. opened[object[o].fd] = Directory
    BY HeldOfIterator DEF Ownership, HeldIsOpen, Meant, IsIterator
  <1>2. Target(object[o].fd) = Directory
    BY <1>1, NoFdIsNone DEF Target
  <1> QED
    BY <1>2 DEF Answers, Path

LEMMA DroppedAnswers ==
  ASSUME NEW o \in Object, object[o].fd = NoFd
  PROVE  Answers(object[o].fd) = {"exception"}
  BY ConstantsAssumption DEF Answers, Target, ConstantsAssumption

LEMMA Appended ==
  ASSUME NEW S, NEW s \in Seq(S), NEW e \in S
  PROVE  /\ DOMAIN Append(s, e) = 1..Len(s) + 1
         /\ Len(Append(s, e)) = Len(s) + 1
         /\ Append(s, e)[Len(s) + 1] = e
         /\ \A i \in 1..Len(s) : Append(s, e)[i] = s[i]
  BY AppendProperties, LenProperties

LEMMA IteratorStepListing ==
  ASSUME TypeOK, Ownership, Listing, ~ReaddirMayFail,
         NEW o \in Object, IteratorNext(o)
  PROVE  Listing'
  <1>1. ASSUME NEW kind \in {"scandir", "listdir"}, Scandir(o, kind) PROVE Listing'
    <2>1. PICK fd \in Free : /\ Opens(fd, Directory)
                             /\ object' = [object EXCEPT ![o] = NewIterator(kind, fd)]
      BY <1>1 DEF Scandir
    <2>2. cursor' = [cursor EXCEPT ![fd] = 0] /\ fd \in Fd
      BY <2>1 DEF Opens, Free
    <2>3. cursor'[fd] = 0
      BY <2>2 DEF TypeOK
    <2>4. InListing(NewIterator(kind, fd))'
      <3>1. /\ NewIterator(kind, fd).listed = <<>>
            /\ NewIterator(kind, fd).fd = fd
        BY DEF NewIterator
      <3>2. InListing(NewIterator(kind, fd))' <=>
              /\ \A i \in DOMAIN NewIterator(kind, fd).listed :
                   NewIterator(kind, fd).listed[i] = i + 2
              /\ NewIterator(kind, fd).fd \in Fd =>
                   Len(NewIterator(kind, fd).listed) =
                     IF cursor'[NewIterator(kind, fd).fd] <= 2
                     THEN 0 ELSE cursor'[NewIterator(kind, fd).fd] - 2
        BY DEF InListing, NewIterator
      <3> QED
        BY <2>3, <3>1, <3>2
    <2>5. \A q \in Object \ {o} :
            IsIterator(q) /\ object[q].fd \in Fd => cursor'[object[q].fd] = cursor[object[q].fd]
      BY <2>2, OwnCursor
    <2> QED
      BY <2>1, <2>4, <2>5, OthersListing
  <1>2. CASE StartNext(o)
    BY <1>2, SameListing DEF StartNext
  <1>3. CASE ReadEntry(o)
    <2> DEFINE fd == object[o].fd
               entry == cursor[fd] + 1
    <2>1. IsIterator(o) /\ object[o] \in Iterator /\ InListing(object[o])
      BY <1>3, IteratorOf DEF ReadEntry, InNext, Listing
    <2>2. fd \in Fd /\ cursor[fd] < entries
      BY <1>3, <2>1, FdOf, EntryThere DEF ReadEntry
    <2>3. /\ cursor[fd] \in Nat /\ entries \in Nat /\ MaxEntries \in Nat
          /\ cursor[fd] < MaxEntries /\ entry \in Nat
      BY <2>2, DotsCardinality, ConstantsAssumption DEF TypeOK, ConstantsAssumption
    <2>4. cursor' = [cursor EXCEPT ![fd] = entry]
      BY <1>3 DEF ReadEntry
    <2>5. cursor'[fd] = entry
      BY <2>2, <2>4 DEF TypeOK
    <2>6. \A q \in Object \ {o} :
            IsIterator(q) /\ object[q].fd \in Fd => cursor'[object[q].fd] = cursor[object[q].fd]
      <3>1. Held(object[o]) = fd
        BY <2>1, HeldOfIterator
      <3> QED
        BY <2>2, <2>4, <3>1, OwnCursor
    <2>7. /\ object[o].listed \in Seq(0..MaxEntries)
          /\ \A i \in DOMAIN object[o].listed : object[o].listed[i] = i + 2
          /\ Len(object[o].listed) = IF cursor[fd] <= 2 THEN 0 ELSE cursor[fd] - 2
      BY <2>1, <2>2 DEF InListing, Iterator
    <2> HIDE DEF entry
    <2>8. CASE entry \in Dots /\ UNCHANGED object
      <3>1. object' = [object EXCEPT ![o] = object[o]]
        BY <2>8 DEF TypeOK
      <3>2. Len(object[o].listed) = IF cursor'[fd] <= 2 THEN 0 ELSE cursor'[fd] - 2
        BY <2>3, <2>5, <2>7, <2>8 DEF Dots, entry
      <3>3. InListing(object[o])' <=>
              /\ \A i \in DOMAIN object[o].listed : object[o].listed[i] = i + 2
              /\ fd \in Fd => Len(object[o].listed) = IF cursor'[fd] <= 2 THEN 0 ELSE cursor'[fd] - 2
        BY <2>8 DEF InListing
      <3>4. ASSUME NEW q \in Object, IsIterator(q)' PROVE InListing(object[q])'
        <4>1. CASE q = o
          BY <2>7, <3>2, <3>3, <4>1
        <4>2. CASE q # o
          BY <2>6, <2>8, <3>4, <4>2 DEF IsIterator, Listing, InListing
        <4> QED
          BY <4>1, <4>2
      <3> QED
        BY <3>4 DEF Listing
    <2>9. CASE entry \notin Dots /\ Yields(o, entry)
      <3> DEFINE l == Append(object[o].listed, entry)
                 v == [object[o] EXCEPT !.listed = l]
      <3>1. cursor[fd] >= 2
        BY <2>3, <2>9 DEF Dots, entry
      <3>2. Len(object[o].listed) = cursor[fd] - 2
        BY <2>3, <2>7, <3>1
      <3>3. Len(object[o].listed) < MaxEntries /\ entry = Len(object[o].listed) + 3
        BY <2>3, <3>2 DEF entry
      <3>4. object' = [object EXCEPT ![o] = v]
        BY <2>9, <3>3 DEF Yields
      <3>5. v.fd = fd /\ v.listed = l
        BY <2>1 DEF Iterator
      <3>6. entry \in 0..MaxEntries
        BY <2>3 DEF entry
      <3>7. /\ DOMAIN l = 1..Len(object[o].listed) + 1
            /\ Len(l) = Len(object[o].listed) + 1
            /\ l[Len(object[o].listed) + 1] = entry
            /\ \A i \in 1..Len(object[o].listed) : l[i] = object[o].listed[i]
        <4>1. PICK s \in Seq(0..MaxEntries) : s = object[o].listed
          BY <2>7
        <4>2. PICK e \in 0..MaxEntries : e = entry
          BY <3>6
        <4>3. l = Append(s, e)
          BY <4>1, <4>2
        <4> HIDE DEF l
        <4>4. /\ DOMAIN l = 1..Len(s) + 1 /\ Len(l) = Len(s) + 1
              /\ l[Len(s) + 1] = e
              /\ \A i \in 1..Len(s) : l[i] = s[i]
          BY <4>3, Appended
        <4> QED
          BY <4>1, <4>2, <4>4
      <3>8. DOMAIN object[o].listed = 1..Len(object[o].listed) /\ Len(object[o].listed) \in Nat
        BY <2>7
      <3> HIDE DEF l
      <3>9. \A i \in DOMAIN l : l[i] = i + 2
        <4> SUFFICES ASSUME NEW i \in DOMAIN l PROVE l[i] = i + 2
          OBVIOUS
        <4>1. CASE i = Len(object[o].listed) + 1
          BY <3>3, <3>7, <3>8, <4>1
        <4>2. CASE i \in 1..Len(object[o].listed)
          BY <2>7, <3>7, <3>8, <4>2
        <4> QED
          BY <3>7, <3>8, <4>1, <4>2
      <3>10. Len(l) = IF cursor'[fd] <= 2 THEN 0 ELSE cursor'[fd] - 2
        BY <2>3, <2>5, <3>1, <3>2, <3>7 DEF entry
      <3> HIDE DEF v
      <3>11. \A w : w = v => /\ \A i \in DOMAIN w.listed : w.listed[i] = i + 2
                             /\ w.fd \in Fd => Len(w.listed) =
                                  IF cursor'[w.fd] <= 2 THEN 0 ELSE cursor'[w.fd] - 2
        BY <3>5, <3>9, <3>10
      <3>12. ASSUME NEW q \in Object, IsIterator(q)' PROVE InListing(object[q])'
        <4>1. CASE q = o
          <5>1. object'[q] = v
            BY <3>4, <4>1 DEF TypeOK
          <5> QED
            BY <3>11, <5>1 DEF InListing
        <4>2. CASE q # o
          <5>1. object'[q] = object[q]
            BY <3>4, <4>2 DEF TypeOK
          <5> QED
            BY <2>6, <3>12, <4>2, <5>1 DEF IsIterator, Listing, InListing
        <4> QED
          BY <4>1, <4>2
      <3> QED
        BY <3>12 DEF Listing
    <2> QED
      BY <1>3, <2>8, <2>9 DEF ReadEntry, entry
  <1>4. CASE EndOfEntries(o)
    <2>1. IsIterator(o) /\ object[o] \in Iterator /\ InListing(object[o]) /\ UNCHANGED cursor
      BY <1>4, IteratorOf DEF EndOfEntries, InNext, Listing
    <2>2. "negative" \notin Answers(object[o].fd)
      <3>1. CASE object[o].fd \in Fd
        BY <2>1, <3>1, HeldAnswers
      <3>2. CASE object[o].fd = NoFd
        BY <3>2, DroppedAnswers
      <3> QED
        BY <2>1, <3>1, <3>2, FdOf
    <2>3. ASSUME NEW b \in BOOLEAN, object' = [object EXCEPT ![o].finished = b]
          PROVE  Listing'
      <3>1. object' = [object EXCEPT ![o] = [object[o] EXCEPT !.finished = b]]
        BY <2>3
      <3>2. /\ [object[o] EXCEPT !.finished = b].listed = object[o].listed
            /\ [object[o] EXCEPT !.finished = b].fd = object[o].fd
        BY <2>1 DEF Iterator
      <3>3. InListing([object[o] EXCEPT !.finished = b])
        BY <2>1, <3>2 DEF InListing
      <3> QED
        BY <2>1, <3>1, <3>3, SameCursor
    <2>4. (object[o].finished \/ object[o].kind = "listdir") \in BOOLEAN
      OBVIOUS
    <2>5. \/ object' = [object EXCEPT ![o].finished = TRUE]
          \/ object' = [object EXCEPT ![o].finished =
                          object[o].finished \/ object[o].kind = "listdir"]
      BY <1>4, <2>2 DEF EndOfEntries
    <2> QED
      BY <2>3, <2>4, <2>5
  <1>5. CASE CloseIterator(o)
    <2>1. object[o] \in Iterator /\ InListing(object[o])
      BY <1>5, IteratorOf DEF CloseIterator, Listing
    <2>2. /\ [object[o] EXCEPT !.fd = NoFd].listed = object[o].listed
          /\ [object[o] EXCEPT !.fd = NoFd].fd = NoFd
      BY <2>1 DEF Iterator
    <2>3. InListing([object[o] EXCEPT !.fd = NoFd])
      BY <2>1, <2>2, NoFdIsNone DEF InListing
    <2>4. object' = [object EXCEPT ![o] = [object[o] EXCEPT !.fd = NoFd]] /\ UNCHANGED cursor
      BY <1>5 DEF CloseIterator
    <2> QED
      BY <2>3, <2>4, SameCursor
  <1>6. CASE DestroyIterator(o)
    BY <1>6, SameCursor DEF DestroyIterator
  <1> QED
    BY <1>1, <1>2, <1>3, <1>4, <1>5, <1>6 DEF IteratorNext

LEMMA ListingNext ==
  ASSUME ~ReaddirMayFail, TypeOK, Ownership, Listing, [Next]_vars
  PROVE  Listing'
  <1>1. CASE Create \/ UNCHANGED vars
    BY <1>1, SameListing DEF Create, vars
  <1>2. ASSUME NEW o \in Object, WrapperNext(o) \/ IteratorNext(o) PROVE Listing'
    BY <1>2, WrapperStepListing, IteratorStepListing
  <1> QED
    BY <1>1, <1>2 DEF Next

LEMMA ListingInit == Init => Listing
  BY DEF Init, Listing, IsIterator

(* When readdir does not fail, an iterator gives the entries in order, each *)
(* once, without the dots, in a directory of any size that grows meanwhile, *)
(* with any number of other iterators over it.                              *)
THEOREM ListsEachOnceCorrect ==
  ASSUME ~ReaddirMayFail PROVE Spec => []ListsEachOnce
  <1>1. Init => Ownership /\ Listing
    BY OwnershipInit, ListingInit
  <1>2. TypeOK /\ (Ownership /\ Listing) /\ [Next]_vars => (Ownership /\ Listing)'
    BY OwnershipNext, ListingNext
  <1>3. Listing => ListsEachOnce
    BY DotsCardinality DEF Listing, InListing, ListsEachOnce
  <1> QED
    BY <1>1, <1>2, <1>3, TypeCorrect, PTL DEF Spec

(* What ListsAll says of a step.                                            *)
FinishesWithAll ==
  \A o \in Object :
    (IsIterator(o) /\ ~object[o].finished /\ IsIterator(o)' /\ object'[o].finished)
    => Len(object[o].listed) + Cardinality(Dots) = entries

LEMMA ListsAllStep ==
  ASSUME Directory \notin Foreign, ~ReaddirMayFail,
         TypeOK, Ownership, Listing, [Next]_vars
  PROVE  [FinishesWithAll]_vars
  <1> SUFFICES ASSUME NEW q \in Object, IsIterator(q), ~object[q].finished,
                      IsIterator(q)', object'[q].finished
               PROVE  Len(object[q].listed) + 2 = entries
    BY DotsCardinality DEF FinishesWithAll
  <1>1. object[q] \in Iterator
    BY IteratorOf
  <1>2. ASSUME NEW o \in Object, NEW v, object' = [object EXCEPT ![o] = v]
        PROVE  o = q /\ v = object'[q]
    <2>1. o = q
      BY <1>2 DEF TypeOK
    <2> QED
      BY <1>2, <2>1 DEF TypeOK
  <1>3. object' # object
    OBVIOUS
  <1>4. ASSUME NEW o \in Object, WrapperNext(o) PROVE FALSE
    <2>1. PICK v : object' = [object EXCEPT ![o] = v] /\ (object[o] = Nothing \/ IsWrapper(o))
      BY <1>3, <1>4 DEF WrapperNext, OpenFile, StartWrite, Write, Close, DestroyFile
    <2> QED
      BY <1>2, <2>1 DEF IsIterator, IsWrapper
  <1>5. ASSUME NEW o \in Object, IteratorNext(o)
        PROVE  o = q /\ EndOfEntries(q)
    <2>1. ASSUME NEW kind \in {"scandir", "listdir"}, Scandir(o, kind) PROVE FALSE
      BY <1>2, <2>1 DEF Scandir, IsIterator
    <2>2. CASE StartNext(o)
      BY <1>3, <2>2 DEF StartNext
    <2>3. CASE ReadEntry(o)
      <3>1. PICK entry : Yields(o, entry)
        BY <1>3, <2>3 DEF ReadEntry
      <3>2. object' = [object EXCEPT ![o] = [object[o] EXCEPT !.listed =
              IF Len(@) < MaxEntries THEN Append(@, entry) ELSE @]]
        BY <3>1 DEF Yields
      <3>3. o = q /\ object'[q] = [object[q] EXCEPT !.listed =
              IF Len(@) < MaxEntries THEN Append(@, entry) ELSE @]
        BY <1>2, <3>2
      <3>4. object'[q].finished = object[q].finished
        BY <1>1, <3>3 DEF Iterator
      <3> QED
        BY <3>4
    <2>4. CASE EndOfEntries(o)
      <3>1. PICK v : object' = [object EXCEPT ![o] = v]
        BY <2>4 DEF EndOfEntries, Yields
      <3> QED
        BY <1>2, <2>4, <3>1
    <2>5. CASE CloseIterator(o)
      <3>1. object' = [object EXCEPT ![o] = [object[o] EXCEPT !.fd = NoFd]]
        BY <2>5 DEF CloseIterator
      <3>2. object'[q] = [object[q] EXCEPT !.fd = NoFd]
        BY <1>2, <3>1
      <3>3. object'[q].finished = object[q].finished
        BY <1>1, <3>2 DEF Iterator
      <3> QED
        BY <3>3
    <2>6. CASE DestroyIterator(o)
      BY <1>2, <2>6 DEF DestroyIterator, IsIterator
    <2> QED
      BY <1>5, <2>1, <2>2, <2>3, <2>4, <2>5, <2>6 DEF IteratorNext
  <1>6. EndOfEntries(q)
    BY <1>3, <1>4, <1>5 DEF Next, Create, vars
  <1>7. CASE object[q].fd \in Fd
    <2>1. ~(cursor[object[q].fd] < entries)
      BY <1>6, <1>7, HeldAnswers DEF EndOfEntries
    <2>2. /\ cursor[object[q].fd] \in 0..entries /\ entries \in Nat /\ entries >= 2
      BY <1>7, DotsCardinality, ConstantsAssumption DEF TypeOK, ConstantsAssumption
    <2>3. Len(object[q].listed) =
            IF cursor[object[q].fd] <= 2 THEN 0 ELSE cursor[object[q].fd] - 2
      BY <1>7 DEF Listing, InListing
    <2> QED
      BY <2>1, <2>2, <2>3
  <1>8. CASE object[q].fd = NoFd
    <2>1. object[q].kind # "listdir"
      BY <1>1, <1>8, NoFdIsNone DEF Iterator
    <2>2. object' = [object EXCEPT ![q].finished = object[q].finished \/ object[q].kind = "listdir"]
      BY <1>6, <1>8, DroppedAnswers DEF EndOfEntries
    <2>3. object' = [object EXCEPT ![q] = [object[q] EXCEPT !.finished =
                       object[q].finished \/ object[q].kind = "listdir"]]
      BY <2>2
    <2>4. object'[q].finished = (object[q].finished \/ object[q].kind = "listdir")
      BY <1>1, <1>2, <2>3 DEF Iterator
    <2> QED
      BY <2>1, <2>4
  <1> QED
    BY <1>7, <1>8, FdOf

(* Under the same condition, and if the directory is CAPIO's, every entry   *)
(* there is has been given when next() says that there is nothing more.     *)
THEOREM ListsAllCorrect ==
  ASSUME Directory \notin Foreign, ~ReaddirMayFail PROVE Spec => ListsAll
  <1>1. Init => Ownership /\ Listing
    BY OwnershipInit, ListingInit
  <1>2. TypeOK /\ (Ownership /\ Listing) /\ [Next]_vars => (Ownership /\ Listing)'
    BY OwnershipNext, ListingNext
  <1>3. TypeOK /\ (Ownership /\ Listing) /\ [Next]_vars => [FinishesWithAll]_vars
    BY ListsAllStep
  <1>4. Spec => [][FinishesWithAll]_vars
    BY <1>1, <1>2, <1>3, TypeCorrect, PTL DEF Spec
  <1> QED
    BY <1>4 DEF ListsAll, FinishesWithAll
=============================================================================
