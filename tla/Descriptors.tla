----------------------------- MODULE Descriptors -----------------------------
(***************************************************************************)
(* The objects of one Python process that own a descriptor: IOWrapper (its *)
(* writing half and its lifetime, include/IOWrapper.hpp) and the directory *)
(* iterator ScandirIteratorWrapper, with the loop of listdir_proxy over    *)
(* it. Descriptors are numbers, CAPIO's and the kernel's in one table, and *)
(* a number is given out again once it is closed.                          *)
(*                                                                         *)
(* Calls into the extension hold the GIL, so one call is under way at a    *)
(* time; the directory grows meanwhile, by the work of other processes.    *)
(***************************************************************************)
EXTENDS Integers, Sequences, FiniteSets, Functions

CONSTANTS
  Object,         (* places for an IOWrapper or a ScandirIteratorWrapper     *)
  Nothing,        (* an empty place, or no object                            *)
  File,           (* paths of files                                          *)
  Directory,      (* path of the directory that is listed                    *)
  NoPath,         (* what a closed descriptor refers to                      *)
  Foreign,        (* paths that CAPIO declines: open() is used instead       *)
  MaxFd,          (* descriptors 1..MaxFd                                    *)
  MaxEntries,     (* bound on the entries of the directory                   *)
  MaxLines,       (* bound on the lines of one writelines                    *)
  MaxWrites,      (* bound on the lines that reach the files                 *)
  ReaddirMayFail, (* may libcapio_readdir return a negative value            *)
  UseAfterClose   (* do callers write through a wrapper they have closed     *)

Path == File \cup {Directory}

Fd == 1..MaxFd

NoFd == -1

(* Entries are numbered as they are created; "." and ".." come first.       *)
Dots == {1, 2}

VARIABLES
  opened,    (* the path each descriptor refers to                           *)
  cursor,    (* entries already read through each descriptor, kept by CAPIO  *)
  object,    (* the objects of the process                                   *)
  call,      (* the method under way: of which object, and how many lines    *)
             (* it was asked to write and has left                           *)
  entries,   (* how many entries the directory has                           *)
  contents,  (* the lines that reached each file: the path given to open by  *)
             (* whoever wrote them, and whether they are whole               *)
  acked      (* history: lines of calls that returned, per path given to open*)

vars == <<opened, cursor, object, call, entries, contents, acked>>

-----------------------------------------------------------------------------
Line == [meant : File, whole : BOOLEAN]

Call == [of : Object, asked : 0..MaxLines, left : 0..MaxLines]

(* closed is _closed of an IOWrapper; a ScandirIteratorWrapper has finished *)
(* and drops its descriptor when it is closed, which listdir_proxy never    *)
(* does. listed is history.                                                 *)
Wrapper == [kind : {"file"}, path : File, fd : Fd \cup {NoFd}, closed : BOOLEAN]

Iterator ==
  [kind : {"scandir"}, fd : Fd \cup {NoFd}, finished : BOOLEAN,
   listed : Seq(0..MaxEntries)]
  \cup
  [kind : {"listdir"}, fd : Fd, finished : BOOLEAN, listed : Seq(0..MaxEntries)]

ASSUME ConstantsAssumption ==
  /\ Directory \notin File /\ NoPath \notin Path
  /\ Foreign \subseteq Path
  /\ MaxFd \in Nat /\ MaxEntries \in Nat /\ MaxEntries >= Cardinality(Dots)
  /\ MaxLines \in Nat /\ MaxWrites \in Nat
  /\ ReaddirMayFail \in BOOLEAN /\ UseAfterClose \in BOOLEAN
  /\ Nothing \notin Wrapper \cup Iterator \cup Call

IsWrapper(o) == object[o] # Nothing /\ object[o].kind = "file"

IsIterator(o) == object[o] # Nothing /\ object[o].kind # "file"

Target(fd) == IF fd = NoFd THEN NoPath ELSE opened[fd]

Free == {fd \in Fd : opened[fd] = NoPath}

Init ==
  /\ opened = [fd \in Fd |-> NoPath]
  /\ cursor = [fd \in Fd |-> 0]
  /\ object = [o \in Object |-> Nothing]
  /\ call = Nothing
  /\ entries = Cardinality(Dots)
  /\ contents = [p \in File |-> <<>>]
  /\ acked = [p \in File |-> 0]

Create ==
  /\ entries < MaxEntries
  /\ entries' = entries + 1
  /\ UNCHANGED <<opened, cursor, object, call, contents, acked>>

Idle == call = Nothing

Begins(o, lines) == call' = [of |-> o, asked |-> lines, left |-> lines]

InNext(o) == ~Idle /\ call.of = o /\ IsIterator(o)

InWrite(o) == ~Idle /\ call.of = o /\ IsWrapper(o)

(* libcapio_open, or open() for a path that CAPIO declines.                 *)
Opens(fd, p) ==
  /\ fd \in Free
  /\ opened' = [opened EXCEPT ![fd] = p]
  /\ cursor' = [cursor EXCEPT ![fd] = 0]

(* libcapio_close: there is no close() for the descriptors open() gave.     *)
libcapio_close(fd) ==
  opened' = IF Target(fd) \in Path \ Foreign THEN [opened EXCEPT ![fd] = NoPath]
                                             ELSE opened

-----------------------------------------------------------------------------
(* IOWrapper                                                                *)

NewWrapper(p, fd) == [kind |-> "file", path |-> p, fd |-> fd, closed |-> FALSE]

(* open_proxy builds its wrapper on whatever pycapio_open returned.         *)
OpenFile(o, p) ==
  /\ Idle /\ object[o] = Nothing
  /\ \/ \E fd \in Free :
          Opens(fd, p) /\ object' = [object EXCEPT ![o] = NewWrapper(p, fd)]
     \/ /\ object' = [object EXCEPT ![o] = NewWrapper(p, NoFd)]
        /\ UNCHANGED <<opened, cursor>>
  /\ UNCHANGED <<call, entries, contents, acked>>

(* writelines, or write as one line of it. No method looks at _closed.      *)
StartWrite(o) ==
  /\ Idle /\ IsWrapper(o)
  /\ ~object[o].closed \/ UseAfterClose
  /\ \E lines \in 1..MaxLines : Begins(o, lines)
  /\ UNCHANGED <<opened, cursor, object, entries, contents, acked>>

(* What libcapio_write leaves in the file: the line or a part of it.        *)
Reaches(o, p, whole) ==
  /\ p \in File
  /\ FoldFunction(LAMBDA lines, total : Len(lines) + total, 0, contents) < MaxWrites
  /\ contents' = [contents EXCEPT
       ![p] = Append(@, [meant |-> object[o].path, whole |-> whole])]

(* The last line has been written: the call returns.                        *)
NextLine(o) ==
  /\ call' = IF call.left = 1 THEN Nothing ELSE [call EXCEPT !.left = @ - 1]
  /\ acked' = [acked EXCEPT
       ![object[o].path] = IF call.left = 1 THEN @ + call.asked ELSE @]

(* A short write raises, but what was written is in the file; a closed or   *)
(* unknown descriptor, or an error, only raises.                            *)
Raises(o) ==
  /\ call' = Nothing
  /\ \/ Reaches(o, Target(object[o].fd), FALSE)
     \/ UNCHANGED contents
  /\ UNCHANGED acked

(* Mutant: only an error raises, a short write does not.                    *)
WriteUnchecked(o) ==
  /\ InWrite(o)
  /\ \/ (\E whole \in BOOLEAN : Reaches(o, Target(object[o].fd), whole)) /\ NextLine(o)
     \/ call' = Nothing /\ UNCHANGED <<contents, acked>>
  /\ UNCHANGED <<opened, cursor, object, entries>>

Write(o) ==
  /\ InWrite(o)
  /\ \/ Reaches(o, Target(object[o].fd), TRUE) /\ NextLine(o)
     \/ Raises(o)
  /\ UNCHANGED <<opened, cursor, object, entries>>

(* Mutant: _closed is not set.                                              *)
CloseForgotten(o) ==
  /\ Idle /\ IsWrapper(o)
  /\ IF object[o].closed THEN UNCHANGED opened ELSE libcapio_close(object[o].fd)
  /\ UNCHANGED <<cursor, object, call, entries, contents, acked>>

Close(o) ==
  /\ Idle /\ IsWrapper(o)
  /\ IF object[o].closed THEN UNCHANGED opened ELSE libcapio_close(object[o].fd)
  /\ object' = [object EXCEPT ![o].closed = TRUE]
  /\ UNCHANGED <<cursor, call, entries, contents, acked>>

(* ~IOWrapper, when Python drops its last reference to the object.          *)
DestroyFile(o) ==
  /\ Idle /\ IsWrapper(o)
  /\ IF object[o].closed THEN UNCHANGED opened ELSE libcapio_close(object[o].fd)
  /\ object' = [object EXCEPT ![o] = Nothing]
  /\ UNCHANGED <<cursor, call, entries, contents, acked>>

-----------------------------------------------------------------------------
(* ScandirIteratorWrapper, used by a caller of scandir or by listdir_proxy  *)

NewIterator(kind, fd) == [kind |-> kind, fd |-> fd, finished |-> FALSE, listed |-> <<>>]

(* Mutant: a failed libcapio_open does not raise.                           *)
ScandirUnchecked(o, kind) ==
  /\ Idle /\ object[o] = Nothing
  /\ \/ \E fd \in Free : /\ Opens(fd, Directory)
                          /\ object' = [object EXCEPT ![o] = NewIterator(kind, fd)]
     \/ /\ object' = [object EXCEPT ![o] = NewIterator(kind, NoFd)]
        /\ UNCHANGED <<opened, cursor>>
  /\ UNCHANGED <<call, entries, contents, acked>>

(* A failed libcapio_open raises: there is no object.                       *)
Scandir(o, kind) ==
  /\ Idle /\ object[o] = Nothing
  /\ \E fd \in Free : /\ Opens(fd, Directory)
                       /\ object' = [object EXCEPT ![o] = NewIterator(kind, fd)]
  /\ UNCHANGED <<call, entries, contents, acked>>

(* next() on an iterator that is not finished; listdir_proxy calls it until *)
(* it raises StopIteration.                                                 *)
StartNext(o) ==
  /\ Idle /\ IsIterator(o)
  /\ ~object[o].finished
  /\ Begins(o, 0)
  /\ UNCHANGED <<opened, cursor, object, entries, contents, acked>>

(* What libcapio_readdir answers: the next entry, 0 at the end, a negative  *)
(* value (which stores no entry), or an exception for a descriptor that is  *)
(* not CAPIO's.                                                             *)
Answers(fd) ==
  IF Target(fd) \notin Path \ Foreign THEN {"exception"}
  ELSE (IF Target(fd) # Directory THEN {"negative"}
        ELSE IF cursor[fd] < entries THEN {"entry"} ELSE {"zero"})
       \cup (IF ReaddirMayFail THEN {"negative"} ELSE {})

(* The caller gets an entry, 0 standing for the one with the empty name;    *)
(* the history stops at MaxEntries of them.                                 *)
Yields(o, entry) ==
  /\ object' = [object EXCEPT ![o].listed =
                  IF Len(@) < MaxEntries THEN Append(@, entry) ELSE @]
  /\ call' = Nothing

(* Mutant: only "." is skipped.                                             *)
ReadEntryShowsDotDot(o) ==
  /\ InNext(o)
  /\ "entry" \in Answers(object[o].fd)
  /\ LET fd == object[o].fd
         entry == cursor[fd] + 1
     IN /\ cursor' = [cursor EXCEPT ![fd] = entry]
        /\ IF entry = 1 THEN UNCHANGED <<object, call>> ELSE Yields(o, entry)
  /\ UNCHANGED <<opened, entries, contents, acked>>

(* Mutant: the comparison with 0 is inverted, an entry is taken for the end.*)
ReadEntryFinishes(o) ==
  /\ InNext(o)
  /\ "entry" \in Answers(object[o].fd)
  /\ object' = [object EXCEPT ![o].finished = TRUE]
  /\ call' = Nothing
  /\ cursor' = [cursor EXCEPT ![object[o].fd] = @ + 1]
  /\ UNCHANGED <<opened, entries, contents, acked>>

(* "." and ".." make next() call itself.                                    *)
ReadEntry(o) ==
  /\ InNext(o)
  /\ "entry" \in Answers(object[o].fd)
  /\ LET fd == object[o].fd
         entry == cursor[fd] + 1
     IN /\ cursor' = [cursor EXCEPT ![fd] = entry]
        /\ IF entry \in Dots THEN UNCHANGED <<object, call>> ELSE Yields(o, entry)
  /\ UNCHANGED <<opened, entries, contents, acked>>

(* Mutant: the end is not remembered, and not told.                         *)
EndOfEntriesForgotten(o) ==
  /\ InNext(o)
  /\ call' = Nothing
  /\ UNCHANGED <<opened, cursor, object, entries, contents, acked>>

(* Only 0 is the end: any other answer that is not an entry yields one with *)
(* an empty name, or raises, which ends the loop of listdir_proxy (recorded *)
(* in finished, which nobody reads any more).                               *)
EndOfEntries(o) ==
  /\ InNext(o)
  /\ \E answer \in Answers(object[o].fd) \ {"entry"} :
       \/ /\ answer = "zero"
          /\ object' = [object EXCEPT ![o].finished = TRUE]
          /\ call' = Nothing
       \/ answer = "negative" /\ Yields(o, 0)
       \/ /\ answer = "exception"
          /\ object' = [object EXCEPT ![o].finished = @ \/ object[o].kind = "listdir"]
          /\ call' = Nothing
  /\ UNCHANGED <<opened, cursor, entries, contents, acked>>

(* close(): the descriptor is dropped, so that it is closed once.           *)
CloseIterator(o) ==
  /\ Idle /\ IsIterator(o) /\ object[o].kind = "scandir"
  /\ libcapio_close(object[o].fd)
  /\ object' = [object EXCEPT ![o].fd = NoFd]
  /\ UNCHANGED <<cursor, call, entries, contents, acked>>

(* Mutant: the destructor does not close.                                   *)
DestroyIteratorOnly(o) ==
  /\ Idle /\ IsIterator(o)
  /\ object[o].kind = "listdir" => object[o].finished
  /\ object' = [object EXCEPT ![o] = Nothing]
  /\ UNCHANGED <<opened, cursor, call, entries, contents, acked>>

(* ~ScandirIteratorWrapper; that of listdir_proxy when its loop has ended.  *)
DestroyIterator(o) ==
  /\ Idle /\ IsIterator(o)
  /\ object[o].kind = "listdir" => object[o].finished
  /\ libcapio_close(object[o].fd)
  /\ object' = [object EXCEPT ![o] = Nothing]
  /\ UNCHANGED <<cursor, call, entries, contents, acked>>

-----------------------------------------------------------------------------
WrapperNext(o) ==
  \/ \E p \in File : OpenFile(o, p)
  \/ StartWrite(o)
  \/ Write(o)
  \/ Close(o)
  \/ DestroyFile(o)

IteratorNext(o) ==
  \/ \E kind \in {"scandir", "listdir"} : Scandir(o, kind)
  \/ StartNext(o)
  \/ ReadEntry(o)
  \/ EndOfEntries(o)
  \/ CloseIterator(o)
  \/ DestroyIterator(o)

Next == Create \/ \E o \in Object : WrapperNext(o) \/ IteratorNext(o)

Spec == Init /\ [][Next]_vars

(* listdir_proxy is a loop: what it has begun goes on, and when it is over  *)
(* its iterator is destroyed. A method under way goes on too.               *)
ListdirStep(o) ==
  /\ IsIterator(o) /\ object[o].kind = "listdir"
  /\ StartNext(o) \/ DestroyIterator(o)

Fairness ==
  \A o \in Object : /\ WF_vars(Write(o) \/ ReadEntry(o) \/ EndOfEntries(o))
                    /\ SF_vars(ListdirStep(o))

FairSpec == Spec /\ Fairness

-----------------------------------------------------------------------------
(* Properties                                                               *)

(* Type correctness. An iterator of listdir_proxy has a descriptor as long  *)
(* as it exists; nothing is read past the end of the directory.             *)
TypeOK ==
  /\ opened \in [Fd -> Path \cup {NoPath}]
  /\ entries \in Cardinality(Dots)..MaxEntries
  /\ cursor \in [Fd -> 0..entries]
  /\ object \in [Object -> Wrapper \cup Iterator \cup {Nothing}]
  /\ call \in Call \cup {Nothing}
  /\ contents \in [File -> Seq(Line)]
  /\ acked \in [File -> Nat]

(* What is written through a wrapper goes to the file its caller opened,    *)
(* although a descriptor's number is given out again after close() and the  *)
(* destructor of a wrapper calls close() a second time.                     *)
OwnFileOnly ==
  \A p \in File : \A i \in DOMAIN contents[p] : contents[p][i].meant = p

(* A write or writelines that returned has written each of its lines whole  *)
(* to the file: one that stopped half way, with some lines written, raised. *)
AckedMeansWritten ==
  \A p \in File :
    acked[p] <= Cardinality({i \in DOMAIN contents[p] :
                               contents[p][i] = [meant |-> p, whole |-> TRUE]})

(* The object that still owns a descriptor.                                 *)
Owns(o, fd) ==
  /\ object[o] # Nothing /\ object[o].fd = fd
  /\ IsWrapper(o) => ~object[o].closed

(* Destructors and close() together neither lose a descriptor of CAPIO's    *)
(* nor close that of another object: what is open on one of CAPIO's paths   *)
(* has an owner, which will close it, what is closed has none, and no       *)
(* descriptor has two, those of declined paths, which stay open, included.  *)
OneOwner ==
  \A fd \in Fd :
    /\ \A o, other \in Object : Owns(o, fd) /\ Owns(other, fd) => o = other
    /\ opened[fd] = NoPath => \A o \in Object : ~Owns(o, fd)
    /\ opened[fd] \in Path \ Foreign => \E o \in Object : Owns(o, fd)

(* An iterator has given entries of the directory in their order, each      *)
(* once, without "." and "..", although next() is entered again for these   *)
(* and the directory grows meanwhile.                                       *)
ListsEachOnce ==
  \A o \in Object : IsIterator(o) =>
    \A i \in DOMAIN object[o].listed : object[o].listed[i] = i + Cardinality(Dots)

(* When next() says that there is nothing more, it has given every entry    *)
(* that is there, those created during the listing included.                *)
ListsAll ==
  [][\A o \in Object :
       (IsIterator(o) /\ ~object[o].finished /\ IsIterator(o)' /\ object'[o].finished)
       => Len(object[o].listed) + Cardinality(Dots) = entries]_vars

(* listdir_proxy returns, once the directory no longer grows.               *)
ListdirReturns ==
  \A o \in Object :
    IsIterator(o) /\ object[o].kind = "listdir" ~> object[o] = Nothing
=============================================================================
