------------------------------- MODULE Proxies -------------------------------
(***************************************************************************)
(* A program inside a CapioContext: it computes paths with the replacement *)
(* of os.path, and gives them to the proxies of pycapio/__init__.py, which *)
(* choose between CAPIO and the original functions; other processes of the *)
(* workflow create files through CAPIO meanwhile.                          *)
(*                                                                         *)
(* Two trees: what CAPIO has, and what the kernel has. The contents of     *)
(* files are in IOWrapper and Descriptors; here a file has a size. Moving  *)
(* the working directory is not intercepted.                               *)
(***************************************************************************)
EXTENDS OsPath, TLC

CONSTANTS
  Location,     (* the locations there are, prefix-closed                      *)
  CAPIO_DIR,    (* location of the CAPIO directory: its absolute path        *)
  StartDir,     (* location the program starts in                            *)
  NamePrefix,   (* pairs <<n, m>>: the string n is a proper prefix of m      *)
  TracksCwd,    (* does CAPIO resolve relative paths from the current        *)
                (* directory, or from the one it was initialised in          *)
  StatMayFail,  (* may a stat fail with an error other than ENOENT           *)
  Operand,      (* paths that the program writes as literals                 *)
  Mode,         (* modes it opens with                                       *)
  Departing,    (* does it call the path functions also where they are       *)
                (* known to differ from Python's                             *)
  MaxLength,    (* bound on those of a path                                  *)
  MaxSize       (* bound on the size of a file                               *)

(* mode strings: the letter, and is there a "+".                            *)
Letter == {"r", "w", "a", "x"}

ASSUME ConstantsAssumption ==
  /\ Location \subseteq Seq(Name)
  /\ \A loc \in Location : \A n \in 0..Len(loc) : SubSeq(loc, 1, n) \in Location
  /\ CAPIO_DIR \in Location
  /\ StartDir \in Location
  /\ NamePrefix \subseteq Name \X Name
  /\ {TracksCwd, StatMayFail, Departing} \subseteq BOOLEAN
  /\ Operand \subseteq Py!Path
  /\ Mode \subseteq [letter : Letter, plus : BOOLEAN]
  /\ {MaxLength, MaxSize} \subseteq Nat

VARIABLES
  path,      (* the path the program has computed                            *)
  ref_path,  (* what it would have with Python's os.path: history            *)
  cwd,       (* location of its working directory                            *)
  capio,     (* the tree that CAPIO has                                      *)
  disk,      (* the tree that the kernel has                                 *)
  reply      (* what the last call of the program answered: history          *)

vars == <<path, ref_path, cwd, capio, disk, reply>>

-----------------------------------------------------------------------------
(* Trees                                                                    *)

Node == [kind : {"none", "dir"}, size : {0}] \cup [kind : {"file"}, size : 0..MaxSize]

Absent == [kind |-> "none", size |-> 0]
Directory == [kind |-> "dir", size |-> 0]
NewFile == [kind |-> "file", size |-> 0]

(* Does loc lie in the CAPIO directory, or is it that directory.            *)
Inside(loc) == IsPrefix(CAPIO_DIR, loc)

(* The one tree that the program is meant to see.                           *)
Seen(loc) == IF Inside(loc) THEN capio[loc] ELSE disk[loc]

Children(tree, loc) == {n \in Name : /\ Append(loc, n) \in Location
                                     /\ tree[Append(loc, n)].kind # "none"}

HasParent(tree, loc) == loc # <<>> /\ tree[Front(loc)].kind = "dir"

Ancestors(loc) == {SubSeq(loc, 1, n) : n \in 0..(Len(loc) - 1)}

(* CAPIO creates loc, and what is missing above it in its directory.        *)
CapioCreates(loc, node) ==
  capio' = [l \in Location |->
              IF l = loc THEN node
              ELSE IF l \in Ancestors(loc) /\ Inside(l) /\ capio[l].kind = "none"
                THEN Directory
                ELSE capio[l]]

CapioMayCreate(loc) ==
  /\ capio[loc].kind = "none"
  /\ \A l \in Ancestors(loc) : capio[l].kind # "file"

NoReply == [op |-> "none"]

Init ==
  /\ path = Py!Empty
  /\ ref_path = Py!Empty
  /\ cwd = StartDir
  /\ capio = [l \in Location |-> IF l = CAPIO_DIR THEN Directory ELSE Absent]
  /\ disk = [l \in Location |->
               IF l \in {CAPIO_DIR, StartDir} \cup Ancestors(CAPIO_DIR) \cup Ancestors(StartDir)
                 THEN Directory ELSE Absent]
  /\ reply = NoReply

trees == <<capio, disk>>
program == <<path, ref_path, cwd>>

-----------------------------------------------------------------------------
(* The program computes a path. ref is what Python's function would give.   *)

Compute(new, ref) ==
  /\ Len(new.names) <= MaxLength
  /\ path' = new
  /\ ref_path' = ref
  /\ reply' = NoReply
  /\ UNCHANGED <<cwd, trees>>

Literal(p) == Compute(p, p)

Join(p) ==
  /\ Departing \/ p # Py!Empty
  /\ Compute(join(path, p), Py!join(ref_path, p))

Dirname == Compute(dirname(path), Py!dirname(ref_path))

Basename == Compute(basename(path), Py!basename(ref_path))

(* It differs on a path that ends with a slash or a dot: the slash stays.   *)
Normpath ==
  /\ Departing \/ path = Py!Empty \/ Py!NamesFile(path)
  /\ Compute(normpath(path), Py!normpath(ref_path))

(* It differs on a path with dots or a final slash, which are left in it.   *)
Abspath ==
  /\ Departing \/ ~(Py!HasDots(path) \/ path.slash)
  /\ ~abspathThrows(path)
  /\ Compute(abspath(cwd, path), Py!abspath(cwd, ref_path))

(* It differs where the kernel has nothing, hence on CAPIO's own files.     *)
Realpath ==
  LET loc == Py!LocationOf(cwd, path)
      on_disk == loc \in Location /\ disk[loc].kind # "none"
  IN /\ Departing \/ on_disk
     /\ Compute(realpath(cwd, path, on_disk), Py!realpath(cwd, ref_path))

PathCall ==
  \/ \E p \in Operand : Literal(p) \/ Join(p)
  \/ Dirname
  \/ Basename
  \/ Normpath
  \/ Abspath
  \/ Realpath

-----------------------------------------------------------------------------
(* Routing                                                                  *)

(* Mutant: relative paths are taken from where the program started.         *)
TargetFromStart == Py!LocationOf(StartDir, path)

(* target_path, the original abspath of the argument.                       *)
target_path == Py!LocationOf(cwd, path)

(* Mutant: the argument is compared as it is, not its absolute path.        *)
RoutedAsWritten ==
  /\ path.root
  /\ IsPrefix(CAPIO_DIR, path.names)

(* target_path.startswith(_CAPIO_DIR): a prefix of the STRING, so that the  *)
(* last component may go on.                                                *)
Routed ==
  LET n == Len(CAPIO_DIR)
  IN /\ Len(target_path) >= n
     /\ n > 0 =>
          /\ IsPrefix(Front(CAPIO_DIR), target_path)
          /\ \/ target_path[n] = Last(CAPIO_DIR)
             \/ <<Last(CAPIO_DIR), target_path[n]>> \in NamePrefix

(* Where a path given to CAPIO as it is leads it.                           *)
CapioLocation == Py!LocationOf(IF TracksCwd THEN cwd ELSE StartDir, path)

Usable == target_path \in Location /\ CapioLocation \in Location

(* A call that changes nothing and answers nothing the program can use: it  *)
(* raises, or returns an error code.                                        *)
Declined == reply' = NoReply /\ UNCHANGED <<program, trees>>

Unless(refused, step) == IF refused THEN Declined ELSE step
-----------------------------------------------------------------------------
(* open_proxy                                                               *)

Flag == {"O_WRONLY", "O_RDWR", "O_CREAT", "O_APPEND"}

(* Mutant: the "+" is looked at first, and hides the letter.               *)
FlagsPlusHides(mode) ==
  IF mode.plus THEN {"O_RDWR"}
  ELSE IF mode.letter = "w" THEN {"O_WRONLY", "O_CREAT"}
  ELSE IF mode.letter = "a" THEN {"O_WRONLY", "O_APPEND"}
  ELSE {}

(* The mode string into flags; O_RDONLY is 0. No O_TRUNC, and no O_CREAT    *)
(* but for "w".                                                             *)
FlagsOf(mode) ==
  (IF mode.plus THEN {"O_RDWR"} ELSE IF mode.letter \in {"w", "a"} THEN {"O_WRONLY"} ELSE {})
    \cup (IF mode.letter = "w" THEN {"O_CREAT"} ELSE {})
    \cup (IF mode.letter = "a" THEN {"O_APPEND"} ELSE {})

Writes(flags) == flags \cap {"O_WRONLY", "O_RDWR"} # {}

(* What open may do of a node: find a file, or a directory to read.         *)
Opens(node, flags) == node.kind = "file" \/ (node.kind = "dir" /\ ~Writes(flags))

OpenAnswers(loc, mode, flags, opened) ==
  reply' = [op |-> "open", loc |-> loc, before |-> capio[loc].kind,
            mode |-> mode, flags |-> flags, opened |-> opened]

(* libcapio_open in CAPIO. On a negative descriptor the wrapper is built    *)
(* all the same, and no call on it does anything.                           *)
CapioOpen(loc, mode, flags) ==
  LET creates == "O_CREAT" \in flags /\ CapioMayCreate(loc)
  IN /\ OpenAnswers(loc, mode, flags, Opens(capio[loc], flags) \/ creates)
     /\ IF creates THEN CapioCreates(loc, NewFile) ELSE UNCHANGED capio
     /\ UNCHANGED <<program, disk>>

(* libcapio_open where CAPIO declines, and the original open with the flags *)
(* Python derives: both are open(2).                                        *)
KernelOpen(loc, flags) ==
  Unless("O_CREAT" \notin flags \/ disk[loc].kind # "none" \/ ~HasParent(disk, loc),
         /\ disk' = [disk EXCEPT ![loc] = NewFile]
         /\ reply' = NoReply
         /\ UNCHANGED <<program, capio>>)

(* Python's own flags, as far as they decide what is created.               *)
PythonFlags(mode) == FlagsOf(mode) \cup (IF mode.letter # "r" THEN {"O_CREAT"} ELSE {})

open_proxy(mode) ==
  /\ Usable
  /\ IF Routed
       THEN IF Inside(target_path)
              THEN CapioOpen(target_path, mode, FlagsOf(mode))
              ELSE KernelOpen(target_path, FlagsOf(mode))
       ELSE KernelOpen(target_path, PythonFlags(mode))

-----------------------------------------------------------------------------
(* The other proxies. Where the string matches and CAPIO declines, the      *)
(* extension raises.                                                        *)

(* libcapio_mkdir: a negative result comes back to the caller as a number.  *)
pycapio_mkdir(loc) ==
  Unless(~Inside(loc) \/ ~CapioMayCreate(loc),
         /\ CapioCreates(loc, Directory)
         /\ reply' = NoReply
         /\ UNCHANGED <<program, disk>>)

os_mkdir(loc) ==
  Unless(disk[loc].kind # "none" \/ ~HasParent(disk, loc),
         /\ disk' = [disk EXCEPT ![loc] = Directory]
         /\ reply' = NoReply
         /\ UNCHANGED <<program, capio>>)

mkdir_proxy ==
  /\ Usable
  /\ IF Routed THEN pycapio_mkdir(target_path) ELSE os_mkdir(target_path)

(* os.makedirs looks up split and exists in os.path, where it finds the     *)
(* replacements: exists raises on a parent that CAPIO declines. What is     *)
(* left is a path of one component, given to mkdir, which is the proxy.     *)
os_makedirs(p) ==
  LET whole == IF p.slash THEN split(p)[1] ELSE p
  IN Unless(split(whole)[1] # Py!Empty, os_mkdir(target_path))

makedirs_proxy ==
  /\ Usable
  /\ IF Routed THEN pycapio_mkdir(target_path) ELSE os_makedirs(path)

(* What the program means by the path it should have.                       *)
Meant == Py!LocationOf(cwd, ref_path)

Answer(answer) ==
  /\ reply' = answer
  /\ UNCHANGED <<program, trees>>

(* Descriptors has the listing entry by entry, while it goes on.            *)
Lists(tree, loc) ==
  Unless(tree[loc].kind # "dir",
         Answer([op |-> "list", loc |-> Meant, names |-> Children(tree, loc)]))

(* The listing of the path as it was given, not of target_path.             *)
scandir_proxy ==
  /\ Usable
  /\ IF Routed
       THEN Unless(~Inside(CapioLocation), Lists(capio, CapioLocation))
       ELSE Lists(disk, target_path)

listdir_proxy ==
  /\ Usable
  /\ IF Routed
       THEN Unless(~Inside(target_path), Lists(capio, target_path))
       ELSE Lists(disk, target_path)

-----------------------------------------------------------------------------
(* Queries of os.path: never routed, they raise where CAPIO declines.       *)

Query(Result(_)) ==
  /\ Usable
  /\ \E fails \in BOOLEAN :
       /\ fails => StatMayFail
       /\ Unless(~Inside(CapioLocation),
                 Answer(Result(libcapio_stat(capio[CapioLocation], fails))))

YesOrNo(op, yes) == [op |-> op, loc |-> Meant, yes |-> yes]

Queries ==
  \/ Query(LAMBDA stat : YesOrNo("exists", exists(stat)))
  \/ Query(LAMBDA stat : YesOrNo("isfile", isfile(stat)))
  \/ Query(LAMBDA stat : YesOrNo("isdir", isdir(stat)))
  \/ Query(LAMBDA stat : [op |-> "getsize", loc |-> Meant, size |-> getsize(stat)])

(* os.chdir is not intercepted.                                             *)
chdir ==
  /\ target_path \in Location
  /\ disk[target_path].kind = "dir"
  /\ cwd' = target_path
  /\ reply' = NoReply
  /\ UNCHANGED <<path, ref_path, trees>>

-----------------------------------------------------------------------------
(* Other processes of the workflow, through CAPIO.                          *)

OthersCreate(loc, node) ==
  /\ Inside(loc)
  /\ CapioMayCreate(loc)
  /\ CapioCreates(loc, node)
  /\ reply' = NoReply
  /\ UNCHANGED <<program, disk>>

OthersWrite(loc) ==
  /\ capio[loc].kind = "file"
  /\ capio[loc].size < MaxSize
  /\ capio' = [capio EXCEPT ![loc].size = @ + 1]
  /\ reply' = NoReply
  /\ UNCHANGED <<program, disk>>

Next ==
  \/ PathCall
  \/ \E mode \in Mode : open_proxy(mode)
  \/ mkdir_proxy
  \/ makedirs_proxy
  \/ scandir_proxy
  \/ listdir_proxy
  \/ Queries
  \/ chdir
  \/ \E loc \in Location, node \in {NewFile, Directory} : OthersCreate(loc, node)
  \/ \E loc \in Location : OthersWrite(loc)

Spec == Init /\ [][Next]_vars
-----------------------------------------------------------------------------
(* Properties                                                               *)

ReplyOK ==
  \/ reply = NoReply
  \/ /\ reply.loc \in Location
     /\ \/ reply.op \in {"exists", "isfile", "isdir"} /\ reply.yes \in BOOLEAN
        \/ reply.op = "getsize" /\ reply.size \in 0..MaxSize
        \/ reply.op = "list" /\ reply.names \subseteq Name
        \/ /\ reply.op = "open"
           /\ reply.opened \in BOOLEAN
           /\ reply.mode \in Mode
           /\ reply.flags \subseteq Flag

(* Every variable stays in its range: paths stay paths whatever functions   *)
(* they go through, nodes stay nodes, and a query answers with a truth      *)
(* value, a size that is not negative, or names.                            *)
TypeOK ==
  /\ path \in Py!Path
  /\ ref_path \in Py!Path
  /\ cwd \in Location
  /\ capio \in [Location -> Node]
  /\ disk \in [Location -> Node]
  /\ ReplyOK

(* Whatever way a path is written, relative to a directory that moves, with *)
(* dots, or computed, a call creates nothing in the CAPIO directory but     *)
(* through CAPIO, and nothing outside of it through CAPIO (docstring of     *)
(* CapioContext: "I/O on paths inside this directory is intercepted;        *)
(* everything else falls back to the standard library").                    *)
OnlyInside ==
  [][\A loc \in Location :
       /\ Inside(loc) => disk'[loc] = disk[loc]
       /\ ~Inside(loc) => capio'[loc] = capio[loc]]_vars

(* A query or listing that answers says what is at the place the program    *)
(* means, be it in CAPIO or on disk, created by the program under another   *)
(* name of the place or by another process. Of isdir and getsize only where *)
(* something is: isdir says TRUE, and getsize 0, of what does not exist.    *)
AnswersAgree ==
  LET node == Seen(reply.loc)
      there == node.kind # "none"
  IN /\ reply.op = "exists" => reply.yes = there
     /\ reply.op = "isfile" => reply.yes = (node.kind = "file")
     /\ reply.op = "isdir" /\ there => reply.yes = (node.kind = "dir")
     /\ reply.op = "getsize" /\ there => reply.size = node.size
     /\ reply.op = "list" =>
          reply.names = Children(IF Inside(reply.loc) THEN capio ELSE disk, reply.loc)

(* A sequence of path functions leads to the file, and to the extension, to *)
(* which Python's lead, where Departing does not allow the calls known to   *)
(* differ (class OsPath: "mirrors the semantics of the corresponding        *)
(* os.path function").                                                      *)
SameFile ==
  /\ target_path = Meant
  /\ isabs(path) = Py!isabs(ref_path)
  /\ splitext(normcase(path), "")[2] = Py!splitext(ref_path, "")[2]

(* A file opened in CAPIO with a mode other than "x" can be read and        *)
(* written as its mode says, and only "a" appends; "w" creates what is not  *)
(* there and leaves a file. The others open only what was there: "r", as in *)
(* Python, and "a", for which Python creates and the code has no O_CREAT.   *)
OpenHonoursMode ==
  reply.op = "open" =>
    LET mode == reply.mode
        flags == reply.flags
    IN /\ Writes(flags) = (mode.plus \/ mode.letter # "r")
       /\ ("O_WRONLY" \notin flags) = (mode.plus \/ mode.letter = "r")
       /\ ("O_APPEND" \in flags) = (mode.letter = "a")
       /\ mode.letter = "w" /\ reply.opened => Seen(reply.loc).kind = "file"
       /\ mode.letter = "w" /\ reply.before = "none" =>
            (reply.opened \/ ~HasParent(capio, reply.loc))
       /\ mode.letter # "w" /\ reply.opened => reply.before # "none"

(* A call of the program changes nothing that is there already, and creates *)
(* nothing but a file or a directory at the place that the program means    *)
(* and, in CAPIO, the directories missing above it.                         *)
CreatesWhatIsMeant ==
  [][trees' # trees /\ ((\E mode \in Mode : open_proxy(mode)) \/ mkdir_proxy \/ makedirs_proxy)
       => /\ Seen(Meant).kind = "none"
          /\ Seen(Meant)' \in {NewFile, Directory}
          /\ \A loc \in Location : Seen(loc)' # Seen(loc) =>
               /\ Seen(loc).kind = "none"
               /\ loc # Meant => /\ Inside(loc) /\ loc \in Ancestors(Meant)
                                 /\ Seen(loc)' = Directory]_vars
=============================================================================
