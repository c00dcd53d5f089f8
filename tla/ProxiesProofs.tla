---------------------------- MODULE ProxiesProofs ----------------------------
(***************************************************************************)
(* Theorems about Proxies, for any CAPIO directory, any locations and any  *)
(* names that begin with one another.                                      *)
(***************************************************************************)
EXTENDS Proxies, OsPathProofs

-----------------------------------------------------------------------------
(* Routing                                                                  *)

(* A prefix is one without its last element, and goes on with that.         *)
LEMMA PrefixFront ==
  ASSUME NEW S, NEW s \in Seq(S), NEW t \in Seq(S), IsPrefix(s, t)
  PROVE  /\ Len(s) <= Len(t)
         /\ Len(s) > 0 => IsPrefix(Front(s), t) /\ t[Len(s)] = Last(s)
<1>1. PICK n \in Nat : n = Len(s)
  BY LenProperties
<1>2. /\ Len(t) \in Nat /\ n <= Len(t) /\ SubSeq(s, 1, n) = SubSeq(t, 1, n)
      /\ \A i \in 1..n : s[i] \in S /\ t[i] \in S
  BY <1>1, LenProperties, ElementOfSeq DEF IsPrefix
<1>3. \A i \in 1..n : t[i] = s[i]
  <2> SUFFICES ASSUME NEW i \in 1..n PROVE t[i] = s[i]
    OBVIOUS
  <2>1. SubSeq(s, 1, n)[i] = s[i] /\ SubSeq(t, 1, n)[i] = t[i]
    BY <1>1, <1>2
  <2> QED BY <1>2, <2>1
<1>4. ASSUME n > 0 PROVE IsPrefix(Front(s), t) /\ t[n] = Last(s)
  <2>1. PICK k \in Nat : k = n - 1
    BY <1>4
  <2>2. \A i \in 1..k : s[i] \in S /\ t[i] \in S /\ t[i] = s[i]
    BY <1>2, <1>3, <2>1
  <2>3. /\ SubSeq(s, 1, k) \in Seq(S) /\ Len(SubSeq(s, 1, k)) = k
        /\ SubSeq(t, 1, k) \in Seq(S) /\ Len(SubSeq(t, 1, k)) = k
        /\ \A i \in 1..k : SubSeq(s, 1, k)[i] = s[i] /\ SubSeq(t, 1, k)[i] = t[i]
    <3>1. 1 \in Int /\ k \in Int /\ k = (IF 1 <= k THEN k - 1 + 1 ELSE 0)
      OBVIOUS
    <3>2. \A i \in 1..k : 1 + i - 1 = i
      OBVIOUS
    <3> QED BY <2>2, <3>1, <3>2, SubSeqProperties
  <2>4. SubSeq(s, 1, k) = SubSeq(t, 1, k)
    BY <2>2, <2>3, SeqEqual
  <2>5. Front(s) = SubSeq(s, 1, k) /\ Last(s) = s[n]
    BY <1>1, <2>1 DEF Front, Last
  <2>6. SubSeq(Front(s), 1, k) = Front(s)
    BY <2>3, <2>5, SubSeqFull
  <2> QED BY <1>2, <1>3, <1>4, <2>1, <2>3, <2>4, <2>5, <2>6 DEF IsPrefix
<1> QED BY <1>1, <1>2, <1>4

(* A location in the CAPIO directory starts, as a string, with the path of  *)
(* that directory: no call on it goes to the kernel. The converse does not  *)
(* hold.                                                                    *)
LEMMA InsideIsRouted ==
  ASSUME Usable, Inside(target_path) PROVE Routed
<1>1. target_path \in Seq(Name) /\ CAPIO_DIR \in Seq(Name)
  BY ConstantsAssumption DEF Usable
<1>2. Len(target_path) \in Nat /\ Len(CAPIO_DIR) \in Nat
  BY <1>1, LenProperties
<1>3. /\ Len(CAPIO_DIR) <= Len(target_path)
      /\ Len(CAPIO_DIR) > 0 => /\ IsPrefix(Front(CAPIO_DIR), target_path)
                              /\ target_path[Len(CAPIO_DIR)] = Last(CAPIO_DIR)
  BY <1>1, PrefixFront DEF Inside
<1> QED BY <1>2, <1>3 DEF Routed

-----------------------------------------------------------------------------
(* What is created where                                                    *)

(* CAPIO has nothing outside of its directory.                              *)
TreesInv ==
  /\ capio = [l \in Location |-> capio[l]]
  /\ disk = [l \in Location |-> disk[l]]
  /\ \A l \in Location : ~Inside(l) => capio[l].kind = "none"

(* What a step leaves on the side it does not work on.                      *)
Separate ==
  \A loc \in Location :
    /\ Inside(loc) => disk'[loc] = disk[loc]
    /\ ~Inside(loc) => capio'[loc] = capio[loc]

Keeps == TreesInv' /\ Separate

LEMMA Unchanged == ASSUME TreesInv, UNCHANGED trees PROVE Keeps
BY DEF TreesInv, Separate, Keeps, trees

(* CAPIO creates only in its directory, and the kernel outside of it.       *)
LEMMA CapioStep ==
  ASSUME TreesInv, NEW loc \in Location, Inside(loc), NEW node,
         CapioCreates(loc, node), UNCHANGED disk
  PROVE  Keeps
<1>1. /\ capio' = [l \in Location |-> capio'[l]]
      /\ \A l \in Location : ~Inside(l) => capio'[l] = capio[l]
  BY DEF CapioCreates
<1> QED BY <1>1 DEF TreesInv, Separate, Keeps

LEMMA DiskStep ==
  ASSUME TreesInv, NEW loc \in Location, ~Inside(loc), NEW node,
         disk' = [disk EXCEPT ![loc] = node], UNCHANGED capio
  PROVE  Keeps
<1>1. /\ disk' = [l \in Location |-> disk'[l]]
      /\ \A l \in Location : Inside(l) => disk'[l] = disk[l]
  BY DEF TreesInv
<1> QED BY <1>1 DEF TreesInv, Separate, Keeps

LEMMA OpenStep == ASSUME TreesInv, NEW mode, open_proxy(mode) PROVE Keeps
<1>1. target_path \in Location
  BY DEF open_proxy, Usable
<1>2. CASE Inside(target_path)
  <2>1. CapioOpen(target_path, mode, FlagsOf(mode))
    BY <1>2, InsideIsRouted DEF open_proxy
  <2>2. UNCHANGED disk /\ (CapioCreates(target_path, NewFile) \/ UNCHANGED capio)
    BY <2>1 DEF CapioOpen
  <2> QED BY <1>1, <1>2, <2>2, CapioStep, Unchanged DEF trees
<1>3. CASE ~Inside(target_path)
  <2>1. PICK flags : KernelOpen(target_path, flags)
    BY <1>3 DEF open_proxy
  <2>2. UNCHANGED trees \/ (UNCHANGED capio /\ disk' = [disk EXCEPT ![target_path] = NewFile])
    BY <2>1 DEF KernelOpen, Unless, Declined
  <2> QED BY <1>1, <1>3, <2>2, DiskStep, Unchanged
<1> QED BY <1>2, <1>3

LEMMA MkdirStep == ASSUME TreesInv, mkdir_proxy \/ makedirs_proxy PROVE Keeps
<1>1. target_path \in Location
  BY DEF mkdir_proxy, makedirs_proxy, Usable
<1>2. CASE Routed /\ pycapio_mkdir(target_path)
  <2>1. UNCHANGED trees \/ (/\ Inside(target_path) /\ UNCHANGED disk
                           /\ CapioCreates(target_path, Directory))
    BY <1>2 DEF pycapio_mkdir, Unless, Declined
  <2> QED BY <1>1, <2>1, CapioStep, Unchanged
<1>3. CASE ~Routed /\ (os_mkdir(target_path) \/ os_makedirs(path))
  <2>1. ~Inside(target_path)
    BY <1>3, InsideIsRouted DEF mkdir_proxy, makedirs_proxy
  <2>2. Declined \/ os_mkdir(target_path)
    BY <1>3 DEF os_makedirs, Unless
  <2>3. UNCHANGED trees \/ (UNCHANGED capio /\ disk' = [disk EXCEPT ![target_path] = Directory])
    BY <2>2 DEF os_mkdir, Unless, Declined
  <2> QED BY <1>1, <2>1, <2>3, DiskStep, Unchanged
<1> QED BY <1>2, <1>3 DEF mkdir_proxy, makedirs_proxy

(* Computing, listing, asking and moving create nothing.                    *)
LEMMA LookStep ==
  ASSUME PathCall \/ scandir_proxy \/ listdir_proxy \/ Queries \/ chdir
  PROVE  UNCHANGED trees
<1>1. CASE PathCall
  BY <1>1 DEF PathCall, Literal, Join, Dirname, Basename, Normpath, Abspath, Realpath,
              Compute, trees
<1>2. CASE scandir_proxy
  BY <1>2 DEF scandir_proxy, Lists, Answer, Unless, Declined
<1>3. CASE listdir_proxy
  BY <1>3 DEF listdir_proxy, Lists, Answer, Unless, Declined
<1>4. CASE Queries
  BY <1>4 DEF Queries, Query, Answer, Unless, Declined
<1>5. CASE chdir
  BY <1>5 DEF chdir
<1> QED BY <1>1, <1>2, <1>3, <1>4, <1>5

LEMMA TreesStep == ASSUME TreesInv, [Next]_vars PROVE Keeps
<1>1. CASE PathCall \/ scandir_proxy \/ listdir_proxy \/ Queries \/ chdir
  BY <1>1, LookStep, Unchanged
<1>2. ASSUME NEW mode \in Mode, open_proxy(mode) PROVE Keeps
  BY <1>2, OpenStep
<1>3. CASE mkdir_proxy \/ makedirs_proxy
  BY <1>3, MkdirStep
<1>4. ASSUME NEW loc \in Location, NEW node, OthersCreate(loc, node) PROVE Keeps
  BY <1>4, CapioStep DEF OthersCreate
<1>5. ASSUME NEW loc \in Location, OthersWrite(loc) PROVE Keeps
  <2>1. Inside(loc)
    (* What is a file of CAPIO's lies in its directory.                     *)
    BY <1>5 DEF OthersWrite, TreesInv
  <2>2. /\ capio' = [l \in Location |-> capio'[l]]
        /\ \A l \in Location : ~Inside(l) => capio'[l] = capio[l]
        /\ UNCHANGED disk
    BY <1>5, <2>1 DEF OthersWrite, TreesInv
  <2> QED BY <2>2 DEF TreesInv, Separate, Keeps
<1>6. CASE UNCHANGED vars
  BY <1>6, Unchanged DEF vars, trees
<1> QED BY <1>1, <1>2, <1>3, <1>4, <1>5, <1>6 DEF Next

(* However a path is written and whatever the working directory, no call    *)
(* creates anything in the CAPIO directory but through CAPIO, nor outside   *)
(* of it through CAPIO, also where names begin with one another and         *)
(* wherever CAPIO resolves relative paths.                                  *)
THEOREM OnlyInsideCorrect == Spec => OnlyInside
<1>1. Init => TreesInv
  BY DEF Init, TreesInv, Inside, IsPrefix, Absent, Directory
<1>2. TreesInv /\ [Next]_vars => TreesInv'
  BY TreesStep DEF Keeps
<1>3. TreesInv /\ [Next]_vars =>
        [\A loc \in Location : /\ Inside(loc) => disk'[loc] = disk[loc]
                               /\ ~Inside(loc) => capio'[loc] = capio[loc]]_vars
  BY TreesStep DEF Keeps, Separate
<1> QED BY <1>1, <1>2, <1>3, PTL DEF Spec, OnlyInside

-----------------------------------------------------------------------------
(* Open files                                                               *)

(* The locations above one are locations, above each other too; the lowest  *)
(* is its parent.                                                           *)
LEMMA AncestorProperties ==
  ASSUME NEW l \in Location, NEW a \in Ancestors(l)
  PROVE  /\ a \in Location
         /\ Len(a) < Len(l) /\ a # l
         /\ Ancestors(a) \subseteq Ancestors(l)
         /\ a = Front(l) \/ a \in Ancestors(Front(l))
<1>1. PICK n \in 0..(Len(l) - 1) : a = SubSeq(l, 1, n)
  BY DEF Ancestors
<1>2. l \in Seq(Name) /\ Len(l) \in Nat /\ n \in Nat /\ n < Len(l) /\ n \in 0..Len(l)
  <2>1. l \in Seq(Name)
    BY ConstantsAssumption
  <2>2. PICK k \in Nat : k = Len(l)
    BY <2>1, LenProperties
  <2>3. n \in Nat /\ n < k /\ n \in 0..k
    BY <2>2
  <2> QED BY <2>1, <2>2, <2>3
<1>3. a \in Location
  BY <1>1, <1>2, ConstantsAssumption
<1>4. ASSUME NEW k \in Nat, k <= Len(l)
      PROVE  /\ Len(SubSeq(l, 1, k)) = k
             /\ \A m \in 0..k : SubSeq(SubSeq(l, 1, k), 1, m) = SubSeq(l, 1, m)
  <2> DEFINE s == SubSeq(l, 1, k)
  <2>1. \A i \in 1..Len(l) : l[i] \in Name
    BY <1>2, ElementOfSeq
  <2>2. /\ s \in Seq(Name) /\ Len(s) = k /\ \A i \in 1..k : s[i] = l[i]
    <3>1. 1 \in Int /\ k \in Int /\ k = (IF 1 <= k THEN k - 1 + 1 ELSE 0)
          /\ (\A i \in 1..k : 1 + i - 1 = i) /\ (\A i \in 1..k : l[i] \in Name)
      BY <1>2, <1>4, <2>1
    <3> QED BY <3>1, SubSeqProperties
  <2> HIDE DEF s
  <2>3. ASSUME NEW m \in 0..k PROVE SubSeq(s, 1, m) = SubSeq(l, 1, m)
    <3>1. 1 \in Int /\ m \in Int /\ m = (IF 1 <= m THEN m - 1 + 1 ELSE 0)
          /\ (\A i \in 1..m : 1 + i - 1 = i)
          /\ (\A i \in 1..m : l[i] \in Name /\ s[i] \in Name /\ s[i] = l[i])
      BY <1>2, <1>4, <2>1, <2>2
    <3>2. /\ SubSeq(s, 1, m) \in Seq(Name) /\ Len(SubSeq(s, 1, m)) = m
          /\ \A i \in 1..m : SubSeq(s, 1, m)[i] = s[i]
      BY <3>1, SubSeqProperties
    <3>3. /\ SubSeq(l, 1, m) \in Seq(Name) /\ Len(SubSeq(l, 1, m)) = m
          /\ \A i \in 1..m : SubSeq(l, 1, m)[i] = l[i]
      BY <3>1, SubSeqProperties
    <3> QED BY <3>1, <3>2, <3>3, SeqEqual
  <2> QED BY <2>2, <2>3 DEF s
<1>5. Len(a) = n
  BY <1>1, <1>2, <1>4
<1>6. Ancestors(a) \subseteq Ancestors(l)
  <2> SUFFICES ASSUME NEW m \in 0..(n - 1) PROVE SubSeq(a, 1, m) \in Ancestors(l)
    BY <1>5 DEF Ancestors
  <2>1. m \in 0..n /\ m \in 0..(Len(l) - 1)
    BY <1>2
  <2>2. SubSeq(a, 1, m) = SubSeq(l, 1, m)
    BY <1>1, <1>2, <1>4, <2>1
  <2> QED BY <2>1, <2>2 DEF Ancestors
<1>7. a = Front(l) \/ a \in Ancestors(Front(l))
  <2>1. PICK k \in Nat : k = Len(l) - 1
    BY <1>2
  <2>2. Front(l) = SubSeq(l, 1, k)
    BY <2>1 DEF Front
  <2>3. CASE n = k
    BY <1>1, <2>2, <2>3
  <2>4. CASE n # k
    <3>1. k <= Len(l) /\ n \in 0..k /\ n \in 0..(k - 1)
      BY <1>2, <2>1, <2>4
    <3>2. Len(Front(l)) = k /\ SubSeq(Front(l), 1, n) = SubSeq(l, 1, n)
      BY <1>4, <2>2, <3>1
    <3> QED BY <1>1, <3>1, <3>2 DEF Ancestors
  <2> QED BY <2>3, <2>4
<1> QED BY <1>2, <1>3, <1>5, <1>6, <1>7

(* CAPIO's nodes are a tree: what is above one, in its directory, is a      *)
(* directory.                                                               *)
ClosedInv ==
  /\ \A l \in Location : capio[l].kind \in {"none", "dir", "file"}
  /\ \A l \in Location : \A a \in Ancestors(l) :
       capio[l].kind # "none" /\ Inside(a) => capio[a].kind = "dir"

LEMMA ClosedInit == Init => ClosedInv
<1> SUFFICES ASSUME Init, NEW a \in Ancestors(CAPIO_DIR) PROVE ~Inside(a)
  BY ConstantsAssumption DEF Init, ClosedInv, Absent, Directory
<1>1. a \in Location /\ Len(a) < Len(CAPIO_DIR)
  BY AncestorProperties, ConstantsAssumption
<1>2. a \in Seq(Name) /\ CAPIO_DIR \in Seq(Name) /\ Len(a) \in Nat /\ Len(CAPIO_DIR) \in Nat
  BY <1>1, ConstantsAssumption, LenProperties
<1> QED BY <1>1, <1>2, PrefixFront DEF Inside

(* A creation puts directories above the new node, and nothing was below.   *)
LEMMA CreationCloses ==
  ASSUME ClosedInv, NEW loc \in Location, CapioMayCreate(loc),
         NEW node \in {NewFile, Directory}, CapioCreates(loc, node)
  PROVE  ClosedInv'
<1>1. ASSUME NEW l \in Location
      PROVE  capio'[l] = IF l = loc THEN node
                         ELSE IF l \in Ancestors(loc) /\ Inside(l) /\ capio[l].kind = "none"
                           THEN Directory
                           ELSE capio[l]
  BY DEF CapioCreates
<1>2. /\ \A l \in Location : capio[l].kind \in {"none", "dir", "file"}
      /\ node.kind \in {"dir", "file"} /\ Directory.kind = "dir"
      /\ capio[loc].kind = "none" /\ \A l \in Ancestors(loc) : capio[l].kind # "file"
  BY DEF ClosedInv, NewFile, Directory, CapioMayCreate
<1>3. \A l \in Location : capio'[l].kind \in {"none", "dir", "file"}
  BY <1>1, <1>2
<1>4. ASSUME NEW a \in Ancestors(loc), Inside(a) PROVE capio'[a].kind = "dir"
  <2>1. a \in Location /\ a # loc
    BY AncestorProperties
  <2> QED BY <1>1, <1>2, <1>4, <2>1
<1>5. ASSUME NEW l \in Location, NEW a \in Ancestors(l),
             capio'[l].kind # "none", Inside(a)
      PROVE  capio'[a].kind = "dir"
  <2>1. a \in Location /\ Ancestors(a) \subseteq Ancestors(l)
    BY AncestorProperties
  <2>2. CASE l = loc
    BY <1>4, <1>5, <2>2
  <2>3. CASE l \in Ancestors(loc)
    <3>1. a \in Ancestors(loc)
      BY <2>3, AncestorProperties
    <3> QED BY <1>4, <1>5, <3>1
  <2>4. CASE l # loc /\ l \notin Ancestors(loc)
    <3>1. capio[a].kind = "dir"
      BY <1>1, <1>5, <2>4 DEF ClosedInv
    <3> QED BY <1>1, <1>2, <2>1, <3>1
  <2> QED BY <2>2, <2>3, <2>4
<1> QED BY <1>3, <1>5 DEF ClosedInv, Inside

LEMMA ClosedStep == ASSUME TreesInv, ClosedInv, [Next]_vars PROVE ClosedInv'
<1>1. ASSUME UNCHANGED capio PROVE ClosedInv'
  BY <1>1 DEF ClosedInv, Inside
<1>2. CASE PathCall \/ scandir_proxy \/ listdir_proxy \/ Queries \/ chdir \/ UNCHANGED vars
  BY <1>1, <1>2, LookStep DEF trees, vars
<1>3. ASSUME NEW mode \in Mode, open_proxy(mode) PROVE ClosedInv'
  <2>1. target_path \in Location
    BY <1>3 DEF open_proxy, Usable
  <2>2. \/ UNCHANGED capio
        \/ CapioMayCreate(target_path) /\ CapioCreates(target_path, NewFile)
    BY <1>3 DEF open_proxy, CapioOpen, KernelOpen, Unless, Declined, trees
  <2> QED BY <1>1, <2>1, <2>2, CreationCloses
<1>4. CASE mkdir_proxy \/ makedirs_proxy
  <2>1. target_path \in Location
    BY <1>4 DEF mkdir_proxy, makedirs_proxy, Usable
  <2>2. \/ UNCHANGED capio
        \/ CapioMayCreate(target_path) /\ CapioCreates(target_path, Directory)
    BY <1>4
    DEF mkdir_proxy, makedirs_proxy, pycapio_mkdir, os_makedirs, os_mkdir, Unless, Declined,
        trees
  <2> QED BY <1>1, <2>1, <2>2, CreationCloses
<1>5. ASSUME NEW loc \in Location, NEW node \in {NewFile, Directory}, OthersCreate(loc, node)
      PROVE  ClosedInv'
  BY <1>5, CreationCloses DEF OthersCreate
<1>6. ASSUME NEW loc \in Location, OthersWrite(loc) PROVE ClosedInv'
  <2>1. \A l \in Location : capio'[l].kind = capio[l].kind
    BY <1>6 DEF OthersWrite, TreesInv
  <2>2. \A l \in Location : \A a \in Ancestors(l) : a \in Location
    BY AncestorProperties
  <2> QED BY <2>1, <2>2 DEF ClosedInv, Inside
<1> QED BY <1>2, <1>3, <1>4, <1>5, <1>6 DEF Next

(* Where a directory is above it, something can be created in CAPIO.        *)
LEMMA ParentSuffices ==
  ASSUME TreesInv, ClosedInv, NEW loc \in Location,
         HasParent(capio, loc), capio[loc].kind = "none"
  PROVE  CapioMayCreate(loc)
<1> SUFFICES ASSUME NEW a \in Ancestors(loc) PROVE capio[a].kind # "file"
  BY DEF CapioMayCreate
<1>1. loc # <<>> /\ capio[Front(loc)].kind = "dir"
  BY DEF HasParent
<1>2. CASE a = Front(loc)
  BY <1>1, <1>2
<1>3. CASE a \in Ancestors(Front(loc))
  <2>1. a \in Location
    BY AncestorProperties
  <2>2. Front(loc) \in Location
    <3>1. loc \in Seq(Name) /\ Len(loc) \in Nat /\ Len(loc) # 0
      BY <1>1, ConstantsAssumption, LenProperties, EmptySeq
    <3>2. Len(loc) - 1 \in 0..Len(loc)
      BY <3>1
    <3> QED BY <3>2, ConstantsAssumption DEF Front
  <2>3. Inside(a) => capio[a].kind = "dir"
    BY <1>1, <1>3, <2>2 DEF ClosedInv
  <2>4. ~Inside(a) => capio[a].kind = "none"
    BY <2>1 DEF TreesInv
  <2> QED BY <2>3, <2>4
<1> QED BY <1>2, <1>3, AncestorProperties

(* The answer to an open stands for what CAPIO then has.                    *)
LEMMA OpenAnswered ==
  ASSUME TreesInv, ClosedInv, NEW mode \in Mode, mode.letter # "x", open_proxy(mode)
  PROVE  OpenHonoursMode'
<1>1. mode.letter \in {"r", "w", "a"} /\ mode.plus \in BOOLEAN
  BY ConstantsAssumption DEF Letter
<1>2. target_path \in Location
  BY DEF open_proxy, Usable
<1>3. CASE reply' = NoReply
  BY <1>3 DEF OpenHonoursMode, NoReply
<1>4. CASE Inside(target_path) /\ CapioOpen(target_path, mode, FlagsOf(mode))
  <2> DEFINE flags == FlagsOf(mode)
             creates == "O_CREAT" \in flags /\ CapioMayCreate(target_path)
             opened == Opens(capio[target_path], flags) \/ creates
  <2>1. PICK loc \in Location : loc = target_path
    BY <1>2
  <2>2. reply' = [op |-> "open", loc |-> loc, before |-> capio[loc].kind,
                  mode |-> mode, flags |-> flags, opened |-> opened]
    BY <1>4, <2>1 DEF CapioOpen, OpenAnswers
  <2>3. IF creates THEN CapioCreates(loc, NewFile) ELSE UNCHANGED capio
    BY <1>4, <2>1 DEF CapioOpen
  <2>4. Inside(loc)
    BY <1>4, <2>1
  <2>5. /\ Writes(flags) = (mode.plus \/ mode.letter # "r")
        /\ ("O_WRONLY" \notin flags) = (mode.plus \/ mode.letter = "r")
        /\ ("O_APPEND" \in flags) = (mode.letter = "a")
        /\ ("O_CREAT" \in flags) = (mode.letter = "w")
    BY <1>1 DEF FlagsOf, Writes
  <2> HIDE DEF flags, creates, opened
  <2>6. ASSUME mode.letter = "w", opened PROVE capio'[loc].kind = "file"
    <3>1. CASE creates
      BY <2>3, <3>1 DEF CapioCreates, NewFile
    <3>2. CASE ~creates
      BY <2>1, <2>3, <2>5, <2>6, <3>2 DEF opened, Opens
    <3> QED BY <3>1, <3>2
  <2>7. ASSUME mode.letter = "w", capio[loc].kind = "none", ~opened
        PROVE  ~HasParent(capio', loc)
    <3>1. ~creates /\ UNCHANGED capio
      BY <2>3, <2>7 DEF opened
    <3>2. ~CapioMayCreate(loc)
      BY <2>1, <2>5, <2>7, <3>1 DEF creates
    <3> QED BY <2>7, <3>1, <3>2, ParentSuffices
  <2>8. ASSUME mode.letter # "w", opened PROVE capio[loc].kind # "none"
    BY <2>1, <2>5, <2>8 DEF opened, creates, Opens
  <2>9. Seen(loc)' = capio'[loc]
    BY <2>4 DEF Seen, Inside
  <2>10. /\ reply'.op = "open" /\ reply'.loc = loc /\ reply'.before = capio[loc].kind
         /\ reply'.mode = mode /\ reply'.flags = flags /\ reply'.opened = opened
    BY <2>2
  <2>11. Seen(reply.loc)' = Seen(loc)'
    BY <2>10 DEF Seen, Inside
  <2>12. HasParent(capio, reply.loc)' = HasParent(capio', loc)
    BY <2>10 DEF HasParent
  <2> QED BY <2>5, <2>6, <2>7, <2>8, <2>9, <2>10, <2>11, <2>12, <1>1 DEF OpenHonoursMode, Writes
<1>5. CASE KernelOpen(target_path, FlagsOf(mode)) \/ KernelOpen(target_path, PythonFlags(mode))
  <2>1. reply' = NoReply
    BY <1>5 DEF KernelOpen, Unless, Declined
  <2> QED BY <1>3, <2>1
<1> QED BY <1>4, <1>5 DEF open_proxy

(* Every other call replaces the answer, or, with none, nothing moves.      *)
LEMMA OtherAnswers ==
  ASSUME [Next]_vars, \A mode \in Mode : ~open_proxy(mode)
  PROVE  reply'.op # "open" \/ UNCHANGED vars
<1>1. CASE PathCall
  BY <1>1 DEF PathCall, Literal, Join, Dirname, Basename, Normpath, Abspath, Realpath,
              Compute, NoReply
<1>2. CASE mkdir_proxy \/ makedirs_proxy
  BY <1>2 DEF mkdir_proxy, makedirs_proxy, pycapio_mkdir, os_makedirs, os_mkdir, Unless,
              Declined, NoReply
<1>3. CASE scandir_proxy \/ listdir_proxy
  BY <1>3 DEF scandir_proxy, listdir_proxy, Lists, Answer, Unless, Declined, NoReply
<1>4. CASE Queries
  <2>1. CASE Query(LAMBDA stat : YesOrNo("exists", exists(stat)))
    BY <2>1 DEF Query, YesOrNo, Answer, Unless, Declined, NoReply, exists
  <2>2. CASE Query(LAMBDA stat : YesOrNo("isfile", isfile(stat)))
    BY <2>2 DEF Query, YesOrNo, Answer, Unless, Declined, NoReply
  <2>3. CASE Query(LAMBDA stat : YesOrNo("isdir", isdir(stat)))
    BY <2>3 DEF Query, YesOrNo, Answer, Unless, Declined, NoReply
  <2>4. CASE Query(LAMBDA stat : [op |-> "getsize", loc |-> Meant, size |-> getsize(stat)])
    BY <2>4 DEF Query, Answer, Unless, Declined, NoReply
  <2> QED BY <1>4, <2>1, <2>2, <2>3, <2>4 DEF Queries
<1>5. CASE chdir \/ \E loc \in Location : OthersWrite(loc)
  BY <1>5 DEF chdir, OthersWrite, NoReply
<1>6. CASE \E loc \in Location, node \in {NewFile, Directory} : OthersCreate(loc, node)
  BY <1>6 DEF OthersCreate, NoReply
<1> QED BY <1>1, <1>2, <1>3, <1>4, <1>5, <1>6 DEF Next

(* Whatever other processes create meanwhile, a file opened in CAPIO with a *)
(* mode of the letters "r", "w" and "a" can be read, written and appended   *)
(* to as the mode says. Of what is not there, "w" creates a file wherever   *)
(* it has a directory to be in; "r" opens nothing, nor does "a", for which  *)
(* Python would create it.                                                  *)
THEOREM OpenHonoursModeCorrect ==
  ASSUME \A mode \in Mode : mode.letter # "x" PROVE Spec => []OpenHonoursMode
<1> DEFINE Inv == TreesInv /\ ClosedInv /\ OpenHonoursMode
<1>1. Init => Inv
  <2>1. Init => TreesInv
    BY DEF Init, TreesInv, Inside, IsPrefix, Absent, Directory
  <2>2. Init => OpenHonoursMode
    BY DEF Init, OpenHonoursMode, NoReply
  <2> QED BY <2>1, <2>2, ClosedInit
<1>2. ASSUME Inv, [Next]_vars PROVE Inv'
  <2>1. TreesInv' /\ ClosedInv'
    BY <1>2, TreesStep, ClosedStep DEF Keeps
  <2>2. OpenHonoursMode'
    <3>1. CASE \E mode \in Mode : open_proxy(mode)
      BY <1>2, <3>1, OpenAnswered
    <3>2. CASE reply'.op # "open"
      BY <3>2 DEF OpenHonoursMode
    <3>3. CASE UNCHANGED vars
      BY <1>2, <3>3 DEF vars, OpenHonoursMode, Seen, Inside, HasParent
    <3> QED BY <1>2, <3>1, <3>2, <3>3, OtherAnswers
  <2> QED BY <2>1, <2>2
<1> QED BY <1>1, <1>2, PTL DEF Spec

-----------------------------------------------------------------------------
(* Two paths to the same file                                               *)

Dotted(names) == <<Dot>> \o names

(* The two paths that the program and Python compute are the same, but for  *)
(* a "." in front that Python's normpath gives to an empty path.            *)
Paired(p, ref) ==
  /\ p \in Py!Path /\ ref \in Py!Path
  /\ ref.root = p.root /\ ref.slash = p.slash
  /\ ref.names = p.names \/ (~p.root /\ ref.names = Dotted(p.names))

PathsInv == Paired(path, ref_path) /\ cwd \in Location

LEMMA DottedEnds ==
  ASSUME NEW names \in Seq(Py!Component)
  PROVE  /\ Dotted(names) \in Seq(Py!Component) /\ Dotted(names) # <<>>
         /\ names = <<>> =>
              /\ Dotted(names) = <<Dot>>
              /\ Front(Dotted(names)) = <<>> /\ Last(Dotted(names)) = Dot
         /\ names # <<>> =>
              /\ Front(Dotted(names)) = Dotted(Front(names))
              /\ Last(Dotted(names)) = Last(names)
<1>1. Dot \in Py!Component /\ <<Dot>> \in Seq(Py!Component) /\ <<>> \in Seq(Py!Component)
      /\ Append(<<>>, Dot) = <<Dot>>
  BY DEF Py!Component
<1>2. Dotted(names) \in Seq(Py!Component) /\ Dotted(names) # <<>>
  BY <1>1, ConcatProperties, ConcatEqualIffEmpty DEF Dotted
<1>3. ASSUME names = <<>>
      PROVE  Dotted(names) = <<Dot>> /\ Front(Dotted(names)) = <<>> /\ Last(Dotted(names)) = Dot
  BY <1>1, <1>3, ConcatEmptySeq, AppendLast DEF Dotted
<1>4. ASSUME names # <<>>
      PROVE  Front(Dotted(names)) = Dotted(Front(names)) /\ Last(Dotted(names)) = Last(names)
  <2>1. PICK t \in Seq(Py!Component), y \in Py!Component : names = Append(t, y)
    BY <1>4, SequenceEmptyOrAppend
  <2>2. PICK d \in Seq(Py!Component) : d = Dotted(t)
    BY <1>1, ConcatProperties DEF Dotted
  <2>3. Dotted(names) = Append(d, y)
    BY <1>1, <2>1, <2>2, ConcatAppend DEF Dotted
  <2> QED BY <2>1, <2>2, <2>3, AppendLast
<1> QED BY <1>1, <1>2, <1>3, <1>4

LEMMA DottedJoins ==
  ASSUME NEW names \in Seq(Py!Component), NEW more \in Seq(Py!Component)
  PROVE  Dotted(names) \o more = Dotted(names \o more)
<1>1. <<Dot>> \in Seq(Py!Component)
  BY DEF Py!Component
<1> QED BY <1>1, ConcatComponents, Zenon DEF Dotted

LEMMA DottedCollapses ==
  ASSUME NEW names \in Seq(Py!Component)
  PROVE  /\ \A dir \in Seq(Py!Component) :
              Py!Collapse(dir \o Dotted(names), TRUE) = Py!Collapse(dir \o names, TRUE)
         /\ Py!Collapse(Dotted(names), FALSE) = Py!Collapse(names, FALSE)
<1>1. \A dir \in Seq(Py!Component), root \in BOOLEAN :
        Py!Collapse(dir \o Dotted(names), root) = Py!Collapse(dir \o names, root)
  BY CollapseDot DEF Dotted
<1>2. <<>> \in Seq(Py!Component) /\ <<>> \o names = names /\ <<>> \o Dotted(names) = Dotted(names)
  BY EmptySeq, DottedEnds, ConcatEmptySeq
<1>3. PICK top \in BOOLEAN, bottom \in BOOLEAN : top = TRUE /\ bottom = FALSE
  OBVIOUS
<1>4. ASSUME NEW dir \in Seq(Py!Component)
      PROVE  Py!Collapse(dir \o Dotted(names), TRUE) = Py!Collapse(dir \o names, TRUE)
  <2>1. Py!Collapse(dir \o Dotted(names), top) = Py!Collapse(dir \o names, top)
    BY <1>1
  <2> QED BY <1>3, <2>1
<1>5. Py!Collapse(Dotted(names), bottom) = Py!Collapse(names, bottom)
  <2>1. Py!Collapse(<<>> \o Dotted(names), bottom) = Py!Collapse(<<>> \o names, bottom)
    BY <1>1, <1>2
  <2> QED BY <1>2, <2>1
<1> QED BY <1>3, <1>4, <1>5

(* They lead to one place, and end in one name.                             *)
LEMMA PairedSame ==
  ASSUME NEW p, NEW ref, Paired(p, ref), NEW dir \in Location
  PROVE  /\ Py!abspath(dir, p) = Py!abspath(dir, ref)
         /\ Py!LocationOf(dir, p) = Py!LocationOf(dir, ref)
         /\ Py!NamesFile(p) = Py!NamesFile(ref)
         /\ \A none : Py!extension(p, none) = Py!extension(ref, none)
<1>1. /\ p \in Py!Path /\ ref \in Py!Path /\ p.names \in Seq(Py!Component)
      /\ dir \in Seq(Name) /\ dir \in Seq(Py!Component)
      /\ ref.root = p.root /\ ref.slash = p.slash
  BY PathFields, CollapsedNames, ConstantsAssumption DEF Paired
<1>2. Py!LocationOf(dir, p) = Py!LocationOf(dir, ref)
  <2>1. CASE ref.names = p.names
    BY <1>1, <2>1, LocationIs
  <2>2. CASE ~p.root /\ ref.names = Dotted(p.names)
    <3>1. Py!Collapse(dir \o ref.names, TRUE) = Py!Collapse(dir \o p.names, TRUE)
      BY <1>1, <2>2, DottedCollapses
    <3> QED BY <1>1, <2>2, <3>1, LocationIs
  <2> QED BY <2>1, <2>2 DEF Paired
<1>3. Py!abspath(dir, p) = Py!abspath(dir, ref)
  BY <1>1, <1>2, LocationIs
<1>4. /\ Py!NamesFile(p) = Py!NamesFile(ref)
      /\ Py!NamesFile(p) => Py!Last(p.names) = Py!Last(ref.names)
  <2>1. CASE ref.names = p.names
    BY <1>1, <2>1 DEF Py!NamesFile
  <2>2. CASE p.names = <<>> /\ ref.names = Dotted(p.names)
    BY <1>1, <2>2, SameEnds, DottedEnds, NameAssumption DEF Py!NamesFile
  <2>3. CASE p.names # <<>> /\ ref.names = Dotted(p.names)
    BY <1>1, <2>3, SameEnds, DottedEnds DEF Py!NamesFile
  <2> QED BY <2>1, <2>2, <2>3 DEF Paired
<1> QED BY <1>2, <1>3, <1>4 DEF Py!extension

LEMMA PairedJoin ==
  ASSUME NEW p, NEW ref, Paired(p, ref), NEW q \in Py!Path, q # Py!Empty
  PROVE  Paired(join(p, q), Py!join(ref, q))
<1>1. /\ p \in Py!Path /\ ref \in Py!Path /\ p.names \in Seq(Py!Component)
      /\ q.names \in Seq(Py!Component) /\ ref.root = p.root /\ p.root \in BOOLEAN
      /\ join(p, q) \in Py!Path /\ Py!join(ref, q) \in Py!Path
  BY PathFields, StaysPath DEF Paired
<1>2. Py!join(ref, q) = join(ref, q)
  BY DEF join, Py!join, isabs, Py!isabs
<1>3. CASE q.root \/ (p = Py!Empty /\ ref = Py!Empty)
  <2>1. join(p, q) = q /\ Py!join(ref, q) = q
    <3>1. join(p, q) = q /\ join(ref, q) = q
      BY <1>1, <1>3, JoinIs
    <3> QED BY <1>2, <3>1, Zenon
  <2>2. Paired(q, q)
    BY DEF Paired
  <2> QED BY <2>1, <2>2, Zenon
<1>4. CASE ~q.root /\ p = Py!Empty /\ ref # Py!Empty
  <2>1. p.names = <<>> /\ ~p.root /\ ref.names # <<>>
    BY <1>1, <1>4, PathFields
  <2>2. ref.names = Dotted(<<>>)
    BY <2>1 DEF Paired
  <2>3. join(p, q) = q /\ join(ref, q).root = ref.root /\ join(ref, q).slash = q.slash
        /\ join(ref, q).names = ref.names \o q.names
    BY <1>1, <1>4, Joined, JoinIs, Zenon
  <2>4. Dotted(<<>>) \o q.names = Dotted(q.names)
    <3>1. <<>> \in Seq(Py!Component) /\ <<>> \o q.names = q.names
      BY <1>1, EmptySeq, ConcatEmptySeq
    <3> QED BY <1>1, <3>1, DottedJoins, Zenon
  <2>5. join(ref, q).names = Dotted(q.names)
    BY <2>2, <2>3, <2>4, Zenon
  <2>6. PICK r \in Py!Path : r = Py!join(ref, q) /\ r = join(ref, q)
    BY <1>1, <1>2
  <2>7. r.root = q.root /\ r.slash = q.slash /\ r.names = Dotted(q.names)
    <3>1. ref.root = FALSE /\ q.root = FALSE
      BY <1>1, <1>4, <2>1, PathFields
    <3> QED BY <2>3, <2>5, <2>6, <3>1, Zenon
  <2>8. Paired(q, r)
    BY <1>4, <2>7 DEF Paired
  <2> QED BY <2>3, <2>6, <2>8, Zenon
<1>5. CASE ~q.root /\ p # Py!Empty
  <2>1. ref # Py!Empty
    <3>1. p.root \/ p.names # <<>>
      BY <1>1, <1>5, PathFields
    <3>2. ref.root \/ ref.names # <<>>
      BY <1>1, <3>1, DottedEnds DEF Paired
    <3> QED BY <1>1, <3>2, PathFields
  <2>2. PICK names, more : names = p.names \o q.names /\ more = ref.names \o q.names
    OBVIOUS
  <2>3. /\ join(p, q).root = p.root /\ join(p, q).slash = q.slash /\ join(p, q).names = names
        /\ join(ref, q).root = ref.root /\ join(ref, q).slash = q.slash /\ join(ref, q).names = more
    BY <1>1, <1>5, <2>1, <2>2, Joined, Zenon
  <2>4. more = names \/ (~p.root /\ more = Dotted(names))
    <3>1. Dotted(p.names) \o q.names = Dotted(p.names \o q.names)
      BY <1>1, DottedJoins
    <3> QED BY <2>2, <3>1, Zenon DEF Paired
  <2> QED BY <1>1, <1>2, <2>3, <2>4 DEF Paired
<1> QED BY <1>1, <1>3, <1>4, <1>5, PathFields

LEMMA PairedDirname ==
  ASSUME NEW p, NEW ref, Paired(p, ref)
  PROVE  Paired(dirname(p), Py!dirname(ref))
<1>1. /\ p \in Py!Path /\ ref \in Py!Path /\ p.names \in Seq(Py!Component)
      /\ ref.root = p.root /\ ref.slash = p.slash /\ (p.slash => p.names # <<>>)
      /\ dirname(p) \in Py!Path /\ Py!dirname(ref) \in Py!Path
  BY PathFields, StaysPath DEF Paired
<1>2. /\ Py!dirname(ref).root = dirname(p).root /\ Py!dirname(ref).slash = dirname(p).slash
      /\ dirname(p).root = p.root
  BY <1>1, DirnameIs
<1>3. PICK n, m : n = dirname(p).names /\ m = Py!dirname(ref).names
  OBVIOUS
<1>4. /\ n = IF p.slash \/ p.names = <<>> THEN p.names ELSE Front(p.names)
      /\ m = IF ref.slash \/ ref.names = <<>> THEN ref.names ELSE Front(ref.names)
  BY <1>1, <1>3, DirnameIs
<1>5. m = n \/ (~p.root /\ m = Dotted(n))
  <2>1. CASE ref.names = p.names
    BY <1>1, <1>4, <2>1
  <2>2. CASE ~p.root /\ ref.names = Dotted(p.names)
    BY <1>1, <1>4, <2>2, DottedEnds
  <2> QED BY <2>1, <2>2 DEF Paired
<1> QED BY <1>1, <1>2, <1>3, <1>5 DEF Paired

LEMMA PairedBasename ==
  ASSUME NEW p, NEW ref, Paired(p, ref)
  PROVE  Paired(basename(p), Py!basename(ref))
<1>1. /\ p \in Py!Path /\ ref \in Py!Path /\ p.names \in Seq(Py!Component)
      /\ ref.slash = p.slash /\ (p.slash => p.names # <<>>)
      /\ basename(p) \in Py!Path /\ Py!basename(ref) \in Py!Path
  BY PathFields, StaysPath DEF Paired
<1>2. /\ basename(p).root = FALSE /\ Py!basename(ref).root = FALSE
      /\ basename(p).slash = FALSE /\ Py!basename(ref).slash = FALSE
  BY BasenameIs
<1>3. PICK n, m : n = basename(p).names /\ m = Py!basename(ref).names
  OBVIOUS
<1>4. /\ n = IF p.slash \/ p.names = <<>> THEN <<>> ELSE <<Last(p.names)>>
      /\ m = IF ref.slash \/ ref.names = <<>> THEN <<>> ELSE <<Last(ref.names)>>
  BY <1>3, BasenameIs
<1>5. m = n \/ m = Dotted(n)
  <2>1. CASE ref.names = p.names
    BY <1>1, <1>4, <2>1
  <2>2. CASE p.names = <<>> /\ ref.names = Dotted(p.names)
    <3>1. Dotted(<<>>) = <<Dot>>
      BY EmptySeq, DottedEnds
    <3> QED BY <1>1, <1>4, <2>2, <3>1, DottedEnds
  <2>3. CASE p.names # <<>> /\ ref.names = Dotted(p.names)
    BY <1>1, <1>4, <2>3, DottedEnds
  <2> QED BY <2>1, <2>2, <2>3 DEF Paired
<1> QED BY <1>1, <1>2, <1>3, <1>5 DEF Paired

(* Of an empty path, or of one that ends with a name.                       *)
LEMMA PairedNormpath ==
  ASSUME NEW p, NEW ref, Paired(p, ref), p = Py!Empty \/ Py!NamesFile(p)
  PROVE  Paired(normpath(p), Py!normpath(ref))
<1>1. /\ p \in Py!Path /\ ref \in Py!Path
      /\ normpath(p) \in Py!Path /\ Py!normpath(ref) \in Py!Path
      /\ p.names \in Seq(Py!Component) /\ p.root \in BOOLEAN /\ ref.root = p.root
      /\ p = [root |-> p.root, names |-> p.names, slash |-> p.slash]
  BY PathFields, StaysPath DEF Paired
<1>2. PICK c : c = Py!Collapse(p.names, p.root)
  OBVIOUS
<1>3. Py!Collapse(ref.names, ref.root) = c
  <2>1. CASE ref.names = p.names
    BY <1>1, <1>2, <2>1
  <2>2. CASE ~p.root /\ ref.names = Dotted(p.names)
    <3>1. p.root = FALSE
      BY <1>1, <2>2
    <3> QED BY <1>1, <1>2, <2>2, <3>1, DottedCollapses
  <2> QED BY <2>1, <2>2 DEF Paired
<1>4. /\ Py!normpath(ref).root = p.root /\ Py!normpath(ref).slash = FALSE
      /\ Py!normpath(ref).names = IF c = <<>> /\ ~p.root THEN <<Dot>> ELSE c
  BY <1>1, <1>3 DEF Py!normpath
<1>5. CASE p = Py!Empty
  <2>1. p.names = <<>> /\ p.root = FALSE /\ p.slash = FALSE /\ normpath(p) = p
    BY <1>5 DEF Py!Empty, normpath
  <2>2. c = <<>>
    BY <1>2, <2>1, CollapseEmpty
  <2>3. Dotted(<<>>) = <<Dot>>
    BY EmptySeq, DottedEnds
  <2> QED BY <1>1, <1>4, <2>1, <2>2, <2>3 DEF Paired
<1>6. CASE Py!NamesFile(p)
  <2>1. /\ p.names # <<>> /\ ~p.slash /\ Last(p.names) \in Name
    BY <1>6, SameEnds DEF Py!NamesFile
  <2>2. PICK t \in Seq(Py!Component), x \in Py!Component : p.names = Append(t, x)
    BY <1>1, <2>1, SequenceEmptyOrAppend
  <2>3. x \in Name
    BY <2>1, <2>2, AppendLast
  <2>4. c # <<>>
    <3>1. PICK u \in Seq(Py!Component) : u = Py!Collapse(t, p.root)
      BY <1>1, <2>2, CollapseType, CollapsedNames
    <3>2. c = Append(u, x)
      <4>1. Py!Collapse(Append(t, x), p.root) = Py!Read(Py!Collapse(t, p.root), x, p.root)
        BY <2>2, CollapseAppend
      <4>2. c = Py!Read(u, x, p.root)
        BY <1>2, <2>2, <3>1, <4>1, Zenon
      <4> QED BY <2>3, <4>2, ReadProperties
    <3> QED BY <2>2, <3>1, <3>2, AppendProperties
  <2>5. ~(p.slash \/ Last(p.names) \in {Dot, DotDot}) /\ p # Py!Empty
    BY <2>1, NameAssumption DEF Py!Empty
  <2>6. /\ normpath(p).root = p.root /\ normpath(p).names = c /\ normpath(p).slash = FALSE
    BY <1>1, <1>2, <2>4, <2>5 DEF normpath
  <2> QED BY <1>1, <1>4, <2>4, <2>6 DEF Paired
<1> QED BY <1>5, <1>6

(* Of a path without dots and without a slash at the end.                   *)
LEMMA AbspathSame ==
  ASSUME NEW p \in Py!Path, NEW dir \in Seq(Name),
         ~(Py!HasDots(p) \/ p.slash), ~abspathThrows(p)
  PROVE  abspath(dir, p) = Py!abspath(dir, p)
<1>1. PICK names \in Seq(Name) : names = p.names
  <2>1. PICK n \in Nat : n = Len(p.names)
    BY PathFields, LenProperties
  <2>2. p.names \in [1..n -> Py!Component] /\ DOMAIN p.names = 1..n
    BY <2>1, PathFields, LenProperties
  <2>3. \A i \in 1..n : p.names[i] \in Name
    BY <2>2 DEF Py!HasDots, Py!Component
  <2>4. p.names \in [1..n -> Name]
    BY <2>2, <2>3
  <2> QED BY <2>4, SeqDef
<1>2. /\ p = [root |-> p.root, names |-> names, slash |-> FALSE] /\ p # Py!Empty
      /\ Py!Absolute(dir) \in Py!Path /\ Py!Absolute(dir) # Py!Empty
      /\ Py!Absolute(dir).root = TRUE /\ Py!Absolute(dir).names = dir
  BY <1>1, PathFields, Absolutes DEF abspathThrows
<1>3. CASE p.root
  <2>1. abspath(dir, p) = p /\ p = Py!Absolute(names)
    BY <1>2, <1>3, PathFields, JoinIs DEF abspath, Py!Absolute
  <2>2. Py!LocationOf(dir, p) = names
    BY <1>1, <1>3, LocationIs, CollapseNames
  <2> QED BY <2>1, <2>2, LocationIs
<1>4. CASE ~p.root
  <2>1. PICK all \in Seq(Name) : all = dir \o names
    BY ConcatProperties
  <2>2. abspath(dir, p) = [root |-> TRUE, names |-> all, slash |-> FALSE]
    <3>1. PICK u \in Py!Path, r \in Py!Path : u = Py!Absolute(dir) /\ r = join(u, p)
      BY <1>2, StaysPath
    <3>2. r.root = u.root /\ r.slash = p.slash /\ r.names = u.names \o p.names
      BY <1>2, <1>4, <3>1, Joined, Zenon
    <3>3. r.names = all /\ r.root = TRUE /\ r.slash = FALSE
      <4>1. u.names = dir /\ u.root = TRUE /\ p.slash = FALSE
        BY <1>2, <3>1
      <4> QED BY <1>1, <2>1, <3>2, <4>1, Zenon
    <3>4. r = [root |-> TRUE, names |-> all, slash |-> FALSE]
      BY <3>3, PathFields
    <3> QED BY <3>1, <3>4, Zenon DEF abspath
  <2>3. Py!LocationOf(dir, p) = all
    <3>1. Py!Collapse(all, TRUE) = all
      BY CollapseNames
    <3>2. Py!LocationOf(dir, p) = Py!Collapse(dir \o p.names, TRUE)
      BY <1>4, LocationIs
    <3> QED BY <1>1, <2>1, <3>1, <3>2, Zenon
  <2> QED BY <2>2, <2>3, LocationIs DEF Py!Absolute
<1> QED BY <1>3, <1>4

LEMMA PathsStep == ASSUME ~Departing, PathsInv, [Next]_vars PROVE PathsInv'
<1>1. /\ path \in Py!Path /\ ref_path \in Py!Path
      /\ cwd \in Location /\ cwd \in Seq(Name)
  BY ConstantsAssumption DEF PathsInv, Paired
<1>2. \A p \in Py!Path : Paired(p, p)
  BY DEF Paired
<1>3. ASSUME NEW new, NEW ref, Paired(new, ref), Compute(new, ref) PROVE PathsInv'
  BY <1>3 DEF Compute, PathsInv
<1>4. CASE PathCall
  <2>1. CASE \E p \in Operand : Literal(p)
    BY <1>2, <1>3, <2>1, ConstantsAssumption DEF Literal
  <2>2. CASE \E p \in Operand : Join(p)
    BY <1>3, <2>2, PairedJoin, ConstantsAssumption DEF Join, PathsInv
  <2>3. CASE Dirname
    BY <1>3, <2>3, PairedDirname DEF Dirname, PathsInv
  <2>4. CASE Basename
    BY <1>3, <2>4, PairedBasename DEF Basename, PathsInv
  <2>5. CASE Normpath
    BY <1>3, <2>5, PairedNormpath DEF Normpath, PathsInv
  <2>6. Paired(Py!abspath(cwd, path), Py!abspath(cwd, ref_path))
    <3>1. Py!abspath(cwd, path) = Py!abspath(cwd, ref_path)
      BY PairedSame DEF PathsInv
    <3>2. Py!abspath(cwd, path) \in Py!Path
      BY <1>1, AbspathLocation
    <3> QED BY <1>2, <3>1, <3>2
  <2>7. CASE Abspath
    <3>1. Compute(Py!abspath(cwd, path), Py!abspath(cwd, ref_path))
      BY <1>1, <2>7, AbspathSame DEF Abspath
    <3> QED BY <1>3, <2>6, <3>1
  <2>8. CASE Realpath
    <3>1. Compute(Py!abspath(cwd, path), Py!abspath(cwd, ref_path))
      BY <2>8 DEF Realpath, realpath, Py!realpath
    <3> QED BY <1>3, <2>6, <3>1
  <2> QED BY <1>4, <2>1, <2>2, <2>3, <2>4, <2>5, <2>7, <2>8 DEF PathCall
<1>5. ASSUME UNCHANGED program PROVE PathsInv'
  BY <1>5 DEF program, PathsInv
<1>6. CASE \E mode \in Mode : open_proxy(mode)
  <2>1. UNCHANGED program
    BY <1>6 DEF open_proxy, CapioOpen, KernelOpen, Unless, Declined
  <2> QED BY <1>5, <2>1
<1>7. CASE mkdir_proxy \/ makedirs_proxy
  <2>1. UNCHANGED program
    BY <1>7 DEF mkdir_proxy, makedirs_proxy, pycapio_mkdir, os_makedirs, os_mkdir, Unless,
                Declined
  <2> QED BY <1>5, <2>1
<1>8. CASE scandir_proxy \/ listdir_proxy
  <2>1. UNCHANGED program
    BY <1>8 DEF scandir_proxy, listdir_proxy, Lists, Answer, Unless, Declined
  <2> QED BY <1>5, <2>1
<1>9. CASE Queries
  <2>1. UNCHANGED program
    BY <1>9 DEF Queries, Query, YesOrNo, Answer, Unless, Declined
  <2> QED BY <1>5, <2>1
<1>10. CASE chdir
  BY <1>10 DEF chdir, PathsInv
<1>11. CASE \/ \E loc \in Location, node \in {NewFile, Directory} : OthersCreate(loc, node)
            \/ \E loc \in Location : OthersWrite(loc)
  BY <1>5, <1>11 DEF OthersCreate, OthersWrite
<1>12. CASE UNCHANGED vars
  BY <1>5, <1>12 DEF vars, program
<1> QED BY <1>4, <1>6, <1>7, <1>8, <1>9, <1>10, <1>11, <1>12 DEF Next

LEMMA PathsInit == Init => PathsInv
BY SomePaths, ConstantsAssumption DEF Init, PathsInv, Paired

LEMMA PairedAnswers == PathsInv => SameFile
<1> SUFFICES ASSUME PathsInv PROVE SameFile
  OBVIOUS
<1>1. target_path = Meant
  BY PairedSame DEF PathsInv, target_path, Meant
<1>2. isabs(path) = Py!isabs(ref_path)
  BY DEF PathsInv, Paired, isabs, Py!isabs
<1>3. splitext(normcase(path), "")[2] = Py!splitext(ref_path, "")[2]
  <2>1. Py!extension(path, "") = Py!extension(ref_path, "")
    BY PairedSame DEF PathsInv
  <2> QED BY <2>1 DEF normcase, splitext, Py!splitext
<1> QED BY <1>1, <1>2, <1>3 DEF SameFile

(* Any sequence of path functions, of any length and over any literals,     *)
(* between moves of the working directory, leads to the file and to the     *)
(* extension to which Python's lead, as long as the program does not make   *)
(* the calls known to differ.                                               *)
THEOREM SameFileCorrect == ASSUME ~Departing PROVE Spec => []SameFile
<1>1. PathsInv /\ [Next]_vars => PathsInv'
  BY PathsStep
<1> QED BY <1>1, PathsInit, PairedAnswers, PTL DEF Spec

-----------------------------------------------------------------------------
(* Types                                                                    *)

NodesInv == capio \in [Location -> Node] /\ disk \in [Location -> Node]

LEMMA NodesStep == ASSUME NodesInv, [Next]_vars PROVE NodesInv'
<1>1. NewFile \in Node /\ Directory \in Node /\ Absent \in Node
  BY ConstantsAssumption DEF NewFile, Directory, Absent, Node
<1>2. ASSUME NEW loc, NEW node \in Node, CapioCreates(loc, node), UNCHANGED disk
      PROVE  NodesInv'
  BY <1>1, <1>2 DEF CapioCreates, NodesInv
<1>3. ASSUME NEW loc, NEW node \in Node, disk' = [disk EXCEPT ![loc] = node], UNCHANGED capio
      PROVE  NodesInv'
  BY <1>3 DEF NodesInv
<1>4. ASSUME UNCHANGED trees PROVE NodesInv'
  BY <1>4 DEF trees, NodesInv
<1>5. CASE \E mode \in Mode : open_proxy(mode)
  <2>1. PICK mode \in Mode : open_proxy(mode)
    BY <1>5
  <2>2. ASSUME NEW flags, CapioOpen(target_path, mode, flags) PROVE NodesInv'
    BY <1>1, <1>2, <2>2 DEF CapioOpen, NodesInv
  <2>3. ASSUME NEW flags, KernelOpen(target_path, flags) PROVE NodesInv'
    BY <1>1, <1>3, <1>4, <2>3 DEF KernelOpen, Unless, Declined
  <2> QED BY <2>1, <2>2, <2>3 DEF open_proxy
<1>6. CASE mkdir_proxy \/ makedirs_proxy
  <2>1. ASSUME pycapio_mkdir(target_path) PROVE NodesInv'
    BY <1>1, <1>2, <1>4, <2>1 DEF pycapio_mkdir, Unless, Declined
  <2>2. ASSUME os_mkdir(target_path) PROVE NodesInv'
    BY <1>1, <1>3, <1>4, <2>2 DEF os_mkdir, Unless, Declined
  <2>3. ASSUME os_makedirs(path) PROVE NodesInv'
    BY <1>4, <2>2, <2>3 DEF os_makedirs, Unless, Declined
  <2> QED BY <1>6, <2>1, <2>2, <2>3 DEF mkdir_proxy, makedirs_proxy
<1>7. CASE scandir_proxy \/ listdir_proxy \/ Queries
  <2>1. UNCHANGED trees
    BY <1>7, LookStep, Zenon
  <2> QED BY <1>4, <2>1
<1>8. CASE PathCall \/ chdir
  BY <1>4, <1>8 DEF PathCall, Literal, Join, Dirname, Basename, Normpath, Abspath, Realpath,
                    Compute, chdir
<1>9. CASE \E loc \in Location, node \in {NewFile, Directory} : OthersCreate(loc, node)
  BY <1>1, <1>2, <1>9 DEF OthersCreate
<1>10. CASE \E loc \in Location : OthersWrite(loc)
  <2>1. PICK loc \in Location : OthersWrite(loc)
    BY <1>10
  <2>2. capio[loc] \in Node /\ capio[loc].kind = "file" /\ capio[loc].size < MaxSize
    BY <2>1 DEF OthersWrite, NodesInv
  <2>3. [capio[loc] EXCEPT !.size = @ + 1] \in Node
    BY <2>2, ConstantsAssumption DEF Node
  <2>4. capio' = [capio EXCEPT ![loc] = [capio[loc] EXCEPT !.size = @ + 1]]
    BY <2>1 DEF OthersWrite
  <2> QED BY <2>1, <2>3, <2>4 DEF OthersWrite, NodesInv
<1>11. CASE UNCHANGED vars
  BY <1>4, <1>11 DEF vars, trees
<1> QED BY <1>5, <1>6, <1>7, <1>8, <1>9, <1>10, <1>11 DEF Next

LEMMA ReplyStep ==
  ASSUME NodesInv, target_path = Meant, ReplyOK, [Next]_vars PROVE ReplyOK'
<1>1. ASSUME reply' = NoReply PROVE ReplyOK'
  BY <1>1 DEF ReplyOK, NoReply
<1>2. CASE \E mode \in Mode : open_proxy(mode)
  <2>1. PICK mode \in Mode : open_proxy(mode)
    BY <1>2
  <2>2. PICK flags : flags = FlagsOf(mode) /\ flags \subseteq Flag
    BY DEF FlagsOf, Flag
  <2>3. ASSUME CapioOpen(target_path, mode, flags) PROVE ReplyOK'
    <3>1. PICK opened \in BOOLEAN :
            reply' = [op |-> "open", loc |-> target_path, before |-> capio[target_path].kind,
                      mode |-> mode, flags |-> flags, opened |-> opened]
      BY <2>3 DEF CapioOpen, OpenAnswers, Opens
    <3>2. target_path \in Location
      BY <2>1 DEF open_proxy, Usable
    <3> QED BY <2>2, <3>1, <3>2 DEF ReplyOK
  <2>4. ASSUME NEW f, KernelOpen(target_path, f) PROVE ReplyOK'
    BY <1>1, <2>4 DEF KernelOpen, Unless, Declined
  <2> QED BY <2>1, <2>2, <2>3, <2>4 DEF open_proxy
<1>3. CASE PathCall
  BY <1>1, <1>3 DEF PathCall, Literal, Join, Dirname, Basename, Normpath, Abspath, Realpath,
                    Compute
<1>4. CASE mkdir_proxy \/ makedirs_proxy
  BY <1>1, <1>4 DEF mkdir_proxy, makedirs_proxy, pycapio_mkdir, os_makedirs, os_mkdir, Unless,
                    Declined
<1>5. CASE scandir_proxy \/ listdir_proxy
  <2>1. PICK loc \in Location : loc = Meant
    BY <1>5 DEF scandir_proxy, listdir_proxy, Usable
  <2>2. ASSUME NEW tree, NEW at, Lists(tree, at) PROVE ReplyOK'
    <3>1. \/ reply' = NoReply
          \/ reply' = [op |-> "list", loc |-> loc, names |-> Children(tree, at)]
      BY <2>1, <2>2 DEF Lists, Answer, Unless, Declined
    <3>2. Children(tree, at) \subseteq Name
      BY DEF Children
    <3> QED BY <1>1, <3>1, <3>2 DEF ReplyOK
  <2> QED BY <1>1, <1>5, <2>2 DEF scandir_proxy, listdir_proxy, Unless, Declined
<1>6. CASE Queries
  <2>1. PICK loc \in Location : loc = Meant
    BY <1>6 DEF Queries, Query, Usable
  <2>2. Usable
    BY <1>6 DEF Queries, Query
  <2>3. \A fails \in BOOLEAN :
          LET stat == libcapio_stat(capio[CapioLocation], fails)
          IN /\ exists(stat) \in BOOLEAN /\ isfile(stat) \in BOOLEAN /\ isdir(stat) \in BOOLEAN
             /\ getsize(stat) \in 0..MaxSize
    <3>1. capio[CapioLocation].size \in 0..MaxSize /\ 0 \in 0..MaxSize
      BY <2>2, ConstantsAssumption DEF Usable, NodesInv, Node
    <3> QED BY <3>1 DEF libcapio_stat, exists, isfile, isdir, getsize
  <2>4. \/ reply' = NoReply
        \/ \E yes \in BOOLEAN, op \in {"exists", "isfile", "isdir"} :
             reply' = [op |-> op, loc |-> loc, yes |-> yes]
        \/ \E size \in 0..MaxSize : reply' = [op |-> "getsize", loc |-> loc, size |-> size]
    <3>1. CASE Query(LAMBDA s : YesOrNo("exists", exists(s)))
      BY <2>1, <2>3, <3>1 DEF Query, YesOrNo, Answer, Unless, Declined, exists
    <3>2. CASE Query(LAMBDA s : YesOrNo("isfile", isfile(s)))
      BY <2>1, <2>3, <3>2 DEF Query, YesOrNo, Answer, Unless, Declined
    <3>3. CASE Query(LAMBDA s : YesOrNo("isdir", isdir(s)))
      BY <2>1, <2>3, <3>3 DEF Query, YesOrNo, Answer, Unless, Declined
    <3>4. CASE Query(LAMBDA s : [op |-> "getsize", loc |-> Meant, size |-> getsize(s)])
      BY <2>1, <2>3, <3>4 DEF Query, Answer, Unless, Declined
    <3> QED BY <1>6, <3>1, <3>2, <3>3, <3>4 DEF Queries
  <2> QED BY <1>1, <2>4 DEF ReplyOK
<1>7. CASE chdir \/ \E loc \in Location : OthersWrite(loc)
  BY <1>1, <1>7 DEF chdir, OthersWrite
<1>8. CASE \E loc \in Location, node \in {NewFile, Directory} : OthersCreate(loc, node)
  BY <1>1, <1>8 DEF OthersCreate
<1>9. CASE UNCHANGED vars
  BY <1>9 DEF vars, ReplyOK
<1> QED BY <1>2, <1>3, <1>4, <1>5, <1>6, <1>7, <1>8, <1>9 DEF Next

(* Paths stay paths, nodes nodes with sizes in their bound, and an answer   *)
(* is about a location there is. Departing calls are left out, because what *)
(* they mean may be a location outside of the instance.                     *)
THEOREM TypeCorrect == ASSUME ~Departing PROVE Spec => []TypeOK
<1> DEFINE Inv == PathsInv /\ NodesInv /\ ReplyOK
<1>1. Init => Inv
  <2>1. Init => NodesInv
    BY ConstantsAssumption DEF Init, NodesInv, Node, Directory, Absent
  <2> QED BY <2>1, PathsInit DEF Init, ReplyOK
<1>2. Inv /\ [Next]_vars => Inv'
  <2> SUFFICES ASSUME Inv, [Next]_vars PROVE Inv'
    OBVIOUS
  <2>1. target_path = Meant
    BY PairedAnswers DEF SameFile
  <2> QED BY <2>1, PathsStep, NodesStep, ReplyStep
<1>3. Inv => TypeOK
  BY DEF TypeOK, PathsInv, Paired, NodesInv
<1> QED BY <1>1, <1>2, <1>3, PTL DEF Spec

-----------------------------------------------------------------------------
(* Answers                                                                  *)

(* An answer about a location, as AnswersAgree wants it.                    *)
Agrees(answer, tree, loc) ==
  LET node == tree[loc]
      there == node.kind # "none"
  IN /\ answer.op = "exists" => answer.yes = there
     /\ answer.op = "isfile" => answer.yes = (node.kind = "file")
     /\ answer.op = "isdir" /\ there => answer.yes = (node.kind = "dir")
     /\ answer.op = "getsize" /\ there => answer.size = node.size
     /\ answer.op = "list" => answer.names = Children(tree, loc)

(* An answer is true when it comes from the tree the location is in.        *)
LEMMA AnswerAgrees ==
  ASSUME NEW loc, NEW tree, tree = (IF Inside(loc) THEN capio ELSE disk),
         NEW answer, answer.loc = loc, Agrees(answer, tree, loc), Answer(answer)
  PROVE  AnswersAgree'
<1>1. /\ reply' = answer /\ UNCHANGED <<capio, disk>> /\ reply'.loc = loc
      /\ (IF Inside(loc) THEN capio' ELSE disk') = tree
  BY DEF Answer, trees
<1>2. Seen(reply.loc)' = tree[loc]
  BY <1>1 DEF Seen, Inside
<1>3. Children(IF Inside(reply.loc) THEN capio ELSE disk, reply.loc)' = Children(tree, loc)
  BY <1>1 DEF Children, Inside
<1> QED BY <1>1, <1>2, <1>3 DEF AnswersAgree, Agrees

LEMMA QueryAgrees ==
  ASSUME TracksCwd, ~StatMayFail, ClosedInv, target_path = Meant, Queries
  PROVE  AnswersAgree' \/ reply' = NoReply
<1>1. CapioLocation = Meant
  BY DEF CapioLocation, target_path
<1>2. PICK loc : loc = Meant
  OBVIOUS
<1> DEFINE node == capio[loc]
           stat == libcapio_stat(node, FALSE)
<1>3. Usable /\ loc \in Location
  BY <1>1, <1>2 DEF Queries, Query, Usable
<1>4. /\ exists(stat) = (node.kind # "none")
      /\ isfile(stat) = (node.kind = "file")
      /\ node.kind # "none" => isdir(stat) = (node.kind = "dir") /\ getsize(stat) = node.size
  BY <1>3 DEF ClosedInv, libcapio_stat, exists, isfile, isdir, getsize
<1>5. CASE reply' = NoReply
  BY <1>5
<1>6. CASE /\ Inside(loc)
           /\ \/ Answer([op |-> "exists", loc |-> loc, yes |-> exists(stat)])
              \/ Answer([op |-> "isfile", loc |-> loc, yes |-> isfile(stat)])
              \/ Answer([op |-> "isdir", loc |-> loc, yes |-> isdir(stat)])
              \/ Answer([op |-> "getsize", loc |-> loc, size |-> getsize(stat)])
  <2> DEFINE good(answer) ==
        answer.loc = loc /\ Agrees(answer, capio, loc)
  <2>1. good([op |-> "exists", loc |-> loc, yes |-> exists(stat)])
    BY <1>4 DEF Agrees, exists
  <2>2. good([op |-> "isfile", loc |-> loc, yes |-> isfile(stat)])
    BY <1>4 DEF Agrees
  <2>3. good([op |-> "isdir", loc |-> loc, yes |-> isdir(stat)])
    BY <1>4 DEF Agrees
  <2>4. good([op |-> "getsize", loc |-> loc, size |-> getsize(stat)])
    BY <1>4 DEF Agrees
  <2> QED BY <1>6, <2>1, <2>2, <2>3, <2>4, AnswerAgrees, Zenon
<1>7. ASSUME NEW answer, Unless(~Inside(CapioLocation), Answer(answer))
      PROVE  reply' = NoReply \/ (Inside(loc) /\ Answer(answer))
  BY <1>1, <1>2, <1>7 DEF Unless, Declined
<1>8. CASE Query(LAMBDA s : YesOrNo("exists", exists(s)))
  <2>1. Unless(~Inside(CapioLocation), Answer([op |-> "exists", loc |-> loc, yes |-> exists(stat)]))
    BY <1>1, <1>2, <1>8 DEF Query, YesOrNo, exists
  <2> QED BY <1>5, <1>6, <1>7, <2>1, Zenon
<1>9. CASE Query(LAMBDA s : YesOrNo("isfile", isfile(s)))
  <2>1. Unless(~Inside(CapioLocation), Answer([op |-> "isfile", loc |-> loc, yes |-> isfile(stat)]))
    BY <1>1, <1>2, <1>9 DEF Query, YesOrNo
  <2> QED BY <1>5, <1>6, <1>7, <2>1, Zenon
<1>10. CASE Query(LAMBDA s : YesOrNo("isdir", isdir(s)))
  <2>1. Unless(~Inside(CapioLocation), Answer([op |-> "isdir", loc |-> loc, yes |-> isdir(stat)]))
    BY <1>1, <1>2, <1>10 DEF Query, YesOrNo
  <2> QED BY <1>5, <1>6, <1>7, <2>1, Zenon
<1>11. CASE Query(LAMBDA s : [op |-> "getsize", loc |-> Meant, size |-> getsize(s)])
  <2>1. Unless(~Inside(CapioLocation), Answer([op |-> "getsize", loc |-> loc, size |-> getsize(stat)]))
    BY <1>1, <1>2, <1>11 DEF Query
  <2> QED BY <1>5, <1>6, <1>7, <2>1, Zenon
<1> QED BY <1>8, <1>9, <1>10, <1>11 DEF Queries

LEMMA ListingAgrees ==
  ASSUME TracksCwd, target_path = Meant, scandir_proxy \/ listdir_proxy
  PROVE  AnswersAgree' \/ reply' = NoReply
<1>1. CapioLocation = Meant
  BY DEF CapioLocation, target_path
<1>2. PICK loc : loc = Meant
  OBVIOUS
<1>3. ASSUME NEW tree, tree = (IF Inside(loc) THEN capio ELSE disk), Lists(tree, loc)
      PROVE  AnswersAgree' \/ reply' = NoReply
  <2> DEFINE answer == [op |-> "list", loc |-> loc, names |-> Children(tree, loc)]
  <2>1. reply' = NoReply \/ Answer(answer)
    BY <1>2, <1>3 DEF Lists, Unless, Declined
  <2>2. answer.loc = loc /\ Agrees(answer, tree, loc)
    BY DEF Agrees
  <2> HIDE DEF answer
  <2> QED BY <1>3, <2>1, <2>2, AnswerAgrees
<1>4. Usable
  BY DEF scandir_proxy, listdir_proxy
<1>5. CASE ~Routed /\ Lists(disk, target_path)
  <2>1. ~Inside(loc)
    BY <1>2, <1>4, <1>5, InsideIsRouted
  <2> QED BY <1>2, <1>3, <1>5, <2>1
<1>6. CASE Inside(loc) /\ Lists(capio, loc)
  BY <1>3, <1>6
<1>7. CASE Declined
  BY <1>7 DEF Declined
<1> QED BY <1>1, <1>2, <1>5, <1>6, <1>7 DEF scandir_proxy, listdir_proxy, Unless

LEMMA AgreeStep ==
  ASSUME TracksCwd, ~StatMayFail, ClosedInv, target_path = Meant,
         AnswersAgree, [Next]_vars
  PROVE  AnswersAgree'
<1>1. ASSUME reply'.op \in {"none", "open"} PROVE AnswersAgree'
  BY <1>1 DEF AnswersAgree
<1>2. ASSUME reply' = NoReply PROVE AnswersAgree'
  BY <1>1, <1>2 DEF NoReply
<1>3. CASE Queries
  BY <1>2, <1>3, QueryAgrees
<1>4. CASE scandir_proxy \/ listdir_proxy
  BY <1>2, <1>4, ListingAgrees
<1>5. CASE \E mode \in Mode : open_proxy(mode)
  <2>1. reply' = NoReply \/ reply'.op = "open"
    BY <1>5 DEF open_proxy, CapioOpen, OpenAnswers, KernelOpen, Unless, Declined
  <2> QED BY <1>1, <1>2, <2>1
<1>6. CASE PathCall
  BY <1>2, <1>6 DEF PathCall, Literal, Join, Dirname, Basename, Normpath, Abspath, Realpath,
                    Compute
<1>7. CASE mkdir_proxy \/ makedirs_proxy
  BY <1>2, <1>7 DEF mkdir_proxy, makedirs_proxy, pycapio_mkdir, os_makedirs, os_mkdir, Unless,
                    Declined
<1>8. CASE chdir \/ \E loc \in Location : OthersWrite(loc)
  BY <1>2, <1>8 DEF chdir, OthersWrite
<1>9. CASE \E loc \in Location, node \in {NewFile, Directory} : OthersCreate(loc, node)
  BY <1>2, <1>9 DEF OthersCreate
<1>10. CASE UNCHANGED vars
  BY <1>10 DEF vars, AnswersAgree, Seen, Inside, Children
<1> QED BY <1>3, <1>4, <1>5, <1>6, <1>7, <1>8, <1>9, <1>10 DEF Next

(* If CAPIO resolves relative paths from the current directory and no stat  *)
(* fails but for ENOENT, each query and each listing says what is at the    *)
(* place the program means, in CAPIO or on disk, whoever created it and     *)
(* however its path was computed.                                           *)
THEOREM AnswersAgreeCorrect ==
  ASSUME ~Departing, TracksCwd, ~StatMayFail PROVE Spec => []AnswersAgree
<1> DEFINE Inv == TreesInv /\ ClosedInv /\ AnswersAgree
<1>1. Init => Inv
  <2>1. Init => TreesInv
    BY DEF Init, TreesInv, Inside, IsPrefix, Absent, Directory
  <2>2. Init => AnswersAgree
    BY DEF Init, AnswersAgree, NoReply
  <2> QED BY <2>1, <2>2, ClosedInit
<1>2. ASSUME SameFile, Inv, [Next]_vars PROVE Inv'
  <2>1. TreesInv' /\ ClosedInv'
    BY <1>2, TreesStep, ClosedStep DEF Keeps
  <2>2. AnswersAgree'
    BY <1>2, AgreeStep DEF SameFile
  <2> QED BY <2>1, <2>2
<1> QED BY <1>1, <1>2, SameFileCorrect, PTL DEF Spec

-----------------------------------------------------------------------------
(* What the program creates                                                 *)

(* What a call may do that creates a node at a location.                    *)
Creates(loc, node) ==
  \/ UNCHANGED trees
  \/ /\ Inside(loc) /\ CapioMayCreate(loc) /\ CapioCreates(loc, node)
     /\ UNCHANGED disk
  \/ /\ ~Inside(loc) /\ disk[loc].kind = "none" /\ disk' = [disk EXCEPT ![loc] = node]
     /\ UNCHANGED capio

LEMMA ProxiesCreate ==
  ASSUME \/ \E mode \in Mode : open_proxy(mode)
         \/ mkdir_proxy \/ makedirs_proxy
  PROVE  /\ target_path \in Location
         /\ UNCHANGED program
         /\ \E node \in {NewFile, Directory} : Creates(target_path, node)
<1>1. ASSUME NEW mode \in Mode, open_proxy(mode) PROVE Creates(target_path, NewFile)
  <2>1. CASE Inside(target_path)
    <3>1. CapioOpen(target_path, mode, FlagsOf(mode))
      BY <1>1, <2>1, InsideIsRouted DEF open_proxy
    <3> QED BY <2>1, <3>1 DEF CapioOpen, Creates, trees
  <2>2. CASE ~Inside(target_path)
    <3>1. PICK flags : KernelOpen(target_path, flags)
      BY <1>1, <2>2 DEF open_proxy
    <3> QED BY <2>2, <3>1 DEF KernelOpen, Unless, Declined, Creates
  <2> QED BY <2>1, <2>2
<1>2. ASSUME mkdir_proxy \/ makedirs_proxy PROVE Creates(target_path, Directory)
  <2>1. CASE Routed /\ pycapio_mkdir(target_path)
    BY <2>1 DEF pycapio_mkdir, Unless, Declined, Creates
  <2>2. CASE ~Routed /\ (os_mkdir(target_path) \/ os_makedirs(path))
    <3>1. ~Inside(target_path)
      BY <1>2, <2>2, InsideIsRouted DEF mkdir_proxy, makedirs_proxy
    <3>2. Declined \/ os_mkdir(target_path)
      BY <2>2 DEF os_makedirs, Unless
    <3> QED BY <3>1, <3>2 DEF os_mkdir, Unless, Declined, Creates
  <2> QED BY <1>2, <2>1, <2>2 DEF mkdir_proxy, makedirs_proxy
<1>3. target_path \in Location
  BY DEF open_proxy, mkdir_proxy, makedirs_proxy, Usable
<1>4. UNCHANGED program
  BY DEF open_proxy, CapioOpen, KernelOpen, mkdir_proxy, makedirs_proxy, pycapio_mkdir,
         os_mkdir, os_makedirs, Unless, Declined
<1> QED BY <1>1, <1>2, <1>3, <1>4

LEMMA CreatedAt ==
  ASSUME TreesInv, NEW loc \in Location, NEW node, Creates(loc, node)
  PROVE  /\ \A l \in Location : Seen(l)' # Seen(l) =>
              /\ Seen(l).kind = "none"
              /\ l # loc => Inside(l) /\ l \in Ancestors(loc) /\ Seen(l)' = Directory
         /\ trees' # trees => Seen(loc).kind = "none" /\ Seen(loc)' = node
<1>1. CASE UNCHANGED trees
  BY <1>1 DEF trees, Seen, Inside
<1>2. CASE /\ Inside(loc) /\ CapioMayCreate(loc) /\ CapioCreates(loc, node)
           /\ UNCHANGED disk
  <2>1. capio[loc].kind = "none" /\ capio'[loc] = node
    BY <1>2 DEF CapioMayCreate, CapioCreates
  <2>2. \A l \in Location : l # loc /\ capio'[l] # capio[l] =>
          /\ Inside(l) /\ l \in Ancestors(loc)
          /\ capio[l].kind = "none" /\ capio'[l] = Directory
    BY <1>2 DEF CapioCreates
  <2> QED BY <1>2, <2>1, <2>2 DEF Seen, Inside
<1>3. CASE /\ ~Inside(loc) /\ disk[loc].kind = "none" /\ disk' = [disk EXCEPT ![loc] = node]
           /\ UNCHANGED capio
  <2>1. disk'[loc] = node /\ \A l \in Location : l # loc => disk'[l] = disk[l]
    BY <1>3 DEF TreesInv
  <2> QED BY <1>3, <2>1 DEF Seen, Inside
<1> QED BY <1>1, <1>2, <1>3 DEF Creates

(* Whatever path functions a program has gone through and wherever it has   *)
(* moved, open, mkdir and makedirs spare what is there and create what it   *)
(* means where it means it, in CAPIO or on disk, if it makes none of the    *)
(* path calls known to differ from Python's.                                *)
THEOREM CreatesWhatIsMeantCorrect == ASSUME ~Departing PROVE Spec => CreatesWhatIsMeant
<1>1. Init => TreesInv
  BY DEF Init, TreesInv, Inside, IsPrefix, Absent, Directory
<1>2. TreesInv /\ [Next]_vars => TreesInv'
  BY TreesStep DEF Keeps
<1>3. TreesInv /\ SameFile /\ [Next]_vars =>
        [trees' # trees /\ ((\E mode \in Mode : open_proxy(mode)) \/ mkdir_proxy \/ makedirs_proxy)
           => /\ Seen(Meant).kind = "none"
              /\ Seen(Meant)' \in {NewFile, Directory}
              /\ \A loc \in Location : Seen(loc)' # Seen(loc) =>
                   /\ Seen(loc).kind = "none"
                   /\ loc # Meant => /\ Inside(loc) /\ loc \in Ancestors(Meant)
                                     /\ Seen(loc)' = Directory]_vars
  <2> SUFFICES ASSUME TreesInv, SameFile, trees' # trees,
                      \/ \E mode \in Mode : open_proxy(mode)
                      \/ mkdir_proxy \/ makedirs_proxy
               PROVE  /\ Seen(Meant).kind = "none"
                      /\ Seen(Meant)' \in {NewFile, Directory}
                      /\ \A loc \in Location : Seen(loc)' # Seen(loc) =>
                           /\ Seen(loc).kind = "none"
                           /\ loc # Meant => /\ Inside(loc) /\ loc \in Ancestors(Meant)
                                             /\ Seen(loc)' = Directory
    OBVIOUS
  <2>1. PICK place \in Location, node \in {NewFile, Directory} :
          place = target_path /\ Creates(place, node) /\ UNCHANGED program
    BY ProxiesCreate
  <2>2. place = Meant
    BY <2>1 DEF SameFile
  <2>3. /\ \A l \in Location : Seen(l)' # Seen(l) =>
             /\ Seen(l).kind = "none"
             /\ l # place => Inside(l) /\ l \in Ancestors(place) /\ Seen(l)' = Directory
        /\ trees' # trees => Seen(place).kind = "none" /\ Seen(place)' = node
    BY <2>1, CreatedAt
  <2>4. Seen(place)' = Seen(Meant)'
    BY <2>1, <2>2 DEF Meant, program, Seen, Inside
  <2> QED BY <2>1, <2>2, <2>3, <2>4
<1> QED BY <1>1, <1>2, <1>3, SameFileCorrect, PTL DEF Spec, CreatesWhatIsMeant
=============================================================================
