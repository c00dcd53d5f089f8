---------------------------- MODULE OsPathProofs ----------------------------
(***************************************************************************)
(* Theorems about OsPath, for any names, any working directory and paths   *)
(* of any length: where the path leads that a function of the class makes  *)
(* of its arguments.                                                       *)
(*                                                                         *)
(* Collapse reads a path one component after the other, so its properties  *)
(* are proved by induction over the components. The induction principles   *)
(* below are about sets: what holds of the members of a set, if the set    *)
(* has the first member and the next of each it has.                       *)
(***************************************************************************)
EXTENDS OsPath, SequenceTheorems, WellFoundedInduction, TLAPS

-----------------------------------------------------------------------------
(* Induction                                                                *)

(* A set with 0, and the successor of each number it has, has them all.     *)
LEMMA NatSetInduction ==
  ASSUME NEW S, 0 \in S, \A n \in Nat : n \in S => n + 1 \in S
  PROVE  Nat \subseteq S
<1> DEFINE T == Nat \ S
<1> SUFFICES ASSUME T # {} PROVE FALSE
  OBVIOUS
<1>1. PICK x \in T : \A y \in T : <<y, x>> \notin OpToRel(<, Nat)
  <2>1. T \subseteq Nat
    OBVIOUS
  <2> HIDE DEF T
  <2> QED BY <2>1, WFMin, NatLessThanWellFounded, Zenon
<1>2. x # 0 /\ x - 1 \in Nat /\ x - 1 < x
  OBVIOUS
<1>3. x - 1 \in S
  <2>1. x - 1 \notin T
    BY <1>1, <1>2 DEF OpToRel
  <2> QED BY <1>2, <2>1
<1> QED BY <1>2, <1>3

(* A set with the empty sequence, and what it has with one more element     *)
(* appended, has every sequence.                                            *)
LEMMA SeqSetInduction ==
  ASSUME NEW S, NEW T, <<>> \in T,
         \A s \in Seq(S), e \in S : s \in T => Append(s, e) \in T
  PROVE  Seq(S) \subseteq T
<1> DEFINE N == {n \in Nat : \A s \in Seq(S) : Len(s) = n => s \in T}
<1>1. 0 \in N
  BY EmptySeq
<1>2. ASSUME NEW n \in Nat, n \in N PROVE n + 1 \in N
  <2> SUFFICES ASSUME NEW s \in Seq(S), Len(s) = n + 1 PROVE s \in T
    OBVIOUS
  <2>1. s # <<>>
    BY EmptySeq
  <2>2. PICK t \in Seq(S), e \in S : s = Append(t, e)
    BY <2>1, SequenceEmptyOrAppend
  <2>3. Len(t) = n
    BY <2>2, AppendProperties, LenProperties
  <2> QED BY <1>2, <2>2, <2>3
<1>3. Nat \subseteq N
  BY <1>1, <1>2, NatSetInduction
<1> QED BY <1>3, LenProperties

-----------------------------------------------------------------------------
(* Collapse, component by component                                         *)

(* f[n] is what is left of the first n names, up to the last.               *)
Reads(f, names, root, last) ==
  f = [n \in 0..last |->
         IF n = 0 THEN <<>> ELSE Py!Read(f[n - 1], names[n], root)]

(* The recursive definition of Collapse defines a function.                 *)
LEMMA CollapseDef ==
  ASSUME NEW names, NEW root, Len(names) \in Nat
  PROVE  \E f : Reads(f, names, root, Len(names)) /\ Py!Collapse(names, root) = f[Len(names)]
<1> DEFINE S == {n \in Nat : \E f : Reads(f, names, root, n)}
<1>1. 0 \in S
  <2>1. Reads([n \in 0..0 |-> <<>>], names, root, 0)
    BY DEF Reads
  <2> QED BY <2>1
<1>2. ASSUME NEW n \in Nat, n \in S PROVE n + 1 \in S
  <2>1. PICK f : Reads(f, names, root, n)
    BY <1>2
  <2> DEFINE g == [i \in 0..n+1 |-> IF i = n + 1 THEN Py!Read(f[n], names[n+1], root) ELSE f[i]]
  <2>2. \A i \in 0..n : g[i] = f[i]
    OBVIOUS
  <2>3. \A i \in 0..n+1 : g[i] = IF i = 0 THEN <<>> ELSE Py!Read(g[i-1], names[i], root)
    <3> TAKE i \in 0..n+1
    <3>1. CASE i = n + 1
      BY <2>2, <3>1
    <3>2. CASE i # n + 1
      <4>1. i \in 0..n /\ g[i] = f[i] /\ (i # 0 => g[i-1] = f[i-1])
        BY <3>2, <2>2
      <4>2. f[i] = IF i = 0 THEN <<>> ELSE Py!Read(f[i-1], names[i], root)
        BY <2>1, <4>1 DEF Reads
      <4> QED BY <4>1, <4>2
    <3> QED BY <3>1, <3>2
  <2>4. g = [i \in 0..n+1 |-> g[i]]
    OBVIOUS
  <2> HIDE DEF g
  <2>5. Reads(g, names, root, n+1)
    BY <2>3, <2>4 DEF Reads
  <2> QED BY <2>5
<1>3. \E f : Reads(f, names, root, Len(names))
  BY <1>1, <1>2, NatSetInduction
<1> QED
  BY <1>3 DEF Reads, Py!Collapse

(* The names that come later change nothing of what is left of the first.   *)
LEMMA ReadsAgree ==
  ASSUME NEW f, NEW g, NEW a, NEW b, NEW root, NEW m \in Nat, NEW n \in Nat, m <= n,
         Reads(f, a, root, m), Reads(g, b, root, n),
         \A i \in 1..m : a[i] = b[i]
  PROVE  \A i \in 0..m : f[i] = g[i]
<1> DEFINE S == {i \in Nat : i <= m => f[i] = g[i]}
<1>1. 0 \in S
  BY DEF Reads
<1>2. ASSUME NEW i \in Nat, i \in S PROVE i + 1 \in S
  <2> SUFFICES ASSUME i + 1 <= m PROVE f[i+1] = g[i+1]
    OBVIOUS
  <2>1. i + 1 \in 0..m /\ i + 1 \in 0..n /\ i + 1 # 0 /\ i + 1 - 1 = i /\ i + 1 \in 1..m
    OBVIOUS
  <2>2. f[i+1] = Py!Read(f[i], a[i+1], root)
    BY <2>1 DEF Reads
  <2>3. g[i+1] = Py!Read(g[i], b[i+1], root)
    BY <2>1 DEF Reads
  <2> QED BY <1>2, <2>1, <2>2, <2>3
<1>3. Nat \subseteq S
  <2> HIDE DEF S
  <2> QED BY <1>1, <1>2, NatSetInduction
<1> QED BY <1>3

(* These two facts are all that the proofs below use of Collapse.           *)
LEMMA CollapseEmpty == ASSUME NEW root PROVE Py!Collapse(<<>>, root) = <<>>
<1>1. Len(<<>>) = 0
  OBVIOUS
<1>2. PICK f : Reads(f, <<>>, root, 0) /\ Py!Collapse(<<>>, root) = f[0]
  BY <1>1, CollapseDef
<1> QED BY <1>2 DEF Reads

LEMMA CollapseAppend ==
  ASSUME NEW S, NEW names \in Seq(S), NEW x \in S, NEW root
  PROVE  Py!Collapse(Append(names, x), root) = Py!Read(Py!Collapse(names, root), x, root)
<1>1. PICK n \in Nat : n = Len(names)
  BY LenProperties
<1>2. /\ Len(Append(names, x)) = n + 1 /\ Append(names, x)[n + 1] = x
      /\ \A i \in 1..n : names[i] = Append(names, x)[i]
  BY <1>1, AppendProperties
<1>3. PICK f : Reads(f, names, root, n) /\ Py!Collapse(names, root) = f[n]
  BY <1>1, CollapseDef
<1>4. PICK g : /\ Reads(g, Append(names, x), root, n + 1)
               /\ Py!Collapse(Append(names, x), root) = g[n + 1]
  <2>1. n + 1 \in Nat
    OBVIOUS
  <2> QED BY <1>2, <2>1, CollapseDef
<1>5. f[n] = g[n]
  <2>1. n + 1 \in Nat /\ n <= n + 1 /\ n \in 0..n
    OBVIOUS
  <2>2. PICK k \in Nat : k = n + 1
    OBVIOUS
  <2>3. Reads(g, Append(names, x), root, k) /\ n <= k
    BY <1>4, <2>2
  <2>4. \A i \in 0..n : f[i] = g[i]
    <3>1. PICK longer : /\ Reads(g, longer, root, k)
                        /\ \A i \in 1..n : names[i] = longer[i]
      BY <1>2, <2>3
    <3> QED BY <1>3, <2>3, <3>1, ReadsAgree
  <2> QED BY <2>1, <2>4
<1>6. g[n + 1] = Py!Read(g[n], x, root)
  <2>1. n + 1 \in 0..(n + 1) /\ n + 1 # 0 /\ n + 1 - 1 = n
    OBVIOUS
  <2> QED BY <1>2, <1>4, <2>1 DEF Reads
<1> QED BY <1>3, <1>4, <1>5, <1>6

-----------------------------------------------------------------------------
(* Reading one component                                                    *)

LEMMA AppendLast ==
  ASSUME NEW S, NEW s \in Seq(S), NEW e \in S
  PROVE  /\ Append(s, e) # <<>>
         /\ Last(Append(s, e)) = e /\ Front(Append(s, e)) = s
<1>1. PICK n \in Nat : n = Len(s)
  BY LenProperties
<1>2. PICK t : t = Append(s, e)
  OBVIOUS
<1>3. /\ t \in Seq(S) /\ t # <<>> /\ Len(t) = n + 1 /\ t[n + 1] = e
      /\ \A i \in 1..n : t[i] = s[i]
  BY <1>1, <1>2, AppendProperties
<1>4. Last(t) = e
  BY <1>3 DEF Last
<1>5. Front(t) = SubSeq(t, 1, n)
  BY <1>3 DEF Front
<1>6. \A i \in 1..n : s[i] \in S /\ t[i] = s[i]
  BY <1>1, <1>3, ElementOfSeq
<1>7. /\ SubSeq(t, 1, n) \in Seq(S) /\ Len(SubSeq(t, 1, n)) = n
      /\ \A i \in 1..n : SubSeq(t, 1, n)[i] = t[i]
  <2>1. 1 \in Int /\ n \in Int /\ n = (IF 1 <= n THEN n - 1 + 1 ELSE 0)
        /\ (\A i \in 1..n : 1 + i - 1 = i) /\ (\A i \in 1..n : t[i] \in S)
    BY <1>6
  <2> QED BY <2>1, SubSeqProperties
<1>8. SubSeq(t, 1, n) = s
  BY <1>1, <1>6, <1>7, SeqEqual
<1> QED BY <1>2, <1>3, <1>4, <1>5, <1>8

(* PosixPath extends SequencesExt under its own name.                       *)
LEMMA SameEnds == \A s : Py!Front(s) = Front(s) /\ Py!Last(s) = Last(s)
BY DEF Front, Last, Py!Front, Py!Last

LEMMA ReadProperties ==
  ASSUME NEW s, NEW root
  PROVE  /\ \A x \in Name : Py!Read(s, x, root) = Append(s, x)
         /\ Py!Read(s, Dot, root) = s
         /\ Py!Read(<<>>, DotDot, root) = IF root THEN <<>> ELSE Append(<<>>, DotDot)
BY NameAssumption DEF Py!Read

LEMMA ReadUp ==
  ASSUME NEW s \in Seq(Py!Component), NEW y \in Py!Component, NEW root \in BOOLEAN
  PROVE  Py!Read(Append(s, y), DotDot, root) =
           IF y # DotDot THEN s
           ELSE IF root THEN Append(s, y) ELSE Append(Append(s, y), DotDot)
<1>1. PICK t : t = Append(s, y)
  OBVIOUS
<1>2. t # <<>> /\ Last(t) = y /\ Front(t) = s
  BY <1>1, AppendLast
<1>3. Py!Read(t, DotDot, root) =
        IF y # DotDot THEN s ELSE IF root THEN t ELSE Append(t, DotDot)
  BY <1>2, SameEnds, NameAssumption DEF Py!Read
<1> QED BY <1>1, <1>3

(* Nothing that was collapsed has a "." left, and under the root no "..".   *)
Collapsed(root) == Seq(IF root THEN Name ELSE Name \cup {DotDot})

LEMMA ReadType ==
  ASSUME NEW root \in BOOLEAN, NEW s \in Collapsed(root), NEW x \in Py!Component
  PROVE  Py!Read(s, x, root) \in Collapsed(root)
<1> DEFINE C == IF root THEN Name ELSE Name \cup {DotDot}
<1>1. C \subseteq Py!Component /\ s \in Seq(C) /\ (~root => DotDot \in C) /\ Name \subseteq C
  BY DEF Collapsed, Py!Component
<1> SUFFICES Py!Read(s, x, root) \in Seq(C)
  BY DEF Collapsed
<1> HIDE DEF C
<1>2. CASE x \in Name
  <2>1. Py!Read(s, x, root) = Append(s, x) /\ x \in C
    BY <1>1, <1>2, ReadProperties
  <2> QED BY <1>1, <2>1, AppendProperties
<1>3. CASE x = Dot
  BY <1>1, <1>3, ReadProperties
<1>4. CASE x = DotDot /\ s = <<>>
  <2>1. <<>> \in Seq(C) /\ (~root => Append(<<>>, DotDot) \in Seq(C))
    BY <1>1, EmptySeq, AppendProperties
  <2>2. Py!Read(s, x, root) = IF root THEN <<>> ELSE Append(<<>>, DotDot)
    BY <1>4, ReadProperties
  <2> QED BY <2>1, <2>2
<1>5. CASE x = DotDot /\ s # <<>>
  <2>1. PICK t \in Seq(C), y \in C : s = Append(t, y)
    BY <1>1, <1>5, SequenceEmptyOrAppend
  <2>2. t \in Seq(Py!Component) /\ y \in Py!Component
    BY <1>1, <2>1, SeqMonotonic
  <2>3. Py!Read(s, DotDot, root) \in {t, s, Append(s, DotDot)}
    BY <2>1, <2>2, ReadUp
  <2>4. ~root => Append(s, DotDot) \in Seq(C)
    BY <1>1, AppendProperties
  <2>5. root => y # DotDot
    BY <2>1, NameAssumption DEF C
  <2>6. root => Py!Read(s, DotDot, root) = t
    BY <2>1, <2>2, <2>5, ReadUp
  <2> QED BY <1>1, <1>5, <2>1, <2>3, <2>4, <2>6
<1> QED BY <1>2, <1>3, <1>4, <1>5 DEF Py!Component

-----------------------------------------------------------------------------
(* Collapsing                                                               *)

LEMMA CollapseType ==
  ASSUME NEW names \in Seq(Py!Component), NEW root \in BOOLEAN
  PROVE  Py!Collapse(names, root) \in Collapsed(root)
<1> DEFINE T == {s \in Seq(Py!Component) : Py!Collapse(s, root) \in Collapsed(root)}
<1>1. <<>> \in T
  BY CollapseEmpty, EmptySeq DEF Collapsed
<1>2. ASSUME NEW s \in Seq(Py!Component), NEW e \in Py!Component, s \in T
      PROVE  Append(s, e) \in T
  BY <1>2, CollapseAppend, ReadType, AppendProperties
<1>3. Seq(Py!Component) \subseteq T
  <2> HIDE DEF T
  <2> QED BY <1>1, <1>2, SeqSetInduction
<1> QED BY <1>3

LEMMA CollapsedNames ==
  ASSUME NEW root \in BOOLEAN
  PROVE  /\ Collapsed(root) \subseteq Seq(Py!Component)
         /\ Collapsed(TRUE) = Seq(Name)
         /\ Seq(Name) \subseteq Collapsed(root)
<1>1. Collapsed(TRUE) = Seq(Name)
  BY DEF Collapsed
<1>2. Seq(Name) \subseteq Collapsed(root)
  BY SeqMonotonic DEF Collapsed
<1>3. Collapsed(root) \subseteq Seq(Py!Component)
  BY SeqMonotonic DEF Collapsed, Py!Component
<1> QED BY <1>1, <1>2, <1>3

(* What has no dots stays as it is.                                         *)
LEMMA CollapseNames ==
  ASSUME NEW names \in Seq(Name), NEW root PROVE Py!Collapse(names, root) = names
<1> DEFINE T == {s \in Seq(Name) : Py!Collapse(s, root) = s}
<1>1. <<>> \in T
  BY CollapseEmpty, EmptySeq
<1>2. ASSUME NEW s \in Seq(Name), NEW e \in Name, s \in T PROVE Append(s, e) \in T
  <2>1. Py!Collapse(Append(s, e), root) = Py!Read(s, e, root)
    BY <1>2, CollapseAppend
  <2>2. Py!Collapse(Append(s, e), root) = Append(s, e)
    BY <2>1, ReadProperties
  <2> QED BY <2>2, AppendProperties
<1>3. Seq(Name) \subseteq T
  <2> HIDE DEF T
  <2> QED BY <1>1, <1>2, SeqSetInduction
<1> QED BY <1>3

LEMMA ConcatAppend ==
  ASSUME NEW S, NEW a \in Seq(S), NEW b \in Seq(S), NEW e \in S
  PROVE  a \o Append(b, e) = Append(a \o b, e)
<1>1. a \o b \in Seq(S) /\ <<e>> \in Seq(S)
  BY ConcatProperties
<1>2. Append(b, e) = b \o <<e>> /\ Append(a \o b, e) = (a \o b) \o <<e>>
  BY <1>1, AppendIsConcat
<1> QED BY <1>1, <1>2, ConcatAssociative

(* What comes before counts by what it collapses to.                        *)
LEMMA CollapsePrefix ==
  ASSUME NEW a \in Seq(Py!Component), NEW b \in Seq(Py!Component),
         NEW c \in Seq(Py!Component), NEW root,
         Py!Collapse(a, root) = Py!Collapse(b, root)
  PROVE  Py!Collapse(a \o c, root) = Py!Collapse(b \o c, root)
<1> DEFINE T == {s \in Seq(Py!Component) :
                   Py!Collapse(a \o s, root) = Py!Collapse(b \o s, root)}
<1>1. <<>> \in T
  BY ConcatEmptySeq, EmptySeq
<1>2. ASSUME NEW s \in Seq(Py!Component), NEW e \in Py!Component, s \in T
      PROVE  Append(s, e) \in T
  <2>1. a \o s \in Seq(Py!Component) /\ b \o s \in Seq(Py!Component)
    BY ConcatProperties
  <2>2. /\ Py!Collapse(a \o Append(s, e), root) = Py!Read(Py!Collapse(a \o s, root), e, root)
        /\ Py!Collapse(b \o Append(s, e), root) = Py!Read(Py!Collapse(b \o s, root), e, root)
    <3>1. a \o Append(s, e) = Append(a \o s, e) /\ b \o Append(s, e) = Append(b \o s, e)
      BY ConcatAppend
    <3>2. PICK at \in Seq(Py!Component), bt \in Seq(Py!Component) :
            at = a \o s /\ bt = b \o s
      BY <2>1
    <3>3. /\ Py!Collapse(Append(at, e), root) = Py!Read(Py!Collapse(at, root), e, root)
          /\ Py!Collapse(Append(bt, e), root) = Py!Read(Py!Collapse(bt, root), e, root)
      BY CollapseAppend
    <3> QED BY <3>1, <3>2, <3>3
  <2> QED BY <1>2, <2>2, AppendProperties
<1>3. Seq(Py!Component) \subseteq T
  <2> HIDE DEF T
  <2> QED BY <1>1, <1>2, SeqSetInduction
<1> QED BY <1>3

(* A "." anywhere counts for nothing.                                       *)
LEMMA CollapseDot ==
  ASSUME NEW a \in Seq(Py!Component), NEW c \in Seq(Py!Component), NEW root
  PROVE  Py!Collapse(a \o (<<Dot>> \o c), root) = Py!Collapse(a \o c, root)
<1>1. Dot \in Py!Component /\ <<Dot>> \in Seq(Py!Component)
  BY DEF Py!Component
<1>2. a \o <<Dot>> = Append(a, Dot) /\ Append(a, Dot) \in Seq(Py!Component)
  BY <1>1, AppendIsConcat, AppendProperties
<1>3. Py!Collapse(Append(a, Dot), root) = Py!Collapse(a, root)
  BY <1>1, CollapseAppend, ReadProperties
<1>4. Py!Collapse(Append(a, Dot) \o c, root) = Py!Collapse(a \o c, root)
  <2>1. PICK d \in Seq(Py!Component) : d = Append(a, Dot)
    BY <1>2
  <2>2. Py!Collapse(d, root) = Py!Collapse(a, root)
    BY <1>3, <2>1
  <2>3. Py!Collapse(d \o c, root) = Py!Collapse(a \o c, root)
    BY ONLY d \in Seq(Py!Component), a \in Seq(Py!Component), c \in Seq(Py!Component),
            <2>2, CollapsePrefix
  <2> QED BY <2>1, <2>3
<1>5. a \o (<<Dot>> \o c) = (a \o <<Dot>>) \o c
  BY <1>1, ConcatAssociative
<1> QED BY <1>2, <1>4, <1>5

(* Collapsing a relative part first makes no difference to the whole.       *)
LEMMA CollapseWithin ==
  ASSUME NEW a \in Seq(Py!Component), NEW names \in Seq(Py!Component)
  PROVE  Py!Collapse(a \o Py!Collapse(names, FALSE), TRUE) = Py!Collapse(a \o names, TRUE)
<1> DEFINE first(s) == Py!Collapse(s, FALSE)
           whole(s) == Py!Collapse(a \o s, TRUE)
           T == {s \in Seq(Py!Component) : whole(first(s)) = whole(s)}
<1>1. <<>> \in T
  BY CollapseEmpty, EmptySeq
<1>2. ASSUME NEW s \in Seq(Py!Component), NEW e \in Py!Component
      PROVE  whole(Append(s, e)) = Py!Read(whole(s), e, TRUE)
  <2>1. a \o s \in Seq(Py!Component) /\ a \o Append(s, e) = Append(a \o s, e)
    BY ConcatProperties, ConcatAppend
  <2> QED BY <2>1, CollapseAppend
<1>3. ASSUME NEW s \in Seq(Py!Component), NEW e \in Py!Component, s \in T
      PROVE  whole(first(Append(s, e))) = whole(Append(s, e))
  <2>1. first(s) \in Seq(Name \cup {DotDot}) /\ first(s) \in Seq(Py!Component)
    BY CollapseType, CollapsedNames DEF Collapsed
  <2>2. first(Append(s, e)) = Py!Read(first(s), e, FALSE)
    BY CollapseAppend
  <2>3. whole(Append(first(s), e)) = whole(Append(s, e))
    BY <1>2, <1>3, <2>1
  <2> HIDE DEF first
  <2>4. CASE e \in Name
    BY <2>2, <2>3, <2>4, ReadProperties
  <2>5. CASE e = Dot
    <3>1. first(Append(s, e)) = first(s) /\ whole(Append(s, e)) = whole(s)
      BY <1>2, <2>2, <2>5, ReadProperties
    <3> QED BY <1>3, <3>1
  <2>6. CASE e = DotDot /\ first(s) = <<>>
    BY <2>2, <2>3, <2>6, ReadProperties
  <2>7. CASE e = DotDot /\ first(s) # <<>>
    <3>1. PICK t \in Seq(Name \cup {DotDot}), y \in Name \cup {DotDot} : first(s) = Append(t, y)
      BY <2>1, <2>7, SequenceEmptyOrAppend
    <3>2. t \in Seq(Py!Component) /\ y \in Py!Component
      BY <3>1, SeqMonotonic DEF Py!Component
    <3>3. CASE y = DotDot
      <4>1. first(Append(s, e)) = Append(first(s), e)
        <5>1. Py!Read(Append(t, y), DotDot, FALSE) = Append(Append(t, y), DotDot)
          BY <3>2, <3>3, ReadUp
        <5> QED BY <2>2, <2>7, <3>1, <5>1, Zenon
      <4> QED BY <2>3, <4>1
    <3>4. CASE y \in Name
      <4>1. first(Append(s, e)) = t
        <5>1. Py!Read(Append(t, y), DotDot, FALSE) = t
          BY <3>2, <3>4, ReadUp, NameAssumption
        <5> QED BY <2>2, <2>7, <3>1, <5>1, Zenon
      <4>2. whole(first(s)) = Append(whole(t), y)
        <5>1. whole(Append(t, y)) = Py!Read(whole(t), y, TRUE)
          BY <1>2, <3>2, Zenon
        <5>2. Py!Read(whole(t), y, TRUE) = Append(whole(t), y)
          BY <3>4, ReadProperties, Zenon
        <5> QED BY <3>1, <5>1, <5>2, Zenon
      <4>3. whole(t) \in Seq(Py!Component)
        BY <3>2, ConcatProperties, CollapseType, CollapsedNames
      <4>4. whole(Append(s, e)) = Py!Read(Append(whole(t), y), DotDot, TRUE)
        BY <1>2, <1>3, <2>7, <4>2
      <4>5. Py!Read(Append(whole(t), y), DotDot, TRUE) = whole(t)
        <5> HIDE DEF whole
        <5> QED BY <3>2, <3>4, <4>3, ReadUp, NameAssumption
      <4> QED BY <4>1, <4>4, <4>5
    <3> QED BY <3>1, <3>3, <3>4
  <2> QED BY <2>4, <2>5, <2>6, <2>7 DEF Py!Component
<1>4. \A s \in Seq(Py!Component), e \in Py!Component : s \in T => Append(s, e) \in T
  <2> HIDE DEF first, whole
  <2> QED BY <1>3, AppendProperties
<1>5. Seq(Py!Component) \subseteq T
  <2> HIDE DEF T
  <2> QED BY <1>1, <1>4, SeqSetInduction
<1> QED BY <1>5

-----------------------------------------------------------------------------
(* Locations                                                                *)

LEMMA PathFields ==
  ASSUME NEW p \in Py!Path
  PROVE  /\ p.root \in BOOLEAN /\ p.names \in Seq(Py!Component) /\ p.slash \in BOOLEAN
         /\ p.slash => p.names # <<>>
         /\ p = [root |-> p.root, names |-> p.names, slash |-> p.slash]
         /\ p = Py!Empty <=> ~p.root /\ p.names = <<>>
BY DEF Py!Path, Py!Empty

LEMMA SomePaths ==
  /\ Py!Empty \in Py!Path
  /\ \A names \in Seq(Py!Component) : Py!Relative(names) \in Py!Path /\ Py!Absolute(names) \in Py!Path
  /\ \A p \in Py!Path, names \in Seq(Py!Component) :
       [p EXCEPT !.names = names, !.slash = FALSE] \in Py!Path
BY EmptySeq DEF Py!Path, Py!Empty, Py!Relative, Py!Absolute

LEMMA Absolutes ==
  ASSUME NEW cwd \in Seq(Name)
  PROVE  /\ cwd \in Seq(Py!Component)
         /\ Py!Absolute(cwd) \in Py!Path /\ Py!Absolute(cwd) # Py!Empty
         /\ Py!Absolute(cwd).root /\ Py!Absolute(cwd).names = cwd /\ ~Py!Absolute(cwd).slash
BY CollapsedNames, SomePaths DEF Py!Absolute, Py!Empty

(* The location of a path: its components, after those of the working       *)
(* directory if it is relative, collapsed.                                  *)
LEMMA LocationIs ==
  ASSUME NEW cwd \in Seq(Name), NEW p \in Py!Path
  PROVE  /\ Py!LocationOf(cwd, p) =
              Py!Collapse(IF p.root THEN p.names ELSE cwd \o p.names, TRUE)
         /\ Py!LocationOf(cwd, p) \in Seq(Name)
         /\ Py!abspath(cwd, p) = Py!Absolute(Py!LocationOf(cwd, p))
<1> DEFINE all == IF p.root THEN p.names ELSE cwd \o p.names
           joined == Py!join(Py!Absolute(cwd), p)
<1>1. all \in Seq(Py!Component)
  BY PathFields, Absolutes, ConcatProperties
<1>2. joined.root = TRUE /\ joined.names = all
  <2>1. cwd \o <<>> = cwd
    BY ConcatEmptySeq
  <2>2. CASE p.root
    BY <2>2, PathFields DEF Py!join, Py!isabs
  <2>3. CASE p = Py!Empty
    BY <2>1, <2>3, Absolutes DEF Py!join, Py!isabs, Py!Empty, Py!Absolute
  <2>4. CASE ~p.root /\ p # Py!Empty
    BY <2>4, Absolutes DEF Py!join, Py!isabs, Py!Absolute
  <2> QED BY <2>2, <2>3, <2>4, PathFields
<1> HIDE DEF all, joined
<1>3. Py!abspath(cwd, p) = [root |-> TRUE, slash |-> FALSE, names |-> Py!Collapse(all, TRUE)]
  BY <1>2 DEF Py!abspath, Py!normpath, joined
<1>4. Py!LocationOf(cwd, p) = Py!Collapse(all, TRUE)
  BY <1>3 DEF Py!LocationOf
<1>5. Py!Collapse(all, TRUE) \in Seq(Name)
  BY <1>1, CollapseType, CollapsedNames
<1> QED BY <1>3, <1>4, <1>5 DEF all, Py!Absolute

LEMMA AbspathLocation ==
  ASSUME NEW cwd \in Seq(Name), NEW p \in Py!Path, NEW other \in Seq(Name)
  PROVE  /\ Py!abspath(cwd, p) \in Py!Path
         /\ Py!LocationOf(other, Py!abspath(cwd, p)) = Py!LocationOf(cwd, p)
<1>1. PICK loc \in Seq(Name) : loc = Py!LocationOf(cwd, p)
  BY LocationIs
<1>2. Py!abspath(cwd, p) = Py!Absolute(loc)
  BY <1>1, LocationIs
<1>3. Py!Absolute(loc) \in Py!Path
  BY Absolutes
<1>4. Py!LocationOf(other, Py!Absolute(loc)) = loc
  <2>1. Py!LocationOf(other, Py!Absolute(loc)) = Py!Collapse(loc, TRUE)
    <3>1. PICK p2 \in Py!Path : p2 = Py!Absolute(loc) /\ p2.root /\ p2.names = loc
      BY <1>3, Absolutes
    <3> QED BY <3>1, LocationIs
  <2> QED BY <2>1, CollapseNames
<1> QED BY <1>1, <1>2, <1>3, <1>4

(* join, case by case, and its fields in the case that concatenates.        *)
LEMMA JoinIs ==
  ASSUME NEW p \in Py!Path, NEW q \in Py!Path
  PROVE  /\ p = Py!Empty \/ q.root => join(p, q) = q
         /\ p # Py!Empty /\ q = Py!Empty => join(p, q) = p
         /\ p # Py!Empty /\ ~q.root /\ q # Py!Empty =>
              join(p, q) = [root |-> p.root, names |-> p.names \o q.names, slash |-> q.slash]
<1>1. p = [root |-> p.root, names |-> p.names, slash |-> p.slash] /\ (q.root => q # Py!Empty)
  BY PathFields
<1> QED BY <1>1 DEF join, isabs

LEMMA Joined ==
  ASSUME NEW p \in Py!Path, NEW q \in Py!Path, p # Py!Empty, ~q.root, q # Py!Empty
  PROVE  /\ join(p, q).root = p.root /\ join(p, q).slash = q.slash
         /\ join(p, q).names = p.names \o q.names
<1>1. PICK names : names = p.names \o q.names
  OBVIOUS
<1>2. join(p, q) = [root |-> p.root, names |-> names, slash |-> q.slash]
  BY <1>1, JoinIs, Zenon
<1>3. join(p, q).names = names /\ join(p, q).root = p.root /\ join(p, q).slash = q.slash
  BY <1>2
<1> QED BY <1>1, <1>3, Zenon

LEMMA ConcatComponents ==
  ASSUME NEW a \in Seq(Py!Component), NEW b \in Seq(Py!Component), NEW c \in Seq(Py!Component)
  PROVE  a \o (b \o c) = (a \o b) \o c
BY ConcatAssociative

LEMMA DirnameIs ==
  ASSUME NEW p \in Py!Path
  PROVE  /\ Py!dirname(p) = dirname(p)
         /\ dirname(p).root = p.root /\ dirname(p).slash = FALSE
         /\ dirname(p).names = IF p.slash \/ p.names = <<>> THEN p.names ELSE Front(p.names)
<1>1. p = [root |-> p.root, names |-> p.names, slash |-> p.slash]
  BY PathFields
<1> QED BY <1>1, SameEnds DEF dirname, Py!dirname

LEMMA BasenameIs ==
  ASSUME NEW p
  PROVE  /\ Py!basename(p) = basename(p)
         /\ basename(p).root = FALSE /\ basename(p).slash = FALSE
         /\ basename(p).names = IF p.slash \/ p.names = <<>> THEN <<>> ELSE <<Last(p.names)>>
BY SameEnds DEF basename, Py!basename, Py!Empty, Py!Relative

(* The functions of the class are total: what they make of a path is one.   *)
LEMMA StaysPath ==
  ASSUME NEW p \in Py!Path, NEW q \in Py!Path
  PROVE  /\ join(p, q) \in Py!Path /\ Py!join(p, q) \in Py!Path
         /\ dirname(p) \in Py!Path /\ Py!dirname(p) \in Py!Path
         /\ basename(p) \in Py!Path /\ Py!basename(p) \in Py!Path
         /\ normpath(p) \in Py!Path /\ Py!normpath(p) \in Py!Path
<1>1. /\ p.names \o q.names \in Seq(Py!Component)
      /\ q.names # <<>> => p.names \o q.names # <<>>
  BY PathFields, ConcatProperties, ConcatEqualIffEmpty
<1>2. [p EXCEPT !.names = @ \o q.names, !.slash = q.slash] \in Py!Path
  BY <1>1, PathFields DEF Py!Path
<1>3. [p EXCEPT !.slash = p.names # <<>>] \in Py!Path /\ [p EXCEPT !.slash = FALSE] \in Py!Path
  BY PathFields DEF Py!Path
<1>4. join(p, q) \in Py!Path /\ Py!join(p, q) \in Py!Path
  <2>1. join(p, q) \in {p, q, [p EXCEPT !.names = @ \o q.names, !.slash = q.slash]}
    BY DEF join, isabs
  <2>2. Py!join(p, q) \in {q, [p EXCEPT !.slash = p.names # <<>>],
                           [p EXCEPT !.names = @ \o q.names, !.slash = q.slash]}
    BY DEF Py!join, Py!isabs
  <2> QED BY <1>2, <1>3, <2>1, <2>2
<1>5. ASSUME p.names # <<>>
      PROVE  Front(p.names) \in Seq(Py!Component) /\ Last(p.names) \in Py!Component
  <2>1. PICK t \in Seq(Py!Component), y \in Py!Component : p.names = Append(t, y)
    BY <1>5, PathFields, SequenceEmptyOrAppend
  <2> QED BY <2>1, AppendLast
<1>6. dirname(p) \in Py!Path /\ Py!dirname(p) \in Py!Path
  <2>1. CASE p.slash \/ p.names = <<>>
    BY <1>3, <2>1 DEF dirname, Py!dirname
  <2>2. CASE ~(p.slash \/ p.names = <<>>)
    <3>1. [p EXCEPT !.names = Front(@)] \in Py!Path
      BY <1>5, <2>2, PathFields DEF Py!Path
    <3> QED BY <2>2, <3>1, SameEnds DEF dirname, Py!dirname
  <2> QED BY <2>1, <2>2
<1>7. basename(p) \in Py!Path /\ Py!basename(p) \in Py!Path
  <2>1. CASE p.slash \/ p.names = <<>>
    BY <2>1, SomePaths DEF basename, Py!basename
  <2>2. CASE ~(p.slash \/ p.names = <<>>)
    <3>1. <<Last(p.names)>> \in Seq(Py!Component)
      BY <1>5, <2>2
    <3> QED BY <2>2, <3>1, SomePaths, SameEnds DEF basename, Py!basename
  <2> QED BY <2>1, <2>2
<1>8. Py!Collapse(p.names, p.root) \in Seq(Py!Component) /\ <<Dot>> \in Seq(Py!Component)
  <2>1. <<Dot>> \in Seq(Py!Component)
    BY DEF Py!Component
  <2>2. Py!Collapse(p.names, p.root) \in Collapsed(p.root) /\ p.root \in BOOLEAN
    BY PathFields, CollapseType
  <2> QED BY <2>1, <2>2, CollapsedNames
<1>9. normpath(p) \in Py!Path
  <2> DEFINE names == Py!Collapse(p.names, p.root)
  <2>1. \A b \in BOOLEAN : names # <<>> => [p EXCEPT !.names = names, !.slash = b] \in Py!Path
    BY <1>8, PathFields DEF Py!Path
  <2>2. [p EXCEPT !.names = <<>>, !.slash = FALSE] \in Py!Path
    BY EmptySeq, SomePaths
  <2> HIDE DEF names
  <2>3. \/ normpath(p) = p \/ normpath(p) = Py!Relative(<<Dot>>)
        \/ normpath(p) = [p EXCEPT !.names = <<>>, !.slash = FALSE]
        \/ names # <<>> /\ \E b \in BOOLEAN : normpath(p) = [p EXCEPT !.names = names, !.slash = b]
    BY PathFields DEF normpath, names
  <2> QED BY <1>8, <2>1, <2>2, <2>3, SomePaths
<1>10. Py!normpath(p) \in Py!Path
  BY <1>8, PathFields DEF Py!normpath, Py!Path
<1> QED BY <1>4, <1>6, <1>7, <1>9, <1>10

-----------------------------------------------------------------------------
(* Functions that keep the place                                            *)

(* Whatever normpath of the class leaves of a path, dots collapsed or a     *)
(* final slash kept, leads where the path does, from any working directory  *)
(* (class OsPath: "mirrors the semantics of the corresponding os.path       *)
(* function").                                                              *)
THEOREM NormpathLeadsThere ==
  ASSUME NEW cwd \in Seq(Name), NEW p \in Py!Path
  PROVE  Py!LocationOf(cwd, normpath(p)) = Py!LocationOf(cwd, p)
<1> DEFINE names == Py!Collapse(p.names, p.root)
<1>1. /\ p.names \in Seq(Py!Component) /\ p.root \in BOOLEAN /\ cwd \in Seq(Py!Component)
      /\ names \in Seq(Py!Component) /\ normpath(p) \in Py!Path
  BY PathFields, CollapseType, CollapsedNames, StaysPath
<1>2. Py!Collapse(IF p.root THEN names ELSE cwd \o names, TRUE) = Py!LocationOf(cwd, p)
  <2>1. CASE p.root
    <3>1. names \in Seq(Name)
      BY <1>1, <2>1, CollapseType, CollapsedNames
    <3> QED BY <1>1, <2>1, <3>1, LocationIs, CollapseNames
  <2>2. CASE ~p.root
    <3>1. names = Py!Collapse(p.names, FALSE)
      BY <1>1, <2>2
    <3>2. Py!Collapse(cwd \o names, TRUE) = Py!Collapse(cwd \o p.names, TRUE)
      BY <1>1, <3>1, CollapseWithin, Zenon
    <3> QED BY <2>2, <3>2, LocationIs
  <2> QED BY <2>1, <2>2
<1> HIDE DEF names
<1>3. CASE p = Py!Empty
  BY <1>3 DEF normpath
<1>4. CASE names = <<>> /\ p # Py!Empty /\ ~p.root
  <2>1. normpath(p) = Py!Relative(<<Dot>>)
    BY <1>4 DEF normpath, names
  <2>2. /\ ~normpath(p).root
        /\ cwd \o normpath(p).names = cwd \o (<<Dot>> \o <<>>)
    BY <2>1 DEF Py!Relative
  <2>3. Py!LocationOf(cwd, normpath(p)) = Py!Collapse(cwd \o (<<Dot>> \o <<>>), TRUE)
    BY <1>1, <2>2, LocationIs
  <2>4. <<>> \in Seq(Py!Component)
    BY EmptySeq
  <2>5. Py!LocationOf(cwd, normpath(p)) = Py!Collapse(cwd \o <<>>, TRUE)
    <3>1. PICK none \in Seq(Py!Component), root \in BOOLEAN : none = <<>> /\ root = TRUE
      BY <2>4
    <3>2. Py!Collapse(cwd \o (<<Dot>> \o none), root) = Py!Collapse(cwd \o none, root)
      BY <1>1, CollapseDot
    <3> QED BY <2>3, <3>1, <3>2
  <2> QED BY <1>2, <1>4, <2>5
<1>5. CASE p # Py!Empty /\ (names # <<>> \/ p.root)
  <2>1. normpath(p).root = p.root /\ normpath(p).names = names
    BY <1>1, <1>5 DEF normpath, names, Py!Path
  <2> QED BY <1>1, <1>2, <2>1, LocationIs
<1> QED BY <1>1, <1>3, <1>4, <1>5

(* abspath of the class collapses nothing, and still names the same place,  *)
(* also after the program has moved to another directory.                   *)
THEOREM AbspathLeadsThere ==
  ASSUME NEW cwd \in Seq(Name), NEW other \in Seq(Name),
         NEW p \in Py!Path, ~abspathThrows(p)
  PROVE  Py!LocationOf(other, abspath(cwd, p)) = Py!LocationOf(cwd, p)
<1>1. abspath(cwd, p) \in Py!Path
  BY Absolutes, StaysPath DEF abspath
<1>2. CASE p.root
  <2>1. abspath(cwd, p) = p
    BY <1>2, JoinIs, Absolutes DEF abspath
  <2> QED BY <1>2, <2>1, LocationIs
<1>3. CASE ~p.root
  <2>1. abspath(cwd, p).root /\ abspath(cwd, p).names = cwd \o p.names
    <3>1. Py!Absolute(cwd) \in Py!Path /\ Py!Absolute(cwd) # Py!Empty /\ p # Py!Empty
      BY Absolutes DEF abspathThrows
    <3>2. /\ abspath(cwd, p).root = Py!Absolute(cwd).root
          /\ abspath(cwd, p).names = Py!Absolute(cwd).names \o p.names
      BY <1>3, <3>1, Joined, Zenon DEF abspath
    <3> QED BY <3>2, Absolutes, Zenon
  <2> QED BY <1>1, <1>3, <2>1, LocationIs
<1> QED BY <1>2, <1>3, PathFields

(* To join two paths and follow the result is to follow the first and, from *)
(* there, the second: also if the second is absolute or leads up, and if    *)
(* one of them is empty.                                                    *)
THEOREM JoinLeadsThere ==
  ASSUME NEW cwd \in Seq(Name), NEW p \in Py!Path, NEW q \in Py!Path
  PROVE  Py!LocationOf(cwd, join(p, q)) = Py!LocationOf(Py!LocationOf(cwd, p), q)
<1>1. /\ p.names \in Seq(Py!Component) /\ q.names \in Seq(Py!Component)
      /\ p.root \in BOOLEAN /\ q.root \in BOOLEAN /\ cwd \in Seq(Py!Component)
      /\ join(p, q) \in Py!Path
  BY PathFields, CollapsedNames, StaysPath
<1> DEFINE before == IF p.root THEN p.names ELSE cwd \o p.names
<1>2. PICK loc \in Seq(Name) : loc = Py!LocationOf(cwd, p) /\ loc = Py!Collapse(before, TRUE)
  BY LocationIs
<1>3. before \in Seq(Py!Component) /\ loc \in Seq(Py!Component)
  BY <1>1, ConcatProperties, CollapsedNames
<1>4. CASE q.root
  <2>1. join(p, q) = q
    BY <1>4, JoinIs
  <2> QED BY <1>2, <1>4, <2>1, LocationIs
<1>5. CASE ~q.root
  <2>1. Py!LocationOf(loc, q) = Py!Collapse(before \o q.names, TRUE)
    <3>1. Py!Collapse(loc, TRUE) = Py!Collapse(before, TRUE)
      BY <1>2, CollapseNames
    <3>2. Py!Collapse(loc \o q.names, TRUE) = Py!Collapse(before \o q.names, TRUE)
      <4>1. PICK top : top = TRUE
        OBVIOUS
      <4> HIDE DEF before
      <4>2. Py!Collapse(loc, top) = Py!Collapse(before, top)
        BY <3>1, <4>1
      <4>3. Py!Collapse(loc \o q.names, top) = Py!Collapse(before \o q.names, top)
        BY <1>1, <1>3, <4>2, CollapsePrefix
      <4> QED BY <4>1, <4>3
    <3> QED BY <1>5, <3>2, LocationIs
  <2>2. Py!LocationOf(cwd, join(p, q)) = Py!Collapse(before \o q.names, TRUE)
    <3>1. CASE p = Py!Empty
      <4>1. join(p, q) = q
        BY <3>1, JoinIs
      <4>2. before = cwd \o <<>> /\ cwd \o <<>> = cwd
        BY <1>1, <3>1, ConcatEmptySeq DEF Py!Empty
      <4> QED BY <1>5, <4>1, <4>2, LocationIs
    <3>2. CASE p # Py!Empty /\ q = Py!Empty
      <4>1. join(p, q) = p
        BY <3>2, JoinIs
      <4>2. before \o q.names = before
        <5>1. q.names = <<>>
          BY <3>2 DEF Py!Empty
        <5> HIDE DEF before
        <5> QED BY <1>3, <5>1, ConcatEmptySeq
      <4> QED BY <1>2, <4>1, <4>2
    <3>3. CASE p # Py!Empty /\ q # Py!Empty
      <4>1. join(p, q).root = p.root /\ join(p, q).names = p.names \o q.names
        BY <1>5, <3>3, Joined, Zenon
      <4>2. cwd \o (p.names \o q.names) = (cwd \o p.names) \o q.names
        BY <1>1, ConcatComponents, Zenon
      <4>3. Py!LocationOf(cwd, join(p, q)) =
              Py!Collapse(IF p.root THEN p.names \o q.names ELSE cwd \o (p.names \o q.names), TRUE)
        <5>1. PICK r \in Py!Path, names \in Seq(Py!Component) :
                r = join(p, q) /\ names = p.names \o q.names
          BY <1>1, ConcatProperties
        <5>2. r.root = p.root /\ r.names = names
          BY <4>1, <5>1
        <5>3. Py!LocationOf(cwd, r) = Py!Collapse(IF p.root THEN names ELSE cwd \o names, TRUE)
          BY <5>2, LocationIs
        <5> QED BY <5>1, <5>3, Zenon
      <4>4. before \o q.names =
              IF p.root THEN p.names \o q.names ELSE cwd \o (p.names \o q.names)
        BY <4>2, Zenon
      <4> QED BY <4>3, <4>4, Zenon
    <3> QED BY <3>1, <3>2, <3>3
  <2> QED BY <1>2, <2>1, <2>2
<1> QED BY <1>1, <1>4, <1>5
=============================================================================
