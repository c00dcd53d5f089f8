------------------------- MODULE CapioContextProofs -------------------------
(***************************************************************************)
(* Theorems about CapioContext, for any number of threads, directories and *)
(* entry points and any depth of nesting, unless a statement says less.    *)
(***************************************************************************)
EXTENDS CapioContext, SequenceTheorems, TLAPS

-----------------------------------------------------------------------------
(* The stack of calls                                                       *)

(* The call on top of a nonempty stack is a frame.                          *)
LEMMA TopIsFrame ==
  ASSUME TypeOK, NEW t \in Thread, Inside(t)
  PROVE  /\ stack[t] \in Seq(Frame)
         /\ Len(stack[t]) \in Nat \ {0}
         /\ Top(t) \in Frame
<1>1. stack[t] \in Seq(Frame) /\ stack[t] # <<>>
  BY DEF TypeOK, Inside
<1>2. Len(stack[t]) \in Nat \ {0}
  BY <1>1, EmptySeq, LenProperties
<1>3. stack[t][Len(stack[t])] \in Frame
  BY <1>1, <1>2, ElementOfSeq
<1> QED BY <1>1, <1>2, <1>3 DEF Top

(* SetTop changes the top call of one thread and nothing else.              *)
LEMMA SetTopEffect ==
  ASSUME TypeOK, NEW t \in Thread, Inside(t), NEW frame \in Frame, SetTop(t, frame)
  PROVE  /\ stack' \in [Thread -> Seq(Frame)]
         /\ \A u \in Thread \ {t} : stack'[u] = stack[u]
         /\ Len(stack'[t]) = Len(stack[t])
         /\ stack'[t][Len(stack[t])] = frame
         /\ \A i \in 1..(Len(stack[t]) - 1) : stack'[t][i] = stack[t][i]
<1> DEFINE st == stack[t]
           new == [st EXCEPT ![Len(st)] = frame]
<1>1. st \in Seq(Frame) /\ Len(st) \in Nat \ {0} /\ DOMAIN st = 1..Len(st)
  BY TopIsFrame, LenProperties
<1>2. stack' = [stack EXCEPT ![t] = new]
  BY DEF SetTop
<1>3. new \in Seq(Frame) /\ Len(new) = Len(st)
  BY <1>1, ExceptSeq
<1>4. new[Len(st)] = frame /\ \A i \in 1..(Len(st) - 1) : new[i] = st[i]
  BY <1>1
<1> QED BY <1>2, <1>3, <1>4 DEF TypeOK

(* Pop removes the top call of one thread and nothing else.                 *)
LEMMA PopEffect ==
  ASSUME TypeOK, NEW t \in Thread, Inside(t), Pop(t)
  PROVE  /\ stack' \in [Thread -> Seq(Frame)]
         /\ \A u \in Thread \ {t} : stack'[u] = stack[u]
         /\ Len(stack'[t]) = Len(stack[t]) - 1
         /\ \A i \in 1..(Len(stack[t]) - 1) : stack'[t][i] = stack[t][i]
<1> DEFINE st == stack[t]
           new == SubSeq(st, 1, Len(st) - 1)
<1>1. st \in Seq(Frame) /\ Len(st) \in Nat \ {0} /\ DOMAIN st = 1..Len(st)
  BY TopIsFrame, LenProperties
<1>2. stack' = [stack EXCEPT ![t] = new]
  BY DEF Pop
<1>3. /\ new \in Seq(Frame) /\ Len(new) = Len(st) - 1
      /\ \A i \in 1..(Len(st) - 1) : new[i] = st[i]
  BY <1>1
<1> QED BY <1>2, <1>3 DEF TypeOK

(* Call adds a call on top of one stack and changes nothing else.           *)
LEMMA CallEffect ==
  ASSUME TypeOK, NEW t \in Thread, NEW dir \in Dir, Call(t, dir)
  PROVE  /\ stack' \in [Thread -> Seq(Frame)]
         /\ \A u \in Thread \ {t} : stack'[u] = stack[u]
         /\ Len(stack'[t]) = Len(stack[t]) + 1
         /\ stack'[t][Len(stack[t]) + 1] = NewFrame(dir)
         /\ \A i \in 1..Len(stack[t]) : stack'[t][i] = stack[t][i]
<1> DEFINE st == stack[t]
           new == Append(st, NewFrame(dir))
<1>1. st \in Seq(Frame)
  BY DEF TypeOK
<1>2. NewFrame(dir) \in Frame
  BY ConstantsAssumption DEF NewFrame, Frame, Place, Slot, Callable
<1>3. stack' = [stack EXCEPT ![t] = new]
  BY DEF Call
<1>4. /\ new \in Seq(Frame) /\ Len(new) = Len(st) + 1
      /\ new[Len(st) + 1] = NewFrame(dir)
      /\ \A i \in 1..Len(st) : new[i] = st[i]
  BY <1>1, <1>2, AppendProperties
<1> QED BY <1>3, <1>4 DEF TypeOK

(* The frames the wrapper moves to are frames.                              *)
LEMMA MovedType ==
  ASSUME NEW frame \in Frame, NEW place \in Place
  PROVE  [frame EXCEPT !.at = place, !.slot = 1] \in Frame
<1>1. 1 \in Slot
  BY ConstantsAssumption DEF Slot
<1> QED BY <1>1 DEF Frame

LEMMA NextSlotType ==
  ASSUME NEW frame \in Frame, NEW place \in Place
  PROVE  NextSlot(frame, place) \in Frame
<1>1. CASE frame.slot < SlotCount
  <2>1. frame.slot \in Slot
    BY DEF Frame
  <2>2. frame.slot + 1 \in Slot
    BY <1>1, <2>1, ConstantsAssumption DEF Slot
  <2>3. [frame EXCEPT !.slot = frame.slot + 1] \in Frame
    BY <2>2 DEF Frame
  <2> QED BY <1>1, <2>3 DEF NextSlot
<1>2. CASE ~(frame.slot < SlotCount)
  BY <1>2, MovedType DEF NextSlot
<1> QED BY <1>1, <1>2

(* dump_context keeps what it reads in the local variable context.          *)
Dumped(frame) == [frame EXCEPT !.saved[frame.slot] = builtin[frame.slot]]

LEMMA DumpedType ==
  ASSUME TypeOK, NEW frame \in Frame
  PROVE  Dumped(frame) \in Frame
<1>1. builtin[frame.slot] \in Callable
  BY DEF TypeOK, Frame
<1>2. [frame.saved EXCEPT ![frame.slot] = builtin[frame.slot]] \in [Slot -> Callable]
  BY <1>1 DEF Frame
<1> QED BY <1>2 DEF Dumped, Frame

-----------------------------------------------------------------------------
(* Every step of a thread is one of three changes to its stack              *)

(* Which frame replaces the top of the stack in the steps that keep it.     *)
Moves(t, frame) ==
  \/ /\ At(t, "test") /\ py_capio_initialized
     /\ frame = [Top(t) EXCEPT !.at = "dump", !.slot = 1]
  \/ /\ At(t, "test") /\ ~py_capio_initialized
     /\ frame = [Top(t) EXCEPT !.at = "set_dir", !.slot = 1]
  \/ At(t, "set_dir") /\ frame = [Top(t) EXCEPT !.at = "init", !.slot = 1]
  \/ At(t, "init") /\ frame = [Top(t) EXCEPT !.at = "set_flag", !.slot = 1]
  \/ At(t, "set_flag") /\ frame = [Top(t) EXCEPT !.at = "register", !.slot = 1]
  \/ At(t, "register") /\ frame = [Top(t) EXCEPT !.at = "dump", !.slot = 1]
  \/ At(t, "dump") /\ frame = NextSlot(Dumped(Top(t)), "patch")
  \/ At(t, "patch") /\ frame = NextSlot(Top(t), "body")
  \/ At(t, "body") /\ frame = [Top(t) EXCEPT !.at = "restore", !.slot = 1]
  \/ At(t, "restore") /\ frame = NextSlot(Top(t), "restore")

LEMMA MovesType ==
  ASSUME TypeOK, NEW t \in Thread, NEW frame, Moves(t, frame)
  PROVE  Inside(t) /\ frame \in Frame
<1>1. Inside(t)
  BY DEF Moves, At
<1>2. Top(t) \in Frame
  BY <1>1, TopIsFrame
<1> QED BY <1>1, <1>2, NextSlotType, MovedType, DumpedType DEF Moves, Place

-----------------------------------------------------------------------------
(* Typing                                                                   *)

LEMMA StackTyped ==
  ASSUME TypeOK, NEW t \in Thread, ThreadNext(t)
  PROVE  stack' \in [Thread -> Seq(Frame)]
<1>1. ASSUME NEW dir \in Dir, Call(t, dir) PROVE stack' \in [Thread -> Seq(Frame)]
  BY <1>1, CallEffect
<1>2. ASSUME NEW frame, Moves(t, frame), SetTop(t, frame)
      PROVE stack' \in [Thread -> Seq(Frame)]
  BY <1>2, MovesType, SetTopEffect
<1>3. ASSUME Inside(t), Pop(t) PROVE stack' \in [Thread -> Seq(Frame)]
  BY <1>3, PopEffect
<1>4. CASE TestFlag(t)
  BY <1>2, <1>4 DEF TestFlag, MoveTo, Moves
<1>5. CASE SetDir(t) \/ PycapioInit(t) \/ SetFlag(t) \/ AtexitRegister(t) \/ EndBody(t)
  BY <1>2, <1>5 DEF SetDir, PycapioInit, SetFlag, AtexitRegister, EndBody, MoveTo, Moves
<1>6. CASE dump_context(t)
  BY <1>2, <1>6 DEF dump_context, Moves, Dumped
<1>7. CASE patch_context(t)
  BY <1>2, <1>7 DEF patch_context, Moves
<1>8. CASE restore_context(t)
  BY <1>2, <1>3, <1>8 DEF restore_context, Moves, At
<1>9. CASE PycapioInitRaises(t) \/ Interrupt(t)
  BY <1>3, <1>9 DEF PycapioInitRaises, Interrupt, At
<1>10. CASE pycapio_teardown(t)
  BY <1>10 DEF pycapio_teardown, TypeOK
<1> QED
  BY <1>1, <1>4, <1>5, <1>6, <1>7, <1>8, <1>9, <1>10 DEF ThreadNext, WrapperStep

LEMMA TypeStep == ASSUME TypeOK, [Next]_vars PROVE TypeOK'
<1>1. ASSUME NEW t \in Thread, ThreadNext(t) PROVE TypeOK'
  <2>1. stack' \in [Thread -> Seq(Frame)]
    BY <1>1, StackTyped
  <2>2. ASSUME Inside(t) PROVE /\ Top(t).dir \in Dir /\ Top(t).slot \in Slot
                               /\ Top(t).saved \in [Slot -> Callable]
    BY <2>2, TopIsFrame DEF Frame
  <2>3. CASE \/ \E dir \in Dir : Call(t, dir)
             \/ TestFlag(t) \/ dump_context(t) \/ EndBody(t) \/ Interrupt(t)
    BY <2>1, <2>3
       DEF Call, TestFlag, dump_context, EndBody, Interrupt, TypeOK, globals
  <2>4. CASE SetDir(t)
    BY <2>1, <2>2, <2>4 DEF SetDir, At, TypeOK
  <2>5. CASE PycapioInit(t) \/ PycapioInitRaises(t)
    BY <2>1, <2>5 DEF PycapioInit, PycapioInitRaises, PublishDir, TypeOK
  <2>6. CASE SetFlag(t) \/ AtexitRegister(t) \/ pycapio_teardown(t)
    BY <2>1, <2>6 DEF SetFlag, AtexitRegister, pycapio_teardown, TypeOK
  <2>7. CASE patch_context(t)
    BY <2>1, <2>2, <2>7 DEF patch_context, At, TypeOK, globals, Callable
  <2>8. CASE restore_context(t)
    BY <2>1, <2>2, <2>8 DEF restore_context, At, TypeOK, globals
  <2> QED BY <1>1, <2>3, <2>4, <2>5, <2>6, <2>7, <2>8 DEF ThreadNext, WrapperStep
<1>2. CASE ProcessExit
  BY <1>2 DEF ProcessExit, TypeOK
<1>3. CASE UNCHANGED vars
  BY <1>3 DEF vars, TypeOK
<1> QED BY <1>1, <1>2, <1>3 DEF Next

(* Every variable of CapioContext always stays in its range.                *)
THEOREM TypeCorrect == Spec => []TypeOK
<1>1. Init => TypeOK
  <2>1. ASSUME Init PROVE /\ stack \in [Thread -> Seq(Frame)]
                          /\ builtin \in [Slot -> Callable]
    BY <2>1, EmptySeq DEF Init, Callable
  <2> QED BY <2>1, ConstantsAssumption DEF Init, TypeOK
<1> QED BY <1>1, TypeStep, PTL DEF Spec
-----------------------------------------------------------------------------
(* What a step does to the calls under way                                  *)

(* After a step of t, a call is one that was there, a new one of t, or the  *)
(* top one of t moved on.                                                   *)
LEMMA FramesAfterStep ==
  ASSUME TypeOK, NEW t \in Thread, ThreadNext(t),
         NEW u \in Thread, NEW i \in 1..Len(stack'[u])
  PROVE  \/ i \in 1..Len(stack[u]) /\ stack'[u][i] = stack[u][i]
         \/ ~exited /\ \E dir \in Dir : stack'[u][i] = NewFrame(dir)
         \/ u = t /\ i = Len(stack[t]) /\ Moves(t, stack'[t][i])
<1> DEFINE Goal == \/ i \in 1..Len(stack[u]) /\ stack'[u][i] = stack[u][i]
                   \/ ~exited /\ \E dir \in Dir : stack'[u][i] = NewFrame(dir)
                   \/ u = t /\ i = Len(stack[t]) /\ Moves(t, stack'[t][i])
<1>0. Len(stack[t]) \in Nat
  BY DEF TypeOK
<1>1. ASSUME NEW dir \in Dir, Call(t, dir) PROVE Goal
  <2>1. ~exited
    BY <1>1 DEF Call
  <2> QED BY <1>0, <1>1, <2>1, CallEffect
<1>2. ASSUME NEW frame, Moves(t, frame), SetTop(t, frame) PROVE Goal
  <2>1. Inside(t) /\ frame \in Frame
    BY <1>2, MovesType
  <2> QED BY <1>0, <1>2, <2>1, SetTopEffect
<1>3. ASSUME Inside(t), Pop(t) PROVE Goal
  BY <1>0, <1>3, PopEffect
<1>4. CASE TestFlag(t)
  BY <1>2, <1>4 DEF TestFlag, MoveTo, Moves
<1>5. CASE SetDir(t) \/ PycapioInit(t) \/ SetFlag(t) \/ AtexitRegister(t) \/ EndBody(t)
  BY <1>2, <1>5 DEF SetDir, PycapioInit, SetFlag, AtexitRegister, EndBody, MoveTo, Moves
<1>6. CASE dump_context(t)
  BY <1>2, <1>6 DEF dump_context, Moves, Dumped
<1>7. CASE patch_context(t)
  BY <1>2, <1>7 DEF patch_context, Moves
<1>8. CASE restore_context(t)
  BY <1>2, <1>3, <1>8 DEF restore_context, Moves, At
<1>9. CASE PycapioInitRaises(t) \/ Interrupt(t)
  BY <1>3, <1>9 DEF PycapioInitRaises, Interrupt, At
<1>10. CASE pycapio_teardown(t)
  BY <1>10 DEF pycapio_teardown
<1> QED
  BY <1>1, <1>4, <1>5, <1>6, <1>7, <1>8, <1>9, <1>10 DEF ThreadNext, WrapperStep

-----------------------------------------------------------------------------
(* The native library is initialised in the body of a context               *)

(* Why: once a call has passed pycapio_init, or found the flag set, the     *)
(* library is initialised, and only the end of the process undoes it.       *)
PastInitInv ==
  /\ exited => \A t \in Thread : stack[t] = <<>>
  /\ ~exited /\ py_capio_initialized => libcapio_initialized
  /\ \A t \in Thread : \A i \in 1..Len(stack[t]) :
       stack[t][i].at \notin {"test", "set_dir", "init"} => libcapio_initialized

LEMMA PastInitStep ==
  ASSUME ~ExplicitTeardown, TypeOK, PastInitInv, [Next]_vars
  PROVE  PastInitInv'
<1>1. ASSUME NEW t \in Thread, ThreadNext(t) PROVE PastInitInv'
  <2>0. Len(stack[t]) \in Nat
    BY DEF TypeOK
  <2>1. ~exited
    <3>1. CASE Inside(t)
      BY <3>1 DEF PastInitInv, Inside
    <3>2. CASE ~Inside(t)
      BY <1>1, <3>2
         DEF ThreadNext, WrapperStep, Call, TestFlag, SetDir, PycapioInit, SetFlag,
             AtexitRegister, dump_context, patch_context, restore_context,
             PycapioInitRaises, EndBody, Interrupt, pycapio_teardown, At
    <3> QED BY <3>1, <3>2
  <2>2. At(t, "init") => (PycapioInit(t) \/ PycapioInitRaises(t) \/ Interrupt(t))
    BY <1>1
       DEF ThreadNext, WrapperStep, Call, TestFlag, SetDir, SetFlag,
           AtexitRegister, dump_context, patch_context, restore_context,
           EndBody, pycapio_teardown, At, Inside
  <2>3. exited' = exited /\ (libcapio_initialized => libcapio_initialized')
    BY <1>1
       DEF ThreadNext, WrapperStep, Call, TestFlag, SetDir, PycapioInit, SetFlag,
           AtexitRegister, dump_context, patch_context, restore_context,
           PycapioInitRaises, EndBody, Interrupt, pycapio_teardown, globals
  <2>4. ASSUME Inside(t) PROVE /\ Len(stack[t]) \in 1..Len(stack[t])
                               /\ Top(t) = stack[t][Len(stack[t])]
                               /\ Top(t) \in Frame
    BY <2>4, TopIsFrame DEF Top
  <2>5. py_capio_initialized' => libcapio_initialized'
    <3>1. CASE SetFlag(t)
      BY <2>3, <2>4, <3>1 DEF SetFlag, At, PastInitInv
    <3>2. CASE ~SetFlag(t)
      <4>1. py_capio_initialized' = py_capio_initialized
        BY <1>1, <3>2
           DEF ThreadNext, WrapperStep, Call, TestFlag, SetDir, PycapioInit,
               AtexitRegister, dump_context, patch_context, restore_context,
               PycapioInitRaises, EndBody, Interrupt, pycapio_teardown, globals
      <4> QED BY <2>1, <2>3, <4>1 DEF PastInitInv
    <3> QED BY <3>1, <3>2
  <2>6. ASSUME NEW u \in Thread, NEW i \in 1..Len(stack'[u]),
               stack'[u][i].at \notin {"test", "set_dir", "init"}
        PROVE  libcapio_initialized'
    <3>1. CASE i \in 1..Len(stack[u]) /\ stack'[u][i] = stack[u][i]
      BY <2>3, <2>6, <3>1 DEF PastInitInv
    <3>2. CASE \E dir \in Dir : stack'[u][i] = NewFrame(dir)
      BY <2>6, <3>2 DEF NewFrame
    <3>3. CASE u = t /\ i = Len(stack[t]) /\ Moves(t, stack'[t][i])
      <4>1. Inside(t)
        BY <3>3 DEF Moves, At
      <4>2. CASE At(t, "test")
        <5>1. py_capio_initialized
          BY <2>4, <2>6, <3>3, <4>1, <4>2 DEF Moves, At, Frame
        <5> QED BY <2>1, <2>3, <5>1 DEF PastInitInv
      <4>3. CASE At(t, "set_dir")
        BY <2>4, <2>6, <3>3, <4>1, <4>3 DEF Moves, At, Frame
      <4>4. CASE At(t, "init")
        <5>1. CASE PycapioInit(t)
          BY <5>1 DEF PycapioInit
        <5>2. CASE PycapioInitRaises(t) \/ Interrupt(t)
          (* The call is gone: nothing is left at its place. *)
          <6>1. Pop(t)
            BY <5>2 DEF PycapioInitRaises, Interrupt
          <6>2. Len(stack'[t]) = Len(stack[t]) - 1
            BY <4>1, <6>1, PopEffect
          <6> QED BY <2>0, <2>6, <3>3, <6>2
        <5> QED BY <2>2, <4>4, <5>1, <5>2
      <4>5. CASE Top(t).at \notin {"test", "set_dir", "init"}
        BY <2>3, <2>4, <4>1, <4>5 DEF PastInitInv
      <4> QED BY <4>1, <4>2, <4>3, <4>4, <4>5 DEF At
    <3> QED BY <1>1, <3>1, <3>2, <3>3, FramesAfterStep
  <2> QED BY <2>1, <2>3, <2>5, <2>6 DEF PastInitInv
<1>2. CASE ProcessExit
  <2>1. \A t \in Thread : stack'[t] = <<>> /\ Len(stack'[t]) = 0
    BY <1>2 DEF ProcessExit
  <2> QED BY <1>2, <2>1 DEF ProcessExit, PastInitInv
<1>3. CASE UNCHANGED vars
  BY <1>3 DEF vars, PastInitInv
<1> QED BY <1>1, <1>2, <1>3 DEF Next

(* If no caller tears CAPIO down on its own, the native library is          *)
(* initialised while a decorated function runs, in every thread, also after *)
(* initialisations that raised and calls that were interrupted.             *)
THEOREM InitialisedInBodyCorrect ==
  ASSUME ~ExplicitTeardown PROVE Spec => []InitialisedInBody
<1>1. Init => PastInitInv
  BY DEF Init, PastInitInv
<1>2. TypeOK /\ PastInitInv /\ [Next]_vars => PastInitInv'
  BY PastInitStep
<1>3. TypeOK /\ PastInitInv => InitialisedInBody
  <2> SUFFICES ASSUME TypeOK, PastInitInv, NEW t \in Thread, At(t, "body")
               PROVE  libcapio_initialized
    BY DEF InitialisedInBody
  <2>1. Inside(t) /\ Top(t).at = "body"
    BY DEF At
  <2>2. Len(stack[t]) \in 1..Len(stack[t])
    BY <2>1, TopIsFrame
  <2> QED BY <2>1, <2>2 DEF PastInitInv, Top
<1> QED BY <1>1, <1>2, <1>3, TypeCorrect, PTL DEF Spec
-----------------------------------------------------------------------------
(* A directory is set while a proxy is installed                            *)

(* Why: a call that may patch has set the directory, or found the flag set  *)
(* by one that had, and nothing resets it.                                  *)
PastSetDirInv ==
  /\ ProxyHasDir
  /\ py_capio_initialized => CAPIO_DIR # NoDir
  /\ \A t \in Thread : \A i \in 1..Len(stack[t]) :
       stack[t][i].at \notin {"test", "set_dir"} => CAPIO_DIR # NoDir

LEMMA PastSetDirStep ==
  ASSUME TypeOK, PastSetDirInv, [Next]_vars
  PROVE  PastSetDirInv'
<1>1. ASSUME NEW t \in Thread, ThreadNext(t) PROVE PastSetDirInv'
  <2>0. Len(stack[t]) \in Nat
    BY DEF TypeOK
  <2>1. ASSUME Inside(t) PROVE /\ Len(stack[t]) \in 1..Len(stack[t])
                               /\ Top(t) = stack[t][Len(stack[t])]
                               /\ Top(t) \in Frame
    BY <2>1, TopIsFrame DEF Top
  <2>2. ASSUME Inside(t), Top(t).at \notin {"test", "set_dir"} PROVE CAPIO_DIR # NoDir
    BY <2>1, <2>2 DEF PastSetDirInv
  <2>3. CASE SetDir(t)
    <3>1. CAPIO_DIR' # NoDir
      BY <2>1, <2>3, ConstantsAssumption DEF SetDir, At, Frame
    <3> QED BY <3>1 DEF PastSetDirInv, ProxyHasDir
  <2>4. CASE ~SetDir(t)
    <3>1. CAPIO_DIR' = CAPIO_DIR
      BY <1>1, <2>4
         DEF ThreadNext, WrapperStep, Call, TestFlag, PycapioInit, SetFlag,
             AtexitRegister, dump_context, patch_context, restore_context,
             PycapioInitRaises, EndBody, Interrupt, pycapio_teardown, globals
    <3>2. ASSUME py_capio_initialized' PROVE CAPIO_DIR # NoDir
      <4>1. CASE SetFlag(t)
        BY <2>2, <4>1 DEF SetFlag, At
      <4>2. CASE ~SetFlag(t)
        BY <1>1, <2>4, <3>2, <4>2
           DEF ThreadNext, WrapperStep, Call, TestFlag, PycapioInit,
               AtexitRegister, dump_context, patch_context, restore_context,
               PycapioInitRaises, EndBody, Interrupt, pycapio_teardown, globals,
               PastSetDirInv
      <4> QED BY <4>1, <4>2
    <3>3. ASSUME \E s \in Slot : builtin'[s] = "proxy" PROVE CAPIO_DIR # NoDir
      <4>1. CASE patch_context(t) \/ restore_context(t)
        BY <2>2, <4>1 DEF patch_context, restore_context, At
      <4>2. CASE ~(patch_context(t) \/ restore_context(t))
        BY <1>1, <2>4, <3>3, <4>2
           DEF ThreadNext, WrapperStep, Call, TestFlag, PycapioInit, SetFlag,
               AtexitRegister, dump_context, PycapioInitRaises, EndBody, Interrupt,
               pycapio_teardown, PastSetDirInv, ProxyHasDir
      <4> QED BY <4>1, <4>2
    <3>4. ASSUME NEW u \in Thread, NEW i \in 1..Len(stack'[u]),
                 stack'[u][i].at \notin {"test", "set_dir"}
          PROVE  CAPIO_DIR # NoDir
      <4>1. CASE i \in 1..Len(stack[u]) /\ stack'[u][i] = stack[u][i]
        BY <3>4, <4>1 DEF PastSetDirInv
      <4>2. CASE \E dir \in Dir : stack'[u][i] = NewFrame(dir)
        BY <3>4, <4>2 DEF NewFrame
      <4>3. CASE u = t /\ i = Len(stack[t]) /\ Moves(t, stack'[t][i])
        <5>1. Inside(t)
          BY <4>3 DEF Moves, At
        <5>2. CASE At(t, "test")
          <6>1. py_capio_initialized
            BY <2>1, <3>4, <4>3, <5>1, <5>2 DEF Moves, At, Frame
          <6> QED BY <6>1 DEF PastSetDirInv
        <5>3. CASE At(t, "set_dir")
          (* Without SetDir the call was interrupted: it is gone. *)
          <6>1. Interrupt(t)
            BY <1>1, <2>4, <5>3
               DEF ThreadNext, WrapperStep, Call, TestFlag, PycapioInit, SetFlag,
                   AtexitRegister, dump_context, patch_context, restore_context,
                   PycapioInitRaises, EndBody, pycapio_teardown, At, Inside
          <6>2. Len(stack'[t]) = Len(stack[t]) - 1
            BY <5>1, <6>1, PopEffect DEF Interrupt
          <6> QED BY <2>0, <3>4, <4>3, <6>2
        <5>4. CASE Top(t).at \notin {"test", "set_dir"}
          BY <2>2, <5>1, <5>4
        <5> QED BY <5>1, <5>2, <5>3, <5>4 DEF At
      <4> QED BY <1>1, <4>1, <4>2, <4>3, FramesAfterStep
    <3> QED BY <3>1, <3>2, <3>3, <3>4 DEF PastSetDirInv, ProxyHasDir
  <2> QED BY <2>3, <2>4
<1>2. CASE ProcessExit \/ UNCHANGED vars
  BY <1>2 DEF ProcessExit, vars, PastSetDirInv, ProxyHasDir
<1> QED BY <1>1, <1>2 DEF Next

(* In every thread, whatever raises or is interrupted and whatever it left  *)
(* behind, a proxy is installed only when a CAPIO directory is set.         *)
THEOREM ProxyHasDirCorrect == Spec => []ProxyHasDir
<1>1. Init => PastSetDirInv
  BY DEF Init, PastSetDirInv, ProxyHasDir
<1>2. TypeOK /\ PastSetDirInv /\ [Next]_vars => PastSetDirInv'
  BY PastSetDirStep
<1>3. PastSetDirInv => ProxyHasDir
  BY DEF PastSetDirInv
<1> QED BY <1>1, <1>2, <1>3, TypeCorrect, PTL DEF Spec

-----------------------------------------------------------------------------
(* The end of the process                                                   *)

BeforeRegister(t) == At(t, "set_flag") \/ At(t, "register")

(* Why: a library that is initialised and whose teardown is not registered  *)
(* has a call under way that is about to register it.                       *)
TornDownInv ==
  /\ exited => ~libcapio_initialized /\ \A t \in Thread : stack[t] = <<>>
  /\ libcapio_initialized => registered \/ \E t \in Thread : BeforeRegister(t)

(* A step of t leaves the calls of the other threads alone.                 *)
LEMMA OtherStacks ==
  ASSUME TypeOK, NEW t \in Thread, ThreadNext(t), NEW u \in Thread, u # t
  PROVE  stack'[u] = stack[u]
BY DEF TypeOK, ThreadNext, WrapperStep, Call, TestFlag, SetDir, PycapioInit, SetFlag,
       AtexitRegister, dump_context, patch_context, restore_context,
       PycapioInitRaises, EndBody, Interrupt, pycapio_teardown, MoveTo, SetTop, Pop

(* Moving the call of t on puts it at the place.                            *)
LEMMA MovedTo ==
  ASSUME TypeOK, NEW t \in Thread, Inside(t), NEW place \in Place, MoveTo(t, place)
  PROVE  At(t, place)'
<1> DEFINE frame == [Top(t) EXCEPT !.at = place, !.slot = 1]
<1>1. frame \in Frame /\ SetTop(t, frame)
  BY TopIsFrame, MovedType DEF MoveTo
<1>2. /\ Len(stack[t]) \in Nat \ {0}
      /\ stack' \in [Thread -> Seq(Frame)]
      /\ Len(stack'[t]) = Len(stack[t])
      /\ stack'[t][Len(stack[t])] = frame
  BY <1>1, SetTopEffect, TopIsFrame
<1>3. frame.at = place
  BY TopIsFrame DEF Frame
<1> QED BY <1>2, <1>3, EmptySeq DEF At, Inside, Top

(* A call that is not being left stays, and no step of the wrapper but the  *)
(* end of func makes it leave.                                              *)
LEMMA WrapperStays ==
  ASSUME TypeOK, NEW t \in Thread, WrapperStep(t), ~At(t, "restore")
  PROVE  Len(stack'[t]) = Len(stack[t]) /\ ~At(t, "restore")'
<1>1. Inside(t) /\ ~At(t, "body")
  BY DEF WrapperStep, TestFlag, SetDir, PycapioInit, SetFlag, AtexitRegister, dump_context,
         patch_context, restore_context, At
<1>2. PICK frame : Moves(t, frame) /\ SetTop(t, frame)
  BY DEF WrapperStep, TestFlag, SetDir, PycapioInit, SetFlag, AtexitRegister, dump_context,
         patch_context, restore_context, MoveTo, Moves, Dumped
<1>3. Top(t) \in Frame /\ frame \in Frame /\ Len(stack[t]) \in Nat \ {0}
  BY <1>1, <1>2, TopIsFrame, MovesType
<1>4. frame.at # "restore"
  BY <1>1, <1>2, <1>3 DEF Moves, NextSlot, Dumped, Frame, At
<1>5. Len(stack'[t]) = Len(stack[t]) /\ stack'[t][Len(stack[t])] = frame
  BY <1>1, <1>2, <1>3, SetTopEffect
<1> QED BY <1>4, <1>5 DEF At, Top

LEMMA TornDownStep ==
  ASSUME Interruptible = {}, TypeOK, TornDownInv, [Next]_vars
  PROVE  TornDownInv'
<1>1. ASSUME NEW t \in Thread, ThreadNext(t) PROVE TornDownInv'
  <2>1. ~exited /\ ~exited'
    <3>1. exited' = exited
      BY <1>1
         DEF ThreadNext, WrapperStep, Call, TestFlag, SetDir, PycapioInit, SetFlag,
             AtexitRegister, dump_context, patch_context, restore_context,
             PycapioInitRaises, EndBody, Interrupt, pycapio_teardown, globals
    <3>2. CASE Inside(t)
      BY <3>1, <3>2 DEF TornDownInv, Inside
    <3>3. CASE ~Inside(t)
      BY <1>1, <3>1, <3>3
         DEF ThreadNext, WrapperStep, Call, TestFlag, SetDir, PycapioInit, SetFlag,
             AtexitRegister, dump_context, patch_context, restore_context,
             PycapioInitRaises, EndBody, Interrupt, pycapio_teardown, At
    <3> QED BY <3>2, <3>3
  <2>2. ASSUME libcapio_initialized'
        PROVE  registered' \/ \E u \in Thread : BeforeRegister(u)'
    <3>1. CASE PycapioInit(t)
      BY <3>1, MovedTo DEF PycapioInit, At, Place, BeforeRegister
    <3>2. CASE SetFlag(t)
      BY <3>2, MovedTo DEF SetFlag, At, Place, BeforeRegister
    <3>3. CASE AtexitRegister(t)
      BY <3>3 DEF AtexitRegister
    <3>4. CASE ~(PycapioInit(t) \/ SetFlag(t) \/ AtexitRegister(t))
      <4>1. libcapio_initialized /\ registered' = registered
        BY <1>1, <2>2, <3>4
           DEF ThreadNext, WrapperStep, Call, TestFlag, SetDir, dump_context,
               patch_context, restore_context, PycapioInitRaises, EndBody, Interrupt,
               pycapio_teardown, globals
      <4>2. ~BeforeRegister(t)
        (* Only SetFlag and AtexitRegister leave these places. *)
        BY <1>1, <2>2, <3>4
           DEF ThreadNext, WrapperStep, Call, TestFlag, SetDir, dump_context,
               patch_context, restore_context, PycapioInitRaises, EndBody, Interrupt,
               pycapio_teardown, At, Inside, BeforeRegister
      <4>3. ASSUME NEW u \in Thread, BeforeRegister(u) PROVE BeforeRegister(u)'
        <5>1. stack'[u] = stack[u]
          BY <1>1, <4>2, <4>3, OtherStacks
        <5> QED BY <4>3, <5>1 DEF BeforeRegister, At, Inside, Top
      <4> QED BY <4>1, <4>3 DEF TornDownInv
    <3> QED BY <3>1, <3>2, <3>3, <3>4
  <2> QED BY <2>1, <2>2 DEF TornDownInv
<1>2. CASE ProcessExit
  BY <1>2 DEF ProcessExit, TornDownInv, BeforeRegister, At, Inside
<1>3. CASE UNCHANGED vars
  BY <1>3 DEF vars, TornDownInv, BeforeRegister, At, Inside, Top
<1> QED BY <1>1, <1>2, <1>3 DEF Next

(* Without KeyboardInterrupt, a process whose contexts initialised CAPIO    *)
(* tears it down when it ends, whatever its threads did, whatever failed    *)
(* and whoever tore it down before.                                         *)
THEOREM TornDownAtExitCorrect ==
  ASSUME Interruptible = {} PROVE Spec => []TornDownAtExit
<1>1. Init => TornDownInv
  BY DEF Init, TornDownInv
<1>2. TypeOK /\ TornDownInv /\ [Next]_vars => TornDownInv'
  BY TornDownStep
<1>3. TornDownInv => TornDownAtExit
  BY DEF TornDownInv, TornDownAtExit
<1> QED BY <1>1, <1>2, <1>3, TypeCorrect, PTL DEF Spec

-----------------------------------------------------------------------------
(* Scoped interception in a process of one thread                           *)

(* What the entry points are bound to when the nth nested call begins.      *)
Found(n) == IF n = 1 THEN "original" ELSE "proxy"

Early == {"test", "set_dir", "init", "set_flag", "register", "dump"}

(* Why: all calls but the top one are in their function; each has saved     *)
(* what it found; and the entry points are those it found, the proxies, or  *)
(* on the way from the one to the other, as far as its next slot.           *)
NestingInv(t) ==
  LET n == Len(stack[t]) IN
  /\ \A i \in 1..(n - 1) : stack[t][i].at = "body"
  /\ \A i \in 1..n : stack[t][i].at \notin Early =>
       \A s \in Slot : stack[t][i].saved[s] = Found(i)
  /\ n = 0 => \A s \in Slot : builtin[s] = "original"
  /\ At(t, "dump") => \A s \in Slot : s < Top(t).slot => Top(t).saved[s] = Found(n)
  /\ Inside(t) /\ Top(t).at \in Early => \A s \in Slot : builtin[s] = Found(n)
  /\ At(t, "patch") =>
       \A s \in Slot : builtin[s] = IF s < Top(t).slot THEN "proxy" ELSE Found(n)
  /\ At(t, "body") => \A s \in Slot : builtin[s] = "proxy"
  /\ At(t, "restore") =>
       \A s \in Slot : builtin[s] = IF s < Top(t).slot THEN Found(n) ELSE "proxy"
LEMMA NestingStep ==
  ASSUME Interruptible = {}, NEW t, Thread = {t}, TypeOK, NestingInv(t), [Next]_vars
  PROVE  NestingInv(t)'
<1> DEFINE n == Len(stack[t])
<1>0. t \in Thread /\ n \in Nat
  BY DEF TypeOK
<1>1. ASSUME Inside(t) PROVE /\ n \in 1..n
                             /\ Top(t) = stack[t][n]
                             /\ Top(t) \in Frame
                             /\ Top(t).slot \in Slot
  BY <1>0, <1>1, TopIsFrame DEF Top, Frame
<1>2. ASSUME ~Inside(t) PROVE n = 0
  BY <1>2 DEF Inside
<1>3. ASSUME NEW dir \in Dir, Call(t, dir) PROVE NestingInv(t)'
  <2>1. /\ Len(stack'[t]) = n + 1
        /\ stack'[t][n + 1] = NewFrame(dir)
        /\ \A i \in 1..n : stack'[t][i] = stack[t][i]
        /\ stack'[t] \in Seq(Frame)
    BY <1>0, <1>3, CallEffect
  <2>2. Top(t)' = NewFrame(dir) /\ UNCHANGED builtin
    BY <1>3, <2>1 DEF Call, Top
  <2>3. Top(t)'.at = "test"
    BY <2>2 DEF NewFrame
  <2>4. \A i \in 1..n : stack'[t][i].at = "body"
    BY <1>0, <1>1, <1>3, <2>1 DEF Call, At, NestingInv, Inside
  <2>5. \A s \in Slot : builtin[s] = Found(n + 1)
    BY <1>0, <1>1, <1>2, <1>3 DEF Call, At, NestingInv, Found, Inside
  <2>6. \A i \in 1..(n + 1) : stack'[t][i].at \notin Early =>
          \A s \in Slot : stack'[t][i].saved[s] = Found(i)
    <3>1. \A i \in 1..n : stack[t][i].at \notin Early =>
            \A s \in Slot : stack[t][i].saved[s] = Found(i)
      BY DEF NestingInv
    <3>2. ASSUME NEW i \in 1..n, stack'[t][i].at \notin Early
          PROVE  \A s \in Slot : stack'[t][i].saved[s] = Found(i)
      BY <2>1, <3>1, <3>2
    <3>3. stack'[t][n + 1].at \in Early
      BY <2>1 DEF NewFrame, Early
    <3>4. \A i \in 1..(n + 1) : i \in 1..n \/ i = n + 1
      BY <1>0
    <3> QED BY <3>2, <3>3, <3>4
  <2> QED BY <1>0, <2>1, <2>2, <2>3, <2>4, <2>5, <2>6 DEF NestingInv, At
<1>4. ASSUME NEW frame \in Frame, Inside(t), SetTop(t, frame)
      PROVE  /\ Len(stack'[t]) = n
             /\ Top(t)' = frame
             /\ Inside(t)'
             /\ stack'[t][n] = frame
             /\ \A i \in 1..(n - 1) : stack'[t][i] = stack[t][i]
  <2>1. /\ Len(stack'[t]) = n
        /\ stack'[t][n] = frame
        /\ \A i \in 1..(n - 1) : stack'[t][i] = stack[t][i]
        /\ stack'[t] \in Seq(Frame)
    BY <1>0, <1>4, SetTopEffect
  <2>2. Inside(t)'
    BY <1>1, <1>4, <2>1 DEF Inside
  <2> QED BY <2>1, <2>2 DEF Top
<1>5. ASSUME NEW frame \in Frame, Inside(t), SetTop(t, frame),
             frame.saved = Top(t).saved, frame.slot = 1,
             frame.at \in Early => Top(t).at \in Early,
             frame.at = "dump" \/ frame.at \in Early \ {"dump"}
               \/ (frame.at = "restore" /\ Top(t).at = "body"),
             UNCHANGED builtin
      PROVE  NestingInv(t)'
  <2>1. \A i \in 1..(n - 1) : stack'[t][i] = stack[t][i] /\ stack'[t][i].at = "body"
    BY <1>4, <1>5 DEF NestingInv
  <2>2. \A i \in 1..n : stack'[t][i].at \notin Early =>
          \A s \in Slot : stack'[t][i].saved[s] = Found(i)
    <3> SUFFICES ASSUME NEW i \in 1..n, stack'[t][i].at \notin Early
                 PROVE  \A s \in Slot : stack'[t][i].saved[s] = Found(i)
      OBVIOUS
    <3>1. CASE i = n
      BY <1>1, <1>4, <1>5, <3>1 DEF NestingInv, Early
    <3>2. CASE i # n
      BY <1>0, <1>4, <1>5, <3>2 DEF NestingInv
    <3> QED BY <3>1, <3>2
  <2>3. \A s \in Slot : ~(s < 1)
    BY DEF Slot
  <2> QED BY <1>0, <1>1, <1>4, <1>5, <2>1, <2>2, <2>3 DEF NestingInv, At, Early
<1>6. ASSUME NEW place \in Place, Inside(t), MoveTo(t, place), UNCHANGED builtin,
             \/ Top(t).at \in Early /\ place \in Early
             \/ Top(t).at = "body" /\ place = "restore"
      PROVE  NestingInv(t)'
  <2> DEFINE frame == [Top(t) EXCEPT !.at = place, !.slot = 1]
  <2>1. frame \in Frame /\ SetTop(t, frame)
    BY <1>1, <1>6, MovedType DEF MoveTo
  <2>2. frame.saved = Top(t).saved /\ frame.slot = 1 /\ frame.at = place
    BY <1>1, <1>6 DEF Frame
  <2>3. \/ frame.at = "dump" \/ frame.at \in Early \ {"dump"}
        \/ (frame.at = "restore" /\ Top(t).at = "body")
    BY <1>6, <2>2
  <2>4. frame.at \in Early => Top(t).at \in Early
    BY <1>6, <2>2 DEF Early
  <2> HIDE DEF frame
  <2> QED BY <1>5, <1>6, <2>1, <2>2, <2>3, <2>4
<1>7. CASE \/ TestFlag(t) \/ SetDir(t) \/ PycapioInit(t) \/ SetFlag(t)
           \/ AtexitRegister(t) \/ EndBody(t)
  <2>1. CASE TestFlag(t)
    BY <1>6, <2>1 DEF TestFlag, At, Early, Place
  <2>2. CASE SetDir(t) \/ PycapioInit(t) \/ SetFlag(t) \/ AtexitRegister(t)
    BY <1>6, <2>2 DEF SetDir, PycapioInit, SetFlag, AtexitRegister, At, Early, Place
  <2>3. CASE EndBody(t)
    BY <1>6, <2>3 DEF EndBody, At, Early, Place
  <2> QED BY <1>7, <2>1, <2>2, <2>3
<1>8. CASE dump_context(t)
  <2> DEFINE frame == NextSlot(Dumped(Top(t)), "patch")
  <2>1. Inside(t) /\ Top(t).at = "dump" /\ UNCHANGED builtin
    BY <1>8 DEF dump_context, At
  <2>2. Dumped(Top(t)) \in Frame /\ frame \in Frame /\ SetTop(t, frame)
    BY <1>1, <1>8, <2>1, DumpedType, NextSlotType DEF dump_context, Dumped, Place
  <2>3. /\ Dumped(Top(t)).at = "dump"
        /\ Dumped(Top(t)).slot = Top(t).slot
        /\ Dumped(Top(t)).saved = [Top(t).saved EXCEPT ![Top(t).slot] = builtin[Top(t).slot]]
    BY <1>1, <2>1 DEF Dumped, Frame
  <2>4. \A s \in Slot : s <= Top(t).slot => Dumped(Top(t)).saved[s] = Found(n)
    <3>1. Top(t).saved \in [Slot -> Callable]
      BY <1>1, <2>1 DEF Frame
    <3>2. builtin[Top(t).slot] = Found(n)
      BY <1>1, <2>1 DEF NestingInv, Early
    <3>3. \A s \in Slot : s < Top(t).slot => Top(t).saved[s] = Found(n)
      BY <2>1 DEF NestingInv, At
    <3>4. Top(t).slot \in Slot
      BY <1>1, <2>1
    <3>5. \A s \in Slot : s <= Top(t).slot => s < Top(t).slot \/ s = Top(t).slot
      BY <3>4 DEF Slot
    <3> QED BY <2>3, <3>1, <3>2, <3>3, <3>4, <3>5
  <2>5. \A i \in 1..(n - 1) : stack'[t][i] = stack[t][i] /\ stack'[t][i].at = "body"
    BY <1>4, <2>1, <2>2 DEF NestingInv
  <2>6. CASE Top(t).slot < SlotCount
    <3>1. /\ frame.at = "dump" /\ frame.slot = Top(t).slot + 1
          /\ frame.saved = Dumped(Top(t)).saved
      BY <2>2, <2>3, <2>6 DEF NextSlot, Frame
    <3>2. \A s \in Slot : s < frame.slot => frame.saved[s] = Found(n)
      BY <1>1, <2>1, <2>4, <3>1 DEF Slot
    <3> HIDE DEF frame
    <3> QED BY <1>0, <1>1, <1>4, <2>1, <2>2, <2>5, <3>1, <3>2 DEF NestingInv, At, Early
  <2>7. CASE ~(Top(t).slot < SlotCount)
    <3>1. /\ frame.at = "patch" /\ frame.slot = 1
          /\ frame.saved = Dumped(Top(t)).saved
      BY <2>2, <2>3, <2>7 DEF NextSlot, Frame
    <3>2. \A s \in Slot : frame.saved[s] = Found(n) /\ ~(s < 1)
      BY <1>1, <2>1, <2>4, <2>7, <3>1, ConstantsAssumption DEF Slot
    <3> HIDE DEF frame
    <3> QED BY <1>0, <1>1, <1>4, <2>1, <2>2, <2>5, <3>1, <3>2 DEF NestingInv, At, Early
  <2> QED BY <2>6, <2>7
<1>9. CASE patch_context(t)
  <2> DEFINE frame == NextSlot(Top(t), "body")
  <2>1. /\ Inside(t) /\ Top(t).at = "patch"
        /\ builtin' = [builtin EXCEPT ![Top(t).slot] = "proxy"]
    BY <1>9 DEF patch_context, At
  <2>2. frame \in Frame /\ SetTop(t, frame)
    BY <1>1, <1>9, <2>1, NextSlotType DEF patch_context, Place
  <2>3. \A s \in Slot : builtin'[s] = IF s <= Top(t).slot THEN "proxy" ELSE Found(n)
    <3>1. builtin \in [Slot -> Callable]
      BY DEF TypeOK
    <3>2. \A s \in Slot : builtin[s] = IF s < Top(t).slot THEN "proxy" ELSE Found(n)
      BY <2>1 DEF NestingInv, At
    <3> QED BY <1>1, <2>1, <3>1, <3>2 DEF Slot
  <2>4. \A s \in Slot : Top(t).saved[s] = Found(n)
    BY <1>1, <2>1 DEF NestingInv, Early
  <2>5. \A i \in 1..(n - 1) : stack'[t][i] = stack[t][i] /\ stack'[t][i].at = "body"
    BY <1>4, <2>1, <2>2 DEF NestingInv
  <2>6. frame.saved = Top(t).saved
    BY <1>1, <2>1 DEF NextSlot, Frame
  <2>7. CASE Top(t).slot < SlotCount
    <3>1. frame.at = "patch" /\ frame.slot = Top(t).slot + 1
      BY <1>1, <2>1, <2>7 DEF NextSlot, Frame
    <3>2. \A s \in Slot : builtin'[s] = IF s < frame.slot THEN "proxy" ELSE Found(n)
      BY <1>1, <2>1, <2>3, <3>1 DEF Slot
    <3> HIDE DEF frame
    <3> QED BY <1>0, <1>1, <1>4, <2>1, <2>2, <2>4, <2>5, <2>6, <3>1, <3>2
         DEF NestingInv, At, Early
  <2>8. CASE ~(Top(t).slot < SlotCount)
    <3>1. frame.at = "body"
      BY <1>1, <2>1, <2>8 DEF NextSlot, Frame
    <3>2. \A s \in Slot : builtin'[s] = "proxy"
      BY <1>1, <2>1, <2>3, <2>8, ConstantsAssumption DEF Slot
    <3> HIDE DEF frame
    <3> QED BY <1>0, <1>1, <1>4, <2>1, <2>2, <2>4, <2>5, <2>6, <3>1, <3>2
         DEF NestingInv, At, Early
  <2> QED BY <2>7, <2>8
<1>10. ASSUME Inside(t), Pop(t), \A s \in Slot : builtin'[s] = Found(n)
       PROVE  NestingInv(t)'
  <2>1. /\ Len(stack'[t]) = n - 1
        /\ \A i \in 1..(n - 1) : stack'[t][i] = stack[t][i] /\ stack'[t][i].at = "body"
        /\ stack'[t] \in Seq(Frame)
    BY <1>0, <1>10, PopEffect DEF NestingInv
  <2>2. CASE n = 1
    <3>1. stack'[t] = <<>>
      BY <2>1, <2>2, EmptySeq
    <3> QED BY <1>10, <2>1, <2>2, <3>1 DEF NestingInv, At, Inside, Found
  <2>3. CASE n # 1
    <3>1. n - 1 \in 1..(n - 1)
      <4>1. n \in Nat /\ n \in 1..n
        BY <1>0, <1>1, <1>10
      <4> HIDE DEF n
      <4> QED BY <2>3, <4>1
    <3>2. Top(t)'.at = "body"
      BY <2>1, <3>1 DEF Top
    <3>3. \A s \in Slot : builtin'[s] = "proxy"
      BY <1>10, <2>3 DEF Found
    <3>4. \A i \in 1..(n - 1) : \A s \in Slot : stack'[t][i].saved[s] = Found(i)
      BY <1>0, <2>1 DEF NestingInv, Early
    <3> QED BY <1>0, <2>1, <3>1, <3>2, <3>3, <3>4 DEF NestingInv, At, Early
  <2> QED BY <2>2, <2>3
<1>11. CASE restore_context(t)
  <2>1. /\ Inside(t) /\ Top(t).at = "restore"
        /\ builtin' = [builtin EXCEPT ![Top(t).slot] = Top(t).saved[Top(t).slot]]
    BY <1>11 DEF restore_context, At
  <2>2. \A s \in Slot : Top(t).saved[s] = Found(n)
    BY <1>1, <2>1 DEF NestingInv, Early
  <2>3. \A s \in Slot : builtin'[s] = IF s <= Top(t).slot THEN Found(n) ELSE "proxy"
    <3>1. builtin \in [Slot -> Callable]
      BY DEF TypeOK
    <3>2. \A s \in Slot : builtin[s] = IF s < Top(t).slot THEN Found(n) ELSE "proxy"
      BY <2>1 DEF NestingInv, At
    <3> QED BY <1>1, <2>1, <2>2, <3>1, <3>2 DEF Slot
  <2>4. CASE Top(t).slot < SlotCount
    <3> DEFINE frame == NextSlot(Top(t), "restore")
    <3>1. frame \in Frame /\ SetTop(t, frame)
      BY <1>1, <1>11, <2>1, <2>4, NextSlotType DEF restore_context, Place
    <3>2. /\ frame.at = "restore" /\ frame.slot = Top(t).slot + 1
          /\ frame.saved = Top(t).saved
      BY <1>1, <2>1, <2>4 DEF NextSlot, Frame
    <3>3. \A s \in Slot : builtin'[s] = IF s < frame.slot THEN Found(n) ELSE "proxy"
      BY <1>1, <2>1, <2>3, <3>2 DEF Slot
    <3>4. \A i \in 1..(n - 1) : stack'[t][i] = stack[t][i] /\ stack'[t][i].at = "body"
      BY <1>4, <2>1, <3>1 DEF NestingInv
    <3> HIDE DEF frame
    <3> QED BY <1>0, <1>1, <1>4, <2>1, <2>2, <3>1, <3>2, <3>3, <3>4
         DEF NestingInv, At, Early
  <2>5. CASE ~(Top(t).slot < SlotCount)
    <3>1. Pop(t)
      BY <1>11, <2>5 DEF restore_context
    <3>2. \A s \in Slot : builtin'[s] = Found(n)
      BY <1>1, <2>1, <2>3, <2>5, ConstantsAssumption DEF Slot
    <3> QED BY <1>10, <2>1, <3>1, <3>2
  <2> QED BY <2>4, <2>5
<1>12. CASE PycapioInitRaises(t)
  <2>1. Inside(t) /\ Pop(t) /\ UNCHANGED builtin /\ Top(t).at = "init"
    BY <1>12 DEF PycapioInitRaises, At
  <2>2. \A s \in Slot : builtin[s] = Found(n)
    BY <2>1 DEF NestingInv, Early
  <2> QED BY <1>10, <2>1, <2>2
<1>13. CASE pycapio_teardown(t) \/ ProcessExit \/ UNCHANGED vars
  BY <1>13 DEF pycapio_teardown, ProcessExit, vars, NestingInv, At, Inside, Top
<1> QED
  BY <1>3, <1>7, <1>8, <1>9, <1>11, <1>12, <1>13
     DEF Next, ThreadNext, WrapperStep, Interrupt

LEMMA NestingAlways ==
  ASSUME Interruptible = {}, NEW t, Thread = {t} PROVE Spec => []NestingInv(t)
<1>1. Init => NestingInv(t)
  <2> SUFFICES ASSUME Init PROVE NestingInv(t)
    OBVIOUS
  <2>1. stack[t] = <<>> /\ Len(stack[t]) = 0
    BY DEF Init
  <2> QED BY <2>1 DEF Init, NestingInv, At, Inside
<1>2. TypeOK /\ NestingInv(t) /\ [Next]_vars => NestingInv(t)'
  BY NestingStep
<1> QED BY <1>1, <1>2, TypeCorrect, PTL DEF Spec

(* In a process of one thread that is not interrupted outside the decorated *)
(* functions, all entry points are the originals whenever no decorated call *)
(* is under way, for any depth of nesting, errors in pycapio_init included. *)
THEOREM ScopedInterceptionCorrect ==
  ASSUME Interruptible = {}, NEW t, Thread = {t} PROVE Spec => []ScopedInterception
<1>1. NestingInv(t) => ScopedInterception
  BY DEF NestingInv, ScopedInterception, Inside
<1> QED BY <1>1, NestingAlways, PTL

(* In such a process, all entry points are the proxies for the whole of a   *)
(* decorated function, also after a nested decorated call has returned.     *)
THEOREM InterceptedCorrect ==
  ASSUME Interruptible = {}, NEW t, Thread = {t} PROVE Spec => []Intercepted
<1>1. NestingInv(t) => Intercepted
  BY DEF NestingInv, Intercepted
<1> QED BY <1>1, NestingAlways, PTL

-----------------------------------------------------------------------------
(* One directory, in Python and in the environment                          *)

(* Where a call of t is that has found the flag set, or set it.             *)
Late == {"register", "dump", "patch", "body", "restore"}

(* Why: the directory is assigned and published by the one call that finds  *)
(* the flag unset, while the environment has none; from then on neither     *)
(* changes, and until then no other call is under way.                      *)
PublishedInv(t) ==
  /\ py_capio_initialized => CAPIO_DIR = env_CAPIO_DIR
  /\ At(t, "set_flag") => CAPIO_DIR = env_CAPIO_DIR
  /\ ~py_capio_initialized /\ ~At(t, "set_flag") => env_CAPIO_DIR = NoDir
  /\ Inside(t) /\ Top(t).at \in Late => py_capio_initialized
  /\ At(t, "set_dir") \/ At(t, "init") => ~py_capio_initialized

(* The top call of t moves on to one of two places.                         *)
LEMMA TopAfterNextSlot ==
  ASSUME TypeOK, NEW t \in Thread, Inside(t), NEW frame \in Frame, NEW place \in Place,
         SetTop(t, NextSlot(frame, place))
  PROVE  Inside(t)' /\ Top(t)'.at \in {frame.at, place}
<1> DEFINE new == NextSlot(frame, place)
<1>1. new \in Frame
  BY NextSlotType
<1>2. new.at \in {frame.at, place}
  BY <1>1 DEF NextSlot, Frame
<1> HIDE DEF new
<1>3. /\ Len(stack[t]) \in Nat \ {0}
      /\ stack' \in [Thread -> Seq(Frame)]
      /\ Len(stack'[t]) = Len(stack[t])
      /\ stack'[t][Len(stack[t])] = new
  BY <1>1, SetTopEffect, TopIsFrame DEF new
<1> QED BY <1>2, <1>3, EmptySeq DEF Inside, Top

LEMMA PublishedStep ==
  ASSUME Interruptible = {}, ~InitMayFail, NEW t, Thread = {t},
         TypeOK, NestingInv(t), PublishedInv(t), [Next]_vars
  PROVE  PublishedInv(t)'
<1>0. t \in Thread /\ Len(stack[t]) \in Nat
  BY DEF TypeOK
<1>1. ASSUME NEW dir \in Dir, Call(t, dir) PROVE PublishedInv(t)'
  <2>1. At(t, "test")' /\ Top(t)'.at = "test"
    <3>1. /\ Len(stack'[t]) = Len(stack[t]) + 1
          /\ stack'[t] \in Seq(Frame)
          /\ stack'[t][Len(stack[t]) + 1] = NewFrame(dir)
      BY <1>0, <1>1, CallEffect
    <3> QED BY <1>0, <3>1, EmptySeq DEF At, Inside, Top, NewFrame
  <2>2. ~At(t, "set_flag")
    BY <1>1 DEF Call, At, Inside
  <2> QED BY <1>1, <2>1, <2>2 DEF Call, PublishedInv, globals, At, Late
<1>2. ASSUME NEW place \in Place, Inside(t), MoveTo(t, place)
      PROVE  /\ Inside(t)' /\ Top(t)'.at = place
             /\ \A other \in Place : At(t, other)' <=> place = other
  BY <1>0, <1>2, MovedTo DEF At
<1>3. CASE TestFlag(t)
  <2>1. CASE py_capio_initialized
    <3>1. MoveTo(t, "dump") /\ UNCHANGED globals
      BY <1>3, <2>1 DEF TestFlag
    <3> QED BY <1>2, <1>3, <2>1, <3>1 DEF TestFlag, PublishedInv, globals, At, Late, Place
  <2>2. CASE ~py_capio_initialized
    <3>1. MoveTo(t, "set_dir") /\ UNCHANGED globals
      BY <1>3, <2>2 DEF TestFlag
    <3> QED BY <1>2, <1>3, <2>2, <3>1 DEF TestFlag, PublishedInv, globals, At, Late, Place
  <2> QED BY <2>1, <2>2
<1>4. CASE SetDir(t)
  BY <1>2, <1>4 DEF SetDir, PublishedInv, At, Late, Place
<1>5. CASE PycapioInit(t)
  BY <1>2, <1>5 DEF PycapioInit, PublishDir, PublishedInv, At, Late, Place
<1>6. CASE SetFlag(t)
  BY <1>2, <1>6 DEF SetFlag, PublishedInv, At, Late, Place
<1>7. CASE AtexitRegister(t)
  BY <1>2, <1>7 DEF AtexitRegister, PublishedInv, At, Late, Place
<1>8. CASE EndBody(t)
  BY <1>2, <1>8 DEF EndBody, PublishedInv, globals, At, Late, Place
<1>9. ASSUME UNCHANGED globals, py_capio_initialized,
             Inside(t)' => Top(t)'.at \in Late
      PROVE  PublishedInv(t)'
  BY <1>9 DEF PublishedInv, globals, At, Late
<1>10. CASE dump_context(t)
  <2>1. Inside(t) /\ Top(t).at = "dump" /\ UNCHANGED globals /\ py_capio_initialized
    BY <1>10 DEF dump_context, At, PublishedInv, Late
  <2>2. Top(t) \in Frame /\ Dumped(Top(t)) \in Frame /\ Dumped(Top(t)).at = "dump"
    BY <1>0, <2>1, TopIsFrame, DumpedType DEF Dumped, Frame
  <2>3. SetTop(t, NextSlot(Dumped(Top(t)), "patch"))
    BY <1>10 DEF dump_context, Dumped
  <2>4. Top(t)'.at \in {"dump", "patch"}
    BY <1>0, <2>1, <2>2, <2>3, TopAfterNextSlot DEF Place
  <2> QED BY <1>9, <2>1, <2>4 DEF Late
<1>11. CASE patch_context(t)
  <2>1. Inside(t) /\ Top(t).at = "patch" /\ UNCHANGED globals /\ py_capio_initialized
    BY <1>11 DEF patch_context, At, PublishedInv, Late
  <2>2. SetTop(t, NextSlot(Top(t), "body")) /\ Top(t) \in Frame
    BY <1>0, <1>11, <2>1, TopIsFrame DEF patch_context
  <2>3. Top(t)'.at \in {"patch", "body"}
    BY <1>0, <2>1, <2>2, TopAfterNextSlot DEF Place
  <2> QED BY <1>9, <2>1, <2>3 DEF Late
<1>12. CASE restore_context(t)
  <2>1. Inside(t) /\ Top(t).at = "restore" /\ UNCHANGED globals /\ py_capio_initialized
    BY <1>12 DEF restore_context, At, PublishedInv, Late
  <2>2. CASE Top(t).slot < SlotCount
    <3>1. SetTop(t, NextSlot(Top(t), "restore")) /\ Top(t) \in Frame
      BY <1>0, <1>12, <2>1, <2>2, TopIsFrame DEF restore_context
    <3>2. Top(t)'.at = "restore"
      BY <1>0, <2>1, <3>1, TopAfterNextSlot DEF Place
    <3> QED BY <1>9, <2>1, <3>2 DEF Late
  <2>3. CASE ~(Top(t).slot < SlotCount)
    (* The call it returns to is in its function. *)
    <3>1. /\ Len(stack'[t]) = Len(stack[t]) - 1
          /\ \A i \in 1..(Len(stack[t]) - 1) : stack'[t][i].at = "body"
          /\ stack'[t] \in Seq(Frame)
      BY <1>0, <1>12, <2>1, <2>3, PopEffect DEF restore_context, NestingInv
    <3>2. Inside(t)' => Len(stack'[t]) \in 1..(Len(stack[t]) - 1)
      BY <1>0, <3>1, EmptySeq DEF Inside
    <3>3. Inside(t)' => Top(t)'.at = "body"
      BY <3>1, <3>2 DEF Top
    <3> QED BY <1>9, <2>1, <3>3 DEF Late
  <2> QED BY <2>2, <2>3
<1>13. CASE pycapio_teardown(t) \/ ProcessExit \/ UNCHANGED vars
  BY <1>13 DEF pycapio_teardown, ProcessExit, vars, PublishedInv, At, Inside, Top
<1> QED
  BY <1>1, <1>3, <1>4, <1>5, <1>6, <1>7, <1>8, <1>10, <1>11, <1>12, <1>13
     DEF Next, ThreadNext, WrapperStep, Interrupt, PycapioInitRaises

(* In a process of one thread whose environment does not have CAPIO_DIR,    *)
(* whose initialisation does not fail and is not interrupted, the proxies   *)
(* and the native library use the same directory in every decorated         *)
(* function, however many contexts with other directories are nested, and   *)
(* also after explicit teardowns.                                           *)
THEOREM DirPublishedCorrect ==
  ASSUME Interruptible = {}, ~InitMayFail, Inherited \subseteq {NoDir}, NEW t, Thread = {t}
  PROVE  Spec => []DirPublished
<1>1. Init => PublishedInv(t)
  BY DEF Init, PublishedInv, At, Inside
<1>2. TypeOK /\ NestingInv(t) /\ PublishedInv(t) /\ [Next]_vars => PublishedInv(t)'
  BY PublishedStep
<1>3. PublishedInv(t) => DirPublished
  BY DEF PublishedInv, DirPublished, At, Late
<1> QED BY <1>1, <1>2, <1>3, TypeCorrect, NestingAlways, PTL DEF Spec
=============================================================================
