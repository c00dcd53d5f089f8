--------------------------- MODULE LauncherProofs ---------------------------
(***************************************************************************)
(* Theorems about Launcher, for any target, any nesting and any ends of    *)
(* the target's code.                                                      *)
(***************************************************************************)
EXTENDS Launcher, OsPathProofs

(* The theorems about the decorator, of the decorated call of the launcher  *)
(* and those that the target makes.                                         *)
Decorator ==
  INSTANCE CapioContextProofs WITH
    Thread <- {main}, Interruptible <- {}, Dir <- {capio_dir}, Inherited <- {NoDir},
    InitMayFail <- TRUE, ExplicitTeardown <- FALSE

-----------------------------------------------------------------------------
(* The launcher is a program of decorated calls                             *)

LEMMA DecoratorConstants == Decorator!ConstantsAssumption
BY ConstantsAssumption DEF Decorator!ConstantsAssumption

LEMMA SameInit == Context!Init => Decorator!Init
BY DEF Context!Init, Decorator!Init, Context!Slot, Decorator!Slot

LEMMA SameNext == Context!Next => Decorator!Next
BY DEF Context!Next, Context!ThreadNext, Context!WrapperStep, Context!ProcessExit,
       Context!Call, Context!TestFlag, Context!SetDir, Context!PycapioInit,
       Context!PycapioInitRaises, Context!SetFlag, Context!AtexitRegister,
       Context!dump_context, Context!patch_context, Context!restore_context,
       Context!EndBody, Context!Interrupt, Context!pycapio_teardown,
       Context!PublishDir, Context!NextSlot, Context!MoveTo, Context!SetTop,
       Context!Pop, Context!Top, Context!At, Context!Inside, Context!NewFrame,
       Context!Slot, Context!globals,
       Decorator!Next, Decorator!ThreadNext, Decorator!WrapperStep, Decorator!ProcessExit,
       Decorator!Call, Decorator!TestFlag, Decorator!SetDir, Decorator!PycapioInit,
       Decorator!PycapioInitRaises, Decorator!SetFlag, Decorator!AtexitRegister,
       Decorator!dump_context, Decorator!patch_context, Decorator!restore_context,
       Decorator!EndBody, Decorator!Interrupt, Decorator!pycapio_teardown,
       Decorator!PublishDir, Decorator!NextSlot, Decorator!MoveTo, Decorator!SetTop,
       Decorator!Pop, Decorator!Top, Decorator!At, Decorator!Inside, Decorator!NewFrame,
       Decorator!Slot, Decorator!globals

(* The launcher and its target do with the built-in I/O, with _CAPIO_DIR    *)
(* and with the library what decorated calls of one thread may do, whatever *)
(* the target is and however it ends.                                       *)
THEOREM Refinement == Spec => Decorator!Spec
<1>1. Init => Decorator!Init
  BY SameInit DEF Init
<1>2. ASSUME [Next]_vars PROVE Context!Next \/ UNCHANGED context
  <2>1. CASE Call \/ TargetCalls
    BY <2>1 DEF Call, TargetCalls, Context!Next, Context!ThreadNext
  <2>2. CASE ContextStep \/ InitRaises \/ EndFunction
    BY <2>2 DEF ContextStep, InitRaises, EndFunction, Context!Next, Context!ThreadNext
  <2>3. CASE ProcessExit
    BY <2>3 DEF ProcessExit, Context!Next
  <2>4. CASE IsDir \/ FindEntry \/ ScriptDir
    BY <2>4 DEF IsDir, FindEntry, ScriptDir, LookUp
  <2>5. CASE TargetEnds
    BY <2>5 DEF TargetEnds, RunPath, RunPathFails, RunModule, RunModuleFails, Running
  <2>6. CASE UNCHANGED vars
    BY <2>6 DEF vars
  <2> QED BY <1>2, <2>1, <2>2, <2>3, <2>4, <2>5, <2>6 DEF Next, Steps
<1>3. [Next]_vars => [Decorator!Next]_(Decorator!vars)
  BY <1>2, SameNext DEF context, Decorator!vars
<1> QED BY <1>1, <1>3, PTL DEF Spec, Decorator!Spec

-----------------------------------------------------------------------------
(* What holds of the decorator holds of the launcher                        *)

LEMMA DecoratorType == Spec => []Decorator!TypeOK
BY DecoratorConstants, Refinement, Decorator!TypeCorrect, PTL

(* Nothing is under way when the process has ended.                         *)
ExitedInv == exited => stack[main] = <<>>

LEMMA ExitedStep ==
  ASSUME ExitedInv, [Decorator!Next]_(Decorator!vars) PROVE ExitedInv'
<1>1. CASE Decorator!ThreadNext(main)
  BY <1>1
     DEF ExitedInv, Decorator!ThreadNext, Decorator!WrapperStep, Decorator!Call,
         Decorator!TestFlag, Decorator!SetDir, Decorator!PycapioInit,
         Decorator!PycapioInitRaises, Decorator!SetFlag, Decorator!AtexitRegister,
         Decorator!dump_context, Decorator!patch_context, Decorator!restore_context,
         Decorator!EndBody, Decorator!Interrupt, Decorator!pycapio_teardown,
         Decorator!At, Decorator!Inside, Decorator!globals
<1>2. CASE Decorator!ProcessExit
  BY <1>2 DEF ExitedInv, Decorator!ProcessExit
<1>3. CASE UNCHANGED Decorator!vars
  BY <1>3 DEF ExitedInv, Decorator!vars
<1> QED BY <1>1, <1>2, <1>3 DEF Decorator!Next

LEMMA NothingAfterExit == Spec => []ExitedInv
<1>1. Decorator!Init => ExitedInv
  BY DEF Decorator!Init, ExitedInv
<1> QED BY <1>1, ExitedStep, Refinement, PTL DEF Decorator!Spec

(* However the target ends, by itself, by an exception or by sys.exit from  *)
(* within decorated functions, the process ends with the original entry     *)
(* points and without CAPIO.                                                *)
THEOREM CleanExitCorrect == Spec => []CleanExit
<1>1. Spec => []Decorator!ScopedInterception
  <2>1. Decorator!Spec => []Decorator!ScopedInterception
    BY DecoratorConstants, Decorator!ScopedInterceptionCorrect
  <2> QED BY <2>1, Refinement, PTL
<1>2. Spec => []Decorator!TornDownAtExit
  <2>1. Decorator!Spec => []Decorator!TornDownAtExit
    BY DecoratorConstants, Decorator!TornDownAtExitCorrect
  <2> QED BY <2>1, Refinement, PTL
<1>3. /\ Decorator!TypeOK /\ Decorator!ScopedInterception
      /\ Decorator!TornDownAtExit /\ ExitedInv
      => CleanExit
  BY DEF CleanExit, ExitedInv, Decorator!TypeOK, Decorator!ScopedInterception,
         Decorator!TornDownAtExit, Decorator!Inside
<1> QED BY <1>1, <1>2, <1>3, NothingAfterExit, DecoratorType, PTL

(* The target runs with every entry point replaced, an initialised library  *)
(* and the directory of the command line, however many decorated functions  *)
(* it has called and left.                                                  *)
THEOREM UnderProxiesCorrect == Spec => []UnderProxies
<1>1. Spec => []Decorator!Intercepted
  <2>1. Decorator!Spec => []Decorator!Intercepted
    BY DecoratorConstants, Decorator!InterceptedCorrect
  <2> QED BY <2>1, Refinement, PTL
<1>2. Spec => []Decorator!InitialisedInBody
  BY DecoratorConstants, Refinement, Decorator!InitialisedInBodyCorrect, PTL
<1>3. Spec => []Decorator!ProxyHasDir
  BY DecoratorConstants, Refinement, Decorator!ProxyHasDirCorrect, PTL
<1>4. ASSUME Decorator!TypeOK, Decorator!Intercepted,
             Decorator!InitialisedInBody, Decorator!ProxyHasDir
      PROVE  UnderProxies
  <2> SUFFICES ASSUME InFunction
               PROVE  /\ \A s \in DOMAIN builtin : builtin[s] = "proxy"
                      /\ libcapio_initialized
                      /\ CAPIO_DIR = capio_dir
    BY DEF UnderProxies
  <2>1. Decorator!At(main, "body")
    BY DEF InFunction, Context!At, Context!Inside, Context!Top,
           Decorator!At, Decorator!Inside, Decorator!Top
  <2>2. \A s \in Decorator!Slot : builtin[s] = "proxy"
    BY <1>4, <2>1 DEF Decorator!Intercepted
  <2>3. DOMAIN builtin = Decorator!Slot /\ CAPIO_DIR \in {capio_dir, NoDir}
    BY <1>4 DEF Decorator!TypeOK
  <2>4. 1 \in Decorator!Slot
    BY ConstantsAssumption DEF Decorator!Slot
  <2>5. CAPIO_DIR # NoDir
    BY <1>4, <2>2, <2>4 DEF Decorator!ProxyHasDir
  <2> QED BY <1>4, <2>1, <2>2, <2>3, <2>5 DEF Decorator!InitialisedInBody
<1> QED BY <1>1, <1>2, <1>3, <1>4, DecoratorType, PTL

-----------------------------------------------------------------------------
(* The runs of the target's code, and the exit status                       *)

BeforeRun == {"call", "isdir", "entries", "script_dir", "run_path"}

(* What has been run when the launcher is at a place: nothing before        *)
(* run_path, nothing or a run that raised before run_module.                *)
RunsInv ==
  /\ at \in BeforeRun => ran = <<>>
  /\ at = "run_module" => ran = <<>> \/ ran = <<Raises>>
  /\ ran = <<>> \/ (\E e \in End : ran = <<e>>) \/ (\E e \in End : ran = <<Raises, e>>)

(* The status that the launcher leaves with is that of the last run.        *)
StatusInv == at \in {"leaving", "ended"} /\ ran # <<>> => status = Last(ran).code

(* Steps outside of run_path and run_module run nothing.                    *)
LEMMA RunsElsewhere ==
  ASSUME RunsInv,
         \/ Call \/ ContextStep \/ InitRaises \/ EndFunction \/ ProcessExit
         \/ IsDir \/ FindEntry \/ ScriptDir \/ RunPathFails \/ TargetCalls \/ UNCHANGED vars
  PROVE  RunsInv' /\ (StatusInv => StatusInv')
<1> USE DEF RunsInv, StatusInv, BeforeRun
<1>1. CASE Call \/ ContextStep \/ EndFunction \/ TargetCalls \/ UNCHANGED vars
  BY <1>1 DEF Call, Goto, ContextStep, EndFunction, TargetCalls, launcher, vars
<1>2. CASE ProcessExit
  BY <1>2 DEF ProcessExit, Goto
<1>3. CASE InitRaises \/ IsDir \/ FindEntry \/ ScriptDir
  BY <1>3 DEF InitRaises, IsDir, FindEntry, ScriptDir, LookUp, Leave, Goto
<1>4. CASE RunPathFails
  BY <1>4 DEF RunPathFails, Running, Goto
<1> QED BY <1>1, <1>2, <1>3, <1>4

LEMMA AppendToNone ==
  ASSUME NEW e PROVE /\ Append(<<>>, e) = <<e>> /\ Last(<<e>>) = e
                     /\ Append(<<Raises>>, e) = <<Raises, e>> /\ Last(<<Raises, e>>) = e
                     /\ <<e>> # <<>> /\ <<Raises, e>> # <<>>
<1>1. Append(<<>>, e) = <<e>> /\ Append(<<Raises>>, e) = <<Raises, e>>
  <2> DEFINE S == {e, Raises}
  <2>1. <<>> \in Seq(S) /\ <<Raises>> \in Seq(S) /\ e \in S
    OBVIOUS
  <2>2. Append(<<>>, e) = <<e>>
    BY <2>1
  <2>3. Append(<<Raises>>, e) = <<Raises, e>>
    <3>1. /\ Append(<<Raises>>, e) \in Seq(S) /\ Len(Append(<<Raises>>, e)) = 2
          /\ Append(<<Raises>>, e)[1] = Raises /\ Append(<<Raises>>, e)[2] = e
      <4>1. Len(<<Raises>>) = 1 /\ <<Raises>>[1] = Raises
        OBVIOUS
      <4> QED BY <2>1, <4>1, AppendProperties
    <3>2. /\ <<Raises, e>> \in Seq(S) /\ Len(<<Raises, e>>) = 2
          /\ <<Raises, e>>[1] = Raises /\ <<Raises, e>>[2] = e
      OBVIOUS
    <3>3. \A i \in 1..2 : Append(<<Raises>>, e)[i] = <<Raises, e>>[i]
      BY <3>1, <3>2
    <3> QED BY <3>1, <3>2, <3>3, SeqEqual
  <2> QED BY <2>2, <2>3
<1>2. Len(<<e>>) = 1 /\ Len(<<Raises, e>>) = 2
  OBVIOUS
<1>3. Last(<<e>>) = e /\ Last(<<Raises, e>>) = e
  BY <1>2 DEF Last
<1>4. <<e>> # <<>> /\ <<Raises, e>> # <<>>
  OBVIOUS
<1> QED BY <1>1, <1>3, <1>4

LEMMA RunPathStep ==
  ASSUME RunsInv, NEW end \in Outcome, RunPath(end)
  PROVE  RunsInv' /\ (end # Interrupted => StatusInv')
<1>1. ran' = <<end>> /\ end \in End
  BY AppendToNone, ConstantsAssumption DEF RunPath, Running, RunsInv, BeforeRun
<1>2. CASE end = Raises
  BY <1>1, <1>2, AppendToNone
     DEF RunPath, Running, Goto, RunsInv, StatusInv, BeforeRun
<1>3. CASE end # Raises
  BY <1>1, <1>3, AppendToNone
     DEF RunPath, Running, Leave, Goto, RunsInv, StatusInv, BeforeRun
<1> QED BY <1>2, <1>3

LEMMA RunModuleStep ==
  ASSUME RunsInv, NEW end \in Outcome, RunModule(end) PROVE RunsInv' /\ StatusInv'
<1>1. end \in End /\ (ran' = <<end>> \/ ran' = <<Raises, end>>)
  BY AppendToNone, ConstantsAssumption DEF RunModule, Running, RunsInv
<1>2. at' = "leaving" /\ status' = end.code
  BY DEF RunModule, Leave, Goto
<1> QED BY <1>1, <1>2, AppendToNone DEF RunsInv, StatusInv, BeforeRun

LEMMA RunModuleFailsStep ==
  ASSUME RunsInv, RunModuleFails PROVE RunsInv' /\ StatusInv'
<1>1. /\ at' = "leaving" /\ status' = 1 /\ ran' = ran
      /\ ran = <<>> \/ ran = <<Raises>>
  BY DEF RunModuleFails, Running, Leave, Goto, RunsInv
<1>2. Last(<<Raises>>).code = 1
  <2>1. Last(<<Raises>>) = Raises
    BY AppendToNone
  <2> QED BY <2>1 DEF Raises
<1> QED BY <1>1, <1>2 DEF RunsInv, StatusInv, BeforeRun

LEMMA RunsStart == ASSUME Init PROVE RunsInv /\ StatusInv
BY DEF Init, RunsInv, StatusInv, BeforeRun

LEMMA RunsStep ==
  ASSUME RunsInv, [Next]_vars
  PROVE  RunsInv' /\ (Interrupted \notin Outcome /\ StatusInv => StatusInv')
<1>1. ASSUME NEW end \in Outcome, RunPath(end)
      PROVE  RunsInv' /\ (Interrupted \notin Outcome => StatusInv')
  BY <1>1, RunPathStep
<1>2. ASSUME NEW end \in Outcome, RunModule(end) PROVE RunsInv' /\ StatusInv'
  BY <1>2, RunModuleStep
<1>3. CASE RunModuleFails
  BY <1>3, RunModuleFailsStep
<1> QED BY <1>1, <1>2, <1>3, RunsElsewhere DEF Next, Steps, TargetEnds

(* The target's code is started a second time only if the first run raised  *)
(* an exception; never after it returned or called sys.exit, whatever its   *)
(* status.                                                                  *)
THEOREM NotRunAgainCorrect == Spec => []NotRunAgain
<1>1. RunsInv => NotRunAgain
  BY DEF RunsInv, NotRunAgain
<1> QED BY <1>1, RunsStart, RunsStep, PTL DEF Spec

(* The process ends with the status of the code it ran last, whether that   *)
(* returned, called sys.exit or raised, if KeyboardInterrupt did not end it *)
(* while it ran as a path.                                                  *)
THEOREM ExitMirrorsCorrect ==
  ASSUME Interrupted \notin Outcome PROVE Spec => []ExitMirrors
<1>1. StatusInv => ExitMirrors
  BY DEF StatusInv, ExitMirrors
<1>2. RunsInv /\ StatusInv /\ [Next]_vars => RunsInv' /\ StatusInv'
  BY RunsStep
<1> QED BY <1>1, <1>2, RunsStart, PTL DEF Spec

-----------------------------------------------------------------------------
(* Types                                                                    *)

LauncherInv ==
  /\ at \in Place
  /\ script_path \in ScriptPath /\ script_path \in Py!Path
  /\ world \in World
  /\ target \in Py!Path
  /\ sys_path \subseteq Seq(Name)
  /\ ran \in Seq(Outcome)

LEMMA PotentialIsPath == ASSUME target \in Py!Path, NEW name \in Name PROVE Potential(name) \in Py!Path
<1>1. <<name>> \in Seq(Py!Component)
  BY DEF Py!Component
<1> QED BY <1>1, SomePaths, StaysPath DEF Potential

LEMMA EndCodes == \A end \in End : end.code \in 0..255
<1> SUFFICES ASSUME NEW end \in End PROVE end.code \in 0..255
  OBVIOUS
<1>1. CASE end \in {Returns, Raises, Interrupted}
  BY <1>1 DEF Returns, Raises, Interrupted
<1>2. CASE \E n \in 0..255 : end = Exit(n)
  BY <1>2 DEF Exit
<1> QED BY <1>1, <1>2 DEF End

LEMMA StatusStep == ASSUME status \in 0..255, [Next]_vars PROVE status' \in 0..255
<1>1. CASE ContextStep \/ EndFunction \/ TargetCalls \/ UNCHANGED vars
  BY <1>1 DEF ContextStep, EndFunction, TargetCalls, vars, launcher
<1>2. CASE Call \/ ProcessExit \/ RunPathFails \/ FindEntry
  BY <1>2 DEF Call, ProcessExit, RunPathFails, FindEntry
<1>3. CASE InitRaises \/ IsDir \/ ScriptDir \/ RunModuleFails
  BY <1>3 DEF InitRaises, IsDir, ScriptDir, RunModuleFails, Leave
<1>4. ASSUME NEW end \in Outcome, RunPath(end) \/ RunModule(end) PROVE status' \in 0..255
  <2>1. status' \in {status, 0, end.code}
    BY <1>4 DEF RunPath, RunModule, Leave
  <2>2. end.code \in 0..255
    BY EndCodes, ConstantsAssumption
  <2> QED BY <2>1, <2>2
<1> QED BY <1>1, <1>2, <1>3, <1>4 DEF Next, Steps, TargetEnds

LEMMA LauncherStep == ASSUME LauncherInv, [Next]_vars PROVE LauncherInv'
<1>1. CASE ContextStep \/ EndFunction \/ TargetCalls \/ UNCHANGED vars
  <2>1. UNCHANGED launcher
    BY <1>1 DEF ContextStep, EndFunction, TargetCalls, vars
  <2> QED BY <2>1 DEF launcher, LauncherInv
<1>2. CASE Call \/ ProcessExit \/ InitRaises \/ IsDir \/ RunPathFails \/ RunModuleFails
  <2>1. at' \in Place /\ UNCHANGED <<script_path, world, target, sys_path, ran>>
    <3>1. CASE Call \/ ProcessExit \/ InitRaises \/ RunPathFails \/ RunModuleFails
      BY <3>1 DEF Call, ProcessExit, InitRaises, RunPathFails, RunModuleFails, Running, Leave,
                  Goto, Place
    <3>2. CASE IsDir
      BY <3>2 DEF IsDir, LookUp, Leave, Goto, Place
    <3> QED BY <1>2, <3>1, <3>2
  <2> QED BY <2>1 DEF LauncherInv
<1>3. CASE FindEntry
  <2>1. target' \in Py!Path
    BY <1>3, PotentialIsPath, ConstantsAssumption DEF FindEntry, LauncherInv
  <2>2. at' \in Place /\ UNCHANGED <<script_path, world, sys_path, ran>>
    BY <1>3 DEF FindEntry, LookUp, Goto, Place
  <2> QED BY <2>1, <2>2 DEF LauncherInv
<1>4. CASE ScriptDir
  <2>1. LocationOf(abspath(Cwd, dirname(target))) \in Seq(Name)
    <3>1. dirname(target) \in Py!Path
      BY StaysPath DEF LauncherInv
    <3>2. abspath(Cwd, dirname(target)) \in Py!Path
      BY <3>1, Absolutes, StaysPath, ConstantsAssumption DEF abspath
    <3> QED BY <3>2, LocationIs, ConstantsAssumption DEF LocationOf
  <2>2. at' \in Place /\ UNCHANGED <<script_path, world, target, ran>>
    BY <1>4 DEF ScriptDir, LookUp, Leave, Goto, Place
  <2>3. \/ sys_path' = sys_path
        \/ sys_path' = sys_path \cup {LocationOf(abspath(Cwd, dirname(target)))}
    BY <1>4 DEF ScriptDir
  <2> QED BY <2>1, <2>2, <2>3 DEF LauncherInv
<1>5. ASSUME NEW end \in Outcome, RunPath(end) \/ RunModule(end) PROVE LauncherInv'
  <2>1. /\ at' \in Place /\ ran' = Append(ran, end)
        /\ UNCHANGED <<script_path, world, target, sys_path>>
    BY <1>5 DEF RunPath, RunModule, Running, Leave, Goto, Place
  <2> QED BY <2>1, AppendProperties DEF LauncherInv
<1> QED BY <1>1, <1>2, <1>3, <1>4, <1>5 DEF Next, Steps, TargetEnds

(* Whatever the target and its entry points, the launcher goes on with a    *)
(* path, puts locations on sys.path, starts the target's code at most twice *)
(* and ends with a status that fits in a byte.                              *)
THEOREM TypeCorrect == Spec => []TypeOK
<1> DEFINE Inv == LauncherInv /\ status \in 0..255 /\ RunsInv
<1>1. Init => Inv
  <2>1. Init => LauncherInv
    BY EmptySeq, ConstantsAssumption DEF Init, LauncherInv, Place
  <2>2. Init => status \in 0..255
    BY DEF Init
  <2> QED BY <2>1, <2>2, RunsStart
<1>2. Inv /\ [Next]_vars => Inv'
  BY LauncherStep, StatusStep, RunsStep
<1>3. RunsInv => Len(ran) <= 2
  <2>1. /\ \A e \in End : Len(<<e>>) = 1 /\ Len(<<Raises, e>>) = 2
        /\ Len(<<>>) = 0
    OBVIOUS
  <2> SUFFICES ASSUME RunsInv PROVE Len(ran) <= 2
    OBVIOUS
  <2>2. Len(ran) \in {0, 1, 2}
    BY <2>1, Zenon DEF RunsInv
  <2>3. \A n \in {0, 1, 2} : n <= 2
    OBVIOUS
  <2> QED BY <2>2, <2>3, Zenon
<1>4. Decorator!TypeOK => Context!TypeOK
  BY DEF Decorator!TypeOK, Context!TypeOK, Decorator!Slot, Context!Slot, Decorator!Callable,
         Context!Callable, Decorator!Frame, Context!Frame, Decorator!Place, Context!Place
<1>5. Inv /\ Decorator!TypeOK => TypeOK
  BY <1>3, <1>4, Zenon DEF TypeOK, LauncherInv
<1> QED BY <1>1, <1>2, <1>5, DecoratorType, PTL DEF Spec

-----------------------------------------------------------------------------
(* The target is run                                                        *)

(* What PathRuns and StatOf say of an entry point: it is one component      *)
(* below the directory, and its directory is that one.                      *)
LEMMA PotentialIs ==
  ASSUME target \in Py!Path, target # Py!Empty, NEW name \in Name
  PROVE  /\ Potential(name).names # <<>> /\ Last(Potential(name).names) = name
         /\ LocationOf(dirname(Potential(name))) = LocationOf(target)
         /\ LocationOf(Potential(name)) # LocationOf(target)
         /\ dirname(Potential(name)) # Py!Empty
<1>1. /\ target.names \in Seq(Py!Component) /\ name \in Py!Component
      /\ <<name>> \in Seq(Py!Component) /\ <<name>> # <<>> /\ Cwd \in Seq(Name)
  BY PathFields, ConstantsAssumption DEF Py!Component
<1>2. PICK q \in Py!Path : /\ q = Py!Relative(<<name>>) /\ q # Py!Empty
                            /\ q.root = FALSE /\ q.slash = FALSE /\ q.names = <<name>>
  BY <1>1, SomePaths DEF Py!Relative, Py!Empty
<1>3. PICK p \in Py!Path : p = Potential(name) /\ p = join(target, q)
  BY <1>2, StaysPath DEF Potential
<1>4. p.root = target.root /\ p.slash = FALSE /\ p.names = Append(target.names, name)
  <2>1. p.root = target.root /\ p.slash = q.slash /\ p.names = target.names \o q.names
    <3>1. ~q.root /\ q # Py!Empty
      BY <1>2
    <3>2. /\ join(target, q).root = target.root /\ join(target, q).slash = q.slash
          /\ join(target, q).names = target.names \o q.names
      BY <3>1, Joined, Zenon
    <3> QED BY <1>3, <3>2, Zenon
  <2>2. target.names \o <<name>> = Append(target.names, name)
    BY <1>1, AppendIsConcat
  <2> QED BY <1>2, <2>1, <2>2, Zenon
<1>5. /\ p.names # <<>> /\ Last(p.names) = name /\ Front(p.names) = target.names
  BY <1>1, <1>4, AppendLast
<1>6. PICK d \in Py!Path : d = dirname(p)
  BY StaysPath
<1>7. d.root = target.root /\ d.names = target.names
  BY <1>4, <1>5, <1>6, DirnameIs
<1>8. LocationOf(d) = LocationOf(target)
  BY <1>1, <1>7, LocationIs DEF LocationOf
<1>9. d # Py!Empty
  BY <1>7, PathFields
<1>10. LocationOf(p) # LocationOf(target)
  <2>1. PICK loc \in Seq(Name) : loc = LocationOf(target)
    BY <1>1, LocationIs DEF LocationOf
  <2>2. LocationOf(p) = Py!LocationOf(loc, q)
    BY <1>1, <1>2, <1>3, <2>1, JoinLeadsThere DEF LocationOf
  <2>3. PICK longer \in Seq(Name) : longer = Append(loc, name) /\ longer = loc \o <<name>>
    BY <2>1, AppendProperties, AppendIsConcat
  <2>4. Py!LocationOf(loc, q) = longer
    <3>1. Py!LocationOf(loc, q) = Py!Collapse(loc \o q.names, TRUE)
      BY <1>2, <2>1, LocationIs
    <3>2. Py!Collapse(longer, TRUE) = longer
      BY CollapseNames
    <3> QED BY <1>2, <2>3, <3>1, <3>2, Zenon
  <2>5. longer # loc
    BY <2>1, <2>3, AppendProperties, LenProperties
  <2> QED BY <2>1, <2>2, <2>4, <2>5, Zenon
<1> QED BY <1>3, <1>5, <1>6, <1>8, <1>9, <1>10, Zenon

(* A target that the launcher runs.                                         *)
Findable == ~LookUpRaises /\ Runnable

(* Why: the look-up leaves a path that runs, or the module can be imported; *)
(* and a function that was left without a run had not been entered, with    *)
(* nothing registered.                                                      *)
FoundInv ==
  /\ world.kind # "dir" => world.entries = {}
  /\ at \in {"call", "isdir", "entries"} => target = script_path
  /\ Findable =>
       /\ at \in {"script_dir", "run_path"} => PathRuns \/ world.importable
       /\ at = "script_dir" => dirname(target) # Py!Empty
       /\ at = "run_module" /\ ran = <<>> => world.importable
       /\ at \in {"leaving", "ended"} /\ ran = <<>> => ~registered /\ stack[main] = <<>>

(* The call of the launcher is the only one while it is looked up.          *)
FirstCallInv ==
  /\ at = "call" => stack[main] = <<>>
  /\ at = "isdir" => Len(stack[main]) = 1 /\ ~Decorator!At(main, "restore")

(* The teardown is registered after the library is initialised.             *)
RegisteredInv == registered => libcapio_initialized \/ exited

LEMMA RegisteredStep ==
  ASSUME Decorator!TypeOK, Decorator!PastInitInv, RegisteredInv,
         [Decorator!Next]_(Decorator!vars)
  PROVE  RegisteredInv'
<1>1. CASE Decorator!ThreadNext(main)
  <2>1. CASE Decorator!AtexitRegister(main)
    <3>1. Decorator!Inside(main) /\ Decorator!Top(main).at = "register"
      BY <2>1 DEF Decorator!AtexitRegister, Decorator!At
    <3>2. /\ Len(stack[main]) \in Nat \ {0}
          /\ stack[main][Len(stack[main])].at = "register"
      BY <3>1, DecoratorConstants, Decorator!TopIsFrame DEF Decorator!Top
    <3>3. libcapio_initialized
      BY <3>2 DEF Decorator!PastInitInv
    <3> QED BY <2>1, <3>3 DEF Decorator!AtexitRegister, RegisteredInv
  <2>2. CASE ~Decorator!AtexitRegister(main)
    BY <1>1, <2>2
       DEF RegisteredInv, Decorator!ThreadNext, Decorator!WrapperStep, Decorator!Call,
           Decorator!TestFlag, Decorator!SetDir, Decorator!PycapioInit,
           Decorator!PycapioInitRaises, Decorator!SetFlag, Decorator!dump_context,
           Decorator!patch_context, Decorator!restore_context, Decorator!EndBody,
           Decorator!Interrupt, Decorator!pycapio_teardown, Decorator!globals
  <2> QED BY <2>1, <2>2
<1>2. CASE Decorator!ProcessExit
  BY <1>2 DEF RegisteredInv, Decorator!ProcessExit
<1>3. CASE UNCHANGED Decorator!vars
  BY <1>3 DEF RegisteredInv, Decorator!vars
<1> QED BY <1>1, <1>2, <1>3 DEF Decorator!Next

LEMMA SameSteps ==
  /\ Context!WrapperStep(main) => Decorator!WrapperStep(main)
  /\ \A dir : Context!Call(main, dir) => Decorator!Call(main, dir)
  /\ Context!PycapioInitRaises(main) => Decorator!PycapioInitRaises(main)
BY DEF Context!WrapperStep, Context!Call, Context!TestFlag, Context!SetDir,
       Context!PycapioInit, Context!PycapioInitRaises, Context!SetFlag,
       Context!AtexitRegister, Context!dump_context, Context!patch_context,
       Context!restore_context, Context!PublishDir, Context!NextSlot, Context!MoveTo,
       Context!SetTop, Context!Pop, Context!Top, Context!At, Context!Inside,
       Context!NewFrame, Context!Slot, Context!globals,
       Decorator!WrapperStep, Decorator!Call, Decorator!TestFlag, Decorator!SetDir,
       Decorator!PycapioInit, Decorator!PycapioInitRaises, Decorator!SetFlag,
       Decorator!AtexitRegister, Decorator!dump_context, Decorator!patch_context,
       Decorator!restore_context, Decorator!PublishDir, Decorator!NextSlot,
       Decorator!MoveTo, Decorator!SetTop, Decorator!Pop, Decorator!Top, Decorator!At,
       Decorator!Inside, Decorator!NewFrame, Decorator!Slot, Decorator!globals

LEMMA FirstCallStep ==
  ASSUME Decorator!TypeOK, FirstCallInv, [Next]_vars PROVE FirstCallInv'
<1>1. CASE Call
  <2>1. stack[main] = <<>> /\ at' = "isdir" /\ Decorator!Call(main, capio_dir)
    BY <1>1, SameSteps DEF Call, Goto, FirstCallInv
  <2>2. /\ Len(stack'[main]) = Len(stack[main]) + 1
        /\ stack'[main][Len(stack[main]) + 1] = Decorator!NewFrame(capio_dir)
    BY <2>1, DecoratorConstants, Decorator!CallEffect
  <2>3. Len(stack'[main]) = 1 /\ stack'[main][1].at = "test"
    BY <2>1, <2>2 DEF Decorator!NewFrame
  <2> QED BY <2>1, <2>3 DEF FirstCallInv, Decorator!At, Decorator!Top
<1>2. CASE ContextStep
  <2>1. at' = at /\ Decorator!WrapperStep(main)
    BY <1>2, SameSteps DEF ContextStep, launcher
  <2>2. CASE at = "isdir"
    BY <2>1, <2>2, DecoratorConstants, Decorator!WrapperStays DEF FirstCallInv
  <2>3. CASE at = "call"
    BY <2>1, <2>3
       DEF FirstCallInv, Decorator!WrapperStep, Decorator!TestFlag, Decorator!SetDir,
           Decorator!PycapioInit, Decorator!SetFlag, Decorator!AtexitRegister,
           Decorator!dump_context, Decorator!patch_context, Decorator!restore_context,
           Decorator!At, Decorator!Inside
  <2> QED BY <2>1, <2>2, <2>3 DEF FirstCallInv
<1>3. CASE InitRaises \/ IsDir \/ FindEntry \/ ScriptDir \/ TargetEnds \/ ProcessExit
  <2>1. at' \notin {"call", "isdir"}
    BY <1>3
       DEF InitRaises, IsDir, FindEntry, ScriptDir, TargetEnds, RunPath, RunPathFails,
           RunModule, RunModuleFails, ProcessExit, LookUp, Leave, Goto
  <2> QED BY <2>1 DEF FirstCallInv
<1>4. CASE EndFunction \/ TargetCalls
  BY <1>4 DEF EndFunction, TargetCalls, TargetRunning, launcher, FirstCallInv
<1>5. CASE UNCHANGED vars
  BY <1>5 DEF vars, context, launcher, FirstCallInv, Decorator!At, Decorator!Inside,
              Decorator!Top
<1> QED BY <1>1, <1>2, <1>3, <1>4, <1>5 DEF Next, Steps

(* The look-up of a target, from its directory or as it is.                 *)
LEMMA LookUpFinds ==
  ASSUME LauncherInv, FoundInv, target = script_path, target # Py!Empty
  PROVE  /\ ~isdir(StatOf(target)) => PathRuns
         /\ world.entries # {} => isdir(StatOf(target))
         /\ \A name \in Entry :
              exists(StatOf(Potential(name))) <=> name \in world.entries /\ world.known
         /\ \A name \in world.entries :
              /\ ThereAt(Potential(name)) = "file"
              /\ dirname(Potential(name)) # Py!Empty
         /\ world.entries \subseteq Entry
         /\ Runnable =>
              PathRuns \/ world.importable \/ ("main.py" \in world.entries /\ world.known)
<1>1. /\ world.kind \in {"none", "file", "dir"} /\ world.entries \subseteq Entry
      /\ world.known \in BOOLEAN /\ target \in Py!Path
      /\ Entry \subseteq Name
  BY ConstantsAssumption DEF LauncherInv, World, Entry
<1>2. ThereAt(target) = world.kind
  BY DEF ThereAt
<1>3. ~isdir(StatOf(target)) => PathRuns
  BY <1>1, <1>2 DEF isdir, isfile, StatOf, libcapio_stat, PathRuns
<1>4. world.entries # {} => isdir(StatOf(target))
  BY <1>1, <1>2 DEF isdir, isfile, StatOf, libcapio_stat, FoundInv
<1>5. ASSUME NEW name \in Entry
      PROVE  /\ ThereAt(Potential(name)) = IF name \in world.entries THEN "file" ELSE "none"
             /\ dirname(Potential(name)) # Py!Empty
  <2>1. /\ Potential(name).names # <<>> /\ Last(Potential(name).names) = name
        /\ LocationOf(dirname(Potential(name))) = LocationOf(target)
        /\ LocationOf(Potential(name)) # LocationOf(target)
        /\ dirname(Potential(name)) # Py!Empty
    BY <1>1, PotentialIs
  <2> QED BY <2>1 DEF ThereAt
<1>6. ASSUME NEW name \in Entry
      PROVE  exists(StatOf(Potential(name))) <=> name \in world.entries /\ world.known
  BY <1>1, <1>5 DEF exists, StatOf, libcapio_stat
<1>7. Runnable =>
        PathRuns \/ world.importable \/ ("main.py" \in world.entries /\ world.known)
  <2>1. CASE world.kind = "file"
    BY <1>2, <2>1 DEF PathRuns
  <2>2. CASE "__main__.py" \in world.entries
    <3>1. world.kind = "dir"
      BY <2>2 DEF FoundInv
    <3> QED BY <1>2, <2>2, <3>1 DEF PathRuns
  <2> QED BY <2>1, <2>2 DEF Runnable
<1> QED BY <1>1, <1>3, <1>4, <1>5, <1>6, <1>7

(* What the steps of the launcher leave alone.                              *)
LEMMA SameTarget ==
  ASSUME [Next]_vars
  PROVE  /\ UNCHANGED <<script_path, world>>
         /\ LookUpRaises' = LookUpRaises /\ Runnable' = Runnable /\ Findable' = Findable
         /\ UNCHANGED target => PathRuns' = PathRuns
<1>1. UNCHANGED <<script_path, world>>
  BY DEF Next, Steps, Call, ContextStep, EndFunction, InitRaises, ProcessExit, IsDir, FindEntry,
         ScriptDir, TargetEnds, TargetCalls, RunPath, RunPathFails, RunModule, RunModuleFails,
         LookUp, Running, launcher, vars
<1>2. LookUpRaises' = LookUpRaises /\ Runnable' = Runnable
  BY <1>1 DEF LookUpRaises, Runnable, Inside, LocationOf
<1>3. UNCHANGED target => PathRuns' = PathRuns
  BY <1>1 DEF PathRuns, ThereAt, LocationOf
<1> QED BY <1>1, <1>2, <1>3 DEF Findable

LEMMA FoundStep ==
  ASSUME LauncherInv, FoundInv, FirstCallInv, RegisteredInv, ExitedInv,
         Decorator!TypeOK, script_path # Py!Empty, [Next]_vars
  PROVE  FoundInv'
<1>1. UNCHANGED <<script_path, world>>
  BY SameTarget
<1>2. Findable' = Findable
  BY SameTarget
<1>3. ASSUME UNCHANGED target PROVE PathRuns' = PathRuns
  BY <1>3, SameTarget
<1>4. CASE Call
  BY <1>1, <1>4 DEF Call, Goto, FoundInv
<1>5. CASE ContextStep
  <2>1. stack[main] # <<>> /\ UNCHANGED launcher
    BY <1>5, SameSteps
       DEF ContextStep, Decorator!WrapperStep, Decorator!TestFlag, Decorator!SetDir,
           Decorator!PycapioInit, Decorator!SetFlag, Decorator!AtexitRegister,
           Decorator!dump_context, Decorator!patch_context, Decorator!restore_context,
           Decorator!At, Decorator!Inside
  <2> QED BY <1>1, <1>2, <1>3, <2>1 DEF launcher, FoundInv
<1>6. CASE EndFunction
  <2>1. stack[main] # <<>> /\ UNCHANGED launcher
    BY <1>6 DEF EndFunction, InFunction, Context!At, Context!Inside
  <2> QED BY <1>1, <1>2, <1>3, <2>1 DEF launcher, FoundInv
<1>7. CASE TargetCalls
  <2>1. at \in {"run_path", "run_module"} /\ UNCHANGED launcher
    BY <1>7 DEF TargetCalls, TargetRunning
  <2> QED BY <1>1, <1>2, <1>3, <2>1 DEF launcher, FoundInv
<1>8. CASE InitRaises
  <2>1. /\ at = "isdir" /\ at' = "leaving" /\ UNCHANGED <<target, ran>>
        /\ Decorator!PycapioInitRaises(main)
    BY <1>8, SameSteps DEF InitRaises, Leave, Goto
  <2>2. /\ Decorator!Inside(main) /\ ~libcapio_initialized /\ Decorator!Pop(main)
        /\ registered' = registered
    BY <2>1 DEF Decorator!PycapioInitRaises, Decorator!At
  <2>3. ~registered
    BY <2>2 DEF RegisteredInv, ExitedInv, Decorator!Inside
  <2>4. stack'[main] = <<>>
    <3>1. /\ stack' \in [{main} -> Seq(Decorator!Frame)]
          /\ Len(stack'[main]) = Len(stack[main]) - 1
      BY <2>2, DecoratorConstants, Decorator!PopEffect
    <3>2. stack'[main] \in Seq(Decorator!Frame) /\ Len(stack'[main]) = 0
      BY <2>1, <3>1 DEF FirstCallInv
    <3> QED BY <3>2, EmptySeq
  <2> QED BY <1>1, <2>1, <2>2, <2>3, <2>4 DEF FoundInv
<1>9. CASE IsDir
  <2>1. at = "isdir" /\ target = script_path /\ UNCHANGED <<target, ran>>
    BY <1>9 DEF IsDir, LookUp, FoundInv
  <2>2. at' \in {"leaving", "entries", "script_dir"}
    BY <1>9 DEF IsDir, Leave, Goto
  <2>3. ASSUME Findable
        PROVE  at' = "entries" \/ (at' = "script_dir" /\ PathRuns /\ dirname(target) # Py!Empty)
    <3>1. Inside(target) /\ (dirname(target) = Py!Empty => world.entries # {})
      BY <2>1, <2>3 DEF Findable, LookUpRaises
    <3>2. /\ ~isdir(StatOf(target)) => PathRuns
          /\ world.entries # {} => isdir(StatOf(target))
      BY <2>1, LookUpFinds
    <3> QED BY <1>9, <3>1, <3>2 DEF IsDir, Goto
  <2> QED BY <1>1, <1>2, <1>3, <2>1, <2>2, <2>3 DEF FoundInv
<1>10. CASE FindEntry
  <2>1. /\ at = "entries" /\ at' = "script_dir" /\ target = script_path
    BY <1>10 DEF FindEntry, LookUp, Goto, FoundInv
  <2>2. ASSUME Findable
        PROVE  (PathRuns \/ world.importable)' /\ dirname(target') # Py!Empty
    <3>1. ASSUME NEW name \in Entry, exists(StatOf(Potential(name))), target' = Potential(name)
          PROVE  PathRuns' /\ dirname(target') # Py!Empty
      <4>1. ThereAt(Potential(name)) = "file" /\ dirname(Potential(name)) # Py!Empty
        BY <2>1, <3>1, LookUpFinds
      <4>2. ThereAt(target)' = "file"
        BY <1>1, <3>1, <4>1 DEF ThereAt, LocationOf
      <4> QED BY <3>1, <4>1, <4>2 DEF PathRuns
    <3>2. ASSUME target' = target, \A name \in Entry : ~exists(StatOf(Potential(name)))
          PROVE  (PathRuns \/ world.importable)' /\ dirname(target') # Py!Empty
      <4>1. ~(world.known /\ world.entries # {})
        BY <2>1, <3>2, LookUpFinds
      <4>2. PathRuns \/ world.importable
        BY <2>1, <2>2, <4>1, LookUpFinds DEF Findable
      <4>3. dirname(target) # Py!Empty
        BY <2>1, <2>2, <4>1 DEF Findable, LookUpRaises
      <4> QED BY <1>1, <1>3, <3>2, <4>2, <4>3
    <3>3. \/ \E name \in Entry : exists(StatOf(Potential(name))) /\ target' = Potential(name)
          \/ target' = target /\ \A name \in Entry : ~exists(StatOf(Potential(name)))
      BY <1>10 DEF FindEntry, Entry
    <3> QED BY <3>1, <3>2, <3>3
  <2> QED BY <1>1, <1>2, <2>1, <2>2 DEF FoundInv
<1>11. CASE ScriptDir
  <2>1. at = "script_dir" /\ UNCHANGED <<target, ran>> /\ at' \in {"leaving", "run_path"}
    BY <1>11 DEF ScriptDir, LookUp, Leave, Goto
  <2>2. Findable => at' = "run_path"
    BY <1>11, <2>1 DEF ScriptDir, abspathThrows, Goto, FoundInv
  <2> QED BY <1>1, <1>2, <1>3, <2>1, <2>2 DEF FoundInv
<1>12. CASE TargetEnds
  <2>1. ASSUME NEW end \in Outcome, RunPath(end) \/ RunModule(end) PROVE FoundInv'
    <3>1. ran' # <<>> /\ at' \in {"run_module", "leaving"}
      BY <2>1, AppendProperties DEF RunPath, RunModule, Leave, Goto, LauncherInv
    <3> QED BY <1>1, <3>1 DEF FoundInv
  <2>2. CASE RunPathFails
    <3>1. at = "run_path" /\ at' = "run_module" /\ ~PathRuns
      BY <2>2 DEF RunPathFails, Running, Goto
    <3> QED BY <1>1, <1>2, <3>1 DEF FoundInv
  <2>3. CASE RunModuleFails
    <3>1. at = "run_module" /\ at' = "leaving" /\ ~world.importable /\ ran' = ran
      BY <2>3 DEF RunModuleFails, Running, Leave, Goto
    <3> QED BY <1>1, <1>2, <3>1 DEF FoundInv
  <2> QED BY <1>12, <2>1, <2>2, <2>3 DEF TargetEnds
<1>13. CASE ProcessExit
  <2>1. at = "leaving" /\ at' = "ended" /\ UNCHANGED <<ran, stack, registered>>
    BY <1>13 DEF ProcessExit, Context!ProcessExit, Goto
  <2> QED BY <1>1, <1>2, <2>1 DEF FoundInv
<1>14. CASE UNCHANGED vars
  <2>1. UNCHANGED <<at, target, ran, stack, registered>>
    BY <1>14 DEF vars, context, launcher
  <2> QED BY <1>1, <1>2, <1>3, <2>1 DEF FoundInv
<1> QED
  BY <1>4, <1>5, <1>6, <1>7, <1>8, <1>9, <1>10, <1>11, <1>12, <1>13, <1>14 DEF Next, Steps

(* The converse: what the launcher goes through before it runs anything.    *)
ReachedInv ==
  /\ at \in {"entries", "script_dir"} => Inside(script_path)
  /\ at \in {"script_dir", "run_path"} =>
       target = script_path \/ (world.known /\ world.entries # {})
  /\ at \in {"run_path", "run_module"} => ~LookUpRaises
  /\ ran # <<>> => Findable

LEMMA PathRunsIfRunnable ==
  ASSUME LauncherInv, ReachedInv, at = "run_path", PathRuns PROVE Runnable
<1>1. world.entries \subseteq {"__main__.py", "main.py"}
  BY DEF LauncherInv, World, Entry
<1>2. CASE target = script_path
  <2>1. ThereAt(target) = world.kind
    BY <1>2 DEF ThereAt
  <2> QED BY <2>1 DEF PathRuns, Runnable
<1>3. CASE world.known /\ world.entries # {}
  BY <1>1, <1>3 DEF Runnable
<1> QED BY <1>2, <1>3 DEF ReachedInv

LEMMA ReachedStep ==
  ASSUME LauncherInv, FoundInv, ReachedInv, script_path # Py!Empty, [Next]_vars
  PROVE  ReachedInv'
<1>1. /\ UNCHANGED <<script_path, world>> /\ Inside(script_path)' = Inside(script_path)
      /\ LookUpRaises' = LookUpRaises /\ Findable' = Findable
  BY SameTarget DEF Inside, LocationOf
<1>2. CASE ContextStep \/ EndFunction \/ TargetCalls \/ UNCHANGED vars
  <2>1. UNCHANGED launcher
    BY <1>2 DEF ContextStep, EndFunction, TargetCalls, vars
  <2> QED BY <1>1, <2>1 DEF launcher, ReachedInv
<1>3. CASE Call \/ ProcessExit \/ InitRaises \/ RunModuleFails
  <2>1. ran' = ran /\ at' \in {"isdir", "leaving", "ended"}
    BY <1>3 DEF Call, ProcessExit, InitRaises, RunModuleFails, Running, Leave, Goto
  <2> QED BY <1>1, <2>1 DEF ReachedInv
<1>4. CASE IsDir
  <2>1. at = "isdir" /\ target = script_path /\ UNCHANGED <<target, ran>>
    BY <1>4 DEF IsDir, LookUp, FoundInv
  <2>2. \/ at' = "leaving"
        \/ at' \in {"entries", "script_dir"} /\ Inside(target)
    BY <1>4 DEF IsDir, Leave, Goto
  <2> QED BY <1>1, <2>1, <2>2 DEF ReachedInv
<1>5. CASE FindEntry
  <2>1. at = "entries" /\ at' = "script_dir" /\ target = script_path /\ ran' = ran
    BY <1>5 DEF FindEntry, LookUp, Goto, FoundInv
  <2>2. target' = script_path \/ (world.known /\ world.entries # {})
    <3>1. \/ target' = target
          \/ \E name \in Entry : exists(StatOf(Potential(name)))
      BY <1>5 DEF FindEntry, Entry
    <3>2. ASSUME NEW name \in Entry, exists(StatOf(Potential(name)))
          PROVE  world.known /\ world.entries # {}
      BY <2>1, <3>2, LookUpFinds
    <3> QED BY <2>1, <3>1, <3>2
  <2> QED BY <1>1, <2>1, <2>2 DEF ReachedInv
<1>6. CASE ScriptDir
  <2>1. at = "script_dir" /\ UNCHANGED <<target, ran>>
    BY <1>6 DEF ScriptDir, LookUp
  <2>2. at' = "leaving" \/ (at' = "run_path" /\ dirname(target) # Py!Empty)
    BY <1>6 DEF ScriptDir, abspathThrows, Leave, Goto
  <2>3. dirname(target) # Py!Empty => ~LookUpRaises
    BY <2>1 DEF ReachedInv, LookUpRaises
  <2> QED BY <1>1, <2>1, <2>2, <2>3 DEF ReachedInv
<1>7. CASE RunPathFails
  BY <1>1, <1>7 DEF RunPathFails, Running, Goto, ReachedInv
<1>8. ASSUME NEW end \in Outcome, RunPath(end) PROVE ReachedInv'
  <2>1. at = "run_path" /\ PathRuns /\ at' \in {"run_module", "leaving"}
    BY <1>8 DEF RunPath, Running, Leave, Goto
  <2>2. Findable
    BY <2>1, PathRunsIfRunnable DEF ReachedInv, Findable
  <2> QED BY <1>1, <2>1, <2>2 DEF ReachedInv, Findable
<1>9. ASSUME NEW end \in Outcome, RunModule(end) PROVE ReachedInv'
  <2>1. at = "run_module" /\ world.importable /\ at' = "leaving"
    BY <1>9 DEF RunModule, Running, Leave, Goto
  <2>2. Findable
    BY <2>1 DEF ReachedInv, Findable, Runnable
  <2> QED BY <1>1, <2>1, <2>2 DEF ReachedInv
<1> QED
  BY <1>2, <1>3, <1>4, <1>5, <1>6, <1>7, <1>8, <1>9 DEF Next, Steps, TargetEnds

(* A launcher that got past the initialisation of CAPIO runs the target's   *)
(* code if and only if there is something to run and the look-up does not   *)
(* raise, whatever slashes and dots the target is written with, whichever   *)
(* of the entry points it has, and whether CAPIO knows of it or not: only   *)
(* the empty string is left out. So a file written without a directory part *)
(* never runs.                                                              *)
THEOREM TargetRunsCorrect ==
  ASSUME Py!Empty \notin ScriptPath PROVE Spec => []TargetRuns
<1> DEFINE Inv == LauncherInv /\ FoundInv /\ FirstCallInv /\ ReachedInv
<1>1. Spec => []Decorator!PastInitInv
  <2>1. Decorator!Init => Decorator!PastInitInv
    BY DEF Decorator!Init, Decorator!PastInitInv
  <2>2. /\ Decorator!TypeOK /\ Decorator!PastInitInv /\ [Decorator!Next]_(Decorator!vars)
        => Decorator!PastInitInv'
    BY DecoratorConstants, Decorator!PastInitStep
  <2> QED BY <2>1, <2>2, DecoratorType, Refinement, PTL DEF Decorator!Spec
<1>2. Spec => []RegisteredInv
  <2>1. Decorator!Init => RegisteredInv
    BY DEF Decorator!Init, RegisteredInv
  <2> QED BY <1>1, <2>1, RegisteredStep, DecoratorType, Refinement, PTL DEF Decorator!Spec
<1>3. Init => Inv
  <2>1. Init => LauncherInv
    BY EmptySeq, ConstantsAssumption DEF Init, LauncherInv, Place
  <2>2. Init => FoundInv /\ FirstCallInv /\ ReachedInv
    BY DEF Init, Context!Init, FoundInv, FirstCallInv, ReachedInv
  <2> QED BY <2>1, <2>2
<1>4. /\ Inv /\ RegisteredInv /\ ExitedInv /\ Decorator!TypeOK /\ [Next]_vars
      => Inv'
  <2>1. LauncherInv => script_path # Py!Empty
    BY DEF LauncherInv
  <2> QED BY <2>1, LauncherStep, FoundStep, FirstCallStep, ReachedStep
<1>5. Inv => TargetRuns
  BY DEF FoundInv, ReachedInv, Findable, TargetRuns
<1> QED BY <1>2, <1>3, <1>4, <1>5, NothingAfterExit, DecoratorType, PTL DEF Spec
=============================================================================
