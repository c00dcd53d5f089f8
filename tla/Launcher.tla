------------------------------ MODULE Launcher ------------------------------
(***************************************************************************)
(* The command line "pycapio script" (pycapio/__main__.py): one process    *)
(* that calls a decorated function, in which the target is looked up       *)
(* through the replacement of os.path (OsPath), run as a path, and if that *)
(* fails run as a module. The decorator is CapioContext, of which this     *)
(* module is a client: the target may call decorated functions as well.    *)
(***************************************************************************)
EXTENDS OsPath

CONSTANTS
  main,        (* the thread of the process                                  *)
  capio_dir,   (* location given as --capio-dir, made absolute               *)
  NoDir,       (* no directory yet, see CapioContext                         *)
  SlotCount,   (* entry points replaced, see CapioContext                    *)
  MaxDepth,    (* bound on the nesting of decorated calls, this one included *)
  Cwd,         (* location the process works in                              *)
  ScriptPath,  (* paths given as script_path                                 *)
  Outcome      (* how the code of a target may end, a subset of End          *)

(* The target's code returns, calls sys.exit(n), raises, or gets            *)
(* KeyboardInterrupt.                                                       *)
Exit(n) == [how |-> "exit", code |-> n]
Returns == [how |-> "returns", code |-> 0]
Raises == [how |-> "raises", code |-> 1]
Interrupted == [how |-> "interrupted", code |-> 130]

End == {Returns, Raises, Interrupted} \cup {Exit(n) : n \in 0..255}

ASSUME ConstantsAssumption ==
  /\ {"__main__.py", "main.py"} \subseteq Name
  /\ capio_dir \in Seq(Name)
  /\ Cwd \in Seq(Name)
  /\ NoDir # capio_dir
  /\ SlotCount \in Nat \ {0}
  /\ MaxDepth \in Nat \ {0}
  /\ ScriptPath \subseteq Py!Path
  /\ Outcome \subseteq End

VARIABLES
  builtin, stack, py_capio_initialized, CAPIO_DIR, env_CAPIO_DIR,
  libcapio_initialized, registered, exited,  (* of CapioContext             *)
  at,           (* where _pycapio_launcher is, see Place                    *)
  script_path,  (* args.script_path                                         *)
  world,        (* what there is at script_path, see World                  *)
  target,       (* the local variable of that name                          *)
  sys_path,     (* locations the launcher added to sys.path                 *)
  ran,          (* how each run of the target's code ended: history         *)
  status        (* exit status of the process                               *)

Context ==
  INSTANCE CapioContext WITH
    Thread <- {main}, Interruptible <- {}, Dir <- {capio_dir}, Inherited <- {NoDir},
    InitMayFail <- TRUE, ExplicitTeardown <- FALSE

context == <<builtin, stack, py_capio_initialized, CAPIO_DIR, env_CAPIO_DIR,
             libcapio_initialized, registered, exited>>

launcher == <<at, script_path, world, target, sys_path, ran, status>>

vars == <<context, launcher>>

-----------------------------------------------------------------------------
(* isdir: in the call of the wrapper, or before it; leaving: the function   *)
(* has returned or raised.                                                  *)
Place == {"call", "isdir", "entries", "script_dir", "run_path", "run_module",
          "leaving", "ended"}

Entry == {"__main__.py", "main.py"}

(* kind of the file system's node at script_path, which entry points it has *)
(* if a directory, does CAPIO know of them, can it be imported by its name. *)
World == [kind : {"none", "file", "dir"}, entries : SUBSET Entry,
          known : BOOLEAN, importable : BOOLEAN]

LocationOf(p) == Py!LocationOf(Cwd, p)

Inside(p) == IsPrefix(capio_dir, LocationOf(p))

ThereAt(p) ==
  LET parent == LocationOf(dirname(p))
      name == IF p.names = <<>> THEN Dot ELSE Last(p.names)
  IN IF LocationOf(p) = LocationOf(script_path) THEN world.kind
     ELSE IF parent = LocationOf(script_path) /\ name \in world.entries THEN "file"
     ELSE "none"

(* libcapio_stat of p: it raises outside of the CAPIO directory.            *)
StatOf(p) ==
  libcapio_stat([kind |-> IF world.known THEN ThereAt(p) ELSE "none", size |-> 0], FALSE)

(* The launcher's own code runs: its call is the only one, and is in func.  *)
InFunction == Context!At(main, "body") /\ Len(stack[main]) = 1

Goto(place) == at' = place

Init ==
  /\ Context!Init
  /\ at = "call"
  /\ script_path \in ScriptPath
  /\ world \in World
  /\ world.kind # "dir" => world.entries = {}
  /\ target = script_path
  /\ sys_path = {}
  /\ ran = <<>>
  /\ status = 0

(* The function ends; code is the status if nothing else happens.           *)
Leave(code) == Goto("leaving") /\ status' = code
-----------------------------------------------------------------------------
(* Around the function                                                      *)

(* main() calls the decorated function.                                     *)
Call ==
  /\ at = "call"
  /\ Context!Call(main, capio_dir)
  /\ Goto("isdir")
  /\ UNCHANGED <<script_path, world, target, sys_path, ran, status>>

(* A step of the wrapper of the launcher, or of the calls of the target.    *)
ContextStep ==
  /\ Context!WrapperStep(main)
  /\ UNCHANGED launcher

(* pycapio_init raises: a traceback, and the function is not called.        *)
InitRaises ==
  /\ at = "isdir"
  /\ Context!PycapioInitRaises(main)
  /\ Leave(1)
  /\ UNCHANGED <<script_path, world, target, sys_path, ran>>

EndFunction ==
  /\ at = "leaving"
  /\ InFunction
  /\ Context!EndBody(main)
  /\ UNCHANGED launcher

(* The interpreter ends; atexit runs the teardown.                          *)
ProcessExit ==
  /\ at = "leaving"
  /\ Context!ProcessExit
  /\ Goto("ended")
  /\ UNCHANGED <<script_path, world, target, sys_path, ran, status>>

-----------------------------------------------------------------------------
(* _pycapio_launcher                                                        *)

LookUp(place) == at = place /\ InFunction /\ UNCHANGED <<context, script_path, world, ran>>

(* os.path.isdir(target): an exception of libcapio_stat is not caught.      *)
IsDir ==
  /\ LookUp("isdir")
  /\ UNCHANGED <<target, sys_path>>
  /\ IF ~Inside(target) THEN Leave(1)
     ELSE /\ Goto(IF isdir(StatOf(target)) THEN "entries" ELSE "script_dir")
          /\ UNCHANGED status

Potential(name) == join(target, Py!Relative(<<name>>))

(* Mutant: only the entry point that Python knows.                          *)
FindEntryMainOnly ==
  /\ LookUp("entries")
  /\ target' = IF exists(StatOf(Potential("__main__.py"))) THEN Potential("__main__.py")
               ELSE target
  /\ Goto("script_dir")
  /\ UNCHANGED <<sys_path, status>>

(* Mutant: the loop over the entry points has no end but the break.         *)
FindEntryUntilFound ==
  /\ LookUp("entries")
  /\ UNCHANGED <<sys_path, status>>
  /\ IF exists(StatOf(Potential("__main__.py")))
       THEN target' = Potential("__main__.py") /\ Goto("script_dir")
       ELSE UNCHANGED <<target, at>>

(* The loop over the entry points: the first one that is there, if any.     *)
FindEntry ==
  /\ LookUp("entries")
  /\ target' = IF exists(StatOf(Potential("__main__.py"))) THEN Potential("__main__.py")
               ELSE IF exists(StatOf(Potential("main.py"))) THEN Potential("main.py")
               ELSE target
  /\ Goto("script_dir")
  /\ UNCHANGED <<sys_path, status>>

(* abspath(dirname(target)), before the try: it throws if there is no       *)
(* directory part.                                                          *)
ScriptDir ==
  /\ LookUp("script_dir")
  /\ UNCHANGED target
  /\ IF abspathThrows(dirname(target))
       THEN Leave(1) /\ UNCHANGED sys_path
       ELSE /\ sys_path' = sys_path \cup {LocationOf(abspath(Cwd, dirname(target)))}
            /\ Goto("run_path")
            /\ UNCHANGED status

(* runpy.run_path executes a file, or the __main__.py of a directory.       *)
PathRuns ==
  ThereAt(target) = "file" \/ (ThereAt(target) = "dir" /\ "__main__.py" \in world.entries)

(* The target's own code is being executed.                                 *)
TargetRunning ==
  (at = "run_path" /\ PathRuns) \/ (at = "run_module" /\ world.importable)

(* What follows an end of the code: SystemExit is passed on, and so is      *)
(* KeyboardInterrupt, which has no attribute code.                          *)
Running(place) ==
  /\ at = place
  /\ InFunction
  /\ UNCHANGED <<context, script_path, world, target, sys_path>>

(* Mutant: every exception, SystemExit too, goes on to the module.          *)
RunPathTriesAgain(end) ==
  /\ Running("run_path")
  /\ PathRuns
  /\ ran' = Append(ran, end)
  /\ IF end = Returns THEN Leave(0) ELSE Goto("run_module") /\ UNCHANGED status

RunPath(end) ==
  /\ Running("run_path")
  /\ PathRuns
  /\ ran' = Append(ran, end)
  /\ IF end = Raises THEN Goto("run_module") /\ UNCHANGED status
     ELSE Leave(IF end = Interrupted THEN 0 ELSE end.code)

(* Nothing to run at the path: an exception as well.                        *)
RunPathFails ==
  /\ Running("run_path")
  /\ ~PathRuns
  /\ Goto("run_module")
  /\ UNCHANGED <<ran, status>>

(* Mutant: the failure of the module is printed, and nothing more.          *)
RunModuleFailsQuietly ==
  /\ Running("run_module")
  /\ ~world.importable
  /\ Leave(0)
  /\ UNCHANGED ran

(* Only SystemExit and Exception are caught: KeyboardInterrupt ends in a    *)
(* traceback of its own.                                                    *)
RunModule(end) ==
  /\ Running("run_module")
  /\ world.importable
  /\ ran' = Append(ran, end)
  /\ Leave(end.code)

(* Mutant: what could not be imported is looked up again.                   *)
RunModuleFailsRetries ==
  /\ Running("run_module")
  /\ ~world.importable
  /\ Goto("run_path")
  /\ UNCHANGED <<ran, status>>

RunModuleFails ==
  /\ Running("run_module")
  /\ ~world.importable
  /\ Leave(1)
  /\ UNCHANGED ran

TargetEnds ==
  \/ \E end \in Outcome : RunPath(end) \/ RunModule(end)
  \/ RunPathFails
  \/ RunModuleFails

(* The code of the target calls a decorated function, or leaves it.         *)
TargetCalls ==
  /\ TargetRunning
  /\ \/ Context!Call(main, capio_dir)
     \/ ~InFunction /\ Context!EndBody(main)
  /\ UNCHANGED launcher

Steps ==
  \/ Call
  \/ ContextStep
  \/ EndFunction
  \/ ProcessExit
  \/ IsDir
  \/ FindEntry
  \/ ScriptDir
  \/ TargetEnds

Next == Steps \/ InitRaises \/ TargetCalls

Spec == Init /\ [][Next]_vars

(* The interpreter goes on, and the target's code ends, also if it calls    *)
(* decorated functions again and again before.                              *)
Fairness == WF_vars(Steps) /\ WF_vars(TargetCalls) /\ SF_vars(TargetEnds)

FairSpec == Spec /\ Fairness

-----------------------------------------------------------------------------
(* Properties                                                               *)

(* Every variable stays in its range; the path that the launcher goes on    *)
(* with is one, and the target's code is started at most twice.             *)
TypeOK ==
  /\ Context!TypeOK
  /\ at \in Place
  /\ script_path \in ScriptPath
  /\ world \in World
  /\ target \in Py!Path
  /\ sys_path \subseteq Seq(Name)
  /\ ran \in Seq(Outcome) /\ Len(ran) <= 2
  /\ status \in 0..255

(* The target's own code runs with every entry point replaced, the library  *)
(* initialised and the directory of the command line, also after decorated  *)
(* functions it has called itself ("*every* I/O operation performed by that *)
(* program is transparently intercepted by CAPIO").                         *)
UnderProxies ==
  TargetRunning /\ InFunction =>
    /\ \A s \in DOMAIN builtin : builtin[s] = "proxy"
    /\ libcapio_initialized
    /\ CAPIO_DIR = capio_dir

(* However the target ends, the process ends with the originals back in     *)
(* place and CAPIO torn down.                                               *)
CleanExit ==
  exited => /\ \A s \in DOMAIN builtin : builtin[s] = "original"
            /\ ~libcapio_initialized

(* "The process exit code mirrors the target's exit status": that of its    *)
(* last run. What KeyboardInterrupt does to a script is left to Outcome.    *)
ExitMirrors ==
  at = "ended" /\ ran # <<>> => status = Last(ran).code

(* Code that came to its end, by itself or through sys.exit, is not started *)
(* a second time: only an exception leads from the path to the module.      *)
NotRunAgain ==
  Len(ran) = 2 => ran[1] = Raises

(* The look-up ends in an exception, which ends the launcher: os.path does  *)
(* not answer outside of the CAPIO directory, and a target without a        *)
(* directory part has no script_dir unless an entry point is put behind it. *)
LookUpRaises ==
  \/ ~Inside(script_path)
  \/ dirname(script_path) = Py!Empty /\ ~(world.known /\ world.entries # {})

(* There is something that runs: a file, a directory with an entry point    *)
(* that Python or the launcher finds, a module.                             *)
Runnable ==
  \/ world.kind = "file"
  \/ "__main__.py" \in world.entries
  \/ "main.py" \in world.entries /\ world.known
  \/ world.importable

(* Past the initialisation of CAPIO the target's code is run if and only if *)
(* it can be and its look-up does not raise. The "my_step.py" of the usage  *)
(* (__main__.py:12), a file without a directory part, is never run.         *)
TargetRuns ==
  at = "ended" /\ registered => (ran # <<>> <=> ~LookUpRaises /\ Runnable)

(* If the target's code ends the process does, with whatever status.        *)
LauncherEnds == <>(at = "ended")
=============================================================================
