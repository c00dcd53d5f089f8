---------------------------- MODULE CapioContext ----------------------------
(***************************************************************************)
(* The CapioContext decorator of pycapio/__init__.py: the threads of one   *)
(* Python process calling decorated functions, possibly nested, each call  *)
(* replacing the built-in I/O entry points and putting them back.          *)
(*                                                                         *)
(* The interpreter may switch threads, or raise KeyboardInterrupt in the   *)
(* main one, between any two accesses to a global or a module attribute:   *)
(* each access is an action. A call into the extension holds the GIL and   *)
(* is one action.                                                          *)
(***************************************************************************)
EXTENDS Integers, Sequences

CONSTANTS
  Thread,             (* threads of the process                              *)
  Interruptible,      (* those that may get KeyboardInterrupt: the main one  *)
  Dir,                (* absolute paths given as capio_dir                   *)
  NoDir,              (* None, or a variable absent from the environment     *)
  Inherited,          (* what the environment may have as CAPIO_DIR at first *)
  SlotCount,          (* entry points replaced: 7 in the code                *)
  MaxDepth,           (* bound on nested calls in one thread                 *)
  InitMayFail,        (* may pycapio_init raise                              *)
  ExplicitTeardown    (* do callers call pycapio_teardown themselves         *)

ASSUME ConstantsAssumption ==
  /\ Interruptible \subseteq Thread
  /\ NoDir \notin Dir
  /\ Inherited \subseteq Dir \cup {NoDir}
  /\ SlotCount \in Nat \ {0}
  /\ MaxDepth \in Nat \ {0}
  /\ InitMayFail \in BOOLEAN
  /\ ExplicitTeardown \in BOOLEAN

VARIABLES
  builtin,               (* what each entry point is bound to               *)
  stack,                 (* calls of the wrapper under way, per thread      *)
  py_capio_initialized,
  CAPIO_DIR,             (* the module global _CAPIO_DIR                    *)
  env_CAPIO_DIR,         (* the environment variable, read by CAPIO         *)
  libcapio_initialized,
  registered,            (* has atexit been given pycapio_teardown          *)
  exited

vars == <<builtin, stack, py_capio_initialized, CAPIO_DIR, env_CAPIO_DIR,
          libcapio_initialized, registered, exited>>

globals == <<py_capio_initialized, CAPIO_DIR, env_CAPIO_DIR,
             libcapio_initialized, registered, exited>>

-----------------------------------------------------------------------------
(* 1 builtins.open, 2 os.mkdir, 3 os.makedirs, 4 os.scandir, 5 io.open,     *)
(* 6 os.listdir, 7 os.path: the order in which all three functions go.      *)
Slot == 1..SlotCount

Callable == {"original", "proxy"}

(* Where a call of wrapper is: before each access to a global, inside       *)
(* _dump_context, _patch_context or _restore_context, or in func.           *)
Place == {"test", "set_dir", "init", "set_flag", "register",
          "dump", "patch", "body", "restore"}

(* slot is the next one to access; saved is the local variable context.     *)
Frame == [at : Place, dir : Dir, slot : Slot, saved : [Slot -> Callable]]

NewFrame(dir) ==
  [at |-> "test", dir |-> dir, slot |-> 1, saved |-> [s \in Slot |-> "original"]]

Inside(t) == stack[t] # <<>>

Top(t) == stack[t][Len(stack[t])]

At(t, place) == Inside(t) /\ Top(t).at = place

SetTop(t, frame) == stack' = [stack EXCEPT ![t][Len(stack[t])] = frame]

MoveTo(t, place) == SetTop(t, [Top(t) EXCEPT !.at = place, !.slot = 1])

(* The wrapper of t returns or raises: its caller goes on.                  *)
Pop(t) == stack' = [stack EXCEPT ![t] = SubSeq(@, 1, Len(@) - 1)]

(* Mutant: one slot too many.                                               *)
NextSlotTooFar(frame, place) ==
  IF frame.slot <= SlotCount
    THEN [frame EXCEPT !.slot = @ + 1]
    ELSE [frame EXCEPT !.at = place, !.slot = 1]

(* What follows the access to a slot: the next slot, or what is after.      *)
NextSlot(frame, place) ==
  IF frame.slot < SlotCount
    THEN [frame EXCEPT !.slot = @ + 1]
    ELSE [frame EXCEPT !.at = place, !.slot = 1]

Init ==
  /\ builtin = [s \in Slot |-> "original"]
  /\ stack = [t \in Thread |-> <<>>]
  /\ py_capio_initialized = FALSE
  /\ CAPIO_DIR = NoDir
  /\ env_CAPIO_DIR \in Inherited
  /\ libcapio_initialized = FALSE
  /\ registered = FALSE
  /\ exited = FALSE

-----------------------------------------------------------------------------
(* One call of the wrapper                                                  *)

(* A decorated function is called, by undecorated code or by the body of    *)
(* another decorated function.                                              *)
Call(t, dir) ==
  /\ ~exited
  /\ stack[t] = <<>> \/ At(t, "body")
  /\ Len(stack[t]) < MaxDepth
  /\ stack' = [stack EXCEPT ![t] = Append(@, NewFrame(dir))]
  /\ UNCHANGED <<builtin, globals>>

(* Mutant: every call installs its own directory, only the first inits.     *)
TestFlagAlwaysSetsDir(t) ==
  /\ At(t, "test")
  /\ MoveTo(t, "set_dir")
  /\ UNCHANGED <<builtin, globals>>

TestFlag(t) ==
  /\ At(t, "test")
  /\ MoveTo(t, IF py_capio_initialized THEN "dump" ELSE "set_dir")
  /\ UNCHANGED <<builtin, globals>>

(* Mutant: the flag is set before pycapio_init, not after.                  *)
SetDirSetsFlag(t) ==
  /\ At(t, "set_dir")
  /\ CAPIO_DIR' = Top(t).dir
  /\ py_capio_initialized' = TRUE
  /\ MoveTo(t, "init")
  /\ UNCHANGED <<builtin, env_CAPIO_DIR, libcapio_initialized, registered, exited>>

SetDir(t) ==
  /\ At(t, "set_dir")
  /\ CAPIO_DIR' = Top(t).dir
  /\ MoveTo(t, "init")
  /\ UNCHANGED <<builtin, py_capio_initialized, env_CAPIO_DIR,
                 libcapio_initialized, registered, exited>>

(* libcapio_init with CAPIO_DIR: sets the variable if the environment lacks *)
(* it, then does nothing more if already initialised.                       *)
PublishDir ==
  env_CAPIO_DIR' = IF env_CAPIO_DIR = NoDir THEN CAPIO_DIR ELSE env_CAPIO_DIR

PycapioInit(t) ==
  /\ At(t, "init")
  /\ PublishDir
  /\ libcapio_initialized' = TRUE
  /\ MoveTo(t, "set_flag")
  /\ UNCHANGED <<builtin, py_capio_initialized, CAPIO_DIR, registered, exited>>

(* Mutant: the failure resets _CAPIO_DIR.                                   *)
PycapioInitRaisesResets(t) ==
  /\ InitMayFail
  /\ At(t, "init")
  /\ ~libcapio_initialized
  /\ PublishDir
  /\ CAPIO_DIR' = NoDir
  /\ Pop(t)
  /\ UNCHANGED <<builtin, py_capio_initialized, libcapio_initialized, registered,
                 exited>>

(* The bootstrap of the server raises, after the environment was changed.   *)
PycapioInitRaises(t) ==
  /\ InitMayFail
  /\ At(t, "init")
  /\ ~libcapio_initialized
  /\ PublishDir
  /\ Pop(t)
  /\ UNCHANGED <<builtin, py_capio_initialized, CAPIO_DIR,
                 libcapio_initialized, registered, exited>>

SetFlag(t) ==
  /\ At(t, "set_flag")
  /\ py_capio_initialized' = TRUE
  /\ MoveTo(t, "register")
  /\ UNCHANGED <<builtin, CAPIO_DIR, env_CAPIO_DIR, libcapio_initialized,
                 registered, exited>>

(* Mutant: the teardown is not registered.                                  *)
AtexitRegisterNothing(t) ==
  /\ At(t, "register")
  /\ MoveTo(t, "dump")
  /\ UNCHANGED <<builtin, globals>>

AtexitRegister(t) ==
  /\ At(t, "register")
  /\ registered' = TRUE
  /\ MoveTo(t, "dump")
  /\ UNCHANGED <<builtin, py_capio_initialized, CAPIO_DIR, env_CAPIO_DIR,
                 libcapio_initialized, exited>>

(* Mutant: the snapshot is the one taken at import, whatever is installed.  *)
DumpAtImport(t) ==
  /\ At(t, "dump")
  /\ LET frame == [Top(t) EXCEPT !.saved[Top(t).slot] = "original"]
     IN SetTop(t, NextSlot(frame, "patch"))
  /\ UNCHANGED <<builtin, globals>>

dump_context(t) ==
  /\ At(t, "dump")
  /\ LET frame == [Top(t) EXCEPT !.saved[Top(t).slot] = builtin[Top(t).slot]]
     IN SetTop(t, NextSlot(frame, "patch"))
  /\ UNCHANGED <<builtin, globals>>

patch_context(t) ==
  /\ At(t, "patch")
  /\ builtin' = [builtin EXCEPT ![Top(t).slot] = "proxy"]
  /\ SetTop(t, NextSlot(Top(t), "body"))
  /\ UNCHANGED globals

(* Mutant: no finally: a func that raises skips _restore_context.           *)
EndBodyNoFinally(t) ==
  /\ At(t, "body")
  /\ MoveTo(t, "restore") \/ Pop(t)
  /\ UNCHANGED <<builtin, globals>>

(* func returns or raises: the finally clause runs either way.              *)
EndBody(t) ==
  /\ At(t, "body")
  /\ MoveTo(t, "restore")
  /\ UNCHANGED <<builtin, globals>>

restore_context(t) ==
  /\ At(t, "restore")
  /\ builtin' = [builtin EXCEPT ![Top(t).slot] = Top(t).saved[Top(t).slot]]
  /\ IF Top(t).slot < SlotCount
       THEN SetTop(t, NextSlot(Top(t), "restore"))
       ELSE Pop(t)
  /\ UNCHANGED globals

(* KeyboardInterrupt outside func: `try` is entered only after the patch,   *)
(* so the call is left with nothing put back.                               *)
Interrupt(t) ==
  /\ t \in Interruptible
  /\ Inside(t) /\ ~At(t, "body")
  /\ Pop(t)
  /\ UNCHANGED <<builtin, globals>>

-----------------------------------------------------------------------------
(* Teardown                                                                 *)

(* A caller uses the native API: the Python flag does not follow.           *)
pycapio_teardown(t) ==
  /\ ExplicitTeardown
  /\ ~exited
  /\ stack[t] = <<>> \/ At(t, "body")
  /\ libcapio_initialized' = FALSE
  /\ UNCHANGED <<builtin, stack, py_capio_initialized, CAPIO_DIR, env_CAPIO_DIR,
                 registered, exited>>

(* The interpreter ends once its threads have: atexit runs the teardown.    *)
ProcessExit ==
  /\ ~exited
  /\ \A t \in Thread : stack[t] = <<>>
  /\ exited' = TRUE
  /\ libcapio_initialized' = (libcapio_initialized /\ ~registered)
  /\ UNCHANGED <<builtin, stack, py_capio_initialized, CAPIO_DIR, env_CAPIO_DIR,
                 registered>>

-----------------------------------------------------------------------------
(* The steps of a call that nothing prevents.                               *)
WrapperStep(t) ==
  \/ TestFlag(t)
  \/ SetDir(t)
  \/ PycapioInit(t)
  \/ SetFlag(t)
  \/ AtexitRegister(t)
  \/ dump_context(t)
  \/ patch_context(t)
  \/ restore_context(t)

ThreadNext(t) ==
  \/ \E dir \in Dir : Call(t, dir)
  \/ WrapperStep(t)
  \/ PycapioInitRaises(t)
  \/ EndBody(t)
  \/ Interrupt(t)
  \/ pycapio_teardown(t)

Next == (\E t \in Thread : ThreadNext(t)) \/ ProcessExit

Spec == Init /\ [][Next]_vars
-----------------------------------------------------------------------------
(* Properties                                                               *)

(* Every variable stays in its range; no loop over the entry points runs    *)
(* past the last one.                                                       *)
TypeOK ==
  /\ builtin \in [Slot -> Callable]
  /\ stack \in [Thread -> Seq(Frame)]
  /\ py_capio_initialized \in BOOLEAN
  /\ CAPIO_DIR \in Dir \cup {NoDir}
  /\ env_CAPIO_DIR \in Dir \cup {NoDir}
  /\ libcapio_initialized \in BOOLEAN
  /\ registered \in BOOLEAN
  /\ exited \in BOOLEAN

(* Interception is scoped to the decorated calls: when none is under way,   *)
(* every entry point is the original again, however the calls were nested   *)
(* and however they ended (docstring of CapioContext).                      *)
ScopedInterception ==
  (\A t \in Thread : ~Inside(t)) => \A s \in Slot : builtin[s] = "original"

(* For the whole of a decorated function, every entry point is the proxy,   *)
(* also after a nested decorated call has restored what it found.           *)
Intercepted ==
  \A t \in Thread : At(t, "body") => \A s \in Slot : builtin[s] = "proxy"

(* While a proxy is installed, even one that an interrupt left behind, a    *)
(* CAPIO directory is set: without one open_proxy would send every path of  *)
(* the process to CAPIO (the test `_CAPIO_DIR and ...` is false).           *)
ProxyHasDir ==
  (\E s \in Slot : builtin[s] = "proxy") => CAPIO_DIR # NoDir

(* A decorated function never runs with the native library uninitialised,   *)
(* where a proxy would call handlers whose state does not exist.            *)
InitialisedInBody ==
  \A t \in Thread : At(t, "body") => libcapio_initialized

(* In a decorated function the Python proxies and the native library (which *)
(* reads the environment) agree on which directory is CAPIO's.              *)
DirPublished ==
  \A t \in Thread : At(t, "body") => CAPIO_DIR = env_CAPIO_DIR

(* A process that initialised CAPIO through a context does not end without  *)
(* tearing it down.                                                         *)
TornDownAtExit == exited => ~libcapio_initialized
=============================================================================
