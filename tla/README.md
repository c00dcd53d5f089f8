# Verification of PyCAPIO

PyCAPIO lets a Python workflow stream its files through CAPIO. A decorator,
`CapioContext`, replaces Python's built-in I/O entry points for the length of a
call; the replacements send paths inside the CAPIO directory to a native
extension, `_pycapio`, and the extension talks to a CAPIO server that the first
process of the workflow starts. This directory holds TLA+ models of that code,
TLC configurations that check them on small instances, and proofs, checked by
TLAPS, of the properties that matter most.

## The system

| Component | State it keeps | Operations | Interacts through |
|---|---|---|---|
| Server bootstrap (`include/_libcapio_impl.hpp`) | `libcapio_initialized`, `capio_server_thread_id`; `<workflow>.lock` and `<workflow>` in `/dev/shm` | `StartupSemaphore`, `bootstrap_capio_server`, `libcapio_init`, `libcapio_teardown` | files in `/dev/shm`, `fork`/`execve`, signals, CAPIO's queues |
| `CapioContext` (`pycapio/__init__.py`) | seven attributes of `builtins`, `os`, `io`; `py_capio_initialized`, `_CAPIO_DIR`; the environment | dump, patch, restore, first initialisation, `atexit` | module globals shared by threads and nested calls |
| Proxies (`pycapio/__init__.py`) | none | `open_proxy`, `mkdir_proxy`, `makedirs_proxy`, `scandir_proxy`, `listdir_proxy` | `_CAPIO_DIR`, the snapshot of the originals taken at import |
| `IOWrapper` (`include/IOWrapper.hpp`) | descriptor, `_buffer`, `_exhausted`, `_closed` | `read`, `readline`, iteration, `readlines`, `seek`, `write`, `writelines`, `flush`, `close` | the CAPIO descriptor, whose offset CAPIO keeps |
| `ScandirIteratorWrapper` (`src/ScandirIteratorWrapper.cpp`) | descriptor, `finished` | `next`, `close` | `libcapio_readdir` |
| `OsPath` (`src/OsPath.cpp`) | none | `exists`, `isfile`, `isdir`, `getsize`, path strings | `libcapio_stat`, the kernel's current directory |
| Launcher (`pycapio/__main__.py`) | `sys.argv`, `sys.path` | look the target up, run it as a path, then as a module | `CapioContext`, `OsPath` |
| CAPIO client and server | everything else | handlers, `init_client`, the server | not in this repository: modelled from how the code uses it |

What is hard in it: processes that race to start one server, and die while they
do; sleeps used where an answer is needed; globals of one interpreter that
several threads and nested calls patch and restore; two copies of a fact (the
Python flag and the native one, `_CAPIO_DIR` and the environment) that separate
when a step fails; reads of a file that is still being written, cut anywhere;
negative results used as counts; two libraries with two ideas of a path, a
working directory that only one of them is told of, and a choice between CAPIO
and the kernel made on strings. `PROJECT.json` lists the hazards line by line,
with the properties that cover each, or the reason why none does.

## Modules

```
ServerBoot      what StartupSemaphore promises      <- refined by Bootstrap
Bootstrap       bootstrap, attach, teardown         MCBootstrap, BootstrapProofs
CapioContext    the decorator, threads, nesting     MCCapioContext, CapioContextProofs
FileObject      the file-object protocol            <- refined by IOWrapper
IOWrapper       reading through one wrapper         MCIOWrapper, IOWrapperProofs
Descriptors     writing, listing, lifetime          MCDescriptors, DescriptorsProofs
PosixPath       Python's os.path on POSIX           <- the reference for OsPath
OsPath          its replacement, operators only     OsPathProofs; used by Proxies
                                                    and Launcher
Proxies         routing, modes, queries             MCProxies, ProxiesProofs
Launcher        the command line, over an instance  MCLauncher, LauncherProofs
                of CapioContext
```

A definition whose comment starts with "Mutant:" is a faulty variant of another
definition of its module; no specification uses it. `PROJECT.json` pairs each
with the definition it replaces and the property that then fails.

### Bootstrap

Each element of `Proc` is a slot holding one Python process at a time.
`pc[p] = "ready"` is `libcapio_initialized`; the other places are those between
two accesses to something another process can see: the test that
`/dev/shm/<workflow>` exists (`StartInit`), `shm_open(O_CREAT | O_EXCL)`
(`StartupSemaphore`), `fork` (`Fork`, `ForkFails`), the end of the two sleeps
(`EndAwait`, `EndWait`) and the handshake of `init_client` (`Attach`). A
process may fork (`ForkClient`, where `ClientsFork`): the child starts with the
parent's `libcapio_initialized` and `capio_server_thread_id`. Every
exit from the scope of `boot_lock`, exceptional ones included, runs the
destructor, which unlinks the lock by name (`ReleaseLock`). In the child, a
failed `execve` throws through a copy of the parent's stack and runs the same
destructor (`ExecFails`). `server` is indexed by pid; `shm` is the file the
existence test looks for. Pids grow without end and are never reused.

`init_client(gettid())` and `initialize_new_thread`, which register the calling
thread with CAPIO, are part of the step that sets `libcapio_initialized`: the
flag belongs to the process, and that threads other than the initialising one
are never registered by this code is not modelled, here or in `CapioContext`.

Assumed of CAPIO: the server creates its shared memory when it is up, removes it
when it stops after SIGTERM, leaves it when killed; `init_client` returns only
if some server answers.

### CapioContext

Each call of the wrapper is a frame of `stack[t]`, at one of the places where
the interpreter may switch threads or raise `KeyboardInterrupt`: each access to
a global and each of the seven attribute accesses of `_dump_context`,
`_patch_context` and `_restore_context` is an action. A call into the extension
is one action, because no binding releases the GIL. `func` returning and `func`
raising are one action, since `finally` treats them alike. `saved` is the local
dictionary of the call. `ProcessExit` is the `atexit` callback. `Inherited` is
what the environment may already have in `CAPIO_DIR` when the process starts.

### IOWrapper

One wrapper, one producer, in another process unless `SameProcess`: a producer
in a thread of the same process runs only while no method is under way, since
methods hold the GIL (`ProducerRuns`). `content` is what the producer
will write, `produced` how far it is, `off` the offset CAPIO keeps for the
descriptor, `buffer` and `exhausted` the fields, `out` the local variable of the
method under way. One iteration of a loop over `libcapio_read` is one action, so
the producer runs between iterations. `pos` and `result` are history: the
position the caller believes to be at, and what it got last. `Resized` is what
`out_buffer.resize(size)` followed by `resize(read_size)` leaves, `ReadNegative`
the exception that `resize` throws when a negative size has become a `size_t`.
`Seek` moves the descriptor, or fails (`libcapio_lseek` throws, or returns a
negative number) and leaves everything as it was. Where `Careful`, the caller
uses `read(size)` and `seek` only when nothing is read ahead, and `seek` only
before an iteration has ended: the code supports no more than that.

Assumed of CAPIO (`Answers`): a read returns between one and `size` of the bytes
at the offset, or 0 once the file is committed and the offset is at its end, or
-1; it blocks when none of these is possible.

Left out: `seek` with `SEEK_CUR` and `SEEK_END`, decoding of text.

### Descriptors

`IOWrapper` looks at one descriptor; this module at what shares the table of
descriptors. Each element of `Object` is a place for a wrapper or a directory
iterator; `opened` is the table, from which `Free` gives out a number again once
it is closed. Calls into the extension hold the GIL, so `call` is the one method
under way: `writelines`, a line at a time (`Write`), or `next()`, an answer of
`libcapio_readdir` at a time (`ReadEntry`, `EndOfEntries`). Meanwhile other
processes may only add entries to the directory (`Create`). `Close` and
`DestroyFile` are `close()` and the destructor, which calls it again; an
iterator of kind `listdir` belongs to the loop of `listdir_proxy`, one of kind
`scandir` to a caller who may stop anywhere. `contents` is what reached each
file, by the path its writer had opened; `acked` and `listed` are history.

Assumed of CAPIO: its descriptors and the kernel's are numbers of one table;
`libcapio_readdir` gives the entries in the order of their creation, from an
offset it keeps per descriptor, then 0; a write is accepted whole, in part, or
not at all. `flush` acts on caches of CAPIO and is left out: a line is in the
file once `libcapio_write` has accepted it.

### PosixPath and OsPath

A path is a record of what its string tells apart: a leading slash, components,
a final slash. A location is the list of components of an absolute path without
dots. `PosixPath` defines Python's functions on POSIX, as external; `OsPath` the
ones of the class, as `std::filesystem` (libstdc++) computes them, and the four
queries as functions of what `libcapio_stat` gave, with the statbuf it leaves
zeroed on an error. There are no symbolic links, and no two slashes in a row.

### Proxies

A program holds one path: it computes it with `OsPath` (`path`) and, as history,
with Python's functions (`ref_path`), gives it to a proxy or a query, or changes
directory. `capio` is the tree CAPIO has, `disk` the kernel's; `Seen` is the one
tree the program is meant to see. `Routed` is `target_path.startswith(_CAPIO_DIR)`
on strings, where `NamePrefix` says which names begin with which; `Inside` is
what CAPIO decides. `scandir_proxy` and the queries give CAPIO the path as it
is, the others `target_path`. A call that raises or returns an error code is
`Declined`. `OthersCreate` and `OthersWrite` are other processes.

Assumed of CAPIO: a path outside its directory is declined (`libcapio_stat`,
`mkdir` and `scandir` raise, `libcapio_open` falls back to the kernel); `mkdir`
and `open` create what is missing above; `open` of an absent file without
`O_CREAT` fails; a relative path is resolved from the current directory if
`TracksCwd`, otherwise from the one it was initialised in. Left out: arguments of
`open` that are not paths, the exception for `.python_history`, permissions.

### Launcher

`at` is the statement of `_pycapio_launcher` that comes next. The decorated call
around it, and those of the target, are the actions of an instance of
`CapioContext` whose variables the module shares, so that leaving by `sys.exit`
runs the same `finally`. `world` is what there is at `script_path`; `End` how the
target's code may end. Left out: `sys.argv` and the parsing of arguments.

## What the runs check

| Run | Instance | Shows |
|---|---|---|
| `BootstrapMutex` | 3 slots, 3 initialisations, every fault but a failed `execve`, both values of `teardown_server` | `TypeOK`, `BootMutex`, and `ServerBoot` is implemented |
| `BootstrapClean` | 3 slots, 4 initialisations, forked clients, every fault but the death of a client, `teardown_server=True` | `NoStaleLock`, `NoLeakedServer` |
| `BootstrapLive` | 3 slots, 4 initialisations, forked clients, no fault, `teardown_server=False` | `ServedWhileReady`, `InitReturns` |
| `CapioContextNested` | 1 thread, 7 entry points, depth 3, 2 directories, explicit teardowns | `TypeOK`, `ScopedInterception`, `Intercepted`, `DirPublished`, `TornDownAtExit` |
| `CapioContextThreads` | 2 threads, 2 entry points, depth 2, failing initialisation, interrupts, `CAPIO_DIR` in the environment or not | `ProxyHasDir`, `InitialisedInBody` |
| `IOWrapperTyped` | files up to 3 bytes, chunk 2, every method, negative sizes, `seek` anywhere, errors, any caller | `TypeOK`, `CallReturns` |
| `IOWrapperMixed` | files up to 4 bytes, chunk 2, `read()`, `read(1)`, `read(2)`, `readline`, iteration, `readlines`, `seek` mixed by a careful caller | `InOrder`, `StopMeansEnd`, `FileObject` is implemented |
| `Descriptors` | 2 objects, 2 descriptors, a file of CAPIO and one it declines, 2 lines, up to 2 entries beside the dots | `TypeOK`, `OwnFileOnly`, `AckedMeansWritten`, `OneOwner`, `ListsEachOnce`, `ListsAll`, `ListdirReturns` |
| `Proxies` | 6 locations, in the CAPIO directory `data`, outside, and in a sibling `data.py`; 5 literals; modes `r`, `w`, `a`, with and without `+` | `TypeOK`, `OnlyInside`, `CreatesWhatIsMeant`, `AnswersAgree`, `SameFile`, `OpenHonoursMode` |
| `Launcher` | 4 ways to write the target, every `world`, return, exception, 2 statuses, decorated calls of depth 2 | `TypeOK`, `UnderProxies`, `CleanExit`, `ExitMirrors`, `NotRunAgain`, `TargetRuns`, `LauncherEnds` |
| `BootstrapTwice` | 2 slots, no fault | violates `OneServer` |
| `IOWrapperRoom` | files up to 3 bytes, `readline` and `read(size)` | violates `RoomForRead` |

Bounds. Three slots give a holder of the lock, a process that waits for it and
one that arrives late; a slot is reused by fresh processes, and the bound on
initialisations (`MaxInits`) still lets a second bootstrap follow the first. Two
threads and two entry points are enough for an interleaving inside each of the
three loops; depth 3 has a call that is neither the first nor the last. Files of
four bytes with chunks of two have lines that end before, at and after the edge
of a chunk, empty lines, and files with and without a final newline; `NL` and
`Other` are all the bytes the code tells apart. Two descriptors for two objects
are reused at once after a `close`, so that a stale owner meets a new one, on the
same file, the declined one or the directory, and one number may have leaked; two
lines are a `writelines` that can stop in its middle; two entries are one there
at the start and one created during the listing. The locations of `Proxies` have
the directory itself, its parent, a file in it, one next to it, and the sibling
whose name goes on; paths of two components (`MaxLength`) reach each of them in
several ways, relative ones from each directory the program may move to; it
starts in the CAPIO directory, which is `.` by default. A size of one byte tells
an empty file from another. `CHECK_DEADLOCK FALSE` appears where the system may
stop: the processes of `CapioContext` and `Launcher` end, and in `BootstrapClean`
a process may wait for a server that has gone.

Fairness. `Bootstrap!Fairness`: a process inside `libcapio_init` keeps running,
its sleeps end, a forked server comes up; nothing obliges a process to call,
tear down or exit. `IOWrapper!FairSpec`: the producer writes its file and closes
it, and a method under way goes on when it can (`Ready`: there is a line, data or
the end); nothing obliges the caller to call, nor a read to fail.
`Descriptors!Fairness`: a method under way goes on, and the loop of
`listdir_proxy` gets the GIL again and again (strong fairness, since other
threads may take it between two of its calls); the directory stops growing at
`MaxEntries`. `Launcher!Fairness`: the interpreter goes on, and the target's code
ends some time (strong fairness, since it is interrupted by the decorated calls
it makes); its initialisation need not succeed.

## Where the code departs from its documentation

Two departures are runs of their own, under `findings` in `PROJECT.json`. The
existence of the server is not tested again once the lock is held, so two servers
of one workflow can be started (`BootstrapTwice`). `read(size)` after a call that
read ahead asks `libcapio_read` for `size` bytes where its buffer has room for
fewer, against the contract in `libcapio.hpp` (`IOWrapperRoom`). The others are
kept out of the passing runs by constants; changing one shows each in a few
states.

In `Bootstrap`:

* `Faults <- ExecMayFail` in `BootstrapMutex`: a child whose `execve` fails
  unlinks the lock its parent holds, and `BootMutex` fails.
* `TeardownFlags <- Always` in `BootstrapLive`: a server that is stopping still
  has its name, a new process skips the bootstrap and waits for ever (a deadlock, and
  `InitReturns` fails). With
  `Faults` = `{"binary_missing"}` or `{"fork_fails"}` the same property fails
  for a process that waits for a bootstrap that failed. Both sleeps end whether
  the server is up or not.
* `Faults` with `"client_crash"` in `BootstrapClean`: a process killed in the
  bootstrap leaves its lock for ever, and `NoStaleLock` fails.
* `TeardownFlags <- Always` in `BootstrapLive` also has a forked child stop the
  server that its parent uses (`ServedWhileReady`), and with `Either` a process
  that of another.

In `CapioContext`:

* `Thread <- TwoThreads` in `CapioContextNested` (`SlotCount = 1`): the first
  thread to leave a decorated function restores the originals under the other,
  and `Intercepted` fails.
* `Interruptible <- OnlyMain` in `CapioContextNested`: `_patch_context` precedes
  `try`, so `ScopedInterception` fails; `atexit.register` follows
  `pycapio_init`, so `TornDownAtExit` fails.
* `InitMayFail = TRUE` there: a failed initialisation leaves its `CAPIO_DIR` in
  the environment and `DirPublished` fails after a retry with another one.
* `ExplicitTeardown = TRUE` in `CapioContextThreads`: the Python flag is not
  cleared, and `InitialisedInBody` fails on the next decorated call.
* `Inherited <- OneDir` in `CapioContextNested`: a `CAPIO_DIR` that the
  environment already has stays, whatever the context says, and `DirPublished`
  fails.
* The `capio_dir` of every context but the first is ignored.

In `IOWrapper`:

* `Careful = FALSE` in `IOWrapperMixed`: `seek` keeps the bytes read ahead
  (`InOrder`), and `_exhausted` survives it (`StopMeansEnd`); `read(size)` after a
  call that read ahead returns bytes it never read (`InOrder`).
* `NegativeSizes = TRUE` there: `read(-2)` throws after `_buffer` was emptied, and
  the bytes read ahead are lost (`InOrder`).
* `ReadMayFail = TRUE` there: iteration takes an error for the end
  (`StopMeansEnd`), and `read()` drops the last byte it had (`InOrder`).
* `SameProcess = TRUE` in `IOWrapperTyped`: a method waits with the GIL held for a
  producer that needs it, and `CallReturns` fails.

In `Descriptors`:

* `ReaddirMayFail = TRUE` in `Descriptors`: `libcapio.hpp` allows a negative
  value, `next` tests for 0 only, so that it yields entries with an empty name
  (`ListsEachOnce`) and `listdir_proxy` need not end (`ListdirReturns`).
* `UseAfterClose = TRUE` there: no method looks at `_closed`, and a write
  through a closed wrapper goes to the file that has its number since
  (`OwnFileOnly`).
* The descriptor that `open` gave for a path CAPIO declines is never closed.
  `OneOwner` says what is left: an owner for what is open on CAPIO's own paths,
  never two for any descriptor. `Foreign <- OneFileAndDirectory` there:
  `os.listdir` of a directory that CAPIO declines raises, recorded as a listing
  that has ended, and `ListsAll` fails.
* `open_proxy` does not test the result of `pycapio_open`: the second disjunct of
  `OpenFile` is in every run. The wrapper on descriptor -1 harms nobody else.

In `Proxies` and `OsPath`:

* A sibling whose name begins with that of the CAPIO directory is routed to
  CAPIO: `mkdir`, `makedirs`, `scandir` and `listdir` then raise, where the
  docstring of `CapioContext` (`pycapio/__init__.py`) has everything outside fall
  back to the standard library. So do the queries of `os.path` on any path
  outside, and `os.makedirs` of one with more than one component, since it calls
  the replaced `exists`. All are `Declined` in the run.
* `TracksCwd = FALSE`: if CAPIO keeps resolving relative paths from where it
  started, `scandir` and the queries answer about another place than the program
  means after `os.chdir`, and `AnswersAgree` fails.
* `isdir` is TRUE, and `getsize` 0, of a path that does not exist; `AnswersAgree`
  is stated of existing paths for these two. `StatMayFail = TRUE`: `exists` is
  TRUE on any error but `ENOENT`, and `AnswersAgree` fails.
* `Departing = TRUE`: `normpath` keeps a final slash, `abspath` collapses nothing,
  `join` with an empty second part adds no slash, `realpath` gives an empty path
  for what is not on disk, which includes all of CAPIO's own files; `SameFile`
  fails. `splitext` gives the stem of the last component only, without what comes
  before; `SameFile` compares extensions.
* Modes: `x` opens for reading, `w` does not truncate, and `a` creates nothing,
  where Python's does: an append to a file that no process has created yet fails.
  `OpenHonoursMode` states what the code does of `r`, `w` and `a`: the accesses
  asked for, and a file that is there or, with `w`, is created.
* `libcapio_mkdir` returns an error code to a caller who expects an exception, and
  `exist_ok` of `os.makedirs` is ignored.

In `Launcher`:

* A target outside of the CAPIO directory ends the process in `os.path.isdir`, and
  one without a directory part, such as the `my_step.py` of the usage
  (`pycapio/__main__.py:12`), in `abspath("")`, both before the `try`
  (`LookUpRaises`): `TargetRuns` says that they are never run, and that every
  other runnable target is. Only a directory in which an entry point is found
  needs no directory part.
* Adding `Interrupted` to `Outcomes`: the launcher exits with 0, and `ExitMirrors`
  fails.
* An exception of the script makes the launcher run it again as a module, when it
  can be imported; `NotRunAgain` says that nothing else does.

## What is proved

All proofs hold for every value of the constants that satisfies the module's
`ConstantsAssumption` and the hypotheses written in the statement.

* **Bootstrap** (`BootstrapProofs`). `TypeCorrect`. `BootMutexCorrect` assumes
  that `execve` does not fail in a child. `BootMutex` is not inductive, since it
  does not say that the lock file exists while a process is inside; its
  strengthening `InsideHoldsLock` says that whoever is inside created the file
  that is there. `Refinement` (of `ServerBoot`) follows from the same invariant:
  a process can only enter when there is no file, hence when nobody is inside.
  `NoStaleLockCorrect` assumes that no client is killed, and is inductive with
  `TypeOK`. `NoLeakedServerCorrect` assumes besides that every teardown asks to
  stop the server. `ServedWhileReadyCorrect` assumes that none does and that
  servers do not crash; it needs that no server is stopping (`NoneStopping`), and
  holds with forked clients.
* **CapioContext** (`CapioContextProofs`). `TypeCorrect`. `ProxyHasDirCorrect`
  has no hypothesis; its invariant `PastSetDirInv` says of every frame past the
  assignment of `_CAPIO_DIR`, and of the flag, that a directory is set.
  `InitialisedInBodyCorrect` assumes no explicit teardown; `PastInitInv` says
  the same of the native library. `ScopedInterceptionCorrect` and
  `InterceptedCorrect` assume one thread and no interrupt, and follow from
  `NestingInv`: every call below the top is in its function, each call has saved
  what it found (the originals for the outermost, proxies for the others), and
  the entry points are what it found, the proxies, or part one and part the
  other as far as the next slot. `TornDownAtExitCorrect` assumes no interrupt;
  `TornDownInv` says that an initialised process has the callback registered, or
  a thread just about to register it. `DirPublishedCorrect` assumes one thread, no
  interrupt, no failed initialisation and no inherited `CAPIO_DIR`;
  `PublishedInv` follows the two copies of the directory through the steps of
  the first initialisation.
* **IOWrapper** (`IOWrapperProofs`). `TypeCorrect`. `InOrderCorrect`,
  `StopMeansEndCorrect`, `Refinement` (of `FileObject`) and
  `PiecesOfTheFileCorrect` assume a careful caller, no negative size and no error
  of a read; each of these breaks the first two. `InOrder` says that `out`
  followed by `buffer` is the slice of the stream from the caller's position to
  the descriptor's; to be inductive it needs that nothing is left in `out` between
  calls, and that `read()` has emptied the buffer (`WholeInv`). `StopMeansEnd` needs that
  `_exhausted`, a cached value, is still true later: the file is closed and the
  reader has all of it (`StoppedInv`). The refinement needs besides that what a line call has set
  aside has no newline (`PartialInv`), from which the line it returns ends at the first one.
  `PiecesOfTheFileCorrect` draws from it what the caller can rely on: each value
  returned is the piece of the file between his positions before and after the
  call.
* **Descriptors** (`DescriptorsProofs`). `TypeCorrect` needs `LinesLeft` besides
  the types. The others rest on `Ownership`, for any set of paths that CAPIO
  declines: the descriptor an object holds refers to what it was opened for, no
  two objects hold the same, and each one open on a path of CAPIO is held. The
  last part fails for a declined path, whose descriptor leaks.
  `OneOwnerCorrect` is another way of saying `Ownership`. `OwnFileOnlyCorrect`
  and `AckedMeansWrittenCorrect` assume that nobody writes after `close`, and
  need that nobody closes a wrapper while it writes (`WriterOpen`); for the
  second, `WrittenInv` counts the lines of the call under way with those that are
  acknowledged. `ListsEachOnceCorrect` assumes that `readdir` does not fail, and
  `ListsAllCorrect` besides that the directory is CAPIO's; their invariant
  `Listing` ties what an iterator has given to CAPIO's offset, which `Ownership`
  keeps from all others.
* **OsPath** (`OsPathProofs`). `NormpathLeadsThere`, `AbspathLeadsThere` and
  `JoinLeadsThere` say where the path leads that the class computes, for paths of
  any length and any working directory; `JoinLeadsThere` is what makes the others
  compose. `Collapse` reads a path from the left, so each fact about it is an
  induction over the components. The induction theorems of the library take an
  operator; `NatSetInduction` and `SeqSetInduction` say the same of sets, from
  the well-foundedness of `<` (`WFMin`), and the inductions are applications of
  them to the set of the sequences of which the fact holds.
* **Proxies** (`ProxiesProofs`). `OnlyInsideCorrect` has no hypothesis: for every
  CAPIO directory, every set of names and however a path was computed. The
  comparison of strings in the proxies routes more than what is inside, never
  less (`InsideIsRouted`), and what CAPIO does with the rest is to decline it, so
  that CAPIO has nothing outside of its directory (`TreesInv`).
  `OpenHonoursModeCorrect` assumes that nobody opens with "x"; it needs that what
  is above a node of CAPIO is a directory (`ClosedInv`), since `open` with "w" may
  fail only where there is none. `SameFileCorrect` assumes that the program makes
  none of the calls that differ from Python's (`~Departing`). That both paths lead
  to one place is not inductive, since what a function makes of a path depends on
  how it is written; `PathsInv` says that the two are written alike but for the
  "." with which Python's `normpath` and `dirname` write an empty path, and
  which a later `join` leaves in front (`Paired`). `TypeCorrect` has the same
  hypothesis and invariant. `AnswersAgreeCorrect` assumes besides that CAPIO
  follows the working directory and that a `stat` fails with `ENOENT` only.
  `CreatesWhatIsMeantCorrect` is its counterpart for the calls that change a
  tree: with `SameFileCorrect`, `open`, `mkdir` and `makedirs` create what the
  program means where it means it, and disturb nothing else.
* **Launcher** (`LauncherProofs`). `Refinement` shows that the launcher is a
  behaviour of `CapioContext` for one thread without interrupts in the decorator;
  `CleanExitCorrect` and `UnderProxiesCorrect` then follow from
  `ScopedInterceptionCorrect`, `InterceptedCorrect` and their companions, applied
  to that instance. `NotRunAgainCorrect` and `ExitMirrorsCorrect` rest on
  `RunsInv` and `StatusInv`, which follow the runs of the target from statement to
  statement; the second assumes that the target is not interrupted. `TypeCorrect`
  has no hypothesis, `TargetRunsCorrect` that the target is not the empty string.
  `FoundInv` is one half of the latter: it follows a target that runs through the
  look-up, and what is left when the look-up ends is a path that runs or a module
  that can be imported, because a final slash, dots and the name of an entry point
  joined to it lead where they should (`OsPathProofs`). `ReachedInv` is the other
  half: what the launcher has gone through before it runs anything. A launcher
  that ends before it runs anything although it could had not entered its
  function, so that nothing was registered with `atexit` (`FirstCallInv`, and
  `RegisteredInv` over the invariants of the decorator).

Model-checked only: liveness, which these provers do not treat (`InitReturns`,
`CallReturns`, `ListdirReturns`, `LauncherEnds`). Every other property that a
passing run checks is the statement of a theorem.

## Not modelled, and plan

Still to be written: `Workflow`, `Bootstrap` and `CapioContext` composed, with the
workflow name each process passes and the one its environment has. `Bootstrap`
takes one workflow whose processes agree on its name; `CapioContext` takes each
call into the native library as one step that succeeds or raises.

Left out for good: `PyCapioException` (formats a message), `internals` (re-exports
names), the pybind11 registration beyond the names and modes it binds
(declarations), `relpath`, `getmtime` and `samefile` of `OsPath` (they ask the
kernel about files, never CAPIO), logging and the `SILENT` variable; the argument
vector of the server (a null pointer in it ends it early, which nothing varies)
and the string that `read` overreads from a literal and then overwrites.
CAPIO's handlers, caches and server are not in the repository; what is assumed
of them is stated with each module.
