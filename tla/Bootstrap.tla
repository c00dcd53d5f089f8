------------------------------ MODULE Bootstrap ------------------------------
(***************************************************************************)
(* How the processes of one workflow on one host start, find, attach to    *)
(* and stop the CAPIO server: StartupSemaphore, bootstrap_capio_server,    *)
(* libcapio_init and libcapio_teardown of include/_libcapio_impl.hpp.      *)
(*                                                                         *)
(* An element of Proc is a slot that holds one Python process at a time:   *)
(* when a process exits or is killed, the slot is taken by a fresh one.    *)
(* Every step between two accesses to something shared (the two names in   *)
(* /dev/shm, a child process, the server's queues) is one action.          *)
(***************************************************************************)
EXTENDS Integers, Sequences

CONSTANTS
  Proc,           (* process slots                                          *)
  NoOne,          (* the lock file does not exist                           *)
  MaxInits,       (* bound on the calls of libcapio_init that do something  *)
  TeardownFlags,  (* the values of teardown_server the callers use          *)
  ClientsFork,    (* do client processes fork (os.fork, multiprocessing)    *)
  Faults          (* what may go wrong, a subset of FaultKind               *)

FaultKind == {"binary_missing", "fork_fails", "exec_fails",
              "client_crash", "server_crash"}

ASSUME ConstantsAssumption ==
  /\ NoOne \notin Proc
  /\ MaxInits \in Nat
  /\ TeardownFlags \subseteq BOOLEAN
  /\ ClientsFork \in BOOLEAN
  /\ Faults \subseteq FaultKind

VARIABLES
  pc,                      (* where each process is, see PC                *)
  lock,                    (* who created <workflow>.lock, NoOne if absent *)
  shm,                     (* does /dev/shm/<workflow> exist               *)
  server,                  (* every server ever forked, indexed by its pid *)
  server_thread_id,        (* pid forked by the bootstrap under way        *)
  capio_server_thread_id,  (* pid libcapio_teardown would kill             *)
  inits                    (* calls of libcapio_init so far                *)

vars == <<pc, lock, shm, server, server_thread_id, capio_server_thread_id, inits>>

-----------------------------------------------------------------------------
(* libcapio_initialized is pc[p] = "ready"; "idle" is any code outside.     *)
PC == {"idle", "open_lock", "boot", "await", "wait", "attach", "ready"}

(* forked: fork() returned, /dev/shm/<workflow> not created yet             *)
(* stopping: SIGTERM delivered, /dev/shm/<workflow> not removed yet         *)
ServerState == {"forked", "up", "stopping", "gone"}

NoServer == -1

Live(s) == server[s] \in {"forked", "up"}

SomeServerUp == \E s \in DOMAIN server : server[s] = "up"

(* The scope of boot_lock in a process that found the semaphore true.       *)
InBoot(p) == pc[p] \in {"boot", "await"}

Goto(p, label) == pc' = [pc EXCEPT ![p] = label]

(* ~StartupSemaphore: shm_unlink removes the NAME, whoever created it.      *)
ReleaseLock == lock' = NoOne

Init ==
  /\ pc = [p \in Proc |-> "idle"]
  /\ lock = NoOne
  /\ shm = FALSE
  /\ server = <<>>
  /\ server_thread_id = [p \in Proc |-> NoServer]
  /\ capio_server_thread_id = [p \in Proc |-> NoServer]
  /\ inits = 0

-----------------------------------------------------------------------------
(* A process inside libcapio_init.                                          *)

(* Mutant: the exists() test read the wrong way round.                      *)
StartInitInverted(p) ==
  /\ pc[p] = "idle"
  /\ inits < MaxInits
  /\ inits' = inits + 1
  /\ Goto(p, IF shm THEN "open_lock" ELSE "attach")
  /\ server_thread_id' = [server_thread_id EXCEPT ![p] = NoServer]
  /\ UNCHANGED <<lock, shm, server, capio_server_thread_id>>

(* libcapio_init on an uninitialised process, up to the exists() test that  *)
(* decides whether a server is already started.                             *)
StartInit(p) ==
  /\ pc[p] = "idle"
  /\ inits < MaxInits
  /\ inits' = inits + 1
  /\ Goto(p, IF shm THEN "attach" ELSE "open_lock")
  /\ server_thread_id' = [server_thread_id EXCEPT ![p] = NoServer]
  /\ UNCHANGED <<lock, shm, server, capio_server_thread_id>>

(* Mutant: shm_open without O_EXCL.                                         *)
StartupSemaphoreShared(p) ==
  /\ pc[p] = "open_lock"
  /\ lock' = p
  /\ Goto(p, "boot")
  /\ UNCHANGED <<shm, server, server_thread_id, capio_server_thread_id, inits>>

(* shm_open(O_CREAT | O_EXCL): whoever creates the name boots the server.   *)
StartupSemaphore(p) ==
  /\ pc[p] = "open_lock"
  /\ IF lock = NoOne
       THEN lock' = p /\ Goto(p, "boot")
       ELSE UNCHANGED lock /\ Goto(p, "wait")
  /\ UNCHANGED <<shm, server, server_thread_id, capio_server_thread_id, inits>>

(* Mutant: the error leaves without destroying boot_lock.                   *)
BinaryMissingKeepsLock(p) ==
  /\ "binary_missing" \in Faults
  /\ pc[p] = "boot"
  /\ Goto(p, "idle")
  /\ UNCHANGED <<lock, shm, server, server_thread_id, capio_server_thread_id, inits>>

(* No capio_server executable: the exception leaves libcapio_init and       *)
(* destroys boot_lock on its way.                                           *)
BinaryMissing(p) ==
  /\ "binary_missing" \in Faults
  /\ pc[p] = "boot"
  /\ Goto(p, "idle")
  /\ ReleaseLock
  /\ UNCHANGED <<shm, server, server_thread_id, capio_server_thread_id, inits>>

(* Mutant: boot_lock is released as soon as the server is forked, and the   *)
(* parent sleeps without it.                                                *)
ForkReleasesLock(p) ==
  /\ pc[p] = "boot"
  /\ server' = Append(server, "forked")
  /\ server_thread_id' = [server_thread_id EXCEPT ![p] = Len(server) + 1]
  /\ Goto(p, "await")
  /\ ReleaseLock
  /\ UNCHANGED <<shm, capio_server_thread_id, inits>>

(* fork() succeeds: the parent sleeps, holding the lock.                    *)
Fork(p) ==
  /\ pc[p] = "boot"
  /\ server' = Append(server, "forked")
  /\ server_thread_id' = [server_thread_id EXCEPT ![p] = Len(server) + 1]
  /\ Goto(p, "await")
  /\ UNCHANGED <<lock, shm, capio_server_thread_id, inits>>

(* Mutant: a failed fork taken for a child, its pid kept as 0.              *)
ForkFailsAsZero(p) ==
  /\ "fork_fails" \in Faults
  /\ pc[p] = "boot"
  /\ server_thread_id' = [server_thread_id EXCEPT ![p] = 0]
  /\ Goto(p, "await")
  /\ UNCHANGED <<lock, shm, server, capio_server_thread_id, inits>>

(* fork() fails: the error is printed and initialisation goes on.           *)
ForkFails(p) ==
  /\ "fork_fails" \in Faults
  /\ pc[p] = "boot"
  /\ ReleaseLock
  /\ Goto(p, "attach")
  /\ UNCHANGED <<shm, server, server_thread_id, capio_server_thread_id, inits>>

(* sleep(await_server_timeout_seconds) returns, whatever became of the      *)
(* server; boot_lock goes out of scope and the pid is kept for teardown.    *)
EndAwait(p) ==
  /\ pc[p] = "await"
  /\ ReleaseLock
  /\ capio_server_thread_id' =
       [capio_server_thread_id EXCEPT ![p] = server_thread_id[p]]
  /\ Goto(p, "attach")
  /\ UNCHANGED <<shm, server, server_thread_id, inits>>

(* The 3000 ms sleep of a process that did not get the lock returns.        *)
EndWait(p) ==
  /\ pc[p] = "wait"
  /\ Goto(p, "attach")
  /\ UNCHANGED <<lock, shm, server, server_thread_id, capio_server_thread_id, inits>>

(* init_client, init_filesystem, initialize_new_thread (CAPIO's own code):  *)
(* the handshake over the server's queues returns only if a server answers. *)
Attach(p) ==
  /\ pc[p] = "attach"
  /\ SomeServerUp
  /\ Goto(p, "ready")
  /\ UNCHANGED <<lock, shm, server, server_thread_id, capio_server_thread_id, inits>>

-----------------------------------------------------------------------------
(* Leaving: teardown, exit and death of a process.                          *)

(* SIGTERM: a server that is up shuts down; a child that has not become a   *)
(* server yet just dies; a zombie ignores it.                               *)
AfterSigterm(state) ==
  IF state = "up" THEN "stopping"
  ELSE IF state = "forked" THEN "gone" ELSE state

(* Mutant: libcapio_teardown forgets the pid before it sends the signal.    *)
TeardownForgetsFirst(p, teardown_server) ==
  /\ pc[p] = "ready"
  /\ Goto(p, "idle")
  /\ capio_server_thread_id' = [capio_server_thread_id EXCEPT ![p] = NoServer]
  /\ UNCHANGED <<lock, shm, server, server_thread_id, inits>>

(* Mutant: libcapio_teardown ignores teardown_server.                       *)
TeardownAlwaysKills(p, teardown_server) ==
  /\ pc[p] = "ready"
  /\ Goto(p, "idle")
  /\ IF capio_server_thread_id[p] # NoServer
       THEN /\ server' = [server EXCEPT ![capio_server_thread_id[p]] = AfterSigterm(@)]
            /\ capio_server_thread_id' =
                 [capio_server_thread_id EXCEPT ![p] = NoServer]
       ELSE UNCHANGED <<server, capio_server_thread_id>>
  /\ UNCHANGED <<lock, shm, server_thread_id, inits>>

libcapio_teardown(p, teardown_server) ==
  /\ pc[p] = "ready"
  /\ Goto(p, "idle")
  /\ IF teardown_server /\ capio_server_thread_id[p] # NoServer
       THEN /\ server' = [server EXCEPT ![capio_server_thread_id[p]] = AfterSigterm(@)]
            /\ capio_server_thread_id' =
                 [capio_server_thread_id EXCEPT ![p] = NoServer]
       ELSE UNCHANGED <<server, capio_server_thread_id>>
  /\ UNCHANGED <<lock, shm, server_thread_id, inits>>

(* The memory of the process goes, and with it the pid it could kill.       *)
Forget(p) ==
  /\ Goto(p, "idle")
  /\ server_thread_id' = [server_thread_id EXCEPT ![p] = NoServer]
  /\ capio_server_thread_id' = [capio_server_thread_id EXCEPT ![p] = NoServer]
  /\ UNCHANGED <<lock, shm, server, inits>>

(* A process that is not initialised ends; the next one takes its slot.     *)
Exit(p) ==
  /\ pc[p] = "idle"
  /\ Forget(p)

(* SIGKILL: no destructor runs, a lock file it created stays behind.        *)
ClientCrash(p) ==
  /\ "client_crash" \in Faults
  /\ pc[p] # "idle"
  /\ Forget(p)

(* A client forks while it is not inside the library. The child is a        *)
(* process in its own right with a copy of both static variables: as        *)
(* initialised as its parent, and ready to kill the same server.            *)
ForkClient(p, child) ==
  /\ ClientsFork
  /\ pc[p] \in {"idle", "ready"}
  /\ child # p /\ pc[child] = "idle"
  /\ Goto(child, pc[p])
  /\ capio_server_thread_id' =
       [capio_server_thread_id EXCEPT ![child] = capio_server_thread_id[p]]
  /\ UNCHANGED <<lock, shm, server, server_thread_id, inits>>

-----------------------------------------------------------------------------
(* The server process. Its code is CAPIO's; what matters here is when the   *)
(* name exists() looks for appears and disappears.                          *)

ServerUp(s) ==
  /\ server[s] = "forked"
  /\ server' = [server EXCEPT ![s] = "up"]
  /\ shm' = TRUE
  /\ UNCHANGED <<pc, lock, server_thread_id, capio_server_thread_id, inits>>

(* execve fails in the child: the exception unwinds a COPY of the parent's  *)
(* stack, so the child too destroys boot_lock and unlinks the lock file.    *)
ExecFails(s) ==
  /\ "exec_fails" \in Faults
  /\ server[s] = "forked"
  /\ server' = [server EXCEPT ![s] = "gone"]
  /\ ReleaseLock
  /\ UNCHANGED <<pc, shm, server_thread_id, capio_server_thread_id, inits>>

ServerStops(s) ==
  /\ server[s] = "stopping"
  /\ server' = [server EXCEPT ![s] = "gone"]
  /\ shm' = FALSE
  /\ UNCHANGED <<pc, lock, server_thread_id, capio_server_thread_id, inits>>

(* Killed from outside: /dev/shm/<workflow> survives it.                    *)
ServerCrash(s) ==
  /\ "server_crash" \in Faults
  /\ server[s] = "up"
  /\ server' = [server EXCEPT ![s] = "gone"]
  /\ UNCHANGED <<pc, lock, shm, server_thread_id, capio_server_thread_id, inits>>

-----------------------------------------------------------------------------
(* The steps of libcapio_init that no caller chooses and nothing prevents.  *)
InitStep(p) ==
  StartupSemaphore(p) \/ Fork(p) \/ EndAwait(p) \/ EndWait(p) \/ Attach(p)

ProcNext(p) ==
  \/ StartInit(p)
  \/ InitStep(p)
  \/ BinaryMissing(p)
  \/ ForkFails(p)
  \/ \E flag \in TeardownFlags : libcapio_teardown(p, flag)
  \/ Exit(p)
  \/ ClientCrash(p)
  \/ \E child \in Proc : ForkClient(p, child)

ServerNext(s) == ServerUp(s) \/ ExecFails(s) \/ ServerStops(s) \/ ServerCrash(s)

Next ==
  \/ \E p \in Proc : ProcNext(p)
  \/ \E s \in DOMAIN server : ServerNext(s)

Spec == Init /\ [][Next]_vars

(* What the scheduler and CAPIO owe: a process that runs libcapio_init goes *)
(* on running, its two sleeps end, and a forked server comes up. Nobody is  *)
(* obliged to call libcapio_init, to tear down or to exit.                  *)
Fairness ==
  /\ \A p \in Proc : WF_vars(InitStep(p))
  /\ \A s \in 1..MaxInits : WF_vars(s \in DOMAIN server /\ ServerUp(s))

FairSpec == Spec /\ Fairness

-----------------------------------------------------------------------------
(* Properties                                                               *)

(* Every variable stays in its range: a pid that libcapio_teardown may kill *)
(* is that of a server really forked, never 0 (the whole process group).    *)
TypeOK ==
  /\ pc \in [Proc -> PC]
  /\ lock \in Proc \cup {NoOne}
  /\ shm \in BOOLEAN
  /\ server \in Seq(ServerState)
  /\ server_thread_id \in [Proc -> DOMAIN server \cup {NoServer}]
  /\ capio_server_thread_id \in [Proc -> DOMAIN server \cup {NoServer}]
  /\ inits \in 0..MaxInits

(* At most one process at a time is inside the bootstrap of the server      *)
(* (between the creation of <workflow>.lock and the end of boot_lock), even *)
(* when processes and servers die at any point.                             *)
BootMutex ==
  \A p, q \in Proc : InBoot(p) /\ InBoot(q) => p = q

(* The lock file never outlives the bootstrap that created it, whatever     *)
(* path leaves the scope of boot_lock (a missing binary, a failed fork, a   *)
(* failed exec): otherwise no process could ever boot that workflow again.  *)
NoStaleLock ==
  \A p \in Proc : lock = p => InBoot(p)

(* No server is left running that nobody will stop: each is the one some    *)
(* process is waiting for, or will kill at its teardown.                    *)
NoLeakedServer ==
  \A s \in DOMAIN server : Live(s) =>
    \E p \in Proc : \/ capio_server_thread_id[p] = s /\ pc[p] \in {"attach", "ready"}
                    \/ server_thread_id[p] = s /\ pc[p] = "await"

(* Processes that ask not to tear the server down never take it from the    *)
(* others: an initialised process always has a server to talk to.           *)
ServedWhileReady ==
  \A p \in Proc : pc[p] = "ready" => SomeServerUp

(* libcapio_init returns: no process waits for ever on a lock, on a server  *)
(* that was never forked, or on the one another process was to fork.        *)
InitReturns ==
  \A p \in Proc :
    pc[p] \in {"open_lock", "boot", "await", "wait", "attach"} ~> pc[p] \in {"ready", "idle"}

(* The workflow has at most one server: a process boots one only if there   *)
(* is none (comment in bootstrap_capio_server).                             *)
OneServer ==
  \A s, t \in DOMAIN server : Live(s) /\ Live(t) => s = t

(* Refinement: the bootstrap implements ServerBoot, that is, a process      *)
(* enters it only when nobody is inside and forks once per stay.            *)
Phase(label) ==
  IF label = "boot" THEN "booting"
  ELSE IF label = "await" THEN "launched" ELSE "out"

Abstract == INSTANCE ServerBoot WITH
  phase <- [p \in Proc |-> Phase(pc[p])],
  launched <- Len(server)

ImplementsServerBoot == Abstract!Spec
=============================================================================
