-------------------------- MODULE BootstrapProofs --------------------------
(***************************************************************************)
(* Theorems about Bootstrap, for any number of processes, any number of    *)
(* calls of libcapio_init and any set of faults the statements allow.      *)
(***************************************************************************)
EXTENDS Bootstrap, SequenceTheorems, TLAPS

-----------------------------------------------------------------------------
(* Typing                                                                   *)

(* Every action keeps every variable in its range.                          *)
LEMMA TypeStep == ASSUME TypeOK, [Next]_vars PROVE TypeOK'
<1> USE ConstantsAssumption
<1>1. ASSUME NEW p \in Proc, StartInit(p) PROVE TypeOK'
  BY <1>1 DEF TypeOK, StartInit, Goto, PC, NoServer
<1>2. ASSUME NEW p \in Proc, InitStep(p) PROVE TypeOK'
  <2>1. CASE Fork(p)
    <3>1. server' = Append(server, "forked") /\ server \in Seq(ServerState)
      BY <2>1 DEF Fork, TypeOK
    <3>2. /\ server' \in Seq(ServerState)
          /\ DOMAIN server' = 1..(Len(server) + 1)
          /\ DOMAIN server = 1..Len(server)
          /\ Len(server) \in Nat
      BY <3>1 DEF ServerState
    <3>3. DOMAIN server \subseteq DOMAIN server' /\ Len(server) + 1 \in DOMAIN server'
      BY <3>2
    <3>4. server_thread_id' \in [Proc -> DOMAIN server' \cup {NoServer}]
      BY <2>1, <3>3 DEF Fork, TypeOK
    <3>5. capio_server_thread_id' \in [Proc -> DOMAIN server' \cup {NoServer}]
      BY <2>1, <3>3 DEF Fork, TypeOK
    <3> QED BY <2>1, <3>2, <3>4, <3>5 DEF Fork, TypeOK, Goto, PC
  <2>2. CASE StartupSemaphore(p)
    BY <2>2 DEF StartupSemaphore, TypeOK, Goto, PC
  <2>3. CASE EndAwait(p)
    BY <2>3 DEF EndAwait, TypeOK, Goto, PC, ReleaseLock
  <2>4. CASE EndWait(p)
    BY <2>4 DEF EndWait, TypeOK, Goto, PC
  <2>5. CASE Attach(p)
    BY <2>5 DEF Attach, TypeOK, Goto, PC
  <2> QED BY <1>2, <2>1, <2>2, <2>3, <2>4, <2>5 DEF InitStep
<1>3. ASSUME NEW p \in Proc, BinaryMissing(p) PROVE TypeOK'
  BY <1>3 DEF BinaryMissing, TypeOK, Goto, PC, ReleaseLock
<1>4. ASSUME NEW p \in Proc, ForkFails(p) PROVE TypeOK'
  BY <1>4 DEF ForkFails, TypeOK, Goto, PC, ReleaseLock
<1>5. ASSUME NEW p \in Proc, NEW flag \in TeardownFlags, libcapio_teardown(p, flag)
      PROVE TypeOK'
  <2>1. CASE flag /\ capio_server_thread_id[p] # NoServer
    <3> DEFINE s == capio_server_thread_id[p]
    <3>1. s \in DOMAIN server
      BY <2>1 DEF TypeOK
    <3>2. server' = [server EXCEPT ![s] = AfterSigterm(server[s])]
      BY <1>5, <2>1 DEF libcapio_teardown
    <3>3. server[s] \in ServerState
      BY <3>1, ElementOfSeq DEF TypeOK
    <3>4. AfterSigterm(server[s]) \in ServerState
      BY <3>3 DEF AfterSigterm, ServerState
    <3>5. server' \in Seq(ServerState) /\ DOMAIN server' = DOMAIN server
      BY <3>1, <3>2, <3>4 DEF TypeOK
    <3> QED BY <1>5, <2>1, <3>5 DEF libcapio_teardown, TypeOK, Goto, PC
  <2>2. CASE ~(flag /\ capio_server_thread_id[p] # NoServer)
    BY <1>5, <2>2 DEF libcapio_teardown, TypeOK, Goto, PC
  <2> QED BY <2>1, <2>2
<1>6. ASSUME NEW p \in Proc, Exit(p) \/ ClientCrash(p) PROVE TypeOK'
  BY <1>6 DEF Exit, ClientCrash, Forget, TypeOK, Goto, PC
<1>7. ASSUME NEW s \in DOMAIN server, ServerNext(s) PROVE TypeOK'
  <2>1. ASSUME NEW state \in ServerState, server' = [server EXCEPT ![s] = state]
        PROVE server' \in Seq(ServerState) /\ DOMAIN server' = DOMAIN server
    BY <2>1 DEF TypeOK
  <2>2. server' \in Seq(ServerState) /\ DOMAIN server' = DOMAIN server
    BY <1>7, <2>1 DEF ServerNext, ServerUp, ExecFails, ServerStops, ServerCrash, ServerState
  <2> QED BY <1>7, <2>2
       DEF ServerNext, ServerUp, ExecFails, ServerStops, ServerCrash, TypeOK, ReleaseLock
<1>8. CASE UNCHANGED vars
  BY <1>8 DEF vars, TypeOK
<1>9. ASSUME NEW p \in Proc, NEW child \in Proc, ForkClient(p, child) PROVE TypeOK'
  BY <1>9 DEF ForkClient, TypeOK, Goto, PC
<1> QED BY <1>1, <1>2, <1>3, <1>4, <1>5, <1>6, <1>7, <1>8, <1>9 DEF Next, ProcNext

(* Initially every variable is in its range.                                *)
LEMMA TypeInit == ASSUME Init PROVE TypeOK
<1>1. server \in Seq(ServerState)
  BY DEF Init
<1>2. inits \in 0..MaxInits
  BY ConstantsAssumption DEF Init
<1> QED BY <1>1, <1>2 DEF Init, TypeOK, PC

(* Every variable of the bootstrap always stays in its range: a pid that    *)
(* libcapio_teardown may kill is always that of a forked server.            *)
THEOREM TypeCorrect == Spec => []TypeOK
BY TypeInit, TypeStep, PTL DEF Spec
-----------------------------------------------------------------------------
(* Mutual exclusion                                                         *)

(* Why the lock excludes: whoever is inside the bootstrap is the creator of *)
(* the lock file. BootMutex alone is not inductive, since it does not say   *)
(* that the file exists while somebody is inside.                           *)
InsideHoldsLock == \A p \in Proc : InBoot(p) => lock = p

LEMMA InsideHoldsLockStep ==
  ASSUME "exec_fails" \notin Faults, TypeOK, InsideHoldsLock, [Next]_vars
  PROVE  InsideHoldsLock'
<1> SUFFICES ASSUME NEW q \in Proc, InBoot(q)' PROVE lock' = q
  BY DEF InsideHoldsLock
<1> USE ConstantsAssumption DEF TypeOK, InsideHoldsLock, InBoot, Goto, ReleaseLock
<1>1. ASSUME NEW p \in Proc, StartInit(p) PROVE lock' = q
  BY <1>1 DEF StartInit
<1>2. ASSUME NEW p \in Proc, InitStep(p) PROVE lock' = q
  <2>1. CASE StartupSemaphore(p)
    BY <2>1 DEF StartupSemaphore
  <2>2. CASE Fork(p)
    BY <2>2 DEF Fork
  <2>3. CASE EndAwait(p)
    (* p held the lock, so nobody else was inside. *)
    BY <2>3 DEF EndAwait
  <2>4. CASE EndWait(p) \/ Attach(p)
    BY <2>4 DEF EndWait, Attach
  <2> QED BY <1>2, <2>1, <2>2, <2>3, <2>4 DEF InitStep
<1>3. ASSUME NEW p \in Proc, BinaryMissing(p) \/ ForkFails(p) PROVE lock' = q
  BY <1>3 DEF BinaryMissing, ForkFails
<1>4. ASSUME NEW p \in Proc, NEW flag \in TeardownFlags, libcapio_teardown(p, flag)
      PROVE lock' = q
  BY <1>4 DEF libcapio_teardown
<1>5. ASSUME NEW p \in Proc, Exit(p) \/ ClientCrash(p) PROVE lock' = q
  BY <1>5 DEF Exit, ClientCrash, Forget
<1>6. ASSUME NEW s \in DOMAIN server, ServerNext(s) PROVE lock' = q
  BY <1>6 DEF ServerNext, ServerUp, ExecFails, ServerStops, ServerCrash
<1>7. CASE UNCHANGED vars
  BY <1>7 DEF vars
<1>8. ASSUME NEW p \in Proc, NEW child \in Proc, ForkClient(p, child) PROVE lock' = q
  BY <1>8 DEF ForkClient
<1> QED BY <1>1, <1>2, <1>3, <1>4, <1>5, <1>6, <1>7, <1>8 DEF Next, ProcNext

LEMMA InsideHoldsLockAlways ==
  ASSUME "exec_fails" \notin Faults PROVE Spec => []InsideHoldsLock
<1>1. Init => InsideHoldsLock
  BY DEF Init, InsideHoldsLock, InBoot
<1>2. TypeOK /\ InsideHoldsLock /\ [Next]_vars => InsideHoldsLock'
  BY InsideHoldsLockStep
<1> QED BY <1>1, <1>2, TypeCorrect, PTL DEF Spec

(* As long as execve does not fail in a forked child, two processes are     *)
(* never inside the bootstrap of the server together, whoever crashes.      *)
THEOREM BootMutexCorrect ==
  ASSUME "exec_fails" \notin Faults PROVE Spec => []BootMutex
<1>1. InsideHoldsLock => BootMutex
  BY DEF InsideHoldsLock, BootMutex
<1> QED BY <1>1, InsideHoldsLockAlways, PTL

-----------------------------------------------------------------------------
(* The lock file does not outlive its creator's bootstrap                   *)

LEMMA NoStaleLockStep ==
  ASSUME "client_crash" \notin Faults, TypeOK, NoStaleLock, [Next]_vars
  PROVE  NoStaleLock'
<1> SUFFICES ASSUME NEW q \in Proc, lock' = q PROVE InBoot(q)'
  BY DEF NoStaleLock
<1> USE ConstantsAssumption DEF TypeOK, NoStaleLock, InBoot, Goto, ReleaseLock
<1>1. ASSUME NEW p \in Proc, StartInit(p) PROVE InBoot(q)'
  BY <1>1 DEF StartInit
<1>2. ASSUME NEW p \in Proc, InitStep(p) PROVE InBoot(q)'
  BY <1>2 DEF InitStep, StartupSemaphore, Fork, EndAwait, EndWait, Attach
<1>3. ASSUME NEW p \in Proc, BinaryMissing(p) \/ ForkFails(p) PROVE InBoot(q)'
  BY <1>3 DEF BinaryMissing, ForkFails
<1>4. ASSUME NEW p \in Proc, NEW flag \in TeardownFlags, libcapio_teardown(p, flag)
      PROVE InBoot(q)'
  BY <1>4 DEF libcapio_teardown
<1>5. ASSUME NEW p \in Proc, Exit(p) \/ ClientCrash(p) PROVE InBoot(q)'
  BY <1>5 DEF Exit, ClientCrash, Forget
<1>6. ASSUME NEW s \in DOMAIN server, ServerNext(s) PROVE InBoot(q)'
  BY <1>6 DEF ServerNext, ServerUp, ExecFails, ServerStops, ServerCrash
<1>7. CASE UNCHANGED vars
  BY <1>7 DEF vars
<1>8. ASSUME NEW p \in Proc, NEW child \in Proc, ForkClient(p, child) PROVE InBoot(q)'
  BY <1>8 DEF ForkClient
<1> QED BY <1>1, <1>2, <1>3, <1>4, <1>5, <1>6, <1>7, <1>8 DEF Next, ProcNext

(* As long as no client is killed, the lock file exists only while its      *)
(* creator is inside the bootstrap, whatever error ends that bootstrap.     *)
THEOREM NoStaleLockCorrect ==
  ASSUME "client_crash" \notin Faults PROVE Spec => []NoStaleLock
<1>1. Init => NoStaleLock
  BY ConstantsAssumption DEF Init, NoStaleLock
<1>2. TypeOK /\ NoStaleLock /\ [Next]_vars => NoStaleLock'
  BY NoStaleLockStep
<1> QED BY <1>1, <1>2, TypeCorrect, PTL DEF Spec

-----------------------------------------------------------------------------
(* Servers are stopped                                                      *)

LEMMA NoLeakedServerStep ==
  ASSUME "client_crash" \notin Faults, TeardownFlags \subseteq {TRUE},
         TypeOK, NoLeakedServer, [Next]_vars
  PROVE  NoLeakedServer'
<1> DEFINE Owns(p, s) == \/ capio_server_thread_id[p] = s /\ pc[p] \in {"attach", "ready"}
                         \/ server_thread_id[p] = s /\ pc[p] = "await"
<1> SUFFICES ASSUME NEW s \in DOMAIN server', Live(s)' PROVE \E p \in Proc : Owns(p, s)'
  BY DEF NoLeakedServer
<1>0. /\ server \in Seq(ServerState) /\ Len(server) \in Nat
      /\ DOMAIN server = 1..Len(server)
      /\ pc \in [Proc -> PC]
      /\ server_thread_id \in [Proc -> DOMAIN server \cup {NoServer}]
      /\ capio_server_thread_id \in [Proc -> DOMAIN server \cup {NoServer}]
  BY DEF TypeOK
<1>1. ASSUME s \in DOMAIN server, Live(s) PROVE \E p \in Proc : Owns(p, s)
  BY <1>1 DEF NoLeakedServer
<1>2. ASSUME NEW p \in Proc, StartInit(p) PROVE \E q \in Proc : Owns(q, s)'
  BY <1>0, <1>1, <1>2 DEF StartInit, Goto, Live
<1>3. ASSUME NEW p \in Proc, InitStep(p) PROVE \E q \in Proc : Owns(q, s)'
  <2>1. CASE Fork(p)
    <3>1. CASE s = Len(server) + 1
      BY <1>0, <2>1, <3>1 DEF Fork, Goto
    <3>2. CASE s # Len(server) + 1
      <4>1. s \in DOMAIN server /\ Live(s)
        BY <1>0, <2>1, <3>2 DEF Fork, Live
      <4> QED BY <1>0, <1>1, <2>1, <4>1 DEF Fork, Goto
    <3> QED BY <3>1, <3>2
  <2>2. CASE StartupSemaphore(p) \/ EndWait(p) \/ Attach(p)
    BY <1>0, <1>1, <2>2 DEF StartupSemaphore, EndWait, Attach, Goto, Live
  <2>3. CASE EndAwait(p)
    BY <1>0, <1>1, <2>3 DEF EndAwait, Goto, Live
  <2> QED BY <1>3, <2>1, <2>2, <2>3 DEF InitStep
<1>4. ASSUME NEW p \in Proc, BinaryMissing(p) \/ ForkFails(p)
      PROVE \E q \in Proc : Owns(q, s)'
  BY <1>0, <1>1, <1>4 DEF BinaryMissing, ForkFails, Goto, Live
<1>5. ASSUME NEW p \in Proc, NEW flag \in TeardownFlags, libcapio_teardown(p, flag)
      PROVE \E q \in Proc : Owns(q, s)'
  <2> DEFINE killed == capio_server_thread_id[p]
  <2>1. CASE killed = NoServer
    BY <1>0, <1>1, <1>5, <2>1 DEF libcapio_teardown, Goto, Live, NoServer
  <2>2. CASE killed # NoServer
    (* The signal ends the one server p owned; the others keep theirs. *)
    <3>1. server' = [server EXCEPT ![killed] = AfterSigterm(server[killed])]
      BY <1>5, <2>2 DEF libcapio_teardown
    <3>2. s # killed
      BY <1>0, <3>1 DEF Live, AfterSigterm
    <3>3. s \in DOMAIN server /\ Live(s)
      BY <1>0, <3>1, <3>2 DEF Live
    <3> QED BY <1>0, <1>1, <1>5, <2>2, <3>2, <3>3 DEF libcapio_teardown, Goto
  <2> QED BY <2>1, <2>2
<1>6. ASSUME NEW p \in Proc, Exit(p) \/ ClientCrash(p) PROVE \E q \in Proc : Owns(q, s)'
  BY <1>0, <1>1, <1>6 DEF Exit, ClientCrash, Forget, Goto, Live
<1>7. ASSUME NEW t \in DOMAIN server, ServerNext(t) PROVE \E q \in Proc : Owns(q, s)'
  <2>1. s \in DOMAIN server /\ Live(s)
    BY <1>0, <1>7 DEF ServerNext, ServerUp, ExecFails, ServerStops, ServerCrash, Live
  <2> QED BY <1>1, <1>7, <2>1
       DEF ServerNext, ServerUp, ExecFails, ServerStops, ServerCrash
<1>8. CASE UNCHANGED vars
  BY <1>1, <1>8 DEF vars, Live
<1>9. ASSUME NEW p \in Proc, NEW child \in Proc, ForkClient(p, child)
      PROVE \E q \in Proc : Owns(q, s)'
  (* The child owned nothing, being idle, and all others stay as they are. *)
  BY <1>0, <1>1, <1>9 DEF ForkClient, Goto, Live
<1> QED BY <1>2, <1>3, <1>4, <1>5, <1>6, <1>7, <1>8, <1>9 DEF Next, ProcNext

(* When every process tears its server down and none is killed, a running   *)
(* server always has a process that waits for it or will stop it.           *)
THEOREM NoLeakedServerCorrect ==
  ASSUME "client_crash" \notin Faults, TeardownFlags \subseteq {TRUE}
  PROVE  Spec => []NoLeakedServer
<1>1. Init => NoLeakedServer
  BY DEF Init, NoLeakedServer
<1>2. TypeOK /\ NoLeakedServer /\ [Next]_vars => NoLeakedServer'
  BY NoLeakedServerStep
<1> QED BY <1>1, <1>2, TypeCorrect, PTL DEF Spec

-----------------------------------------------------------------------------
(* Processes that leave the server to the others                            *)

(* Why a server that is up stays up: it stops only if it was signalled, and *)
(* ServedWhileReady does not say that nobody does.                          *)
NoneStopping == \A s \in DOMAIN server : server[s] # "stopping"

ServedInv == NoneStopping /\ ServedWhileReady

(* A step that keeps the state of each server, but for one that comes up,   *)
(* and makes nobody ready keeps the invariant.                              *)
LEMMA ServersStay ==
  ASSUME TypeOK, ServedInv,
         DOMAIN server \subseteq DOMAIN server',
         \A s \in DOMAIN server' : server'[s] # "stopping",
         \A s \in DOMAIN server : server[s] = "up" => server'[s] = "up",
         \A p \in Proc : pc'[p] = "ready" =>
           \/ \E q \in Proc : pc[q] = "ready"
           \/ SomeServerUp
  PROVE  ServedInv'
<1>1. NoneStopping'
  BY DEF NoneStopping
<1>2. ASSUME NEW p \in Proc, pc'[p] = "ready" PROVE SomeServerUp'
  <2>1. SomeServerUp
    BY <1>2 DEF ServedInv, ServedWhileReady
  <2> QED BY <2>1 DEF SomeServerUp
<1> QED BY <1>1, <1>2 DEF ServedInv, ServedWhileReady

LEMMA ServedStep ==
  ASSUME TeardownFlags \subseteq {FALSE}, "server_crash" \notin Faults,
         TypeOK, ServedInv, [Next]_vars
  PROVE  ServedInv'
<1>0. /\ server \in Seq(ServerState) /\ Len(server) \in Nat
      /\ DOMAIN server = 1..Len(server)
      /\ pc \in [Proc -> PC]
      /\ \A s \in DOMAIN server : server[s] # "stopping"
  BY DEF TypeOK, ServedInv, NoneStopping
<1>1. ASSUME NEW p \in Proc,
             StartInit(p) \/ StartupSemaphore(p) \/ EndAwait(p) \/ EndWait(p) \/ Attach(p)
               \/ BinaryMissing(p) \/ ForkFails(p) \/ Exit(p) \/ ClientCrash(p)
      PROVE  ServedInv'
  <2>1. UNCHANGED server
    BY <1>1 DEF StartInit, StartupSemaphore, EndAwait, EndWait, Attach, BinaryMissing,
                ForkFails, Exit, ClientCrash, Forget
  <2>2. \A q \in Proc : pc'[q] = "ready" => pc[q] = "ready" \/ SomeServerUp
    BY <1>0, <1>1 DEF StartInit, StartupSemaphore, EndAwait, EndWait, Attach, BinaryMissing,
                      ForkFails, Exit, ClientCrash, Forget, Goto
  <2> QED BY <1>0, <2>1, <2>2, ServersStay
<1>2. ASSUME NEW p \in Proc, Fork(p) PROVE ServedInv'
  <2>1. /\ DOMAIN server \subseteq DOMAIN server'
        /\ \A s \in DOMAIN server' : server'[s] # "stopping"
        /\ \A s \in DOMAIN server : server'[s] = server[s]
    BY <1>0, <1>2 DEF Fork
  <2>2. \A q \in Proc : pc'[q] = "ready" => pc[q] = "ready"
    BY <1>0, <1>2 DEF Fork, Goto
  <2> QED BY <2>1, <2>2, ServersStay
<1>3. ASSUME NEW p \in Proc, NEW flag \in TeardownFlags, libcapio_teardown(p, flag)
      PROVE  ServedInv'
  <2>1. flag = FALSE
    BY <1>3
  <2>2. UNCHANGED server /\ \A q \in Proc : pc'[q] = "ready" => pc[q] = "ready"
    BY <1>0, <1>3, <2>1 DEF libcapio_teardown, Goto
  <2> QED BY <1>0, <2>2, ServersStay
<1>4. ASSUME NEW p \in Proc, NEW child \in Proc, ForkClient(p, child) PROVE ServedInv'
  <2>1. UNCHANGED server
    BY <1>4 DEF ForkClient
  <2>2. \A q \in Proc : pc'[q] = "ready" => pc[q] = "ready" \/ pc[p] = "ready"
    BY <1>0, <1>4 DEF ForkClient, Goto
  <2> QED BY <1>0, <2>1, <2>2, ServersStay
<1>5. ASSUME NEW t \in DOMAIN server, ServerNext(t) PROVE ServedInv'
  <2>1. /\ DOMAIN server' = DOMAIN server
        /\ \A s \in DOMAIN server' : server'[s] # "stopping"
        /\ \A s \in DOMAIN server : server[s] = "up" => server'[s] = "up"
    BY <1>0, <1>5 DEF ServerNext, ServerUp, ExecFails, ServerStops, ServerCrash
  <2>2. UNCHANGED pc
    BY <1>5 DEF ServerNext, ServerUp, ExecFails, ServerStops, ServerCrash
  <2> QED BY <2>1, <2>2, ServersStay
<1>6. CASE UNCHANGED vars
  BY <1>0, <1>6, ServersStay DEF vars
<1> QED BY <1>1, <1>2, <1>3, <1>4, <1>5, <1>6 DEF Next, ProcNext, InitStep

(* If every process asks not to stop the server and no server is killed, an *)
(* initialised process has a server to talk to, also if it was forked from  *)
(* another and whatever else dies or fails.                                 *)
THEOREM ServedWhileReadyCorrect ==
  ASSUME TeardownFlags \subseteq {FALSE}, "server_crash" \notin Faults
  PROVE  Spec => []ServedWhileReady
<1>1. Init => ServedInv
  BY DEF Init, ServedInv, NoneStopping, ServedWhileReady
<1>2. TypeOK /\ ServedInv /\ [Next]_vars => ServedInv'
  BY ServedStep
<1>3. ServedInv => ServedWhileReady
  BY DEF ServedInv
<1> QED BY <1>1, <1>2, <1>3, TypeCorrect, PTL DEF Spec

-----------------------------------------------------------------------------
(* Refinement                                                               *)

(* Every step of the bootstrap is a step of ServerBoot or a stutter.        *)
LEMMA RefinementStep ==
  ASSUME TypeOK, InsideHoldsLock, [Next]_vars
  PROVE  [Abstract!Next]_(Abstract!vars)
<1> DEFINE phase == [p \in Proc |-> Phase(pc[p])]
<1>0. /\ server \in Seq(ServerState) /\ Len(server) \in Nat
      /\ pc \in [Proc -> PC]
  BY DEF TypeOK
<1> USE <1>0
<1> SUFFICES ASSUME ~(phase' = phase /\ Len(server') = Len(server))
             PROVE  \E p \in Proc : Abstract!Enter(p) \/ Abstract!Launch(p) \/ Abstract!Leave(p)
  BY DEF Abstract!Next, Abstract!vars
<1> USE ConstantsAssumption DEF Goto, PC
<1>1. ASSUME NEW p \in Proc, NEW label \in PC, pc' = [pc EXCEPT ![p] = label]
      PROVE  phase' = [phase EXCEPT ![p] = Phase(label)]
  BY <1>1
<1>2. ASSUME NEW p \in Proc, StartupSemaphore(p) PROVE Abstract!Enter(p)
  <2>1. lock = NoOne /\ pc' = [pc EXCEPT ![p] = "boot"] /\ UNCHANGED server
    <3>1. CASE lock # NoOne
      BY <1>1, <1>2, <3>1 DEF StartupSemaphore, Phase
    <3> QED BY <1>2, <3>1 DEF StartupSemaphore
  <2>2. \A q \in Proc : ~InBoot(q)
    BY <2>1 DEF InsideHoldsLock
  <2>3. \A q \in Proc : phase[q] = "out"
    BY <2>2 DEF InBoot, Phase
  <2> QED BY <1>1, <2>1, <2>3 DEF Abstract!Enter, Phase
<1>3. ASSUME NEW p \in Proc, Fork(p) PROVE Abstract!Launch(p)
  <2>1. Len(server') = Len(server) + 1
    BY <1>3 DEF Fork
  <2>2. phase[p] = "booting"
    BY <1>3 DEF Fork, Phase
  <2> QED BY <1>1, <1>3, <2>1, <2>2 DEF Fork, Abstract!Launch, Phase
<1>4. ASSUME NEW p \in Proc, InBoot(p), UNCHANGED server,
             NEW label \in {"idle", "attach"}, pc' = [pc EXCEPT ![p] = label]
      PROVE  Abstract!Leave(p)
  <2>1. phase[p] # "out"
    BY <1>4 DEF InBoot, Phase
  <2>2. phase' = [phase EXCEPT ![p] = "out"]
    BY <1>1, <1>4 DEF Phase
  <2> QED BY <1>4, <2>1, <2>2 DEF Abstract!Leave
<1>5. ASSUME NEW p \in Proc, ~InBoot(p), UNCHANGED server, NEW label \in PC,
             label \notin {"boot", "await"}, pc' = [pc EXCEPT ![p] = label]
      PROVE  FALSE
  <2>1. phase' = [phase EXCEPT ![p] = "out"] /\ phase[p] = "out"
    BY <1>1, <1>5 DEF InBoot, Phase
  <2> QED BY <1>5, <2>1
<1>6. ASSUME NEW p \in Proc, EndAwait(p) \/ BinaryMissing(p) \/ ForkFails(p)
      PROVE  Abstract!Leave(p)
  BY <1>4, <1>6 DEF EndAwait, BinaryMissing, ForkFails, InBoot
<1>7. ASSUME NEW p \in Proc, StartInit(p) \/ EndWait(p) \/ Attach(p) \/ Exit(p)
      PROVE  FALSE
  BY <1>5, <1>7 DEF StartInit, EndWait, Attach, Exit, Forget, InBoot
<1>8. ASSUME NEW p \in Proc, ClientCrash(p) PROVE Abstract!Leave(p)
  BY <1>4, <1>5, <1>8 DEF ClientCrash, Forget
<1>9. ASSUME NEW p \in Proc, NEW flag \in TeardownFlags, libcapio_teardown(p, flag)
      PROVE  FALSE
  <2>1. phase' = [phase EXCEPT ![p] = "out"] /\ phase[p] = "out"
    BY <1>1, <1>9 DEF libcapio_teardown, Phase
  <2>2. Len(server') = Len(server)
    BY <1>9 DEF libcapio_teardown, TypeOK
  <2> QED BY <2>1, <2>2
<1>10. ASSUME NEW s \in DOMAIN server, ServerNext(s) PROVE FALSE
  <2>1. Len(server') = Len(server) /\ UNCHANGED pc
    BY <1>10 DEF ServerNext, ServerUp, ExecFails, ServerStops, ServerCrash
  <2> QED BY <2>1
<1>11. CASE UNCHANGED vars
  BY <1>11 DEF vars
<1>12. ASSUME NEW p \in Proc, NEW child \in Proc, ForkClient(p, child) PROVE FALSE
  (* Neither the child, idle, nor what it becomes is inside the bootstrap. *)
  BY <1>5, <1>12 DEF ForkClient, InBoot
<1> QED
  BY <1>2, <1>3, <1>6, <1>7, <1>8, <1>9, <1>10, <1>11, <1>12 DEF Next, ProcNext, InitStep

(* The bootstrap implements ServerBoot as long as execve does not fail in a *)
(* forked child: a process enters only when nobody is inside, and forks at  *)
(* most one server per stay.                                                *)
THEOREM Refinement ==
  ASSUME "exec_fails" \notin Faults PROVE Spec => ImplementsServerBoot
<1>1. Init => Abstract!Init
  BY DEF Init, Abstract!Init, Phase
<1>2. TypeOK /\ InsideHoldsLock /\ [Next]_vars => [Abstract!Next]_(Abstract!vars)
  BY RefinementStep
<1> QED
  BY <1>1, <1>2, TypeCorrect, InsideHoldsLockAlways, PTL
     DEF Spec, ImplementsServerBoot, Abstract!Spec
=============================================================================
