-------------------------- MODULE UtermServerProofs --------------------------
(***************************************************************************)
(* ServerInv is inductive, hence the safety properties of UtermServer and  *)
(* ServerReaders hold for any set of clients and any number of runtimes.   *)
(***************************************************************************)
EXTENDS ServerReaders, FiniteSetTheorems, TLAPS

(* Who holds the lock, and where a thread is while it stops a session.      *)
ThreadInv ==
    /\ lock = "recv" <=> recv.pc = "register"
    /\ lock = "main" <=> main.pc = "stopping"
    /\ main.pc # "serving" => stopEvent
    /\ main.todo # {} => main.pc = "stopping"
    /\ teardown["main"] # Idle => main.pc = "stopping"
    /\ teardown["recv"] # Idle => recv.pc = "cleaning"
    /\ recv.pc \in {"lookup", "register", "accept", "write", "cleanup"} => recv.client \in Clients

(* A runtime that is being stopped has left the registry, unless it is stop *)
(* that does it, which holds the lock.                                      *)
RegistryInv ==
    /\ \A c, d \in Clients : clients[c] = clients[d] /\ clients[c] # 0 => c = d
    /\ recv.pc = "register" =>
          /\ recv.runtime = created /\ created # 0
          /\ clients[recv.client] = 0
          /\ ~ Registered(created) /\ ~ InTeardown(created)
    /\ \A a \in {"recv", "janitor"} : teardown[a] # Idle => ~ Registered(teardown[a].runtime)
    /\ teardown["main"] # Idle => Registered(teardown["main"].runtime)
    /\ \A r \in main.todo : Registered(r) /\ teardown["main"].runtime # r

TeardownInv ==
    /\ \A a \in Actors : teardown[a].stage = "none" <=> teardown[a].runtime = 0
    /\ \A a \in Actors : teardown[a] # Idle => sessionStop[teardown[a].runtime]
    /\ \A a \in Actors : teardown[a].stage \in {"close", "clear"} => shell[teardown[a].runtime] = "dead"
    /\ TeardownExclusive

(* _master_fd stands for the session's own pty, except between the close of *)
(* the number and the assignment of None.                                   *)
Clearing(r) == \E a \in Actors : teardown[a].stage = "clear" /\ teardown[a].runtime = r
DescriptorInv ==
    /\ \A r \in Runtimes : r > created => shell[r] = "none" /\ masterFd[r] = 0
    /\ \A r \in Runtimes : masterFd[r] # 0 /\ ~ Clearing(r) => pty[masterFd[r]] = r
    /\ \A f, g \in Fds : pty[f] = pty[g] /\ pty[f] # 0 => f = g
    /\ \A r \in Runtimes :
          recv.pc \in {"register", "accept", "write"} /\ recv.runtime = r /\ masterFd[r] # 0
             => pty[masterFd[r]] \in {0, r}

(* What runs on after stop was created by the last packet.                  *)
Survivors == {r \in Runtimes : shell[r] = "running" /\ ~ InTeardown(r)}
StopInv ==
    /\ main.pc = "stopping" =>
          \A r \in Runtimes : Registered(r) /\ shell[r] = "running" =>
                                 r \in main.todo \/ teardown["main"].runtime = r
    /\ main.pc \in {"closing", "stopped"} =>
          /\ \A r, s \in Survivors : r = s
          /\ Survivors # {} => recv.pc \notin {"recvfrom", "lookup"}

ServerInv ==
    /\ TypeOK
    /\ ThreadInv
    /\ RegistryInv
    /\ TeardownInv
    /\ NoLeakedSession
    /\ DescriptorInv
    /\ StopInv

(* The number a reader is about to read from is its session's, until the    *)
(* session is stopped.                                                      *)
ReaderInv ==
    /\ reader \in [Runtimes -> [pc : {"none", "loop", "enter", "blocked", "ended"},
                                fd : {0} \cup Fds, file : 0..MaxRuntimes]]
    /\ \A r \in Runtimes :
          /\ reader[r].pc = "enter" => reader[r].fd # 0
          /\ ~ sessionStop[r] => /\ reader[r].pc = "enter" => reader[r].fd = masterFd[r]
                                 /\ reader[r].file \in {0, r}
------------------------------------------------------------------------------
(* Descriptors: while a runtime can be created, a number is free.           *)

LEMMA LeastElement ==
    ASSUME NEW S \in SUBSET Nat, S # {}
    PROVE  \E x \in S : \A y \in S : x <= y
<1>1. IsWellFoundedOn(OpToRel(<, Nat), Nat)
  BY NatLessThanWellFounded
<1>2. PICK x \in S : \A y \in S : ~ (<<y, x>> \in OpToRel(<, Nat))
  BY <1>1, WFMin
<1>3. ASSUME NEW y \in S PROVE x <= y
  <2>1. <<y, x>> \in Nat \X Nat
    OBVIOUS
  <2>2. ~ (y < x)
    BY <1>2, <2>1 DEF OpToRel
  <2> QED
    BY <2>2
<1> QED
  BY <1>3

LEMMA FreeFdIsFree ==
    ASSUME TypeOK, DescriptorInv, NewRuntime
    PROVE  FreeFd \in Fds /\ pty[FreeFd] = 0
<1> DEFINE free == {f \in Fds : pty[f] = 0}
<1>1. MaxRuntimes \in Nat /\ created \in Nat /\ created < MaxRuntimes
  BY ServerAssumption DEF TypeOK, NewRuntime
<1>2. free # {}
  <2> SUFFICES ASSUME \A f \in Fds : pty[f] # 0 PROVE FALSE
    OBVIOUS
  <2>1. pty \in [1..MaxRuntimes -> 1..created]
    BY <1>1 DEF TypeOK, Fds
  <2>2. IsFiniteSet(1..MaxRuntimes) /\ Cardinality(1..MaxRuntimes) = MaxRuntimes
    <3>1. 1 \in Int /\ MaxRuntimes \in Int /\ ~ (1 > MaxRuntimes) /\ MaxRuntimes - 1 + 1 = MaxRuntimes
      BY <1>1
    <3> QED
      BY <3>1, FS_Interval
  <2>3. IsFiniteSet(1..created) /\ Cardinality(1..created) = created
    <3>1. 1 \in Int /\ created \in Int /\ (1 > created => created = 0) /\ created - 1 + 1 = created
      BY <1>1
    <3> QED
      BY <3>1, FS_Interval
  <2>4. \E f, g \in 1..MaxRuntimes : f # g /\ pty[f] = pty[g]
    BY <1>1, <2>1, <2>2, <2>3, FS_PigeonHole
  <2> QED
    BY <2>4 DEF DescriptorInv, Fds
<1>3. free \in SUBSET Nat
  BY <1>1 DEF Fds
<1>4. \E x \in free : \A y \in free : x <= y
  BY <1>2, <1>3, LeastElement
<1>5. FreeFd \in free
  BY <1>4 DEF FreeFd, Min
<1> QED
  BY <1>5
------------------------------------------------------------------------------
(* Types *)

LEMMA TypeInit == Init => TypeOK
<1> SUFFICES ASSUME Init PROVE TypeOK
  OBVIOUS
<1> USE ServerAssumption DEF Init, TypeOK
<1>1. created \in 0..MaxRuntimes /\ clients \in [Clients -> 0..created] /\ lock \in {None, "recv", "main"}
  OBVIOUS
<1>2. /\ silent \in [Clients -> BOOLEAN]
      /\ shell \in [Runtimes -> {"none", "running", "dead"}]
      /\ masterFd \in [Runtimes -> {0} \cup Fds]
      /\ pty \in [Fds -> 0..created]
      /\ sessionStop \in [Runtimes -> BOOLEAN]
  OBVIOUS
<1>3. recv \in [pc : {"recvfrom", "lookup", "register", "accept", "write", "cleanup",
                      "cleaning", "ended", "crashed"},
                client : Clients \cup {None}, kind : Kinds, runtime : 0..created]
  BY DEF NoneInHand, Kinds
<1>4. /\ janitor \in [pc : {"sleep", "clean", "ended"}, stale : SUBSET Clients]
      /\ main \in [pc : {"serving", "locking", "stopping", "closing", "stopped"},
                   todo : SUBSET Runtimes]
      /\ teardown \in [Actors -> [runtime : 0..created,
                                  stage : {"none", "kill", "close", "clear"}]]
  BY DEF Idle, Actors
<1>5. stopEvent \in BOOLEAN /\ sockOpen \in BOOLEAN
  OBVIOUS
<1> QED
  BY <1>1, <1>2, <1>3, <1>4, <1>5

LEMMA PopTypes ==
    ASSUME TypeOK, NEW a \in Actors, NEW c \in Clients, Pop(a, c)
    PROVE  /\ clients' \in [Clients -> 0..created]
           /\ teardown' \in [Actors -> [runtime : 0..created,
                                        stage : {"none", "kill", "close", "clear"}]]
           /\ sessionStop' \in [Runtimes -> BOOLEAN]
<1>1. created \in Nat /\ clients[c] \in 0..created
  BY ServerAssumption DEF TypeOK
<1>2. clients' \in [Clients -> 0..created]
  BY <1>1 DEF TypeOK, Pop
<1>3. CASE clients[c] = 0
  BY <1>2, <1>3 DEF TypeOK, Pop
<1>4. CASE clients[c] # 0
  <2>1. teardown' = [teardown EXCEPT ![a] = [runtime |-> clients[c], stage |-> "kill"]]
        /\ sessionStop' = [sessionStop EXCEPT ![clients[c]] = TRUE]
    BY <1>4 DEF Pop, BeginTeardown
  <2> QED
    BY <1>1, <1>2, <2>1 DEF TypeOK
<1> QED
  BY <1>3, <1>4

RecvTypes == [pc : {"recvfrom", "lookup", "register", "accept", "write", "cleanup",
                    "cleaning", "ended", "crashed"},
              client : Clients \cup {None}, kind : Kinds, runtime : 0..created]

LEMMA RecvTypesStep ==
    ASSUME TypeOK, ThreadInv
    PROVE  /\ \A pc \in {"register", "accept", "write", "cleanup", "cleaning", "ended", "crashed"} :
                 RecvGoes(pc) => recv' \in RecvTypes
           /\ NextPacket => recv' \in RecvTypes
           /\ FindRuntime => recv' \in RecvTypes
<1>1. recv \in RecvTypes
  BY DEF TypeOK, RecvTypes
<1>2. \A pc \in {"register", "accept", "write", "cleanup", "cleaning", "ended", "crashed"} :
                 RecvGoes(pc) => recv' \in RecvTypes
  BY <1>1 DEF RecvGoes, RecvTypes
<1>3. NextPacket => recv' \in RecvTypes
  BY ServerAssumption DEF NextPacket, NoneInHand, LoopHead, RecvTypes, Kinds, TypeOK
<1>4. ASSUME FindRuntime PROVE recv' \in RecvTypes
  <2>1. recv.client \in Clients /\ clients[recv.client] \in 0..created
    BY <1>4 DEF FindRuntime, ThreadInv, TypeOK
  <2> QED
    BY <1>1, <1>4, <2>1 DEF FindRuntime, RecvTypes
<1> QED
  BY <1>2, <1>3, <1>4

LEMMA RecvStepTypes ==
    ASSUME TypeOK, ThreadInv, DescriptorInv,
           \/ \E c \in Clients, k \in Kinds : Receive(c, k)
           \/ RecvEnds \/ FindRuntime \/ StartSession \/ SessionStartFails \/ Register
           \/ Accept \/ Write \/ Disconnect \/ DisconnectDone
    PROVE  TypeOK'
<1> USE DEF registryVars, sessionVars, threadVars
<1>1. ASSUME NEW c \in Clients, NEW k \in Kinds, Receive(c, k) PROVE TypeOK'
  <2>1. recv' \in RecvTypes
    BY <1>1, ServerAssumption DEF Receive, TypeOK, RecvTypes
  <2> QED
    BY <1>1, <2>1 DEF Receive, TypeOK, RecvTypes
<1>2. CASE RecvEnds
  <2>1. recv' \in RecvTypes
    BY <1>2, RecvTypesStep DEF RecvEnds
  <2> QED
    BY <1>2, <2>1 DEF RecvEnds, TypeOK, RecvTypes
<1>3. CASE FindRuntime
  <2>1. recv' \in RecvTypes
    BY <1>3, RecvTypesStep
  <2> QED
    BY <1>3, <2>1 DEF FindRuntime, TypeOK, RecvTypes
<1>n. ASSUME NewRuntime
      PROVE  /\ created \in Nat /\ created' = created + 1 /\ created' \in Runtimes
             /\ created' \in 0..MaxRuntimes
             /\ FreeFd \in Fds
  BY <1>n, FreeFdIsFree, ServerAssumption DEF NewRuntime, TypeOK, Runtimes
<1>4. CASE StartSession
  <2> USE <1>n, <1>4 DEF StartSession, TypeOK
  <2>1. created' \in 0..MaxRuntimes /\ clients' \in [Clients -> 0..created']
    OBVIOUS
  <2>2. /\ shell' \in [Runtimes -> {"none", "running", "dead"}]
        /\ masterFd' \in [Runtimes -> {0} \cup Fds]
        /\ pty' \in [Fds -> 0..created']
    OBVIOUS
  <2>3. recv' \in RecvTypes'
    <3>1. created' \in 0..created' /\ "register" \in {"register"}
      OBVIOUS
    <3>2. recv' = [pc |-> "register", client |-> recv.client, kind |-> recv.kind, runtime |-> created']
      OBVIOUS
    <3> QED
      BY <3>1, <3>2 DEF RecvTypes
  <2>4. teardown' \in [Actors -> [runtime : 0..created',
                                  stage : {"none", "kill", "close", "clear"}]]
    <3>1. \A a \in Actors : teardown[a] \in [runtime : 0..created',
                                             stage : {"none", "kill", "close", "clear"}]
      OBVIOUS
    <3> QED
      BY <3>1
  <2> QED
    BY <2>1, <2>2, <2>3, <2>4 DEF RecvTypes
<1>5. CASE SessionStartFails
  <2> USE <1>5 DEF SessionStartFails, TypeOK
  <2>0. recv' \in RecvTypes
    BY RecvTypesStep
  <2>1. CASE UNCHANGED <<created, masterFd, pty>>
    BY <2>0, <2>1 DEF RecvTypes
  <2>2. CASE /\ NewRuntime
             /\ masterFd' = [masterFd EXCEPT ![created'] = FreeFd]
             /\ pty' = [pty EXCEPT ![FreeFd] = created']
    <3> USE <1>n, <2>2
    <3>1. created' \in 0..MaxRuntimes /\ clients' \in [Clients -> 0..created']
      OBVIOUS
    <3>2. masterFd' \in [Runtimes -> {0} \cup Fds] /\ pty' \in [Fds -> 0..created']
      OBVIOUS
    <3>3. recv' \in RecvTypes'
      BY <2>0 DEF RecvTypes
    <3>4. teardown' \in [Actors -> [runtime : 0..created',
                                    stage : {"none", "kill", "close", "clear"}]]
      <4>1. \A a \in Actors : teardown[a] \in [runtime : 0..created',
                                               stage : {"none", "kill", "close", "clear"}]
        OBVIOUS
      <4> QED
        BY <4>1
    <3> QED
      BY <3>1, <3>2, <3>3, <3>4 DEF RecvTypes
  <2> QED
    BY <2>1, <2>2
<1>6. CASE Register
  <2>1. recv' \in RecvTypes
    BY <1>6, RecvTypesStep DEF Register
  <2>2. recv.runtime \in 0..created
    BY DEF TypeOK
  <2> QED
    BY <1>6, <2>1, <2>2 DEF Register, Release, TypeOK, RecvTypes
<1>7. CASE Accept
  <2>1. recv' \in RecvTypes
    BY <1>7, RecvTypesStep DEF Accept
  <2> QED
    BY <1>7, <2>1 DEF Accept, TypeOK, RecvTypes
<1>8. CASE Write
  <2>1. recv' \in RecvTypes
    BY <1>8, RecvTypesStep DEF Write
  <2> QED
    BY <1>8, <2>1 DEF Write, TypeOK, RecvTypes
<1>9. CASE Disconnect
  <2>1. recv' \in RecvTypes
    BY <1>9, RecvTypesStep DEF Disconnect
  <2>2. recv.client \in Clients /\ Pop("recv", recv.client) /\ "recv" \in Actors
    BY <1>9 DEF Disconnect, CleanupClient, ThreadInv, Actors
  <2> QED
    BY <1>9, <2>1, <2>2, PopTypes DEF Disconnect, CleanupClient, TypeOK, RecvTypes
<1>10. CASE DisconnectDone
  <2>1. recv' \in RecvTypes
    BY <1>10, RecvTypesStep DEF DisconnectDone
  <2> QED
    BY <1>10, <2>1 DEF DisconnectDone, TypeOK, RecvTypes
<1> QED
  BY <1>1, <1>2, <1>3, <1>4, <1>5, <1>6, <1>7, <1>8, <1>9, <1>10

LEMMA TypeStep ==
    ASSUME TypeOK, ThreadInv, RegistryInv, DescriptorInv, Next
    PROVE  TypeOK'
<1> USE DEF registryVars, sessionVars, threadVars
<1>1. ASSUME NEW a \in Actors, Teardown(a) PROVE TypeOK'
  <2>0. \A s \in {"close", "clear"} : NextStage(a, s) =>
           teardown' \in [Actors -> [runtime : 0..created,
                                     stage : {"none", "kill", "close", "clear"}]]
    BY DEF NextStage, TypeOK
  <2>1. CASE KillShell(a)
    <3>1. shell' \in [Runtimes -> {"none", "running", "dead"}]
      BY <2>1 DEF KillShell, TypeOK
    <3> QED
      BY <2>0, <2>1, <3>1 DEF KillShell, TypeOK
  <2>2. CASE CloseMaster(a)
    <3>1. pty' \in [Fds -> 0..created]
      BY <2>2, ServerAssumption DEF CloseMaster, TypeOK
    <3> QED
      BY <2>0, <2>2, <3>1 DEF CloseMaster, TypeOK
  <2>3. CASE ClearSession(a)
    <3>1. Idle \in [runtime : 0..created, stage : {"none", "kill", "close", "clear"}]
      BY ServerAssumption DEF Idle, TypeOK
    <3>2. teardown' \in [Actors -> [runtime : 0..created,
                                    stage : {"none", "kill", "close", "clear"}]]
      BY <2>3, <3>1 DEF ClearSession, TypeOK
    <3>3. masterFd' \in [Runtimes -> {0} \cup Fds]
      BY <2>3 DEF ClearSession, TypeOK
    <3> QED
      BY <2>3, <3>2, <3>3 DEF ClearSession, TypeOK
  <2> QED
    BY <1>1, <2>1, <2>2, <2>3 DEF Teardown
<1>2. CASE Scan \/ ScanDone
  <2>1. StaleClients \subseteq Clients /\ JanitorHead \in {"ended", "sleep"}
    BY DEF StaleClients, JanitorHead
  <2> QED
    BY <1>2, <2>1 DEF Scan, ScanDone, TypeOK
<1>3. ASSUME NEW c \in Clients, CleanStale(c) PROVE TypeOK'
  <2>1. Pop("janitor", c) /\ "janitor" \in Actors
    BY <1>3 DEF CleanStale, CleanupClient, Actors
  <2> QED
    BY <1>3, <2>1, PopTypes DEF CleanStale, CleanupClient, TypeOK
<1>4. CASE Stop \/ LockForStop \/ UnlockAfterStop \/ CloseSocket
  <2>1. CASE Stop
    BY <2>1 DEF Stop, TypeOK
  <2>2. CASE LockForStop
    BY <2>2 DEF LockForStop, TypeOK
  <2>3. CASE UnlockAfterStop
    BY <2>3 DEF UnlockAfterStop, Release, TypeOK
  <2>4. CASE CloseSocket
    BY <2>4 DEF CloseSocket, TypeOK
  <2> QED
    BY <1>4, <2>1, <2>2, <2>3, <2>4
<1>5. ASSUME NEW r \in Runtimes, StopSession(r) PROVE TypeOK'
  <2>1. r \in 0..created
    <3>1. \E c \in Clients : clients[c] = r
      BY <1>5 DEF StopSession, RegistryInv, Registered
    <3> QED
      BY <3>1 DEF TypeOK
  <2> QED
    BY <1>5, <2>1 DEF StopSession, BeginTeardown, TypeOK
<1>6. ASSUME NEW r \in Runtimes, ShellExits(r) PROVE TypeOK'
  BY <1>6 DEF ShellExits, TypeOK
<1>7. ASSUME NEW c \in Clients, TimePasses(c) PROVE TypeOK'
  BY <1>7 DEF TimePasses, TypeOK
<1> QED
  BY <1>1, <1>2, <1>3, <1>4, <1>5, <1>6, <1>7, RecvStepTypes
     DEF Next, RecvStep, JanitorStep, StopStep, Actors
------------------------------------------------------------------------------
(* What a step of session.stop, and the clean-up that calls it, leave alone *)

LEMMA TeardownFacts ==
    ASSUME TypeOK, NEW a \in Actors, Teardown(a)
    PROVE  /\ UNCHANGED <<created, clients, lock, silent, sessionStop, recv, janitor, main,
                          stopEvent, sockOpen>>
           /\ teardown[a] # Idle
           /\ \A b \in Actors \ {a} : teardown'[b] = teardown[b]
           /\ teardown'[a] = Idle \/ (teardown'[a] # Idle /\ teardown'[a].runtime = teardown[a].runtime)
<1>1. Idle.stage = "none" /\ teardown[a].stage # "none"
  BY DEF Teardown, KillShell, CloseMaster, ClearSession, Idle
<1>2. UNCHANGED <<created, clients, lock, silent, sessionStop, recv, janitor, main, stopEvent, sockOpen>>
  BY DEF Teardown, KillShell, CloseMaster, ClearSession, registryVars
<1>3. ASSUME NEW s \in {"close", "clear"}, NextStage(a, s)
      PROVE  /\ \A b \in Actors \ {a} : teardown'[b] = teardown[b]
             /\ teardown'[a].stage # "none" /\ teardown'[a].runtime = teardown[a].runtime
  BY <1>3 DEF NextStage, TypeOK
<1>4. ASSUME ClearSession(a)
      PROVE  (\A b \in Actors \ {a} : teardown'[b] = teardown[b]) /\ teardown'[a] = Idle
  BY <1>4 DEF ClearSession, TypeOK
<1> QED
  BY <1>1, <1>2, <1>3, <1>4 DEF Teardown, KillShell, CloseMaster

LEMMA BeginFacts ==
    ASSUME TypeOK, NEW a \in Actors, NEW r \in Runtimes, BeginTeardown(a, r)
    PROVE  /\ \A b \in Actors \ {a} : teardown'[b] = teardown[b]
           /\ teardown'[a] = [runtime |-> r, stage |-> "kill"] /\ teardown'[a] # Idle
           /\ sessionStop'[r]
           /\ \A s \in Runtimes : sessionStop[s] => sessionStop'[s]
<1>1. 0 \notin Runtimes
  BY DEF Runtimes
<1>2. teardown'[a] = [runtime |-> r, stage |-> "kill"]
  BY DEF BeginTeardown, TypeOK
<1>3. sessionStop'[r] /\ \A s \in Runtimes : sessionStop[s] => sessionStop'[s]
  BY DEF BeginTeardown, TypeOK
<1>4. \A b \in Actors \ {a} : teardown'[b] = teardown[b]
  BY DEF BeginTeardown, TypeOK
<1> QED
  BY <1>1, <1>2, <1>3, <1>4 DEF Idle

LEMMA PopFacts ==
    ASSUME TypeOK, NEW a \in Actors, NEW c \in Clients, Pop(a, c)
    PROVE  /\ \/ clients[c] = 0 /\ UNCHANGED <<clients, teardown, sessionStop>>
              \/ /\ clients[c] \in Runtimes
                 /\ clients' = [clients EXCEPT ![c] = 0]
                 /\ BeginTeardown(a, clients[c])
           /\ \A b \in Actors \ {a} : teardown'[b] = teardown[b]
<1>1. clients[c] \in 0..created /\ created \in 0..MaxRuntimes /\ MaxRuntimes \in Nat
  BY ServerAssumption DEF TypeOK
<1>2. CASE clients[c] = 0
  BY <1>2 DEF Pop, TypeOK
<1>3. CASE clients[c] # 0
  <2>1. clients[c] \in Runtimes /\ BeginTeardown(a, clients[c]) /\ clients' = [clients EXCEPT ![c] = 0]
    BY <1>1, <1>3 DEF Pop, Runtimes
  <2> QED
    BY <2>1, BeginFacts
<1> QED
  BY <1>2, <1>3
------------------------------------------------------------------------------
(* The lock                                                                 *)

LEMMA ThreadStep ==
    ASSUME ServerInv, Next
    PROVE  ThreadInv'
<1> USE DEF registryVars, sessionVars, threadVars
<1> TypeOK /\ ThreadInv
  BY DEF ServerInv
<1>0. None # "recv" /\ None # "main" /\ "main" \in Actors /\ "recv" \in Actors /\ "janitor" \in Actors
  BY ServerAssumption DEF Actors
<1>1. ASSUME NEW c \in Clients, NEW k \in Kinds, Receive(c, k) PROVE ThreadInv'
  BY <1>0, <1>1 DEF Receive, ThreadInv
<1>2. CASE RecvEnds
  BY <1>2 DEF RecvEnds, RecvGoes, ThreadInv, TypeOK
<1>3. CASE FindRuntime
  BY <1>3 DEF FindRuntime, ThreadInv, TypeOK
<1>4. CASE StartSession
  BY <1>0, <1>4 DEF StartSession, MustCreate, LockFree, ThreadInv, TypeOK
<1>5. CASE SessionStartFails
  BY <1>5 DEF SessionStartFails, MustCreate, LockFree, RecvGoes, ThreadInv, TypeOK
<1>6. CASE Register
  BY <1>0, <1>6 DEF Register, Release, RecvGoes, ThreadInv, TypeOK
<1>n. NextPacket => recv'.pc \in {"ended", "recvfrom"}
  BY DEF NextPacket, NoneInHand, LoopHead
<1>7. CASE Accept
  BY <1>7, <1>n DEF Accept, RecvGoes, ThreadInv, TypeOK
<1>8. CASE Write
  BY <1>8, <1>n DEF Write, RecvGoes, ThreadInv, TypeOK
<1>9. CASE Disconnect
  <2>1. /\ recv.client \in Clients /\ Pop("recv", recv.client) /\ RecvGoes("cleaning")
        /\ recv.pc = "cleanup" /\ UNCHANGED <<lock, main, stopEvent>>
    BY <1>9 DEF Disconnect, CleanupClient, ThreadInv
  <2>2. teardown'["main"] = teardown["main"]
    BY <1>0, <2>1, PopFacts
  <2> QED
    BY <2>1, <2>2 DEF RecvGoes, ThreadInv, TypeOK
<1>10. CASE DisconnectDone
  BY <1>10, <1>n DEF DisconnectDone, ThreadInv
<1>11. ASSUME NEW a \in Actors, Teardown(a) PROVE ThreadInv'
  <2>1. \A b \in Actors : teardown'[b] # Idle => teardown[b] # Idle
    BY <1>11, TeardownFacts
  <2> QED
    BY <1>0, <1>11, <2>1, TeardownFacts DEF ThreadInv
<1>12. CASE Scan \/ ScanDone
  BY <1>12 DEF Scan, ScanDone, ThreadInv
<1>13. ASSUME NEW c \in Clients, CleanStale(c) PROVE ThreadInv'
  <2>1. Pop("janitor", c) /\ UNCHANGED <<lock, main, stopEvent, recv>>
    BY <1>13 DEF CleanStale, CleanupClient
  <2>2. teardown'["main"] = teardown["main"] /\ teardown'["recv"] = teardown["recv"]
    BY <1>0, <2>1, PopFacts
  <2> QED
    BY <2>1, <2>2 DEF ThreadInv
<1>14. CASE Stop
  BY <1>14 DEF Stop, ThreadInv, TypeOK
<1>15. CASE LockForStop
  BY <1>0, <1>15 DEF LockForStop, LockFree, ThreadInv
<1>16. ASSUME NEW r \in Runtimes, StopSession(r) PROVE ThreadInv'
  <2>1. /\ main.pc = "stopping" /\ main'.pc = "stopping" /\ teardown'["recv"] = teardown["recv"]
        /\ UNCHANGED <<lock, stopEvent, recv>>
    BY <1>0, <1>16, BeginFacts DEF StopSession, ThreadInv, TypeOK
  <2> QED
    BY <2>1 DEF ThreadInv
<1>17. CASE UnlockAfterStop
  BY <1>0, <1>17 DEF UnlockAfterStop, Release, ThreadInv, TypeOK
<1>18. CASE CloseSocket
  BY <1>18 DEF CloseSocket, ThreadInv, TypeOK
<1>19. ASSUME NEW r \in Runtimes, ShellExits(r) PROVE ThreadInv'
  BY <1>19 DEF ShellExits, ThreadInv
<1>20. ASSUME NEW c \in Clients, TimePasses(c) PROVE ThreadInv'
  BY <1>20 DEF TimePasses, ThreadInv
<1> QED
  BY <1>0, <1>1, <1>2, <1>3, <1>4, <1>5, <1>6, <1>7, <1>8, <1>9, <1>10, <1>11, <1>12, <1>13,
     <1>14, <1>15, <1>16, <1>17, <1>18, <1>19, <1>20
     DEF Next, RecvStep, JanitorStep, StopStep
------------------------------------------------------------------------------
(* The registry                                                             *)

(* A step that changes neither the registry nor what is being stopped.      *)
LEMMA RegistryFrame ==
    ASSUME RegistryInv, UNCHANGED <<clients, teardown>>,
           main'.todo = main.todo, recv'.pc # "register"
    PROVE  RegistryInv'
<1>1. \A r : (Registered(r))' = Registered(r)
  BY DEF Registered
<1> QED
  BY <1>1 DEF RegistryInv

LEMMA PopRegistry ==
    ASSUME ServerInv, NEW a \in {"recv", "janitor"}, NEW c \in Clients, LockFree, Pop(a, c),
           UNCHANGED main, recv'.pc # "register"
    PROVE  RegistryInv'
<1> TypeOK /\ ThreadInv /\ RegistryInv /\ a \in Actors /\ "main" \in Actors \ {a}
  BY DEF ServerInv, Actors
<1>1. main.todo = {} /\ teardown["main"] = Idle
  BY ServerAssumption DEF LockFree, ThreadInv
<1>2. CASE clients[c] = 0 /\ UNCHANGED <<clients, teardown, sessionStop>>
  BY <1>2, RegistryFrame
<1>3. CASE /\ clients[c] \in Runtimes
           /\ clients' = [clients EXCEPT ![c] = 0]
           /\ BeginTeardown(a, clients[c])
  <2>0. 0 \notin Runtimes
    BY DEF Runtimes
  <2>1. \A d \in Clients : clients'[d] = IF d = c THEN 0 ELSE clients[d]
    BY <1>3 DEF TypeOK
  <2>2. \A r \in Runtimes : (Registered(r))' => Registered(r) /\ r # clients[c]
    BY <2>0, <2>1 DEF Registered, RegistryInv
  <2>3. teardown'[a] = [runtime |-> clients[c], stage |-> "kill"]
        /\ \A b \in Actors \ {a} : teardown'[b] = teardown[b]
    BY <1>3, BeginFacts
  <2>4. \A b \in {"recv", "janitor"} : teardown'[b] # Idle => ~ (Registered(teardown[b].runtime))'
    <3> SUFFICES ASSUME NEW b \in {"recv", "janitor"}, teardown'[b] # Idle
                 PROVE  ~ (\E d \in Clients : clients'[d] = teardown'[b].runtime)
      BY DEF Registered
    <3>1. CASE b = a
      BY <1>3, <2>0, <2>1, <2>3, <3>1 DEF RegistryInv
    <3>2. CASE b # a
      <4>1. teardown'[b] = teardown[b] /\ teardown[b].runtime \in 0..created
        BY <2>3, <3>2 DEF Actors, TypeOK
      <4>2. ~ Registered(teardown[b].runtime)
        BY <4>1 DEF RegistryInv
      <4>3. teardown[b].runtime # 0
        BY <4>1 DEF ServerInv, TeardownInv, TypeOK, Actors, Idle
      <4> QED
        BY <2>1, <4>1, <4>2, <4>3 DEF Registered
    <3> QED
      BY <3>1, <3>2
  <2>5. \A d, e \in Clients : clients'[d] = clients'[e] /\ clients'[d] # 0 => d = e
    BY <2>1 DEF RegistryInv
  <2> QED
    BY <1>1, <2>3, <2>4, <2>5 DEF RegistryInv
<1> QED
  BY <1>2, <1>3, PopFacts

LEMMA RegistryStep ==
    ASSUME ServerInv, Next
    PROVE  RegistryInv'
<1> USE DEF registryVars, sessionVars, threadVars
<1> TypeOK /\ ThreadInv /\ RegistryInv /\ TeardownInv
  BY DEF ServerInv
<1>0. /\ "main" \in Actors /\ "recv" \in Actors /\ "janitor" \in Actors /\ Idle.runtime = 0
      /\ MaxRuntimes \in Nat /\ created \in Nat
  BY ServerAssumption DEF Actors, Idle, TypeOK
<1>n. NextPacket => recv'.pc # "register"
  BY DEF NextPacket, NoneInHand, LoopHead
<1>1. CASE \/ \E c \in Clients, k \in Kinds : Receive(c, k)
           \/ RecvEnds \/ FindRuntime \/ SessionStartFails \/ Accept \/ Write \/ DisconnectDone
  <2>1. UNCHANGED <<clients, teardown, main>>
    BY <1>1 DEF Receive, RecvEnds, FindRuntime, SessionStartFails, Accept, Write, DisconnectDone
  <2>2. recv'.pc # "register"
    <3>1. ASSUME NEW c \in Clients, NEW k \in Kinds, Receive(c, k) PROVE recv'.pc # "register"
      BY <3>1 DEF Receive
    <3>2. CASE RecvEnds \/ FindRuntime \/ SessionStartFails
      BY <3>2 DEF RecvEnds, FindRuntime, SessionStartFails, RecvGoes, TypeOK
    <3>3. CASE Accept \/ Write \/ DisconnectDone
      BY <1>n, <3>3 DEF Accept, Write, DisconnectDone, RecvGoes, TypeOK
    <3> QED
      BY <1>1, <3>1, <3>2, <3>3
  <2> QED
    BY <2>1, <2>2, RegistryFrame
<1>2. CASE StartSession
  <2>1. /\ created' = created + 1 /\ created' # 0 /\ clients[recv.client] = 0
        /\ recv'.runtime = created' /\ recv'.client = recv.client /\ UNCHANGED <<clients, teardown, main>>
    BY <1>0, <1>2 DEF StartSession, NewRuntime, MustCreate, TypeOK
  <2>2. ~ (Registered(created'))
    BY <1>0, <2>1 DEF Registered, TypeOK
  <2>3. \A a \in Actors : teardown[a].runtime # created'
    BY <1>0, <2>1 DEF TypeOK
  <2>4. ~ (Registered(created))' /\ ~ (InTeardown(created))'
    BY <2>1, <2>2, <2>3 DEF Registered, InTeardown
  <2>5. \A r : (Registered(r))' = Registered(r)
    BY <2>1 DEF Registered
  <2> QED
    BY <2>1, <2>4, <2>5 DEF RegistryInv
<1>3. CASE Register
  <2>1. /\ recv.client \in Clients /\ recv.runtime = created /\ created # 0
        /\ ~ Registered(created) /\ ~ InTeardown(created)
        /\ teardown["main"] = Idle /\ main.todo = {}
    BY <1>3 DEF Register, ThreadInv, RegistryInv
  <2>2. recv'.pc # "register" /\ UNCHANGED <<teardown, main, created>>
    BY <1>3 DEF Register, RecvGoes, TypeOK
  <2>3. \A c \in Clients : clients'[c] = IF c = recv.client THEN created ELSE clients[c]
    BY <1>3, <2>1 DEF Register, TypeOK
  <2>4. \A c, d \in Clients : clients'[c] = clients'[d] /\ clients'[c] # 0 => c = d
    BY <2>1, <2>3 DEF RegistryInv, Registered
  <2>5. \A a \in {"recv", "janitor"} : teardown[a] # Idle => ~ (Registered(teardown[a].runtime))'
    BY <1>0, <2>1, <2>2, <2>3 DEF RegistryInv, Registered, InTeardown
  <2> QED
    BY <2>1, <2>2, <2>4, <2>5 DEF RegistryInv
<1>4. CASE Disconnect
  <2>1. /\ recv.client \in Clients /\ Pop("recv", recv.client) /\ LockFree
        /\ recv'.pc # "register" /\ UNCHANGED main
    BY <1>4 DEF Disconnect, CleanupClient, ThreadInv, RecvGoes, TypeOK
  <2> QED
    BY <2>1, PopRegistry
<1>5. ASSUME NEW c \in Clients, CleanStale(c) PROVE RegistryInv'
  <2>1. /\ Pop("janitor", c) /\ LockFree /\ lock = None /\ UNCHANGED <<main, recv>>
    BY <1>5 DEF CleanStale, CleanupClient, LockFree
  <2>2. recv'.pc # "register"
    BY <2>1, ServerAssumption DEF ThreadInv
  <2> QED
    BY <2>1, <2>2, PopRegistry
<1>6. ASSUME NEW a \in Actors, Teardown(a) PROVE RegistryInv'
  <2>1. /\ UNCHANGED <<clients, created, main, recv>>
        /\ \A b \in Actors : teardown'[b] = Idle \/ (teardown[b] # Idle /\ teardown'[b] # Idle
                                                      /\ teardown'[b].runtime = teardown[b].runtime)
    BY <1>6, TeardownFacts
  <2>2. \A r : (Registered(r))' = Registered(r)
    BY <2>1 DEF Registered
  <2>3. InTeardown(created)' /\ created # 0 => InTeardown(created)
    BY <1>0, <2>1 DEF InTeardown
  <2>4. \A r \in main.todo : teardown'["main"].runtime # r
    <3>1. 0 \notin main.todo
      BY DEF TypeOK, Runtimes
    <3> QED
      BY <1>0, <2>1, <3>1 DEF RegistryInv
  <2> QED
    BY <1>0, <2>1, <2>2, <2>3, <2>4 DEF RegistryInv
<1>7. CASE \/ Scan \/ ScanDone \/ Stop \/ UnlockAfterStop \/ CloseSocket
           \/ (\E r \in Runtimes : ShellExits(r)) \/ (\E c \in Clients : TimePasses(c))
  <2>1. UNCHANGED <<clients, created, teardown, recv>> /\ main'.todo = main.todo
    BY <1>7 DEF Scan, ScanDone, Stop, UnlockAfterStop, CloseSocket, ShellExits, TimePasses, TypeOK
  <2>2. \A r : (Registered(r))' = Registered(r) /\ (InTeardown(r))' = InTeardown(r)
    BY <2>1 DEF Registered, InTeardown
  <2> QED
    BY <2>1, <2>2 DEF RegistryInv
<1>8. CASE LockForStop
  <2>1. /\ lock = None /\ recv.pc # "register" /\ teardown["main"] = Idle
        /\ main'.todo = {r \in Runtimes : Registered(r)} /\ UNCHANGED <<clients, teardown, recv>>
    BY <1>8, ServerAssumption DEF LockForStop, LockFree, ThreadInv
  <2>2. \A r : (Registered(r))' = Registered(r)
    BY <2>1 DEF Registered
  <2>3. 0 \notin Runtimes
    BY DEF Runtimes
  <2> QED
    BY <1>0, <2>1, <2>2, <2>3 DEF RegistryInv
<1>9. ASSUME NEW r \in Runtimes, StopSession(r) PROVE RegistryInv'
  <2>1. /\ lock = "main" /\ recv.pc # "register"
        /\ main'.todo = main.todo \ {r} /\ r \in main.todo /\ UNCHANGED <<clients, recv>>
        /\ BeginTeardown("main", r)
    BY <1>9 DEF StopSession, ThreadInv, TypeOK
  <2>3. teardown'["main"].runtime = r /\ \A b \in Actors \ {"main"} : teardown'[b] = teardown[b]
    <3>1. /\ teardown'["main"] = [runtime |-> r, stage |-> "kill"]
          /\ \A b \in Actors \ {"main"} : teardown'[b] = teardown[b]
      BY <1>0, <2>1, BeginFacts, Zenon
    <3> QED
      BY <3>1
  <2>2. \A s : (Registered(s))' = Registered(s)
    BY <2>1 DEF Registered
  <2> QED
    BY <1>0, <2>1, <2>2, <2>3 DEF RegistryInv, Actors
<1> QED
  BY <1>0, <1>1, <1>2, <1>3, <1>4, <1>5, <1>6, <1>7, <1>8, <1>9
     DEF Next, RecvStep, JanitorStep, StopStep
------------------------------------------------------------------------------
(* The calls of session.stop                                                *)

LEMMA FreeRuntime ==
    ASSUME ServerInv, NEW r \in Runtimes, Registered(r), teardown["main"] = Idle
    PROVE  \A a \in Actors : teardown[a].runtime # r
<1>1. ASSUME NEW a \in {"recv", "janitor"} PROVE teardown[a].runtime # r
  <2>1. teardown[a] # Idle => teardown[a].runtime # r
    BY DEF ServerInv, RegistryInv
  <2> QED
    BY <2>1 DEF Idle, Runtimes
<1>2. teardown["main"].runtime # r
  BY DEF Idle, Runtimes
<1> QED
  BY <1>1, <1>2 DEF Actors

LEMMA PopFree ==
    ASSUME ServerInv, NEW c \in Clients, LockFree, clients[c] \in Runtimes
    PROVE  \A a \in Actors : teardown[a].runtime # clients[c]
<1>1. teardown["main"] = Idle
  BY ServerAssumption DEF ServerInv, ThreadInv, LockFree
<1> QED
  BY <1>1, FreeRuntime DEF Registered

LEMMA TeardownRuntime ==
    ASSUME TypeOK, TeardownInv, NEW a \in Actors,
           teardown[a] # Idle \/ teardown[a].stage # "none"
    PROVE  teardown[a].runtime \in Runtimes
<1>1. teardown[a] \in [runtime : 0..created, stage : {"none", "kill", "close", "clear"}]
  BY DEF TypeOK
<1> QED
  BY <1>1, ServerAssumption DEF TeardownInv, TypeOK, Idle, Runtimes

LEMMA TeardownFrame ==
    ASSUME TypeOK, TeardownInv, UNCHANGED <<teardown, sessionStop>>,
           \A a \in Actors :
              teardown[a].stage \in {"close", "clear"} /\ shell[teardown[a].runtime] = "dead" =>
                 shell'[teardown[a].runtime] = "dead"
    PROVE  TeardownInv'
BY DEF TeardownInv, TeardownExclusive

LEMMA TeardownBegins ==
    ASSUME TypeOK, TeardownInv, NEW a \in Actors, NEW r \in Runtimes, BeginTeardown(a, r),
           \A b \in Actors : teardown[b].runtime # r, UNCHANGED shell
    PROVE  TeardownInv'
<1>1. /\ teardown'[a] = [runtime |-> r, stage |-> "kill"] /\ sessionStop'[r]
      /\ \A b \in Actors \ {a} : teardown'[b] = teardown[b]
      /\ \A s \in Runtimes : sessionStop[s] => sessionStop'[s]
  BY BeginFacts
<1>2. 0 \notin Runtimes
  BY DEF Runtimes
<1>3. \A b \in Actors : teardown'[b].stage = "none" <=> teardown'[b].runtime = 0
  BY <1>1, <1>2 DEF TeardownInv
<1>4. \A b \in Actors : teardown'[b] # Idle => sessionStop'[teardown'[b].runtime]
  <2> SUFFICES ASSUME NEW b \in Actors, teardown'[b] # Idle
               PROVE  sessionStop'[teardown'[b].runtime]
    OBVIOUS
  <2>1. CASE b = a
    BY <1>1, <2>1
  <2>2. CASE b # a
    <3>1. teardown[b] # Idle
      BY <1>1, <2>2
    <3>2. teardown[b].runtime \in Runtimes
      BY <3>1, TeardownRuntime
    <3> QED
      BY <1>1, <2>2, <3>1, <3>2 DEF TeardownInv
  <2> QED
    BY <2>1, <2>2
<1>5. \A b \in Actors : teardown'[b].stage \in {"close", "clear"} => shell'[teardown'[b].runtime] = "dead"
  BY <1>1 DEF TeardownInv
<1>6. \A b, d \in Actors : teardown'[b].runtime = teardown'[d].runtime /\ teardown'[b] # Idle => b = d
  BY <1>1 DEF TeardownInv, TeardownExclusive
<1> QED
  BY <1>3, <1>4, <1>5, <1>6 DEF TeardownInv, TeardownExclusive

LEMMA TeardownStep ==
    ASSUME ServerInv, Next
    PROVE  TeardownInv'
<1> USE DEF registryVars, sessionVars, threadVars
<1> TypeOK /\ ThreadInv /\ RegistryInv /\ TeardownInv
  BY DEF ServerInv
<1>0. /\ "main" \in Actors /\ "recv" \in Actors /\ "janitor" \in Actors
      /\ MaxRuntimes \in Nat /\ created \in Nat
  BY ServerAssumption DEF Actors, TypeOK
<1>1. CASE \/ \E c \in Clients, k \in Kinds : Receive(c, k)
           \/ RecvEnds \/ FindRuntime \/ SessionStartFails \/ Register \/ Accept \/ Write \/ DisconnectDone
           \/ Scan \/ ScanDone \/ Stop \/ LockForStop \/ UnlockAfterStop \/ CloseSocket
           \/ \E c \in Clients : TimePasses(c)
  <2>1. UNCHANGED <<teardown, sessionStop, shell>>
    BY <1>1 DEF Receive, RecvEnds, FindRuntime, SessionStartFails, Register, Accept, Write, DisconnectDone,
                Scan, ScanDone, Stop, LockForStop, UnlockAfterStop, CloseSocket, TimePasses
  <2> QED
    BY <2>1, TeardownFrame
<1>2. CASE StartSession
  <2>1. UNCHANGED <<teardown, sessionStop>> /\ shell' = [shell EXCEPT ![created'] = "running"]
        /\ created' = created + 1
    BY <1>2 DEF StartSession, NewRuntime
  <2>2. \A a \in Actors : teardown[a].runtime # created'
    BY <1>0, <2>1 DEF TypeOK
  <2>3. \A a \in Actors : shell'[teardown[a].runtime] = shell[teardown[a].runtime]
    BY <2>1, <2>2 DEF TypeOK
  <2> QED
    BY <2>1, <2>3, TeardownFrame
<1>3. ASSUME NEW r \in Runtimes, ShellExits(r) PROVE TeardownInv'
  <2>1. UNCHANGED <<teardown, sessionStop>> /\ shell' = [shell EXCEPT ![r] = "dead"]
    BY <1>3 DEF ShellExits
  <2>2. \A s \in Runtimes : shell[s] = "dead" => shell'[s] = "dead"
    BY <2>1 DEF TypeOK
  <2> QED
    BY <2>1, <2>2, TeardownRuntime, TeardownFrame
<1>p. ASSUME NEW a \in {"recv", "janitor"}, NEW c \in Clients, LockFree, Pop(a, c), UNCHANGED shell
      PROVE  TeardownInv'
  <2>1. a \in Actors
    BY DEF Actors
  <2>2. CASE clients[c] = 0 /\ UNCHANGED <<clients, teardown, sessionStop>>
    BY <1>p, <2>2, TeardownFrame
  <2>3. CASE clients[c] \in Runtimes /\ BeginTeardown(a, clients[c])
    BY <1>p, <2>1, <2>3, PopFree, TeardownBegins
  <2> QED
    BY <1>p, <2>1, <2>2, <2>3, PopFacts
<1>4. CASE Disconnect
  <2>1. recv.client \in Clients /\ Pop("recv", recv.client) /\ LockFree /\ UNCHANGED shell
    BY <1>4 DEF Disconnect, CleanupClient, ThreadInv
  <2> QED
    BY <1>p, <2>1
<1>5. ASSUME NEW c \in Clients, CleanStale(c) PROVE TeardownInv'
  BY <1>p, <1>5 DEF CleanStale, CleanupClient
<1>6. ASSUME NEW a \in Actors, Teardown(a) PROVE TeardownInv'
  <2>1. /\ teardown[a] # Idle /\ UNCHANGED sessionStop
        /\ \A b \in Actors \ {a} : teardown'[b] = teardown[b]
        /\ teardown'[a] = Idle \/ (teardown'[a] # Idle /\ teardown'[a].runtime = teardown[a].runtime)
    BY <1>6, TeardownFacts
  <2>2. \A s \in Runtimes : shell[s] = "dead" => shell'[s] = "dead"
    BY <1>6 DEF Teardown, KillShell, CloseMaster, ClearSession, TypeOK
  <2>3. teardown[a].runtime \in Runtimes
    BY <2>1, TeardownRuntime
  <2>4. teardown'[a].stage = "none" <=> teardown'[a].runtime = 0
    <3>1. CASE KillShell(a) \/ CloseMaster(a)
      BY <2>3, <3>1 DEF KillShell, CloseMaster, NextStage, TypeOK, Runtimes
    <3>2. CASE ClearSession(a)
      BY <3>2 DEF ClearSession, TypeOK, Idle
    <3> QED
      BY <1>6, <3>1, <3>2 DEF Teardown
  <2>5. teardown'[a].stage \in {"close", "clear"} => shell'[teardown'[a].runtime] = "dead"
    <3>1. CASE KillShell(a)
      BY <2>3, <3>1 DEF KillShell, NextStage, TypeOK
    <3>2. CASE CloseMaster(a)
      BY <2>2, <2>3, <3>2 DEF CloseMaster, NextStage, TypeOK, TeardownInv
    <3>3. CASE ClearSession(a)
      BY <3>3 DEF ClearSession, TypeOK, Idle
    <3> QED
      BY <1>6, <3>1, <3>2, <3>3 DEF Teardown
  <2>6. \A b \in Actors : teardown'[b].stage = "none" <=> teardown'[b].runtime = 0
    BY <2>1, <2>4 DEF TeardownInv
  <2>7. \A b \in Actors : teardown'[b] # Idle => sessionStop'[teardown'[b].runtime]
    BY <2>1 DEF TeardownInv
  <2>8. \A b \in Actors : teardown'[b].stage \in {"close", "clear"} => shell'[teardown'[b].runtime] = "dead"
    BY <2>1, <2>2, <2>5, TeardownRuntime DEF TeardownInv
  <2>9. \A b, d \in Actors : teardown'[b].runtime = teardown'[d].runtime /\ teardown'[b] # Idle => b = d
    <3> SUFFICES ASSUME NEW b \in Actors, NEW d \in Actors,
                        teardown'[b].runtime = teardown'[d].runtime, teardown'[b] # Idle
                 PROVE  b = d
      OBVIOUS
    <3>1. 0 \notin Runtimes /\ Idle.runtime = 0
      BY DEF Runtimes, Idle
    <3>2. teardown[b] # Idle /\ teardown'[b].runtime = teardown[b].runtime
      BY <2>1
    <3>3. teardown[b].runtime \in Runtimes
      BY <3>2, TeardownRuntime
    <3>4. teardown'[d].runtime = teardown[d].runtime
      BY <2>1, <3>1, <3>2, <3>3
    <3> QED
      BY <3>2, <3>4 DEF TeardownInv, TeardownExclusive
  <2> QED
    BY <2>6, <2>7, <2>8, <2>9 DEF TeardownInv, TeardownExclusive
<1>7. ASSUME NEW r \in Runtimes, StopSession(r) PROVE TeardownInv'
  <2>1. /\ teardown["main"] = Idle /\ BeginTeardown("main", r) /\ UNCHANGED shell /\ Registered(r)
    BY <1>7 DEF StopSession, RegistryInv
  <2> QED
    BY <1>0, <2>1, FreeRuntime, TeardownBegins
<1> QED
  BY <1>0, <1>1, <1>2, <1>3, <1>4, <1>5, <1>6, <1>7
     DEF Next, RecvStep, JanitorStep, StopStep
------------------------------------------------------------------------------
(* Shells are not lost                                                      *)

Kept(r) == Registered(r) \/ (recv.pc = "register" /\ recv.runtime = r) \/ InTeardown(r)

LEMMA PopKeeps ==
    ASSUME TypeOK, NEW a \in Actors, NEW c \in Clients, Pop(a, c), teardown[a] = Idle,
           NEW r \in Runtimes, Registered(r) \/ InTeardown(r)
    PROVE  (Registered(r))' \/ (InTeardown(r))'
<1>0. 0 \notin Runtimes /\ Idle.runtime = 0
  BY DEF Runtimes, Idle
<1>1. CASE clients[c] = 0 /\ UNCHANGED <<clients, teardown, sessionStop>>
  BY <1>1 DEF Registered, InTeardown
<1>2. CASE /\ clients[c] \in Runtimes
           /\ clients' = [clients EXCEPT ![c] = 0]
           /\ BeginTeardown(a, clients[c])
  <2>1. /\ teardown'[a].runtime = clients[c]
        /\ \A b \in Actors \ {a} : teardown'[b] = teardown[b]
        /\ \A d \in Clients \ {c} : clients'[d] = clients[d]
    <3>1. teardown'[a] = [runtime |-> clients[c], stage |-> "kill"]
          /\ \A b \in Actors \ {a} : teardown'[b] = teardown[b]
      BY <1>2, BeginFacts
    <3> QED
      BY <1>2, <3>1 DEF TypeOK
  <2>2. CASE InTeardown(r)
    BY <1>0, <2>1, <2>2 DEF InTeardown
  <2>3. CASE Registered(r)
    BY <2>1, <2>3 DEF Registered, InTeardown
  <2> QED
    BY <2>2, <2>3
<1> QED
  BY <1>1, <1>2, PopFacts

LEMMA LeakStep ==
    ASSUME ServerInv, Next
    PROVE  NoLeakedSession'
<1> USE DEF registryVars, sessionVars, threadVars
<1> TypeOK /\ ThreadInv /\ RegistryInv /\ TeardownInv /\ NoLeakedSession
  BY DEF ServerInv
<1>0. "main" \in Actors /\ "recv" \in Actors /\ "janitor" \in Actors
  BY DEF Actors
<1> SUFFICES ASSUME NEW r \in Runtimes, shell'[r] = "running" PROVE Kept(r)'
  BY DEF NoLeakedSession, Kept
<1>k. shell[r] = "running" => Kept(r)
  BY DEF NoLeakedSession, Kept
<1>1. CASE \/ \E c \in Clients, k \in Kinds : Receive(c, k)
           \/ RecvEnds \/ FindRuntime \/ SessionStartFails \/ Accept \/ Write \/ DisconnectDone
  <2>1. UNCHANGED <<clients, teardown, shell>> /\ recv.pc # "register"
    BY <1>1 DEF Receive, RecvEnds, FindRuntime, SessionStartFails, MustCreate, Accept, Write, DisconnectDone
  <2> QED
    BY <1>k, <2>1 DEF Kept, Registered, InTeardown
<1>2. CASE StartSession
  <2>1. UNCHANGED <<clients, teardown>> /\ recv.pc # "register" /\ recv'.pc = "register"
        /\ recv'.runtime = created' /\ shell' = [shell EXCEPT ![created'] = "running"]
    BY <1>2 DEF StartSession, MustCreate, TypeOK
  <2>2. CASE r = created'
    BY <2>1, <2>2 DEF Kept
  <2>3. CASE r # created'
    <3>1. shell[r] = "running"
      BY <2>1, <2>3 DEF TypeOK
    <3> QED
      BY <1>k, <2>1, <3>1 DEF Kept, Registered, InTeardown
  <2> QED
    BY <2>2, <2>3
<1>3. CASE Register
  <2>1. /\ recv.client \in Clients /\ clients[recv.client] = 0 /\ r # 0
        /\ clients' = [clients EXCEPT ![recv.client] = recv.runtime] /\ UNCHANGED <<teardown, shell>>
    BY <1>3 DEF Register, ThreadInv, RegistryInv, Runtimes
  <2>2. Registered(r) => (Registered(r))'
    BY <2>1 DEF Registered, TypeOK
  <2>3. recv.runtime = r => (Registered(r))'
    BY <2>1 DEF Registered, TypeOK
  <2> QED
    BY <1>k, <2>1, <2>2, <2>3 DEF Kept, InTeardown
<1>4. CASE Disconnect
  <2>1. /\ recv.client \in Clients /\ Pop("recv", recv.client) /\ UNCHANGED shell
        /\ recv.pc # "register" /\ teardown["recv"] = Idle
    BY <1>4 DEF Disconnect, CleanupClient, ThreadInv
  <2> QED
    BY <1>0, <1>k, <2>1, PopKeeps DEF Kept
<1>5. ASSUME NEW c \in Clients, CleanStale(c) PROVE Kept(r)'
  <2>1. Pop("janitor", c) /\ UNCHANGED <<shell, recv>> /\ teardown["janitor"] = Idle
    BY <1>5 DEF CleanStale, CleanupClient
  <2> QED
    BY <1>0, <1>k, <2>1, PopKeeps DEF Kept
<1>6. ASSUME NEW a \in Actors, Teardown(a) PROVE Kept(r)'
  <2>1. /\ UNCHANGED <<clients, recv>>
        /\ \A b \in Actors \ {a} : teardown'[b] = teardown[b]
    BY <1>6, TeardownFacts
  <2>2. shell[r] = "running"
    BY <1>6 DEF Teardown, KillShell, CloseMaster, ClearSession, TypeOK
  <2>3. teardown[a].runtime = r => teardown'[a].runtime = r
    <3>1. CASE KillShell(a) \/ CloseMaster(a)
      BY <3>1 DEF KillShell, CloseMaster, NextStage, TypeOK
    <3>2. CASE ClearSession(a)
      BY <2>2, <3>2 DEF ClearSession, TeardownInv
    <3> QED
      BY <1>6, <3>1, <3>2 DEF Teardown
  <2>4. InTeardown(r) => (InTeardown(r))'
    BY <2>1, <2>3 DEF InTeardown
  <2> QED
    BY <1>k, <2>1, <2>2, <2>4 DEF Kept, Registered
<1>7. CASE \/ Scan \/ ScanDone \/ Stop \/ LockForStop \/ UnlockAfterStop \/ CloseSocket
           \/ (\E s \in Runtimes : ShellExits(s)) \/ (\E c \in Clients : TimePasses(c))
  <2>1. UNCHANGED <<clients, teardown, recv>>
    BY <1>7 DEF Scan, ScanDone, Stop, LockForStop, UnlockAfterStop, CloseSocket, ShellExits, TimePasses
  <2>2. shell[r] = "running"
    BY <1>7 DEF Scan, ScanDone, Stop, LockForStop, UnlockAfterStop, CloseSocket, ShellExits, TimePasses, TypeOK
  <2> QED
    BY <1>k, <2>1, <2>2 DEF Kept, Registered, InTeardown
<1>8. ASSUME NEW s \in Runtimes, StopSession(s) PROVE Kept(r)'
  <2>1. /\ UNCHANGED <<clients, recv, shell>> /\ teardown["main"] = Idle
        /\ \A b \in Actors \ {"main"} : teardown'[b] = teardown[b]
    BY <1>0, <1>8, BeginFacts DEF StopSession
  <2>2. InTeardown(r) => (InTeardown(r))'
    BY <2>1 DEF InTeardown, Idle, Runtimes
  <2> QED
    BY <1>k, <2>1, <2>2 DEF Kept, Registered
<1> QED
  BY <1>0, <1>1, <1>2, <1>3, <1>4, <1>5, <1>6, <1>7, <1>8
     DEF Next, RecvStep, JanitorStep, StopStep
------------------------------------------------------------------------------
(* Descriptors                                                              *)

LEMMA DescriptorFrame ==
    ASSUME DescriptorInv, UNCHANGED <<created, masterFd, pty>>,
           \A r \in Runtimes : shell[r] = "none" => shell'[r] = "none",
           \A r \in Runtimes : (Clearing(r))' = Clearing(r),
           recv'.pc \in {"register", "accept", "write"} =>
              recv.pc \in {"register", "accept", "write"} /\ recv'.runtime = recv.runtime
    PROVE  DescriptorInv'
BY DEF DescriptorInv

LEMMA ClearingFrame ==
    ASSUME NEW a \in Actors, \A b \in Actors \ {a} : teardown'[b] = teardown[b],
           teardown[a].stage # "clear", teardown'[a].stage # "clear"
    PROVE  \A r \in Runtimes : (Clearing(r))' = Clearing(r)
BY DEF Clearing

LEMMA NewDescriptor ==
    ASSUME TypeOK, DescriptorInv, NewRuntime, UNCHANGED teardown,
           masterFd' = [masterFd EXCEPT ![created'] = FreeFd],
           pty' = [pty EXCEPT ![FreeFd] = created'],
           \A r \in Runtimes : r # created' => shell'[r] = shell[r],
           recv'.pc \in {"register", "accept", "write"} => recv'.runtime = created'
    PROVE  DescriptorInv'
<1>1. /\ created' = created + 1 /\ created' \in Runtimes /\ created \in Nat /\ created' # 0
      /\ FreeFd \in Fds /\ pty[FreeFd] = 0
  BY FreeFdIsFree, ServerAssumption DEF NewRuntime, TypeOK, Runtimes
<1>2. /\ masterFd'[created'] = FreeFd /\ pty'[FreeFd] = created'
      /\ \A r \in Runtimes : r # created' => masterFd'[r] = masterFd[r]
      /\ \A f \in Fds : f # FreeFd => pty'[f] = pty[f]
  BY <1>1 DEF TypeOK
<1>3. \A r \in Runtimes : r > created' => shell'[r] = "none" /\ masterFd'[r] = 0
  BY <1>1, <1>2 DEF DescriptorInv, Runtimes
<1>4. \A f, g \in Fds : pty'[f] = pty'[g] /\ pty'[f] # 0 => f = g
  <2>1. \A f \in Fds : pty[f] # created'
    BY <1>1 DEF TypeOK
  <2> QED
    BY <1>1, <1>2, <2>1 DEF DescriptorInv
<1>5. \A r \in Runtimes : (Clearing(r))' = Clearing(r)
  BY DEF Clearing
<1>6. ASSUME NEW r \in Runtimes, masterFd'[r] # 0, ~ (Clearing(r))' PROVE pty'[masterFd'[r]] = r
  <2>1. CASE r = created'
    BY <1>2, <2>1
  <2>2. CASE r # created'
    <3>1. masterFd[r] \in Fds /\ masterFd'[r] = masterFd[r] /\ pty[masterFd[r]] = r /\ r # 0
      BY <1>2, <1>5, <1>6, <2>2 DEF DescriptorInv, TypeOK, Runtimes
    <3> QED
      BY <1>1, <1>2, <3>1
  <2> QED
    BY <2>1, <2>2
<1>7. \A r \in Runtimes :
         recv'.pc \in {"register", "accept", "write"} /\ recv'.runtime = r /\ masterFd'[r] # 0
            => pty'[masterFd'[r]] \in {0, r}
  BY <1>2
<1> QED
  BY <1>3, <1>4, <1>6, <1>7 DEF DescriptorInv

LEMMA CloseDescriptor ==
    ASSUME ServerInv, NEW a \in Actors, CloseMaster(a)
    PROVE  DescriptorInv'
<1> TypeOK /\ DescriptorInv /\ TeardownInv
  BY DEF ServerInv
<1>1. PICK own \in Runtimes : teardown[a].stage = "close" /\ teardown[a].runtime = own
  BY TeardownRuntime DEF CloseMaster
<1>2. /\ UNCHANGED <<created, shell, masterFd, recv>>
      /\ pty' = [f \in Fds |-> IF f = masterFd[own] THEN 0 ELSE pty[f]]
  BY <1>1 DEF CloseMaster, registryVars
<1>3. /\ teardown'[a].stage = "clear" /\ teardown'[a].runtime = own
      /\ \A b \in Actors \ {a} : teardown'[b] = teardown[b]
  BY <1>1 DEF CloseMaster, NextStage, TypeOK
<1>4. (Clearing(own))' /\ \A r \in Runtimes : Clearing(r) => (Clearing(r))'
  BY <1>1, <1>3 DEF Clearing
<1>5. masterFd[own] # 0 => pty[masterFd[own]] = own
  <2>1. ~ Clearing(own)
    BY <1>1 DEF Clearing, TeardownInv, TeardownExclusive, Idle
  <2> QED
    BY <1>1, <2>1 DEF DescriptorInv
<1>6. ASSUME NEW r \in Runtimes, masterFd'[r] # 0, ~ (Clearing(r))' PROVE pty'[masterFd'[r]] = r
  <2>1. r # own /\ masterFd[r] \in Fds /\ pty[masterFd[r]] = r
    BY <1>2, <1>4, <1>6 DEF DescriptorInv, TypeOK
  <2>2. masterFd[r] # masterFd[own]
    BY <1>2, <1>5, <1>6, <2>1
  <2> QED
    BY <1>2, <2>1, <2>2
<1>7. \A f, g \in Fds : pty'[f] = pty'[g] /\ pty'[f] # 0 => f = g
  BY <1>2 DEF DescriptorInv
<1>8. \A r \in Runtimes :
         recv'.pc \in {"register", "accept", "write"} /\ recv'.runtime = r /\ masterFd'[r] # 0
            => pty'[masterFd'[r]] \in {0, r}
  BY <1>2 DEF DescriptorInv, TypeOK
<1>9. \A r \in Runtimes : r > created' => shell'[r] = "none" /\ masterFd'[r] = 0
  BY <1>2 DEF DescriptorInv
<1> QED
  BY <1>6, <1>7, <1>8, <1>9 DEF DescriptorInv

LEMMA DescriptorStep ==
    ASSUME ServerInv, Next
    PROVE  DescriptorInv'
<1> USE DEF registryVars, sessionVars, threadVars
<1> TypeOK /\ ThreadInv /\ RegistryInv /\ TeardownInv /\ DescriptorInv
  BY DEF ServerInv
<1>0. /\ "main" \in Actors /\ "recv" \in Actors /\ "janitor" \in Actors
      /\ Idle.stage # "clear" /\ \A r \in Runtimes : [runtime |-> r, stage |-> "kill"].stage # "clear"
  BY DEF Actors, Idle
<1>n. NextPacket => recv'.pc \notin {"register", "accept", "write"}
  BY DEF NextPacket, NoneInHand, LoopHead
<1>1. CASE \/ \E c \in Clients, k \in Kinds : Receive(c, k)
           \/ RecvEnds \/ Register \/ Accept \/ Write \/ DisconnectDone
  <2>1. UNCHANGED <<created, masterFd, pty, shell, teardown>>
    BY <1>1 DEF Receive, RecvEnds, Register, Accept, Write, DisconnectDone
  <2>2. recv'.pc \in {"register", "accept", "write"} =>
           recv.pc \in {"register", "accept", "write"} /\ recv'.runtime = recv.runtime
    <3>1. ASSUME NEW c \in Clients, NEW k \in Kinds, Receive(c, k)
          PROVE  recv'.pc \notin {"register", "accept", "write"}
      BY <3>1 DEF Receive
    <3>2. CASE RecvEnds \/ Register
      BY <3>2 DEF RecvEnds, Register, RecvGoes, TypeOK
    <3>3. CASE Accept \/ Write \/ DisconnectDone
      BY <1>n, <3>3 DEF Accept, Write, DisconnectDone, RecvGoes, TypeOK
    <3> QED
      BY <1>1, <3>1, <3>2, <3>3
  <2>3. \A r \in Runtimes : (Clearing(r))' = Clearing(r)
    BY <2>1 DEF Clearing
  <2> QED
    BY <2>1, <2>2, <2>3, DescriptorFrame
<1>2. CASE FindRuntime
  <2>1. /\ recv.client \in Clients /\ clients[recv.client] \in 0..created /\ clients[recv.client] # 0
        /\ recv'.runtime = clients[recv.client] /\ LockFree
        /\ UNCHANGED <<created, masterFd, pty, shell, teardown>>
    BY <1>2 DEF FindRuntime, ThreadInv, TypeOK
  <2>2. clients[recv.client] \in Runtimes
    BY <2>1, ServerAssumption DEF TypeOK, Runtimes
  <2>3. ~ Clearing(clients[recv.client])
    BY <2>1, <2>2, PopFree DEF Clearing
  <2>4. \A r \in Runtimes : (Clearing(r))' = Clearing(r)
    BY <2>1 DEF Clearing
  <2> QED
    BY <2>1, <2>2, <2>3, <2>4 DEF DescriptorInv
<1>3. CASE StartSession
  <2>1. /\ \A r \in Runtimes : r # created' => shell'[r] = shell[r]
        /\ recv'.runtime = created'
    BY <1>3 DEF StartSession, TypeOK
  <2> QED
    BY <1>3, <2>1, NewDescriptor DEF StartSession
<1>4. CASE SessionStartFails
  <2>1. recv'.pc = "crashed" /\ UNCHANGED <<shell, teardown>>
    BY <1>4 DEF SessionStartFails, RecvGoes, TypeOK
  <2>2. CASE UNCHANGED <<created, masterFd, pty>>
    <3>1. \A r \in Runtimes : (Clearing(r))' = Clearing(r)
      BY <2>1 DEF Clearing
    <3> QED
      BY <2>1, <2>2, <3>1, DescriptorFrame
  <2>3. CASE /\ NewRuntime
             /\ masterFd' = [masterFd EXCEPT ![created'] = FreeFd]
             /\ pty' = [pty EXCEPT ![FreeFd] = created']
    BY <2>1, <2>3, NewDescriptor
  <2> QED
    BY <1>4, <2>2, <2>3 DEF SessionStartFails
<1>p. ASSUME NEW a \in Actors, NEW c \in Clients, Pop(a, c), teardown[a] = Idle
      PROVE  \A r \in Runtimes : (Clearing(r))' = Clearing(r)
  <2>1. CASE UNCHANGED teardown
    BY <2>1 DEF Clearing
  <2>2. CASE clients[c] \in Runtimes /\ BeginTeardown(a, clients[c])
    <3>1. teardown'[a] = [runtime |-> clients[c], stage |-> "kill"]
          /\ \A b \in Actors \ {a} : teardown'[b] = teardown[b]
      BY <2>2, BeginFacts
    <3>2. teardown'[a].stage # "clear" /\ teardown[a].stage # "clear"
      BY <1>0, <1>p, <3>1
    <3> QED
      BY <3>1, <3>2, ClearingFrame
  <2> QED
    BY <1>p, <2>1, <2>2, PopFacts
<1>5. CASE Disconnect
  <2>1. /\ recv.client \in Clients /\ Pop("recv", recv.client) /\ teardown["recv"] = Idle
        /\ recv'.pc = "cleaning" /\ UNCHANGED <<created, masterFd, pty, shell>>
    BY <1>5 DEF Disconnect, CleanupClient, ThreadInv, RecvGoes, TypeOK
  <2> QED
    BY <1>0, <1>p, <2>1, DescriptorFrame
<1>6. ASSUME NEW c \in Clients, CleanStale(c) PROVE DescriptorInv'
  <2>1. /\ Pop("janitor", c) /\ teardown["janitor"] = Idle
        /\ UNCHANGED <<created, masterFd, pty, shell, recv>>
    BY <1>6 DEF CleanStale, CleanupClient
  <2> QED
    BY <1>0, <1>p, <2>1, DescriptorFrame
<1>7. ASSUME NEW a \in Actors, KillShell(a) PROVE DescriptorInv'
  <2>1. teardown[a].stage = "kill" /\ teardown'[a].stage = "close"
        /\ \A b \in Actors \ {a} : teardown'[b] = teardown[b]
    BY <1>7 DEF KillShell, NextStage, TypeOK
  <2>2. \A r \in Runtimes : (Clearing(r))' = Clearing(r)
    BY <2>1, ClearingFrame
  <2>3. /\ UNCHANGED <<created, masterFd, pty, recv>>
        /\ shell' = [shell EXCEPT ![teardown[a].runtime] = "dead"]
        /\ teardown[a].runtime \in 0..created
    BY <1>7 DEF KillShell, TypeOK
  <2>4. \A r \in Runtimes : r > created => shell'[r] = "none"
    BY <2>3 DEF DescriptorInv, TypeOK
  <2> QED
    BY <2>2, <2>3, <2>4 DEF DescriptorInv
<1>8. ASSUME NEW a \in Actors, CloseMaster(a) PROVE DescriptorInv'
  BY <1>8, CloseDescriptor
<1>9. ASSUME NEW a \in Actors, ClearSession(a) PROVE DescriptorInv'
  <2>1. /\ UNCHANGED <<created, pty, recv, shell>> /\ teardown[a].stage = "clear"
        /\ masterFd' = [masterFd EXCEPT ![teardown[a].runtime] = 0]
        /\ \A b \in Actors \ {a} : teardown'[b] = teardown[b]
    BY <1>9 DEF ClearSession, TypeOK
  <2>2. \A r \in Runtimes : masterFd'[r] # 0 =>
           masterFd'[r] = masterFd[r] /\ teardown[a].runtime # r
    BY <2>1 DEF TypeOK
  <2>3. \A r \in Runtimes : masterFd'[r] # 0 /\ Clearing(r) => (Clearing(r))'
    BY <2>1, <2>2 DEF Clearing
  <2>4. \A r \in Runtimes : r > created => masterFd'[r] = 0
    BY <2>2 DEF DescriptorInv
  <2> QED
    BY <2>1, <2>2, <2>3, <2>4 DEF DescriptorInv
<1>10. CASE \/ Scan \/ ScanDone \/ Stop \/ LockForStop \/ UnlockAfterStop \/ CloseSocket
            \/ (\E s \in Runtimes : ShellExits(s)) \/ (\E c \in Clients : TimePasses(c))
  <2>1. UNCHANGED <<created, masterFd, pty, teardown, recv>>
    BY <1>10 DEF Scan, ScanDone, Stop, LockForStop, UnlockAfterStop, CloseSocket, ShellExits, TimePasses
  <2>2. \A r \in Runtimes : shell[r] = "none" => shell'[r] = "none"
    BY <1>10 DEF Scan, ScanDone, Stop, LockForStop, UnlockAfterStop, CloseSocket, ShellExits, TimePasses, TypeOK
  <2>3. \A r \in Runtimes : (Clearing(r))' = Clearing(r)
    BY <2>1 DEF Clearing
  <2> QED
    BY <2>1, <2>2, <2>3, DescriptorFrame
<1>11. ASSUME NEW r \in Runtimes, StopSession(r) PROVE DescriptorInv'
  <2>1. /\ teardown["main"] = Idle /\ BeginTeardown("main", r)
        /\ UNCHANGED <<created, masterFd, pty, shell, recv>>
    BY <1>11 DEF StopSession
  <2>2. teardown'["main"] = [runtime |-> r, stage |-> "kill"]
        /\ \A b \in Actors \ {"main"} : teardown'[b] = teardown[b]
    BY <1>0, <2>1, BeginFacts, Zenon
  <2>3. teardown'["main"].stage # "clear" /\ teardown["main"].stage # "clear"
    BY <1>0, <2>1, <2>2
  <2> QED
    BY <1>0, <2>1, <2>2, <2>3, ClearingFrame, DescriptorFrame
<1> QED
  BY <1>0, <1>1, <1>2, <1>3, <1>4, <1>5, <1>6, <1>7, <1>8, <1>9, <1>10, <1>11
     DEF Next, RecvStep, JanitorStep, StopStep, Teardown
------------------------------------------------------------------------------
(* After stop                                                               *)

LEMMA NoNewShell ==
    ASSUME TypeOK, Next, ~ StartSession, NEW r \in Runtimes, shell'[r] = "running"
    PROVE  shell[r] = "running"
<1> USE DEF registryVars, sessionVars, threadVars
<1>1. ASSUME NEW a \in Actors, KillShell(a) PROVE shell[r] = "running"
  BY <1>1 DEF KillShell, TypeOK
<1>2. ASSUME NEW s \in Runtimes, ShellExits(s) PROVE shell[r] = "running"
  BY <1>2 DEF ShellExits, TypeOK
<1>3. CASE UNCHANGED shell
  BY <1>3
<1>4. \/ UNCHANGED shell \/ (\E a \in Actors : KillShell(a)) \/ (\E s \in Runtimes : ShellExits(s))
  BY DEF Next, RecvStep, JanitorStep, StopStep, Teardown, Receive, RecvEnds, FindRuntime, SessionStartFails,
         Register, Accept, Write, Disconnect, DisconnectDone, CloseMaster, ClearSession, Scan, CleanStale,
         CleanupClient, ScanDone, Stop, LockForStop, StopSession, UnlockAfterStop, CloseSocket, TimePasses,
         Actors
<1> QED
  BY <1>1, <1>2, <1>3, <1>4

LEMMA StaysInTeardown ==
    ASSUME ServerInv, Next, NEW r \in Runtimes, shell'[r] = "running", InTeardown(r)
    PROVE  (InTeardown(r))'
<1> USE DEF registryVars, sessionVars, threadVars
<1> TypeOK /\ ThreadInv /\ TeardownInv
  BY DEF ServerInv
<1>0. /\ "main" \in Actors /\ "recv" \in Actors /\ "janitor" \in Actors
      /\ Idle.runtime = 0 /\ r # 0
  BY DEF Actors, Idle, Runtimes
<1>1. ASSUME NEW a \in Actors, Teardown(a) PROVE (InTeardown(r))'
  <2>1. \A b \in Actors \ {a} : teardown'[b] = teardown[b]
    BY <1>1, TeardownFacts
  <2>2. CASE KillShell(a) \/ CloseMaster(a)
    <3>1. teardown'[a].runtime = teardown[a].runtime
      BY <2>2 DEF KillShell, CloseMaster, NextStage, TypeOK
    <3> QED
      BY <2>1, <3>1 DEF InTeardown
  <2>3. CASE ClearSession(a)
    <3>1. teardown[a].runtime # r
      BY <2>3 DEF ClearSession, TeardownInv
    <3> QED
      BY <2>1, <3>1 DEF InTeardown
  <2> QED
    BY <1>1, <2>2, <2>3 DEF Teardown
<1>2. ASSUME NEW a \in Actors, teardown[a] = Idle, \A b \in Actors \ {a} : teardown'[b] = teardown[b]
      PROVE  (InTeardown(r))'
  BY <1>0, <1>2 DEF InTeardown
<1>3. CASE Disconnect
  <2>1. recv.client \in Clients /\ Pop("recv", recv.client) /\ teardown["recv"] = Idle
    BY <1>3 DEF Disconnect, CleanupClient, ThreadInv
  <2> QED
    BY <1>0, <1>2, <2>1, PopFacts
<1>4. ASSUME NEW c \in Clients, CleanStale(c) PROVE (InTeardown(r))'
  <2>1. Pop("janitor", c) /\ teardown["janitor"] = Idle
    BY <1>4 DEF CleanStale, CleanupClient
  <2> QED
    BY <1>0, <1>2, <2>1, PopFacts
<1>5. ASSUME NEW s \in Runtimes, StopSession(s) PROVE (InTeardown(r))'
  <2>1. BeginTeardown("main", s) /\ teardown["main"] = Idle
    BY <1>5 DEF StopSession
  <2> QED
    BY <1>0, <1>2, <2>1, BeginFacts
<1>6. CASE UNCHANGED teardown
  BY <1>6 DEF InTeardown
<1>7. \/ UNCHANGED teardown \/ Disconnect \/ (\E c \in Clients : CleanStale(c))
      \/ (\E s \in Runtimes : StopSession(s)) \/ (\E a \in Actors : Teardown(a))
  BY <1>0 DEF Next, RecvStep, JanitorStep, StopStep, Receive, RecvEnds, FindRuntime, StartSession,
         SessionStartFails, Register, Accept, Write, DisconnectDone, Scan, ScanDone, Stop, LockForStop,
         UnlockAfterStop, CloseSocket, ShellExits, TimePasses
<1> QED
  BY <1>1, <1>3, <1>4, <1>5, <1>6, <1>7

(* While stop holds the lock, every running shell it has not come to yet    *)
(* stays on its list.                                                       *)
LEMMA StoppingStep ==
    ASSUME ServerInv, Next, main'.pc = "stopping",
           NEW r \in Runtimes, (Registered(r))', shell'[r] = "running"
    PROVE  r \in main'.todo \/ teardown'["main"].runtime = r
<1> USE DEF registryVars, sessionVars, threadVars
<1> TypeOK /\ ThreadInv /\ TeardownInv /\ StopInv
  BY DEF ServerInv
<1>0. "main" \in Actors /\ "recv" \in Actors /\ "janitor" \in Actors
  BY DEF Actors
<1>1. CASE LockForStop
  BY <1>1 DEF LockForStop, Registered
<1>2. CASE ~ LockForStop
  <2>1. main.pc = "stopping"
    BY <1>2 DEF Next, RecvStep, JanitorStep, StopStep, Teardown, Receive, RecvEnds, FindRuntime,
         StartSession, SessionStartFails, Register, Accept, Write, Disconnect, DisconnectDone, KillShell,
         CloseMaster, ClearSession, Scan, CleanStale, CleanupClient, ScanDone, Stop, StopSession,
         UnlockAfterStop, CloseSocket, ShellExits, TimePasses, TypeOK
  <2>2. lock = "main" /\ recv.pc # "register" /\ ~ LockFree
    BY <2>1, ServerAssumption DEF ThreadInv, LockFree
  <2>3. UNCHANGED clients /\ ~ StartSession
    BY <2>2 DEF Next, RecvStep, JanitorStep, StopStep, Teardown, Receive, RecvEnds, FindRuntime,
         StartSession, SessionStartFails, MustCreate, Register, Accept, Write, Disconnect, DisconnectDone,
         KillShell, CloseMaster, ClearSession, Scan, CleanStale, CleanupClient, ScanDone, Stop, LockForStop,
         StopSession, UnlockAfterStop, CloseSocket, ShellExits, TimePasses
  <2>4. Registered(r) /\ shell[r] = "running"
    BY <2>3, NoNewShell DEF Registered
  <2>5. r \in main.todo \/ teardown["main"].runtime = r
    BY <2>1, <2>4 DEF StopInv
  <2>6. CASE \E s \in Runtimes : StopSession(s)
    <3>1. PICK s \in Runtimes : StopSession(s)
      BY <2>6
    <3>2. /\ main'.todo = main.todo \ {s} /\ teardown["main"] = Idle /\ BeginTeardown("main", s)
      BY <3>1 DEF StopSession, TypeOK
    <3>3. teardown'["main"] = [runtime |-> s, stage |-> "kill"]
      BY <1>0, <3>2, BeginFacts, Zenon
    <3> QED
      BY <2>5, <3>2, <3>3 DEF Idle, Runtimes
  <2>7. CASE Teardown("main")
    <3>1. UNCHANGED main
      BY <1>0, <2>7, TeardownFacts
    <3>2. CASE KillShell("main") \/ CloseMaster("main")
      <4>1. teardown'["main"].runtime = teardown["main"].runtime
        BY <1>0, <3>2 DEF KillShell, CloseMaster, NextStage, TypeOK
      <4> QED
        BY <2>5, <3>1, <4>1
    <3>3. CASE ClearSession("main")
      <4>1. teardown["main"].runtime # r
        BY <1>0, <2>4, <3>3 DEF ClearSession, TeardownInv
      <4> QED
        BY <2>5, <3>1, <4>1
    <3> QED
      BY <2>7, <3>2, <3>3 DEF Teardown
  <2>8. CASE Teardown("recv") \/ Teardown("janitor")
    BY <1>0, <2>5, <2>8, TeardownFacts
  <2>9. CASE UNCHANGED teardown /\ main'.todo = main.todo
    BY <2>5, <2>9
  <2>10. \/ UNCHANGED teardown /\ main'.todo = main.todo
         \/ (\E s \in Runtimes : StopSession(s))
         \/ Teardown("main") \/ Teardown("recv") \/ Teardown("janitor")
    BY <1>2, <2>2 DEF Next, RecvStep, JanitorStep, StopStep, Receive, RecvEnds, FindRuntime,
         StartSession, SessionStartFails, Register, Accept, Write, Disconnect, DisconnectDone, Scan,
         CleanStale, CleanupClient, ScanDone, Stop, UnlockAfterStop, CloseSocket, ShellExits, TimePasses,
         TypeOK
  <2> QED
    BY <2>6, <2>7, <2>8, <2>9, <2>10
<1> QED
  BY <1>1, <1>2

LEMMA StopInvStep ==
    ASSUME ServerInv, Next
    PROVE  StopInv'
<1> USE DEF registryVars, sessionVars, threadVars
<1> TypeOK /\ ThreadInv /\ TeardownInv /\ RegistryInv /\ NoLeakedSession /\ DescriptorInv /\ StopInv
  BY DEF ServerInv
<1>1. main'.pc = "stopping" =>
         \A r \in Runtimes : (Registered(r))' /\ shell'[r] = "running" =>
                                r \in main'.todo \/ teardown'["main"].runtime = r
  BY StoppingStep
<1>2. ASSUME main'.pc \in {"closing", "stopped"}
      PROVE  /\ \A r, s \in Survivors' : r = s
             /\ Survivors' # {} => recv'.pc \notin {"recvfrom", "lookup"}
  <2>1. CASE UnlockAfterStop
    <3>1. /\ main.pc = "stopping" /\ main.todo = {} /\ teardown["main"] = Idle
          /\ UNCHANGED <<shell, teardown>> /\ recv.pc # "register"
      BY <2>1, ServerAssumption DEF UnlockAfterStop, ThreadInv
    <3>2. \A r \in Runtimes : shell[r] = "running" => InTeardown(r)
      BY <3>1 DEF StopInv, NoLeakedSession, Idle, Runtimes
    <3>3. Survivors' = {}
      BY <3>1, <3>2 DEF Survivors, InTeardown
    <3> QED
      BY <3>3
  <2>2. CASE ~ UnlockAfterStop
    <3>1. main.pc \in {"closing", "stopped"} /\ stopEvent
      <4>1. main.pc \in {"closing", "stopped"}
        BY <1>2, <2>2 DEF Next, RecvStep, JanitorStep, StopStep, Teardown, Receive, RecvEnds, FindRuntime,
         StartSession, SessionStartFails, Register, Accept, Write, Disconnect, DisconnectDone, KillShell,
         CloseMaster, ClearSession, Scan, CleanStale, CleanupClient, ScanDone, Stop, LockForStop,
         StopSession, CloseSocket, ShellExits, TimePasses, TypeOK
      <4> QED
        BY <4>1 DEF ThreadInv
    <3>2. CASE StartSession
      <4>1. recv.pc = "lookup" /\ recv'.pc = "register" /\ Survivors = {}
            /\ UNCHANGED teardown /\ shell' = [shell EXCEPT ![created'] = "running"]
        BY <3>1, <3>2 DEF StartSession, MustCreate, StopInv, TypeOK
      <4>2. \A r \in Survivors' : r = created'
        BY <4>1 DEF Survivors, InTeardown, TypeOK
      <4> QED
        BY <4>1, <4>2
    <3>3. CASE ~ StartSession
      <4>1. Survivors' \subseteq Survivors
        BY <3>3, NoNewShell, StaysInTeardown DEF Survivors
      <4>2. Survivors # {} /\ recv'.pc \in {"recvfrom", "lookup"} => recv.pc \in {"recvfrom", "lookup"}
        <5>1. NextPacket => recv'.pc = "ended"
          BY <3>1 DEF NextPacket, NoneInHand, LoopHead
        <5>2. CASE recv' = recv
          BY <5>2
        <5>3. CASE \E c \in Clients, k \in Kinds : Receive(c, k)
          BY <5>3 DEF Receive
        <5>4. CASE RecvEnds \/ FindRuntime \/ SessionStartFails \/ Register \/ Disconnect
          BY <5>4 DEF RecvEnds, FindRuntime, SessionStartFails, Register, Disconnect, RecvGoes, TypeOK
        <5>5. CASE Accept \/ Write \/ DisconnectDone
          BY <5>1, <5>5 DEF Accept, Write, DisconnectDone, RecvGoes, TypeOK
        <5>6. \/ recv' = recv \/ (\E c \in Clients, k \in Kinds : Receive(c, k))
              \/ RecvEnds \/ FindRuntime \/ SessionStartFails \/ Register \/ Disconnect
              \/ Accept \/ Write \/ DisconnectDone
          BY <3>3 DEF Next, RecvStep, JanitorStep, StopStep, Teardown, KillShell, CloseMaster,
             ClearSession, Scan, CleanStale, ScanDone, Stop, LockForStop, StopSession,
             UnlockAfterStop, CloseSocket, ShellExits, TimePasses
        <5> QED
          BY <5>2, <5>3, <5>4, <5>5, <5>6
      <4>3. (\A r, s \in Survivors : r = s) /\ (Survivors # {} => recv.pc \notin {"recvfrom", "lookup"})
        BY <3>1 DEF StopInv
      <4> QED
        BY <4>1, <4>2, <4>3
    <3> QED
      BY <3>2, <3>3
  <2> QED
    BY <2>1, <2>2
<1> QED
  BY <1>1, <1>2 DEF StopInv
------------------------------------------------------------------------------
(* ServerInv is inductive.                                                  *)

LEMMA ServerInvInit == Init => ServerInv
<1> SUFFICES ASSUME Init PROVE ServerInv
  OBVIOUS
<1>1. TypeOK
  BY TypeInit
<1>2. ThreadInv
  BY ServerAssumption DEF Init, ThreadInv, NoneInHand, Idle, Actors
<1>3. RegistryInv
  BY DEF Init, RegistryInv, NoneInHand, Idle, Actors
<1>4. TeardownInv
  BY DEF Init, TeardownInv, TeardownExclusive, Idle, Actors
<1>5. NoLeakedSession
  BY DEF Init, NoLeakedSession
<1>6. DescriptorInv
  BY DEF Init, DescriptorInv
<1>7. StopInv
  BY DEF Init, StopInv
<1> QED
  BY <1>1, <1>2, <1>3, <1>4, <1>5, <1>6, <1>7 DEF ServerInv

LEMMA ServerInvStutters ==
    ASSUME ServerInv, UNCHANGED vars
    PROVE  ServerInv'
<1> USE DEF vars, registryVars, sessionVars, threadVars
<1>1. TypeOK'
  BY DEF ServerInv, TypeOK
<1>2. ThreadInv'
  BY DEF ServerInv, ThreadInv
<1>3. RegistryInv'
  BY DEF ServerInv, RegistryInv, Registered, InTeardown
<1>4. TeardownInv' /\ NoLeakedSession'
  BY DEF ServerInv, TeardownInv, TeardownExclusive, NoLeakedSession, Registered, InTeardown
<1>5. DescriptorInv'
  BY DEF ServerInv, DescriptorInv, Clearing
<1>6. StopInv'
  BY DEF ServerInv, StopInv, Registered, Survivors, InTeardown
<1> QED
  BY <1>1, <1>2, <1>3, <1>4, <1>5, <1>6 DEF ServerInv

LEMMA ServerInvStep ==
    ASSUME ServerInv, [Next]_vars
    PROVE  ServerInv'
<1>1. CASE Next
  <2>1. TypeOK'
    BY <1>1, TypeStep DEF ServerInv
  <2> QED
    BY <1>1, <2>1, ThreadStep, RegistryStep, TeardownStep, LeakStep, DescriptorStep, StopInvStep DEF ServerInv
<1> QED
  BY <1>1, ServerInvStutters

(* Every reachable state of the server satisfies ServerInv.                 *)
THEOREM ServerInvariant == Spec => []ServerInv
BY ServerInvInit, ServerInvStep, PTL DEF Spec
------------------------------------------------------------------------------
(* What follows for the server                                              *)

(* Every variable stays in its domain; for the descriptor table that means  *)
(* a number is free whenever a session is started.                          *)
THEOREM ServerTypes == Spec => []TypeOK
<1>1. ServerInv => TypeOK
  BY DEF ServerInv
<1> QED
  BY <1>1, ServerInvariant, PTL

(* No two threads are ever inside session.stop of one session (server.py,   *)
(* _cleanup_client and stop).                                               *)
THEOREM TeardownIsExclusive == Spec => []TeardownExclusive
<1>1. ServerInv => TeardownExclusive
  BY DEF ServerInv, TeardownInv
<1> QED
  BY <1>1, ServerInvariant, PTL

(* A running shell is registered, about to be, or being stopped.            *)
THEOREM SessionsAreKept == Spec => []NoLeakedSession
<1>1. ServerInv => NoLeakedSession
  BY DEF ServerInv
<1> QED
  BY <1>1, ServerInvariant, PTL

(* Input is written to the session's own pty or to none, and session.stop   *)
(* closes no number that has been given to another session.                 *)
THEOREM DescriptorsAreRight == Spec => []DescriptorsAreOwn
<1>1. ASSUME ServerInv PROVE DescriptorsAreOwn
  <2>1. TypeOK /\ TeardownInv /\ DescriptorInv
    BY <1>1 DEF ServerInv
  <2>2. ASSUME NEW a \in Actors, teardown[a].stage = "close", masterFd[teardown[a].runtime] # 0
        PROVE  pty[masterFd[teardown[a].runtime]] = teardown[a].runtime
    <3>1. teardown[a].runtime \in Runtimes
      BY <2>1, <2>2, TeardownRuntime
    <3>2. ~ Clearing(teardown[a].runtime)
      BY <2>1, <2>2 DEF Clearing, TeardownInv, TeardownExclusive, Idle
    <3> QED
      BY <2>1, <2>2, <3>1, <3>2 DEF DescriptorInv
  <2> QED
    BY <2>1, <2>2 DEF DescriptorsAreOwn, DescriptorInv
<1> QED
  BY <1>1, ServerInvariant, PTL

(* When stop has returned, at most one shell runs that nobody is stopping.  *)
THEOREM OneSurvivor == Spec => []AtMostOneShellSurvivesStop
<1>1. ASSUME ServerInv, main.pc = "stopped" PROVE Cardinality(Survivors) <= 1
  <2>1. \A r, s \in Survivors : r = s
    BY <1>1 DEF ServerInv, StopInv
  <2>2. CASE Survivors = {}
    <3>1. Cardinality(Survivors) = 0
      BY <2>2, FS_EmptySet
    <3> QED
      BY <3>1
  <2>3. CASE Survivors # {}
    <3>1. PICK r \in Survivors : Survivors = {r}
      BY <2>1, <2>3
    <3>2. Cardinality({r}) = 1
      BY FS_Singleton
    <3> QED
      BY <3>1, <3>2
  <2> QED
    BY <2>2, <2>3
<1>2. ServerInv => AtMostOneShellSurvivesStop
  BY <1>1 DEF AtMostOneShellSurvivesStop, Survivors
<1> QED
  BY <1>2, ServerInvariant, PTL
------------------------------------------------------------------------------
(* The readers                                                              *)

LEMMA ReadersStep ==
    ASSUME [RNext]_allVars
    PROVE  [Next]_vars
BY DEF allVars, RNext, ServerStep, LoadFd, LoopEnds, EnterRead, ReadReturns, ReaderEnds, ReaderGoes

(* The server with its reader threads behaves like the server without: all  *)
(* that is proved of Spec holds of RSpec.                                   *)
THEOREM ReadersImplementServer == RSpec => Spec
<1>1. RInit => Init
  BY DEF RInit
<1> QED
  BY <1>1, ReadersStep, PTL DEF RSpec, Spec

(* As long as a session is not stopped it keeps its descriptor.             *)
LEMMA DescriptorStays ==
    ASSUME ServerInv, [Next]_vars, NEW r \in Runtimes, ~ sessionStop'[r]
    PROVE  ~ sessionStop[r] /\ (masterFd[r] # 0 => masterFd'[r] = masterFd[r])
<1> USE DEF vars, registryVars, sessionVars, threadVars
<1> TypeOK /\ TeardownInv /\ DescriptorInv /\ ThreadInv
  BY DEF ServerInv
<1>0. /\ "main" \in Actors /\ "recv" \in Actors /\ "janitor" \in Actors
      /\ MaxRuntimes \in Nat /\ created \in Nat
  BY ServerAssumption DEF Actors, TypeOK
<1>1. ASSUME NEW a \in Actors, NEW c \in Clients, Pop(a, c) PROVE ~ sessionStop[r]
  <2>1. CASE UNCHANGED sessionStop
    BY <2>1
  <2>2. CASE clients[c] \in Runtimes /\ BeginTeardown(a, clients[c])
    BY <2>2, BeginFacts
  <2> QED
    BY <1>1, <2>1, <2>2, PopFacts
<1>2. CASE Disconnect
  <2>1. recv.client \in Clients /\ Pop("recv", recv.client) /\ UNCHANGED masterFd
    BY <1>2 DEF Disconnect, CleanupClient, ThreadInv
  <2> QED
    BY <1>0, <1>1, <2>1
<1>3. ASSUME NEW c \in Clients, CleanStale(c) PROVE ~ sessionStop[r] /\ masterFd'[r] = masterFd[r]
  <2>1. Pop("janitor", c) /\ UNCHANGED masterFd
    BY <1>3 DEF CleanStale, CleanupClient
  <2> QED
    BY <1>0, <1>1, <2>1
<1>4. ASSUME NEW s \in Runtimes, StopSession(s) PROVE ~ sessionStop[r] /\ masterFd'[r] = masterFd[r]
  <2>1. BeginTeardown("main", s) /\ UNCHANGED masterFd
    BY <1>4 DEF StopSession
  <2> QED
    BY <1>0, <2>1, BeginFacts
<1>5. CASE StartSession \/ SessionStartFails
  <2>1. UNCHANGED sessionStop
    BY <1>5 DEF StartSession, SessionStartFails
  <2>2. CASE masterFd' = masterFd
    BY <2>1, <2>2
  <2>3. CASE NewRuntime /\ masterFd' = [masterFd EXCEPT ![created'] = FreeFd]
    <3>1. masterFd[r] # 0 => r # created'
      BY <1>0, <2>3 DEF NewRuntime, DescriptorInv, Runtimes
    <3> QED
      BY <2>1, <2>3, <3>1 DEF TypeOK
  <2> QED
    BY <1>5, <2>2, <2>3 DEF StartSession, SessionStartFails
<1>6. ASSUME NEW a \in Actors, Teardown(a) PROVE ~ sessionStop[r] /\ masterFd'[r] = masterFd[r]
  <2>1. UNCHANGED sessionStop /\ teardown[a] # Idle
    BY <1>6, TeardownFacts
  <2>2. teardown[a].runtime # r
    BY <2>1 DEF TeardownInv
  <2> QED
    BY <1>6, <2>1, <2>2 DEF Teardown, KillShell, CloseMaster, ClearSession, TypeOK
<1>7. CASE UNCHANGED <<sessionStop, masterFd>>
  BY <1>7
<1>8. \/ UNCHANGED <<sessionStop, masterFd>> \/ Disconnect \/ (\E c \in Clients : CleanStale(c))
      \/ (\E s \in Runtimes : StopSession(s)) \/ StartSession \/ SessionStartFails
      \/ (\E a \in Actors : Teardown(a))
  BY <1>0 DEF Next, RecvStep, JanitorStep, StopStep, Receive, RecvEnds, FindRuntime, Register, Accept,
     Write, DisconnectDone, Scan, ScanDone, Stop, LockForStop, UnlockAfterStop, CloseSocket,
     ShellExits, TimePasses
<1> QED
  BY <1>2, <1>3, <1>4, <1>5, <1>6, <1>7, <1>8

LEMMA ReaderInvStep ==
    ASSUME ServerInv, ReaderInv, [RNext]_allVars
    PROVE  ReaderInv'
<1> DEFINE Records == [pc : {"none", "loop", "enter", "blocked", "ended"},
                       fd : {0} \cup Fds, file : 0..MaxRuntimes]
<1> DEFINE Right(q, r) == /\ q.pc = "enter" => q.fd # 0
                          /\ ~ sessionStop[r] => /\ q.pc = "enter" => q.fd = masterFd[r]
                                                 /\ q.file \in {0, r}
<1> TypeOK /\ TeardownInv /\ DescriptorInv
  BY DEF ServerInv
<1>0. MaxRuntimes \in Nat /\ \A p \in {"none", "loop", "ended"} : [NoRead EXCEPT !.pc = p] \in Records
  BY ServerAssumption DEF NoRead
<1>f. \A p \in {"none", "loop", "ended"}, r \in Runtimes : Right([NoRead EXCEPT !.pc = p], r)
  BY DEF NoRead
<1>1. ASSUME NEW r \in Runtimes, NEW new \in Records, Right(new, r), ReaderGoes(r, new)
      PROVE  ReaderInv'
  <2>1. /\ reader' = [reader EXCEPT ![r] = new]
        /\ UNCHANGED <<sessionStop, masterFd>>
    BY <1>1 DEF ReaderGoes, vars, sessionVars
  <2>2. \A s \in Runtimes : reader'[s] = IF s = r THEN new ELSE reader[s]
    BY <2>1 DEF ReaderInv
  <2> QED
    BY <1>1, <2>1, <2>2 DEF ReaderInv
<1>2. ASSUME NEW r \in Runtimes, LoadFd(r) PROVE ReaderInv'
  <2> DEFINE new == [NoRead EXCEPT !.pc = "enter", !.fd = masterFd[r]]
  <2>1. new \in Records /\ Right(new, r)
    BY <1>0, <1>2 DEF LoadFd, MustEnd, NoRead, TypeOK
  <2> QED
    BY <1>1, <1>2, <2>1 DEF LoadFd
<1>3. ASSUME NEW r \in Runtimes, LoopEnds(r) PROVE ReaderInv'
  BY <1>0, <1>1, <1>3, <1>f DEF LoopEnds, ReaderEnds
<1>4. ASSUME NEW r \in Runtimes, EnterRead(r) PROVE ReaderInv'
  <2>1. CASE ReaderEnds(r)
    BY <1>0, <1>1, <1>f, <2>1 DEF ReaderEnds
  <2>2. CASE /\ pty[reader[r].fd] # 0
             /\ ReaderGoes(r, [NoRead EXCEPT !.pc = "blocked", !.file = pty[reader[r].fd]])
    <3> DEFINE new == [NoRead EXCEPT !.pc = "blocked", !.file = pty[reader[r].fd]]
    <3>1. ASSUME ~ sessionStop[r] PROVE pty[reader[r].fd] = r
      <4>1. reader[r].fd = masterFd[r] /\ masterFd[r] # 0
        BY <1>4, <3>1 DEF EnterRead, ReaderInv
      <4>2. ~ Clearing(r)
        BY <3>1 DEF Clearing, TeardownInv, Idle
      <4> QED
        BY <4>1, <4>2 DEF DescriptorInv
    <3>2. pty[reader[r].fd] \in 0..MaxRuntimes
      <4>1. reader[r].fd \in Fds
        BY <1>4 DEF EnterRead, ReaderInv
      <4> QED
        BY <1>0, <4>1 DEF TypeOK
    <3>3. new \in Records /\ Right(new, r)
      BY <1>0, <3>1, <3>2 DEF NoRead
    <3> QED
      BY <1>1, <2>2, <3>3
  <2> QED
    BY <1>4, <2>1, <2>2 DEF EnterRead
<1>5. ASSUME NEW r \in Runtimes, ReadReturns(r) PROVE ReaderInv'
  BY <1>0, <1>1, <1>5, <1>f DEF ReadReturns, ReaderEnds
<1>6. CASE ServerStep \/ UNCHANGED allVars
  <2>1. [Next]_vars
    BY <1>6 DEF ServerStep, allVars
  <2>2. \A r \in Runtimes : reader'[r] = reader[r] \/ reader'[r] = [NoRead EXCEPT !.pc = "loop"]
    BY <1>6 DEF ServerStep, allVars
  <2>3. reader' \in [Runtimes -> Records]
    BY <1>0, <1>6, <2>2 DEF ServerStep, allVars, ReaderInv
  <2>4. ASSUME NEW r \in Runtimes, ~ sessionStop'[r]
        PROVE  /\ reader'[r].pc = "enter" => reader'[r].fd = masterFd'[r]
               /\ reader'[r].file \in {0, r}
    <3>1. CASE reader'[r] = [NoRead EXCEPT !.pc = "loop"]
      BY <3>1 DEF NoRead
    <3>2. CASE reader'[r] = reader[r]
      <4>1. ~ sessionStop[r] /\ (masterFd[r] # 0 => masterFd'[r] = masterFd[r])
        BY <2>1, <2>4, DescriptorStays
      <4> QED
        BY <3>2, <4>1 DEF ReaderInv
    <3> QED
      BY <2>2, <3>1, <3>2
  <2>5. \A r \in Runtimes : reader'[r].pc = "enter" => reader'[r].fd # 0
    BY <2>2 DEF ReaderInv, NoRead
  <2> QED
    BY <2>3, <2>4, <2>5 DEF ReaderInv
<1> QED
  BY <1>2, <1>3, <1>4, <1>5, <1>6 DEF RNext

(* A reader that waits on another session's pty is one of a session that    *)
(* has been stopped: it forwards one chunk of the other's output at most.   *)
THEOREM StrayReadersAreStopped == RSpec => []StrayReaderIsStopped
<1>1. RInit => ReaderInv
  BY ServerAssumption DEF RInit, ReaderInv, NoRead
<1>2. ReaderInv => StrayReaderIsStopped
  BY DEF ReaderInv, StrayReaderIsStopped
<1>3. ServerInv /\ ReaderInv /\ [RNext]_allVars => ReaderInv'
  BY ReaderInvStep
<1>4. RSpec => []ServerInv
  BY ReadersImplementServer, ServerInvariant
<1> QED
  BY <1>1, <1>2, <1>3, <1>4, PTL DEF RSpec
==============================================================================
