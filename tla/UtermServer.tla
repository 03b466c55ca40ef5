----------------------------- MODULE UtermServer -----------------------------
(***************************************************************************)
(* The life of the sessions in server.py and of the POSIX shells behind    *)
(* them in session.py: the receive thread, which creates a runtime for an  *)
(* unknown client id and uses the one it found for a known id; the janitor *)
(* thread, which cleans up the runtimes of silent clients; the main thread *)
(* in stop.  They share the registry _clients, its lock, and the process's *)
(* table of descriptors.  ServerReaders adds the sessions' reader threads. *)
(*                                                                         *)
(* Runtimes are numbered in the order of their creation.  A packet is the  *)
(* client id it carries and what handling it comes to; whether accept      *)
(* filters it is left open.  Time is what the janitor sees of it: a client *)
(* is silent once nothing came for longer than heartbeat_timeout.          *)
(***************************************************************************)
EXTENDS Naturals, FiniteSets, FiniteSetsExt

CONSTANTS
    Clients,       \* client ids
    None,          \* no client; the holder of a free lock
    MaxRuntimes    \* bound: runtimes the server creates; openpty fails from then on

ASSUME ServerAssumption ==
    /\ None \notin Clients \cup {"recv", "janitor", "main"}
    /\ MaxRuntimes \in Nat \ {0}

VARIABLES
    created,       \* how many runtimes have been created
    clients,       \* _clients: the runtime of each client, 0 if none
    lock,          \* _lock: the thread that holds it, or None
    silent,        \* now - last_seen_at > heartbeat_timeout, of each client's runtime
    shell,         \* the shell process of each session
    masterFd,      \* _master_fd of each session, 0 for None
    pty,           \* the descriptor table: whose pty a number stands for, 0 if closed
    sessionStop,   \* _stop_event of each session
    recv, janitor, main,  \* the server's threads
    teardown,      \* the call of session.stop each of them is in
    stopEvent,     \* _stop_event of the server
    sockOpen       \* the server's socket is open

registryVars == <<created, clients, lock, silent>>
sessionVars == <<shell, masterFd, pty, sessionStop>>
threadVars == <<recv, janitor, main, teardown, stopEvent, sockOpen>>
vars == <<registryVars, sessionVars, threadVars>>

Runtimes == 1..MaxRuntimes
Fds == 1..MaxRuntimes      \* enough for the ptys that can be open at once
Actors == {"recv", "janitor", "main"}
Kinds == {"input", "signal", "disconnect", "other"}
Idle == [runtime |-> 0, stage |-> "none"]
NoneInHand == [pc |-> "recvfrom", client |-> None, kind |-> "other", runtime |-> 0]

Init ==
    /\ created = 0
    /\ clients = [c \in Clients |-> 0]
    /\ lock = None
    /\ silent = [c \in Clients |-> FALSE]
    /\ shell = [r \in Runtimes |-> "none"]
    /\ masterFd = [r \in Runtimes |-> 0]
    /\ pty = [f \in Fds |-> 0]
    /\ sessionStop = [r \in Runtimes |-> FALSE]
    /\ recv = NoneInHand
    /\ janitor = [pc |-> "sleep", stale |-> {}]
    /\ main = [pc |-> "serving", todo |-> {}]
    /\ teardown = [a \in Actors |-> Idle]
    /\ stopEvent = FALSE
    /\ sockOpen = TRUE

Registered(r) == \E c \in Clients : clients[c] = r
------------------------------------------------------------------------------
(* Faulty variants of definitions below, for the checks of the properties.  *)

UnguardedRegistry == TRUE
ReleaseNothing == UNCHANGED lock
LeakyPop(a, c) ==
    /\ clients' = [clients EXCEPT ![c] = 0]
    /\ UNCHANGED <<teardown, sessionStop>>
QuietTeardown(a, r) ==
    /\ teardown' = [teardown EXCEPT ![a] = [runtime |-> r, stage |-> "kill"]]
    /\ UNCHANGED sessionStop
UncheckedStop == "recvfrom"
StaleRuntimes == {clients[c] : c \in {d \in Clients : clients[d] # 0 /\ silent[d]}}
InvertedStaleness == {c \in Clients : clients[c] # 0 /\ ~ silent[c]}
------------------------------------------------------------------------------
LockFree == lock = None
Release == lock' = None

(* session.stop, from its first line to its last, by one of the threads.    *)

BeginTeardown(a, r) ==
    /\ teardown' = [teardown EXCEPT ![a] = [runtime |-> r, stage |-> "kill"]]
    /\ sessionStop' = [sessionStop EXCEPT ![r] = TRUE]

NextStage(a, s) == teardown' = [teardown EXCEPT ![a].stage = s]

KillShell(a) ==
    /\ teardown[a].stage = "kill"
    /\ shell' = [shell EXCEPT ![teardown[a].runtime] = "dead"]
    /\ NextStage(a, "close")
    /\ UNCHANGED <<registryVars, masterFd, pty, sessionStop, recv, janitor,
                   main, stopEvent, sockOpen>>

CloseMaster(a) ==
    /\ teardown[a].stage = "close"
    /\ pty' = [f \in Fds |-> IF f = masterFd[teardown[a].runtime] THEN 0 ELSE pty[f]]
    /\ NextStage(a, "clear")
    /\ UNCHANGED <<registryVars, shell, masterFd, sessionStop, recv, janitor,
                   main, stopEvent, sockOpen>>

ClearSession(a) ==
    /\ teardown[a].stage = "clear"
    /\ masterFd' = [masterFd EXCEPT ![teardown[a].runtime] = 0]
    /\ teardown' = [teardown EXCEPT ![a] = Idle]
    /\ UNCHANGED <<registryVars, shell, pty, sessionStop, recv, janitor,
                   main, stopEvent, sockOpen>>

Teardown(a) == KillShell(a) \/ CloseMaster(a) \/ ClearSession(a)

(* _cleanup_client: the runtime is taken out of the registry under the lock *)
(* and stopped after the lock is released.                                  *)
Pop(a, c) ==
    /\ clients' = [clients EXCEPT ![c] = 0]
    /\ IF clients[c] = 0
       THEN UNCHANGED <<teardown, sessionStop>>
       ELSE BeginTeardown(a, clients[c])

CleanupClient(a, c) ==
    /\ LockFree
    /\ Pop(a, c)
    /\ UNCHANGED <<created, lock, silent, shell, masterFd, pty, main,
                   stopEvent, sockOpen>>
------------------------------------------------------------------------------
(* The receive thread *)

LoopHead == IF stopEvent THEN "ended" ELSE "recvfrom"
RecvGoes(pc) == recv' = [recv EXCEPT !.pc = pc]
NextPacket == recv' = [NoneInHand EXCEPT !.pc = LoopHead]

(* A packet that decodes arrives.                                           *)
Receive(c, k) ==
    /\ recv.pc = "recvfrom"
    /\ sockOpen
    /\ recv' = [pc |-> "lookup", client |-> c, kind |-> k, runtime |-> 0]
    /\ UNCHANGED <<registryVars, sessionVars, janitor, main, teardown,
                   stopEvent, sockOpen>>

(* The timeout of recvfrom, or the error of a socket that stop has closed.  *)
RecvEnds ==
    /\ recv.pc = "recvfrom"
    /\ stopEvent \/ ~ sockOpen
    /\ RecvGoes("ended")
    /\ UNCHANGED <<registryVars, sessionVars, janitor, main, teardown,
                   stopEvent, sockOpen>>

(* _get_or_create_runtime, of a known client and of an unknown one.         *)
FindRuntime ==
    /\ recv.pc = "lookup"
    /\ LockFree
    /\ clients[recv.client] # 0
    /\ recv' = [recv EXCEPT !.pc = "accept", !.runtime = clients[recv.client]]
    /\ UNCHANGED <<registryVars, sessionVars, janitor, main, teardown,
                   stopEvent, sockOpen>>

FreeFd == Min({f \in Fds : pty[f] = 0})

MustCreate ==
    /\ recv.pc = "lookup"
    /\ LockFree
    /\ clients[recv.client] = 0

NewRuntime == created < MaxRuntimes /\ created' = created + 1

StartSession ==
    /\ MustCreate
    /\ NewRuntime
    /\ lock' = "recv"
    /\ shell' = [shell EXCEPT ![created'] = "running"]
    /\ masterFd' = [masterFd EXCEPT ![created'] = FreeFd]
    /\ pty' = [pty EXCEPT ![FreeFd] = created']
    /\ recv' = [recv EXCEPT !.pc = "register", !.runtime = created']
    /\ UNCHANGED <<clients, silent, sessionStop, janitor, main, teardown, stopEvent,
                   sockOpen>>

(* openpty raises, or Popen does with the pty already open: the exception   *)
(* releases the lock and ends the receive thread.                           *)
SessionStartFails ==
    /\ MustCreate
    /\ \/ UNCHANGED <<created, masterFd, pty>>
       \/ /\ NewRuntime
          /\ masterFd' = [masterFd EXCEPT ![created'] = FreeFd]
          /\ pty' = [pty EXCEPT ![FreeFd] = created']
    /\ RecvGoes("crashed")
    /\ UNCHANGED <<clients, lock, silent, shell, sessionStop, janitor, main,
                   teardown, stopEvent, sockOpen>>

Register ==
    /\ recv.pc = "register"
    /\ clients' = [clients EXCEPT ![recv.client] = recv.runtime]
    /\ Release
    /\ silent' = [silent EXCEPT ![recv.client] = FALSE]
    /\ RecvGoes("accept")
    /\ UNCHANGED <<created, sessionVars, janitor, main,
                   teardown, stopEvent, sockOpen>>

(* accept notes that the client was heard from and returns the packet or    *)
(* filters it; write, resize and send_signal look at _master_fd first.      *)
Accept ==
    /\ recv.pc = "accept"
    /\ silent' = [silent EXCEPT ![recv.client] = FALSE]
    /\ \/ NextPacket
       \/ recv.kind = "disconnect" /\ RecvGoes("cleanup")
       \/ recv.kind \in {"input", "signal"} /\ masterFd[recv.runtime] # 0 /\ RecvGoes("write")
    /\ UNCHANGED <<created, clients, lock, sessionVars, janitor, main,
                   teardown, stopEvent, sockOpen>>

(* The system call on _master_fd, which the janitor may have closed or set  *)
(* to None since, and which may have no shell behind it any more.  Nothing  *)
(* catches the OSError of write and resize, the TypeError of any of the     *)
(* three, or what the second os.kill of send_signal raises; the pty of a    *)
(* shell that has exited may as well take what is written.                  *)
Write ==
    /\ recv.pc = "write"
    /\ LET fd == masterFd[recv.runtime]
           open == fd # 0 /\ pty[fd] # 0
       IN  \/ (open \/ (fd # 0 /\ recv.kind = "signal")) /\ NextPacket
           \/ (~ open \/ shell[recv.runtime] = "dead") /\ RecvGoes("crashed")
    /\ UNCHANGED <<registryVars, sessionVars, janitor, main, teardown,
                   stopEvent, sockOpen>>

Disconnect ==
    /\ recv.pc = "cleanup"
    /\ CleanupClient("recv", recv.client)
    /\ RecvGoes("cleaning")
    /\ UNCHANGED janitor

DisconnectDone ==
    /\ recv.pc = "cleaning"
    /\ teardown["recv"] = Idle
    /\ NextPacket
    /\ UNCHANGED <<registryVars, sessionVars, janitor, main, teardown,
                   stopEvent, sockOpen>>

RecvStep ==
    \/ RecvEnds \/ FindRuntime \/ StartSession \/ SessionStartFails \/ Register
    \/ Accept \/ Write \/ Disconnect \/ DisconnectDone \/ Teardown("recv")
------------------------------------------------------------------------------
(* The janitor thread: the silent clients are listed under the lock, and    *)
(* cleaned up one by one after it is released.                              *)

StaleClients == {c \in Clients : clients[c] # 0 /\ silent[c]}
JanitorHead == IF stopEvent THEN "ended" ELSE "sleep"

Scan ==
    /\ janitor.pc = "sleep"
    /\ LockFree
    /\ janitor' = [pc |-> IF StaleClients = {} THEN JanitorHead ELSE "clean",
                   stale |-> StaleClients]
    /\ UNCHANGED <<registryVars, sessionVars, recv, main, teardown, stopEvent,
                   sockOpen>>

CleanStale(c) ==
    /\ c \in janitor.stale
    /\ teardown["janitor"] = Idle
    /\ CleanupClient("janitor", c)
    /\ janitor' = [janitor EXCEPT !.stale = @ \ {c}]
    /\ UNCHANGED recv

ScanDone ==
    /\ janitor.pc = "clean"
    /\ janitor.stale = {}
    /\ teardown["janitor"] = Idle
    /\ janitor' = [janitor EXCEPT !.pc = JanitorHead]
    /\ UNCHANGED <<registryVars, sessionVars, recv, main, teardown, stopEvent,
                   sockOpen>>

JanitorStep ==
    \/ Scan \/ ScanDone \/ (\E c \in Clients : CleanStale(c)) \/ Teardown("janitor")
------------------------------------------------------------------------------
(* stop, on the main thread: the lock is held until every session that was  *)
(* registered has been stopped; the runtimes stay in the registry.          *)

Stop ==
    /\ main.pc = "serving"
    /\ stopEvent' = TRUE
    /\ main' = [main EXCEPT !.pc = "locking"]
    /\ UNCHANGED <<registryVars, sessionVars, recv, janitor, teardown, sockOpen>>

LockForStop ==
    /\ main.pc = "locking"
    /\ LockFree
    /\ lock' = "main"
    /\ main' = [pc |-> "stopping", todo |-> {r \in Runtimes : Registered(r)}]
    /\ UNCHANGED <<created, clients, silent, sessionVars, recv, janitor,
                   teardown, stopEvent, sockOpen>>

StopSession(r) ==
    /\ r \in main.todo
    /\ teardown["main"] = Idle
    /\ BeginTeardown("main", r)
    /\ main' = [main EXCEPT !.todo = @ \ {r}]
    /\ UNCHANGED <<registryVars, shell, masterFd, pty, recv, janitor, stopEvent,
                   sockOpen>>

UnlockAfterStop ==
    /\ main.pc = "stopping"
    /\ main.todo = {}
    /\ teardown["main"] = Idle
    /\ Release
    /\ main' = [main EXCEPT !.pc = "closing"]
    /\ UNCHANGED <<created, clients, silent, sessionVars, recv, janitor,
                   teardown, stopEvent, sockOpen>>

CloseSocket ==
    /\ main.pc = "closing"
    /\ sockOpen' = FALSE
    /\ main' = [main EXCEPT !.pc = "stopped"]
    /\ UNCHANGED <<registryVars, sessionVars, recv, janitor, teardown, stopEvent>>

StopStep ==
    \/ LockForStop \/ (\E r \in Runtimes : StopSession(r)) \/ UnlockAfterStop
    \/ CloseSocket \/ Teardown("main")
------------------------------------------------------------------------------
(* The shells, and the passing of time.                                     *)

ShellExits(r) ==
    /\ shell[r] = "running"
    /\ shell' = [shell EXCEPT ![r] = "dead"]
    /\ UNCHANGED <<registryVars, masterFd, pty, sessionStop, threadVars>>

TimePasses(c) ==
    /\ clients[c] # 0
    /\ ~ silent[c]
    /\ silent' = [silent EXCEPT ![c] = TRUE]
    /\ UNCHANGED <<created, clients, lock, sessionVars, threadVars>>
------------------------------------------------------------------------------
Next ==
    \/ \E c \in Clients, k \in Kinds : Receive(c, k)
    \/ RecvStep
    \/ JanitorStep
    \/ Stop
    \/ StopStep
    \/ \E r \in Runtimes : ShellExits(r)
    \/ \E c \in Clients : TimePasses(c)

Spec == Init /\ [][Next]_vars

(* The server's threads are scheduled, and a thread that waits for _lock    *)
(* gets it (it is held for a bounded number of steps and between two        *)
(* holdings the others sleep or block).  No packet need arrive, no shell    *)
(* need end or print anything, and stop need not be called.                 *)
Fairness ==
    /\ WF_vars(RecvStep)
    /\ WF_vars(JanitorStep)
    /\ WF_vars(StopStep)

FairSpec == Spec /\ Fairness
------------------------------------------------------------------------------
TypeOK ==
    /\ created \in 0..MaxRuntimes
    /\ clients \in [Clients -> 0..created]
    /\ lock \in {None, "recv", "main"}
    /\ silent \in [Clients -> BOOLEAN]
    /\ shell \in [Runtimes -> {"none", "running", "dead"}]
    /\ masterFd \in [Runtimes -> {0} \cup Fds]
    /\ pty \in [Fds -> 0..created]
    /\ sessionStop \in [Runtimes -> BOOLEAN]
    /\ recv \in [pc : {"recvfrom", "lookup", "register", "accept", "write", "cleanup",
                       "cleaning", "ended", "crashed"},
                 client : Clients \cup {None}, kind : Kinds, runtime : 0..created]
    /\ janitor \in [pc : {"sleep", "clean", "ended"}, stale : SUBSET Clients]
    /\ main \in [pc : {"serving", "locking", "stopping", "closing", "stopped"},
                 todo : SUBSET Runtimes]
    /\ teardown \in [Actors -> [runtime : 0..created,
                                stage : {"none", "kill", "close", "clear"}]]
    /\ stopEvent \in BOOLEAN
    /\ sockOpen \in BOOLEAN

InTeardown(r) == \E a \in Actors : teardown[a].runtime = r
Ended(r) == shell[r] = "dead" /\ masterFd[r] = 0

(* Two threads are never inside session.stop of the same session, though    *)
(* stop leaves in the registry what it has stopped and DISCONNECT, janitor  *)
(* and stop may all be after the same client.                               *)
TeardownExclusive ==
    \A a, b \in Actors :
        teardown[a].runtime = teardown[b].runtime /\ teardown[a] # Idle => a = b

(* No shell is lost: one that runs is in the registry, or about to be, or   *)
(* some thread is stopping it.                                              *)
NoLeakedSession ==
    \A r \in Runtimes : shell[r] = "running" =>
        \/ Registered(r)
        \/ recv.pc = "register" /\ recv.runtime = r
        \/ InTeardown(r)

(* Descriptor numbers are reused, but input goes to the pty of the session  *)
(* it is for or to none, and session.stop closes no one else's pty.         *)
DescriptorsAreOwn ==
    /\ \A r \in Runtimes :
          recv.pc = "write" /\ recv.runtime = r /\ masterFd[r] # 0 => pty[masterFd[r]] \in {0, r}
    /\ \A a \in Actors :
          LET r == teardown[a].runtime
          IN  teardown[a].stage = "close" /\ masterFd[r] # 0 => pty[masterFd[r]] = r

(* When stop has returned, at most one shell is left running that nobody is *)
(* stopping: that of a packet the receive thread had in hand by then.       *)
AtMostOneShellSurvivesStop ==
    main.pc = "stopped" =>
        Cardinality({r \in Runtimes : shell[r] = "running" /\ ~ InTeardown(r)}) <= 1

(* A DISCONNECT that accept returned ends the session it came in on, even   *)
(* when the janitor takes the runtime from under the receive thread.        *)
DisconnectEndsSession ==
    \A r \in Runtimes : (recv.pc = "cleanup" /\ recv.runtime = r) ~> Ended(r)

(* A client that stays silent has its session ended: "offline detection and *)
(* server-side cleanup" (README_EN.md:63), with the receive thread alive or *)
(* not.                                                                     *)
OfflineEndsSession ==
    \A c \in Clients, r \in Runtimes :
        (clients[c] = r /\ silent[c] /\ ~ stopEvent) ~> (Ended(r) \/ ~ silent[c] \/ stopEvent)

(* stop comes to its end, and then the receive and janitor threads do: no   *)
(* two of them wait for each other.                                         *)
ServerStops ==
    stopEvent ~> /\ main.pc = "stopped"
                 /\ janitor.pc = "ended"
                 /\ recv.pc \in {"ended", "crashed"}
==============================================================================
