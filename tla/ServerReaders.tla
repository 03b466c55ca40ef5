---------------------------- MODULE ServerReaders ----------------------------
(***************************************************************************)
(* UtermServer with the reader thread of each POSIX session, session.py's  *)
(* _read_from_master.  It loads the number _master_fd and then makes the   *)
(* system call; between the two, session.stop may close that number and a  *)
(* new session's openpty get it.                                           *)
(***************************************************************************)
EXTENDS UtermServer

VARIABLE reader     \* the reader thread of each session

allVars == <<vars, reader>>

NoRead == [pc |-> "none", fd |-> 0, file |-> 0]

RInit == Init /\ reader = [r \in Runtimes |-> NoRead]
------------------------------------------------------------------------------
(* The test of the loop.                                                    *)
MustEnd(r) == sessionStop[r] \/ masterFd[r] = 0

ReaderGoes(r, new) ==
    /\ reader' = [reader EXCEPT ![r] = new]
    /\ UNCHANGED vars

ReaderEnds(r) == ReaderGoes(r, [NoRead EXCEPT !.pc = "ended"])

(* The test and the load are one step: a reader that finds None when it     *)
(* loads dies of a TypeError, as good as ended.                             *)
LoadFd(r) ==
    /\ reader[r].pc = "loop"
    /\ ~ MustEnd(r)
    /\ ReaderGoes(r, [NoRead EXCEPT !.pc = "enter", !.fd = masterFd[r]])

LoopEnds(r) ==
    /\ reader[r].pc = "loop"
    /\ MustEnd(r)
    /\ ReaderEnds(r)

(* The system call finds the file behind the number and blocks on it.       *)
EnterRead(r) ==
    /\ reader[r].pc = "enter"
    /\ LET file == pty[reader[r].fd]
       IN  IF file = 0 THEN ReaderEnds(r)
           ELSE ReaderGoes(r, [NoRead EXCEPT !.pc = "blocked", !.file = file])

(* Output of the shell, or the error of a pty that has no shell any more.   *)
ReadReturns(r) ==
    /\ reader[r].pc = "blocked"
    /\ \/ ReaderGoes(r, [NoRead EXCEPT !.pc = "loop"])
       \/ shell[reader[r].file] # "running" /\ ReaderEnds(r)

(* The thread of a session starts with its shell.                           *)
ServerStep ==
    /\ Next
    /\ reader' = [r \in Runtimes |->
                    IF shell[r] = "none" /\ shell'[r] = "running"
                    THEN [NoRead EXCEPT !.pc = "loop"] ELSE reader[r]]

RNext ==
    \/ ServerStep
    \/ \E r \in Runtimes : LoadFd(r) \/ LoopEnds(r) \/ EnterRead(r) \/ ReadReturns(r)

RSpec == RInit /\ [][RNext]_allVars
------------------------------------------------------------------------------
(* A reader on another session's pty belongs to a session that has been     *)
(* stopped, so it takes one chunk of the other's output at the most.        *)
StrayReaderIsStopped ==
    \A r \in Runtimes : reader[r].file \notin {0, r} => sessionStop[r]

(* "Multi-client concurrency without session crossover" (README_EN.md:62):  *)
(* a session's reader never waits for, and forwards, another's output.      *)
ReaderReadsOwnPty ==
    \A r \in Runtimes : reader[r].file \in {0, r}
==============================================================================
