---------------------------- MODULE WindowsSession ----------------------------
(***************************************************************************)
(* The compatibility shell of session.py on Windows.  The receive thread   *)
(* edits the command line (WindowsLine), runs the commands entered in it   *)
(* and interrupts them; each command has a worker thread, which starts a   *)
(* child process and reads its output; the session is stopped by the       *)
(* receive thread or the janitor.  They share self.process and self._cwd.  *)
(*                                                                         *)
(* A command that begins with "cd" is handled by the session itself.       *)
(* A child is cmd.exe and the program it runs: terminate ends the first    *)
(* and may leave the second as an "orphan", taskkill /T ends both.         *)
(***************************************************************************)
EXTENDS WindowsLine

CONSTANTS
    Dirs, Home,      \* directories, and that of the server
    MaxCommands,     \* bound: workers started, that of "whoami" included
    MaxCalls,        \* bound: commands entered, and interrupts
    MaxEdits         \* bound: datagrams of keys that enter no command

ASSUME WindowsAssumption ==
    /\ Home \in Dirs
    /\ MaxCommands \in Nat \ {0} /\ {MaxCalls, MaxEdits} \subseteq Nat

VARIABLES
    cwd,             \* _cwd
    process,         \* self.process: the number of its command, 0 for None
    stopEvent,       \* _stop_event
    thread,          \* where the receive thread and the janitor are
    line,            \* _command_buffer, _history and _history_idx
    command,         \* what the receive thread is about to run, <<>> for nothing
    calls,           \* commands entered and interrupts so far
    edits,           \* datagrams that entered no command so far
    commands,        \* workers started so far
    worker,          \* where each worker is
    child,           \* the child of each worker
    enteredIn,       \* history: where each command was entered, until it is started
    strayed,         \* history: commands started in another directory than that
    overtaken,       \* history: commands after which another was run before their child
    replaced,        \* history: commands whose child was replaced in self.process
    cleared          \* history: commands whose child stop took out of self.process

callVars == <<line, command, calls, edits>>
commandVars == <<commands, enteredIn, overtaken, cwd>>
childVars == <<worker, child, strayed, replaced>>
stopVars == <<stopEvent, cleared>>
vars == <<callVars, commandVars, childVars, process, stopVars, thread>>

Commands == 1..MaxCommands
Actors == {"recv", "janitor"}

(* start has run "whoami" already: its worker thread is number 1.           *)
Init ==
    /\ cwd = Home
    /\ process = 0
    /\ stopEvent = FALSE
    /\ thread = [a \in Actors |-> "idle"]
    /\ line = NoLine
    /\ command = <<>>
    /\ calls = 0
    /\ edits = 0
    /\ commands = 1
    /\ worker = [w \in Commands |-> IF w = 1 THEN "spawn" ELSE "none"]
    /\ child = [w \in Commands |-> "none"]
    /\ enteredIn = [w \in Commands |-> Home]
    /\ strayed = {}
    /\ overtaken = {}
    /\ replaced = {}
    /\ cleared = {}
------------------------------------------------------------------------------
(* Faulty variants of definitions below, for the checks of the properties.  *)

NotSeen == FALSE
AlwaysNone(w) == 0
SpawnFailsLate(w) ==
    /\ worker[w] = "spawn"
    /\ worker' = [worker EXCEPT ![w] = "ended"]
    /\ process' = w
    /\ UNCHANGED <<callVars, commandVars, stopVars, thread, child, strayed, replaced>>
------------------------------------------------------------------------------
At(a, pc) == thread' = [thread EXCEPT ![a] = pc]

(* The receive thread found the session of a datagram.                      *)
Call(pc) ==
    /\ thread["recv"] = "idle"
    /\ ~ stopEvent
    /\ At("recv", pc)
    /\ UNCHANGED <<commandVars, childVars, process, stopVars>>

(* Some keys enter a command, some only edit the line.                      *)
WriteKeys(d) ==
    /\ line' = Write(line, d)
    /\ command' = CommandIn(line, d)
    /\ \/ command' # <<>> /\ commands < MaxCommands /\ calls < MaxCalls
          /\ calls' = calls + 1
          /\ Call("run") /\ UNCHANGED edits
       \/ command' = <<>> /\ edits < MaxEdits
          /\ edits' = edits + 1
          /\ Call("idle") /\ UNCHANGED calls

(* Without a command to interrupt, the line is cleared.                     *)
SendSignal ==
    /\ calls < MaxCalls
    /\ calls' = calls + 1
    /\ Call(IF process = 0 THEN "idle" ELSE "signal")
    /\ line' = IF process = 0 THEN [line EXCEPT !.buffer = <<>>] ELSE line
    /\ UNCHANGED <<command, edits>>
------------------------------------------------------------------------------
(* _run_windows_command: refused after stop and while a command is running; *)
(* self.process is read twice for that.                                     *)

Unpublished == {w \in Commands : worker[w] = "spawn"}
IsCd(c) == c # <<>> /\ Head(c) = "cd"

(* _handle_windows_cd: the directory changes if there is one of that name.  *)
ChangeDir == cwd' \in Dirs /\ UNCHANGED <<worker, commands, enteredIn>>

StartWorker ==
    /\ commands' = commands + 1
    /\ worker' = [worker EXCEPT ![commands'] = "spawn"]
    /\ enteredIn' = [enteredIn EXCEPT ![commands'] = cwd]
    /\ UNCHANGED cwd

Proceed ==
    /\ At("recv", "idle")
    /\ command' = <<>>
    /\ overtaken' = overtaken \cup Unpublished
    /\ IF IsCd(command) THEN ChangeDir ELSE StartWorker
    /\ UNCHANGED <<line, calls, edits, child, strayed, replaced, process, stopVars>>

RunAt(pc) ==
    /\ At("recv", pc)
    /\ command' = IF pc = "poll" THEN command ELSE <<>>
    /\ UNCHANGED <<line, calls, edits, commandVars, childVars, process, stopVars>>

Busy == child[process] = "running"

RunCommand ==
    /\ thread["recv"] = "run"
    /\ IF stopEvent THEN RunAt("idle")
       ELSE IF process # 0 THEN RunAt("poll") ELSE Proceed

Poll ==
    /\ thread["recv"] = "poll"
    /\ IF process = 0 THEN RunAt("crashed")
       ELSE IF Busy THEN RunAt("idle") ELSE Proceed
------------------------------------------------------------------------------
(* The worker thread of a command.                                          *)

WorkerAt(w, pc) == worker' = [worker EXCEPT ![w] = pc]
WorkerUnchanged == UNCHANGED <<callVars, commandVars, stopVars, thread>>
Terminated(w) ==
    IF child[w] = "running" THEN {[child EXCEPT ![w] = c] : c \in {"dead", "orphan"}} ELSE {child}

Spawn(w) ==
    /\ worker[w] = "spawn"
    /\ child' = [child EXCEPT ![w] = "running"]
    /\ strayed' = IF cwd = enteredIn[w] THEN strayed ELSE strayed \cup {w}
    /\ enteredIn' = [enteredIn EXCEPT ![w] = Home]
    /\ process' = w
    /\ replaced' = replaced \cup ({process} \ {0})
    /\ WorkerAt(w, "loop")
    /\ UNCHANGED <<callVars, commands, overtaken, cwd, stopVars, thread>>

SpawnFails(w) ==
    /\ worker[w] = "spawn"
    /\ WorkerAt(w, "ended")
    /\ WorkerUnchanged /\ UNCHANGED <<child, strayed, replaced, process>>

SeesStop == stopEvent
LoopTest(w) ==
    /\ worker[w] = "loop"
    /\ WorkerAt(w, IF SeesStop THEN "wait" ELSE "read")
    /\ WorkerUnchanged /\ UNCHANGED <<child, strayed, replaced, process>>

(* The read ends with output, or with the end of it.                        *)
ReadReturns(w) ==
    /\ worker[w] = "read"
    /\ WorkerAt(w, "loop") \/ WorkerAt(w, "wait")
    /\ WorkerUnchanged /\ UNCHANGED <<child, strayed, replaced, process>>

Cleared(w) == IF process = w THEN 0 ELSE process

(* The wait, after five seconds a terminate, and the last look at process.  *)
WaitAndClear(w) ==
    /\ worker[w] = "wait"
    /\ child' \in Terminated(w)
    /\ process' = Cleared(w)
    /\ WorkerAt(w, "ended")
    /\ WorkerUnchanged /\ UNCHANGED <<strayed, replaced>>

ChildExits(w) ==
    /\ child[w] \in {"running", "orphan"}
    /\ child' = [child EXCEPT ![w] = "dead"]
    /\ WorkerUnchanged /\ UNCHANGED <<worker, strayed, replaced, process>>
------------------------------------------------------------------------------
(* send_signal and stop.  Both look at self.process several times; only the *)
(* first look of the interrupt is inside a handler that catches what an     *)
(* attribute of None raises.                                                *)

ThreadUnchanged == UNCHANGED <<callVars, commandVars, worker, strayed, replaced>>

Interrupt ==
    /\ thread["recv"] = "signal"
    /\ At("recv", IF process = 0 THEN "idle" ELSE "break")
    /\ ThreadUnchanged /\ UNCHANGED <<child, process, stopVars>>

Break ==
    /\ thread["recv"] = "break"
    /\ At("recv", IF process # 0 /\ child[process] # "running" THEN "idle" ELSE "kill")
    /\ ThreadUnchanged /\ UNCHANGED <<child, process, stopVars>>

TaskKill ==
    /\ thread["recv"] = "kill"
    /\ IF process = 0
       THEN At("recv", "crashed") /\ UNCHANGED child
       ELSE /\ At("recv", "check")
            /\ \/ child[process] = "running" /\ child' = [child EXCEPT ![process] = "dead"]
               \/ UNCHANGED child
    /\ ThreadUnchanged /\ UNCHANGED <<process, stopVars>>

(* _terminate_windows_child, in two steps.                                  *)
TerminateCheck(a, check, use, done) ==
    /\ thread[a] = check
    /\ At(a, IF process = 0 THEN done ELSE use)
    /\ ThreadUnchanged /\ UNCHANGED <<child, process, stopVars>>

TerminateUse(a, use, crash, done) ==
    /\ thread[a] = use
    /\ IF process = 0 THEN At(a, crash) /\ UNCHANGED child
       ELSE At(a, done) /\ child' \in Terminated(process)
    /\ ThreadUnchanged /\ UNCHANGED <<process, stopVars>>

Stop(a) ==
    /\ thread[a] = "idle"
    /\ ~ stopEvent
    /\ stopEvent' = TRUE
    /\ At(a, "stopCheck")
    /\ ThreadUnchanged /\ UNCHANGED <<child, process, cleared>>

(* The finally of stop.  The error of a look at None that came too late     *)
(* goes on to the thread's own loop, which does not catch it.               *)
StopEnds(a) ==
    /\ thread[a] = "stopEnd"
    /\ process' = 0
    /\ cleared' = cleared \cup ({process} \ {0})
    /\ At(a, "idle")
    /\ ThreadUnchanged /\ UNCHANGED <<child, stopEvent>>

InterruptStep ==
    \/ Interrupt \/ Break \/ TaskKill
    \/ TerminateCheck("recv", "check", "use", "idle")
    \/ TerminateUse("recv", "use", "crashed", "idle")

StopStep(a) ==
    \/ TerminateCheck(a, "stopCheck", "stopUse", "stopEnd")
    \/ TerminateUse(a, "stopUse", "crashed", "stopEnd")
    \/ StopEnds(a)

WorkerStep(w) ==
    \/ Spawn(w) \/ SpawnFails(w) \/ LoopTest(w) \/ WaitAndClear(w)

Next ==
    \/ SendSignal \/ InterruptStep
    \/ \E d \in Datagrams : WriteKeys(d)
    \/ RunCommand \/ Poll
    \/ \E w \in Commands : WorkerStep(w) \/ ReadReturns(w) \/ ChildExits(w)
    \/ \E a \in Actors : Stop(a) \/ StopStep(a)

Spec == Init /\ [][Next]_vars

(* Threads run: a call goes on, and a read of an ended child returns.       *)
FairSpec ==
    /\ Spec
    /\ WF_vars(RunCommand \/ Poll \/ InterruptStep \/ StopStep("recv"))
    /\ WF_vars(StopStep("janitor"))
    /\ \A w \in Commands : WF_vars(WorkerStep(w) \/ (child[w] = "dead" /\ ReadReturns(w)))
------------------------------------------------------------------------------
(* Every variable stays in its domain: self.process is None or the child of *)
(* a worker that was started.                                               *)
TypeOK ==
    /\ cwd \in Dirs
    /\ process \in {0} \cup {w \in Commands : child[w] # "none"}
    /\ stopEvent \in BOOLEAN
    /\ thread \in [Actors -> {"idle", "run", "poll", "signal", "break", "kill", "check", "use",
                              "stopCheck", "stopUse", "stopEnd", "crashed"}]
    /\ line \in [buffer : Seq(STRING), history : Seq(Seq(STRING)), historyIdx : Nat]
    /\ command \in Seq(STRING)
    /\ calls \in 0..MaxCalls /\ edits \in 0..MaxEdits
    /\ commands \in Commands
    /\ worker \in [Commands -> {"none", "spawn", "loop", "read", "wait", "ended"}]
    /\ child \in [Commands -> {"none", "running", "orphan", "dead"}]
    /\ enteredIn \in [Commands -> Dirs]
    /\ {strayed, overtaken, replaced, cleared} \subseteq SUBSET Commands

(* Hazard of session.py:214.  The arrow keys index _history, an error of    *)
(* which would end the receive thread.  However keys, pastes, interrupts    *)
(* and refused commands follow each other, the index is that of an entry or *)
(* the one past the newest, and no entry repeats the one before it; the     *)
(* command that is being run is the newest, and Up would bring it back.     *)
HistoryIsKept ==
    /\ line.historyIdx \in 0 .. Len(line.history)
    /\ \A i \in 2 .. Len(line.history) : line.history[i] # line.history[i - 1]
    /\ command # <<>> =>
          line.historyIdx = Len(line.history) /\ Up(line).buffer = command

(* Hazard of session.py:277.  Commands run one after the other, each in the *)
(* directory in which it was entered; only a command overtaken before its   *)
(* worker published the child, or one that lost its place in self.process   *)
(* to such a command or to stop, may run beside a later one.                *)
CommandsAreSerial ==
    /\ \A v, w \in Commands :
          v < w /\ child[v] = "running" /\ child[w] = "running"
             => v \in overtaken \cup replaced \cup cleared
    /\ strayed \subseteq overtaken

(* Hazard of session.py:305.  When the session is stopped every worker ends,*)
(* whether its child was starting, running or done; those are left waiting  *)
(* whose program outlived its cmd.exe or whose child another one replaced.  *)
StopEndsCommands ==
    stopEvent ~> \A w \in Commands :
                    worker[w] \in {"none", "ended"} \/ child[w] = "orphan" \/ w \in replaced

(* The comment on the interrupt (session.py:373): it is sent the way it is  *)
(* so as to interrupt the command "without killing the server".  No step of *)
(* an interrupt ends the receive thread.                                    *)
ReceiverSurvives ==
    [][thread["recv"] \in {"signal", "break", "kill", "check", "use"}
          => thread'["recv"] # "crashed"]_vars
==============================================================================
