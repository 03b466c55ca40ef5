# Uterm in TLA+

Uterm is a remote terminal over UDP written in Python. A GUI client sends key
strokes in packets, a server gives them to one shell per client id and sends
the shell's output back. This directory models it from the GUI's event pump to
the shells' reader threads, checks the models with TLC on small instances and
proves theorems about them with TLAPS. Paths below are those of the source tree
(`src/src/uterm/...`); `PROJECT.json` maps each definition to the lines it models.

## The system

| Component | State it keeps | Operations | Talks to |
|---|---|---|---|
| Wire protocol, `protocol.py` | none | `encode`, `decode`, input payloads, `chunk_bytes` | everything that sends |
| Reliable channel, `transport.py` | `_send_lock`, `_state_lock`, `_pending_ack`, `_next_sequence`, `_last_delivered_sequence`, `remote_addr`, `last_seen_at`, `sock` | `send_packet`, `send_ack`, `accept`, `update_remote`, `rebind_socket` | its peer, by datagrams |
| Client connection, `client.py` | send queue, socket, channel, failure counter, reconnect flag, stop event | probe, start, close, `send_*`; threads: receive, heartbeat, send, reconnect workers | GUI (callbacks, calls), channel |
| Server, `server.py` | registry `_clients` under `_lock`, stop event, socket | threads: receive loop, janitor, main (`stop`) | channels, sessions |
| Server output path, `server.py` | one bounded queue and one sender thread per runtime | `_forward_output`, `_output_sender_loop`, `_forward_status` | reader threads, channels |
| POSIX session, `session.py` | `_master_fd`, process, stop event, scrollback | `start`, `write`, `resize`, `send_signal`, `stop`; thread: reader | server (callbacks), the shell |
| Windows session, `session.py` | command buffer, history, cwd, child process | line editing, `cd`, command worker, interrupt | server (callbacks), child process |
| GUI, `app.py` | connection, event queue, meta buffer | connect, disconnect, 50 ms event pump, meta filter, key translation | client connection |
| Terminal buffer, `terminal.py` | a pyte screen and a UTF-8 decoder | `feed`, `resize`, read-out | GUI |
| Management API, `api.py` | none | two read-only HTTP handlers | server registry |

What is hard about it, component by component, and what would make it correct:

* **Channel.** Stop-and-wait over UDP: loss, duplication, reordering, retransmission,
  a late ACK, an event looked up under a lock and set after it, a rebind between
  two sends. Correct when messages are handed on in order and at most once, when a
  `send_packet` that returns was acknowledged for *its* packet, when every call ends.
* **Two ends of one client id.** Numbers restart at 1 in every `ClientConnection` and
  every `ClientRuntime`, and packets name neither. Correct when a confirmation still
  means that a shell got the input, and no input is executed twice.
* **Server and sessions.** Receive thread, janitor and `stop` remove runtimes
  concurrently; `session.stop` takes no lock; descriptor numbers are reused. Correct when
  no shell is lost, none is torn down by two threads at once, nothing goes to another
  session's pty, silent clients are cleaned up, live ones are not, and `stop` ends.
* **Client connection.** Locks are held while waiting for the network. Correct when
  there is one worker and one socket at a time, when a dead link leads to a reconnection,
  and when `close` returns, is final, and tells the server.
* **Output path.** Producers and senders find the runtime by client id, at a time of
  their own, and put into bounded queues that lose their oldest chunk. Correct when output
  leaves in order, is lost at the queue's limit only, the scrollback restores what was
  printed early, and the receive thread never waits for a client.
* **Wire format.** Three limits meet in one datagram: 1400 bytes for output, 2048 for
  what the server receives, 65535 for what the header can say. Correct when a cut input is
  never executed.
* **Windows session.** Worker threads, interrupts and `stop` share `self.process` and
  `_cwd` without a lock around test and use, and keys, pastes, arrows and interrupts share a buffer
  and a history. Correct when commands run one at a time where they were entered, when the arrow
  keys find the history in order, and when all workers end.
* **GUI.** One thread, but a queue of events from the threads of several connections,
  frames cut into chunks, and timers. Correct when the terminal shows the shell's output
  and nothing else, when the label does not contradict the state, and when each connection is
  asked for the size the widget has.

`PROJECT.json` lists these as hazards at their lines, each with the properties that
would catch it, or the reason why there is none.

## Modules

| Module | Models | Composes |
|---|---|---|
| `AtMostOnceChannel` | what a channel promises: submit, deliver in order at most once, confirm, fail | |
| `ReliableChannel` | one direction of `transport.py` | refines `AtMostOnceChannel` |
| `ReliableChannelProofs` | the theorems about `ReliableChannel` | |
| `UtermServer` | registry, receive loop, janitor and `stop` of `server.py`; `start`, `write`, `stop` of a POSIX session | |
| `ServerReaders` | the reader thread of each session | extends `UtermServer` |
| `WireFormat` | `protocol.py`, and what the server makes of an input payload, as operators | |
| `OutputPath` | reader threads, `_forward_output`, queues, sender threads and scrollback of one client id | extends `WireFormat` |
| `GuiApp` | `app.py`: connect, disconnect, event pump, frame filter, label, size | extends `WireFormat` |
| `WindowsLine` | what a datagram does to the command line and history of the Windows session, as functions | |
| `WindowsSession` | that line as keys, interrupts and commands change it; commands, interrupts and stop | extends `WindowsLine` |
| `MCUtermServer`, `MCOutputPath`, `MCGuiApp`, `MCWindowsSession` | instances for TLC | extend `ServerReaders`, `OutputPath`, `GuiApp`, `WindowsSession` |
| `ClientConnectionProofs` | the theorems about `ClientConnection` | |
| `ConversationProofs` | the theorems about `Conversation` | |
| `OutputPathProofs` | the theorems about `OutputPath` | extends `WireFormatProofs` |
| `UtermServerProofs` | the theorems about `UtermServer` and `ServerReaders` | |
| `WireFormatProofs` | the theorem about `WireFormat`, and induction over numbers | |
| `WindowsSessionProofs` | the theorems about `WindowsLine` and `WindowsSession` | |
| `GuiAppProofs` | the theorems about `GuiApp` | extends `WireFormatProofs` |
| `Conversation` | connections and runtimes of one client id over UDP | takes `ReliableChannel`'s steps as atomic |
| `ClientConnection` | the threads of `client.py` | takes `send_packet` as a call that succeeds or fails |

### ReliableChannel

One direction: any number of threads call `send_packet` on one side, `accept` runs on
the other. A datagram is a pair of the header's sequence number and the message it
carries; UDP is a set of datagrams that never shrinks, so every loss (a datagram
nobody receives), repetition and reordering is a behaviour. `send_packet` is
`BeginSend` (lock, number, event), `Transmit`, and one of `AckArrived`, `Timeout`
and `SocketError`; `EncodeError` is the payload that does not fit, which leaves its
event registered as the code does. The ACK half of `accept` is two steps, `LookUpAck`
and `SetEvent`, because the event is set outside `_state_lock`; the data half is
`AcceptAck` and `Filter`, because the ACK goes out before the filter. `Rebind` is
`rebind_socket`. The header's field is modelled: `Packet` cuts the number to
`SeqSpace` while `_pending_ack` keeps the whole one.

### UtermServer and ServerReaders

A runtime is a number in the order of creation; its shell, `_master_fd` and stop event
are functions of it, and `pty` is the process's descriptor table: whose pty each number
stands for. A descriptor number is reused as soon as it is closed, the lowest first, as POSIX
has it. `session.stop` is three steps (`KillShell`, `CloseMaster`, `ClearSession`)
by whichever thread called it, with `BeginTeardown` setting the stop event. The receive
thread's handling of a packet is split where it releases the lock or uses what another
thread can change: lookup or creation (`FindRuntime`; `StartSession` then `Register`,
the lock held in between), `Accept`, `Write`, `Disconnect`. An exception nobody catches
ends the thread in `"crashed"`: `write` raises one when the descriptor is closed or `None` by then, and
may raise one (`EIO`) on an open descriptor whose shell has exited. The janitor's list is taken under the lock and used
after it. `ServerReaders` adds the thread that loads `_master_fd`, enters `os.read`
with the number and blocks on the file the number stood for.

### Conversation

Each end is an incarnation number and a channel record (next number, pending number,
last delivered). `Connect` is the probe (number 0, sent to a runtime that may or may not
exist), `Leave` the end of a connection, whether closed or killed. A datagram of the client
carries its address and no incarnation.

The receive thread takes a packet in three steps, as `_recv_loop` does: `FindRuntime` (lookup or
creation, under the lock), `AcceptPacket` or `AcceptAck` (the ACK goes out, then the filter), and
`Write` or `Disconnect`. It holds the runtime it found throughout. In between the janitor may take the
runtime out of the registry (`JanitorRemoves`) and stop its session (`JanitorStops`), the shell may exit
(`ShellExits`), the sender thread may send. So an input may be acknowledged and find
the shell gone: it is then `lost`, and the receive thread goes on or ends with an exception. Inputs that
a running shell got are `executed`. The sessions are POSIX ones; that a Windows session
refuses a command while another runs is in `WindowsSession`.

### ClientConnection

The send loop has a packet in hand or none; `Transmit`, `Confirmed` and `SendFails` are
the parts of `send_packet` the other threads can notice. A packet is `"packet"`,
`"oversize"` (the one `encode` refuses, which ends the loop) or `"disconnect"`. A
worker of `_maybe_reconnect` goes through `WorkerHead`, `CloseOld`, `CreateNew` or
`CreateFails`, `Rebind` (only when no `send_packet` is under way: it needs `_send_lock`),
`Report`, `ClearFlag`. `close` is three steps; the pause of 0.1 s is over when the
send loop is waiting for something or has ended, which is the most favourable reading.
The failure counter is compared with 3 only and counts no further.

### WireFormat

A datagram is the fields of its header and its body; numbers inside a payload are
written byte by byte, so that their width is real. `Received` is `recvfrom(2048)` as POSIX has it, which
cuts what is longer; on Windows the call raises an `OSError` instead, which ends the receive loop
(server.py:95) and is not modelled here. `HandleInput` is `_handle_command_input` down to the call it makes:
it gives back the record that `BuildInput` was given, or `Error` where the code logs and
returns. The sizes are constants, ordered as the code's are (`WireAssumption`).

### OutputPath

The runtimes of one client id, one after the other. `current` is what `_clients.get`
returns; the receive thread creates a runtime in two steps, between which its session
already prints, and removal takes the runtime out of the registry before it sets
`out_stop`. `_forward_output` looks the runtime up once (`BeginPut`) and then makes up
to three calls on its queue for each chunk (`PutNowait`, `Full`, `DropOldest`,
`FullAgain`), with other producers and the sender in between. The sender gets from its own
queue and sends on the channel of whichever runtime the id stands for by then. Output is
counted in units, one per read; the scrollback is cut by `WireFormat`'s `ChunkBytes`. The
record `history` says what became of the current runtime's units.

### GuiApp

Handlers of the GUI thread are actions; `pumping` keeps the others out while
`_process_events` empties the queue, as the event loop does. Connections are numbered by
attempt and their threads put events also after `close`. `Consume` is
`_consume_output_bytes`: `FrameRemoved` is one turn of its loop and `Turns` all of them.
`ChunkBytes` cuts a frame into any number of chunks; output of the shell may come between two
of them (`ReceiveText` between `ReceiveFrame` and `ReceiveRest`), or a chunk be lost
(`LoseChunk`), as `OutputPath` allows. An event remembers in `rest` what its chunk left of
a frame, for the properties only. Threads of any connection, closed ones included, go on reporting
status: `Report` is a failure (a refused packet, a failed send, a full queue) or the "已重连" of a worker, which
looks at `_stop_event` only before it begins (client.py:241, 251). `StatusLabel` is
`_update_status_label`: the colour comes from `self.connection`, the text from the message. `asked`
remembers the size `send_resize` was last called with for the present connection; what the send
queue and the network make of the call is `ClientConnection`'s and `ReliableChannel`'s. `timers` counts the scheduled calls of `_sync_terminal_size`: the one of
`__init__` and the one `_resize_after_id` stands for may both be due.

### WindowsLine and WindowsSession

Only the receive thread touches the command line, so `WindowsLine` is a function of line and
datagram. `TakeByte` is one turn of the loop over a datagram's bytes, which takes backspaces
from the buffer and puts the rest aside; `CommandIn` is the command that a datagram enters, if any, and
`Write` the line it leaves, with what follows the first end of line still in the buffer. The bytes of
an arrow key are an arrow key only in a datagram of their own, as in the code; elsewhere they are text.

`WindowsSession` has the line as its state. `WriteKeys` takes any datagram, a line typed key by
key or a paste of several; `SendSignal` clears the buffer when there is nothing to interrupt. Each look
at `self.process` is a step of its own where
another thread can clear it: `RunCommand` and `Poll` for the test of a running command,
`Interrupt`, `Break`, `TaskKill`, `TerminateCheck`, `TerminateUse` for the
interrupt, and the last two again for `stop`. A worker publishes its child in `Spawn` and clears it
in `WaitAndClear`; a child may be terminated and leave an orphan that still holds the pipe.

## Runs

| Run | Instance | What it shows |
|---|---|---|
| `channel` | 2 threads, 3 messages, 2 transmissions each | order, meaning of a confirmation, the refinement, termination |
| `server` | 2 clients, 2 runtimes and their readers, symmetry | `TeardownExclusive`, `NoLeakedSession`, `DescriptorsAreOwn`, `AtMostOneShellSurvivesStop`; a reader on another session's pty belongs to a stopped session |
| `server_live` | 1 client, 2 runtimes | DISCONNECT and silence end a session, `stop` ends the server |
| `readers_crossover` | 2 clients, 2 runtimes | violation: a reader is on another session's pty |
| `output` | 2 runtimes, queues and scrollback of 2, 3 reads, 1 packet; 2 values to a byte, payloads up to 7 bytes | order, no silent loss, replay without a gap, the receive loop goes on; cut input is refused |
| `gui` | 2 attempts, 3 events, 2 sizes, any changes of size, frames of 1 and 2 chunks | terminal, frames, label and the size asked for |
| `gui_connect` | the same, 1 event | violation: a server given by name is not connected to |
| `windows` | 3 commands, 2 calls, 1 edit, 2 directories, 5 datagrams | commands are serial, the history is kept, `stop` ends the workers |
| `windows_interrupt` | 2 commands, 2 calls, no edit | violation: an interrupt ends the receive thread |
| `conversation` | 2 connections, 2 runtimes, 2 sends | what a confirmation means in the first incarnation; a shell gets no input twice |
| `conversation_acked` | the same | violation: a later connection's inputs are acknowledged and dropped |
| `client` | 2 workers, queue of 2, 3 sockets | one worker, one socket, reconnection is tried, `close` returns, all threads end |

The four violations are disagreements between the code and what its documentation,
comments or messages say; `PROJECT.json` quotes them under `findings`. In short: a stale
descriptor number lets one session's reader take a chunk of another's output; reconnecting
with a new `ClientConnection` under the same client id (which `docs/DEPLOYMENT.md`
recommends) meets a filter that drops its inputs after acknowledging them; the probe compares
the address of an answer with the host as it was typed; and an interrupt on Windows can end the
receive thread by an `AttributeError` when the command ends while it is being interrupted. That thread is a
daemon: `run_forever` goes on waiting for `_stop_event`, and the server receives nothing more.

Properties say where they stop. `NoSilentLoss` speaks of a runtime without a full queue or a failed
send, and not of what was printed before registration, which the code drops (`ReplayClosesGap`
says what brings it back). `TextIsShown` excludes frames that lost a chunk or had one come
late, and `HeldEndsAtBell` says what those cost. `CommandsAreSerial` names the
three ways in which commands do run side by side: one overtook the other before its child was in
`self.process`, replaced the child there, or found `self.process` cleared by a `stop` that had not
ended the child. The third needs more commands and calls than the run has; the attempt at a proof
found it.
`HistoryIsKept` speaks of buffer, history and index as they follow each other; how text itself is edited when
a backspace follows text in one datagram, or a paste has several lines, is in the model as the code
does it and in no property, since nothing says what was meant.

`FirstConnectionIsServed` says what an acknowledgement does tell: no filter dropped the input, it reached a
session. It does not tell that a shell ran it: the ACK leaves before the write, and a shell that exited, or
was stopped by the janitor between lookup and write, takes nothing. `FirstRuntimeIsShown` stops where a second
runtime restarts the numbers. `SizeIsAskedFor` ends at the call of `send_resize`. `LabelTellsState` lets a
closed connection's failure or reconnection stand in the text, as the code does, but not in the colour.

Every other property has a faulty variant of a modelled definition that breaks it (the
sections "Faulty variants" in the modules, listed under `mutants`): a dropped lock,
a filter that compares with `<`, a retry that is not counted, a clean-up that forgets to stop
the session, a flag that is never cleared.

**Bounds.** Counters that the program does not bound are bounded by constants:
`MaxSequence` and `MaxPackets` (sends), `MaxRuntimes`, `MaxConnections`, `MaxSockets`, `MaxAttempts`, `MaxPuts`,
`MaxCommands`, `MaxCalls`, `MaxEdits`. Three messages of one channel let one be overtaken by the next while a third is sent; two transmissions
distinguish a first from a last attempt; two threads are enough to contend for a
lock; two clients and two runtimes are enough for a descriptor to change hands, and a third runtime
lets a client come back meanwhile. Two connections and two runtimes give each pairing of old and
new; two packets are an input and the one that could pass for it. Three sockets are two reconnections in a row, so that the second worker meets what the first
left behind. Once `MaxRuntimes` runtimes exist a further one fails to start, as it does when the system
has no pty left. In `output` the first runtime's chunks meet the second's channel; a queue of two
distinguishes the oldest chunk from the newest; three reads fill it, and overflow the scrollback. In `gui`
three events are the two chunks of a frame with output between them; two attempts let events of a
closed connection meet the next; the widget changes without a bound, so scheduled calls are replaced, overlap and
span two connections. In `windows` three commands let one replace another's child in
`self.process`, be ended and leave room for the third. Its datagrams are a line that comes whole, a paste with a `cd`, a backspace
and the beginning of another line, an end of line alone and the arrows, which a line left over and the history make
commands of. The sizes of `WireFormat` keep the order of the
real ones with bytes of one bit: payloads are longer than the receive buffer and than the length
field, terminal sizes and signal numbers reach the ends of their fields.

**Deadlock** is checked for the channel only; elsewhere the system may rightly stop (a closed
connection, a stopped server, exhausted bounds), and the liveness properties say what must have
happened by then.

**Fairness.** Threads are scheduled: a thread that can go on does (`threading` threads
of one process), and timers fire. A thread that waits for a lock gets it where the lock is free again
and again; in `ReliableChannel` nothing is assumed of the threads that wait for `_send_lock`. Nothing is
assumed of the network, of shells, of users, of the system's willingness to grant a socket, nor
that `stop` or `close` is ever called. `ReceiveLoopGoesOn` assumes the receive thread alone, no sender
thread and no client; `StopEndsCommands` that the worker's steps and the read from a child that has
ended return, not that a child ends. `ConfirmedIsDelivered` needs the receive thread to finish
the packet it has begun, `OfflineEndsSession` the janitor, `CloseReturns` the send loop, whose
retransmissions end.

## Proofs

`ReliableChannelProofs` proves, for every set of threads, every number of
retransmissions and of messages:

* `ChannelInvariant`: `Spec => []ChannelInv`, the inductive invariant;
* `TypeCorrect`, `DeliveryOrder`, `ConfirmationMeansAcceptance`, `OneMessageInFlight`:
  the type invariant and the three safety invariants of the run `channel`;
* `Refinement`: `Spec => ImplementsAbstract`, every step of the channel is a step of
  `AtMostOnceChannel` or none.

They assume `ChannelAssumption` (types of the constants) and `NoWrap`
(`MaxSequence < SeqSpace`: the connection sends fewer packets than the sequence field has numbers).
Without `NoWrap` they are false, as the code masks the number in the header and nowhere else.

None of the properties is inductive alone. `ChannelInv` has three layers, and each is
preserved because of the ones before it. `SenderInv`: a call in progress holds `_send_lock` and
has the newest number, every older number is decided (confirmed or failed), and an event that is
still registered belongs to the call in progress or to a failed one. `WireInv`: a datagram's number is
its message, an ACK answers a datagram that was sent, and a datagram is followed by a later one
only when its call is over. `PeerInv`: what was delivered is increasing and below the filter's
mark, and every ACK, set event or looked-up event is *explained*: its message was accepted
by the peer, or its call has failed. The last part is what makes a late ACK harmless: it can only
set the event of a call that has not failed, whose message the peer therefore has. `Rebind` cannot
confirm anything because it needs `_send_lock`, so only events left over by `EncodeError` are there to
be set. For the refinement a packet that `accept` has acknowledged and will return counts as
handed over, because the sender may learn of it before the filter has run.

`ClientConnectionProofs` proves, for every set of workers, capacity of the queue and number of
sockets, under `ClientAssumption` alone: `ClientInvariant` (`Spec => []ClientInv`) and, from it,
`ClientTypes`, `OneWorkerAtATime` (`SingleWorker`) and `OneOpenSocket` (`OneSocket`). `SingleWorker`
needs the flag to be set as long as any worker is at work, the stretch between the decision to
finish and `ClearFlag` included. `OneSocket` needs two things more: `_socket_lock` is held exactly by a
worker between `CloseOld` and `Rebind`, and in the first half of that stretch no socket is open at
all, which is why opening one keeps the number at one and why `close` cannot come in between.

`UtermServerProofs` proves, for every set of clients and every number of runtimes, under
`ServerAssumption` alone, all six properties of the run `server`: `ServerTypes`,
`TeardownIsExclusive`, `SessionsAreKept`, `DescriptorsAreRight` and `OneSurvivor` of
`UtermServer`'s `Spec`, from `ServerInvariant` (`Spec => []ServerInv`), and
`StrayReadersAreStopped` of `ServerReaders`' `RSpec`. `ReadersImplementServer` (`RSpec => Spec`)
carries the first five over to the server with its readers.

`ServerInv` has one part for each thing that makes `session.stop` safe to call from three threads.
`ThreadInv`: which program counter holds the lock. `RegistryInv`: a runtime that the receive
thread or the janitor is stopping has left the registry, one that `stop` is stopping has not, and `stop`
holds the lock meanwhile; so whoever pops a runtime under the lock finds it in nobody's
hands. `TeardownInv`: the stop event is set and the shell dead before the descriptor is
closed. `DescriptorInv`: `_master_fd` stands for the session's own pty except between the close
of the number and the assignment of `None`; since owned numbers are distinct, closing one
touches no other session, and by the pigeonhole principle a number is free whenever a session can be
started. `StopInv`: while `stop` works, a registered session that still runs is on its list or in its
hands; afterwards whoever survives was created by the packet the receive thread had in hand, and
with `_stop_event` set that thread never takes another. `ReaderInv` adds that a reader is
about to read from its session's own number as long as the session is not stopped.

`ConversationProofs` proves, for every number of connections, runtimes and packets, under
`ConversationAssumption` (they are numbers), the three properties of the run `conversation`:
`FirstConnectionServed`, `FirstRuntimeShown` and `InputsOncePerShell`, from
`ConversationInvariant` (`Spec => []ConversationInv`). Each of the first two needs one fact about
the newest packet of an incarnation, the only one that can still be confirmed: if an ACK of
its number exists, or the peer's mark stands at it, then it has reached the application: at the server, a session,
or the hand of the receive thread that is about to write it. `HandInv` says what is in that hand: a packet that was sent, with the
newest runtime, whether or not that is still registered, and what is about to be handled is what the filter let through last. For
the first connection (`FirstClientInv`) every mark and every ACK is below the next number, so a fresh
number is unknown to the peer, even to a runtime made by an old packet; a number also has one type,
so an ACK of it cannot be that of a disconnection. The first runtime (`FirstRuntimeInv`) is the
same with the roles exchanged, as long as it lives; its successor has another number. With a second
connection both facts fail, and `conversation_acked` shows what follows. `InputsOncePerShell`
needs only `ShellInv`: what a shell was given is numbered up to its filter's mark, and below what is about to be
written to it.

`OutputPathProofs` proves, for every size of the queues, the scrollback and a payload and every
number of runtimes, under `OutputAssumption` and `WireAssumption`, the three properties of the run
`output` that speak of the order and the loss of output: `OutputInOrder` (`LiveOutputInOrder`),
`NothingLostSilently` (`NoSilentLoss`) and `ReplayLeavesNoGap` (`ReplayClosesGap`), from
`OutputInvariant` (`Spec => [](StructureInv /\ OrderInv /\ LossInv /\ ReplayInv)`).
`StructureInv` says who carries what: a reader puts one chunk of its own session at a time, the
receive thread only replays and frames, and nothing of a session is in the queue of an older
runtime, nor anything at all in that of a runtime not yet registered. So the live output of the
current session is in four places only, and every step with the runtime registered is one of six
(lemma `Stages`): nothing moves, a unit is printed, enqueued, taken or sent, or something is dropped.
`OrderInv` keeps the four places in order: what is on the channel before what the sender thread
holds, that before the queue, that before what the reader is about to put. Dropping the oldest
chunk keeps it, as it only makes a place smaller. `LossInv` says that the four places together have
all units since the registration while nothing was dropped, and `ReplayInv` follows the scrollback
through the same threads.
`OutputTypes` (`TypeOK`) adds the bounds on what was read and printed, and `InputIsWhole`
(`InputWholeOrNotAtAll`) follows from what `WireFormatProofs` proves.

`WireFormatProofs` proves `WholeOrNothing` (`InputsArriveWhole`) from `WireAssumption`: for every
number of values of a byte, width of the fields, size of the buffers and set of payloads, the server does
with an input what the client meant, or the datagram is refused as a whole. Each kind of
input has a lemma: its bytes written and read again give the same numbers, the sign included,
because a place value of the right size is all that is divided away (`TwoBytes`, `FourBytes`,
`SignComesBack`); a datagram arrives as it was sent unless the header's length does not
agree with what came, and then `decode` refuses it (`DatagramArrives`).

`GuiAppProofs` proves, for every number of connections, events and changes of size and all
frames, in however many chunks they come, under `GuiAssumption` and `WireAssumption`, all five properties
of the run `gui`: `GuiTypes`, `LabelIsRight` (`LabelTellsState`), `SizeStaysAsked` (`SizeIsAskedFor`),
`ShellOutputIsShown` (`TextIsShown`) and the action property `BellEndsHolding` (`HeldEndsAtBell`), from
`GuiInvariant` (`Spec => []GuiInv`). `GuiAssumption` says what a frame is: the prefix, then JSON without
prefix or BEL in it, then BEL. `LabelInv`: whatever the label or an event in the queue says that is
contrary to `self.connection`, or names an earlier connection, an event of status comes after it. `SizeInv`: `_terminal_size` is the
widget's size unless a synchronisation is scheduled, and the size asked for on the present connection is
`_terminal_size`. For the text two invariants are needed. `QueueInv` follows what is
due after each event of the queue: a frame's next chunk, put by the same connection's thread
and cut from what its last one left (`half`). `BufferInv` says that what the filter holds, followed
by what is due, is a frame. The step that pumps a chunk then needs what the loop computes: its
equation for each turn (`TurnsEquation`), that it ends within as many turns as there are
bytes, and what it does to text, to a beginning, a middle and an end of a frame. That the buffer after a
BEL holds nothing but an end of the chunk with the BEL is an induction on the turns, for arbitrary bytes.

`WindowsSessionProofs` proves, for every number of commands, calls and edits, every set of directories
and every set of datagrams, under `WindowsAssumption` and `LineAssumption`, the three safety properties of the run
`windows`: `SessionTypes`, `SerialCommands` (`CommandsAreSerial`) and `HistoryStaysUsable` (`HistoryIsKept`), from
`SessionInvariant` (`Spec => [](SessionInv /\ HistoryInv)`). `PublishedInv`: a child that runs is the one in
`self.process`, or excused. `SerialInv`: a command whose child is to come or runs has no
later one started, or is excused; the look at `self.process` before a start keeps it, and where
that look is too early the excuse is the one the property names. `DirectoryInv`: `_cwd` changes between a
command and its worker only by another command. `HistoryInv`: the index is within the history or just past it, no
entry repeats the one before, and what is being run is the newest entry. For that the line has to stay a line through whatever
a datagram does: `TakenScans` follows the bytes of a datagram of any length, and `Remembered`, `Recalled`
and `Written` say what becomes of history and index.

The prover has no induction over data of its own. Where a proof needs one, it is made from the
well-foundedness of the order on the numbers (`NumbersByInduction`, a statement about sets of
numbers), and what a recursive function computes from the equation it satisfies, after a function
that satisfies it has been shown to exist (`SomeTurns`, `SomeFollows`, `SomePowersUpTo`).

Every safety property that a passing run checks is thus proved for all values of the constants,
the bounds on counters included. Only model-checked: the liveness properties, which are out of the
prover's reach.

## Not modelled

Left out for good: the management API (two read-only handlers under the server's lock), the
terminal buffer (a call of pyte, whose screen is not this program's), key tables, copy and paste, widgets,
colours and rendering, statistics and logging, and the entry points. `GuiApp` has no key strokes:
what the keys send is data to every other part.

`OutputPath` follows one client id, as nothing in the output path is shared between ids, and
has no `stop` of the whole server: after it nothing is sent any more, and `UtermServer` has the rest.
Output on Windows takes the same way and is not distinguished. `WindowsSession` leaves out the
prompts and what `_emit_output` does, and takes `poll`, `wait` and `terminate` as external; that a
`cd` happens is kept, which directory a name means is not.
