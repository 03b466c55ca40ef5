-------------------------------- MODULE GuiApp --------------------------------
(***************************************************************************)
(* The GUI of app.py: handlers that the GUI thread runs one at a time      *)
(* (connect, disconnect, the event pump, the change of the window's size), *)
(* and the event queue through which the threads of its connections, the   *)
(* present one and those that were closed, hand it output and status.      *)
(*                                                                         *)
(* Bytes are symbols: "text" and "bel" are what a shell prints, "prefix"   *)
(* (ESC ]9;UTERM_META:), "json" and "bel" the parts of the server's frames *)
(* of information.  A frame starts a chunk of its own (server.py, the INFO *)
(* branch), so no chunk of the server ends inside the prefix.              *)
(***************************************************************************)
EXTENDS WireFormat, FiniteSetsExt

CONSTANTS
    Sizes,           \* sizes of the terminal widget, in rows and columns
    DefaultSize,     \* _terminal_size before the first synchronisation
    Ids,             \* client ids typed in
    Frames,          \* frames the server sends
    MaxAttempts,     \* bound: calls of connect that get as far as the probe
    MaxPuts          \* bound: events from connections' threads

ASSUME GuiAssumption ==
    /\ DefaultSize \in Sizes /\ 0 \notin Sizes
    /\ Ids \subseteq Nat \ {0}
    /\ {MaxAttempts, MaxPuts} \subseteq Nat
    /\ \A f \in Frames :
          /\ f \in Seq({"prefix", "json", "bel"}) /\ Len(f) > 2
          /\ f[1] = "prefix" /\ f[Len(f)] = "bel"
          /\ \A i \in 2 .. Len(f) - 1 : f[i] = "json"

VARIABLES
    connection,      \* self.connection: the number of its attempt, 0 for None
    attempts,        \* calls of connect so far
    refused,         \* history: the last of them failed though the server answered
    receiving,       \* connections whose receive loop runs
    label,           \* status_label: its colour, what its text says, whose address it names
    events,          \* event_queue; "rest" is history: what its chunk left of a frame
    puts,            \* events put by connections' threads so far
    half,            \* what is still to come of the frame a connection is receiving
    pumping,         \* _process_events is inside its loop
    metaBuffer,      \* _meta_buffer
    shown,           \* history: what the terminal buffer was fed
    infos,           \* history: frames that reached _set_info
    pumped,          \* history: what was in the events pumped, see Init
    widget,          \* the size of the terminal widget
    terminalSize,    \* _terminal_size
    timers,          \* calls of _sync_terminal_size that are scheduled
    afterId,         \* _resize_after_id is not None
    asked            \* history: what send_resize was last called with for the connection, or 0

linkVars == <<connection, attempts, refused, receiving, label>>
queueVars == <<events, puts, half>>
filterVars == <<pumping, metaBuffer, shown, infos, pumped>>
sizeVars == <<widget, terminalSize, timers, afterId>>
vars == <<linkVars, queueVars, filterVars, sizeVars, asked>>

Attempts == 1..MaxAttempts
Output(c, rest) == [kind |-> "output", chunk |-> c, rest |-> rest, of |-> 0]

(* A status; n is the connection whose address its text names, 0 if none.   *)
Status(s, n) == [kind |-> s, chunk |-> <<>>, rest |-> <<>>, of |-> n]

Init ==
    /\ connection = 0
    /\ attempts = 0
    /\ refused = FALSE
    /\ receiving = {}
    /\ label = [green |-> FALSE, text |-> "down", of |-> 0]
    /\ events = <<>>
    /\ puts = 0
    /\ half = [n \in Attempts |-> <<>>]
    /\ pumping = FALSE
    /\ metaBuffer = <<>>
    /\ shown = <<>>
    /\ infos = 0
    /\ pumped = [texts |-> <<>>,       \* output of shells
                 frames |-> 0,         \* frames that were complete
                 due |-> <<>>,         \* the rest of a frame, if it should come next
                 broken |-> FALSE]     \* another chunk came in its place
    /\ widget \in Sizes
    /\ terminalSize = DefaultSize
    /\ timers = 1                      \* __init__ schedules a synchronisation
    /\ afterId = FALSE
    /\ asked = 0
------------------------------------------------------------------------------
(* Faulty variants of definitions below, for the checks of the properties.  *)

NothingHeld(data) == <<>>
WholeHeld(data) == data
EndsAfterOne(n) == receiving' = receiving \ {n}
ColouredByMessage(e) == [green |-> e.kind \in {"connected", "reconnected"}, text |-> e.kind, of |-> e.of]
SyncOnlyConnected ==
    /\ ~ pumping
    /\ timers > 0
    /\ timers' = timers - 1
    /\ afterId' = FALSE
    /\ IF widget # terminalSize /\ connection # 0
       THEN terminalSize' = widget /\ asked' = widget
       ELSE UNCHANGED <<terminalSize, asked>>
    /\ UNCHANGED <<linkVars, queueVars, filterVars, widget>>
------------------------------------------------------------------------------
(* _consume_output_bytes.  Frames are removed from the left; of a frame     *)
(* that has not ended, everything from its prefix on is kept for later.     *)

Starts(data) == {i \in DOMAIN data : data[i] = "prefix"}
FrameStart(data) == Min(Starts(data) \cup {Len(data) + 1})
FrameEnd(data) == Min({i \in DOMAIN data : i > FrameStart(data) /\ data[i] = "bel"} \cup {Len(data) + 1})

Before(data) == SubSeq(data, 1, FrameStart(data) - 1)
Content(data) == SubSeq(data, FrameStart(data) + 1, FrameEnd(data) - 1)
IsJson(content) == content # <<>> /\ ToSet(content) = {"json"}
HeldFrom(data) == SubSeq(data, FrameStart(data), Len(data))

(* One turn of the loop.  A frame has two bytes at least: there are fewer   *)
(* turns than bytes.                                                        *)
FrameRemoved(s) ==
    IF FrameEnd(s.data) > Len(s.data) THEN s
    ELSE [data |-> Before(s.data) \o SubSeq(s.data, FrameEnd(s.data) + 1, Len(s.data)),
          infos |-> s.infos + (IF IsJson(Content(s.data)) THEN 1 ELSE 0)]

Turns(data) ==
    LET turn[n \in 0 .. Len(data)] ==
            IF n = 0 THEN [data |-> data, infos |-> 0] ELSE FrameRemoved(turn[n - 1])
    IN  turn

Consume(data) ==
    LET last == Turns(data)[Len(data)]
    IN  [text |-> Before(last.data), held |-> HeldFrom(last.data), infos |-> last.infos]
------------------------------------------------------------------------------
(* connect, from the probe on, and disconnect                               *)

Put(e) == events' = Append(events, e)

(* An answer counts if it comes from the address that was typed and carries *)
(* the client id that was typed.                                            *)
AnswerCounts(byName, id) ==
    ~ byName /\ Decode(Encode([type |-> 3, sequence |-> 0, client |-> id, payload |-> <<>>])).client = id

Connect(byName, id, answered) ==
    /\ ~ pumping
    /\ connection = 0
    /\ attempts < MaxAttempts
    /\ attempts' = attempts + 1
    /\ IF answered /\ AnswerCounts(byName, id)
       THEN /\ connection' = attempts'
            /\ receiving' = receiving \cup {attempts'}
            /\ label' = [green |-> TRUE, text |-> "up", of |-> 0]
            /\ Put(Status("connected", attempts'))
            /\ asked' = terminalSize
            /\ refused' = FALSE
       ELSE /\ Put(Status("closed", 0))
            /\ refused' = answered
            /\ UNCHANGED <<connection, receiving, label, asked>>
    /\ UNCHANGED <<puts, half, filterVars, sizeVars>>

Disconnect ==
    /\ ~ pumping
    /\ connection # 0
    /\ connection' = 0
    /\ label' = [green |-> FALSE, text |-> "down", of |-> 0]
    /\ Put(Status("closed", 0))
    /\ asked' = 0
    /\ UNCHANGED <<attempts, refused, receiving, puts, half, filterVars, sizeVars>>
------------------------------------------------------------------------------
(* The threads of a connection.  The receive loop tests _stop_event before  *)
(* it waits for a datagram: one may still come after close.                 *)

LoopTest(n) == receiving' = IF n = connection THEN receiving ELSE receiving \ {n}

Receive(n, chunk, rest) ==
    /\ n \in receiving
    /\ puts < MaxPuts
    /\ puts' = puts + 1
    /\ Put(Output(chunk, rest))
    /\ LoopTest(n)
    /\ UNCHANGED <<connection, attempts, refused, label, filterVars, sizeVars, asked>>

(* Output of a shell, which its reader may put between the chunks of a      *)
(* frame.                                                                   *)
ReceiveText(n) ==
    /\ \E c \in {<<"text">>, <<"text", "bel">>} : Receive(n, c, <<>>)
    /\ UNCHANGED half

FirstChunk(data) == Head(ChunkBytes(data, MaxPayloadSize))
OtherChunks(data) == SubSeq(data, Len(FirstChunk(data)) + 1, Len(data))

ReceivePart(n, data) ==
    /\ Receive(n, FirstChunk(data), OtherChunks(data))
    /\ half' = [half EXCEPT ![n] = OtherChunks(data)]

ReceiveFrame(n) == half[n] = <<>> /\ \E f \in Frames : ReceivePart(n, f)
ReceiveRest(n) == half[n] # <<>> /\ ReceivePart(n, half[n])

(* The server dropped a chunk, or it could not be delivered.                *)
LoseChunk(n) ==
    /\ half[n] # <<>>
    /\ half' = [half EXCEPT ![n] = OtherChunks(half[n])]
    /\ UNCHANGED <<linkVars, events, puts, filterVars, sizeVars, asked>>

ReceiveEnds(n) ==
    /\ n \in receiving \ {connection}
    /\ receiving' = receiving \ {n}
    /\ UNCHANGED <<connection, attempts, refused, label, queueVars, filterVars, sizeVars, asked>>

(* What the threads of any connection report, also after close: a packet    *)
(* that is refused, a send that failed, a full queue; and the end of a      *)
(* reconnection, whose worker looks at _stop_event only before it begins.   *)
Report(s) ==
    /\ attempts # 0
    /\ puts < MaxPuts
    /\ puts' = puts + 1
    /\ Put(Status(s, 0))
    /\ UNCHANGED <<linkVars, half, filterVars, sizeVars, asked>>
------------------------------------------------------------------------------
(* _process_events: no other handler runs until it finds the queue empty.   *)

Note(chunk, rest) ==
    pumped' = [texts |-> IF Head(chunk) = "text" THEN pumped.texts \o chunk ELSE pumped.texts,
               frames |-> IF chunk \in Frames \/ chunk = pumped.due THEN pumped.frames + 1
                          ELSE pumped.frames,
               due |-> rest,
               broken |-> pumped.broken \/ pumped.due \notin {<<>>, chunk \o rest}]

PumpOutput ==
    /\ events # <<>> /\ Head(events).kind = "output"
    /\ events' = Tail(events)
    /\ pumping' = TRUE
    /\ LET found == Consume(metaBuffer \o Head(events).chunk)
       IN  /\ shown' = shown \o found.text
           /\ metaBuffer' = found.held
           /\ infos' = infos + found.infos
    /\ Note(Head(events).chunk, Head(events).rest)
    /\ UNCHANGED <<linkVars, puts, half, sizeVars, asked>>

(* _update_status_label: the colour is of self.connection, the text of the  *)
(* message.                                                                 *)
StatusLabel(e) == [green |-> connection # 0, text |-> e.kind, of |-> e.of]

PumpStatus ==
    /\ events # <<>> /\ Head(events).kind # "output"
    /\ events' = Tail(events)
    /\ pumping' = TRUE
    /\ label' = StatusLabel(Head(events))
    /\ UNCHANGED <<connection, attempts, refused, receiving, puts, half, metaBuffer, shown, infos,
                   pumped, sizeVars, asked>>

PumpEnds ==
    /\ pumping /\ events = <<>>
    /\ pumping' = FALSE
    /\ UNCHANGED <<linkVars, queueVars, metaBuffer, shown, infos, pumped, sizeVars, asked>>
------------------------------------------------------------------------------
(* The size of the terminal                                                 *)

(* The widget changes: a call that _resize_after_id stands for is replaced. *)
ScheduleResize(size) ==
    /\ ~ pumping
    /\ widget' = size
    /\ timers' = IF afterId THEN timers ELSE timers + 1
    /\ afterId' = TRUE
    /\ UNCHANGED <<linkVars, queueVars, filterVars, terminalSize, asked>>

SyncSize ==
    /\ ~ pumping
    /\ timers > 0
    /\ timers' = timers - 1
    /\ afterId' = FALSE
    /\ terminalSize' = widget
    /\ asked' = IF widget # terminalSize /\ connection # 0 THEN widget ELSE asked
    /\ UNCHANGED <<linkVars, queueVars, filterVars, widget>>
------------------------------------------------------------------------------
Next ==
    \/ \E byName, answered \in BOOLEAN, id \in Ids : Connect(byName, id, answered)
    \/ Disconnect
    \/ \E n \in Attempts :
          \/ ReceiveText(n) \/ ReceiveFrame(n) \/ ReceiveRest(n) \/ LoseChunk(n)
          \/ ReceiveEnds(n)
    \/ \E s \in {"failed", "reconnected"} : Report(s)
    \/ PumpOutput \/ PumpStatus \/ PumpEnds
    \/ \E size \in Sizes : ScheduleResize(size)
    \/ SyncSize

Spec == Init /\ [][Next]_vars
------------------------------------------------------------------------------
(* Every variable stays in its domain; the receive loop of the present      *)
(* connection runs until disconnect closes it.                              *)
TypeOK ==
    /\ attempts \in 0..MaxAttempts
    /\ connection \in {0, attempts}
    /\ {connection} \ {0} \subseteq receiving /\ receiving \subseteq 1 .. attempts
    /\ label \in [green : BOOLEAN, of : 0..MaxAttempts,
                  text : {"down", "up", "connected", "closed", "failed", "reconnected"}]
    /\ {widget, terminalSize} \subseteq Sizes
    /\ timers \in 0..2
    /\ asked \in Sizes \cup {0}

(* As long as no frame has lost a chunk of it or had one delayed, across     *)
(* chunks and connections: the terminal is fed all the output of the shells *)
(* and nothing of the frames, and every frame is taken note of.             *)
TextIsShown ==
    ~ pumped.broken => shown = pumped.texts /\ infos = pumped.frames

(* A frame that was broken keeps output back until the next BEL only,       *)
(* whichever connection and whatever program it comes from.                 *)
HeldEndsAtBell ==
    [][events # <<>> /\ events' = Tail(events) /\ "bel" \in ToSet(Head(events).chunk)
          => IsSuffix(metaBuffer', Head(events).chunk)]_vars

(* The colour always says whether there is a connection.  The text may be   *)
(* that of a thread of a closed connection, which reports a failure or a    *)
(* reconnection as if it were the present one's; but once the queue is      *)
(* empty, it does not say of a connection that it is closed, nor of none    *)
(* that it is made, nor does it name the address of an earlier one.         *)
LabelTellsState ==
    /\ label.green = (connection # 0)
    /\ events = <<>> =>
          /\ label.text \notin (IF connection # 0 THEN {"down", "closed"} ELSE {"up", "connected"})
          /\ label.of \in {0, connection}

(* What the GUI asks for, not what arrives: send_resize may find the send   *)
(* queue full, and the packet may fail.  Whatever changes of the widget     *)
(* come before, during and between connections, and although the first      *)
(* synchronisation and later ones overlap: once none is scheduled, the last *)
(* send_resize for the present connection had the size of the widget.       *)
SizeIsAskedFor == connection # 0 /\ timers = 0 => asked = widget

(* "Server address invalid, check the IP or the domain name" (app.py:290),  *)
(* says connect of an address it cannot resolve: a domain name it can       *)
(* resolve, of a server that answers the probe, gives a connection.         *)
ReachableServerIsConnected == ~ refused
==============================================================================
