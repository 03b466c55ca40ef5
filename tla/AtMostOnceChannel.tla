-------------------------- MODULE AtMostOnceChannel --------------------------
(***************************************************************************)
(* What transport.py promises for one direction of one connection, with    *)
(* no locks, timers, retransmissions or packets: messages are numbered in  *)
(* the order of the calls of send_packet; the receiver is handed some of   *)
(* them, each at most once and never out of that order; a call ends in a   *)
(* return (the message is confirmed) or in an exception (it is failed),    *)
(* and it returns only when the receiver has been handed the message.  A   *)
(* failed message may nevertheless have been, or still be, delivered.      *)
(***************************************************************************)
EXTENDS Naturals, Sequences

CONSTANT MaxSequence   \* bound: calls of send_packet considered

VARIABLES
    submitted,   \* how many messages have been submitted
    log,         \* the messages handed to the receiver, in that order
    confirmed,   \* messages whose send_packet returned
    failed       \* messages whose send_packet raised

avars == <<submitted, log, confirmed, failed>>

InLog(n) == \E i \in 1..Len(log) : log[i] = n

AInit ==
    /\ submitted = 0
    /\ log = <<>>
    /\ confirmed = {}
    /\ failed = {}

Submit ==
    /\ submitted < MaxSequence
    /\ submitted' = submitted + 1
    /\ UNCHANGED <<log, confirmed>>
    /\ failed' \in {failed, failed \cup {submitted'}}

Deliver(n) ==
    /\ \A i \in 1..Len(log) : log[i] < n
    /\ log' = Append(log, n)
    /\ UNCHANGED <<submitted, confirmed, failed>>

Confirm(n) ==
    /\ InLog(n)
    /\ n \notin failed
    /\ confirmed' = confirmed \cup {n}
    /\ UNCHANGED <<submitted, log, failed>>

Fail(n) ==
    /\ n \notin confirmed
    /\ failed' = failed \cup {n}
    /\ UNCHANGED <<submitted, log, confirmed>>

ANext ==
    \/ Submit
    \/ \E n \in 1..submitted : Deliver(n) \/ Confirm(n) \/ Fail(n)

ASpec == AInit /\ [][ANext]_avars
==============================================================================
