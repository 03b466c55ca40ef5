----------------------------- MODULE WindowsLine -----------------------------
(***************************************************************************)
(* The command line of the Windows compatibility shell (session.py,        *)
(* _write_windows): what one datagram of keys does to the buffer and the   *)
(* history, and which command it enters.                                   *)
(*                                                                         *)
(* Bytes are symbols: "bs" is a backspace, "nl" an end of line, anything   *)
(* else is text.  The arrow keys are the datagrams <<"up">> and <<"down">>;*)
(* among other bytes those of an arrow key are text, as the code has it.   *)
(***************************************************************************)
EXTENDS Integers, SequencesExt

CONSTANT Datagrams   \* what comes: sequences of symbols

ASSUME LineAssumption == Datagrams \subseteq Seq(STRING)

NoLine == [buffer |-> <<>>, history |-> <<>>, historyIdx |-> 0]
------------------------------------------------------------------------------
(* First the backspaces of a datagram, wherever they are, then the rest of  *)
(* it; what follows its first end of line stays in the buffer as it is.     *)

TakeByte(s, b) ==
    IF b = "bs" THEN [s EXCEPT !.buffer = SubSeq(@, 1, Len(@) - 1)]
    ELSE [s EXCEPT !.text = Append(@, b)]

(* The buffer and new_data, after all of the datagram.                      *)
Taken(buffer, d) ==
    LET taken[i \in 0 .. Len(d)] ==
            IF i = 0 THEN [buffer |-> buffer, text |-> <<>>] ELSE TakeByte(taken[i - 1], d[i])
    IN  taken[Len(d)]

Strip(s) ==
    LET kept == {i \in DOMAIN s : s[i] # "nl"}
    IN  IF kept = {} THEN <<>> ELSE SubSeq(s, Min(kept), Max(kept))

LineEnd(text) == SelectInSeq(text, LAMBDA b : b = "nl")
LeftOver(text) == SubSeq(text, LineEnd(text) + 1, Len(text))

(* The command that a datagram enters; <<>> if it enters none.              *)
CommandIn(l, d) ==
    LET taken == Taken(l.buffer, d)
    IN  IF d \in {<<"up">>, <<"down">>} \/ LineEnd(taken.text) = 0 THEN <<>>
        ELSE Strip(taken.buffer \o SubSeq(taken.text, 1, LineEnd(taken.text) - 1))
------------------------------------------------------------------------------
Remember(h, c) == IF h # <<>> /\ Last(h) = c THEN h ELSE Append(h, c)
Enter(l, c) ==
    IF c = <<>> THEN l
    ELSE [l EXCEPT !.history = Remember(@, c), !.historyIdx = Len(Remember(l.history, c))]

Recall(l, i) ==
    [l EXCEPT !.historyIdx = i,
              !.buffer = IF i < Len(l.history) THEN l.history[i + 1] ELSE <<>>]

(* Faulty variant of Down, for the check of the property.                   *)
DownTooFar(l) == IF l.historyIdx <= Len(l.history) THEN Recall(l, l.historyIdx + 1) ELSE l

Up(l) == IF l.historyIdx > 0 THEN Recall(l, l.historyIdx - 1) ELSE l
Down(l) == IF l.historyIdx < Len(l.history) THEN Recall(l, l.historyIdx + 1) ELSE l

Entered(l, d) ==
    LET taken == Taken(l.buffer, d)
    IN  IF LineEnd(taken.text) = 0 THEN [l EXCEPT !.buffer = taken.buffer \o taken.text]
        ELSE [Enter(l, CommandIn(l, d)) EXCEPT !.buffer = LeftOver(taken.text)]

Write(l, d) ==
    CASE d = <<"up">>   -> Up(l)
      [] d = <<"down">> -> Down(l)
      [] OTHER          -> Entered(l, d)
==============================================================================
