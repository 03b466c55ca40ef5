--------------------------- MODULE MCWindowsSession ---------------------------
(* Instance of WindowsSession for TLC: a line that comes whole, a paste with *)
(* a backspace and the beginning of a second line, Enter, the arrow keys.   *)
EXTENDS WindowsSession

SomeDatagrams == {<<"a", "nl">>, <<"cd", "nl", "b", "bs">>, <<"nl">>, <<"up">>, <<"down">>}
==============================================================================
