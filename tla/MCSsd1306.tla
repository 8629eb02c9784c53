----------------------------- MODULE MCSsd1306 -----------------------------
(* Small instance of Ssd1306: see Display.cfg for the bounds.              *)
EXTENDS Ssd1306

\* One process writes nothing but a newline, or a newline and a character; the
\* other a newline, a line of two and a character that wraps to the first page.
MCTexts == [w1 |-> {<<"nl">>, <<"nl", "b">>}, w2 |-> {<<"nl", "a", "a", "b", "nl">>}]
=============================================================================
