--------------------------- MODULE MCNotifierSend ---------------------------
(* TLC instance of NotifierSend: a text has a length, and expands or not. *)
EXTENDS NotifierSend

Text(length, expands) == [length |-> length, expands |-> expands]
LengthOf(text) == text.length
Encoded(text, n, factor) == AtMost(text.length, n) * (IF text.expands THEN factor ELSE 1)
EscapedText(text, n) == Encoded(text, n, 5)
JsonText(text, n) == Encoded(text, n, 6)

Plain(n) == Text(n, FALSE)
Copies(n, text) == [i \in 1..n |-> text]

\* Heads, summaries, actions and details of lengths around every limit.
AlertsToSend ==
  {[title |-> head, service |-> head, environment |-> head,
    firstSeenAt |-> Plain(24), lastSeenAt |-> Plain(24), fingerprint |-> Plain(64),
    summary |-> summary, actions |-> actions, context |-> context,
    occurrences |-> 3, payload |-> payload] :
     head \in {Plain(40), Text(400, TRUE)},
     summary \in {Plain(0), Plain(1900), Text(2500, TRUE), Text(150, TRUE)},
     actions \in {<<>>, Copies(2, Plain(500)), Copies(7, Text(700, FALSE))},
     context \in {<<>>, Copies(2, Text(300, TRUE)), Copies(4, Plain(1000))},
     payload \in {32768, 32769}}
=============================================================================
