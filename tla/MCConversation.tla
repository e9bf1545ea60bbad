--------------------------- MODULE MCConversation ---------------------------
(* Conversation on two messages that end anywhere.                         *)
EXTENDS Conversation

TwoMessages == {Message(a) \o Message(b) : a \in {-1, 0, 2}, b \in {-1, 1}}

\* The peer may close the connection anywhere in the second message, and in
\* the body of the first.
Streams == UNION {{SubSeq(s, 1, n) : n \in 8 .. Len(s)} : s \in TwoMessages}
=============================================================================
