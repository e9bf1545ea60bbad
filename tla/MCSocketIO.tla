----------------------------- MODULE MCSocketIO -----------------------------
(* SocketIO on short streams. *)
EXTENDS SocketIO

CONSTANT x  \* a byte that is neither CR nor LF

\* A line and a half, an empty line among others, a bare CR, a bare LF, no
\* line end at all, nothing.
Streams ==
    {<<x, CR, LF, x>>, <<CR, LF, x, CR, LF>>, <<x, CR, CR, LF>>,
     <<LF, CR, LF>>, <<x, x, x>>, <<x, LF, CR>>, <<>>}
=============================================================================
