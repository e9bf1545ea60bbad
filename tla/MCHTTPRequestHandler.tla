------------------------ MODULE MCHTTPRequestHandler ------------------------
(***************************************************************************)
(* HTTPRequestHandler on request lines that differ from the plain one in   *)
(* one part, with every combination of the header fields or a few of them. *)
(***************************************************************************)
EXTENDS HTTPRequestHandler

Plain == [long |-> FALSE, latin |-> TRUE, parts |-> 3, method |-> "GET", http |-> TRUE,
          version |-> <<<<1>>, <<1>>>>]

\* More than ULONG_MAX.
Nines == [i \in 1 .. 20 |-> 9]

\* 0.9, 1.0, 1.1, 1.10, 2.0, 1.01, 01.1, 65537.1, 1.x, x.1, 1, 1.1.1, +1.1,
\* 1.-1 and the one that is out of range
Versions ==
    {<<<<0>>, <<9>>>>, <<<<1>>, <<0>>>>, <<<<1>>, <<1>>>>, <<<<1>>, <<1, 0>>>>, <<<<2>>, <<0>>>>,
     <<<<1>>, <<0, 1>>>>, <<<<0, 1>>, <<1>>>>, <<<<6, 5, 5, 3, 7>>, <<1>>>>,
     <<<<1>>, <<Letter>>>>, <<<<Letter>>, <<1>>>>, <<<<1>>>>, <<<<1>>, <<1>>, <<1>>>>,
     <<<<Plus, 1>>, <<1>>>>, <<<<1>>, <<Minus, 1>>>>, <<Nines, <<1>>>>}

RequestLines ==
    {[Plain EXCEPT !.version = v] : v \in Versions}
    \cup {[Plain EXCEPT !.long = TRUE], [Plain EXCEPT !.latin = FALSE], [Plain EXCEPT !.http = FALSE]}
    \cup {[Plain EXCEPT !.parts = n, !.method = m] : n \in {0, 1, 2, 4}, m \in {"GET", "POST"}}

\* For two requests on one connection: the fields matter one at a time.
FewFields ==
    {[NoFields EXCEPT !.connection = c, !.length = l] :
        c \in {"absent", "close", "keep-alive"}, l \in {"absent", "number"}}
    \cup {[NoFields EXCEPT !.expect = "100-continue", !.length = "number"]}

\* For what the comments of the source say of one request.
PlainLine == {Plain}
KeepAlive == {[NoFields EXCEPT !.connection = "keep-alive"]}
=============================================================================
