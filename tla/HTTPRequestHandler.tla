------------------------- MODULE HTTPRequestHandler -------------------------
(***************************************************************************)
(* BaseHTTPRequestHandler and HTTPRequestHandler on one connection: the    *)
(* loop of handle(), the parsing of a request, the error responses and the *)
(* call of the application's handler function.                             *)
(*                                                                         *)
(* The peer may send anything: every request line is chosen from Requests, *)
(* every set of headers from FieldSets, and every read and write of the    *)
(* stream may fail instead.  Both say what the parsers find, not its text. *)
(* Logging is left out.                                                    *)
(***************************************************************************)
EXTENDS RequestVersion

CONSTANTS
    Requests,   \* the request lines considered
    FieldSets,  \* the headers considered
    Class,      \* "base" or "http": which of the two classes handles
    MaxRequests \* bound: requests the peer sends on one connection

ASSUME ClassAssumption == Class \in {"base", "http"}
ASSUME MaxAssumption == MaxRequests \in Nat

Fields == [connection : {"absent", "close", "keep-alive", "other"},
           expect     : {"absent", "100-continue"},
           length     : {"absent", "empty", "number", "garbage"},
           chunked    : {"absent", "chunked"}]

Request == [long    : BOOLEAN,          \* over 65536 characters
            latin   : BOOLEAN,          \* ISO 8859-1 can encode the line
            parts   : Nat,              \* words of the request line
            method  : {"GET", "HEAD", "POST"},
            http    : BOOLEAN,          \* the third begins with "HTTP/"
            version : Seq(Seq(Int))]    \* what follows, split at the dots

ASSUME RequestAssumption == Requests \subseteq Request
ASSUME FieldsAssumption == FieldSets \subseteq Fields

VARIABLES
    pc,               \* where handle() is
    req,              \* the request being handled
    malformed,        \* history: did its headers not parse?
    fields,           \* history: the fields of its own headers
    headers,          \* request_context.headers
    close_connection,
    request_version,  \* the string behind "HTTP/"; empty at first
    headers_buffer,   \* the status codes of the heads not yet written
    error,            \* the code of the error response under way, or 0
    wire,             \* history: what has been written, and for which request
    requests          \* how many requests have been received

vars == <<pc, req, malformed, fields, headers, close_connection, request_version,
          headers_buffer, error, wire, requests>>

HTTP09 == <<0, Dot, 9>>

NoFields == [connection |-> "absent", expect |-> "absent",
             length |-> "absent", chunked |-> "absent"]

NoRequest == [long |-> FALSE, latin |-> TRUE, parts |-> 0, method |-> "GET", http |-> FALSE,
              version |-> <<>>]

Init ==
    /\ pc = "begin"
    /\ req = NoRequest /\ malformed = FALSE
    /\ fields = NoFields /\ headers = NoFields
    /\ close_connection = FALSE
    /\ request_version = <<>>
    /\ headers_buffer = <<>> /\ error = 0 /\ wire = <<>> /\ requests = 0

Handle ==
    /\ pc = "begin" /\ pc' = "read_line"
    /\ close_connection' = TRUE
    /\ UNCHANGED <<req, malformed, fields, headers, request_version, headers_buffer, error, wire, requests>>

-----------------------------------------------------------------------------
\* Slip: HTTPRequestHandler::handle() loops and never looks at the flag.
Return_Loops(close) == close_connection' = close /\ pc' = "read_line"

\* handle_one_request() returns: the base class goes round its loop.
Return(close) ==
    /\ close_connection' = close
    /\ pc' = IF Class = "http" \/ close THEN "close_io" ELSE "read_line"

\* Slip: the header "Connection: close" is sent but not acted upon.
SendError_KeepsOpen(code, version) ==
    /\ error' = code
    /\ UNCHANGED close_connection
    /\ IF version = HTTP09
       THEN pc' = "error_body" /\ UNCHANGED headers_buffer
       ELSE pc' = "error_head" /\ headers_buffer' = Append(headers_buffer, code)

\* Slip: the head is left out of every error response.
SendError_NoHead(code, version) ==
    /\ error' = code
    /\ close_connection' = TRUE
    /\ pc' = "error_body"
    /\ UNCHANGED headers_buffer

\* send_error() up to the flush; a response to HTTP/0.9 has no head.
SendError(code, version) ==
    /\ error' = code
    /\ close_connection' = TRUE
    /\ IF version = HTTP09
       THEN pc' = "error_body" /\ UNCHANGED headers_buffer
       ELSE pc' = "error_head" /\ headers_buffer' = Append(headers_buffer, code)

-----------------------------------------------------------------------------
(* The request line: handle_one_request() and parse_request().             *)

\* IOError, EoF, or an empty line: nothing more to handle.
ReadLineFails ==
    /\ pc = "read_line"
    /\ Return(TRUE)
    /\ UNCHANGED <<req, malformed, fields, headers, request_version, headers_buffer, error, wire, requests>>

Receive(r) ==
    /\ pc = "read_line"
    /\ requests < MaxRequests /\ requests' = requests + 1
    /\ req' = r /\ malformed' = FALSE /\ fields' = NoFields
    /\ UNCHANGED <<headers, wire>>

LineTooLong(r) ==
    /\ Receive(r) /\ r.long
    /\ SendError(414, request_version)
    /\ UNCHANGED request_version

\* encode_iso_8859_1() is strict: what it throws leaves handle().
EncodingThrows(r) ==
    /\ Receive(r) /\ ~r.long /\ ~r.latin
    /\ pc' = "threw"
    /\ request_version' = HTTP09 /\ error' = 0
    /\ close_connection' = TRUE
    /\ UNCHANGED headers_buffer

\* parse_request() starts from the defaults.
Parse(r) == Receive(r) /\ ~r.long /\ r.latin

TwoNumbers(r) == r.parts = 3 /\ r.http /\ Len(r.version) = 2

NumbersConvert(r) == \A i \in 1 .. 2 : Converts(r.version[i])

Malformed(r) ==
    \/ r.parts \notin {0, 2, 3}
    \/ r.parts = 2 /\ r.method # "GET"
    \/ r.parts = 3 /\ ~TwoNumbers(r)

BadRequestLine(r) ==
    /\ Parse(r) /\ Malformed(r)
    /\ request_version' = HTTP09
    /\ SendError(400, HTTP09)

\* split() found no words: false is returned and nothing is sent.
BlankRequestLine(r) ==
    /\ Parse(r) /\ r.parts = 0
    /\ request_version' = HTTP09 /\ error' = 0
    /\ Return(TRUE)
    /\ UNCHANGED headers_buffer

\* std::invalid_argument or std::out_of_range leaves handle().
VersionThrows(r) ==
    /\ Parse(r)
    /\ TwoNumbers(r) /\ ~NumbersConvert(r)
    /\ pc' = "threw"
    /\ request_version' = HTTP09 /\ error' = 0
    /\ close_connection' = TRUE
    /\ UNCHANGED headers_buffer

VersionNotSupported(r) ==
    /\ Parse(r)
    /\ TwoNumbers(r) /\ NumbersConvert(r) /\ NumberIsAtLeast(r.version, 2, 0)
    /\ request_version' = HTTP09
    /\ SendError(505, HTTP09)

\* Slip: the connection is kept open whatever the version.
GoodRequestLine_KeepsAll(r) ==
    /\ Parse(r)
    /\ \/ /\ r.parts = 2 /\ r.method = "GET"
          /\ request_version' = HTTP09
       \/ /\ TwoNumbers(r) /\ NumbersConvert(r) /\ ~NumberIsAtLeast(r.version, 2, 0)
          /\ request_version' = Text(r.version)
    /\ pc' = "headers" /\ error' = 0 /\ close_connection' = FALSE
    /\ UNCHANGED headers_buffer

GoodRequestLine(r) ==
    /\ Parse(r)
    /\ \/ /\ r.parts = 2 /\ r.method = "GET"
          /\ request_version' = HTTP09
          /\ close_connection' = TRUE
       \/ /\ TwoNumbers(r) /\ NumbersConvert(r) /\ ~NumberIsAtLeast(r.version, 2, 0)
          /\ request_version' = Text(r.version)
          /\ close_connection' = ~NumberIsAtLeast(r.version, 1, 1)
    /\ pc' = "headers" /\ error' = 0
    /\ UNCHANGED headers_buffer

-----------------------------------------------------------------------------
(* The headers: parse_headers() and the rest of parse_request().           *)

\* The new fields are put into the map of the old ones; whether the library
\* empties it first cannot be seen from here.
Merged(old, new) ==
    [f \in DOMAIN new |-> IF new[f] = "absent" THEN old[f] ELSE new[f]]

\* Slip: handle_expect_100() leaves out end_headers().
HeadersRead_NoEndHeaders(f) ==
    /\ pc = "headers"
    /\ fields' = f
    /\ \E old \in {headers, NoFields} : headers' = Merged(old, f)
    /\ close_connection' = CASE headers'.connection = "close"      -> TRUE
                             [] headers'.connection = "keep-alive" -> FALSE
                             [] OTHER                              -> close_connection
    /\ IF headers'.expect = "100-continue" /\ TextIsAtLeast11(request_version)
       THEN headers_buffer' = Append(headers_buffer, 100)
       ELSE UNCHANGED headers_buffer
    /\ pc' = "examine"
    /\ UNCHANGED <<req, malformed, request_version, error, wire, requests>>

HeadersRead(f) ==
    /\ pc = "headers"
    /\ fields' = f
    /\ \E old \in {headers, NoFields} : headers' = Merged(old, f)
    /\ close_connection' = CASE headers'.connection = "close"      -> TRUE
                             [] headers'.connection = "keep-alive" -> FALSE
                             [] OTHER                              -> close_connection
    /\ IF headers'.expect = "100-continue" /\ TextIsAtLeast11(request_version)
       THEN pc' = "continue" /\ headers_buffer' = Append(headers_buffer, 100)
       ELSE pc' = "examine" /\ UNCHANGED headers_buffer
    /\ UNCHANGED <<req, malformed, request_version, error, wire, requests>>

HeadersTooLarge ==
    /\ pc = "headers"
    /\ SendError(431, request_version)
    /\ UNCHANGED <<req, malformed, fields, headers, request_version, wire, requests>>

\* IOError and EoF: false, and nothing is sent.
HeadersFail ==
    /\ pc = "headers"
    /\ Return(TRUE)
    /\ UNCHANGED <<req, malformed, fields, headers, request_version, headers_buffer, error, wire, requests>>

\* ParseError: the same.
HeadersMalformed ==
    /\ pc = "headers"
    /\ malformed' = TRUE
    /\ Return(TRUE)
    /\ UNCHANGED <<req, fields, headers, request_version, headers_buffer, error, wire, requests>>

-----------------------------------------------------------------------------
(* Writing: flush_headers() and write().                                   *)

Heads == [i \in 1 .. Len(headers_buffer) |->
             [kind |-> "head", code |-> headers_buffer[i], request |-> requests]]

\* Slip: the buffer is not emptied.
Flush_Keeps(from, to) ==
    /\ pc = from /\ pc' = to
    /\ wire' = wire \o Heads
    /\ UNCHANGED <<req, malformed, fields, headers, close_connection, request_version,
                   headers_buffer, error, requests>>

Flush(from, to) ==
    /\ pc = from /\ pc' = to
    /\ wire' = wire \o Heads
    /\ headers_buffer' = <<>>
    /\ UNCHANGED <<req, malformed, fields, headers, close_connection, request_version, error, requests>>

FlushContinue == Flush("continue", "examine")

FlushError == Flush("error_head", "error_body")

\* flush_headers() catches nothing.
FlushThrows ==
    /\ pc \in {"continue", "error_head"}
    /\ pc' = "threw"
    /\ UNCHANGED <<req, malformed, fields, headers, close_connection, request_version,
                   headers_buffer, error, wire, requests>>

\* Slip: a caller of send_error() goes on instead of returning false.
SendErrorBody_GoesOn ==
    /\ pc = "error_body"
    /\ wire' \in {wire, Append(wire, [kind |-> "body", code |-> error, request |-> requests])}
    /\ pc' = "handler"
    /\ UNCHANGED <<req, malformed, fields, headers, close_connection, request_version,
                   headers_buffer, error, requests>>

\* write() catches IOError; command is never "HEAD".
SendErrorBody ==
    /\ pc = "error_body"
    /\ wire' \in {wire, Append(wire, [kind |-> "body", code |-> error, request |-> requests])}
    /\ Return(close_connection)
    /\ UNCHANGED <<req, malformed, fields, headers, request_version, headers_buffer, error, requests>>

-----------------------------------------------------------------------------
(* HTTPRequestHandler::parse_request() and the application.                *)

\* cleanup_headers() asks whether there is such a field ...
HasLength == headers.length # "absent"

\* ... HTTPRequestHandler::parse_request() whether it says anything.
SaysLength == headers.length \notin {"absent", "empty"}

LengthThrows ==
    /\ pc = "examine" /\ Class = "http" /\ headers.length = "garbage"
    /\ pc' = "threw"
    /\ UNCHANGED <<req, malformed, fields, headers, close_connection, request_version,
                   headers_buffer, error, wire, requests>>

RefusesChunked == Class = "http" /\ SaysLength /\ headers.chunked = "chunked"

ChunkedRefused ==
    /\ pc = "examine" /\ RefusesChunked /\ headers.length # "garbage"
    /\ SendError(400, request_version)
    /\ UNCHANGED <<req, malformed, fields, headers, request_version, wire, requests>>

\* cleanup_headers(): insert() leaves a field that is there as it is.
CleanupHeaders ==
    /\ headers' = IF ~HasLength /\ headers.connection = "absent"
                  THEN [headers EXCEPT !.connection = "close"] ELSE headers
    /\ close_connection' = (close_connection \/ headers'.connection = "close")

CallHandler ==
    /\ pc = "examine" /\ ~RefusesChunked
    /\ ~(Class = "http" /\ headers.length = "garbage")
    /\ pc' = "handler"
    /\ CleanupHeaders
    /\ UNCHANGED <<req, malformed, fields, request_version, headers_buffer, error, wire, requests>>

\* The application has written its response, or has not.
HandlerReturns ==
    /\ pc = "handler"
    /\ wire' \in {wire, Append(wire, [kind |-> "handler", code |-> 0, request |-> requests])}
    /\ Return(close_connection)
    /\ UNCHANGED <<req, malformed, fields, headers, request_version, headers_buffer, error, requests>>

HandlerThrows ==
    /\ pc = "handler" /\ pc' = "threw"
    /\ UNCHANGED <<req, malformed, fields, headers, close_connection, request_version,
                   headers_buffer, error, wire, requests>>

CloseIO ==
    /\ pc = "close_io" /\ pc' = "closed"
    /\ UNCHANGED <<req, malformed, fields, headers, close_connection, request_version,
                   headers_buffer, error, wire, requests>>

-----------------------------------------------------------------------------
RequestLine(r) ==
    \/ LineTooLong(r) \/ EncodingThrows(r) \/ BadRequestLine(r) \/ BlankRequestLine(r)
    \/ VersionThrows(r) \/ VersionNotSupported(r) \/ GoodRequestLine(r)

Next ==
    \/ Handle \/ ReadLineFails
    \/ \E r \in Requests : RequestLine(r)
    \/ \E f \in FieldSets : HeadersRead(f)
    \/ HeadersTooLarge \/ HeadersFail \/ HeadersMalformed
    \/ FlushContinue \/ FlushError \/ FlushThrows \/ SendErrorBody
    \/ LengthThrows \/ ChunkedRefused \/ CallHandler
    \/ HandlerReturns \/ HandlerThrows \/ CloseIO

Spec == Init /\ [][Next]_vars

\* Reads and writes end (select() times out), and so does the application.
FairSpec == Spec /\ WF_vars(Next)

-----------------------------------------------------------------------------
(* Properties.                                                             *)

PCs == {"begin", "read_line", "headers", "continue", "examine", "handler",
        "error_head", "error_body", "close_io", "closed", "threw"}

Errors == {400, 414, 431, 505}

Token == [kind : {"head", "body", "handler"}, code : Errors \cup {0, 100}, request : Nat]

\* The variables hold what their declarations in the source can hold; the
\* buffer never holds the heads of two responses.
TypeOK ==
    /\ pc \in PCs /\ req \in Requests \cup {NoRequest}
    /\ malformed \in BOOLEAN /\ fields \in Fields /\ headers \in Fields
    /\ close_connection \in BOOLEAN /\ request_version \in Seq(Int)
    /\ headers_buffer \in Seq(Errors \cup {100}) /\ Len(headers_buffer) <= 1
    /\ error \in Errors \cup {0}
    /\ wire \in Seq(Token) /\ requests \in Nat

\* On the wire the response to a request is a 100 or nothing, then either
\* what the application wrote or one error response, whose body follows its
\* head and has none only for a request that is, or is taken for, HTTP/0.9.
ResponsesWellFormed ==
    /\ \A i, j \in 1 .. Len(wire) :
          i < j => /\ wire[i].request <= wire[j].request
                   /\ wire[i].request = wire[j].request =>
                         \/ wire[i].code = 100 /\ wire[j].code # 100
                         \/ /\ wire[i].kind = "head" /\ wire[j].kind = "body"
                            /\ wire[i].code = wire[j].code
    /\ \A j \in 1 .. Len(wire) :
          wire[j].kind = "body" =>
             \/ request_version = HTTP09
             \/ j > 1 /\ wire[j - 1] = [wire[j] EXCEPT !.kind = "head"]

\* After an error response, however little of it could be written, no
\* further request is read and the application is not called any more.
ErrorEndsConnection ==
    (error # 0 \/ \E i \in 1 .. Len(wire) : wire[i].code \in Errors) =>
       pc \in {"error_head", "error_body", "close_io", "closed", "threw"}

\* Nothing is left in the headers buffer when the application writes to the
\* stream or the connection is closed: every head that was begun is sent,
\* and before what belongs behind it.
NoHeadLeftBehind ==
    pc \in {"read_line", "headers", "examine", "handler", "error_body", "close_io", "closed"} =>
       headers_buffer = <<>>

\* The application of a client that waits for it is called only after the
\* 100 response to this very request is on the wire.
ContinueComesFirst ==
    pc = "handler" /\ headers.expect = "100-continue" /\ TextIsAtLeast11(request_version) =>
       /\ wire # <<>>
       /\ wire[Len(wire)] = [kind |-> "head", code |-> 100, request |-> requests]

\* A further request is read only behind one that was served, did not ask
\* for the connection to be closed, and is HTTP/1.1 or asked, in its own
\* headers, to keep it.  The one exception is the handler's header map, which
\* outlives the request: the "keep-alive" of an earlier request can keep the
\* connection behind one that says nothing.
KeptOnlyIfAllowed ==
    pc = "read_line" /\ requests > 0 =>
       /\ error = 0
       /\ fields.connection # "close" /\ headers.connection # "close"
       /\ \/ fields.connection = "keep-alive"
          \/ req.parts = 3 /\ NumberIsAtLeast(req.version, 1, 1)
          \/ fields.connection = "absent" /\ headers.connection = "keep-alive"

\* No leading zeros, and below the width of the casts.
Canonical(version) ==
    \A i \in 1 .. Len(version) :
       /\ Digits(version[i]) = version[i]
       /\ version[i][1] = 0 => Len(version[i]) = 1
       /\ Integer(version[i]) < Width

\* Whether a connection may be kept is decided on the numbers of the version,
\* whether a 100 is sent on its text: both decisions take the same requests
\* for HTTP/1.1, as long as there are no leading zeros and no overflow.
VersionReadingsAgree ==
    pc \in {"headers", "continue", "examine", "handler"} /\ req.parts = 3 /\ Canonical(req.version) =>
       (TextIsAtLeast11(request_version) <=> NumberIsAtLeast(req.version, 1, 1))

Phase ==
    CASE pc \in {"begin", "read_line"}          -> IF requests = 0 THEN "idle" ELSE "served"
      [] pc \in {"headers", "continue", "examine"} -> "received"
      [] pc = "handler"                         -> "serving"
      [] pc \in {"error_head", "error_body"}    -> "refused"
      [] pc = "close_io"                        -> "stopped"
      [] pc \in {"closed", "threw"}             -> "ended"

Exchange == INSTANCE RequestExchange WITH phase <- Phase

\* The handler implements the exchange: one request after the other, each
\* served or refused or given up, a refusal being the last of them.
ImplementsExchange == Exchange!Spec

\* handle() ends, so that the worker gets to close_io() or to the exception.
HandlerEnds == <>(pc \in {"closed", "threw"})

\* parse_request() that fails on invalid data has sent an error back.
InvalidDataIsAnswered ==
    pc = "close_io" /\ requests > 0 /\ (malformed \/ req.parts = 0) =>
       error # 0

\* A connection whose content length is unknown is marked for closing.
UnknownLengthCloses == pc = "handler" /\ ~HasLength => close_connection
=============================================================================
