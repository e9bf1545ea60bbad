---------------------------- MODULE Conversation ----------------------------
(***************************************************************************)
(* A handler on its stream: BaseHTTPRequestHandler takes request lines and *)
(* headers from SocketIO::read_line(), and the application reads the body  *)
(* of a request from the same stream.  The actions of HTTPRequestHandler   *)
(* and of SocketIO are joined: what the one chose freely is here what the  *)
(* other finds.                                                            *)
(*                                                                         *)
(* A well-formed request line, a Content-Length and a byte of a body are   *)
(* one byte each.  Responses are left to the two modules.                  *)
(*                                                                         *)
(* Only HTTPRequestHandler tells the application the size of the body, and *)
(* it handles one request; behind BaseHTTPRequestHandler, which loops, an  *)
(* application that reads a body takes its size from the headers itself.   *)
(***************************************************************************)
EXTENDS Integers, Sequences, FiniteSets

CONSTANTS
    CR, LF,
    GET,         \* stands for GET / HTTP/1.1
    Data,        \* stands for what is in a body
    MaxLength,   \* the numbers up to it stand for a header Content-Length
    Inputs,      \* what the peer may send
    BufSize,     \* net::DEFAULT_BUFFER_SIZE
    Class,       \* "base" or "http"
    MaxRequests, \* bound: request lines the handler reads
    Applications \* "example": the one of the repository; "any": another

Byte == {CR, LF, GET, Data} \cup 0 .. MaxLength

ASSUME ByteAssumption ==
    /\ MaxLength \in Nat
    /\ CR # LF /\ GET \notin {CR, LF} /\ Data \notin {CR, LF, GET}
    /\ {CR, LF, GET, Data} \cap (0 .. MaxLength) = {}
ASSUME InputAssumption == Inputs \subseteq Seq(Byte)
ASSUME SizeAssumption == BufSize \in Nat \ {0}
ASSUME HandlerAssumption == Class \in {"base", "http"} /\ MaxRequests \in Nat
ASSUME ApplicationAssumption == Applications \subseteq {"example", "any"}

VARIABLES
    \* of HTTPRequestHandler
    pc, req, malformed, fields, headers, close_connection, request_version,
    headers_buffer, error, wire, requests,
    \* of SocketIO
    input, unread, buffer, limit, out, op, ret, delivered, mark, promised,
    credit, size, count, room, sent, writes,
    \* of both together
    application,   \* which one runs
    waiting,       \* has read_line() been called and not been evaluated?
    seen,          \* the Content-Length among the headers so far, or -1
    contentLength, \* the Content-Length in request_context.headers
    remaining,     \* what the application still reads: its remaining_bytes
    content,       \* what it has read
    start,         \* history: where in the stream the request line began
    clean          \* history: has everything happened to be framed right?

Good      == [long |-> FALSE, latin |-> TRUE, parts |-> 3, method |-> "GET", http |-> TRUE,
              version |-> <<<<1>>, <<1>>>>]
Blank     == [Good EXCEPT !.parts = 0]
Bad       == [Good EXCEPT !.parts = 4]

Requests  == {Good, Blank, Bad}
FieldSets == [connection : {"absent"}, expect : {"absent"},
              length : {"absent", "number"}, chunked : {"absent"}]

H == INSTANCE HTTPRequestHandler
S == INSTANCE SocketIO WITH Counts <- 1 .. MaxLength, SizeMod <- 2, Sizes <- {},
                            Room <- 1, MaxWrites <- 0

handler == <<pc, req, malformed, fields, headers, close_connection, request_version,
             headers_buffer, error, wire, requests>>
stream  == <<input, unread, buffer, limit, out, op, ret, delivered, mark, promised,
             credit, size, count, room, sent, writes>>
own     == <<application, waiting, seen, contentLength, remaining, content, start, clean>>
vars    == <<handler, stream, own>>

Init ==
    /\ H!Init /\ S!Init
    /\ application \in Applications
    /\ waiting = FALSE /\ seen = -1 /\ contentLength = 0
    /\ remaining = 0 /\ content = <<>> /\ start = 0 /\ clean = TRUE

\* The handler goes on without the stream.
Alone(step) == step /\ UNCHANGED <<stream, own>>

-----------------------------------------------------------------------------
(* Lines: read_line() of the handler and of net::parse_headers().          *)

CallReadLine ==
    /\ pc \in {"read_line", "headers"} /\ ~waiting
    /\ S!CallReadLine
    /\ waiting' = TRUE
    /\ UNCHANGED <<handler, application, seen, contentLength, remaining, content, start, clean>>

\* The line so far ends with a CR: if LF comes next, it comes too late.
Torn == op = "read_line" /\ out # <<>> /\ out[Len(out)] = CR

ReadLine ==
    /\ S!ReadLineTurn
    /\ clean' = (clean /\ ~Torn')
    /\ UNCHANGED <<handler, application, waiting, seen, contentLength, remaining, content, start>>

\* rtrim() of the line.
Stripped(line) ==
    SubSeq(line, 1, CHOOSE n \in 0 .. Len(line) :
                       /\ n > 0 => line[n] \notin {CR, LF}
                       /\ \A i \in n + 1 .. Len(line) : line[i] \in {CR, LF})

\* What comes before GET is taken for a part of the method, or splits the line.
Parsed(text) ==
    CASE text = <<>>            -> {Blank}
      [] text = <<GET>>         -> {Good}
      [] OTHER                  -> IF text[Len(text)] = GET THEN {Good, Bad} ELSE {Bad}

\* At the end of the stream read_line() returns what there is.
Line == waiting /\ op = "none" /\ ret \in {"line", "eof"}

RequestLine ==
    /\ pc = "read_line" /\ Line /\ out # <<>>
    /\ \E r \in Parsed(Stripped(out)) : H!RequestLine(r)
    /\ waiting' = FALSE /\ seen' = -1 /\ start' = mark
    /\ UNCHANGED <<stream, application, contentLength, remaining, content, clean>>

NoRequestLine ==
    /\ pc = "read_line" /\ waiting /\ op = "none"
    /\ ret = "threw" \/ (ret = "eof" /\ out = <<>>)
    /\ H!ReadLineFails
    /\ waiting' = FALSE
    /\ UNCHANGED <<stream, application, seen, contentLength, remaining, content, start, clean>>

-----------------------------------------------------------------------------
(* net::parse_headers()                                                    *)

ContentLength ==
    /\ pc = "headers" /\ Line
    /\ \E n \in 0 .. MaxLength : Stripped(out) = <<n>> /\ seen' = n
    /\ waiting' = FALSE
    /\ UNCHANGED <<handler, stream, application, contentLength, remaining, content, start, clean>>

\* Any other line is skipped, or is a ParseError.
OtherHeader ==
    /\ pc = "headers" /\ Line
    /\ Stripped(out) \notin {<<>>} \cup {<<n>> : n \in 0 .. MaxLength}
    /\ UNCHANGED handler \/ H!HeadersMalformed
    /\ waiting' = FALSE
    /\ UNCHANGED <<stream, application, seen, contentLength, remaining, content, start, clean>>

SeenFields == [H!NoFields EXCEPT !.length = IF seen = -1 THEN "absent" ELSE "number"]

\* An empty line ends the headers, or the end of the stream does.
HeadersEnd ==
    /\ pc = "headers" /\ Line /\ Stripped(out) = <<>>
    /\ H!HeadersRead(SeenFields)
    /\ contentLength' = IF seen # -1 THEN seen
                        ELSE IF headers'.length = "absent" THEN 0 ELSE contentLength
    /\ clean' = (clean /\ (seen = -1 => headers'.length = "absent"))
    /\ waiting' = FALSE
    /\ UNCHANGED <<stream, application, seen, remaining, content, start>>

\* The end of the stream may also be an EoF.
HeadersFail ==
    /\ pc = "headers" /\ waiting /\ op = "none" /\ ret \in {"threw", "eof"}
    /\ H!HeadersFail
    /\ waiting' = FALSE
    /\ UNCHANGED <<stream, application, seen, contentLength, remaining, content, start, clean>>

-----------------------------------------------------------------------------
(* The application, with the loop of handler() in the example.             *)

\* request_context.content_size: only HTTPRequestHandler::parse_request()
\* sets it; a new context has 0.
ContentSize == IF Class = "http" THEN contentLength ELSE 0

\* The example reads content_size bytes, another application as many as the
\* headers say, unless it returns before.
BodyWanted == IF application = "example" THEN ContentSize ELSE contentLength

CallHandler ==
    /\ H!CallHandler
    /\ remaining' = BodyWanted /\ content' = <<>>
    /\ UNCHANGED <<stream, application, waiting, seen, contentLength, start, clean>>

\* Slip: a whole buffer is asked for.
ReadBody_Greedy ==
    /\ pc = "handler" /\ remaining > 0
    /\ S!Read(BufSize)
    /\ content' = content \o out' /\ remaining' = remaining - Len(out')
    /\ UNCHANGED <<handler, application, waiting, seen, contentLength, start, clean>>

\* Slip: the body is read from the socket, past the buffer.
ReadBody_Direct ==
    /\ pc = "handler" /\ remaining > 0
    /\ \E k \in S!Taken(remaining) :
          /\ S!Take(k)
          /\ content' = content \o SubSeq(unread, 1, k) /\ remaining' = remaining - k
    /\ UNCHANGED <<handler, input, buffer, out, op, ret, delivered, mark, promised, credit,
                   size, count, room, sent, writes,
                   application, waiting, seen, contentLength, start, clean>>

\* Slip: the bytes that came are not counted down.
ReadBody_Uncounted ==
    /\ pc = "handler" /\ remaining > 0
    /\ S!Read(remaining)
    /\ content' = content \o out'
    /\ UNCHANGED <<handler, application, waiting, seen, contentLength, remaining, start, clean>>

ReadBody ==
    /\ pc = "handler" /\ remaining > 0
    /\ S!Read(remaining)
    /\ content' = content \o out' /\ remaining' = remaining - Len(out')
    /\ UNCHANGED <<handler, application, waiting, seen, contentLength, start, clean>>

\* Slip: the loop ends when nothing comes any more.
ReadBodyEOF_Ends ==
    /\ pc = "handler" /\ remaining > 0
    /\ S!ReadEnds(remaining) /\ ret' = "eof"
    /\ remaining' = 0
    /\ UNCHANGED <<handler, application, waiting, seen, contentLength, content, start, clean>>

\* At the end of the stream read() returns 0: remaining_bytes stays as it
\* is, and the loop goes on.
ReadBodyEOF ==
    /\ pc = "handler" /\ remaining > 0
    /\ S!ReadEnds(remaining) /\ ret' = "eof"
    /\ UNCHANGED <<handler, own>>

\* A read that fails, before the peer has closed or when select() is
\* interrupted, throws through the handler function.
ReadBodyThrows ==
    /\ pc = "handler" /\ remaining > 0
    /\ S!ReadEnds(remaining) /\ ret' = "threw"
    /\ H!HandlerThrows
    /\ UNCHANGED own

\* Other applications leave the body where it is, or throw.
HandlerReturns ==
    /\ remaining = 0 \/ application = "any"
    /\ H!HandlerReturns
    /\ clean' = (clean /\ Len(content) = contentLength)
    /\ UNCHANGED <<stream, application, waiting, seen, contentLength, remaining, content, start>>

HandlerThrows == application = "any" /\ Alone(H!HandlerThrows)

-----------------------------------------------------------------------------
\* Chunked requests, expectations and broken numbers are not sent, and the
\* 400 of a bad request line has no head: its version is still HTTP/0.9.
Elsewhere == Alone(H!Handle) \/ Alone(H!SendErrorBody) \/ Alone(H!CloseIO)

\* What the threads do by themselves.
Works ==
    \/ CallReadLine \/ ReadLine
    \/ RequestLine \/ NoRequestLine
    \/ ContentLength \/ OtherHeader \/ HeadersEnd \/ HeadersFail
    \/ CallHandler \/ ReadBody \/ ReadBodyEOF \/ HandlerReturns
    \/ Elsewhere

Next == Works \/ ReadBodyThrows \/ HandlerThrows

Spec == Init /\ [][Next]_vars

\* A call of read_line() ends, as in SocketIO, and the application goes on
\* with what it does, which may be to read at the end of the stream for ever:
\* nothing forces it, or the read, to throw.
FairSpec == Spec /\ WF_vars(Works)

-----------------------------------------------------------------------------
(* Properties.                                                             *)

\* The variables hold what their declarations in the source can hold.
TypeOK ==
    /\ H!TypeOK /\ S!TypeOK
    /\ application \in Applications /\ waiting \in BOOLEAN /\ clean \in BOOLEAN
    /\ seen \in -1 .. MaxLength /\ contentLength \in 0 .. MaxLength
    /\ remaining \in 0 .. MaxLength
    /\ content \in Seq(Byte) /\ start \in Nat

\* A message: a request line, perhaps a Content-Length, and the body.
Heading(length) ==
    IF length = -1 THEN <<GET, CR, LF, CR, LF>>
                   ELSE <<GET, CR, LF, length, CR, LF, CR, LF>>

Message(length) == Heading(length) \o [i \in 1 .. (IF length = -1 THEN 0 ELSE length) |-> Data]

\* The stream goes on with this message, which another one may follow.
MessageAt(bytes, i, length) ==
    LET m == Message(length) IN
    /\ \A k \in 1 .. Len(m) : i + k <= Len(bytes) => bytes[i + k] = m[k]
    /\ i + Len(m) < Len(bytes) => bytes[i + Len(m) + 1] = GET

\* A sequence of messages, broken off anywhere.
WellFormed(bytes) ==
    /\ bytes # <<>> => bytes[1] = GET
    /\ \A i \in 0 .. Len(bytes) - 1 :
          bytes[i + 1] = GET => \E length \in -1 .. MaxLength : MessageAt(bytes, i, length)

\* Framing is lost in three ways only: a CRLF cut in two, a body not read to
\* its end, a Content-Length left over from the request before.  Without them
\* the n-th request line is the beginning of the n-th message, and no request
\* of a well-formed stream is answered with an error.
RequestsAreFramed ==
    WellFormed(input) /\ clean /\ requests > 0 =>
       /\ error = 0
       /\ input[start + 1] = GET
       /\ Cardinality({i \in 1 .. start : input[i] = GET}) = requests - 1

\* And what the application reads is the body of the request it is called
\* for: it asks for as much as it was told, and once it has read all of it
\* the next message comes.
BodyIsOwn ==
    WellFormed(input) /\ clean /\ pc = "handler" =>
       /\ Len(content) + remaining = BodyWanted
       /\ \A i \in 1 .. Len(content) : content[i] = Data
       /\ LET rest == buffer \o unread IN
             rest # <<>> => rest[1] = (IF Len(content) = contentLength THEN GET ELSE Data)

\* The example has been called for a body that the peer will never complete.
BodyMissing ==
    /\ Class = "http" /\ application = "example" /\ pc = "handler"
    /\ Len(content) + Len(buffer) + Len(unread) < contentLength

\* handle() ends, unless the example waits for such a body.
HandleEnds == <>(pc \in {"closed", "threw"}) \/ <>[]BodyMissing

\* A request whose body is cut off is never answered: the example keeps its
\* thread until a read happens to throw, however often read() tells it that
\* the peer has closed.
CutBodyIsNeverAnswered == [][BodyMissing => BodyMissing' \/ pc' = "threw"]_vars
=============================================================================
