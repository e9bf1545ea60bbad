# A verification of xalwart.server

`xalwart.server` is a small HTTP server library in C++: a listening thread
accepts connections, a pool of worker threads serves one request (or one
connection) each, and an application supplies a handler function. This
directory models the parts of it that keep state, model-checks them with TLC and
proves their safety with TLAPS. Sources are named relative to `src/` of the
library (`http_server.cpp`, `sockets/io.cpp`, ...).

## 1. Inventory

| Part | State | Operations | Interacts with | What makes it correct |
|---|---|---|---|---|
| `DevelopmentHTTPServer`, listening thread (`http_server.cpp`) | `_socket`, the local `client` | `listen()`: `is_open`, `select`, `accept`, `inject_task` | kernel (backlog, descriptors), worker queue, `_closed` set by another thread | an accepted connection is not lost; `close()` ends the loop; waiting clients are accepted |
| worker threads (`http_server.cpp`, `close_io` of the handler) | the task each one runs | `event_function`, `handle_event`, `close_io`, `_shutdown_client` | queue, the process's descriptor table | one worker per connection; never another's descriptor; every begun request is ended |
| `SocketIO` (`sockets/io.*`) | `_buffer`, `_limit` | `read_line`, `read`, `peek`, `set_limit`, `write`, `close_reader/writer` | kernel socket, `Selector` | no byte lost, repeated or reordered; limits are kept; lines are lines; calls end |
| `BaseHTTPRequestHandler`, `HTTPRequestHandler` (`handlers/*`) | `close_connection`, `request_version`, `headers_buffer`, `request_context` | `handle`, `handle_one_request`, `parse_request`, `parse_headers`, `send_error`, `handle_expect_100`, `cleanup_headers` | the stream, the application | responses well formed and in order; an error is the end; 100 before the body; keep-alive only when allowed |
| sockets of the server (`sockets/{base,tcp,tcp6,unix}.*`, `utility.*`) | `_closed`, the descriptor, the Unix socket file | `create_server_socket`, `set_options` (binds), `listen`, `close` | kernel, file system | a descriptor is closed once; `bind()` ends; what is lost to a failed shutdown or a second `bind()` |
| `Context` (`context.*`) | the configuration and its factories | `set_defaults`, `validate`; `create_selector`, `create_stream`, `create_request_handler` | constructor of the server, `listen()`, every task | nothing made by a factory is used when it is null |
| the program (`example/main.cpp`) | where `main()` is | `run_server`: construct, `bind`, `listen`, `close`; the handler function | signals, other runs at the same address | a run frees what it took; it does not take what is another's; a body is read to its end |
| `AbstractWorker`, `net::parse_headers`, `InterruptException` (library `xalwart.base`) | | | | external: modelled from their use here |

What is hard to test is listed, line by line, in `PROJECT.json` under `hazards`.
In short: the threads share the descriptor table of the process, whose numbers
the kernel reuses; `close()` and SIGINT hit `listen()` at any point; the network
cuts the stream anywhere and fails in the middle of a call; one handler object
serves request after request with state left over from the last; exceptions
leave functions half done; runs of the program that were killed leave the file
of their socket to those that follow.

## 2. Modules

    ConnectionService   <-- implemented by --  HTTPServer          HTTPServerProofs
    RequestExchange     <-- implemented by --  HTTPRequestHandler  HTTPRequestHandlerProofs
    RequestVersion      operators used by      HTTPRequestHandler  RequestVersionProofs
    SocketIO                                                       SocketIOProofs
    HTTPRequestHandler, SocketIO  joined in    Conversation        FramingProofs
    ServerSocket                                                   ServerSocketProofs
    Application                                                    ApplicationProofs
    MCHTTPRequestHandler, MCSocketIO, MCConversation,
    MCServerSocket, MCApplication                                  instances for TLC

HTTPServer needs no instance of its own: the `.cfg` files give all its constants.

Each module has the same layout: constants with their assumptions, variables,
one action per step, `Next`, `Spec` and `FairSpec`, then the properties. An
operator `Name_Something` under a comment that begins with "Slip:" is not part
of the model. It is the definition after it with a plausible mistake, and
`PROJECT.json` (`mutants`) says which property notices the mistake.

### HTTPServer

The listening thread (`lpc`), the workers (`wpc`), the thread that calls
`close()` (`cpc`) and the kernel: `fdTable`, `backlog`, the shut-down directions
of each connection, the LISTEN state. A `Client` of the source is a bare
descriptor number. In the model it carries, as history, the connection it was
accepted for, while system calls work on the connection that `fdTable` holds
*now* (`At`), so that a stale descriptor is something that can happen.

| Action | Code |
|---|---|
| `CheckOpen`, `Select`, `Dispatch` | the `while`, the `select()` and the `if` of `listen()` |
| `AcceptClient`, `AcceptEMFILE`, `AcceptThrows`, `AcceptFails` | `_accept_client()`: success, EMFILE, EBADF/EINVAL/EAGAIN, other errors |
| `Interrupt` | `InterruptException` unwinding `listen()` |
| `TakeTask` | the pool calls `event_function()` (external) |
| `HandleReturns`, `CloseReader`, `CloseWriter` | `handle()` up to and through `close_io()` |
| `HandleThrows`, `ShutdownClient`, `CloseClient` | the `catch` clauses and `_shutdown_client()` |
| `StopWorker`, `JoinWorkers` | `worker->stop()`; `DrainOnStop` chooses whether queued tasks are run first, which the base library decides |
| `MarkClosed`, `ShutdownListener(Fails)`, `CloseListenFd` | `close_socket()` and `BaseSocket::close()`, one step per system call |
| `Connect`, `ClientAbort` | clients |

A `shutdown()` of `close_reader()`, `close_writer()` or `_shutdown_client()` that
fails counts as done: what it can report of a connected socket is ENOTCONN, and
then the peer has been told already. `Interrupt` and `AcceptFails` leave `listen()`
for good, and `is_open()` is asked again before a task is injected: in those cases
a connection that was just accepted is dropped with its descriptor, which is why
`AcceptedIsKept` excuses them. It says that there is no other way to lose one.

`ConnectionService` is what a client sees of this: outside, waiting, accepted,
serving, ended or refused, with at most as many served at a time as there are
workers. `Phase` maps a state of the server to it.

### SocketIO

One connection, read to the end by any sequence of calls. `input` is all the
peer sends; `unread`, `buffer` and `delivered` divide it up. A `::read()`
returns between one byte and all that is asked for and has arrived; it may
throw instead at any time. `read_line()` is a loop with one step per turn; the
other calls are one step, since nobody else uses the object. `peek()` computes
in `size_t` (`SizeMod`). History variables: `mark` (where the last call began),
`promised` and `credit` (what a limit still allows). Nothing bounds the number of
calls that read.

`write()` is the other direction: `room` is what the peer's side still takes, and
`Send` passes on as much of the call as the kernel accepts and returns that
count, `SendAgain` is the turn of the loop on EAGAIN, `SendThrows` its exceptions,
`Drain` the peer that reads. `sent` is the history of the bytes on the wire, each
with the write it belongs to.

### HTTPRequestHandler

One connection. The peer sends any of `Requests`; a request is what the parser
finds in the request line (number of words, method, version), not a text, and
what the headers say (`FieldSets`, too large, malformed) is found when they are
read. `Class` chooses between the two classes: the
base class loops over requests, `HTTPRequestHandler` takes one and looks at
Content-Length and Transfer-Encoding as well. `pc` marks the places where
something can fail: reading the line, reading headers, each write. The line may be one that
ISO 8859-1 cannot encode, which throws (`EncodingThrows`). `fields` is the history
of the request's own headers, next to the map `headers` that the code reads. `wire` is the
history of what was written: heads with their code, bodies, and the
application's output, each with the number of the request it belongs to.
`net::parse_headers` is external; whether it empties the map that still holds
the previous request's headers cannot be seen here, so both are considered
(`HeadersRead`). Logging, the wording of responses, header names and paths are
left out.

`RequestVersion` has the two readings the code makes of a version, as a pair of
`unsigned short` (`Number`) and as a string (`Text`, `Before`).

`RequestExchange` is the protocol seen from outside: receive, serve, served, or
refuse, which is final; stop; end.

### ServerSocket

`bind()`, `listen()` and `close()` in any order, on the three kinds of
addresses. `socks` keeps every `BaseSocket` ever made, so that objects replaced
by a second `bind()` (whose descriptors nobody closes) stay visible. A null
`_socket` crashes `bind()` and `listen()` and makes `close()` throw; an IPv6
address crashes in `is_ipv6()`, whose `inet_pton()` writes through `nullptr`.

### Conversation

The handler on its stream. The actions of `HTTPRequestHandler` and `SocketIO`
are joined by conjunction: where the handler chose a request line freely, it is
here the line that `read_line()` returned from the bytes of the peer, and the
body loop of `handler()` in `example/main.cpp` (`CallHandler`, `ReadBody`,
`ReadBodyEOF`, `ReadBodyThrows`) calls `read()` on the same buffer. A request line, a header
Content-Length and a byte of a body are one byte each, so that a stream of a few
bytes holds two messages and can be cut between any two.

How many bytes the application asks for depends on both. `content_size` of the
request context is set by `HTTPRequestHandler::parse_request()` only
(`http_handler.cpp:35`), and that class takes one request; a context starts with 0,
which is assumed of the base library. So the example (`application = "example"`),
which asks for `content_size` bytes, reads the body behind `HTTPRequestHandler` and
none behind `BaseHTTPRequestHandler`, which loops. An application that reads bodies
there takes their size from the headers: that is the other one (`"any"`), which may
also return or throw before it has read it all. `BodyWanted` has the three cases.

At the end of the stream `read()` returns 0, each time: `ReadBodyEOF` is the turn of
the example's loop that changes nothing. `ReadBodyThrows` is a read that fails, and
no fairness makes it happen. `clean` is the history of the three things that lose the framing: a CRLF
in two pieces (`Torn`), a body that was not read to its end (by an application
that returned early, or was not told), a Content-Length left over in
`request_context.headers`.

What framing means is said of the streams a peer sends that keeps to the
protocol: `WellFormed(input)` is a sequence of messages, each a request line,
perhaps a Content-Length and as many bytes of a body, broken off anywhere. All
streams of `MCConversation` are of this kind.

### Application

Runs of `main()`, several at once or one after the other, all given the same
path. `Construct` is `set_defaults()` and `validate()`, then come `bind()`, outside
the `try` block, `listen()` inside it and `close()` after it. Each exception goes
where the catch clauses of `run_server()` and `main()` let it: to `"close"`, to
`"failed"` (logged by `main()`), or out of the process (`"crashed"`). `Interrupt` may
come at any point and `Kill` ends a run where it is. `file` is whose socket was
bound to the file at the path: it stays when its run is gone. The three factories
are given or not, make an object, may return null or may throw; `Stream`,
`RequestHandler` and `HandleEvent` say what comes of that in a task.

The example names a TCP address; the program with a path in its place is
modelled because there the file outlives the process.

### How the models fit together

`HandleReturns` of HTTPServer is `pc = "closed"` of HTTPRequestHandler and
`HandleThrows` is `"threw"`. `HandlerEnds` shows that `handle()` ends if its reads, its
writes and the application do; that they do is not certain (`HandleEnds` has an
application that does not), so HTTPServer's liveness takes it as a premise,
`HandlersEnd`. The stream calls that fail or end in HTTPRequestHandler
(`ReadLineFails`, `HeadersFail`, `FlushThrows`) are the results of SocketIO's
calls. `Conversation` makes this
correspondence exact. `ServerSocket` covers what leads up to HTTPServer's `Init`
and every order of calls that HTTPServer does not consider; `Application` uses the
outcomes of its calls (bound, in use, thrown, null) in the one order in which
`run_server()` makes them.

## 3. Runs

| Run | Instance | Shows |
|---|---|---|
| `server_service` | 3 connections, 2 workers, 2 free descriptors, queued tasks drained; fair | types; no stale descriptor; one holder; accepted is kept; release by the holder after shutdown; implements `ConnectionService`; waiting clients leave the backlog; if the handlers end, `close()` ends `listen()`, and a request begun is ended both ways, and so is one queued before the workers are joined, whatever `close()` does |
| `server_emfile` | 2 connections, 1 free descriptor; fair | **violation**: EMFILE never passes |
| `stream_calls` | streams with whole, split and lone CR/LF, buffer of 2, limits and counts around it | integrity, returned bytes, limits, line ends; writes come out once and in order; `read_line()` ends, `write()` does if the peer reads |
| `stream_split` | a line, CRLF and a second line | **violation**: two lines returned as one |
| `handler_http` | every kind of request line, every combination of fields, both versions | types; no head left behind; the two readings of a version agree when it is canonical; `handle()` ends |
| `handler_base` | two requests of every kind on a connection | responses well formed, an error is the end, 100 first, kept only if allowed; implements `RequestExchange` |
| `handler_malformed`, `handler_length` | one request | **violations**: see below |
| `socket_calls` | up to 5 calls, 2 attempts, 3 kinds of addresses | types and count of attempts; closed once; a socket that was replaced, or whose shutdown failed, is never closed by anything later; `bind()` ends |
| `conversation_framing` | base class, which loops; two messages with bodies of up to two bytes, closed anywhere from the first body on, cut anywhere; both kinds of application | types; requests are framed as the peer meant; what is read of a body is its request's own |
| `conversation_body` | `HTTPRequestHandler` on the same streams, both kinds of application; fair | `handle()` ends unless the example waits for a body that will not come; such a request is never answered |
| `application_runs` | three runs, ten configurations; symmetric | types; a listening run keeps its path; a run that returns frees it; a crash has a cause |

Deadlock is not checked: every one of these programs may stop (a server closed,
a connection ended, no further call).

**Bounds.** Two workers and three connections give every pair of holders (two
workers, worker and queue, worker and listener) and one more; with `FdLimit`, which
counts the listening socket, one below what all of them need, a number is freed and
reused, and the table is exhausted. TLC has a pool that drains its queue in
`stop()`; that of a pool that drops it is left to the safety theorems, which hold
for both. In SocketIO a buffer of two bytes and
streams of up to five give a CRLF inside, across and behind a piece; `MaxWrites`, `Sizes` and `Room`
give writes that fit, that are cut short and that must wait. Two requests (`MaxRequests`) are enough for
what one leaves for the next: buffer, flags, headers and version are overwritten
or kept by a single request. `MaxCalls` of ServerSocket allows bind, close,
listen, close again and one more. In Conversation two messages suffice, since
framing is lost between a message and the next; `MaxRequests` of four leaves
room for the request lines that a lost body is taken for. Application has three
runs: the one that listens, one that fails or ends beside it, and one that
starts afterwards. The proofs (section 5) do away with the bounds for safety.

**Fairness.** HTTPServer: the listening thread and each worker run (they are OS
threads, and their blocking calls have a timeout or an end). `handle()` is the
exception: nothing forces it to return, since the example's loop and the retry of
`write()` may not (`example/main.cpp:48`, `sockets/io.cpp:128`). `RequestsAreServed`,
`CloseEndsListening` and `EMFILEIsTransient` therefore say what follows when every
call of it ends (`HandlersEnd`); `PendingIsAccepted` needs no such premise. The
thread in `close()` proceeds once the workers allow it, with a pool that empties
its queue once that is empty: as there are finitely many clients it will be.
Nothing forces clients to come, signals, errors of `accept()` or anybody to call
`close()`. SocketIO and HTTPRequestHandler: a turn ends since `select()` has a
timeout, and a `send()` returns (`WriteReturns` supposes besides that the peer
reads again and again); the application of HTTPRequestHandler is assumed to return.
Conversation has the example in it, and assumes of a handler only that it does the
next thing while there is one (`WF_vars(Works)`): a read that finds the end of the
stream is one, an exception is not something that has to come. ServerSocket:
system calls and the one-second sleep end. Application has no liveness.

## 4. What disagrees with the code

| Run | The source says | The code does |
|---|---|---|
| `server_emfile` | `http_server.cpp:128` waits 300 ms on EMFILE; `close_io()` reports failures "to close" | nobody calls `::close()` for a request served without an exception |
| `stream_split` | the request line is stored in `raw_request_line` (`base_http_handler.h:121`) | CR and LF in different pieces are not seen as a line end |
| `handler_malformed` | "on failure, an error is sent back" (`base_http_handler.h:125`) | nothing is sent for headers that do not parse |
| `handler_length` | "Send 'close' if the content length is unknown" (`base_http_handler.cpp:85`) | `insert()` keeps the client's `keep-alive` |

Modelled as they are but without a run of their own: the version wraps at 65536
(`base_http_handler.cpp:146`); `HTTP/1.01` is below `HTTP/1.1` as a string
(`base_http_handler.cpp:216`) although leading zeros "MUST be ignored" (:135), the
reason why `VersionReadingsAgree` speaks of canonical versions; `command` is never
assigned, so an error response to HEAD has a body (:379); a chunked request without Content-Length is passed
on (`http_handler.cpp:42`); the last failed attempt to create a socket still
sleeps and announces a retry (`utility.cpp:88`); an address in use shows outside
the retry loop (`base.cpp:44`); a path left behind by a killed run is never
freed by a later one (`unix.cpp:26`). Read but not modelled:
`get_fully_qualified_domain_name()` (`utility.cpp:142`) returns the name it was
given when the resolver has a qualified one, and the resolver's when it has not;
`initialize_environment()` keeps the name and port of the first `bind()`.

## 5. Proofs

All theorems hold for every value of the constants that satisfies the named
assumptions of the modules: any number of connections, workers, descriptors and
requests, any streams and buffer sizes. Each proof module of a component defines one inductive
invariant `IInv`, shows `InitInv` and `StepInv` with one step per action, and
draws the theorems from `Invariance == Spec => []IInv`.

* **HTTPServerProofs.** The properties are not inductive by themselves: that
  nobody's descriptor is stale depends on who may free one. `Custody` adds that
  whatever is held was accepted and is no longer in the backlog (so `accept()`
  cannot return it again) and that descriptor 0 is never a connection's;
  `Control` ties program counters to tasks, and to the shutdown that precedes
  `::close()`. Proved: `TypeOK`, `NoStaleDescriptor`, `SingleHolder`,
  `AcceptedIsKept`, the action property `ReleasedByHolder`, and
  `Spec => ImplementsService`: each step changes the phase of one connection as
  the abstract service does (`OneMoves`), or of none, or refuses some. That no
  more are served than there are workers needs a cardinality argument
  (`IdleLeavesRoom`): an idle worker is about to take a task, and the
  connections served are those of the others.
* **SocketIOProofs.** Facts about cutting and joining sequences come first (from
  `SequenceTheorems`); then what one read adds and what handing over removes.
  `Promise` relates limit, buffer and credit, which makes `LimitHonoured`
  inductive. Proved: `TypeOK`, `StreamIntegrity`, `ReturnsTheStream`,
  `LimitHonoured`, `LineTerminated`, and `WireFollowsWrites` for the sending side.
* **HTTPRequestHandlerProofs.** `Answered` says, for each place in the handling
  of a request, what is on the wire for it already; `Buffered`, `Refusing` and
  `Kept` say what the buffer, an error under way and the flag entail. The lemma
  `Answer` is the heart: one more token behind those it may follow. Steps that end
  the connection share `Ends`, error responses share `Refuses`. Proved: `TypeOK`,
  `NoHeadLeftBehind`, `ResponsesWellFormed`, `ErrorEndsConnection`,
  `ContinueComesFirst`, `KeptOnlyIfAllowed`, and `Spec => ImplementsExchange`.
  `VersionReadingsAgree` has an invariant of its own, `Versioned`: behind the
  request line, `request_version` is the text of a version below 2.0 that
  `std::stoul` converted.
* **RequestVersionProofs.** What the two readings of a version compute, for
  numbers of any length. `Values` is a recursive function over the digits, so its
  equation has to be proved first (`ValuesExist`), by induction; as no induction
  theorem with an operator as parameter can be used, `SetInduction` says the same
  of a set that has 0 and is closed under the successor. Then a canonical number is
  at least its first digit, at least 10 if it has two digits, and not changed by
  the cast (`CanonicalNumber`). `ReadingsAgree` is the result: below 2.0 the major
  number is the digit 0 or 1, and the string is decided by the first digit of the
  minor number.
* **FramingProofs.** That handler and stream do not lose each other, for every input, cut
  anywhere. `Typed` has the types, with those of both components for the steps
  taken here (a theorem of an instantiated module cannot be cited), and where the
  bytes are: `AtHand` says that `buffer` and `unread` go on in `input` where
  `delivered` stops, `TakenOff` that `out` is what lies behind `mark`. `Framed` says
  where in its message the handler is. `Place`, the beginning of the line it reads
  next or is reading, is a message's beginning at the request line (and as many
  messages begin before it as requests were read), is 3 or 6 bytes into the message
  at the headers; `LineAt` and `Reading` say what a line under way is and how much
  of it has been taken, `InBody` how much of the body. Messages that the peer broke
  off end elsewhere, and there the stream ends too (`BrokenOff`). `Framed` is inductive only
  together with `Typed`: a line that is read ends where a line of the message ends
  (`LineIsRead`), the headers where its headers do (`HeaderLineEvaluated`), and
  behind its body the next one begins (`BehindBody`).
  Counting the messages is a matter of finite sets (`WithinMessage`: the bytes of
  a message behind its first are not the beginning of another). Proved: `TypeOK`,
  `RequestsAreFramed`, `BodyIsOwn`, for streams of any number of messages with
  bodies of any length, any buffer size, either class and either application. With
  `Told` (what has been read and what is asked for make up `BodyWanted`) the same
  types give `CutBodyIsNeverAnswered`: a read moves bytes from the stream to the
  content and so leaves as many missing as before (`ReadBodyCounts`).
* **ServerSocketProofs.** `ClosedOnce` needs that a socket not yet marked as closed
  has not been closed, and that `bind()` works on such a one. From the same invariant,
  `LeaksAreForever`: each action touches the current socket only, and only as long
  as it is not marked. Proved: `TypeOK`, `ClosedOnce`, `LeaksAreForever`.
* **ApplicationProofs.** The properties are inductive together, with
  `NoSocketYet`; most steps move one run and share `StepGoto`. Proved: `TypeOK`,
  `ListenerIsReachable`, `ReturnFreesThePath`, `CrashHasACause`, for any number of
  runs and any configurations.

Only model-checked: liveness (TLAPS does not reason about fairness and ENABLED):
`PendingIsAccepted`, `RequestsAreServed`, `CloseEndsListening`, `ReadLineReturns`,
`WriteReturns`, `HandlerEnds`, `BindEnds`, `HandleEnds`. Every invariant and every action property of a passing
run, and every refinement, is a theorem. The modules proved about declare no
RECURSIVE operator, which the prover's arithmetic back end does not support.

## 6. Not modelled

* The content of responses: the handler's writes are tokens that succeed or throw
  (`SocketIO` has the bytes of `write()`; the handler ignores the count it returns).
* `Selector` beyond its result: descriptors of 1024 and more and `fd_set` memory.
* Logging, `Measure`, HTML and encodings; host-name lookup beyond that it may
  throw, and the environment it fills.
* The pool of `xalwart.base`, `parse_headers`, signals: external, modelled by what
  their callers rely on.
* Move assignment of `SocketIO` (not used).
* Data races as such: `_closed` is a plain `bool` shared by threads; it is read
  and written atomically in the model, in every order.

## 7. Plan

1. *(done)* HTTPServer with ConnectionService, SocketIO, HTTPRequestHandler with
   RequestExchange, ServerSocket; proofs of the first three.
2. *(done)* Conversation: the handler on its stream; `write()`; Application:
   the program around the server, its context and its restarts; proofs of
   ServerSocket, Application and the refinement of ConnectionService.
3. The handler's outcomes in the workers, in place of the free choice between
   `HandleReturns` and `HandleThrows`; the environment and the server's name.
4. *(done)* Proofs: the framing of Conversation; the two readings of a version.
