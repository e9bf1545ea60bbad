----------------------------- MODULE HTTPServer -----------------------------
(***************************************************************************)
(* DevelopmentHTTPServer after bind(): the listening thread, the worker    *)
(* threads that serve the injected requests, the thread that calls close() *)
(* and the process's descriptor table they share.                          *)
(*                                                                         *)
(* A Client of the source is a descriptor number and nothing else.  Each   *)
(* one carries here, as a history component the code does not have, the    *)
(* connection accept() returned it for; every system call works on the     *)
(* connection the descriptor table holds for the number NOW.  That the two *)
(* are always the same is a property, not an assumption.                   *)
(***************************************************************************)
EXTENDS Integers, Sequences, FiniteSets

CONSTANTS
    Conn,        \* the client connections
    Worker,      \* the threads of the worker pool
    FdLimit,     \* descriptors the process may have open (RLIMIT_NOFILE)
    DrainOnStop, \* does AbstractWorker::stop() run the tasks still queued?
    NoConn,      \* marks a free descriptor and an invalid Client
    ListenSock   \* what the descriptor of the listening socket refers to

ASSUME ConnAssumption ==
    NoConn \notin Conn /\ ListenSock \notin Conn /\ NoConn # ListenSock
ASSUME WorkerAssumption == IsFiniteSet(Worker)
ASSUME FdAssumption == FdLimit \in Nat \ {0}
ASSUME DrainAssumption == DrainOnStop \in BOOLEAN

VARIABLES
    fdTable,   \* what each descriptor of the process refers to
    backlog,   \* connections the kernel has completed, not yet accepted
    arrived,   \* connections that have ever reached the backlog
    accepted,  \* connections accept() has returned
    shutRd,    \* connections whose receiving direction is shut down
    shutWr,    \* connections whose sending direction is shut down
    listening, \* is the listening socket in the LISTEN state?
    lpc,       \* where the listening thread is in listen()
    client,    \* the local variable client of listen()
    tasks,     \* the tasks injected into the worker, oldest first
    wpc,       \* where each worker thread is
    task,      \* the task each worker thread runs
    stopped,   \* AbstractWorker::stop() has been called
    closed,    \* BaseSocket::_closed of the listening socket
    cpc        \* where the closing thread is in DevelopmentHTTPServer::close()

kernel   == <<fdTable, backlog, arrived, accepted, shutRd, shutWr, listening>>
listener == <<lpc, client>>
pool     == <<tasks, wpc, task, stopped>>
closer   == <<closed, cpc>>
vars     == <<kernel, listener, pool, closer>>

Fd       == 0 .. FdLimit - 1
ListenFd == 0
FreeFds  == {f \in Fd : fdTable[f] = NoConn}
Clients  == [fd : Fd, conn : Conn]
NoClient == [fd |-> -1, conn |-> NoConn]

IsValid(k) == k.fd >= 0

\* BaseSocket::raw_socket() still names the listening socket.
ListenFdOpen == fdTable[ListenFd] = ListenSock

Init ==
    /\ fdTable = [f \in Fd |-> IF f = ListenFd THEN ListenSock ELSE NoConn]
    /\ backlog = {} /\ arrived = {} /\ accepted = {}
    /\ shutRd = {} /\ shutWr = {}
    /\ listening = TRUE
    /\ lpc = "check" /\ client = NoClient
    /\ tasks = <<>>
    /\ wpc = [w \in Worker |-> "idle"]
    /\ task = [w \in Worker |-> NoClient]
    /\ stopped = FALSE /\ closed = FALSE /\ cpc = "idle"

-----------------------------------------------------------------------------
(* The clients and the network.                                            *)

Connect(c) ==
    /\ listening
    /\ c \notin arrived
    /\ arrived' = arrived \cup {c}
    /\ backlog' = backlog \cup {c}
    /\ UNCHANGED <<fdTable, accepted, shutRd, shutWr, listening>>
    /\ UNCHANGED <<listener, pool, closer>>

\* A connection is reset before it is accepted.
ClientAbort(c) ==
    /\ c \in backlog
    /\ backlog' = backlog \ {c}
    /\ UNCHANGED <<fdTable, arrived, accepted, shutRd, shutWr, listening>>
    /\ UNCHANGED <<listener, pool, closer>>

-----------------------------------------------------------------------------
(* The listening thread: the loop of listen().                             *)

LGoto(from, to) == lpc = from /\ lpc' = to

\* Slip: the loop does not ask is_open().
CheckOpen_Forever ==
    /\ LGoto("check", "select")
    /\ UNCHANGED <<kernel, client, pool, closer>>

\* while (this->_socket->is_open())
CheckOpen ==
    /\ LGoto("check", IF closed THEN "returned" ELSE "select")
    /\ UNCHANGED <<kernel, client, pool, closer>>

\* Slip: the read event is never registered.
Readable_NotRegistered == ListenFdOpen /\ ~listening

\* A pending connection, or the end of the LISTEN state, makes it readable.
Readable == ListenFdOpen /\ (backlog # {} \/ ~listening)

\* Timeouts and EBADF both make Selector::select() return false.
Select ==
    /\ LGoto("select", IF Readable THEN "accept" ELSE "check")
    /\ UNCHANGED <<kernel, client, pool, closer>>

CanAccept == lpc = "accept" /\ ListenFdOpen /\ listening /\ backlog # {}

\* accept() returns the lowest free descriptor.
AcceptClient(c) ==
    /\ CanAccept
    /\ c \in backlog
    /\ LGoto("accept", "dispatch")
    /\ \E f \in FreeFds :
          /\ \A g \in FreeFds : f <= g
          /\ fdTable' = [fdTable EXCEPT ![f] = c]
          /\ client' = [fd |-> f, conn |-> c]
    /\ backlog' = backlog \ {c}
    /\ accepted' = accepted \cup {c}
    /\ UNCHANGED <<arrived, shutRd, shutWr, listening, pool, closer>>

\* EMFILE: sleep for 300 ms and hand back the invalid client.
AcceptEMFILE ==
    /\ CanAccept
    /\ FreeFds = {}
    /\ LGoto("accept", "dispatch")
    /\ client' = NoClient
    /\ UNCHANGED <<kernel, pool, closer>>

\* EBADF and EINVAL after close(); EAGAIN when nothing is pending any more.
AcceptThrows ==
    /\ lpc = "accept" /\ ~(ListenFdOpen /\ listening /\ backlog # {})
    /\ LGoto("accept", "threw")
    /\ UNCHANGED <<kernel, client, pool, closer>>

\* Any other error of accept(), such as ECONNABORTED, ENFILE or ENOBUFS.
AcceptFails ==
    /\ CanAccept
    /\ LGoto("accept", "threw")
    /\ UNCHANGED <<kernel, client, pool, closer>>

\* Slip: the result of accept() is injected without is_valid().
Dispatch_Unchecked ==
    /\ LGoto("dispatch", "check")
    /\ tasks' = IF ~closed THEN Append(tasks, client) ELSE tasks
    /\ client' = NoClient
    /\ UNCHANGED <<kernel, wpc, task, stopped, closer>>

\* Slip: the worker refuses tasks once stop() has been called.
Dispatch_Refused ==
    /\ LGoto("dispatch", "check")
    /\ tasks' = IF ~stopped /\ IsValid(client) THEN Append(tasks, client) ELSE tasks
    /\ client' = NoClient
    /\ UNCHANGED <<kernel, wpc, task, stopped, closer>>

\* if (is_open() && client.is_valid()) inject_task(client)
Dispatch ==
    /\ LGoto("dispatch", "check")
    /\ tasks' = IF ~closed /\ IsValid(client) THEN Append(tasks, client) ELSE tasks
    /\ client' = NoClient
    /\ UNCHANGED <<kernel, wpc, task, stopped, closer>>

\* SIGINT: InterruptException unwinds listen() wherever it is.
Interrupt ==
    /\ lpc \notin {"returned", "threw"}
    /\ lpc' = "threw"
    /\ client' = NoClient
    /\ UNCHANGED <<kernel, pool, closer>>

-----------------------------------------------------------------------------
(* The worker threads: event_function() on one task at a time.             *)

\* stop() has returned: the threads of the pool are gone.
Joined == cpc \notin {"idle", "joining"}

WGoto(w, from, to) == wpc[w] = from /\ wpc' = [wpc EXCEPT ![w] = to]

\* The connection a descriptor refers to at the time of a system call.
At(f) == {fdTable[f]} \cap Conn

\* Slip: the task is read without being removed.
TakeTask_Peeks(w) ==
    /\ WGoto(w, "idle", "handle")
    /\ tasks # <<>>
    /\ ~stopped \/ (DrainOnStop /\ ~Joined)
    /\ task' = [task EXCEPT ![w] = Head(tasks)]
    /\ UNCHANGED <<kernel, listener, tasks, stopped, closer>>

TakeTask(w) ==
    /\ WGoto(w, "idle", "handle")
    /\ tasks # <<>>
    /\ ~stopped \/ (DrainOnStop /\ ~Joined)
    /\ task' = [task EXCEPT ![w] = Head(tasks)]
    /\ tasks' = Tail(tasks)
    /\ UNCHANGED <<kernel, listener, stopped, closer>>

\* handle_event() served the request and goes on to close_io().
HandleReturns(w) ==
    /\ WGoto(w, "handle", "close_reader")
    /\ UNCHANGED <<kernel, listener, tasks, task, stopped, closer>>

\* Slip: _shutdown_client() closes without the shutdown.
HandleThrows_NoShutdown(w) ==
    /\ WGoto(w, "handle", "close_client")
    /\ UNCHANGED <<kernel, listener, tasks, task, stopped, closer>>

\* Slip: event_function() only logs the exception.
HandleThrows_LogsOnly(w) ==
    /\ WGoto(w, "handle", "idle")
    /\ task' = [task EXCEPT ![w] = NoClient]
    /\ UNCHANGED <<kernel, listener, tasks, stopped, closer>>

\* An exception leaves handle_event() and event_function() catches it.
HandleThrows(w) ==
    /\ WGoto(w, "handle", "shutdown_client")
    /\ UNCHANGED <<kernel, listener, tasks, task, stopped, closer>>

\* Slip: close_io() leaves the writer open.
CloseReader_Only(w) ==
    /\ WGoto(w, "close_reader", "idle")
    /\ shutRd' = shutRd \cup At(task[w].fd)
    /\ task' = [task EXCEPT ![w] = NoClient]
    /\ UNCHANGED <<fdTable, backlog, arrived, accepted, shutWr, listening>>
    /\ UNCHANGED <<listener, tasks, stopped, closer>>

\* shutdown() fails only for a connection that is down both ways already
\* (ENOTCONN after a reset); close_io() and _shutdown_client() log it.
CloseReader(w) ==
    /\ WGoto(w, "close_reader", "close_writer")
    /\ shutRd' = shutRd \cup At(task[w].fd)
    /\ UNCHANGED <<fdTable, backlog, arrived, accepted, shutWr, listening>>
    /\ UNCHANGED <<listener, tasks, task, stopped, closer>>

\* close_io() ends the task; nobody calls ::close() on the descriptor.
CloseWriter(w) ==
    /\ WGoto(w, "close_writer", "idle")
    /\ shutWr' = shutWr \cup At(task[w].fd)
    /\ task' = [task EXCEPT ![w] = NoClient]
    /\ UNCHANGED <<fdTable, backlog, arrived, accepted, shutRd, listening>>
    /\ UNCHANGED <<listener, tasks, stopped, closer>>

\* Slip: the descriptor is closed here and once more in CloseClient.
ShutdownClient_Closes(w) ==
    /\ WGoto(w, "shutdown_client", "close_client")
    /\ shutRd' = shutRd \cup At(task[w].fd)
    /\ shutWr' = shutWr \cup At(task[w].fd)
    /\ fdTable' = [fdTable EXCEPT ![task[w].fd] = NoConn]
    /\ UNCHANGED <<backlog, arrived, accepted, listening>>
    /\ UNCHANGED <<listener, tasks, task, stopped, closer>>

\* _shutdown_client(): shutdown(SHUT_RDWR), whose failure is only logged ...
ShutdownClient(w) ==
    /\ WGoto(w, "shutdown_client", "close_client")
    /\ shutRd' = shutRd \cup At(task[w].fd)
    /\ shutWr' = shutWr \cup At(task[w].fd)
    /\ UNCHANGED <<fdTable, backlog, arrived, accepted, listening>>
    /\ UNCHANGED <<listener, tasks, task, stopped, closer>>

\* ... then ::close().
CloseClient(w) ==
    /\ WGoto(w, "close_client", "idle")
    /\ fdTable' = [fdTable EXCEPT ![task[w].fd] = NoConn]
    /\ task' = [task EXCEPT ![w] = NoClient]
    /\ UNCHANGED <<backlog, arrived, accepted, shutRd, shutWr, listening>>
    /\ UNCHANGED <<listener, tasks, stopped, closer>>

-----------------------------------------------------------------------------
(* The thread that calls close(): another one, or the one listen() left.   *)

CGoto(from, to) == cpc = from /\ cpc' = to

\* worker->stop(): no task is taken from now on ...
StopWorker ==
    /\ CGoto("idle", "joining")
    /\ stopped' = TRUE
    /\ UNCHANGED <<kernel, listener, tasks, wpc, task, closed>>

\* ... and the call returns when the threads are done.
JoinWorkers ==
    /\ CGoto("joining", "close_socket")
    /\ \A w \in Worker : wpc[w] = "idle"
    /\ DrainOnStop => tasks = <<>>
    /\ UNCHANGED <<kernel, listener, pool, closed>>

\* BaseSocket::close(): _closed is set before anything is closed.
MarkClosed ==
    /\ CGoto("close_socket", "shutdown")
    /\ closed' = TRUE
    /\ UNCHANGED <<kernel, listener, pool>>

\* The pending connections are reset with the listening socket.
ShutdownListener ==
    /\ CGoto("shutdown", "close_fd")
    /\ listening' = FALSE
    /\ backlog' = {}
    /\ UNCHANGED <<fdTable, arrived, accepted, shutRd, shutWr>>
    /\ UNCHANGED <<listener, pool, closed>>

\* ENOTCONN: util::close_socket() logs the SocketError, ::close() is skipped.
ShutdownListenerFails ==
    /\ CGoto("shutdown", "done")
    /\ UNCHANGED <<kernel, listener, pool, closed>>

CloseListenFd ==
    /\ CGoto("close_fd", "done")
    /\ fdTable' = [fdTable EXCEPT ![ListenFd] = NoConn]
    /\ UNCHANGED <<backlog, arrived, accepted, shutRd, shutWr, listening>>
    /\ UNCHANGED <<listener, pool, closed>>

-----------------------------------------------------------------------------
ListenerStep ==
    \/ CheckOpen \/ Select \/ AcceptEMFILE \/ AcceptThrows \/ Dispatch
    \/ \E c \in Conn : AcceptClient(c)

WorkerStep(w) ==
    \/ TakeTask(w) \/ HandleReturns(w) \/ HandleThrows(w)
    \/ CloseReader(w) \/ CloseWriter(w) \/ ShutdownClient(w) \/ CloseClient(w)

CloserStep ==
    \/ JoinWorkers \/ MarkClosed
    \/ ShutdownListener \/ ShutdownListenerFails \/ CloseListenFd

Next ==
    \/ \E c \in Conn : Connect(c) \/ ClientAbort(c)
    \/ ListenerStep \/ AcceptFails \/ Interrupt
    \/ \E w \in Worker : WorkerStep(w)
    \/ StopWorker \/ CloserStep

\* The threads run and join() returns once it can.  Nothing forces clients,
\* signals, accept() errors or the call of close(), and nothing forces
\* handle() to end: an application may read at the end of the stream for ever
\* and write() tries again for ever when the peer does not read.
Fairness ==
    /\ WF_vars(ListenerStep)
    /\ \A w \in Worker : WF_vars(wpc[w] # "handle" /\ WorkerStep(w))
    /\ WF_vars(CloserStep)

Spec == Init /\ [][Next]_vars

FairSpec == Spec /\ Fairness

-----------------------------------------------------------------------------
(* Properties.                                                             *)

LStates == {"check", "select", "accept", "dispatch", "returned", "threw"}
WStates == {"idle", "handle", "close_reader", "close_writer",
            "shutdown_client", "close_client"}
CStates == {"idle", "joining", "close_socket", "shutdown", "close_fd", "done"}

\* The variables hold what their declarations in the source can hold.
TypeOK ==
    /\ fdTable \in [Fd -> Conn \cup {NoConn, ListenSock}]
    /\ backlog \in SUBSET Conn /\ arrived \in SUBSET Conn
    /\ accepted \in SUBSET Conn
    /\ shutRd \in SUBSET Conn /\ shutWr \in SUBSET Conn
    /\ listening \in BOOLEAN /\ stopped \in BOOLEAN /\ closed \in BOOLEAN
    /\ lpc \in LStates /\ client \in Clients \cup {NoClient}
    /\ tasks \in Seq(Clients)
    /\ wpc \in [Worker -> WStates]
    /\ task \in [Worker -> Clients \cup {NoClient}]
    /\ cpc \in CStates

Busy == {w \in Worker : wpc[w] # "idle"}

\* The descriptor number that listen(), a queued task or a worker carries
\* still refers to the connection accept() returned it for: no read, write,
\* shutdown or close of one request reaches the connection of another,
\* although the kernel hands out the numbers that _shutdown_client() frees.
NoStaleDescriptor ==
    /\ IsValid(client) => fdTable[client.fd] = client.conn
    /\ \A i \in 1 .. Len(tasks) : fdTable[tasks[i].fd] = tasks[i].conn
    /\ \A w \in Busy : fdTable[task[w].fd] = task[w].conn

\* A connection is in the hands of at most one of the listening thread, the
\* queue and the workers: no request is served twice or by two threads.
SingleHolder ==
    /\ IsValid(client) =>
          /\ \A i \in 1 .. Len(tasks) : tasks[i].conn # client.conn
          /\ \A w \in Busy : task[w].conn # client.conn
    /\ \A i, j \in 1 .. Len(tasks) : i # j => tasks[i].conn # tasks[j].conn
    /\ \A i \in 1 .. Len(tasks) : \A w \in Busy : tasks[i].conn # task[w].conn
    /\ \A v, w \in Busy : v # w => task[v].conn # task[w].conn

Ended(c) == c \in shutRd /\ c \in shutWr

Queued(c) == \E i \in 1 .. Len(tasks) : tasks[i].conn = c

Held(c) ==
    \/ client.conn = c
    \/ Queued(c)
    \/ \E w \in Busy : task[w].conn = c

\* An accepted connection is never dropped between accept(), inject_task()
\* and the worker: until it has been shut down both ways somebody holds it,
\* unless close() or an exception has taken listen() out of its loop.
AcceptedIsKept ==
    \A c \in accepted : Ended(c) \/ Held(c) \/ closed \/ lpc = "threw"

\* A descriptor of a connection is released only when the connection has
\* been shut down both ways and by the one worker that holds it.
ReleasedByHolder ==
    [][\A f \in Fd :
          fdTable[f] \in Conn /\ fdTable'[f] # fdTable[f] =>
             /\ Ended(fdTable[f])
             /\ fdTable'[f] = NoConn
             /\ \E w \in Busy : task[w].fd = f /\ wpc'[w] = "idle"]_vars

\* What the threads do to a connection, seen as the service it gets.
Phase(c) ==
    IF c \notin arrived THEN "outside"
    ELSE IF c \in backlog THEN "waiting"
    ELSE IF c \notin accepted THEN "refused"
    ELSE IF Ended(c) THEN "ended"
    ELSE IF \E w \in Busy : task[w].conn = c THEN "serving"
    ELSE "accepted"

Service == INSTANCE ConnectionService WITH
    Capacity <- Cardinality(Worker),
    phase    <- [c \in Conn |-> Phase(c)]

\* The server implements the abstract service: every connection is accepted
\* and served at most once, by one worker, and is left shut down both ways.
ImplementsService == Service!Spec

ListenerGone == lpc \in {"returned", "threw"}

\* While there are free descriptors a waiting connection leaves the backlog
\* or listen() has ended.
PendingIsAccepted ==
    \A c \in Conn : c \in backlog ~> (c \notin backlog \/ ListenerGone \/ FreeFds = {})

\* Every call of handle() returns or throws: what the code cannot promise.
HandlersEnd == \A w \in Worker : wpc[w] = "handle" ~> wpc[w] # "handle"

\* If the handlers end, a request that a worker has begun is ended both ways,
\* close() or not, and so is one that is queued while the pool is not yet
\* joined, when stop() drains the queue.  Nothing is said of a task injected
\* after stop() has returned, nor of those that stop() drops: no worker ever
\* takes them, and nobody shuts their connections down.
RequestsAreServed ==
    HandlersEnd =>
       \A c \in Conn :
          (\/ \E w \in Busy : task[w].conn = c
           \/ DrainOnStop /\ ~Joined /\ Queued(c)) ~> Ended(c)

\* If the handlers end, close() from any thread at any time returns, and
\* makes listen() end.
CloseEndsListening ==
    HandlersEnd => (stopped ~> (cpc = "done" /\ ListenerGone))

\* accept() failing with EMFILE is waited out: the back-off of 300 ms in
\* _accept_client() supposes that descriptors become free again, if the
\* handlers end.
EMFILEIsTransient ==
    HandlersEnd => \A c \in Conn : c \in backlog ~> (c \notin backlog \/ ListenerGone)
=============================================================================
