---------------------------- MODULE Application ----------------------------
(***************************************************************************)
(* Runs of a program like example/main.cpp whose server is bound to a      *)
(* path: the construction of the server from a Context, bind(), listen()   *)
(* and close() with the catch clauses around them, and the end of the      *)
(* process.  Several runs, one after the other or at once, use the same    *)
(* path; a run that was killed leaves the file of its socket behind.       *)
(*                                                                         *)
(* The calls are modelled step by step in ServerSocket and HTTPServer;     *)
(* here is what their exceptions and null pointers do to the process.      *)
(***************************************************************************)
CONSTANTS
    Run,      \* the runs of the program
    Contexts, \* the configurations they may be given
    NoRun     \* nothing is at the path

\* How create_selector, create_stream and create_request_handler are given:
\* not at all, or by a function that always makes an object, that may return
\* nullptr, or that may throw a std::exception.  "default" is what
\* set_defaults() puts in.
Factory == {"unset", "default", "made", "null", "throws"}

\* complete: logger, timezone, worker and handler are there.
Context == [complete : BOOLEAN, create_selector : Factory,
            create_stream : Factory, create_request_handler : Factory]

ASSUME ContextAssumption == Contexts \subseteq Context
ASSUME RunAssumption == NoRun \notin Run

VARIABLES
    pc,      \* where main() of each run is
    context, \* DevelopmentHTTPServer::context
    socket,  \* what _socket of each run is, "none" for nullptr
    file     \* whose socket was bound to the file at the path, or NoRun

vars == <<pc, context, socket, file>>

Init ==
    /\ pc = [r \in Run |-> "off"]
    /\ context \in [Run -> Contexts]
    /\ socket = [r \in Run |-> "none"]
    /\ file = NoRun

Goto(r, from, to) == pc[r] = from /\ pc' = [pc EXCEPT ![r] = to]

-----------------------------------------------------------------------------
(* DevelopmentHTTPServer(context)                                          *)

SetDefault(factory) == IF factory = "unset" THEN "default" ELSE factory

SetDefaults(c) ==
    [c EXCEPT !.create_selector = SetDefault(@), !.create_stream = SetDefault(@),
              !.create_request_handler = SetDefault(@)]

Valid(c) ==
    /\ c.complete
    /\ "unset" \notin {c.create_selector, c.create_stream, c.create_request_handler}

\* Slip: the defaults are put into the argument instead of the member.
Construct_Argument(r) ==
    /\ Goto(r, "off", IF Valid(SetDefaults(context[r])) THEN "bind" ELSE "failed")
    /\ UNCHANGED <<context, socket, file>>

\* A NullPointerException of validate() ends run_server().
Construct(r) ==
    /\ Goto(r, "off", IF Valid(SetDefaults(context[r])) THEN "bind" ELSE "failed")
    /\ context' = [context EXCEPT ![r] = SetDefaults(@)]
    /\ UNCHANGED <<socket, file>>

-----------------------------------------------------------------------------
(* bind(), outside the try block of run_server()                           *)

CreateSocket(r) ==
    /\ Goto(r, "bind", "options")
    /\ socket' = [socket EXCEPT ![r] = "fresh"]
    /\ UNCHANGED <<context, file>>

\* All attempts failed, and the null pointer is used.
GiveUp(r) == Goto(r, "bind", "crashed") /\ UNCHANGED <<context, socket, file>>

Bind(r) ==
    /\ file = NoRun /\ file' = r
    /\ Goto(r, "options", "name")
    /\ UNCHANGED <<context, socket>>

\* Slip: bind() is inside the try block: close() follows its exception.
BindFails_Closes(r) ==
    /\ Goto(r, "options", "close") \/ Goto(r, "name", "close")
    /\ UNCHANGED <<context, socket, file>>

\* SocketError of set_options(), EADDRINUSE among them, or of the host's name.
BindFails(r) ==
    /\ Goto(r, "options", "failed") \/ Goto(r, "name", "failed")
    /\ UNCHANGED <<context, socket, file>>

BindReturns(r) == Goto(r, "name", "listen") /\ UNCHANGED <<context, socket, file>>

-----------------------------------------------------------------------------
(* The factories, and where their results are used.                        *)

\* The default selector is always made.
Made(factory) ==
    CASE factory = "null"   -> {"made", "null"}
      [] factory = "throws" -> {"made", "thrown"}
      [] OTHER              -> {"made"}

\* SocketIO::SocketIO() uses the selector without a look.
Stream(c) ==
    IF c.create_stream = "default"
    THEN {IF s = "null" THEN "crash" ELSE s : s \in Made(c.create_selector)}
    ELSE Made(c.create_stream)

\* Slip: the default factory takes the stream as it is.
RequestHandler_Unchecked(c, stream) ==
    IF c.create_request_handler = "default"
    THEN {IF stream = "null" THEN "crash" ELSE "made"}
    ELSE Made(c.create_request_handler)

\* The default factory throws on a null stream.
RequestHandler(c, stream) ==
    IF c.create_request_handler = "default"
    THEN {IF stream = "null" THEN "thrown" ELSE "made"}
    ELSE Made(c.create_request_handler)

\* handle_event(): event_function() catches what is thrown, and shuts the
\* client down; a null request handler is turned into an exception.
HandleEvent(c) ==
    (Stream(c) \cap {"crash", "thrown"})
    \cup UNION {RequestHandler(c, s) : s \in Stream(c) \cap {"made", "null"}}

-----------------------------------------------------------------------------
(* listen(), inside the try block, and the workers                         *)

Listen(r) ==
    /\ Goto(r, "listen", "select")
    /\ socket' = [socket EXCEPT ![r] = "listening"]
    /\ UNCHANGED <<context, file>>

CreateSelector(r) == Goto(r, "select", "loop") /\ UNCHANGED <<context, socket, file>>

\* register_read_event() on nullptr, or an exception that is not one of xw's
\* and that main() does not catch.
SelectorCrashes(r) ==
    /\ Made(context[r].create_selector) # {"made"}
    /\ Goto(r, "select", "crashed")
    /\ UNCHANGED <<context, socket, file>>

\* Slip: only the InterruptException is followed by close().
ListenThrows_Returns(r) ==
    /\ \E p \in {"listen", "select", "loop"} : Goto(r, p, "ended")
    /\ UNCHANGED <<context, socket, file>>

\* SocketError of listen() or accept(), or an exception of create_selector().
ListenThrows(r) ==
    /\ \/ Goto(r, "listen", "close") \/ Goto(r, "loop", "close")
       \/ context[r].create_selector = "throws" /\ Goto(r, "select", "close")
    /\ UNCHANGED <<context, socket, file>>

\* A worker runs a task, also while stop() waits for it.
TaskCrashes(r) ==
    /\ "crash" \in HandleEvent(context[r])
    /\ Goto(r, "loop", "crashed") \/ Goto(r, "close", "crashed")
    /\ UNCHANGED <<context, socket, file>>

-----------------------------------------------------------------------------
(* close()                                                                 *)

Close(r) ==
    /\ Goto(r, "close", "remove")
    /\ socket' = [socket EXCEPT ![r] = "shut"]
    /\ UNCHANGED <<context, file>>

\* shutdown() fails, is logged, and std::remove() is not reached.
CloseFails(r) ==
    /\ Goto(r, "close", "ended")
    /\ socket' = [socket EXCEPT ![r] = "not_shut"]
    /\ UNCHANGED <<context, file>>

\* std::remove() removes what is at the path, whoever made it.
RemoveFile(r) ==
    /\ file # NoRun /\ file' = NoRun
    /\ Goto(r, "remove", "ended")
    /\ UNCHANGED <<context, socket>>

\* FileError, which close_socket() does not catch and main() does.
RemoveFails(r) == Goto(r, "remove", "failed") /\ UNCHANGED <<context, socket, file>>

-----------------------------------------------------------------------------
(* Signals                                                                 *)

\* InterruptException, caught by run_server() or else by main().
Interrupt(r) ==
    /\ \/ \E p \in {"listen", "select", "loop"} : Goto(r, p, "close")
       \/ \E p \in {"bind", "options", "name", "close", "remove"} : Goto(r, p, "failed")
    /\ UNCHANGED <<context, socket, file>>

Kill(r) ==
    /\ \E p \in {"bind", "options", "name", "listen", "select", "loop", "close", "remove"} :
          Goto(r, p, "killed")
    /\ UNCHANGED <<context, socket, file>>

Next ==
    \E r \in Run :
       \/ Construct(r)
       \/ CreateSocket(r) \/ GiveUp(r) \/ Bind(r) \/ BindFails(r) \/ BindReturns(r)
       \/ Listen(r) \/ CreateSelector(r) \/ SelectorCrashes(r) \/ ListenThrows(r)
       \/ TaskCrashes(r)
       \/ Close(r) \/ CloseFails(r) \/ RemoveFile(r) \/ RemoveFails(r)
       \/ Interrupt(r) \/ Kill(r)

Spec == Init /\ [][Next]_vars

-----------------------------------------------------------------------------
(* Properties.                                                             *)

\* The states of a run: on its way, at the end of run_server(), left by an
\* exception that main() logs, or cut off.
PCs == {"off", "bind", "options", "name", "listen", "select", "loop", "close",
        "remove", "ended", "failed", "crashed", "killed"}

\* The variables hold what their declarations in the source can hold, and the
\* factories of a server are never unset.
TypeOK ==
    /\ pc \in [Run -> PCs]
    /\ context \in [Run -> Context]
    /\ socket \in [Run -> {"none", "fresh", "listening", "shut", "not_shut"}]
    /\ file \in Run \cup {NoRun}
    /\ \A r \in Run : pc[r] \in PCs \ {"off", "failed"} => Valid(context[r])

\* The path of a run leads to its socket from bind() until it removes the
\* file itself: whatever other runs do that start meanwhile, fail or end, no
\* listening server becomes unreachable, and no run takes over its path.
ListenerIsReachable ==
    \A r \in Run :
       pc[r] \in {"name", "listen", "select", "loop", "close", "remove"} => file = r

\* A run_server() that returns, after an interrupt or an error, has removed
\* its file: the path is left blocked for the runs to come only by a run that
\* was cut off, that failed in bind() or in close(), or whose shutdown() did.
ReturnFreesThePath ==
    \A r \in Run : pc[r] = "ended" /\ file = r => socket[r] = "not_shut"

\* A null pointer or a foreign exception takes the process down in two cases
\* only: all attempts to create a socket have failed, or the application's
\* own create_selector() gave it. The results of the other two factories are
\* checked where they are used.
CrashHasACause ==
    \A r \in Run :
       pc[r] = "crashed" => socket[r] = "none" \/ context[r].create_selector \in {"null", "throws"}
=============================================================================
