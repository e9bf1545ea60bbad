---------------------------- MODULE ServerSocket ----------------------------
(***************************************************************************)
(* The life of the listening socket: what bind(), listen() and close() of  *)
(* DevelopmentHTTPServer do to the ISocket object and to the kernel, for   *)
(* every order of the three calls and every system call that may fail.     *)
(* The loop of listen() is HTTPServer's.                                   *)
(***************************************************************************)
EXTENDS Integers, Sequences

CONSTANTS
    Addresses,    \* the kinds of address the application binds
    RetriesCount, \* Context::socket_creation_retries_count
    MaxCalls      \* bound: calls the application makes

ASSUME AddressAssumption == Addresses \subseteq {"ipv4", "ipv6", "path"}
ASSUME RetriesAssumption == RetriesCount \in Nat
ASSUME CallsAssumption == MaxCalls \in Nat

VARIABLES
    pc,      \* where the call in progress is; "idle" between the calls
    address, \* the argument of the last bind()
    tries,   \* the counter of the retry loop
    socks,   \* the BaseSocket objects ever made and their descriptors
    socket,  \* which of them _socket is; 0 for nullptr
    file,    \* does the file of the Unix socket exist?
    result,  \* how the last call ended
    calls    \* bound: calls made so far

vars == <<pc, address, tries, socks, socket, file, result, calls>>

\* closed is _closed; closes counts the calls of ::close() on the descriptor.
NewSocket == [unix |-> address = "path", state |-> "fresh", closed |-> FALSE, closes |-> 0]

Init ==
    /\ pc = "idle" /\ address \in Addresses /\ tries = 0
    /\ socks = <<>> /\ socket = 0
    /\ file \in BOOLEAN
    /\ result = "none" /\ calls = 0

Call == pc = "idle" /\ calls < MaxCalls /\ calls' = calls + 1

Ends(how) == pc' = "idle" /\ result' = how

\* A null pointer is used.
Crash == pc' = "crashed" /\ result' = "none"

-----------------------------------------------------------------------------
(* bind(): create_server_socket() ...                                      *)

CallBind(a) ==
    /\ Call
    /\ pc' = "create" /\ address' = a /\ tries' = 0 /\ result' = "none"
    /\ UNCHANGED <<socks, socket, file>>

\* Slip: the loop makes one turn more.
Attempt_OneMore == pc = "create" /\ tries <= RetriesCount /\ tries' = tries + 1

Attempt == pc = "create" /\ tries < RetriesCount /\ tries' = tries + 1

Create ==
    /\ Attempt /\ address # "ipv6"
    /\ socks' = Append(socks, NewSocket)
    /\ socket' = Len(socks')
    /\ pc' = "options"
    /\ UNCHANGED <<address, file, result, calls>>

\* inet_pton() of is_ipv6() stores an IPv6 address through nullptr.
CreateCrashes ==
    /\ Attempt /\ address = "ipv6"
    /\ Crash
    /\ UNCHANGED <<address, socks, socket, file, calls>>

\* Slip: the failed attempt is not counted.
CreateFails_Uncounted ==
    /\ pc = "create" /\ tries < RetriesCount /\ address # "ipv6"
    /\ pc' = "sleep"
    /\ UNCHANGED <<address, tries, socks, socket, file, result, calls>>

\* ::socket() fails, whatever the error code.
CreateFails ==
    /\ Attempt /\ address # "ipv6"
    /\ pc' = "sleep"
    /\ UNCHANGED <<address, socks, socket, file, result, calls>>

\* i < retries_count holds after the last attempt too.
Sleep ==
    /\ pc = "sleep" /\ pc' = "create"
    /\ UNCHANGED <<address, tries, socks, socket, file, result, calls>>

\* nullptr is returned, and set_options() is called on it.
GiveUp ==
    /\ pc = "create" /\ tries = RetriesCount
    /\ socket' = 0
    /\ Crash
    /\ UNCHANGED <<address, tries, socks, file, calls>>

-----------------------------------------------------------------------------
(* ... then set_options(), which binds, and the names of the host.         *)

\* setsockopt(), inet_pton() or ::bind() fails, but not with EADDRINUSE.
OptionsFail ==
    /\ pc = "options"
    /\ Ends("SocketError")
    /\ UNCHANGED <<address, tries, socks, socket, file, calls>>

BindInUse ==
    /\ pc = "options"
    /\ socks[socket].unix => file
    /\ Ends("in_use")
    /\ UNCHANGED <<address, tries, socks, socket, file, calls>>

Bind ==
    /\ pc = "options"
    /\ socks[socket].unix => ~file
    /\ socks' = [socks EXCEPT ![socket].state = "bound"]
    /\ file' = (file \/ socks[socket].unix)
    /\ pc' = "name"
    /\ UNCHANGED <<address, tries, socket, result, calls>>

\* _set_blocking() and get_host_name() may throw; the environment is filled.
BindReturns ==
    /\ pc = "name"
    /\ Ends("bound") \/ Ends("SocketError")
    /\ UNCHANGED <<address, tries, socks, socket, file, calls>>

-----------------------------------------------------------------------------
(* listen() up to its loop, and close().                                   *)

ListenOnNull ==
    /\ Call /\ socket = 0
    /\ Crash
    /\ UNCHANGED <<address, tries, socks, socket, file>>

\* require_non_null() throws, and close_socket() catches only SocketError.
CloseOnNull ==
    /\ Call /\ socket = 0
    /\ Ends("NullPointer")
    /\ UNCHANGED <<address, tries, socks, socket, file>>

\* ::listen() refuses a closed descriptor and an unbound Unix socket.
CanListen(s) == s.closes = 0 /\ (s.unix => s.state # "fresh")

Listen ==
    /\ Call /\ socket # 0
    /\ \/ /\ CanListen(socks[socket])
          /\ socks' = [socks EXCEPT ![socket].state = "listening"]
          /\ Ends("listening")
       \/ UNCHANGED socks /\ Ends("SocketError")
    /\ UNCHANGED <<address, tries, socket, file>>

\* std::remove() in UnixSocket::close(); its FileError leaves close_socket().
RemoveFile(s) ==
    IF ~s.unix THEN Ends("closed") /\ UNCHANGED file
    ELSE \/ file /\ file' = FALSE /\ Ends("closed")
         \/ UNCHANGED file /\ Ends("FileError")

Shut(s) == [s EXCEPT !.closed = TRUE, !.state = "shut", !.closes = @ + 1]

\* Slip: _closed is not examined.
Close_Again ==
    /\ Call /\ socket # 0
    /\ socks' = [socks EXCEPT ![socket] = Shut(@)]
    /\ RemoveFile(socks[socket])
    /\ UNCHANGED <<address, tries, socket>>

Close ==
    /\ Call /\ socket # 0
    /\ \/ socks[socket].closed /\ UNCHANGED socks
       \/ ~socks[socket].closed /\ socks' = [socks EXCEPT ![socket] = Shut(@)]
    /\ RemoveFile(socks[socket])
    /\ UNCHANGED <<address, tries, socket>>

\* ENOTCONN, as for a socket that does not listen: the SocketError is logged
\* by close_socket(); neither ::close() nor std::remove() is reached.
CloseFails ==
    /\ Call /\ socket # 0
    /\ ~socks[socket].closed
    /\ socks' = [socks EXCEPT ![socket].closed = TRUE]
    /\ Ends("logged")
    /\ UNCHANGED <<address, tries, socket, file>>

-----------------------------------------------------------------------------
BindStep ==
    \/ Create \/ CreateCrashes \/ CreateFails \/ Sleep \/ GiveUp
    \/ OptionsFail \/ BindInUse \/ Bind \/ BindReturns

Next ==
    \/ \E a \in Addresses : CallBind(a)
    \/ BindStep
    \/ ListenOnNull \/ CloseOnNull \/ Listen \/ Close \/ CloseFails

Spec == Init /\ [][Next]_vars

\* System calls and the sleep of one second end.
FairSpec == Spec /\ WF_vars(BindStep)

-----------------------------------------------------------------------------
(* Properties.                                                             *)

PCs == {"idle", "create", "sleep", "options", "name", "crashed"}

Results == {"none", "bound", "in_use", "SocketError", "NullPointer", "FileError",
            "listening", "closed", "logged"}

Socket == [unix : BOOLEAN, state : {"fresh", "bound", "listening", "shut"},
           closed : BOOLEAN, closes : Nat]

\* The variables hold what their declarations in the source can hold, and the
\* retry loop makes RetriesCount attempts at most.
TypeOK ==
    /\ pc \in PCs /\ address \in Addresses /\ tries \in 0 .. RetriesCount
    /\ socks \in Seq(Socket) /\ socket \in 0 .. Len(socks)
    /\ pc \in {"options", "name"} => socket # 0
    /\ file \in BOOLEAN /\ result \in Results /\ calls \in Nat

\* However often close() is called, and whatever failed before, ::close() is
\* called on a descriptor once: afterwards its number may be a client's.
ClosedOnce == \A i \in 1 .. Len(socks) : socks[i].closes <= 1

\* An open descriptor that the server cannot reach any more: the one of a
\* socket that a later bind() has replaced, or of one that close() has marked
\* as closed although its shutdown() failed.
Lost(i) == socks[i].closes = 0 /\ (i # socket \/ socks[i].closed)

\* What is lost stays lost, whatever is called afterwards: neither another
\* close() nor another bind() gives such a descriptor, and its address, back.
LeaksAreForever == [][\A i \in 1 .. Len(socks) : Lost(i) => Lost(i)']_vars

\* bind() ends: the attempts to create a socket are counted.
BindEnds == pc = "create" ~> pc \in {"idle", "crashed"}
=============================================================================
