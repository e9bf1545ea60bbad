-------------------------- MODULE HTTPServerProofs --------------------------
(***************************************************************************)
(* Safety of the server for any number of connections, workers and         *)
(* descriptors.  The properties rest on one inductive invariant: besides   *)
(* the types and the properties themselves it says where a connection that *)
(* somebody holds can be (Custody) and what the program counters entail    *)
(* (Control).                                                              *)
(***************************************************************************)
EXTENDS HTTPServer, FiniteSetTheorems, TLAPS

\* A held connection has been accepted, an accepted one is not pending, and
\* the number of the listening socket never comes to name a connection.
Custody ==
    /\ IsValid(client) => client.conn \in accepted
    /\ \A i \in 1 .. Len(tasks) : tasks[i].conn \in accepted
    /\ \A w \in Busy : task[w].conn \in accepted
    /\ backlog \cap accepted = {}
    /\ backlog \subseteq arrived /\ accepted \subseteq arrived
    /\ fdTable[ListenFd] \notin Conn

\* listen() holds a client only between accept() and inject_task(), a worker
\* has a task exactly while it is busy, and ::close() follows shutdown().
Control ==
    /\ lpc # "dispatch" => client = NoClient
    /\ \A w \in Worker : wpc[w] # "idle" <=> task[w] \in Clients
    /\ \A w \in Worker : wpc[w] = "close_client" => Ended(task[w].conn)
    /\ \A w \in Worker : wpc[w] = "close_writer" => task[w].conn \in shutRd

IInv == /\ TypeOK /\ NoStaleDescriptor /\ SingleHolder /\ AcceptedIsKept
        /\ Custody /\ Control

-----------------------------------------------------------------------------
(* Facts about the queue.                                                  *)

LEMMA QueueTail ==
    ASSUME NEW S, NEW s \in Seq(S), s # <<>>
    PROVE  /\ Head(s) = s[1] /\ s[1] \in S
           /\ Tail(s) \in Seq(S) /\ Len(Tail(s)) = Len(s) - 1
           /\ Len(s) \in Nat \ {0}
           /\ \A i \in 1 .. Len(Tail(s)) : i + 1 \in 1 .. Len(s) /\ Tail(s)[i] = s[i + 1]
  OBVIOUS

LEMMA QueueAppend ==
    ASSUME NEW S, NEW s \in Seq(S), NEW e \in S
    PROVE  /\ Append(s, e) \in Seq(S) /\ Len(Append(s, e)) = Len(s) + 1
           /\ Len(s) \in Nat
           /\ \A i \in 1 .. Len(s) : Append(s, e)[i] = s[i]
           /\ Append(s, e)[Len(s) + 1] = e
  OBVIOUS

LEMMA ClientFacts ==
    /\ ~IsValid(NoClient) /\ NoClient \notin Clients
    /\ \A k \in Clients : IsValid(k) /\ k.fd \in Fd /\ k.conn \in Conn
    /\ \A k \in Clients : k # NoClient
  BY FdAssumption, ConnAssumption DEF IsValid, NoClient, Clients, Fd

\* A busy worker's system calls reach the connection of its task.
LEMMA AtTask ==
    ASSUME IInv, NEW w \in Busy
    PROVE  /\ task[w] \in Clients /\ task[w].fd \in Fd /\ task[w].conn \in Conn
           /\ At(task[w].fd) = {task[w].conn}
<1>1. w \in Worker /\ task[w] \in Clients /\ fdTable[task[w].fd] = task[w].conn
  BY DEF IInv, Busy, Control, NoStaleDescriptor
<1>2. task[w].fd \in Fd /\ task[w].conn \in Conn
  BY <1>1, ClientFacts
<1> QED BY <1>1, <1>2 DEF At

-----------------------------------------------------------------------------
(* The initial state.                                                      *)

LEMMA InitInv == Init => IInv
<1> SUFFICES ASSUME Init PROVE IInv
  OBVIOUS
<1> USE ClientFacts, FdAssumption, ConnAssumption DEF Init
<1>1. TypeOK
  <2>1. fdTable \in [Fd -> Conn \cup {NoConn, ListenSock}]
    OBVIOUS
  <2>2. wpc \in [Worker -> WStates] /\ task \in [Worker -> Clients \cup {NoClient}]
    BY DEF WStates
  <2>3. tasks \in Seq(Clients) /\ lpc \in LStates /\ cpc \in CStates
    BY DEF LStates, CStates
  <2> QED BY <2>1, <2>2, <2>3 DEF TypeOK
<1>2. NoStaleDescriptor /\ SingleHolder /\ AcceptedIsKept
  BY DEF NoStaleDescriptor, SingleHolder, AcceptedIsKept, Busy
<1>3. Custody /\ Control
  BY DEF Custody, Control, Busy, Fd, ListenFd
<1> QED BY <1>1, <1>2, <1>3 DEF IInv

-----------------------------------------------------------------------------
(* Steps that leave descriptors and holders alone.                         *)

\* Such a step keeps the invariant if it keeps the types and Control, undoes
\* no shutdown and puts no accepted connection back into the backlog.
LEMMA Undisturbed ==
    ASSUME IInv, TypeOK', Control',
           UNCHANGED <<fdTable, client, tasks, task, accepted>>, Busy' = Busy,
           shutRd \subseteq shutRd', shutWr \subseteq shutWr',
           closed => closed', lpc = "threw" => lpc' = "threw",
           backlog' \cap accepted = {},
           backlog' \subseteq arrived', arrived \subseteq arrived'
    PROVE  IInv'
<1>1. NoStaleDescriptor' /\ SingleHolder'
  BY DEF IInv, NoStaleDescriptor, SingleHolder
<1>2. AcceptedIsKept'
  BY DEF IInv, AcceptedIsKept, Ended, Held, Queued
<1>3. Custody'
  BY DEF IInv, Custody
<1> QED BY <1>1, <1>2, <1>3 DEF IInv

\* The same for the clients, the listening thread and the closing thread,
\* none of which touches the workers.
LEMMA UndisturbedWorkers ==
    ASSUME IInv, TypeOK',
           UNCHANGED <<fdTable, client, tasks, wpc, task, accepted, shutRd, shutWr>>,
           closed => closed', lpc = "threw" => lpc' = "threw",
           lpc' # "dispatch" => client' = NoClient,
           backlog' \cap accepted = {},
           backlog' \subseteq arrived', arrived \subseteq arrived'
    PROVE  IInv'
<1>1. Control'
  BY DEF IInv, Control, Ended
<1>2. Busy' = Busy
  BY DEF Busy
<1> QED BY <1>1, <1>2, Undisturbed

-----------------------------------------------------------------------------
(* The inductive step.                                                     *)

LEMMA StepInv == IInv /\ [Next]_vars => IInv'
<1> SUFFICES ASSUME IInv, [Next]_vars PROVE IInv'
  OBVIOUS
<1> USE DEF IInv
<1>1. ASSUME NEW c \in Conn, Connect(c) PROVE IInv'
  <2>1. TypeOK'
    BY <1>1 DEF Connect, TypeOK, kernel, listener, pool, closer
  <2> QED
    BY <1>1, <2>1, UndisturbedWorkers
       DEF Connect, Custody, Control, kernel, listener, pool, closer
<1>2. ASSUME NEW c \in Conn, ClientAbort(c) PROVE IInv'
  <2>1. TypeOK'
    BY <1>2 DEF ClientAbort, TypeOK, kernel, listener, pool, closer
  <2> QED
    BY <1>2, <2>1, UndisturbedWorkers
       DEF ClientAbort, Custody, Control, kernel, listener, pool, closer
<1>3. CASE CheckOpen
  <2>1. TypeOK'
    BY <1>3 DEF CheckOpen, LGoto, TypeOK, LStates, kernel, listener, pool, closer
  <2> QED
    BY <1>3, <2>1, UndisturbedWorkers
       DEF CheckOpen, LGoto, Custody, Control, kernel, listener, pool, closer
<1>4. CASE Select
  <2>1. TypeOK'
    BY <1>4 DEF Select, LGoto, TypeOK, LStates, kernel, listener, pool, closer
  <2> QED
    BY <1>4, <2>1, UndisturbedWorkers
       DEF Select, LGoto, Custody, Control, kernel, listener, pool, closer
<1>5. CASE AcceptEMFILE
  <2>1. TypeOK'
    BY <1>5 DEF AcceptEMFILE, LGoto, TypeOK, LStates, kernel, listener, pool, closer
  <2> QED
    BY <1>5, <2>1, UndisturbedWorkers
       DEF AcceptEMFILE, LGoto, CanAccept, Custody, Control, kernel, listener, pool, closer
<1>6. CASE AcceptThrows
  <2>1. TypeOK'
    BY <1>6 DEF AcceptThrows, LGoto, TypeOK, LStates, kernel, listener, pool, closer
  <2> QED
    BY <1>6, <2>1, UndisturbedWorkers
       DEF AcceptThrows, LGoto, Custody, Control, kernel, listener, pool, closer
<1>7. CASE AcceptFails
  <2>1. TypeOK'
    BY <1>7 DEF AcceptFails, LGoto, TypeOK, LStates, kernel, listener, pool, closer
  <2> QED
    BY <1>7, <2>1, UndisturbedWorkers
       DEF AcceptFails, LGoto, Custody, Control, kernel, listener, pool, closer
<1>8. CASE StopWorker
  <2>1. TypeOK'
    BY <1>8 DEF StopWorker, CGoto, TypeOK, CStates, kernel, listener, pool, closer
  <2> QED
    BY <1>8, <2>1, UndisturbedWorkers
       DEF StopWorker, CGoto, Custody, Control, kernel, listener, pool, closer
<1>9. CASE JoinWorkers
  <2>1. TypeOK'
    BY <1>9 DEF JoinWorkers, CGoto, TypeOK, CStates, kernel, listener, pool, closer
  <2> QED
    BY <1>9, <2>1, UndisturbedWorkers
       DEF JoinWorkers, CGoto, Custody, Control, kernel, listener, pool, closer
<1>10. CASE MarkClosed
  <2>1. TypeOK'
    BY <1>10 DEF MarkClosed, CGoto, TypeOK, CStates, kernel, listener, pool, closer
  <2> QED
    BY <1>10, <2>1, UndisturbedWorkers
       DEF MarkClosed, CGoto, Custody, Control, kernel, listener, pool, closer
<1>11. CASE ShutdownListener
  <2>1. TypeOK'
    BY <1>11 DEF ShutdownListener, CGoto, TypeOK, CStates, kernel, listener, pool, closer
  <2> QED
    BY <1>11, <2>1, UndisturbedWorkers
       DEF ShutdownListener, CGoto, Custody, Control, kernel, listener, pool, closer
<1>12. CASE ShutdownListenerFails
  <2>1. TypeOK'
    BY <1>12 DEF ShutdownListenerFails, CGoto, TypeOK, CStates, kernel, listener, pool, closer
  <2> QED
    BY <1>12, <2>1, UndisturbedWorkers
       DEF ShutdownListenerFails, CGoto, Custody, Control, kernel, listener, pool, closer
<1>13. ASSUME NEW w \in Worker, HandleReturns(w) PROVE IInv'
  <2>1. TypeOK'
    BY <1>13 DEF HandleReturns, WGoto, TypeOK, WStates, kernel, listener, closer
  <2>2. Control' /\ Busy' = Busy
    BY <1>13 DEF HandleReturns, WGoto, TypeOK, Control, Busy, Ended, kernel, listener
  <2> QED
    BY <1>13, <2>1, <2>2, Undisturbed DEF HandleReturns, Custody, kernel, listener, closer
<1>14. ASSUME NEW w \in Worker, HandleThrows(w) PROVE IInv'
  <2>1. TypeOK'
    BY <1>14 DEF HandleThrows, WGoto, TypeOK, WStates, kernel, listener, closer
  <2>2. Control' /\ Busy' = Busy
    BY <1>14 DEF HandleThrows, WGoto, TypeOK, Control, Busy, Ended, kernel, listener
  <2> QED
    BY <1>14, <2>1, <2>2, Undisturbed DEF HandleThrows, Custody, kernel, listener, closer
<1>15. ASSUME NEW w \in Worker, CloseReader(w) PROVE IInv'
  <2>1. w \in Busy
    BY <1>15 DEF CloseReader, WGoto, Busy
  <2>2. task[w].conn \in Conn /\ At(task[w].fd) = {task[w].conn}
    BY <2>1, AtTask
  <2>3. TypeOK'
    BY <1>15, <2>2 DEF CloseReader, WGoto, TypeOK, WStates, listener, closer
  <2>4. Control' /\ Busy' = Busy
    BY <1>15, <2>2 DEF CloseReader, WGoto, TypeOK, Control, Busy, Ended, listener
  <2> QED
    BY <1>15, <2>3, <2>4, Undisturbed DEF CloseReader, Custody, listener, closer
<1>16. ASSUME NEW w \in Worker, ShutdownClient(w) PROVE IInv'
  <2>1. w \in Busy
    BY <1>16 DEF ShutdownClient, WGoto, Busy
  <2>2. task[w].conn \in Conn /\ At(task[w].fd) = {task[w].conn}
    BY <2>1, AtTask
  <2>3. TypeOK'
    BY <1>16, <2>2 DEF ShutdownClient, WGoto, TypeOK, WStates, listener, closer
  <2>4. Control' /\ Busy' = Busy
    BY <1>16, <2>2 DEF ShutdownClient, WGoto, TypeOK, Control, Busy, Ended, listener
  <2> QED
    BY <1>16, <2>3, <2>4, Undisturbed DEF ShutdownClient, Custody, listener, closer
<1>17. ASSUME NEW c \in Conn, AcceptClient(c) PROVE IInv'
  <2> USE <1>17 DEF AcceptClient, LGoto, pool, closer
  <2>1. PICK f \in FreeFds : /\ fdTable' = [fdTable EXCEPT ![f] = c]
                             /\ client' = [fd |-> f, conn |-> c]
    OBVIOUS
  <2>2. f \in Fd /\ fdTable[f] = NoConn
    BY DEF FreeFds
  <2>3. client' \in Clients /\ client'.fd = f /\ client'.conn = c /\ client = NoClient
    BY <2>1, <2>2 DEF Clients, CanAccept, Control
  <2>4. TypeOK'
    BY <2>1, <2>2, <2>3 DEF TypeOK, LStates
  <2>5. NoStaleDescriptor'
    BY <2>1, <2>2, <2>3, ClientFacts, ConnAssumption
       DEF NoStaleDescriptor, TypeOK, Busy, Control
  <2>6. SingleHolder'
    BY <2>3 DEF SingleHolder, Custody, Busy
  <2>7. AcceptedIsKept'
    <3>1. \A d \in Conn : Held(d) => Held(d)'
      BY <2>3, ConnAssumption DEF Held, Queued, Busy, NoClient
    <3>2. Held(c)'
      BY <2>3 DEF Held, Queued
    <3> QED BY <3>1, <3>2 DEF AcceptedIsKept, Ended, CanAccept, TypeOK
  <2>8. Custody'
    BY <2>1, <2>2, <2>3, ConnAssumption
       DEF Custody, Busy, TypeOK, CanAccept, ListenFdOpen, ListenFd
  <2>9. Control'
    BY <2>3 DEF Control, Ended
  <2> QED BY <2>4, <2>5, <2>6, <2>7, <2>8, <2>9
<1>18. CASE Dispatch
  <2> USE <1>18 DEF Dispatch, LGoto, kernel, closer
  <2>1. CASE ~closed /\ IsValid(client)
    <3>1. client \in Clients /\ tasks' = Append(tasks, client) /\ client' = NoClient
      BY <2>1, ClientFacts DEF TypeOK
    <3>2. /\ tasks' \in Seq(Clients) /\ Len(tasks') = Len(tasks) + 1
          /\ Len(tasks) \in Nat
          /\ \A i \in 1 .. Len(tasks) : tasks'[i] = tasks[i]
          /\ tasks'[Len(tasks) + 1] = client
      BY <3>1, QueueAppend DEF TypeOK
    <3>3. TypeOK'
      BY <3>1, <3>2 DEF TypeOK, LStates
    <3>4. NoStaleDescriptor'
      BY <2>1, <3>1, <3>2, ClientFacts DEF NoStaleDescriptor, Busy
    <3>5. SingleHolder'
      BY <2>1, <3>1, <3>2, ClientFacts DEF SingleHolder, Busy
    <3>6. AcceptedIsKept'
      <4>1. \A c : Held(c) => Held(c)'
        BY <3>1, <3>2 DEF Held, Queued, Busy
      <4> QED BY <4>1 DEF AcceptedIsKept, Ended
    <3>7. Custody'
      BY <2>1, <3>1, <3>2, ClientFacts DEF Custody, Busy
    <3>8. Control'
      BY <3>1 DEF Control, Ended
    <3> QED BY <3>3, <3>4, <3>5, <3>6, <3>7, <3>8
  <2>2. CASE closed \/ ~IsValid(client)
    <3>1. tasks' = tasks /\ client' = NoClient /\ Busy' = Busy
      BY <2>2 DEF Busy
    <3>2. TypeOK'
      BY <3>1 DEF TypeOK, LStates
    <3>3. NoStaleDescriptor' /\ SingleHolder' /\ Custody'
      BY <3>1, ClientFacts DEF NoStaleDescriptor, SingleHolder, Custody
    <3>4. AcceptedIsKept'
      <4>1. ~IsValid(client) => client = NoClient
        BY ClientFacts DEF TypeOK
      <4> QED BY <2>2, <3>1, <4>1 DEF AcceptedIsKept, Held, Queued, Ended
    <3>5. Control'
      BY <3>1 DEF Control, Ended
    <3> QED BY <3>2, <3>3, <3>4, <3>5
  <2> QED BY <2>1, <2>2
<1>19. CASE Interrupt
  <2> USE <1>19 DEF Interrupt, kernel, pool, closer
  <2>1. TypeOK'
    BY DEF TypeOK, LStates
  <2>2. NoStaleDescriptor' /\ SingleHolder' /\ Custody'
    BY ClientFacts DEF NoStaleDescriptor, SingleHolder, Custody, Busy
  <2>3. AcceptedIsKept' /\ Control'
    BY DEF AcceptedIsKept, Control, Ended
  <2> QED BY <2>1, <2>2, <2>3
<1>20. ASSUME NEW w \in Worker, TakeTask(w) PROVE IInv'
  <2> USE <1>20 DEF TakeTask, WGoto, kernel, listener, closer
  <2>1. /\ tasks \in Seq(Clients) /\ tasks # <<>>
        /\ wpc \in [Worker -> WStates]
        /\ task \in [Worker -> Clients \cup {NoClient}]
    BY DEF TypeOK
  <2>2. /\ Head(tasks) = tasks[1] /\ tasks[1] \in Clients
        /\ tasks' \in Seq(Clients) /\ Len(tasks') = Len(tasks) - 1
        /\ Len(tasks) \in Nat \ {0}
        /\ \A i \in 1 .. Len(tasks') :
              i + 1 \in 1 .. Len(tasks) /\ tasks'[i] = tasks[i + 1]
    BY <2>1, QueueTail
  <2>3. /\ task'[w] = tasks[1] /\ w \notin Busy
        /\ \A v \in Worker : v # w => task'[v] = task[v] /\ wpc'[v] = wpc[v]
        /\ Busy' = Busy \cup {w}
    BY <2>1, <2>2 DEF Busy
  <2>4. 1 \in 1 .. Len(tasks)
    BY <2>2
  <2>5. TypeOK'
    BY <2>1, <2>2 DEF TypeOK, WStates
  <2>6. NoStaleDescriptor'
    BY <2>2, <2>3, <2>4 DEF NoStaleDescriptor, Busy
  <2>7. SingleHolder'
    BY <2>2, <2>3, <2>4 DEF SingleHolder, Busy
  <2>8. AcceptedIsKept'
    <3>1. ASSUME NEW c \in Conn, Held(c) PROVE Held(c)'
      <4>1. ASSUME NEW i \in 1 .. Len(tasks), tasks[i].conn = c PROVE Held(c)'
        <5>1. CASE i = 1
          BY <4>1, <5>1, <2>2, <2>3 DEF Held, Queued
        <5>2. CASE i # 1
          <6>1. i - 1 \in 1 .. Len(tasks') /\ tasks'[i - 1] = tasks[i]
            BY <5>2, <2>2
          <6> QED BY <4>1, <6>1 DEF Held, Queued
        <5> QED BY <5>1, <5>2
      <4>2. ASSUME NEW v \in Busy, task[v].conn = c PROVE Held(c)'
        BY <4>2, <2>3 DEF Held, Queued, Busy
      <4> QED BY <3>1, <4>1, <4>2 DEF Held, Queued
    <3> QED BY <3>1 DEF AcceptedIsKept, Ended, TypeOK
  <2>9. Custody'
    BY <2>2, <2>3, <2>4 DEF Custody, Busy
  <2>10. Control'
    BY <2>1, <2>2, <2>3, ClientFacts DEF Control, Ended
  <2> QED BY <2>5, <2>6, <2>7, <2>8, <2>9, <2>10
<1>21. ASSUME NEW w \in Worker, CloseWriter(w) PROVE IInv'
  <2> USE <1>21 DEF CloseWriter, WGoto, listener, closer
  <2>1. w \in Busy
    BY DEF Busy
  <2>2. /\ task[w].conn \in Conn /\ At(task[w].fd) = {task[w].conn}
        /\ wpc \in [Worker -> WStates]
        /\ task \in [Worker -> Clients \cup {NoClient}]
    BY <2>1, AtTask DEF TypeOK
  <2>3. /\ Busy' = Busy \ {w}
        /\ \A v \in Worker : v # w => task'[v] = task[v] /\ wpc'[v] = wpc[v]
        /\ wpc'[w] = "idle" /\ task'[w] = NoClient
    BY <2>2 DEF Busy
  <2>4. TypeOK'
    BY <2>2 DEF TypeOK, WStates
  <2>5. NoStaleDescriptor' /\ SingleHolder' /\ Custody'
    BY <2>3 DEF NoStaleDescriptor, SingleHolder, Custody, Busy
  <2>6. task[w].conn \in shutRd' /\ task[w].conn \in shutWr'
    BY <2>2 DEF Control
  <2>7. AcceptedIsKept'
    <3>1. \A c \in Conn : Held(c) => Held(c)' \/ c = task[w].conn
      BY <2>3 DEF Held, Queued, Busy
    <3> QED BY <2>6, <3>1 DEF AcceptedIsKept, Ended, TypeOK
  <2>8. Control'
    BY <2>2, <2>3, ClientFacts DEF Control, Ended
  <2> QED BY <2>4, <2>5, <2>7, <2>8
<1>22. ASSUME NEW w \in Worker, CloseClient(w) PROVE IInv'
  <2> USE <1>22 DEF CloseClient, WGoto, listener, closer
  <2>1. w \in Busy
    BY DEF Busy
  <2>2. /\ task[w].conn \in Conn /\ task[w].fd \in Fd
        /\ fdTable[task[w].fd] = task[w].conn
        /\ wpc \in [Worker -> WStates]
        /\ task \in [Worker -> Clients \cup {NoClient}]
        /\ fdTable \in [Fd -> Conn \cup {NoConn, ListenSock}]
    BY <2>1, AtTask DEF TypeOK, NoStaleDescriptor
  <2>3. /\ Busy' = Busy \ {w}
        /\ \A v \in Worker : v # w => task'[v] = task[v] /\ wpc'[v] = wpc[v]
        /\ wpc'[w] = "idle" /\ task'[w] = NoClient
    BY <2>2 DEF Busy
  <2>4. TypeOK'
    BY <2>2 DEF TypeOK, WStates
  <2>5. SingleHolder'
    BY <2>3 DEF SingleHolder, Busy
  <2>6. NoStaleDescriptor'
    \* No other holder has this number: it would hold the same connection.
    <3>1. \A g \in Fd : g # task[w].fd => fdTable'[g] = fdTable[g]
      BY <2>2
    <3>2. /\ IsValid(client) => client.conn # task[w].conn
          /\ \A i \in 1 .. Len(tasks) : tasks[i].conn # task[w].conn
          /\ \A v \in Busy : v # w => task[v].conn # task[w].conn
      BY <2>1 DEF SingleHolder
    <3>3. /\ IsValid(client) => client \in Clients
          /\ \A i \in 1 .. Len(tasks) : tasks[i] \in Clients
          /\ \A v \in Busy : task[v] \in Clients
      BY ClientFacts DEF TypeOK, Control, Busy
    <3> QED BY <2>2, <2>3, <3>1, <3>2, <3>3, ClientFacts DEF NoStaleDescriptor, Busy
  <2>7. AcceptedIsKept'
    <3>1. Ended(task[w].conn)
      BY DEF Control
    <3>2. \A c \in Conn : Held(c) => Held(c)' \/ c = task[w].conn
      BY <2>3 DEF Held, Queued, Busy
    <3> QED BY <3>1, <3>2 DEF AcceptedIsKept, Ended, TypeOK
  <2>8. Custody'
    BY <2>2, <2>3, ConnAssumption DEF Custody, Busy
  <2>9. Control'
    BY <2>2, <2>3, ClientFacts DEF Control, Ended
  <2> QED BY <2>4, <2>5, <2>6, <2>7, <2>8, <2>9
<1>23. CASE CloseListenFd
  <2> USE <1>23 DEF CloseListenFd, CGoto, listener, pool
  <2>1. /\ ListenFd \in Fd /\ fdTable[ListenFd] \notin Conn
        /\ fdTable' = [fdTable EXCEPT ![ListenFd] = NoConn]
        /\ fdTable \in [Fd -> Conn \cup {NoConn, ListenSock}]
    BY FdAssumption DEF ListenFd, Fd, Custody, TypeOK
  <2>2. TypeOK'
    BY <2>1 DEF TypeOK, CStates
  <2>3. NoStaleDescriptor'
    <3>1. \A k \in Clients : fdTable[k.fd] = k.conn => fdTable'[k.fd] = k.conn
      BY <2>1, ClientFacts
    <3>2. /\ IsValid(client) => client \in Clients
          /\ \A i \in 1 .. Len(tasks) : tasks[i] \in Clients
          /\ \A v \in Busy : task[v] \in Clients
      BY ClientFacts DEF TypeOK, Control, Busy
    <3> QED BY <3>1, <3>2 DEF NoStaleDescriptor, Busy
  <2>4. SingleHolder' /\ AcceptedIsKept' /\ Control'
    BY DEF SingleHolder, AcceptedIsKept, Control, Busy, Held, Queued, Ended
  <2>5. Custody'
    BY <2>1, ConnAssumption DEF Custody, Busy
  <2> QED BY <2>2, <2>3, <2>4, <2>5
<1>24. CASE UNCHANGED vars
  BY <1>24 DEF vars, kernel, listener, pool, closer, TypeOK, NoStaleDescriptor,
             SingleHolder, AcceptedIsKept, Custody, Control, Busy, Ended, Held, Queued
<1> QED
  BY <1>1, <1>2, <1>3, <1>4, <1>5, <1>6, <1>7, <1>8, <1>9, <1>10, <1>11, <1>12, <1>13, <1>14,
     <1>15, <1>16, <1>17, <1>18, <1>19, <1>20, <1>21, <1>22, <1>23, <1>24
     DEF Next, ListenerStep, WorkerStep, CloserStep

LEMMA Invariance == Spec => []IInv
  BY InitInv, StepInv, PTL DEF Spec

-----------------------------------------------------------------------------
(* The theorems.                                                           *)

\* For any number of connections, workers and descriptors the variables keep
\* their types.
THEOREM TypeCorrect == Spec => []TypeOK
<1>1. IInv => TypeOK  BY DEF IInv
<1> QED BY <1>1, Invariance, PTL

\* No thread ever works on a descriptor number that has come to name another
\* connection: the one ::close() of the program is made by the last holder.
THEOREM DescriptorsAreCurrent == Spec => []NoStaleDescriptor
<1>1. IInv => NoStaleDescriptor  BY DEF IInv
<1> QED BY <1>1, Invariance, PTL

\* No connection is ever in the hands of two threads, or queued twice.
THEOREM HoldersAreUnique == Spec => []SingleHolder
<1>1. IInv => SingleHolder  BY DEF IInv
<1> QED BY <1>1, Invariance, PTL

\* While listen() runs normally, no accepted connection is dropped before it
\* has been shut down both ways.
THEOREM AcceptedIsNeverLost == Spec => []AcceptedIsKept
<1>1. IInv => AcceptedIsKept  BY DEF IInv
<1> QED BY <1>1, Invariance, PTL

\* A descriptor is released only after the shutdown of its connection, and
\* by the worker that holds it.
THEOREM ReleaseFollowsShutdown == Spec => ReleasedByHolder
<1> DEFINE Release ==
      \A f \in Fd :
         fdTable[f] \in Conn /\ fdTable'[f] # fdTable[f] =>
            /\ Ended(fdTable[f])
            /\ fdTable'[f] = NoConn
            /\ \E w \in Busy : task[w].fd = f /\ wpc'[w] = "idle"
<1>1. ASSUME IInv, [Next]_vars PROVE [Release]_vars
  <2> SUFFICES ASSUME NEW f \in Fd, fdTable[f] \in Conn, fdTable'[f] # fdTable[f]
               PROVE  /\ Ended(fdTable[f])
                      /\ fdTable'[f] = NoConn
                      /\ \E w \in Busy : task[w].fd = f /\ wpc'[w] = "idle"
    OBVIOUS
  <2>1. fdTable \in [Fd -> Conn \cup {NoConn, ListenSock}] /\ fdTable' # fdTable
    BY <1>1 DEF IInv, TypeOK
  <2>2. ASSUME NEW c \in Conn, AcceptClient(c) PROVE FALSE
    <3>1. PICK g \in FreeFds : fdTable' = [fdTable EXCEPT ![g] = c]
      BY <2>2 DEF AcceptClient
    <3>2. g # f
      BY ConnAssumption DEF FreeFds
    <3> QED BY <2>1, <3>1, <3>2
  <2>3. CASE CloseListenFd
    <3>1. f # ListenFd
      BY <1>1 DEF IInv, Custody
    <3> QED BY <2>1, <2>3, <3>1 DEF CloseListenFd
  <2>4. ASSUME NEW w \in Worker, CloseClient(w)
        PROVE  /\ Ended(fdTable[f])
               /\ fdTable'[f] = NoConn
               /\ \E v \in Busy : task[v].fd = f /\ wpc'[v] = "idle"
    <3>1. /\ wpc[w] = "close_client" /\ w \in Busy /\ wpc'[w] = "idle"
          /\ fdTable' = [fdTable EXCEPT ![task[w].fd] = NoConn]
      BY <1>1, <2>4 DEF CloseClient, WGoto, Busy, IInv, TypeOK
    <3>2. f = task[w].fd
      BY <2>1, <3>1
    <3>3. fdTable[f] = task[w].conn /\ Ended(task[w].conn)
      BY <1>1, <3>1, <3>2 DEF IInv, NoStaleDescriptor, Control, Busy
    <3> QED BY <2>1, <3>1, <3>2, <3>3
  <2>5. \/ \E c \in Conn : AcceptClient(c)
        \/ CloseListenFd
        \/ \E w \in Worker : CloseClient(w)
    BY <1>1, <2>1
       DEF Next, ListenerStep, WorkerStep, CloserStep, vars, kernel, Connect,
           ClientAbort, CheckOpen, Select, AcceptEMFILE, AcceptThrows, AcceptFails,
           Dispatch, Interrupt, TakeTask, HandleReturns, HandleThrows, CloseReader,
           CloseWriter, ShutdownClient, StopWorker, JoinWorkers, MarkClosed,
           ShutdownListener, ShutdownListenerFails
  <2> QED BY <2>2, <2>3, <2>4, <2>5
<1>2. IInv /\ [Next]_vars => [Release]_vars
  BY <1>1
<1> QED BY <1>2, Invariance, PTL DEF Spec, ReleasedByHolder

-----------------------------------------------------------------------------
(* The server implements ConnectionService.                                *)

\* Only what has been accepted is shut down.
ShutIsAccepted == shutRd \subseteq accepted /\ shutWr \subseteq accepted

LEMMA StepShut == IInv /\ ShutIsAccepted /\ [Next]_vars => ShutIsAccepted'
<1> SUFFICES ASSUME IInv, ShutIsAccepted, [Next]_vars PROVE ShutIsAccepted'
  OBVIOUS
<1>1. ASSUME NEW w \in Worker, CloseReader(w) \/ CloseWriter(w) \/ ShutdownClient(w)
      PROVE  ShutIsAccepted'
  <2>1. w \in Busy
    BY <1>1 DEF CloseReader, CloseWriter, ShutdownClient, WGoto, Busy
  <2>2. At(task[w].fd) \subseteq accepted
    BY <2>1, AtTask DEF IInv, Custody
  <2> QED BY <1>1, <2>2 DEF CloseReader, CloseWriter, ShutdownClient, ShutIsAccepted
<1>2. CASE \E c \in Conn : AcceptClient(c)
  BY <1>2 DEF AcceptClient, ShutIsAccepted
<1>3. CASE UNCHANGED <<accepted, shutRd, shutWr>>
  BY <1>3 DEF ShutIsAccepted
<1>4. \/ UNCHANGED <<accepted, shutRd, shutWr>>
      \/ \E c \in Conn : AcceptClient(c)
      \/ \E w \in Worker : CloseReader(w) \/ CloseWriter(w) \/ ShutdownClient(w)
  BY DEF Next, ListenerStep, WorkerStep, CloserStep, vars, kernel, Connect,
         ClientAbort, CheckOpen, Select, AcceptEMFILE, AcceptThrows, AcceptFails,
         Dispatch, Interrupt, TakeTask, HandleReturns, HandleThrows, CloseClient,
         StopWorker, JoinWorkers, MarkClosed, ShutdownListener,
         ShutdownListenerFails, CloseListenFd
<1> QED BY <1>1, <1>2, <1>3, <1>4

Begun(c) == \E w \in Busy : task[w].conn = c

LEMMA NothingMoves ==
    ASSUME \A d \in Conn : Phase(d)' = Phase(d)
    PROVE  UNCHANGED [c \in Conn |-> Phase(c)]
  OBVIOUS

LEMMA OneMoves ==
    ASSUME NEW c \in Conn, NEW from, NEW to, Phase(c) = from, Phase(c)' = to,
           \A d \in Conn \ {c} : Phase(d)' = Phase(d)
    PROVE  Service!Move(c, from, to)
  BY DEF Service!Move

\* A step that changes neither the queues of the kernel, nor the shutdowns,
\* nor who is being served is not seen from outside.
LEMMA SamePhases ==
    ASSUME UNCHANGED <<backlog, arrived, accepted, shutRd, shutWr>>,
           \A d \in Conn : Begun(d)' = Begun(d)
    PROVE  UNCHANGED [c \in Conn |-> Phase(c)]
<1>1. ASSUME NEW d \in Conn PROVE Phase(d)' = Phase(d)
  BY DEF Phase, Ended, Begun
<1> QED BY <1>1, NothingMoves

\* The one place where an accepted connection begins to be served: a worker
\* that was idle takes it, and so fewer are served than there are workers.
LEMMA IdleLeavesRoom ==
    ASSUME IInv, NEW w \in Worker, wpc[w] = "idle"
    PROVE  Cardinality({c \in Conn : Phase(c) = "serving"}) < Cardinality(Worker)
<1> DEFINE others  == Worker \ {w}
           serving == {c \in Conn : Phase(c) = "serving"}
           conns   == {task[v].conn : v \in others}
<1>1. IsFiniteSet(Worker) /\ IsFiniteSet(others)
      /\ Cardinality(others) = Cardinality(Worker) - 1
      /\ Cardinality(Worker) \in Nat
  BY WorkerAssumption, FS_RemoveElement, FS_CardinalityType
<1>2. IsFiniteSet(conns) /\ Cardinality(conns) <= Cardinality(others)
      /\ Cardinality(conns) \in Nat
  <2> HIDE DEF others
  <2> DEFINE f == [v \in others |-> task[v].conn]
  <2>1. f \in Surjection(others, conns)
    BY DEF Surjection
  <2> QED BY <1>1, <2>1, FS_Surjection, FS_CardinalityType
<1>3. serving \subseteq conns
  BY DEF Phase, Busy
<1>4. Cardinality(serving) <= Cardinality(conns) /\ Cardinality(serving) \in Nat
  BY <1>2, <1>3, FS_Subset, FS_CardinalityType
<1> QED BY <1>1, <1>2, <1>4, FS_CardinalityType

\* A worker that is done with a system call leaves its own connection ended
\* or as it was, and does not touch the others.
LEMMA StepWorker ==
    ASSUME IInv, IInv', ShutIsAccepted, NEW w \in Worker, WorkerStep(w)
    PROVE  Service!Next \/ UNCHANGED [c \in Conn |-> Phase(c)]
<1>0. wpc \in [Worker -> WStates] /\ task \in [Worker -> Clients \cup {NoClient}]
  BY DEF IInv, TypeOK
<1>1. CASE HandleReturns(w) \/ HandleThrows(w)
  <2>1. Busy' = Busy /\ UNCHANGED <<task, backlog, arrived, accepted, shutRd, shutWr>>
    BY <1>0, <1>1 DEF HandleReturns, HandleThrows, WGoto, Busy, kernel
  <2> QED BY <2>1, SamePhases DEF Begun
<1>2. CASE TakeTask(w)
  <2>1. /\ tasks # <<>> /\ tasks \in Seq(Clients)
        /\ wpc[w] = "idle" /\ wpc' = [wpc EXCEPT ![w] = "handle"]
        /\ task' = [task EXCEPT ![w] = Head(tasks)]
        /\ UNCHANGED <<backlog, arrived, accepted, shutRd, shutWr>>
    BY <1>2 DEF TakeTask, WGoto, kernel, IInv, TypeOK
  <2> PICK c \in Conn : c = Head(tasks).conn
    BY <2>1, QueueTail, ClientFacts
  <2>2. /\ Head(tasks) = tasks[1] /\ 1 \in 1 .. Len(tasks)
        /\ c \in Conn /\ c \in accepted
    BY <2>1, QueueTail, ClientFacts DEF IInv, Custody
  <2>3. c \in arrived /\ c \notin backlog
    BY <2>2 DEF IInv, Custody
  <2>4. Busy' = Busy \cup {w} /\ w \notin Busy
    BY <1>0, <2>1 DEF Busy
  <2>5. ~Begun(c) /\ Begun(c)' /\ \A d \in Conn \ {c} : Begun(d)' = Begun(d)
    <3>1. ~Begun(c)
      BY <2>2 DEF Begun, IInv, SingleHolder
    <3>2. task'[w] = Head(tasks) /\ \A v \in Busy : task'[v] = task[v]
      BY <1>0, <2>1, <2>4 DEF Busy
    <3> QED BY <2>4, <3>1, <3>2 DEF Begun
  <2>6. \A d \in Conn \ {c} : Phase(d)' = Phase(d)
    BY <2>1, <2>5 DEF Phase, Ended, Begun
  <2>7. CASE Ended(c)
    <3>1. Phase(c)' = Phase(c)
      BY <2>1, <2>2, <2>3, <2>7 DEF Phase, Ended
    <3> QED BY <2>6, <3>1, NothingMoves
  <2>8. CASE ~Ended(c)
    <3>1. Phase(c) = "accepted" /\ Phase(c)' = "serving"
      BY <2>1, <2>2, <2>3, <2>5, <2>8 DEF Phase, Ended, Begun
    <3>2. Service!Move(c, "accepted", "serving")
      BY <2>2, <2>6, <3>1, OneMoves
    <3>3. Cardinality(Service!Serving) < Cardinality(Worker)
      <4>1. Service!Serving = {d \in Conn : Phase(d) = "serving"}
        BY DEF Service!Serving
      <4> QED BY <2>1, <4>1, IdleLeavesRoom
    <3>4. Service!Cardinality(Service!Serving) = Cardinality(Service!Serving)
      BY DEF Service!Cardinality, Cardinality
    <3>5. Service!Serve(c)
      BY <3>2, <3>3, <3>4 DEF Service!Serve
    <3> QED BY <3>5 DEF Service!Next
  <2> QED BY <2>7, <2>8
<1>3. CASE CloseReader(w) \/ CloseWriter(w) \/ ShutdownClient(w)
  <2>1. w \in Busy
    BY <1>3 DEF CloseReader, CloseWriter, ShutdownClient, WGoto, Busy
  <2> PICK k \in Conn : k = task[w].conn
    BY <2>1, AtTask
  <2>2. /\ k \in Conn /\ At(task[w].fd) = {k}
        /\ k \in accepted /\ k \in arrived /\ k \notin backlog
    BY <2>1, AtTask DEF IInv, Custody
  <2>3. /\ UNCHANGED <<backlog, arrived, accepted>>
        /\ shutRd \subseteq shutRd' /\ shutRd' \subseteq shutRd \cup {k}
        /\ shutWr \subseteq shutWr' /\ shutWr' \subseteq shutWr \cup {k}
    BY <1>3, <2>2 DEF CloseReader, CloseWriter, ShutdownClient
  <2>4. \A v \in Busy \ {w} : task[v].conn # k
    BY <2>1 DEF IInv, SingleHolder
  <2>5. \A d \in Conn \ {k} : Begun(d)' = Begun(d)
    <3>1. CASE CloseReader(w) \/ ShutdownClient(w)
      BY <1>0, <3>1 DEF CloseReader, ShutdownClient, WGoto, Busy, Begun
    <3>2. CASE CloseWriter(w)
      <4>1. Busy' = Busy \ {w} /\ \A v \in Busy' : task'[v] = task[v]
        BY <1>0, <2>1, <3>2 DEF CloseWriter, WGoto, Busy
      <4> QED BY <2>1, <4>1 DEF Begun
    <3> QED BY <1>3, <3>1, <3>2
  <2>6. \A d \in Conn \ {k} : Phase(d)' = Phase(d)
    BY <2>3, <2>5 DEF Phase, Ended, Begun
  <2>7. Begun(k)
    BY <2>1 DEF Begun
  <2>8. Begun(k)' \/ Ended(k)'
    <3>1. CASE CloseReader(w) \/ ShutdownClient(w)
      BY <1>0, <2>1, <3>1 DEF CloseReader, ShutdownClient, WGoto, Busy, Begun
    <3>2. CASE CloseWriter(w)
      BY <2>2, <3>2 DEF CloseWriter, WGoto, IInv, Control, Ended
    <3> QED BY <1>3, <3>1, <3>2
  <2>9. Phase(k) \in {"serving", "ended"} /\ Phase(k)' \in {"serving", "ended"}
    BY <2>2, <2>3, <2>7, <2>8 DEF Phase, Begun
  <2>10. Phase(k) = "ended" => Phase(k)' = "ended"
    BY <2>2, <2>3, <2>9 DEF Phase, Ended
  <2>11. CASE Phase(k)' = Phase(k)
    BY <2>6, <2>11, NothingMoves
  <2>12. CASE Phase(k) = "serving" /\ Phase(k)' = "ended"
    <3>1. Service!Move(k, "serving", "ended")
      BY <2>2, <2>6, <2>12, OneMoves
    <3> QED BY <2>2, <3>1 DEF Service!Next, Service!Finish
  <2> QED BY <2>9, <2>10, <2>11, <2>12
<1>4. CASE CloseClient(w)
  <2>0. w \in Busy
    BY <1>4 DEF CloseClient, WGoto, Busy
  <2> PICK k \in Conn : k = task[w].conn
    BY <2>0, AtTask
  <2>1. w \in Busy /\ Ended(k) /\ k \in accepted /\ k \in arrived /\ k \notin backlog
    BY <1>4 DEF CloseClient, WGoto, Busy, IInv, Control, Custody
  <2>2. UNCHANGED <<backlog, arrived, accepted, shutRd, shutWr>>
    BY <1>4 DEF CloseClient
  <2>3. Busy' = Busy \ {w} /\ \A v \in Busy' : task'[v] = task[v]
    BY <1>0, <1>4, <2>1 DEF CloseClient, WGoto, Busy
  <2>4. \A d \in Conn \ {k} : Begun(d)' = Begun(d)
    BY <2>1, <2>3 DEF Begun
  <2>5. ASSUME NEW d \in Conn PROVE Phase(d)' = Phase(d)
    <3>1. CASE d = k
      BY <2>1, <2>2, <3>1 DEF Phase, Ended
    <3>2. CASE d # k
      BY <2>2, <2>4, <3>2 DEF Phase, Ended, Begun
    <3> QED BY <3>1, <3>2
  <2> QED BY <2>5, NothingMoves
<1> QED BY <1>1, <1>2, <1>3, <1>4 DEF WorkerStep

\* Connections leave the backlog unaccepted.
LEMMA StepRefuse ==
    ASSUME IInv, NEW S \in SUBSET Conn, S \subseteq backlog, backlog' = backlog \ S,
           UNCHANGED <<arrived, accepted, shutRd, shutWr, wpc, task>>
    PROVE  Service!Next \/ UNCHANGED [c \in Conn |-> Phase(c)]
<1>1. ASSUME NEW d \in Conn \ S PROVE Phase(d)' = Phase(d)
  BY DEF Phase, Ended, Busy
<1>2. ASSUME NEW d \in S PROVE Phase(d) = "waiting" /\ Phase(d)' = "refused"
  BY DEF Phase, IInv, Custody
<1>3. CASE S = {}
  BY <1>1, <1>3, NothingMoves
<1>4. CASE S # {}
  <2>1. [c \in Conn |-> Phase(c)]' =
           [c \in Conn |-> IF c \in S THEN "refused" ELSE [b \in Conn |-> Phase(b)][c]]
    BY <1>1, <1>2
  <2>2. Service!Refuse(S)
    BY <1>2, <1>4, <2>1 DEF Service!Refuse
  <2> QED BY <2>2 DEF Service!Next
<1> QED BY <1>3, <1>4

LEMMA StepService ==
    ASSUME IInv, IInv', ShutIsAccepted, [Next]_vars
    PROVE  Service!Next \/ UNCHANGED [c \in Conn |-> Phase(c)]
<1>1. ASSUME NEW c \in Conn, Connect(c)
      PROVE  Service!Next
  <2>1. c \notin arrived /\ arrived' = arrived \cup {c} /\ backlog' = backlog \cup {c}
        /\ UNCHANGED <<accepted, shutRd, shutWr, wpc, task>>
    BY <1>1 DEF Connect, pool
  <2>2. Phase(c) = "outside" /\ Phase(c)' = "waiting"
    BY <2>1 DEF Phase
  <2>3. \A d \in Conn \ {c} : Phase(d)' = Phase(d)
    BY <2>1 DEF Phase, Ended, Busy
  <2>4. Service!Arrive(c)
    BY <2>2, <2>3, OneMoves DEF Service!Arrive
  <2> QED BY <2>4 DEF Service!Next
<1>2. ASSUME NEW c \in Conn, AcceptClient(c)
      PROVE  Service!Next
  <2>1. c \in backlog /\ backlog' = backlog \ {c} /\ accepted' = accepted \cup {c}
        /\ UNCHANGED <<arrived, shutRd, shutWr, wpc, task>>
    BY <1>2 DEF AcceptClient, pool
  <2>2. c \in arrived /\ c \notin accepted /\ ~Ended(c) /\ ~Begun(c)
    BY <2>1 DEF IInv, Custody, ShutIsAccepted, Ended, Begun
  <2>3. Phase(c) = "waiting" /\ Phase(c)' = "accepted"
    BY <2>1, <2>2 DEF Phase, Ended, Begun, Busy
  <2>4. \A d \in Conn \ {c} : Phase(d)' = Phase(d)
    BY <2>1 DEF Phase, Ended, Busy
  <2>5. Service!Accept(c)
    BY <2>3, <2>4, OneMoves DEF Service!Accept
  <2> QED BY <2>5 DEF Service!Next
<1>3. ASSUME NEW c \in Conn, ClientAbort(c)
      PROVE  Service!Next \/ UNCHANGED [d \in Conn |-> Phase(d)]
  <2>1. {c} \in SUBSET Conn /\ {c} \subseteq backlog /\ backlog' = backlog \ {c}
        /\ UNCHANGED <<arrived, accepted, shutRd, shutWr, wpc, task>>
    BY <1>3 DEF ClientAbort, pool
  <2> QED BY <2>1, StepRefuse
<1>4. CASE ShutdownListener
  <2>1. /\ backlog \in SUBSET Conn /\ backlog' = backlog \ backlog
        /\ UNCHANGED <<arrived, accepted, shutRd, shutWr, wpc, task>>
    BY <1>4 DEF ShutdownListener, pool, IInv, TypeOK
  <2> QED BY <2>1, StepRefuse
<1>5. CASE \E w \in Worker : WorkerStep(w)
  BY <1>5, StepWorker
<1>6. CASE UNCHANGED <<backlog, arrived, accepted, shutRd, shutWr, wpc, task>>
  BY <1>6, SamePhases DEF Begun, Busy
<1>7. \/ \E c \in Conn : Connect(c) \/ ClientAbort(c) \/ AcceptClient(c)
      \/ ShutdownListener
      \/ \E w \in Worker : WorkerStep(w)
      \/ UNCHANGED <<backlog, arrived, accepted, shutRd, shutWr, wpc, task>>
  BY DEF Next, ListenerStep, CloserStep, vars, kernel, pool, CheckOpen, Select,
         AcceptEMFILE, AcceptThrows, AcceptFails, Dispatch, Interrupt, StopWorker,
         JoinWorkers, MarkClosed, ShutdownListenerFails, CloseListenFd
<1> QED BY <1>1, <1>2, <1>3, <1>4, <1>5, <1>6, <1>7

\* For any number of connections, workers and descriptors the threads give
\* each connection the service ConnectionService promises: at most once, by
\* one worker, and shut down both ways at the end.
THEOREM ServiceImplemented == Spec => ImplementsService
<1>1. Init => Service!Init
  BY DEF Init, Service!Init, Phase
<1>2. Init => ShutIsAccepted
  BY DEF Init, ShutIsAccepted
<1>3. Spec => []ShutIsAccepted
  BY <1>2, StepShut, Invariance, PTL DEF Spec
<1>4. IInv /\ IInv' /\ ShutIsAccepted /\ [Next]_vars
         => [Service!Next]_([c \in Conn |-> Phase(c)])
  BY StepService
<1>5. Spec => [][Service!Next]_([c \in Conn |-> Phase(c)])
  BY <1>3, <1>4, Invariance, PTL DEF Spec
<1> QED BY <1>1, <1>5, PTL DEF Spec, ImplementsService, Service!Spec
=============================================================================
