------------------------- MODULE ServerSocketProofs -------------------------
(***************************************************************************)
(* The safety of ServerSocket for any number of calls and attempts.  The   *)
(* two properties are about descriptors that close() has closed or missed; *)
(* what makes them inductive is what holds of the sockets it has not       *)
(* marked, and that the socket bind() works on is such a one.              *)
(***************************************************************************)
EXTENDS ServerSocket, SequenceTheorems, TLAPS

\* A descriptor is closed under the mark only, and once.
Released(s) ==
    /\ ~s.closed => s.closes = 0
    /\ s.closes \in {0, 1}

IInv ==
    /\ TypeOK
    /\ \A i \in 1 .. Len(socks) : Released(socks[i])
    /\ pc = "options" => ~socks[socket].closed

LEMMA InitInv == Init => IInv
  BY RetriesAssumption
  DEF Init, IInv, TypeOK, PCs, Results

LEMMA NewSocketIsReleased == NewSocket \in Socket /\ Released(NewSocket) /\ ~NewSocket.closed
  BY DEF NewSocket, Socket, Released

LEMMA ShutIsReleased ==
    ASSUME NEW s \in Socket, Released(s), ~s.closed
    PROVE  Shut(s) \in Socket /\ Released(Shut(s))
<1> DEFINE closes == s.closes + 1
<1> DEFINE r == [s EXCEPT !.closed = TRUE, !.state = "shut", !.closes = closes]
<1>1. closes = 1
  BY DEF Socket, Released
<1>2. r \in Socket /\ Released(r)
  <2>1. closes \in Nat
    BY <1>1
  <2> HIDE DEF closes
  <2>2. r \in Socket
    BY <2>1 DEF Socket
  <2>3. r.closed = TRUE /\ r.closes = 1
    BY <1>1 DEF Socket
  <2> QED BY <2>2, <2>3 DEF Released
<1>3. Shut(s) = r
  BY DEF Shut, Socket
<1> QED BY <1>2, <1>3

\* One socket replaced by another of which the same can be said.
LEMMA Replaced ==
    ASSUME IInv, socket # 0, NEW s \in Socket, Released(s),
           socks' = [socks EXCEPT ![socket] = s]
    PROVE  /\ socks' \in Seq(Socket) /\ Len(socks') = Len(socks)
           /\ \A i \in 1 .. Len(socks') : Released(socks'[i])
<1>1. socket \in 1 .. Len(socks) /\ socks \in Seq(Socket)
  BY DEF IInv, TypeOK
<1>2. socks' \in Seq(Socket) /\ Len(socks') = Len(socks)
  BY <1>1, ExceptSeq
<1>3. ASSUME NEW i \in 1 .. Len(socks')
      PROVE  Released(socks'[i])
  <2>1. i \in 1 .. Len(socks) /\ (socks'[i] = s \/ socks'[i] = socks[i])
    BY <1>1, <1>2, <1>3, ExceptSeq
  <2>2. Released(socks[i])
    BY <2>1 DEF IInv
  <2> QED BY <2>1, <2>2
<1> QED BY <1>2, <1>3

-----------------------------------------------------------------------------
(* The steps.                                                              *)

LEMMA StepCreate == IInv /\ Create => IInv'
<1> SUFFICES ASSUME IInv, Create PROVE IInv'
  OBVIOUS
<1>1. /\ socks \in Seq(Socket)
      /\ socks' = Append(socks, NewSocket) /\ socket' = Len(socks')
      /\ pc' = "options" /\ tries' = tries + 1 /\ tries < RetriesCount
      /\ UNCHANGED <<address, file, result, calls>>
  BY DEF Create, Attempt, IInv, TypeOK
<1>2. /\ socks' \in Seq(Socket) /\ Len(socks') = Len(socks) + 1
      /\ socks'[Len(socks) + 1] = NewSocket
      /\ \A i \in 1 .. Len(socks) : socks'[i] = socks[i]
  BY <1>1, NewSocketIsReleased, AppendProperties
<1>3. TypeOK'
  BY <1>1, <1>2, RetriesAssumption, LenProperties DEF IInv, TypeOK, PCs, Results
<1>4. ASSUME NEW i \in 1 .. Len(socks')
      PROVE  Released(socks'[i])
  <2>1. CASE i = Len(socks) + 1
    BY <1>2, <2>1, NewSocketIsReleased
  <2>2. CASE i # Len(socks) + 1
    <3>1. i \in 1 .. Len(socks)
      BY <1>1, <1>2, <2>2, LenProperties
    <3> QED BY <1>2, <3>1 DEF IInv
  <2> QED BY <2>1, <2>2
<1>5. ~socks'[socket'].closed
  BY <1>1, <1>2, NewSocketIsReleased
<1> QED BY <1>3, <1>4, <1>5 DEF IInv

\* The steps of bind() that leave the sockets alone.
LEMMA StepBindOnly ==
    IInv /\ (CreateCrashes \/ CreateFails \/ Sleep \/ GiveUp \/ OptionsFail
             \/ BindInUse \/ BindReturns) => IInv'
  BY RetriesAssumption
  DEF IInv, TypeOK, CreateCrashes, CreateFails, Sleep, GiveUp, OptionsFail,
      BindInUse, BindReturns, Attempt, Crash, Ends, PCs, Results

LEMMA StepBind == IInv /\ Bind => IInv'
<1> SUFFICES ASSUME IInv, Bind PROVE IInv'
  OBVIOUS
<1> DEFINE s == [socks[socket] EXCEPT !.state = "bound"]
<1>1. /\ pc = "options" /\ socket # 0 /\ pc' = "name" /\ file' \in BOOLEAN
      /\ UNCHANGED <<address, tries, socket, result, calls>>
  BY DEF Bind, IInv, TypeOK
<1>2. socks[socket] \in Socket /\ Released(socks[socket]) /\ ~socks[socket].closed
  BY <1>1 DEF IInv, TypeOK
<1>3. s \in Socket /\ Released(s)
  BY <1>2 DEF Socket, Released
<1>4. socks' = [socks EXCEPT ![socket] = s]
  BY DEF Bind
<1>5. /\ socks' \in Seq(Socket) /\ Len(socks') = Len(socks)
      /\ \A i \in 1 .. Len(socks') : Released(socks'[i])
  BY <1>1, <1>3, <1>4, Replaced
<1> QED BY <1>1, <1>5 DEF IInv, TypeOK, PCs, Results

LEMMA StepNull == IInv /\ (ListenOnNull \/ CloseOnNull \/ \E a \in Addresses : CallBind(a)) => IInv'
  BY RetriesAssumption
  DEF IInv, TypeOK, ListenOnNull, CloseOnNull, CallBind, Call, Crash, Ends, PCs, Results

LEMMA StepListen == IInv /\ Listen => IInv'
<1> SUFFICES ASSUME IInv, Listen PROVE IInv'
  OBVIOUS
<1> DEFINE s == [socks[socket] EXCEPT !.state = "listening"]
<1>1. /\ pc' = "idle" /\ socket # 0 /\ calls' \in Nat /\ result' \in Results
      /\ UNCHANGED <<address, tries, socket, file>>
  BY DEF Listen, Call, Ends, IInv, TypeOK, Results
<1>2. CASE UNCHANGED socks
  BY <1>1, <1>2 DEF IInv, TypeOK, PCs
<1>3. CASE CanListen(socks[socket]) /\ socks' = [socks EXCEPT ![socket].state = "listening"]
  <2>1. socks[socket] \in Socket /\ Released(socks[socket])
    BY <1>1 DEF IInv, TypeOK
  <2>2. s \in Socket /\ Released(s)
    BY <1>3, <2>1 DEF Socket, Released, CanListen
  <2>3. socks' = [socks EXCEPT ![socket] = s]
    BY <1>3
  <2>4. /\ socks' \in Seq(Socket) /\ Len(socks') = Len(socks)
        /\ \A i \in 1 .. Len(socks') : Released(socks'[i])
    BY <1>1, <2>2, <2>3, Replaced
  <2> QED BY <1>1, <2>4 DEF IInv, TypeOK, PCs
<1> QED BY <1>2, <1>3 DEF Listen

LEMMA StepClose == IInv /\ Close => IInv'
<1> SUFFICES ASSUME IInv, Close PROVE IInv'
  OBVIOUS
<1> DEFINE s == Shut(socks[socket])
<1>1. /\ pc' = "idle" /\ socket # 0 /\ calls' \in Nat /\ result' \in Results
      /\ file' \in BOOLEAN
      /\ UNCHANGED <<address, tries, socket>>
  <2>1. /\ RemoveFile(socks[socket]) /\ socket # 0 /\ calls' = calls + 1
        /\ UNCHANGED <<address, tries, socket>>
    BY DEF Close, Call
  <2>2. file \in BOOLEAN /\ calls \in Nat
    BY DEF IInv, TypeOK
  <2>3. /\ pc' = "idle" /\ result' \in {"closed", "FileError"}
        /\ file' \in BOOLEAN
    <3>1. CASE ~socks[socket].unix
      BY <2>1, <2>2, <3>1 DEF RemoveFile, Ends
    <3>2. CASE socks[socket].unix
      BY <2>1, <2>2, <3>2 DEF RemoveFile, Ends
    <3> QED BY <3>1, <3>2
  <2> QED BY <2>1, <2>2, <2>3 DEF Results
<1>2. CASE UNCHANGED socks
  BY <1>1, <1>2 DEF IInv, TypeOK, PCs
<1>3. CASE ~socks[socket].closed /\ socks' = [socks EXCEPT ![socket] = Shut(@)]
  <2>1. socks[socket] \in Socket /\ Released(socks[socket])
    BY <1>1 DEF IInv, TypeOK
  <2>2. s \in Socket /\ Released(s)
    BY <1>3, <2>1, ShutIsReleased
  <2>3. socks' = [socks EXCEPT ![socket] = s]
    BY <1>3
  <2>4. /\ socks' \in Seq(Socket) /\ Len(socks') = Len(socks)
        /\ \A i \in 1 .. Len(socks') : Released(socks'[i])
    BY <1>1, <2>2, <2>3, Replaced
  <2> QED BY <1>1, <2>4 DEF IInv, TypeOK, PCs
<1> QED BY <1>2, <1>3 DEF Close

LEMMA StepCloseFails == IInv /\ CloseFails => IInv'
<1> SUFFICES ASSUME IInv, CloseFails PROVE IInv'
  OBVIOUS
<1> DEFINE s == [socks[socket] EXCEPT !.closed = TRUE]
<1>1. /\ pc' = "idle" /\ socket # 0 /\ calls' \in Nat /\ result' \in Results
      /\ ~socks[socket].closed
      /\ UNCHANGED <<address, tries, socket, file>>
  BY DEF CloseFails, Call, Ends, IInv, TypeOK, Results
<1>2. socks[socket] \in Socket /\ Released(socks[socket])
  BY <1>1 DEF IInv, TypeOK
<1>3. s \in Socket /\ Released(s)
  BY <1>1, <1>2 DEF Socket, Released
<1>4. socks' = [socks EXCEPT ![socket] = s]
  <2>1. socks' = [socks EXCEPT ![socket].closed = TRUE]
    BY DEF CloseFails
  <2> QED BY <1>1, <1>2, <2>1 DEF IInv, TypeOK
<1>5. /\ socks' \in Seq(Socket) /\ Len(socks') = Len(socks)
      /\ \A i \in 1 .. Len(socks') : Released(socks'[i])
  BY <1>1, <1>3, <1>4, Replaced
<1> QED BY <1>1, <1>5 DEF IInv, TypeOK, PCs

LEMMA StepInv == IInv /\ [Next]_vars => IInv'
<1> SUFFICES ASSUME IInv, [Next]_vars PROVE IInv'
  OBVIOUS
<1>1. CASE BindStep
  BY <1>1, StepCreate, StepBindOnly, StepBind DEF BindStep
<1>2. CASE ListenOnNull \/ CloseOnNull \/ \E a \in Addresses : CallBind(a)
  BY <1>2, StepNull
<1>3. CASE Listen \/ Close \/ CloseFails
  BY <1>3, StepListen, StepClose, StepCloseFails
<1>4. CASE UNCHANGED vars
  BY <1>4 DEF vars, IInv, TypeOK, Released, PCs, Results
<1> QED BY <1>1, <1>2, <1>3, <1>4 DEF Next

-----------------------------------------------------------------------------
(* The theorems.                                                           *)

LEMMA Invariance == Spec => []IInv
  BY InitInv, StepInv, PTL DEF Spec

\* The variables of the listening socket keep their types, and no more than
\* RetriesCount attempts are made, for any number of calls.
THEOREM TypeCorrect == Spec => []TypeOK
<1>1. IInv => TypeOK
  BY DEF IInv
<1> QED BY <1>1, Invariance, PTL

\* No order of bind(), listen() and close() and no failure closes a
\* descriptor twice.
THEOREM DescriptorsAreClosedOnce == Spec => []ClosedOnce
<1>1. IInv => ClosedOnce
  BY DEF IInv, TypeOK, Socket, Released, ClosedOnce
<1> QED BY <1>1, Invariance, PTL

\* No later call closes a descriptor that close() has missed, because its
\* shutdown() failed, or that a further bind() has left behind.
THEOREM LostIsLost == Spec => LeaksAreForever
<1>1. ASSUME IInv, [Next]_vars, NEW i \in 1 .. Len(socks), Lost(i)
      PROVE  Lost(i)'
  <2>1. /\ socks \in Seq(Socket) /\ Len(socks) \in Nat /\ socket \in 0 .. Len(socks)
        /\ socks[i].closes = 0 /\ (i # socket \/ socks[i].closed)
    BY <1>1 DEF IInv, TypeOK, Lost
  <2>2. CASE UNCHANGED <<socks, socket>>
    BY <2>1, <2>2 DEF Lost
  <2>3. CASE Create
    <3>1. socks' = Append(socks, NewSocket) /\ socket' = Len(socks')
      BY <2>3 DEF Create
    <3>2. socks'[i] = socks[i] /\ Len(socks') = Len(socks) + 1
      BY <2>1, <3>1, AppendProperties, NewSocketIsReleased
    <3> QED BY <2>1, <3>1, <3>2 DEF Lost
  <2>4. CASE GiveUp
    BY <2>1, <2>4 DEF GiveUp, Lost
  <2>5. CASE Bind \/ Listen \/ CloseFails
    <3>1. /\ socket' = socket
          /\ \/ socks' = socks
             \/ socks' = [socks EXCEPT ![socket].state = "bound"]
             \/ socks' = [socks EXCEPT ![socket].state = "listening"]
             \/ socks' = [socks EXCEPT ![socket].closed = TRUE]
      BY <2>5 DEF Bind, Listen, CloseFails
    <3>2. /\ socks'[i].closes = socks[i].closes
          /\ socks[i].closed => socks'[i].closed
      <4>1. socks[i] \in Socket
        BY <1>1, <2>1
      <4>2. CASE socks' = socks \/ i # socket
        BY <2>1, <3>1, <4>2
      <4>3. CASE i = socket /\ socks' # socks
        <5>1. socks'[i] \in {[socks[i] EXCEPT !.state = "bound"],
                             [socks[i] EXCEPT !.state = "listening"],
                             [socks[i] EXCEPT !.closed = TRUE]}
          BY <2>1, <3>1, <4>3
        <5> QED BY <4>1, <5>1 DEF Socket
      <4> QED BY <4>2, <4>3
    <3> QED BY <2>1, <3>1, <3>2 DEF Lost
  <2>6. CASE Close
    <3>1. /\ socket' = socket
          /\ \/ socks' = socks
             \/ ~socks[socket].closed /\ socks' = [socks EXCEPT ![socket] = Shut(@)]
      BY <2>6 DEF Close
    <3>2. socks'[i] = socks[i]
      BY <2>1, <3>1
    <3> QED BY <2>1, <3>1, <3>2 DEF Lost
  <2>7. CASE \/ CreateCrashes \/ CreateFails \/ Sleep \/ OptionsFail \/ BindInUse \/ BindReturns
             \/ ListenOnNull \/ CloseOnNull \/ \E a \in Addresses : CallBind(a)
    BY <2>2, <2>7 DEF CreateCrashes, CreateFails, Sleep, OptionsFail, BindInUse, BindReturns,
                      ListenOnNull, CloseOnNull, CallBind
  <2>8. CASE UNCHANGED vars
    BY <2>2, <2>8 DEF vars
  <2> QED BY <1>1, <2>3, <2>4, <2>5, <2>6, <2>7, <2>8 DEF Next, BindStep
<1>2. IInv /\ [Next]_vars => [\A i \in 1 .. Len(socks) : Lost(i) => Lost(i)']_vars
  BY <1>1
<1> QED BY <1>2, Invariance, PTL DEF Spec, LeaksAreForever
=============================================================================
