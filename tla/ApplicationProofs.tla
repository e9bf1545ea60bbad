------------------------- MODULE ApplicationProofs -------------------------
(***************************************************************************)
(* The safety of Application for any number of runs and any set of         *)
(* configurations.  The properties are inductive together, once it is said *)
(* that a run has no socket before it has made one.                        *)
(***************************************************************************)
EXTENDS Application, TLAPS

NoSocketYet == \A r \in Run : pc[r] \in {"off", "bind"} => socket[r] = "none"

IInv ==
    /\ TypeOK
    /\ NoSocketYet
    /\ ListenerIsReachable
    /\ ReturnFreesThePath
    /\ CrashHasACause

LEMMA InitInv == Init => IInv
  BY ContextAssumption, RunAssumption
  DEF Init, IInv, TypeOK, PCs, ListenerIsReachable, ReturnFreesThePath, CrashHasACause,
      NoSocketYet

LEMMA DefaultsAreContexts ==
    ASSUME NEW c \in Context
    PROVE  SetDefaults(c) \in Context
  BY DEF Context, SetDefaults, SetDefault, Factory

\* Only a selector of the application's is null or not made; the stream and
\* the request handler of a task make no crash of their own.
LEMMA CrashesOfTasks ==
    ASSUME NEW c, "crash" \in HandleEvent(c)
    PROVE  c.create_selector \in {"null", "throws"}
  BY DEF HandleEvent, Stream, RequestHandler, Made

LEMMA CrashesOfSelectors ==
    ASSUME NEW factory, Made(factory) # {"made"}
    PROVE  factory \in {"null", "throws"}
  BY DEF Made

-----------------------------------------------------------------------------
(* Steps that change no more than the place of one run.                    *)

LEMMA StepGoto ==
    ASSUME IInv, NEW r \in Run, NEW from \in PCs \ {"off"}, NEW to \in PCs \ {"off"},
           Goto(r, from, to), UNCHANGED <<context, socket, file>>,
           from # "failed" \/ to = "failed",
           to \in {"listen", "select", "loop", "close"} =>
               from \in {"name", "listen", "select", "loop", "close"},
           to \notin {"bind", "name", "remove", "ended"},
           to = "crashed" => socket[r] = "none"
                             \/ context[r].create_selector \in {"null", "throws"}
    PROVE  IInv'
<1>1. TypeOK'
  BY DEF IInv, TypeOK, Goto, PCs, Context
<1>2. ListenerIsReachable'
  BY DEF IInv, TypeOK, ListenerIsReachable, Goto, PCs
<1>3. ReturnFreesThePath'
  BY DEF IInv, TypeOK, ReturnFreesThePath, Goto, PCs
<1>4. CrashHasACause'
  BY DEF IInv, TypeOK, CrashHasACause, Goto, PCs
<1>5. NoSocketYet'
  BY DEF IInv, TypeOK, NoSocketYet, Goto, PCs
<1> QED BY <1>1, <1>2, <1>3, <1>4, <1>5 DEF IInv

LEMMA StepPlaces ==
    ASSUME IInv, NEW r \in Run,
           \/ GiveUp(r) \/ BindFails(r) \/ BindReturns(r)
           \/ CreateSelector(r) \/ ListenThrows(r) \/ RemoveFails(r)
           \/ Interrupt(r) \/ Kill(r)
    PROVE  IInv'
<1>1. CASE GiveUp(r)
  <2>1. socket[r] = "none"
    BY <1>1 DEF GiveUp, Goto, IInv, NoSocketYet
  <2> QED BY <1>1, <2>1, StepGoto DEF GiveUp, PCs
<1>2. CASE BindFails(r)
  BY <1>2, StepGoto DEF BindFails, PCs
<1>3. CASE BindReturns(r)
  BY <1>3, StepGoto DEF BindReturns, PCs
<1>4. CASE CreateSelector(r)
  BY <1>4, StepGoto DEF CreateSelector, PCs
<1>5. CASE ListenThrows(r)
  BY <1>5, StepGoto DEF ListenThrows, PCs
<1>6. CASE RemoveFails(r)
  BY <1>6, StepGoto DEF RemoveFails, PCs
<1>7. CASE Interrupt(r)
  BY <1>7, StepGoto DEF Interrupt, PCs
<1>8. CASE Kill(r)
  BY <1>8, StepGoto DEF Kill, PCs
<1> QED BY <1>1, <1>2, <1>3, <1>4, <1>5, <1>6, <1>7, <1>8

LEMMA StepSelectorCrashes ==
    ASSUME IInv, NEW r \in Run, SelectorCrashes(r)
    PROVE  IInv'
<1>1. context[r].create_selector \in {"null", "throws"}
  BY CrashesOfSelectors DEF SelectorCrashes
<1> QED BY <1>1, StepGoto DEF SelectorCrashes, PCs

LEMMA StepTaskCrashes ==
    ASSUME IInv, NEW r \in Run, TaskCrashes(r)
    PROVE  IInv'
<1>1. context[r].create_selector \in {"null", "throws"}
  BY CrashesOfTasks DEF TaskCrashes
<1> QED BY <1>1, StepGoto DEF TaskCrashes, PCs

-----------------------------------------------------------------------------
(* Steps that change the context, the socket or the file.                  *)

LEMMA StepConstruct ==
    ASSUME IInv, NEW r \in Run, Construct(r)
    PROVE  IInv'
<1>1. /\ pc[r] = "off" /\ socket[r] = "none"
      /\ pc' = [pc EXCEPT ![r] = IF Valid(SetDefaults(context[r])) THEN "bind" ELSE "failed"]
      /\ context' = [context EXCEPT ![r] = SetDefaults(context[r])]
      /\ UNCHANGED <<socket, file>>
  BY DEF Construct, Goto, IInv, NoSocketYet
<1>2. SetDefaults(context[r]) \in Context
  BY DefaultsAreContexts DEF IInv, TypeOK
<1>3. TypeOK'
  BY <1>1, <1>2 DEF IInv, TypeOK, PCs
<1>4. ListenerIsReachable' /\ ReturnFreesThePath' /\ NoSocketYet'
  BY <1>1 DEF IInv, TypeOK, ListenerIsReachable, ReturnFreesThePath, NoSocketYet
<1>5. CrashHasACause'
  BY <1>1 DEF IInv, TypeOK, CrashHasACause
<1> QED BY <1>3, <1>4, <1>5 DEF IInv

LEMMA StepSockets ==
    ASSUME IInv, NEW r \in Run, CreateSocket(r) \/ Listen(r) \/ Close(r) \/ CloseFails(r)
    PROVE  IInv'
<1>1. TypeOK'
  BY DEF CreateSocket, Listen, Close, CloseFails, Goto, IInv, TypeOK, PCs
<1>2. ListenerIsReachable'
  BY DEF CreateSocket, Listen, Close, CloseFails, Goto, IInv, TypeOK, ListenerIsReachable
<1>3. ReturnFreesThePath'
  BY DEF CreateSocket, Listen, Close, CloseFails, Goto, IInv, TypeOK, ReturnFreesThePath
<1>4. CrashHasACause'
  BY DEF CreateSocket, Listen, Close, CloseFails, Goto, IInv, TypeOK, CrashHasACause
<1>5. NoSocketYet'
  BY DEF CreateSocket, Listen, Close, CloseFails, Goto, IInv, TypeOK, NoSocketYet
<1> QED BY <1>1, <1>2, <1>3, <1>4, <1>5 DEF IInv

\* The file is made where there is none, and removed by the run it belongs to.
LEMMA StepFile ==
    ASSUME IInv, NEW r \in Run, Bind(r) \/ RemoveFile(r)
    PROVE  IInv'
<1>1. TypeOK'
  BY DEF Bind, RemoveFile, Goto, IInv, TypeOK, PCs
<1>2. ListenerIsReachable'
  <2>1. CASE Bind(r)
    BY <2>1, RunAssumption DEF Bind, Goto, IInv, TypeOK, ListenerIsReachable
  <2>2. CASE RemoveFile(r)
    BY <2>2, RunAssumption DEF RemoveFile, Goto, IInv, TypeOK, ListenerIsReachable
  <2> QED BY <2>1, <2>2
<1>3. ReturnFreesThePath'
  BY RunAssumption DEF Bind, RemoveFile, Goto, IInv, TypeOK, ReturnFreesThePath
<1>4. CrashHasACause'
  BY DEF Bind, RemoveFile, Goto, IInv, TypeOK, CrashHasACause
<1>5. NoSocketYet'
  BY DEF Bind, RemoveFile, Goto, IInv, TypeOK, NoSocketYet
<1> QED BY <1>1, <1>2, <1>3, <1>4, <1>5 DEF IInv

LEMMA StepInv == IInv /\ [Next]_vars => IInv'
<1> SUFFICES ASSUME IInv, [Next]_vars PROVE IInv'
  OBVIOUS
<1>1. CASE Next
  <2> PICK r \in Run :
         \/ Construct(r)
         \/ CreateSocket(r) \/ GiveUp(r) \/ Bind(r) \/ BindFails(r) \/ BindReturns(r)
         \/ Listen(r) \/ CreateSelector(r) \/ SelectorCrashes(r) \/ ListenThrows(r)
         \/ TaskCrashes(r)
         \/ Close(r) \/ CloseFails(r) \/ RemoveFile(r) \/ RemoveFails(r)
         \/ Interrupt(r) \/ Kill(r)
    BY <1>1 DEF Next
  <2> QED BY StepConstruct, StepPlaces, StepSelectorCrashes, StepTaskCrashes,
             StepSockets, StepFile
<1>2. CASE UNCHANGED vars
  BY <1>2 DEF vars, IInv, TypeOK, ListenerIsReachable, ReturnFreesThePath,
              CrashHasACause, NoSocketYet, PCs, Context, Valid
<1> QED BY <1>1, <1>2

-----------------------------------------------------------------------------
(* The theorems.                                                           *)

LEMMA Invariance == Spec => []IInv
  BY InitInv, StepInv, PTL DEF Spec

\* The variables keep their types, and a server that has been constructed has
\* all its factories.
THEOREM TypeCorrect == Spec => []TypeOK
<1>1. IInv => TypeOK
  BY DEF IInv
<1> QED BY <1>1, Invariance, PTL

\* However many runs start, fail, end and are killed at the same path, none
\* takes it away from a run that listens there.
THEOREM ListenersStayReachable == Spec => []ListenerIsReachable
<1>1. IInv => ListenerIsReachable
  BY DEF IInv
<1> QED BY <1>1, Invariance, PTL

\* run_server() returns with the path free, unless its shutdown() failed.
THEOREM ReturningFreesThePath == Spec => []ReturnFreesThePath
<1>1. IInv => ReturnFreesThePath
  BY DEF IInv
<1> QED BY <1>1, Invariance, PTL

\* With the library's own selector no combination of factories makes a run
\* use a null pointer once it has its socket.
THEOREM CrashesHaveACause == Spec => []CrashHasACause
<1>1. IInv => CrashHasACause
  BY DEF IInv
<1> QED BY <1>1, Invariance, PTL
=============================================================================
