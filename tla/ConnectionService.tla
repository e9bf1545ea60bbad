------------------------- MODULE ConnectionService -------------------------
(***************************************************************************)
(* What the development server promises about a client connection,         *)
(* whatever threads, queues and descriptors it uses to keep the promise:   *)
(* a connection is accepted at most once, is served by at most one worker  *)
(* and at most once, and its service ends only when both directions of the *)
(* connection have been shut down.                                         *)
(***************************************************************************)
EXTENDS FiniteSets, Integers

CONSTANTS Conn,      \* the client connections
          Capacity   \* how many connections are served at a time

VARIABLE phase       \* phase[c]: how far the service of connection c has come

Phases == {"outside", "waiting", "refused", "accepted", "serving", "ended"}

Serving == {c \in Conn : phase[c] = "serving"}

Init == phase = [c \in Conn |-> "outside"]

Move(c, from, to) == phase[c] = from /\ phase' = [phase EXCEPT ![c] = to]

Arrive(c) == Move(c, "outside", "waiting")

Accept(c) == Move(c, "waiting", "accepted")

Serve(c)  == Cardinality(Serving) < Capacity /\ Move(c, "accepted", "serving")

Finish(c) == Move(c, "serving", "ended")

\* The listening socket goes away, or clients give up, before the accept.
Refuse(S) ==
    /\ S # {}
    /\ \A c \in S : phase[c] = "waiting"
    /\ phase' = [c \in Conn |-> IF c \in S THEN "refused" ELSE phase[c]]

Next ==
    \/ \E c \in Conn : Arrive(c) \/ Accept(c) \/ Serve(c) \/ Finish(c)
    \/ \E S \in SUBSET Conn : Refuse(S)

Spec == Init /\ [][Next]_phase
=============================================================================
