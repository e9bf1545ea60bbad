-------------------------- MODULE RequestExchange --------------------------
(***************************************************************************)
(* What a request handler promises about the order of things on one        *)
(* connection, whatever the peer sends: requests are taken one after the   *)
(* other, each is handed to the application or refused or given up, a      *)
(* refusal is the last thing that happens, and the exchange ends.          *)
(***************************************************************************)
VARIABLE phase

Init == phase = "idle"

Step(from, to) == phase \in from /\ phase' = to

\* A request line has arrived; the application is done with the one before.
Receive == Step({"idle", "served"}, "received")

Serve == Step({"received"}, "serving")

Served == Step({"serving"}, "served")

\* An error response takes the place of the application's.
Refuse == Step({"idle", "received", "served"}, "refused")

\* No further request is taken.
Stop == Step({"idle", "received", "refused", "serving", "served"}, "stopped")

\* The connection is shut down, or an exception leaves that to the server.
End == Step({"idle", "received", "refused", "serving", "served", "stopped"}, "ended")

Next == Receive \/ Serve \/ Served \/ Refuse \/ Stop \/ End

Spec == Init /\ [][Next]_phase
=============================================================================
