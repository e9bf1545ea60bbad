--------------------------- MODULE MCApplication ---------------------------
(* Application with the configurations that differ in what they can cause. *)
EXTENDS Application, TLC

Default == [complete |-> TRUE, create_selector |-> "unset", create_stream |-> "unset",
            create_request_handler |-> "unset"]

SomeContexts ==
    {Default, [Default EXCEPT !.complete = FALSE]}
    \cup {[Default EXCEPT !.create_selector = f] : f \in {"null", "throws"}}
    \cup {[Default EXCEPT !.create_stream = f, !.create_request_handler = g] :
             f \in {"null", "throws"}, g \in {"unset", "made", "null"}}

Symmetry == Permutations(Run)
=============================================================================
