--------------------------- MODULE MCCollectives ---------------------------
(* Instances of Collectives for TLC.                                        *)
EXTENDS Collectives

Job(n, kinds, ops, width, empty, throwing) ==
    [size |-> n, kinds |-> kinds, ops |-> ops, width |-> width, emptyInput |-> empty,
     throwing |-> throwing]

\* A rank may have nothing to send.
EmptyInputs == <<Job(2, {"all_to_all_v_single"}, 1, 2, TRUE, {})>>
=============================================================================
