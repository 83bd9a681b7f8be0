------------------------------ MODULE MCCache -------------------------------
(* Two neighbouring blocks of one device and one of another. *)
EXTENDS Cache

MCBlock == {[dev |-> "a", nr |-> 1], [dev |-> "a", nr |-> 2], [dev |-> "b", nr |-> 1]}
=============================================================================
