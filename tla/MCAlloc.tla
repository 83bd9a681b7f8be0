------------------------------ MODULE MCAlloc ------------------------------
EXTENDS Alloc

(* A program with separate text, and one with common I and D space. *)
sh  == [name |-> "sh",  sep |-> TRUE,  text |-> 1, tot |-> 1]
ed  == [name |-> "ed",  sep |-> FALSE, text |-> 0, tot |-> 2]

MCProgram == {sh, ed}
MCInit    == [T |-> [base |-> 0, len |-> 1], D |-> [base |-> 1, len |-> 1]]
MCChunks  == <<[base |-> 3, len |-> 1], [base |-> 5, len |-> 3]>>
=============================================================================
