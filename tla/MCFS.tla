-------------------------------- MODULE MCFS --------------------------------
EXTENDS FS

(* For reading or for writing. *)
MCModes == {{"R"}, {"W"}}

(* Locks of both kinds need a file that is open for both; the terminal is *)
(* only read.                                                             *)
MCLockModes == {{"R"}, {"R", "W"}}

(* Unlocking one of them removes a lock, cuts off its front or its end, or *)
(* cuts it in two; and 1-1 does the last two at once, so that it may fail  *)
(* after it has changed something.                                         *)
MCRegions == {[first |-> 0, last |-> 1], [first |-> 1, last |-> 1], [first |-> 0, last |-> 2]}
=============================================================================
