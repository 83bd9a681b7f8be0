---------------------------- MODULE MCInterrupt -----------------------------
(* Three interrupt lines, so that a handler can be interrupted twice over. *)
EXTENDS Interrupt
=============================================================================
