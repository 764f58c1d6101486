-------------------------- MODULE MCControlServer --------------------------
(* ControlServer with its batch of ten bytes: an agent whose comes in two  *)
(* pieces, cut within the second length, then one whose batch comes as a   *)
(* whole.  One slot, one use of the token.                                 *)
EXTENDS ControlServer

MCCuts == <<{7}, {10}>>
=============================================================================
