---------------------------- MODULE MCWebOutput ----------------------------
(* A small instance of WebOutput for TLC. *)
EXTENDS WebOutput, TLC
=============================================================================
