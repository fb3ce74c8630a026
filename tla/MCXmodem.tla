------------------------------- MODULE MCXmodem -------------------------------
(* Small instances of Xmodem for TLC.                                        *)
EXTENDS Xmodem
=============================================================================
