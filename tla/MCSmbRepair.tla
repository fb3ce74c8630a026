----------------------------- MODULE MCSmbRepair -----------------------------
(* Small instances of SmbRepair for TLC.  A block is two bytes long.        *)
EXTENDS SmbRepair

MCBodyOnly == {[body |-> 2, tail |-> 0], [body |-> 3, tail |-> 0]}
=============================================================================
