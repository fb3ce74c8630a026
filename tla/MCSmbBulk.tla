------------------------------ MODULE MCSmbBulk ------------------------------
(* Small instances of SmbBulk for TLC.  A block is two bytes long.          *)
EXTENDS SmbBulk, TLC

MCSymmetry == Permutations(Senders)
=============================================================================
