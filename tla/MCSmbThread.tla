----------------------------- MODULE MCSmbThread -----------------------------
(* Small instances of SmbThread for TLC.                                    *)
EXTENDS SmbThread
=============================================================================
