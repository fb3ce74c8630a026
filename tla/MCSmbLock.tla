------------------------------ MODULE MCSmbLock ------------------------------
(* Instances of SmbLock for TLC: processes with one handle each, and threads. *)
EXTENDS SmbLock, TLC

CONSTANTS a, b, c, p, q

ASSUME NamesAssumption == a # b /\ b # c /\ a # c /\ p # q

\* Each handle is a process of its own.
ProcApart == [h \in Handles |-> h]

\* The first two handles are threads of one process (the BBS), the third is not.
ProcShared == a :> p @@ b :> p @@ c :> q
EitherThread == Permutations({a, b})
=============================================================================
