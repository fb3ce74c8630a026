----------------------------- MODULE MCSmbAlloc -----------------------------
(* Small instances of SmbAlloc for TLC.  A block is two bytes long.         *)
EXTENDS SmbAlloc, TLC

\* Messages with one data field, as savemsg() makes them.
MCBodyOnly == {[body |-> 2, tail |-> 0], [body |-> 3, tail |-> 0]}

\* Body and tail, as sbbsecho and qwktomsg import them: the tail starts in the
\* middle of a block (1+2, 3+3) or in a block of its own (2+1).
MCTails == {[body |-> 1, tail |-> 2], [body |-> 3, tail |-> 3],
            [body |-> 2, tail |-> 1]}

MCSymmetry == Permutations(Clients)
=============================================================================
