---------------------------- MODULE MCVolumeLock ----------------------------
(* Three processes at one lock file: a holder that is killed, and two that *)
(* wait behind it.                                                         *)
EXTENDS VolumeLock, TLC

CONSTANTS p1, p2, p3, l1

MCProcs == {p1, p2, p3}
MCLocks == {l1}

=============================================================================
