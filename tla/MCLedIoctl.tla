---------------------------- MODULE MCLedIoctl ----------------------------
(* Small instances of LedIoctl: see the .cfg files for the bounds.         *)
EXTENDS LedIoctl, TLC

\* The default interval, and an endless one next to another that is accepted.
GoodInterval == {1000}
AnyInterval  == {-1, 1000}

MCSymmetry == Permutations(Procs)
=============================================================================
