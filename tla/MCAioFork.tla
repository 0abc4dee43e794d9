----------------------------- MODULE MCAioFork -----------------------------
(***************************************************************************)
(* Instances of AioFork for TLC.                                           *)
(***************************************************************************)
EXTENDS AioFork, TLC

CONSTANTS r1, r2, r3, r4, r5, w1, w2, fd1, fd2

\* Requests differ in nothing but their names.
MCSymmetry == Permutations(Requests)
=============================================================================
