-------------------------- MODULE MCWinCredential --------------------------
(* Instance of WinCredential for TLC. *)
EXTENDS WinCredential, TLC

CONSTANTS u1, t1, t2

MCUsers == {u1}
MCThreads == {t1, t2}
ThreadSymmetry == Permutations(MCThreads)
=============================================================================
