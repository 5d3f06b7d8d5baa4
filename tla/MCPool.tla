------------------------------- MODULE MCPool -------------------------------
(* Small instances of Pool for TLC. *)
EXTENDS Pool, TLC

CONSTANTS t1, t2, t3, s1, s2

\* Threads are interchangeable (not used where liveness is checked).
ThreadSymmetry == Permutations(Threads)
=============================================================================
