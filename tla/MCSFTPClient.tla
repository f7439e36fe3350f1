---------------------------- MODULE MCSFTPClient ----------------------------
(* SFTPClient for TLC: the threads are interchangeable. *)
EXTENDS SFTPClient, TLC

Symmetry == Permutations(Thread)
=============================================================================
