---------------------------- MODULE MCMasterLock -----------------------------
(* Small instances of MasterLock for TLC. *)
EXTENDS MasterLock, TLC

CONSTANTS c1, c2, c3

ClientSymmetry == Permutations(Client)
=============================================================================
