------------------------------ MODULE MCBackups ------------------------------
(***************************************************************************)
(* Backups for TLC: actors are interchangeable.                            *)
(***************************************************************************)
EXTENDS Backups, TLC

BackupSymmetry == Permutations(Actors)
=============================================================================
