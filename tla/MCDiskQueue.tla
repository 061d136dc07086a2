---------------------------- MODULE MCDiskQueue ----------------------------
(* Small instances of DiskQueue for TLC. *)
EXTENDS DiskQueue, TLC

Symmetry == Permutations(Events)
=============================================================================
