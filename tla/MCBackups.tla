----------------------------- MODULE MCBackups ------------------------------
(* Backups with the server's loop and two runs of the command.               *)
EXTENDS Backups, TLC

CONSTANTS t1, t2

Symmetry == Permutations(Tools)
=============================================================================
