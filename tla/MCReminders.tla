---------------------------- MODULE MCReminders ----------------------------
(* Reminders on a small instance. *)
EXTENDS Reminders, TLC

CONSTANTS alice, bob, phone, test1, test2

Symmetry == Permutations(Users) \cup Permutations(Endpoints) \cup Permutations(Tests)
=============================================================================
