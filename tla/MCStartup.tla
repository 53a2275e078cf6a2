----------------------------- MODULE MCStartup -----------------------------
(* Startup on small instances. *)
EXTENDS Startup, TLC

CONSTANTS server, cli, t1, t2, t3, noun, verb

\* The operator's deletion and an overlap of two saves are looked at one at a time:
\* after an overlap nothing is claimed of the file.
NotBoth == overlap => forgotten = {}

Symmetry == Permutations(Programs) \cup Permutations(Tokens)
=============================================================================
