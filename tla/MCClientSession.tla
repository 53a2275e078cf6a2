--------------------------- MODULE MCClientSession ---------------------------
(* Instances of ClientSession for TLC. *)
EXTENDS ClientSession, TLC

CONSTANTS c1, c2, c3, m1, m2

SlotsMC == {c1, c2, c3}
TwoSlots == {c1, c2}
RecordersMC == {m1, m2}
Mixed == <<"speak", "text">>
Spoken == <<"speak", "speak">>
Three == <<"speak", "text", "speak">>

\* Slots and recorders are interchangeable.
Symmetry == Permutations(SlotsMC) \cup Permutations(RecordersMC)
=============================================================================
