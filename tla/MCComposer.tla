----------------------------- MODULE MCComposer -----------------------------
(* Composer on a small instance. *)
EXTENDS Composer, TLC

CONSTANTS gap1, gap2, cases, trans, word, say

KindOf == gap1 :> "cloze" @@ gap2 :> "cloze" @@ cases :> "case"
          @@ trans :> "tr_ru_sr" @@ word :> "vocab" @@ say :> "speak"

SmallMix == [grammar |-> 2, translation |-> 1, speaking |-> 1]

Symmetry == Permutations({gap1, gap2})
=============================================================================
