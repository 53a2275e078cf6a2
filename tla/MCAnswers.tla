------------------------------ MODULE MCAnswers ------------------------------
(* Answers on a small alphabet: two Cyrillic letters, one of them in both    *)
(* cases, a Latin one, a digit, a space and a mark.                          *)
EXTENDS Answers, TLC

CONSTANTS h1, h2, h3

Letters == {"a", "b"}
Foreign == {"x"}
Figures == {"1"}
LowerMC == [c \in {"a", "b", "A", "x", "1", " ", ","} |-> IF c = "A" THEN "a" ELSE c]

TextsUpTo(n, S) == UNION {[1 .. k -> S] : k \in 0 .. n}
WordsMC == TextsUpTo(4, Letters) \cup TextsUpTo(3, {"a", "b", "x"})
TypingsMC == TextsUpTo(3, {"a", "A", "x", " ", ","}) \cup TextsUpTo(4, {"a", " ", ","})

Task(kind, must, critical, forbidden) ==
    [kind |-> kind, answers |-> {<<"a", "b", " ", "b", "a">>, <<"b", "b", "A", ",">>},
     must |-> must, critical |-> critical, forbidden |-> forbidden]

Gated == Task("tr_ru_sr", {}, {<<"A", "b", ",">>}, {<<"x">>})
Helped == Task("tr_sr_ru", {<<"b", "b">>}, {}, {})

InputsMC ==
    {[task |-> Gated, text |-> t] : t \in
        {<<"A", "b", ",", " ", "b", "a">>, <<"a", "b", " ", "b", "b">>,
         <<"b", "b", " ", "b", "a">>, <<"a", "b", " ", "b", "x">>}}
    \cup {[task |-> Helped, text |-> <<"a", "b", " ", "b", "b">>]}
    \cup {[task |-> Task(k, {}, {}, {}), text |-> <<"a", "b", " ", "b", "b">>] : k \in {"case", "cloze"}}
    \cup {[task |-> Task("speak", {}, {}, {}), text |-> t] : t \in
        {<<",", "x">>, <<"a", "b", " ", "x", " ", "b", "a">>}}

ScoresMC == {-1, 2, 7}

Symmetry == Permutations(Handlers)
=============================================================================
