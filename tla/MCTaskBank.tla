----------------------------- MODULE MCTaskBank -----------------------------
(* TaskBank with two batches, one of them with another answer to a content   *)
(* that the first has, and two notes.                                        *)
EXTENDS TaskBank, TLC

CONSTANTS p, q, r, c1, c2, t1, t2

Item(content, sound, answers, critical, forbidden) ==
    [content |-> content, sound |-> sound, answers |-> answers,
     critical |-> critical, forbidden |-> forbidden]

First == Item(c1, TRUE, {{p, q}, {q}}, {p, Blank}, {r})
Again == Item(c1, TRUE, {{p}}, {}, {})
Second == Item(c2, TRUE, {{q}, {r, q}}, {}, {})
Unsolvable == Item(c2, TRUE, {{p}}, {r}, {})
Broken == Item(c2, FALSE, {{p}}, {}, {})

BatchesMC ==
    {[topic |-> t1, items |-> <<Unsolvable, First>>],
     [topic |-> NoTopic, items |-> <<Second, Broken, Again>>]}

NotesMC ==
    {[topic |-> t2, critical |-> {p, r}, forbidden |-> {r, Blank}],
     [topic |-> NoTopic, critical |-> {q}, forbidden |-> {p}]}
=============================================================================
