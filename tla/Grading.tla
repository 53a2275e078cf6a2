------------------------------- MODULE Grading -------------------------------
(***************************************************************************)
(* The graders of internal/tasks: normalize.go, grade.go and speech.go, and *)
(* the definitions that say what they should compute.  A text is a sequence *)
(* of characters; which characters there are is a constant.  Similarities   *)
(* are compared in whole numbers: 1 - d/m >= p/100 as 100(m - d) >= pm.     *)
(***************************************************************************)
EXTENDS Integers, Sequences, FiniteSets
Sq == INSTANCE SequencesExt

CONSTANTS
    Cyrillic, \* lower case Cyrillic letters
    Latin,    \* lower case letters of other scripts
    Digits,
    Space,
    Lower     \* unicode.ToLower, a function on every character

ASSUME GradingAssumption ==
    /\ Cyrillic \cup Latin \cup Digits \cup {Space} \subseteq DOMAIN Lower
    /\ \A c \in DOMAIN Lower : Lower[c] \in DOMAIN Lower /\ Lower[Lower[c]] = Lower[c]
    /\ Space \notin Cyrillic \cup Latin \cup Digits
    /\ Lower[Space] = Space

Kept == Cyrillic \cup Latin \cup Digits
KeptSpoken == Cyrillic \cup Digits

\* Mutant: whatever is stripped separates words.
EmitGap(kept, out, c) ==
    IF c \in kept THEN Append(out, c)
    ELSE IF out # <<>> /\ Sq!Last(out) # Space THEN Append(out, Space)
    ELSE out

\* One round of the loops of Normalize and NormalizeCyrillicOnly; what is
\* neither kept nor a space leaves no trace, prevSpace included.
Emit(kept, out, c) ==
    IF c \in kept THEN Append(out, c)
    ELSE IF c = Space /\ out # <<>> /\ Sq!Last(out) # Space THEN Append(out, Space)
    ELSE out

TrimRight(s) == IF s # <<>> /\ Sq!Last(s) = Space THEN Sq!Front(s) ELSE s

\* The text after the first k characters of s, for every k.
Collapse(kept, s) ==
    LET out[k \in 0 .. Len(s)] ==
            IF k = 0 THEN <<>> ELSE Emit(kept, out[k - 1], Lower[s[k]])
    IN  TrimRight(out[Len(s)])

Normalize(s) == Collapse(Kept, s)
NormalizeCyrillicOnly(s) == Collapse(KeptSpoken, s)

\* strings.Contains.
Includes(s, piece) ==
    \E i \in 0 .. Len(s) - Len(piece) : SubSeq(s, i + 1, i + Len(piece)) = piece

-----------------------------------------------------------------------------
(* Similarity *)

Least(S) == CHOOSE n \in S : \A k \in S : n <= k

\* Mutant: the diagonal is read one column late.
CellShifted(row, prev, j, differ) ==
    Append(row, Least({row[j] + 1, prev[j + 1] + 1, prev[j + 1] + differ}))
\* curr[j] of Levenshtein, after the cells before it; both rows begin at column 0.
Cell(row, prev, j, differ) ==
    Append(row, Least({row[j] + 1, prev[j + 1] + 1, prev[j] + differ}))

Differ(x, y) == IF x = y THEN 0 ELSE 1

Row(prev, x, b) ==
    LET row[j \in 0 .. Len(b)] ==
            IF j = 0 THEN <<prev[1] + 1>> ELSE Cell(row[j - 1], prev, j, Differ(x, b[j]))
    IN  row[Len(b)]

Levenshtein(a, b) ==
    LET rows[i \in 0 .. Len(a)] ==
            IF i = 0 THEN [j \in 1 .. Len(b) + 1 |-> j - 1] ELSE Row(rows[i - 1], a[i], b)
    IN  IF a = <<>> THEN Len(b)
        ELSE IF b = <<>> THEN Len(a)
        ELSE rows[Len(a)][Len(b) + 1]

\* Similarity(a, b) >= p/100.
AtLeast(a, b, p) ==
    LET m == IF Len(a) > Len(b) THEN Len(a) ELSE Len(b)
    IN  100 * (m - Levenshtein(a, b)) >= p * m

\* bestSim >= p/100, over normalized references.
Reaches(references, s, p) == \E a \in references : AtLeast(a, s, p)

Thresholds == <<30, 50, 70, 85, 95>>
simToGrade(references, s) ==
    Cardinality({g \in 1 .. 5 : Reaches(references, s, Thresholds[g])})

-----------------------------------------------------------------------------
(* The graders.  A task has a kind, answers, must_contain, critical and      *)
(* forbidden, each a set of texts: their order shows only in the feedback.   *)

ChoiceKinds == {"case", "aspect"}
TranslationKinds == {"tr_ru_sr", "tr_sr_ru"}

Verdict(grade, by, ambiguous) == [grade |-> grade, by |-> by, ambiguous |-> ambiguous]

Normalized(texts) == {Normalize(t) : t \in texts}
Missing(task, ua) == {c \in Normalized(task.critical) : ~Includes(ua, c)}
Hit(task, ua) == {f \in Normalized(task.forbidden) : Includes(ua, f)}
HasAll(task, ua) == \A m \in Normalized(task.must) : Includes(ua, m)

Fuzzy(task, refs, ua) ==
    IF task.kind \in TranslationKinds /\ task.must # {} /\ HasAll(task, ua) /\ Reaches(refs, ua, 50)
    THEN Verdict(4, "fuzzy", FALSE)
    ELSE Verdict(simToGrade(refs, ua), "fuzzy",
                 /\ task.kind \in TranslationKinds
                 /\ Reaches(refs, ua, 60) /\ ~Reaches(refs, ua, 90))

\* Mutant: a piece the answer must not contain only counts when nothing else does.
GradeTextLate(task, answer) ==
    LET ua == Normalize(answer)
        refs == Normalized(task.answers)
    IN  IF ua \in refs THEN Verdict(5, "exact", FALSE)
        ELSE IF task.kind \in ChoiceKinds THEN Verdict(0, "exact", FALSE)
        ELSE IF Missing(task, ua) # {} THEN Verdict(0, "critical", FALSE)
        ELSE IF Hit(task, ua) # {} /\ ~Reaches(refs, ua, 50) THEN Verdict(0, "forbidden", FALSE)
        ELSE Fuzzy(task, refs, ua)

GradeText(task, answer) ==
    LET ua == Normalize(answer)
        refs == Normalized(task.answers)
    IN  IF ua \in refs THEN Verdict(5, "exact", FALSE)
        ELSE IF task.kind \in ChoiceKinds THEN Verdict(0, "exact", FALSE)
        ELSE IF Missing(task, ua) # {} THEN Verdict(0, "critical", FALSE)
        ELSE IF Hit(task, ua) # {} THEN Verdict(0, "forbidden", FALSE)
        ELSE Fuzzy(task, refs, ua)

\* Mutant: what was heard need only be a part of a reference.
GradeSpeechPart(task, transcript) ==
    LET norm == NormalizeCyrillicOnly(transcript)
        refs == {NormalizeCyrillicOnly(a) : a \in task.answers}
    IN  IF \E a \in refs : Includes(a, norm) THEN Verdict(5, "speech-exact", FALSE)
        ELSE Verdict(simToGrade(refs, norm), "speech-fuzzy", FALSE)

GradeSpeech(task, transcript) ==
    LET norm == NormalizeCyrillicOnly(transcript)
        refs == {NormalizeCyrillicOnly(a) : a \in task.answers}
    IN  IF norm \in refs /\ norm # <<>> THEN Verdict(5, "speech-exact", FALSE)
        ELSE Verdict(simToGrade(refs, norm), "speech-fuzzy", FALSE)

-----------------------------------------------------------------------------
(* What they should compute *)

\* Wagner and Fischer's definition: the least cost of an alignment, which gives
\* each of i characters, in order, one of j others or, as 0, none; what is left
\* over on either side costs one each, and so does a pair that differs.
Alignments(i, j) ==
    {m \in [1 .. i -> 0 .. j] :
        \A k, l \in 1 .. i : k < l /\ m[k] # 0 /\ m[l] # 0 => m[k] < m[l]}

Deleted(i, m) == {k \in 1 .. i : m[k] = 0}
Inserted(i, j, m) == {l \in 1 .. j : \A k \in 1 .. i : m[k] # l}
Replaced(a, b, i, m) == {k \in 1 .. i : m[k] # 0 /\ a[k] # b[m[k]]}
Cost(a, b, i, j, m) ==
    Cardinality(Deleted(i, m)) + Cardinality(Inserted(i, j, m)) + Cardinality(Replaced(a, b, i, m))

\* Of the first i characters of a and the first j of b.
Distance(a, b, i, j) == Least({Cost(a, b, i, j, m) : m \in Alignments(i, j)})
EditDistance(a, b) == Distance(a, b, Len(a), Len(b))

\* How many of the first k characters of s a reader goes by, and whether there is
\* a space between character k and the last of these before it.
Place(kept, s, k) == Cardinality({l \in 1 .. k : Lower[s[l]] \in kept})
Opens(kept, s, k) ==
    \E l \in 1 .. k - 1 :
        Lower[s[l]] = Space /\ \A n \in l + 1 .. k - 1 : Lower[s[n]] \notin kept

\* Two texts say the same: the same characters, case aside, with spaces
\* between the same ones.
SaySame(kept, s, t) ==
    /\ Place(kept, s, Len(s)) = Place(kept, t, Len(t))
    /\ \A k \in 1 .. Len(s), l \in 1 .. Len(t) :
          /\ Lower[s[k]] \in kept /\ Lower[t[l]] \in kept
          /\ Place(kept, s, k) = Place(kept, t, l)
          => /\ Lower[s[k]] = Lower[t[l]]
             /\ Place(kept, s, k) > 1 => (Opens(kept, s, k) <=> Opens(kept, t, l))
=============================================================================
