--------------------------- MODULE ComposerProofs ---------------------------
(***************************************************************************)
(* Type correctness of Composer, that no task is in a session twice, and   *)
(* which tasks are in it, for every set of tasks, mix and budget.          *)
(***************************************************************************)
EXTENDS Composer, FiniteSetTheorems, WellFoundedInduction, TLAPS

-----------------------------------------------------------------------------
(* Lists *)

\* The first rows of S are a list of S without repetition, no longer than asked.
LEMMA FirstRowsList ==
    ASSUME NEW S, NEW n \in Nat, NEW s \in FirstRows(S, n)
    PROVE  s \in Seq(S) /\ Len(s) <= n /\ Distinct(s)
<1>1. PICK k \in 0 .. n : s \in [1 .. k -> S]
  BY DEF FirstRows, UpTo
<1>2. s \in Seq(S) /\ Len(s) = k
  BY <1>1
<1> QED
  BY <1>1, <1>2 DEF FirstRows

\* Two lists without repetition that share nothing make one without repetition.
LEMMA Appended ==
    ASSUME NEW S, NEW s \in Seq(S), NEW r \in Seq(S),
           Distinct(s), Distinct(r), Taken(s) \cap Taken(r) = {}
    PROVE  /\ s \o r \in Seq(S)
           /\ Len(s \o r) = Len(s) + Len(r)
           /\ Distinct(s \o r)
           /\ Taken(s \o r) = Taken(s) \cup Taken(r)
<1>1. /\ s \o r \in Seq(S)
      /\ DOMAIN s = 1 .. Len(s) /\ DOMAIN r = 1 .. Len(r)
      /\ Len(s) \in Nat /\ Len(r) \in Nat
      /\ DOMAIN (s \o r) = 1 .. Len(s) + Len(r)
      /\ Len(s \o r) = Len(s) + Len(r)
  OBVIOUS
<1>2. \A i \in 1 .. Len(s) : (s \o r)[i] = s[i]
  OBVIOUS
<1>3. \A i \in 1 .. Len(r) : (s \o r)[Len(s) + i] = r[i]
  OBVIOUS
<1>4. \A i \in 1 .. Len(s) + Len(r) :
         i \in 1 .. Len(s) \/ \E j \in 1 .. Len(r) : i = Len(s) + j
  <2> TAKE i \in 1 .. Len(s) + Len(r)
  <2>1. CASE i <= Len(s)
    BY <2>1, <1>1
  <2>2. CASE i > Len(s)
    <3>1. i - Len(s) \in 1 .. Len(r) /\ i = Len(s) + (i - Len(s))
      BY <2>2, <1>1
    <3> QED
      BY <3>1
  <2> QED
    BY <2>1, <2>2, <1>1
<1>5. Taken(s \o r) = Taken(s) \cup Taken(r)
  <2>1. \A i \in 1 .. Len(r) : Len(s) + i \in DOMAIN (s \o r)
    BY <1>1
  <2>2. \A i \in 1 .. Len(s) : i \in DOMAIN (s \o r)
    BY <1>1
  <2>3. ASSUME NEW x \in Taken(s \o r) PROVE x \in Taken(s) \cup Taken(r)
    <3>1. PICK i \in 1 .. Len(s) + Len(r) : x = (s \o r)[i]
      BY <1>1, <2>3 DEF Taken
    <3> QED
      BY <1>1, <1>2, <1>3, <1>4, <3>1 DEF Taken
  <2>4. ASSUME NEW x \in Taken(s) PROVE x \in Taken(s \o r)
    BY <1>1, <1>2, <2>2, <2>4 DEF Taken
  <2>5. ASSUME NEW x \in Taken(r) PROVE x \in Taken(s \o r)
    BY <1>1, <1>3, <2>1, <2>5 DEF Taken
  <2> QED
    BY <2>3, <2>4, <2>5
<1>6. Distinct(s \o r)
  <2> SUFFICES ASSUME NEW i \in 1 .. Len(s) + Len(r), NEW j \in 1 .. Len(s) + Len(r),
                      (s \o r)[i] = (s \o r)[j]
               PROVE  i = j
    BY <1>1 DEF Distinct
  <2>1. CASE i \in 1 .. Len(s) /\ j \in 1 .. Len(s)
    BY <2>1, <1>1, <1>2 DEF Distinct
  <2>2. CASE i \in 1 .. Len(s) /\ j \notin 1 .. Len(s)
    <3>1. PICK l \in 1 .. Len(r) : j = Len(s) + l
      BY <2>2, <1>4
    <3> QED
      BY <2>2, <3>1, <1>1, <1>2, <1>3 DEF Taken
  <2>3. CASE i \notin 1 .. Len(s) /\ j \in 1 .. Len(s)
    <3>1. PICK l \in 1 .. Len(r) : i = Len(s) + l
      BY <2>3, <1>4
    <3> QED
      BY <2>3, <3>1, <1>1, <1>2, <1>3 DEF Taken
  <2>4. CASE i \notin 1 .. Len(s) /\ j \notin 1 .. Len(s)
    <3>1. PICK k \in 1 .. Len(r) : i = Len(s) + k
      BY <2>4, <1>4
    <3>2. PICK l \in 1 .. Len(r) : j = Len(s) + l
      BY <2>4, <1>4
    <3> QED
      BY <3>1, <3>2, <1>1, <1>3 DEF Distinct
  <2> QED
    BY <2>1, <2>2, <2>3, <2>4
<1> QED
  BY <1>1, <1>5, <1>6

-----------------------------------------------------------------------------
(* The invariant *)

\* What the list may hold, and how much, when Compose is about to make query p.
Before(p) ==
    CASE p = "grammar" -> {}
      [] p = "translation" -> {"grammar"}
      [] p = "speaking" -> {"grammar", "translation"}
      [] OTHER -> Modalities

Quota(p) ==
    CASE p = "grammar" -> 0
      [] p = "translation" -> Mix["grammar"]
      [] p = "speaking" -> Mix["grammar"] + Mix["translation"]
      [] OTHER -> Wanted

ListInv ==
    /\ TypeOK
    /\ NoTaskTwice
    /\ Len(selected) <= Quota(pc)
    /\ \A t \in Taken(selected) : ModalityOf[Kind[t]] \in Before(pc)

LEMMA WantedNat ==
    /\ Wanted \in Nat
    /\ \A m \in Modalities : Mix[m] \in Nat
    /\ Wanted = Mix["grammar"] + Mix["translation"] + Mix["speaking"]
  BY ComposerAssumption DEF Wanted, Modalities

LEMMA InitList == Init => ListInv
<1> SUFFICES ASSUME Init PROVE ListInv
  OBVIOUS
<1>1. TypeOK
  BY WantedNat, ComposerAssumption DEF Init, TypeOK, Modalities
<1>2. NoTaskTwice /\ Taken(selected) = {}
  BY DEF Init, NoTaskTwice, Distinct, Taken
<1>3. Len(selected) <= Quota(pc)
  BY DEF Init, Quota
<1> QED
  BY <1>1, <1>2, <1>3 DEF ListInv

\* A query's rows are of its modality, which the list has none of yet.
LEMMA ModalityStep ==
    ASSUME ListInv, NEW m \in Modalities, DueByModality(m)
    PROVE  ListInv'
<1>1. PICK rows \in FirstRows(Of(m), Mix[m]) : Select(rows, m)
  BY DEF DueByModality
<1>2. pc = m
  BY DEF DueByModality
<1>3. rows \in Seq(Of(m)) /\ Len(rows) <= Mix[m] /\ Distinct(rows)
  BY <1>1, FirstRowsList, WantedNat
<1>4. Of(m) \subseteq Tasks
  BY DEF ListInv, TypeOK, Of, DueTasks
<1>5. Taken(rows) \subseteq Of(m) /\ rows \in Seq(Tasks)
  BY <1>3, <1>4 DEF Taken
<1>6. \A t \in Of(m) : ModalityOf[Kind[t]] = m
  BY DEF Of
<1>7. Taken(selected) \cap Taken(rows) = {}
  BY <1>2, <1>5, <1>6 DEF ListInv, Before, Modalities
<1>8. /\ selected' \in Seq(Tasks)
      /\ Len(selected') = Len(selected) + Len(rows)
      /\ Distinct(selected')
      /\ Taken(selected') = Taken(selected) \cup Taken(rows)
  <2>1. selected \in Seq(Tasks) /\ Distinct(selected)
    BY DEF ListInv, TypeOK, NoTaskTwice
  <2>2. selected' = selected \o rows
    BY <1>1 DEF Select
  <2> QED
    BY <1>3, <1>5, <1>7, <2>1, <2>2, Appended
<1>9. pc' = After(m, selected') /\ UNCHANGED <<due, live, now, given, changed>>
  BY <1>1 DEF Select, cards
<1>10. /\ Len(selected') <= Quota(pc')
       /\ Len(selected') <= Wanted
       /\ pc' \in Modalities \cup {"any", "budget", "done", "failed"}
       /\ \A t \in Taken(selected') : ModalityOf[Kind[t]] \in Before(pc')
  <2>1. Len(selected') <= Quota(m) + Mix[m]
    <3>1. Len(selected) \in Nat /\ Len(rows) \in Nat /\ Mix[m] \in Nat
      BY <1>3, WantedNat DEF ListInv, TypeOK
    <3>2. Quota(m) \in Nat
      BY WantedNat DEF Quota, Modalities
    <3> QED
      BY <1>2, <1>3, <1>8, <3>1, <3>2 DEF ListInv
  <2>2. \A t \in Taken(selected') : ModalityOf[Kind[t]] \in Before(m) \cup {m}
    BY <1>2, <1>5, <1>6, <1>8 DEF ListInv
  <2>3. CASE m = "grammar"
    BY <2>1, <2>2, <2>3, <1>8, <1>9, WantedNat DEF After, Quota, Before, Modalities
  <2>4. CASE m = "translation"
    BY <2>1, <2>2, <2>4, <1>8, <1>9, WantedNat DEF After, Quota, Before, Modalities
  <2>5. CASE m = "speaking"
    BY <2>1, <2>2, <2>5, <1>8, <1>9, WantedNat DEF After, Quota, Before, Modalities
  <2> QED
    BY <2>3, <2>4, <2>5 DEF Modalities
<1>11. TypeOK'
  <2>1. Len(given) <= Len(selected')
    <3>1. Len(given) \in Nat /\ Len(selected) \in Nat /\ Len(rows) \in Nat
      BY <1>3 DEF ListInv, TypeOK
    <3> QED
      BY <1>8, <3>1 DEF ListInv, TypeOK
  <2> QED
    BY <1>8, <1>9, <1>10, <2>1 DEF ListInv, TypeOK
<1> QED
  BY <1>8, <1>10, <1>11 DEF ListInv, NoTaskTwice

\* The top-up's rows are not in the list, and no more than it lacks.
LEMMA AnyStep ==
    ASSUME ListInv, DueAny
    PROVE  ListInv'
<1>0. PICK more \in More :
         \E rows \in FirstRows(Unseen(more), Lacking) : selected' = selected \o rows
  BY DEF DueAny
<1>1. PICK rows \in FirstRows(Unseen(more), Lacking) : selected' = selected \o rows
  BY <1>0
<1>2. pc = "any" /\ pc' = "budget" /\ UNCHANGED <<due, live, now, given, changed>>
  BY DEF DueAny, cards
<1>3. /\ selected \in Seq(Tasks) /\ Len(selected) \in Nat
      /\ Len(selected) <= Wanted /\ Lacking = Wanted - Len(selected) /\ Lacking \in Nat
  BY WantedNat DEF ListInv, TypeOK, Lacking
<1>4. rows \in Seq(Unseen(more)) /\ Len(rows) <= Lacking /\ Distinct(rows)
  BY <1>1, <1>3, FirstRowsList
<1>5. Unseen(more) \subseteq Tasks /\ Unseen(more) \cap Taken(selected) = {}
  BY <1>1 DEF More, Urgent, Unseen, DueTasks, ListInv, TypeOK
<1>6. /\ Taken(rows) \subseteq Unseen(more) /\ rows \in Seq(Tasks)
  BY <1>4, <1>5 DEF Taken
<1>7. /\ selected' \in Seq(Tasks)
      /\ Len(selected') = Len(selected) + Len(rows)
      /\ Distinct(selected')
      /\ Taken(selected') \subseteq Tasks
  <2>1. Distinct(selected) /\ Taken(selected) \cap Taken(rows) = {}
    BY <1>5, <1>6 DEF ListInv, NoTaskTwice
  <2>2. Taken(selected) \subseteq Tasks
    BY <1>3 DEF Taken
  <2> QED
    BY <1>1, <1>3, <1>4, <1>5, <1>6, <2>1, <2>2, Appended
<1>8. Len(selected') <= Wanted /\ Len(given) <= Len(selected')
  <2>1. Len(rows) \in Nat /\ Len(given) \in Nat /\ Len(given) <= Len(selected)
    BY <1>4 DEF ListInv, TypeOK
  <2> QED
    BY <1>3, <1>4, <1>7, <2>1, WantedNat
<1>9. \A t \in Taken(selected') : ModalityOf[Kind[t]] \in Modalities
  BY <1>7, ComposerAssumption DEF ModalityOf, Modalities
<1>10. TypeOK'
  BY <1>2, <1>7, <1>8 DEF ListInv, TypeOK
<1> QED
  BY <1>2, <1>7, <1>8, <1>9, <1>10 DEF ListInv, NoTaskTwice, Quota, Before

\* The budget keeps a beginning of the list.
LEMMA BudgetStep ==
    ASSUME ListInv, FitBudget
    PROVE  ListInv'
<1>1. /\ given' = SubSeq(selected, 1, Kept) /\ pc' = "done" /\ pc = "budget"
      /\ UNCHANGED <<due, live, now, selected, changed>>
  BY DEF FitBudget, cards
<1>2. selected \in Seq(Tasks) /\ Len(selected) \in Nat
      /\ DOMAIN selected = 1 .. Len(selected)
  BY DEF ListInv, TypeOK
<1>3. Kept \in Nat /\ Kept <= Len(selected)
  <2> DEFINE F == {n \in DOMAIN selected : \A i \in 1 .. n : Fits(selected, i)}
  <2>1. IsFiniteSet(1 .. Len(selected)) /\ Cardinality(1 .. Len(selected)) = Len(selected)
    BY <1>2, FS_Interval
  <2>2. F \subseteq 1 .. Len(selected)
    BY <1>2
  <2>3. IsFiniteSet(F) /\ Cardinality(F) <= Cardinality(1 .. Len(selected))
    BY <2>1, <2>2, FS_Subset
  <2>4. Cardinality(F) \in Nat
    BY <2>3, FS_CardinalityType
  <2> QED
    BY <2>1, <2>3, <2>4 DEF Kept
<1>4. given' \in Seq(Tasks) /\ Len(given') <= Len(selected)
  BY <1>1, <1>2, <1>3
<1>5. TypeOK'
  BY <1>1, <1>4 DEF ListInv, TypeOK
<1> QED
  BY <1>1, <1>5 DEF ListInv, NoTaskTwice, Quota, Before

\* What others do, and a failure, leave the list alone.
LEMMA OtherStep ==
    ASSUME ListInv, \/ QueryFails \/ Tick
                    \/ \E t \in Tasks : Study(t) \/ Flag(t)
    PROVE  ListInv'
<1>1. CASE QueryFails
  <2>1. /\ UNCHANGED <<due, live, now, selected, given, changed>>
        /\ pc' = "failed"
    BY <1>1 DEF QueryFails, cards
  <2>2. TypeOK'
    BY <2>1 DEF ListInv, TypeOK
  <2>3. Len(selected) <= Wanted
    BY DEF ListInv, TypeOK
  <2>4. \A t \in Taken(selected) : ModalityOf[Kind[t]] \in Modalities
    <3>1. Taken(selected) \subseteq Tasks
      BY DEF ListInv, TypeOK, Taken
    <3> QED
      BY <3>1, ComposerAssumption DEF ModalityOf, Modalities
  <2> QED
    BY <2>1, <2>2, <2>3, <2>4 DEF ListInv, NoTaskTwice, Quota, Before
<1>2. CASE Tick \/ \E t \in Tasks : Study(t) \/ Flag(t)
  <2>1. UNCHANGED <<pc, selected, given>> /\ changed' = changed + 1 /\ changed < Changes
    BY <1>2 DEF Tick, Study, Flag, Other
  <2>2. /\ due' \in [Tasks -> 0 .. MaxNow + 1] /\ live' \subseteq Tasks
        /\ now' \in 0 .. MaxNow
    <3>1. CASE Tick
      BY <3>1, ComposerAssumption DEF Tick, ListInv, TypeOK
    <3>2. CASE \E t \in Tasks : Study(t)
      BY <3>2, ComposerAssumption DEF Study, ListInv, TypeOK
    <3>3. CASE \E t \in Tasks : Flag(t)
      BY <3>3 DEF Flag, ListInv, TypeOK
    <3> QED
      BY <1>2, <3>1, <3>2, <3>3
  <2>3. changed' \in 0 .. Changes
    BY <2>1, ComposerAssumption DEF ListInv, TypeOK
  <2>4. TypeOK'
    BY <2>1, <2>2, <2>3 DEF ListInv, TypeOK
  <2> QED
    BY <2>1, <2>4 DEF ListInv, NoTaskTwice
<1> QED
  BY <1>1, <1>2

LEMMA NextList == ListInv /\ [Next]_vars => ListInv'
<1> SUFFICES ASSUME ListInv, [Next]_vars PROVE ListInv'
  OBVIOUS
<1>1. CASE UNCHANGED vars
  BY <1>1 DEF vars, cards, ListInv, TypeOK, NoTaskTwice
<1>2. CASE Next
  BY <1>2, ModalityStep, AnyStep, BudgetStep, OtherStep DEF Next
<1> QED
  BY <1>1, <1>2

LEMMA ListInvariant == Spec => []ListInv
  BY InitList, NextList, PTL DEF Spec

\* The variables keep their types; the list is never longer than the mix asks for.
THEOREM TypeCorrect == Spec => []TypeOK
<1>1. ListInv => TypeOK
  BY DEF ListInv
<1> QED
  BY <1>1, ListInvariant, PTL

\* No task is in a session twice, whatever the mix, the limits and the number of
\* tasks, and whatever others change between Compose's queries: the modalities
\* share no kind, and the top-up passes over what the list has.
THEOREM EachTaskOnce == Spec => []NoTaskTwice
<1>1. ListInv => NoTaskTwice
  BY DEF ListInv
<1> QED
  BY <1>1, ListInvariant, PTL

-----------------------------------------------------------------------------
(* The time of a list *)

Below == {ss \in Nat \X Nat : ss[1] < ss[2]}

\* Induction over the numbers, for a set of them.
LEMMA NatSetInduction ==
    ASSUME NEW T \in SUBSET Nat, 0 \in T, \A n \in T : n + 1 \in T
    PROVE  T = Nat
<1>1. ASSUME Nat \ T # {} PROVE FALSE
    <2>0. IsWellFoundedOn(Below, Nat)
        BY NatLessThanWellFounded DEF OpToRel, Below
    <2>1. PICK x \in Nat \ T : \A y \in Nat \ T : <<y, x>> \notin Below
        BY <1>1, <2>0, WFMin
    <2>2. x - 1 \in Nat /\ x - 1 \notin T BY <2>1
    <2>3. <<x - 1, x>> \in Below BY <2>1, <2>2 DEF Below
    <2> QED BY <2>1, <2>2, <2>3
<1> QED BY <1>1

\* A function that adds up the seconds of s, up to task n.
SumsUp(f, s, n) ==
    f = [i \in 0 .. n |-> IF i = 0 THEN 0 ELSE f[i - 1] + Est(s[i])]
Summed(s, n) == CHOOSE f : SumsUp(f, s, n)

LEMMA TimeIs ==
    ASSUME NEW s, NEW n PROVE Time(s, n) = Summed(s, n)[n]
BY DEF Time, Summed, SumsUp

LEMMA EstNat ==
    ASSUME NEW t \in Tasks PROVE Est(t) \in Nat
BY ComposerAssumption DEF Est, EstSeconds, ModalityOf

\* There is one such function.
LEMMA SumsExist ==
    ASSUME NEW s \in Seq(Tasks), NEW n \in Nat, n <= Len(s)
    PROVE  \E f \in [0 .. n -> Nat] : SumsUp(f, s, n)
<1> DEFINE T == {m \in Nat : m <= Len(s) => \E f \in [0 .. m -> Nat] : SumsUp(f, s, m)}
<1>1. 0 \in T
    <2> DEFINE f == [i \in 0 .. 0 |-> 0]
    <2>1. f \in [0 .. 0 -> Nat] /\ SumsUp(f, s, 0) BY DEF SumsUp
    <2> QED BY <2>1
<1>2. ASSUME NEW m \in T PROVE m + 1 \in T
    <2> DEFINE k == m + 1
    <2>a. m \in Nat /\ k \in Nat OBVIOUS
    <2> SUFFICES ASSUME k <= Len(s) PROVE \E f \in [0 .. k -> Nat] : SumsUp(f, s, k)
        <3> HIDE DEF k
        <3> QED BY <2>a, SMTT(30)
    <2>0. m <= Len(s)
        <3>1. Len(s) \in Nat /\ m \in Nat /\ m + 1 <= Len(s) OBVIOUS
        <3> QED BY <3>1
    <2>1. PICK f \in [0 .. m -> Nat] : SumsUp(f, s, m) BY <2>0
    <2> DEFINE g == [i \in 0 .. m + 1 |-> IF i <= m THEN f[i] ELSE f[m] + Est(s[m + 1])]
    <2>2. Est(s[m + 1]) \in Nat /\ f[m] \in Nat BY EstNat
    <2>3. g \in [0 .. m + 1 -> Nat] BY <2>2
    <2>4. ASSUME NEW i \in 0 .. m + 1
          PROVE  g[i] = IF i = 0 THEN 0 ELSE g[i - 1] + Est(s[i])
        <3>1. CASE i = 0 BY <3>1, <2>1 DEF SumsUp
        <3>2. CASE i # 0 /\ i <= m
            <4>1. i \in 0 .. m /\ i - 1 \in 0 .. m BY <3>2
            <4>2. f[i] = f[i - 1] + Est(s[i]) BY <2>1, <3>2, <4>1 DEF SumsUp
            <4> QED BY <3>2, <4>1, <4>2
        <3>3. CASE i = m + 1
            <4>1. i - 1 = m /\ i # 0 BY <3>3
            <4> QED BY <3>3, <4>1
        <3> QED BY <3>1, <3>2, <3>3
    <2>5. SumsUp(g, s, m + 1) BY <2>4 DEF SumsUp
    <2> QED BY <2>3, <2>5
<1>3. T = Nat
    <2> HIDE DEF T
    <2>1. T \subseteq Nat BY DEF T
    <2> QED BY <1>1, <1>2, <2>1, NatSetInduction
<1> QED BY <1>3

LEMMA SumsAgree ==
    ASSUME NEW s, NEW r, NEW n \in Nat, NEW m \in Nat, n <= m, \A i \in 1 .. n : s[i] = r[i],
           NEW f, SumsUp(f, s, n), NEW g, SumsUp(g, r, m)
    PROVE  f[n] = g[n]
<1> DEFINE T == {i \in Nat : i <= n => f[i] = g[i]}
<1>1. 0 \in T BY DEF SumsUp
<1>2. ASSUME NEW i \in T PROVE i + 1 \in T
    <2> SUFFICES ASSUME i + 1 <= n PROVE f[i + 1] = g[i + 1]
        OBVIOUS
    <2>1. i + 1 \in 0 .. n /\ i + 1 \in 0 .. m /\ i + 1 \in 1 .. n
          /\ i + 1 # 0 /\ (i + 1) - 1 = i
        OBVIOUS
    <2>2. f[i + 1] = f[i] + Est(s[i + 1]) BY <2>1 DEF SumsUp
    <2>3. g[i + 1] = g[i] + Est(r[i + 1]) BY <2>1 DEF SumsUp
    <2> QED BY <2>1, <2>2, <2>3
<1>3. T = Nat
    <2> HIDE DEF T
    <2>1. T \subseteq Nat BY DEF T
    <2> QED BY <1>1, <1>2, <2>1, NatSetInduction
<1> QED BY <1>3

LEMMA SummedIs ==
    ASSUME NEW s \in Seq(Tasks), NEW n \in Nat, n <= Len(s)
    PROVE  SumsUp(Summed(s, n), s, n) /\ Summed(s, n)[n] \in Nat
<1>1. PICK f \in [0 .. n -> Nat] : SumsUp(f, s, n) BY SumsExist
<1>2. SumsUp(Summed(s, n), s, n) BY <1>1 DEF Summed
<1>3. Summed(s, n)[n] = f[n] BY <1>1, <1>2, SumsAgree
<1> QED BY <1>1, <1>2, <1>3

\* The time of a list: of a beginning that two lists share, and with one task more.
LEMMA TimeNat ==
    ASSUME NEW s \in Seq(Tasks), NEW n \in Nat, n <= Len(s)
    PROVE  Time(s, n) \in Nat
BY SummedIs, TimeIs

LEMMA TimeShared ==
    ASSUME NEW s \in Seq(Tasks), NEW r \in Seq(Tasks), NEW n \in Nat,
           n <= Len(s), n <= Len(r), \A i \in 1 .. n : s[i] = r[i]
    PROVE  Time(s, n) = Time(r, n)
<1> DEFINE f == Summed(s, n)
           g == Summed(r, n)
<1>1. SumsUp(f, s, n) /\ SumsUp(g, r, n) BY SummedIs
<1>2. Time(s, n) = f[n] /\ Time(r, n) = g[n] BY TimeIs
<1> HIDE DEF f, g
<1>3. n <= n OBVIOUS
<1>4. ASSUME NEW p, SumsUp(p, s, n), NEW q, SumsUp(q, r, n) PROVE p[n] = q[n]
    BY <1>3, <1>4, SumsAgree, SMTT(30)
<1>5. f[n] = g[n] BY <1>1, <1>4, Zenon
<1> QED BY <1>2, <1>5

LEMMA TimeNext ==
    ASSUME NEW s \in Seq(Tasks), NEW n \in Nat, n + 1 <= Len(s)
    PROVE  Time(s, n + 1) = Time(s, n) + Est(s[n + 1])
<1>1. SumsUp(Summed(s, n), s, n) /\ SumsUp(Summed(s, n + 1), s, n + 1) BY SummedIs
<1>2. Summed(s, n)[n] = Summed(s, n + 1)[n]
    <2>1. n <= n + 1 /\ n + 1 \in Nat /\ \A i \in 1 .. n : s[i] = s[i] OBVIOUS
    <2> QED BY <1>1, <2>1, SumsAgree
<1>3. n + 1 \in 0 .. n + 1 /\ n + 1 # 0 /\ (n + 1) - 1 = n OBVIOUS
<1>4. Summed(s, n + 1)[n + 1] = Summed(s, n + 1)[n] + Est(s[n + 1])
    BY <1>1, <1>3 DEF SumsUp
<1> QED BY <1>2, <1>4, TimeIs

-----------------------------------------------------------------------------
(* Urgency *)

SameModality(t, u) == ModalityOf[Kind[t]] = ModalityOf[Kind[u]]

\* No task of s comes before a more urgent one of its modality.
InOrder(s) ==
    \A i \in DOMAIN s, u \in DueTasks :
        SameModality(s[i], u) /\ (\A j \in 1 .. i : s[j] # u) => due[s[i]] <= due[u]

\* Rows r go after the list s in the order of their urgency.
FollowInOrder(r, s) ==
    \A i \in DOMAIN r, u \in DueTasks :
        SameModality(r[i], u) /\ u \notin Taken(s) /\ (\A j \in 1 .. i : r[j] # u)
            => due[r[i]] <= due[u]

LEMMA AppendedInOrder ==
    ASSUME NEW s \in Seq(Tasks), NEW r \in Seq(Tasks), InOrder(s), FollowInOrder(r, s)
    PROVE  InOrder(s \o r)
<1>1. /\ DOMAIN s = 1 .. Len(s) /\ DOMAIN r = 1 .. Len(r)
      /\ Len(s) \in Nat /\ Len(r) \in Nat
      /\ DOMAIN (s \o r) = 1 .. Len(s) + Len(r)
    OBVIOUS
<1>2. \A i \in 1 .. Len(s) : (s \o r)[i] = s[i] OBVIOUS
<1>3. \A i \in 1 .. Len(r) : (s \o r)[Len(s) + i] = r[i] OBVIOUS
<1> SUFFICES ASSUME NEW i \in 1 .. Len(s) + Len(r), NEW u \in DueTasks,
                    SameModality((s \o r)[i], u), \A j \in 1 .. i : (s \o r)[j] # u
             PROVE  due[(s \o r)[i]] <= due[u]
    BY <1>1 DEF InOrder
<1> DEFINE c == s \o r
<1> HIDE DEF c
<1>4. CASE i <= Len(s)
    <2>1. i \in 1 .. Len(s) /\ \A j \in 1 .. i : j \in 1 .. Len(s) BY <1>1, <1>4
    <2>2. c[i] = s[i] /\ \A j \in 1 .. i : s[j] # u BY <1>2, <2>1 DEF c
    <2>3. SameModality(s[i], u) BY <2>2 DEF c
    <2>4. due[s[i]] <= due[u] BY <1>1, <2>1, <2>2, <2>3 DEF InOrder
    <2> QED BY <2>2, <2>4 DEF c
<1>5. CASE i > Len(s)
    <2> DEFINE l == i - Len(s)
    <2>1. /\ l \in 1 .. Len(r) /\ i = Len(s) + l
          /\ \A j \in 1 .. Len(s) : j \in 1 .. i
          /\ \A j \in 1 .. l : j \in 1 .. Len(r) /\ Len(s) + j \in 1 .. i
        BY <1>1, <1>5
    <2> HIDE DEF l
    <2>2. c[i] = r[l] BY <1>3, <2>1 DEF c
    <2>3. u \notin Taken(s)
        <3>1. \A j \in 1 .. Len(s) : s[j] # u BY <1>2, <2>1
        <3> QED BY <1>1, <3>1 DEF Taken
    <2>4. \A j \in 1 .. l : r[j] # u BY <1>3, <2>1
    <2>5. SameModality(r[l], u) BY <2>2 DEF c
    <2>6. due[r[l]] <= due[u] BY <1>1, <2>1, <2>3, <2>4, <2>5 DEF FollowInOrder
    <2> QED BY <2>2, <2>6 DEF c
<1> QED BY <1>1, <1>4, <1>5

\* As long as nothing changes: the list is due and in order, it is complete when the
\* budget is looked at, and what is returned is the beginning that fits.
OrderInv ==
    /\ changed = 0 =>
          /\ Taken(selected) \subseteq DueTasks
          /\ InOrder(selected)
          /\ pc \in {"budget", "done"} => Len(selected) = Wanted \/ DueTasks \subseteq Taken(selected)
    /\ given = IF pc = "done" THEN SubSeq(selected, 1, Kept) ELSE <<>>

LEMMA OrderInit == Init => OrderInv
BY DEF Init, OrderInv, Taken, InOrder

LEMMA RowsTaken ==
    ASSUME NEW S \in SUBSET Tasks, NEW n \in Nat, NEW r \in FirstRows(S, n)
    PROVE  /\ r \in Seq(Tasks) /\ Taken(r) \subseteq S /\ Len(r) <= n
           /\ Distinct(r) /\ Leads(r, S)
           /\ Len(r) = n \/ Taken(r) = S
<1>1. r \in Seq(S) /\ Len(r) <= n /\ Distinct(r) BY FirstRowsList
<1>2. Taken(r) \subseteq S /\ r \in Seq(Tasks) BY <1>1 DEF Taken
<1> QED BY <1>1, <1>2 DEF FirstRows

\* What a list holds is as many as it is long.
LEMMA TakenCount ==
    ASSUME NEW s \in Seq(Tasks)
    PROVE  /\ IsFiniteSet(Taken(s)) /\ Cardinality(Taken(s)) \in Nat
           /\ Cardinality(Taken(s)) <= Len(s)
<1>1. DOMAIN s = 1 .. Len(s) /\ Len(s) \in Nat OBVIOUS
<1>2. IsFiniteSet(DOMAIN s) /\ Cardinality(DOMAIN s) = Len(s)
    <2>1. 1 \in Int /\ Len(s) \in Int /\ (1 > Len(s) => Len(s) = 0) /\ Len(s) - 1 + 1 = Len(s)
        BY <1>1
    <2>2. /\ IsFiniteSet(1 .. Len(s))
          /\ Cardinality(1 .. Len(s)) = IF 1 > Len(s) THEN 0 ELSE Len(s) - 1 + 1
        BY <2>1, FS_Interval, Zenon
    <2> QED BY <1>1, <2>1, <2>2
<1>3. s \in Surjection(DOMAIN s, Taken(s)) BY <1>1 DEF Surjection, Taken
<1>4. IsFiniteSet(Taken(s)) /\ Cardinality(Taken(s)) <= Cardinality(DOMAIN s)
    BY <1>2, <1>3, FS_Surjection
<1> QED BY <1>2, <1>4, FS_CardinalityType

LEMMA OrderModality ==
    ASSUME ListInv, ListInv', OrderInv, NEW m \in Modalities, DueByModality(m)
    PROVE  OrderInv'
<1>1. PICK rows \in FirstRows(Of(m), Mix[m]) : Select(rows, m) BY DEF DueByModality
<1>2. /\ pc = m /\ selected' = selected \o rows /\ pc' = After(m, selected')
      /\ UNCHANGED <<due, live, now, given, changed>>
    BY <1>1 DEF DueByModality, Select, cards
<1>3. Of(m) \in SUBSET Tasks /\ Of(m) \subseteq DueTasks
    BY DEF ListInv, TypeOK, Of, DueTasks
<1>4. rows \in Seq(Tasks) /\ Taken(rows) \subseteq Of(m) /\ Leads(rows, Of(m)) /\ Distinct(rows)
    BY <1>1, <1>3, RowsTaken, WantedNat
<1>5. selected \in Seq(Tasks) /\ Distinct(selected) BY DEF ListInv, TypeOK, NoTaskTwice
<1>6. given' = <<>> /\ pc' # "done"
    BY <1>2 DEF OrderInv, After, Modalities
<1> SUFFICES ASSUME changed = 0
             PROVE  /\ Taken(selected') \subseteq DueTasks
                    /\ InOrder(selected')
                    /\ pc' \in {"budget", "done"} => Len(selected') = Wanted
    BY <1>2, <1>6 DEF OrderInv, InOrder, DueTasks
<1>7. Taken(selected') \subseteq DueTasks
    <2>1. Taken(selected) \cap Taken(rows) = {}
        <3>1. \A t \in Taken(rows) : ModalityOf[Kind[t]] = m BY <1>4 DEF Of
        <3>2. \A t \in Taken(selected) : ModalityOf[Kind[t]] # m
            BY <1>2 DEF ListInv, Before, Modalities
        <3> QED BY <3>1, <3>2
    <2>2. Taken(selected') = Taken(selected) \cup Taken(rows)
        BY <1>2, <1>4, <1>5, <2>1, Appended
    <2> QED BY <1>3, <1>4, <2>2 DEF OrderInv
<1>8. InOrder(selected')
    <2>1. FollowInOrder(rows, selected)
        <3> SUFFICES ASSUME NEW i \in DOMAIN rows, NEW u \in DueTasks,
                            SameModality(rows[i], u), \A j \in 1 .. i : rows[j] # u
                     PROVE  due[rows[i]] <= due[u]
            BY DEF FollowInOrder
        <3>1. rows[i] \in Of(m) BY <1>4 DEF Taken
        <3>2. u \in Of(m) BY <3>1 DEF Of, SameModality
        <3> QED BY <1>4, <3>2 DEF Leads
    <2> QED BY <1>2, <1>4, <1>5, <2>1, AppendedInOrder DEF OrderInv
<1>9. pc' \in {"budget", "done"} => Len(selected') = Wanted
    <2>1. Len(selected') <= Wanted /\ Len(selected') \in Nat BY DEF ListInv, TypeOK
    <2> QED BY <1>2, <2>1, WantedNat DEF After, Modalities
<1> QED BY <1>7, <1>8, <1>9

LEMMA OrderAny ==
    ASSUME ListInv, ListInv', OrderInv, DueAny
    PROVE  OrderInv'
<1>0. PICK more \in More :
         \E rows \in FirstRows(Unseen(more), Lacking) : selected' = selected \o rows
    BY DEF DueAny
<1>1. PICK rows \in FirstRows(Unseen(more), Lacking) : selected' = selected \o rows
    BY <1>0
<1>2. pc = "any" /\ pc' = "budget" /\ UNCHANGED <<due, live, now, given, changed>>
    BY DEF DueAny, cards
<1>3. /\ selected \in Seq(Tasks) /\ Len(selected) \in Nat /\ Distinct(selected)
      /\ Lacking = Wanted - Len(selected) /\ Lacking \in Nat
    BY WantedNat DEF ListInv, TypeOK, NoTaskTwice, Lacking
<1>4. /\ Unseen(more) \in SUBSET Tasks /\ Unseen(more) \subseteq DueTasks
      /\ more \subseteq DueTasks
      /\ \A t \in more, u \in DueTasks \ more : due[t] <= due[u]
      /\ Cardinality(more) = TopUp \/ more = DueTasks
    BY <1>1 DEF More, Urgent, Unseen, DueTasks, ListInv, TypeOK
<1>5. /\ rows \in Seq(Tasks) /\ Taken(rows) \subseteq Unseen(more) /\ Distinct(rows)
      /\ Leads(rows, Unseen(more)) /\ Len(rows) <= Lacking
      /\ Len(rows) = Lacking \/ Taken(rows) = Unseen(more)
    BY <1>1, <1>3, <1>4, RowsTaken
<1>6. given' = <<>> /\ pc' # "done" BY <1>2 DEF OrderInv
<1> SUFFICES ASSUME changed = 0
             PROVE  /\ Taken(selected') \subseteq DueTasks
                    /\ InOrder(selected')
                    /\ Len(selected') = Wanted \/ DueTasks \subseteq Taken(selected')
    BY <1>2, <1>6 DEF OrderInv, InOrder, DueTasks
<1>7. /\ Taken(selected') = Taken(selected) \cup Taken(rows)
      /\ Len(selected') = Len(selected) + Len(rows)
    <2>1. Taken(selected) \cap Taken(rows) = {} BY <1>5 DEF Unseen
    <2> QED BY <1>1, <1>3, <1>5, <2>1, Appended
<1>8. InOrder(selected')
    <2>1. FollowInOrder(rows, selected)
        <3> SUFFICES ASSUME NEW i \in DOMAIN rows, NEW u \in DueTasks, u \notin Taken(selected),
                            \A j \in 1 .. i : rows[j] # u
                     PROVE  due[rows[i]] <= due[u]
            BY DEF FollowInOrder
        <3>1. rows[i] \in more BY <1>5 DEF Taken, Unseen
        <3>2. CASE u \in more BY <1>5, <3>2 DEF Leads, Unseen
        <3>3. CASE u \notin more BY <1>4, <3>1, <3>3
        <3> QED BY <3>2, <3>3
    <2> QED BY <1>1, <1>3, <1>5, <2>1, AppendedInOrder DEF OrderInv
<1>9. Len(selected') = Wanted \/ DueTasks \subseteq Taken(selected')
    <2>1. CASE Len(rows) = Lacking
        BY <1>3, <1>7, <2>1, WantedNat
    <2>2. CASE Taken(rows) = Unseen(more)
        <3>1. more \subseteq Taken(selected') BY <1>7, <2>2 DEF Unseen
        <3>2. CASE more = DueTasks BY <3>1, <3>2
        <3>3. CASE Cardinality(more) = TopUp
            <4>1. /\ selected' \in Seq(Tasks) /\ Len(selected') \in Nat
                  /\ Len(selected') <= Wanted
                BY DEF ListInv, TypeOK
            <4>2. /\ IsFiniteSet(Taken(selected')) /\ Cardinality(Taken(selected')) \in Nat
                  /\ Cardinality(Taken(selected')) <= Len(selected')
                BY <4>1, TakenCount
            <4>3. Cardinality(more) <= Cardinality(Taken(selected'))
                BY <3>1, <4>2, FS_Subset
            <4> QED BY <3>3, <4>1, <4>2, <4>3, WantedNat, ComposerAssumption
        <3> QED BY <1>4, <3>2, <3>3
    <2> QED BY <1>5, <2>1, <2>2
<1> QED BY <1>3, <1>4, <1>5, <1>7, <1>8, <1>9 DEF OrderInv

LEMMA OrderNext == ListInv /\ OrderInv /\ [Next]_vars => OrderInv'
<1> SUFFICES ASSUME ListInv, OrderInv, [Next]_vars PROVE OrderInv'
    OBVIOUS
<1>0. ListInv' BY NextList
<1>1. CASE UNCHANGED vars
    BY <1>1 DEF vars, cards, OrderInv, InOrder, DueTasks, Kept, Fits
<1>2. CASE FitBudget
    <2>1. /\ given' = SubSeq(selected, 1, Kept) /\ pc' = "done" /\ pc = "budget"
          /\ UNCHANGED <<due, live, now, selected, changed>>
        BY <1>2 DEF FitBudget, cards
    <2>2. Kept' = Kept BY <2>1 DEF Kept, Fits
    <2> QED BY <2>1, <2>2 DEF OrderInv, InOrder, DueTasks
<1>3. CASE QueryFails
    <2>1. /\ pc' = "failed" /\ pc # "done"
          /\ UNCHANGED <<due, live, now, selected, given, changed>>
        BY <1>3 DEF QueryFails, Modalities, cards
    <2> QED BY <2>1 DEF OrderInv, InOrder, DueTasks
<1>4. CASE Tick \/ \E t \in Tasks : Study(t) \/ Flag(t)
    <2>1. pc # "done" /\ UNCHANGED <<pc, given>> /\ changed' = changed + 1
        BY <1>4 DEF Tick, Study, Flag, Other, Composing
    <2>2. changed' # 0 BY <2>1 DEF ListInv, TypeOK
    <2> QED BY <2>1, <2>2 DEF OrderInv
<1> QED BY <1>0, <1>1, <1>2, <1>3, <1>4, OrderModality, OrderAny DEF Next

-----------------------------------------------------------------------------
(* The budget *)

\* What is kept is the longest beginning of the list all of whose tasks fit.
LEMMA KeptIs ==
    ASSUME selected \in Seq(Tasks)
    PROVE  /\ Kept \in 0 .. Len(selected)
           /\ \A n \in 1 .. Kept : Fits(selected, n)
           /\ Kept < Len(selected) => ~ Fits(selected, Kept + 1)
<1>0. DOMAIN selected = 1 .. Len(selected) /\ Len(selected) \in Nat OBVIOUS
<1> DEFINE F == {n \in DOMAIN selected : \A i \in 1 .. n : Fits(selected, i)}
           out == {n \in 1 .. Len(selected) + 1 : n \notin F}
<1>1. PICK k \in out : \A n \in out : ~ (n < k)
    <2>1. IsWellFoundedOn(Below, Nat)
        BY NatLessThanWellFounded DEF OpToRel, Below
    <2>2. Len(selected) + 1 \in out BY <1>0
    <2>3. out \subseteq Nat OBVIOUS
    <2> HIDE DEF out
    <2>4. PICK k \in out : \A n \in out : <<n, k>> \notin Below BY <2>1, <2>2, <2>3, WFMin
    <2> QED BY <2>3, <2>4 DEF Below
<1>2. F = 1 .. k - 1
    <2>1. \A n \in 1 .. k - 1 : n \in F BY <1>0, <1>1
    <2>2. ASSUME NEW n \in F, n >= k PROVE FALSE
        <3>1. \A i \in 1 .. k : i \in 1 .. n /\ i \in DOMAIN selected BY <1>0, <2>2
        <3>2. k \in F BY <1>0, <1>1, <3>1
        <3> QED BY <3>2
    <2> QED BY <1>0, <2>1, <2>2
<1>3. Kept = k - 1
    <2>1. Cardinality(1 .. k - 1) = k - 1 BY <1>0, FS_Interval
    <2> QED BY <1>2, <2>1 DEF Kept
<1>4. \A n \in 1 .. Kept : Fits(selected, n)
    <2>1. \A n \in F : Fits(selected, n)
        <3>1. \A n \in F : n \in 1 .. n BY <1>0
        <3> QED BY <3>1
    <2> QED BY <1>2, <1>3, <2>1
<1>5. ASSUME Kept < Len(selected) PROVE ~ Fits(selected, Kept + 1)
    <2>1. k \in DOMAIN selected /\ Kept + 1 = k BY <1>0, <1>3, <1>5
    <2>2. PICK i \in 1 .. k : ~ Fits(selected, i) BY <2>1
    <2>3. i = k BY <1>0, <1>3, <1>4, <2>2
    <2> QED BY <2>1, <2>2, <2>3
<1> QED BY <1>0, <1>3, <1>4, <1>5

LEMMA FilledByBudget ==
    ASSUME ListInv, OrderInv
    PROVE  UrgentFirst /\ Filled
<1>0. /\ selected \in Seq(Tasks) /\ Len(selected) \in Nat /\ Distinct(selected)
      /\ Len(selected) <= Wanted
      /\ DOMAIN selected = 1 .. Len(selected)
    BY DEF ListInv, TypeOK, NoTaskTwice
<1>1. CASE pc # "done"
    <2>1. given = <<>> BY <1>1 DEF OrderInv
    <2> QED BY <1>1, <2>1 DEF UrgentFirst, Filled, Undisturbed
<1>2. CASE pc = "done"
    <2>1. /\ Kept \in 0 .. Len(selected)
          /\ \A n \in 1 .. Kept : Fits(selected, n)
          /\ Kept < Len(selected) => ~ Fits(selected, Kept + 1)
        BY <1>0, KeptIs
    <2> DEFINE k == Kept
    <2>2. /\ given \in Seq(Tasks) /\ Len(given) = k /\ k \in Nat
          /\ DOMAIN given = 1 .. k
          /\ \A n \in 1 .. k : given[n] = selected[n]
        <3>1. given = SubSeq(selected, 1, Kept) BY <1>2 DEF OrderInv
        <3> HIDE DEF k
        <3>2. k \in 0 .. Len(selected) /\ given = SubSeq(selected, 1, k) BY <2>1, <3>1 DEF k
        <3> QED BY <1>0, <3>2
    <2> HIDE DEF k
    <2>3. k \in 0 .. Len(selected) /\ Len(given) <= Len(selected)
        BY <2>1, <2>2 DEF k
    <2>4. Time(given, k) = Time(selected, k) /\ Time(given, k) \in Nat
        BY <1>0, <2>2, <2>3, TimeShared, TimeNat
    <2>5. Taken(given) = {selected[n] : n \in 1 .. k} BY <2>2 DEF Taken
    <2>6. UrgentFirst
        <3> SUFFICES ASSUME changed = 0, NEW t \in Taken(given), NEW u \in LeftOut, SameModality(t, u)
                     PROVE  due[t] <= due[u]
            BY DEF UrgentFirst, Undisturbed, SameModality
        <3>1. PICK n \in 1 .. k : t = selected[n] BY <2>5
        <3>2. n \in DOMAIN selected /\ \A j \in 1 .. n : j \in 1 .. k BY <1>0, <2>3
        <3>3. u \in DueTasks /\ \A j \in 1 .. n : selected[j] # u BY <2>5, <3>2 DEF LeftOut
        <3> QED BY <3>1, <3>2, <3>3 DEF OrderInv, InOrder
    <2>7. Len(given) > 1 => Time(given, Len(given)) <= Budget
        <3> SUFFICES ASSUME k > 1 PROVE Time(given, k) <= Budget
            BY <2>2
        <3>1. k \in 1 .. Kept BY <2>2 DEF k
        <3>2. Fits(selected, k) BY <2>1, <3>1
        <3> QED BY <2>4, <3>2 DEF Fits
    <2>8. ASSUME changed = 0
          PROVE  \/ LeftOut = {}
                 \/ Len(given) = Wanted
                 \/ /\ given # <<>>
                    /\ \E t \in LeftOut : Time(given, Len(given)) + Est(t) > Budget
        <3>1. CASE k = Len(selected)
            <4>1. Taken(given) = Taken(selected) BY <1>0, <2>5, <3>1 DEF Taken
            <4> QED BY <1>2, <2>2, <2>8, <3>1, <4>1 DEF OrderInv, LeftOut
        <3>2. CASE k < Len(selected)
            <4>1. k + 1 \in 1 .. Len(selected) /\ ~ Fits(selected, k + 1)
                BY <2>1, <2>2, <3>2 DEF k
            <4>2. k + 1 # 1 /\ ~ (Time(selected, k + 1) <= Budget) BY <4>1 DEF Fits
            <4>3. Time(selected, k + 1) = Time(selected, k) + Est(selected[k + 1])
                BY <1>0, <2>2, <4>1, TimeNext
            <4>4. Est(selected[k + 1]) \in Nat BY <1>0, <4>1, EstNat
            <4>5. Time(given, Len(given)) + Est(selected[k + 1]) > Budget
                BY <2>2, <2>4, <4>2, <4>3, <4>4, ComposerAssumption
            <4>6. selected[k + 1] \in DueTasks
                BY <1>0, <2>8, <4>1 DEF OrderInv, Taken
            <4>7. selected[k + 1] \notin Taken(given)
                <5>1. ASSUME NEW n \in 1 .. k, selected[n] = selected[k + 1] PROVE FALSE
                    <6>1. n \in DOMAIN selected /\ k + 1 \in DOMAIN selected /\ n # k + 1
                        BY <1>0, <2>3, <4>1
                    <6> QED BY <1>0, <5>1, <6>1 DEF Distinct
                <5> QED BY <2>5, <5>1
            <4>8. given # <<>> BY <2>2, <4>2
            <4> QED BY <4>5, <4>6, <4>7, <4>8 DEF LeftOut
        <3> QED BY <2>3, <3>1, <3>2
    <2> QED BY <2>6, <2>7, <2>8 DEF Filled, Undisturbed
<1> QED BY <1>1, <1>2

LEMMA OrderInvariant == Spec => [](ListInv /\ OrderInv)
BY InitList, NextList, OrderInit, OrderNext, PTL DEF Spec

\* If nothing changed meanwhile, no task was left out, by quota, top-up or budget, that
\* was more urgent than one of its modality in the session.
THEOREM MostUrgentFirst == Spec => []UrgentFirst
<1>1. ListInv /\ OrderInv => UrgentFirst BY FilledByBudget
<1> QED BY <1>1, OrderInvariant, PTL

\* A session of several tasks fits its time, and one composed undisturbed fills it.
THEOREM SessionFilled == Spec => []Filled
<1>1. ListInv /\ OrderInv => Filled BY FilledByBudget
<1> QED BY <1>1, OrderInvariant, PTL
=============================================================================
