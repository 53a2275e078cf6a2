---------------------------- MODULE AnswersProofs ----------------------------
(* The day's budget, the hard gates and silence, for every set of handlers   *)
(* and inputs, every alphabet, every budget and every number of days; and    *)
(* what the normal forms and the edit distance are of every text.            *)
EXTENDS Answers, FiniteSetTheorems, WellFoundedInduction, TLAPS

-----------------------------------------------------------------------------
(* The graders *)

LEMMA GradeType ==
    ASSUME NEW refs, NEW s
    PROVE  simToGrade(refs, s) \in 0 .. 5
<1> DEFINE S == {g \in 1 .. 5 : Reaches(refs, s, Thresholds[g])}
<1>1. IsFiniteSet(1 .. 5) /\ Cardinality(1 .. 5) = 5
    <2>1. 1 \in Int /\ 5 \in Int OBVIOUS
    <2>2. IsFiniteSet(1 .. 5) /\ Cardinality(1 .. 5) = IF 1 > 5 THEN 0 ELSE 5 - 1 + 1
        BY <2>1, FS_Interval, Zenon
    <2> QED BY <2>2
<1>2. IsFiniteSet(S) /\ Cardinality(S) <= 5
    BY <1>1, FS_Subset
<1>3. Cardinality(S) \in Nat
    BY <1>2, FS_CardinalityType
<1> QED BY <1>2, <1>3 DEF simToGrade

LEMMA FuzzyType ==
    ASSUME NEW task, NEW refs, NEW ua
    PROVE  /\ Fuzzy(task, refs, ua) \in Verdicts
           /\ Fuzzy(task, refs, ua).ambiguous => task.kind \in TranslationKinds
           /\ Fuzzy(task, refs, ua).by = "fuzzy"
<1>1. \A g \in 0 .. 5, open \in BOOLEAN : Verdict(g, "fuzzy", open) \in Verdicts
    BY DEF Verdict, Verdicts
<1>2. \A g, open : /\ Verdict(g, "fuzzy", open).by = "fuzzy"
                   /\ Verdict(g, "fuzzy", open).ambiguous = open
    BY DEF Verdict
<1>3. PICK g \in 0 .. 5 : \E open \in BOOLEAN :
          /\ Fuzzy(task, refs, ua) = Verdict(g, "fuzzy", open)
          /\ open => task.kind \in TranslationKinds
    <2> DEFINE open == /\ task.kind \in TranslationKinds
                       /\ Reaches(refs, ua, 60) /\ ~Reaches(refs, ua, 90)
               helped == /\ task.kind \in TranslationKinds /\ task.must # {}
                         /\ HasAll(task, ua) /\ Reaches(refs, ua, 50)
    <2>1. Fuzzy(task, refs, ua) = IF helped THEN Verdict(4, "fuzzy", FALSE)
                                  ELSE Verdict(simToGrade(refs, ua), "fuzzy", open)
        BY DEF Fuzzy
    <2>2. open \in BOOLEAN /\ (open => task.kind \in TranslationKinds)
        OBVIOUS
    <2>3. 4 \in 0 .. 5 /\ simToGrade(refs, ua) \in 0 .. 5 BY GradeType
    <2> HIDE DEF open, helped
    <2> QED BY <2>1, <2>2, <2>3, Zenon
<1>4. PICK open \in BOOLEAN :
          /\ Fuzzy(task, refs, ua) = Verdict(g, "fuzzy", open)
          /\ open => task.kind \in TranslationKinds
    BY <1>3
<1> QED BY <1>1, <1>2, <1>4, Zenon

\* What GradeText returns, rule by rule.
LEMMA TextVerdict ==
    ASSUME NEW i
    PROVE  LET v == GradeText(i.task, i.text)
           IN  /\ v \in Verdicts
               /\ v.by # "claude"
               /\ Reference(i) => v.grade = 5
               /\ ~Reference(i) /\ Barred(i) => v.grade = 0
               /\ v.ambiguous => /\ i.task.kind \in TranslationKinds
                                 /\ ~Reference(i) /\ ~Barred(i)
<1> DEFINE ua == Normalize(i.text)
           refs == Normalized(i.task.answers)
           v == GradeText(i.task, i.text)
<1> HIDE DEF ua, refs
<1>0. /\ Reference(i) <=> ua \in refs
      /\ Barred(i) <=> \/ i.task.kind \in ChoiceKinds
                       \/ Missing(i.task, ua) # {}
                       \/ Hit(i.task, ua) # {}
    BY DEF Reference, Barred, ua, refs
<1>1. v = IF ua \in refs THEN Verdict(5, "exact", FALSE)
          ELSE IF i.task.kind \in ChoiceKinds THEN Verdict(0, "exact", FALSE)
          ELSE IF Missing(i.task, ua) # {} THEN Verdict(0, "critical", FALSE)
          ELSE IF Hit(i.task, ua) # {} THEN Verdict(0, "forbidden", FALSE)
          ELSE Fuzzy(i.task, refs, ua)
    BY DEF GradeText, ua, refs
<1> HIDE DEF v
<1>2. \A by \in {"exact", "critical", "forbidden"}, g \in {0, 5} :
          /\ Verdict(g, by, FALSE) \in Verdicts
          /\ Verdict(g, by, FALSE).by # "claude"
          /\ Verdict(g, by, FALSE).grade = g
          /\ ~Verdict(g, by, FALSE).ambiguous
    BY DEF Verdict, Verdicts
<1>3. CASE ua \in refs BY <1>0, <1>1, <1>2, <1>3 DEF v
<1>4. CASE ua \notin refs /\ Barred(i)
    <2>1. \E by \in {"exact", "critical", "forbidden"} : v = Verdict(0, by, FALSE)
        BY <1>0, <1>1, <1>4
    <2> QED BY <1>0, <1>2, <1>4, <2>1 DEF v
<1>5. CASE ua \notin refs /\ ~Barred(i)
    <2>1. v = Fuzzy(i.task, refs, ua) BY <1>0, <1>1, <1>5
    <2> QED BY <1>0, <1>5, <2>1, FuzzyType DEF v
<1> QED BY <1>3, <1>4, <1>5

LEMMA SpeechVerdict ==
    ASSUME NEW task, NEW text
    PROVE  GradeSpeech(task, text) \in Verdicts /\ GradeSpeech(task, text).by # "claude"
BY GradeType DEF GradeSpeech, Verdict, Verdicts

LEMMA ClampedType == ASSUME NEW n \in Int PROVE Clamped(n) \in 0 .. 5
BY DEF Clamped

-----------------------------------------------------------------------------
(* The inductive invariant: the verdicts saved obey the gates because only    *)
(* answers that no gate decides are ever on their way to Claude.              *)

IInv == TypeOK /\ OnlyOpenAnswersAsked /\ GatesHold

LEMMA IInvInit == Init => IInv
<1> SUFFICES ASSUME Init PROVE IInv
    OBVIOUS
<1>1. TypeOK BY AnswersAssumption DEF Init, TypeOK, Steps
<1> QED BY <1>1 DEF Init, IInv, OnlyOpenAnswersAsked, GatesHold

\* A step of one handler leaves what is said of the others as it was.
Own(h) ==
    /\ pc[h] = "listen" => input[h].task.kind = "speak"
    /\ pc[h] \in {"count", "call"} =>
          /\ input[h].task.kind \in TranslationKinds
          /\ ~Reference(input[h]) /\ ~Barred(input[h])
    /\ pc[h] = "save" =>
          LET i == input[h]
              v == verdict[h]
          IN  /\ v.by = "claude" => i.task.kind \in TranslationKinds
              /\ i.task.kind # "speak" /\ Reference(i) => v.grade = 5
              /\ i.task.kind # "speak" /\ ~Reference(i) /\ Barred(i) => v.grade = 0

LEMMA OwnAll == (OnlyOpenAnswersAsked /\ GatesHold) <=> \A h \in Handlers : Own(h)
BY DEF OnlyOpenAnswersAsked, GatesHold, Own

LEMMA OthersKeep ==
    ASSUME TypeOK, NEW h \in Handlers, \A o \in Handlers : Own(o), Own(h)',
           \A o \in Handlers \ {h} :
               pc'[o] = pc[o] /\ input'[o] = input[o] /\ verdict'[o] = verdict[o]
    PROVE  (OnlyOpenAnswersAsked /\ GatesHold)'
<1>1. \A o \in Handlers : Own(o)'
    <2> TAKE o \in Handlers
    <2>1. CASE o = h BY <2>1
    <2>2. CASE o # h BY <2>2 DEF Own
    <2> QED BY <2>1, <2>2
<1> QED BY <1>1 DEF OnlyOpenAnswersAsked, GatesHold, Own

LEMMA RecordedType ==
    ASSUME TypeOK, NEW h \in Handlers
    PROVE  Recorded(h) \in [1 .. Days -> Nat]
BY DEF TypeOK, Recorded

LEMMA ClearKeeps ==
    ASSUME TypeOK, \A o \in Handlers : Own(o), NEW h \in Handlers, Clear(h),
           UNCHANGED <<today, calls>>
    PROVE  IInv'
<1>1. TypeOK' BY AnswersAssumption DEF TypeOK, Clear, Goto, Steps
<1>2. Own(h)' BY DEF TypeOK, Clear, Goto, Own
<1>3. \A o \in Handlers \ {h} :
          pc'[o] = pc[o] /\ input'[o] = input[o] /\ verdict'[o] = verdict[o]
    BY DEF TypeOK, Clear, Goto
<1> QED BY <1>1, <1>2, <1>3, OthersKeep DEF IInv

LEMMA IInvNext == IInv /\ [Next]_vars => IInv'
<1> SUFFICES ASSUME IInv, [Next]_vars PROVE IInv'
    OBVIOUS
<1>0. TypeOK /\ \A o \in Handlers : Own(o)
    BY OwnAll DEF IInv
<1> DEFINE Rest(h) == \A o \in Handlers \ {h} :
               pc'[o] = pc[o] /\ input'[o] = input[o] /\ verdict'[o] = verdict[o]
<1>a. ASSUME NEW h \in Handlers, TypeOK', Own(h)', Rest(h) PROVE IInv'
    BY <1>0, <1>a, OthersKeep DEF IInv
<1>1. ASSUME NEW h \in Handlers, NEW i \in Inputs, Attempt(h, i) PROVE IInv'
    <2> DEFINE v == GradeText(i.task, i.text)
    <2>1. /\ v \in Verdicts
          /\ v.by # "claude"
          /\ Reference(i) => v.grade = 5
          /\ ~Reference(i) /\ Barred(i) => v.grade = 0
          /\ v.ambiguous => /\ i.task.kind \in TranslationKinds
                            /\ ~Reference(i) /\ ~Barred(i)
        BY TextVerdict
    <2>2. verdict' = [verdict EXCEPT ![h] = v]
        BY <1>1 DEF Attempt
    <2> HIDE DEF v
    <2>3. /\ pc' = [pc EXCEPT ![h] = IF v.ambiguous THEN "count" ELSE "save"]
          /\ input' = [input EXCEPT ![h] = i]
          /\ UNCHANGED <<day, gone, today, calls>>
        BY <1>0, <1>1, <2>2 DEF Attempt, Goto, TypeOK
    <2>4. TypeOK' BY <1>0, <2>1, <2>2, <2>3 DEF TypeOK, Steps
    <2>5. Own(h)' BY <1>0, <2>1, <2>2, <2>3 DEF TypeOK, Own
    <2>6. Rest(h) BY <1>0, <2>2, <2>3 DEF TypeOK
    <2> QED BY <1>a, <2>4, <2>5, <2>6
<1>2. ASSUME NEW h \in Handlers, NEW i \in Inputs, Speak(h, i) PROVE IInv'
    <2>1. TypeOK' BY <1>0, <1>2 DEF TypeOK, Speak, Goto, Steps
    <2>2. Own(h)' BY <1>0, <1>2 DEF TypeOK, Speak, Goto, Own
    <2>3. Rest(h) BY <1>0, <1>2 DEF TypeOK, Speak, Goto
    <2> QED BY <1>a, <2>1, <2>2, <2>3
<1>3. ASSUME NEW h \in Handlers, Transcribe(h) PROVE IInv'
    <2> DEFINE v == GradeSpeech(input[h].task, input[h].text)
    <2>1. v \in Verdicts /\ v.by # "claude" BY SpeechVerdict
    <2>2. verdict' = [verdict EXCEPT ![h] = v] BY <1>3 DEF Transcribe
    <2> HIDE DEF v
    <2>3. TypeOK' BY <1>0, <1>3, <2>1, <2>2 DEF TypeOK, Transcribe, Goto, Steps
    <2>4. Own(h)' BY <1>0, <1>3, <2>1, <2>2 DEF TypeOK, Transcribe, Goto, Own, IInv
    <2>5. Rest(h) BY <1>0, <1>3, <2>2 DEF TypeOK, Transcribe, Goto
    <2> QED BY <1>a, <2>3, <2>4, <2>5
<1>4. ASSUME NEW h \in Handlers, TranscribeFails(h) \/ Save(h) PROVE IInv'
    BY <1>0, <1>4, ClearKeeps DEF TranscribeFails, Save
<1>5. ASSUME NEW h \in Handlers, Count(h) PROVE IInv'
    <2>1. TypeOK' BY <1>0, <1>5 DEF TypeOK, Count, Goto, Steps
    <2>2. Own(h)' BY <1>0, <1>5 DEF TypeOK, Count, Goto, Own
    <2>3. Rest(h) BY <1>0, <1>5 DEF TypeOK, Count, Goto
    <2> QED BY <1>a, <2>1, <2>2, <2>3
<1>6. ASSUME NEW h \in Handlers, NEW n \in Scores, ClaudeGrades(h, n) PROVE IInv'
    <2>1. Clamped(n) \in 0 .. 5 BY AnswersAssumption, ClampedType
    <2>2. calls' \in [1 .. Days -> Nat]
        BY <1>0, <1>6, RecordedType DEF ClaudeGrades
    <2>3. TypeOK'
        BY <1>0, <1>6, <2>1, <2>2 DEF TypeOK, ClaudeGrades, Goto, Steps, Verdict, Verdicts
    <2>4. Own(h)' BY <1>0, <1>6 DEF TypeOK, ClaudeGrades, Goto, Own, Verdict
    <2>5. Rest(h) BY <1>0, <1>6 DEF TypeOK, ClaudeGrades, Goto
    <2> QED BY <1>a, <2>3, <2>4, <2>5
<1>7. ASSUME NEW h \in Handlers, ClaudeFails(h) PROVE IInv'
    <2>1. calls' \in [1 .. Days -> Nat]
        BY <1>0, <1>7, RecordedType DEF ClaudeFails
    <2>2. TypeOK' BY <1>0, <1>7, <2>1 DEF TypeOK, ClaudeFails, Goto, Steps
    <2>3. Own(h)' BY <1>0, <1>7 DEF TypeOK, ClaudeFails, Goto, Own
    <2>4. Rest(h) BY <1>0, <1>7 DEF TypeOK, ClaudeFails, Goto
    <2> QED BY <1>a, <2>2, <2>3, <2>4
<1>8. ASSUME NEW h \in Handlers, Leave(h) PROVE IInv'
    <2>1. TypeOK' BY <1>0, <1>8 DEF TypeOK, Leave
    <2>2. Own(h)' BY <1>0, <1>8 DEF Leave, Own
    <2>3. Rest(h) BY <1>0, <1>8 DEF TypeOK, Leave
    <2> QED BY <1>a, <2>1, <2>2, <2>3
<1>9. CASE Restart
    <2>1. TypeOK' BY <1>0, <1>9, AnswersAssumption DEF TypeOK, Restart, Steps
    <2> QED BY <2>1, <1>9 DEF Restart, IInv, OnlyOpenAnswersAsked, GatesHold
<1>10. CASE NextDay
    <2>1. TypeOK' BY <1>0, <1>10, AnswersAssumption DEF TypeOK, NextDay
    <2> QED BY <2>1, <1>10 DEF NextDay, IInv, OnlyOpenAnswersAsked, GatesHold
<1>11. CASE UNCHANGED vars
    <2>1. TypeOK' BY <1>0, <1>11 DEF TypeOK, vars
    <2> QED BY <2>1, <1>11 DEF vars, IInv, OnlyOpenAnswersAsked, GatesHold
<1> QED BY <1>1, <1>2, <1>3, <1>4, <1>5, <1>6, <1>7, <1>8, <1>9, <1>10, <1>11
        DEF Next, HandlerStep

\* Every handler's record keeps its type through cancellations and restarts.
THEOREM TypeCorrect == Spec => []TypeOK
<1>1. IInv => TypeOK BY DEF IInv
<1> QED BY <1>1, IInvInit, IInvNext, PTL DEF Spec

\* What a gate of grade.go decides is what is saved, whatever Claude says.
THEOREM GatesAlwaysHold == Spec => []GatesHold
<1>1. IInv => GatesHold BY DEF IInv
<1> QED BY <1>1, IInvInit, IInvNext, PTL DEF Spec

-----------------------------------------------------------------------------
(* The budget.  TypeOK is all it needs besides itself.                        *)

LEMMA InFlightFinite ==
    \A d : /\ IsFiniteSet(InFlight(d)) /\ Cardinality(InFlight(d)) \in Nat
          /\ Cardinality(Handlers) \in Nat
          /\ Cardinality(InFlight(d)) <= Cardinality(Handlers)
<1> TAKE d
<1>1. InFlight(d) \in SUBSET Handlers BY DEF InFlight
<1>2. IsFiniteSet(Handlers) BY AnswersAssumption
<1>3. /\ IsFiniteSet(InFlight(d))
      /\ Cardinality(InFlight(d)) <= Cardinality(Handlers)
    BY <1>1, <1>2, FS_Subset
<1> QED BY <1>2, <1>3, FS_CardinalityType

\* Fewer calls under way and no new row.
LEMMA FewerKeeps ==
    ASSUME TypeOK, BudgetBound, calls' = calls,
           \A d \in 1 .. Days : InFlight(d)' \subseteq InFlight(d)
    PROVE  BudgetBound'
<1> SUFFICES ASSUME NEW d \in 1 .. Days
             PROVE  calls[d] + Cardinality(InFlight(d)')
                        <= IF Budget = 0 THEN 0 ELSE Budget - 1 + Cardinality(Handlers)
    BY DEF BudgetBound
<1>1. IsFiniteSet(InFlight(d)) /\ Cardinality(InFlight(d)) \in Nat /\ Cardinality(Handlers) \in Nat
    BY InFlightFinite
<1>2. IsFiniteSet(InFlight(d)') /\ Cardinality(InFlight(d)') <= Cardinality(InFlight(d))
    BY <1>1, FS_Subset
<1>3. Cardinality(InFlight(d)') \in Nat BY <1>2, FS_CardinalityType
<1>4. calls[d] + Cardinality(InFlight(d))
          <= IF Budget = 0 THEN 0 ELSE Budget - 1 + Cardinality(Handlers)
    BY DEF BudgetBound
<1>5. calls[d] \in Nat BY DEF TypeOK
<1> QED BY <1>1, <1>2, <1>3, <1>4, <1>5, AnswersAssumption

\* A call that comes back is a row where there was a call under way.
LEMMA ReturnKeeps ==
    ASSUME TypeOK, BudgetBound, NEW h \in Handlers, pc[h] = "call",
           calls' = Recorded(h), day' = day, pc' = [pc EXCEPT ![h] = "save"]
    PROVE  BudgetBound'
<1> SUFFICES ASSUME NEW d \in 1 .. Days
             PROVE  calls'[d] + Cardinality(InFlight(d)')
                        <= IF Budget = 0 THEN 0 ELSE Budget - 1 + Cardinality(Handlers)
    BY DEF BudgetBound
<1>1. InFlight(d)' = InFlight(d) \ {h} BY DEF InFlight, TypeOK
<1>2. IsFiniteSet(InFlight(d)) /\ Cardinality(InFlight(d)) \in Nat /\ Cardinality(Handlers) \in Nat
    BY InFlightFinite
<1>3. Cardinality(InFlight(d)') =
          IF h \in InFlight(d) THEN Cardinality(InFlight(d)) - 1 ELSE Cardinality(InFlight(d))
    BY <1>1, <1>2, FS_RemoveElement
<1>4. h \in InFlight(d) <=> day[h] = d BY DEF InFlight
<1>5. calls[d] \in Nat /\ calls'[d] \in {calls[d], calls[d] + 1}
      /\ (day[h] # d => calls'[d] = calls[d])
    BY DEF TypeOK, Recorded
<1>6. calls[d] + Cardinality(InFlight(d))
          <= IF Budget = 0 THEN 0 ELSE Budget - 1 + Cardinality(Handlers)
    BY DEF BudgetBound
<1> QED BY <1>2, <1>3, <1>4, <1>5, <1>6, AnswersAssumption

\* A count below the budget leaves room for every handler.
LEMMA CountKeeps ==
    ASSUME TypeOK, BudgetBound, NEW h \in Handlers, Count(h)
    PROVE  BudgetBound'
<1>1. CASE ~(~gone[h] /\ Budget > 0 /\ Affordable(calls[today]))
    <2>1. calls' = calls /\ \A d \in 1 .. Days : InFlight(d)' \subseteq InFlight(d)
        BY <1>1 DEF Count, Goto, InFlight, TypeOK
    <2> QED BY <2>1, FewerKeeps
<1>2. CASE Budget > 0 /\ Affordable(calls[today]) /\ day' = [day EXCEPT ![h] = today]
           /\ pc' = [pc EXCEPT ![h] = "call"]
    <2> SUFFICES ASSUME NEW d \in 1 .. Days
                 PROVE  calls[d] + Cardinality(InFlight(d)')
                            <= IF Budget = 0 THEN 0 ELSE Budget - 1 + Cardinality(Handlers)
        BY DEF BudgetBound, Count
    <2>1. calls[d] \in Nat /\ Cardinality(Handlers) \in Nat BY InFlightFinite DEF TypeOK
    <2>2. CASE d = today
        <3>1. InFlight(d)' \in SUBSET Handlers BY DEF InFlight
        <3>2. IsFiniteSet(InFlight(d)') /\ Cardinality(InFlight(d)') <= Cardinality(Handlers)
            BY <3>1, AnswersAssumption, FS_Subset
        <3>3. Cardinality(InFlight(d)') \in Nat BY <3>2, FS_CardinalityType
        <3>4. calls[d] <= Budget - 1 BY <1>2, <2>1, <2>2, AnswersAssumption DEF Affordable
        <3> QED BY <1>2, <2>1, <3>2, <3>3, <3>4, AnswersAssumption
    <2>3. CASE d # today
        <3>1. InFlight(d)' \subseteq InFlight(d) BY <1>2, <2>3 DEF InFlight, TypeOK
        <3>2. IsFiniteSet(InFlight(d)) /\ Cardinality(InFlight(d)) \in Nat BY InFlightFinite
        <3>3. IsFiniteSet(InFlight(d)') /\ Cardinality(InFlight(d)') <= Cardinality(InFlight(d))
            BY <3>1, <3>2, FS_Subset
        <3>4. Cardinality(InFlight(d)') \in Nat BY <3>3, FS_CardinalityType
        <3>5. calls[d] + Cardinality(InFlight(d))
                  <= IF Budget = 0 THEN 0 ELSE Budget - 1 + Cardinality(Handlers)
            BY DEF BudgetBound
        <3> QED BY <2>1, <3>2, <3>3, <3>4, <3>5, AnswersAssumption
    <2> QED BY <2>2, <2>3
<1> QED BY <1>1, <1>2 DEF Count, Goto

LEMMA BudgetNext == TypeOK /\ BudgetBound /\ [Next]_vars => BudgetBound'
<1> SUFFICES ASSUME TypeOK, BudgetBound, [Next]_vars PROVE BudgetBound'
    OBVIOUS
<1>1. ASSUME NEW h \in Handlers, NEW i \in Inputs, Attempt(h, i) \/ Speak(h, i)
      PROVE  BudgetBound'
    <2>1. calls' = calls /\ \A d \in 1 .. Days : InFlight(d)' \subseteq InFlight(d)
        BY <1>1 DEF Attempt, Speak, Goto, InFlight, TypeOK
    <2> QED BY <2>1, FewerKeeps
<1>2. ASSUME NEW h \in Handlers, Transcribe(h) \/ TranscribeFails(h) \/ Save(h) \/ Leave(h)
      PROVE  BudgetBound'
    <2>1. calls' = calls /\ \A d \in 1 .. Days : InFlight(d)' \subseteq InFlight(d)
        BY <1>2 DEF Transcribe, TranscribeFails, Save, Leave, Clear, Goto, InFlight, TypeOK
    <2> QED BY <2>1, FewerKeeps
<1>3. ASSUME NEW h \in Handlers, Count(h) PROVE BudgetBound'
    BY <1>3, CountKeeps
<1>4. ASSUME NEW h \in Handlers, ClaudeFails(h) \/ \E n \in Scores : ClaudeGrades(h, n)
      PROVE  BudgetBound'
    <2>1. /\ pc[h] = "call" /\ calls' = Recorded(h) /\ day' = day
          /\ pc' = [pc EXCEPT ![h] = "save"]
        BY <1>4 DEF ClaudeFails, ClaudeGrades, Goto
    <2> QED BY <2>1, ReturnKeeps
<1>5. CASE Restart \/ NextDay \/ UNCHANGED vars
    <2>1. calls' = calls /\ \A d \in 1 .. Days : InFlight(d)' \subseteq InFlight(d)
        BY <1>5 DEF Restart, NextDay, vars, InFlight
    <2> QED BY <2>1, FewerKeeps
<1> QED BY <1>1, <1>2, <1>3, <1>4, <1>5 DEF Next, HandlerStep

LEMMA BudgetInit == Init => BudgetBound
<1> SUFFICES ASSUME Init, NEW d \in 1 .. Days
             PROVE  calls[d] + Cardinality(InFlight(d))
                        <= IF Budget = 0 THEN 0 ELSE Budget - 1 + Cardinality(Handlers)
    BY DEF BudgetBound
<1>1. InFlight(d) = {} /\ calls[d] = 0 BY DEF Init, InFlight
<1>2. Cardinality(InFlight(d)) = 0 BY <1>1, FS_EmptySet
<1>3. Cardinality(Handlers) \in Nat BY InFlightFinite
<1> QED BY <1>1, <1>2, <1>3, AnswersAssumption

\* Whatever is cancelled or restarted, a day's rows and calls under way stay
\* below the budget plus the handlers that run at once.
THEOREM BudgetKept == Spec => []BudgetBound
<1>1. Init => TypeOK /\ BudgetBound BY IInvInit, BudgetInit DEF IInv
<1> QED BY <1>1, BudgetInit, BudgetNext, TypeCorrect, PTL DEF Spec

-----------------------------------------------------------------------------
(* Silence.  What Collapse leaves of a text, one character after another.     *)

Below == {ss \in Nat \X Nat : ss[1] < ss[2]}

\* Induction over the numbers, for a set of them.
LEMMA NatSetInduction ==
    ASSUME NEW T \in SUBSET Nat, 0 \in T, \A n \in T : n + 1 \in T
    PROVE  T = Nat
<1>1. ASSUME Nat \ T # {} PROVE FALSE
    <2>0. IsWellFoundedOn(Below, Nat)
        BY NatLessThanWellFounded DEF OpToRel, Below
    <2>1. PICK x \in Nat \ T : \A y \in Nat \ T : <<y, x>> \notin Below
        BY <1>1, <2>0, WFMin
    <2>2. x - 1 \in Nat /\ x - 1 \notin T BY <2>1
    <2>3. <<x - 1, x>> \in Below BY <2>1, <2>2 DEF Below
    <2> QED BY <2>1, <2>2, <2>3
<1> QED BY <1>1

Emits(f, kept, s, n) ==
    f = [k \in 0 .. n |-> IF k = 0 THEN <<>> ELSE Emit(kept, f[k - 1], Lower[s[k]])]

LEMMA CollapseIs ==
    ASSUME NEW kept, NEW s
    PROVE  Collapse(kept, s) = TrimRight((CHOOSE f : Emits(f, kept, s, Len(s)))[Len(s)])
BY DEF Collapse, Emits

LEMMA EmitsExist ==
    ASSUME NEW kept, NEW s, NEW n \in Nat
    PROVE  \E f : Emits(f, kept, s, n)
<1> DEFINE T == {m \in Nat : \E f : Emits(f, kept, s, m)}
<1>1. 0 \in T
    <2> DEFINE f == [k \in 0 .. 0 |-> <<>>]
    <2>1. Emits(f, kept, s, 0) BY DEF Emits
    <2> QED BY <2>1
<1>2. ASSUME NEW m \in T PROVE m + 1 \in T
    <2>1. PICK f : Emits(f, kept, s, m) OBVIOUS
    <2> DEFINE g == [k \in 0 .. m + 1 |->
                       IF k <= m THEN f[k] ELSE Emit(kept, f[m], Lower[s[m + 1]])]
    <2>2. ASSUME NEW k \in 0 .. m + 1
          PROVE  g[k] = IF k = 0 THEN <<>> ELSE Emit(kept, g[k - 1], Lower[s[k]])
        <3>1. CASE k = 0 BY <3>1, <2>1 DEF Emits
        <3>2. CASE k # 0 /\ k <= m
            <4>1. k \in 0 .. m /\ k - 1 \in 0 .. m + 1 /\ k - 1 <= m BY <3>2
            <4>2. f[k] = Emit(kept, f[k - 1], Lower[s[k]])
                BY <2>1, <3>2, <4>1 DEF Emits
            <4>3. g[k] = f[k] /\ g[k - 1] = f[k - 1] BY <3>2, <4>1
            <4> QED BY <3>2, <4>2, <4>3
        <3>3. CASE k = m + 1
            <4>1. k - 1 = m /\ k # 0 /\ ~ (k <= m) /\ m \in 0 .. m + 1 /\ m <= m BY <3>3
            <4> QED BY <3>3, <4>1
        <3> QED BY <3>1, <3>2, <3>3
    <2>3. Emits(g, kept, s, m + 1) BY <2>2 DEF Emits
    <2>4. m + 1 \in Nat OBVIOUS
    <2> HIDE DEF g
    <2> QED BY <2>3, <2>4
<1>3. T = Nat
    <2> HIDE DEF T
    <2>1. T \subseteq Nat BY DEF T
    <2> QED BY <1>1, <1>2, <2>1, NatSetInduction
<1> QED BY <1>3

\* A text is left of a text.
LEMMA CollapseType ==
    ASSUME NEW kept, NEW s \in Seq(DOMAIN Lower)
    PROVE  Collapse(kept, s) \in Seq(kept \cup {Space})
<1> DEFINE n == Len(s)
           f == CHOOSE f : Emits(f, kept, s, n)
           Texts == Seq(kept \cup {Space})
           T == {m \in Nat : m <= n => f[m] \in Texts}
<1>0. n \in Nat OBVIOUS
<1>1. Emits(f, kept, s, n) BY <1>0, EmitsExist
<1> HIDE DEF f, n
<1>2. 0 \in T
    <2>1. f[0] = <<>> BY <1>0, <1>1 DEF Emits
    <2>2. f[0] \in Texts BY <2>1
    <2> QED BY <2>2
<1>3. ASSUME NEW m \in T PROVE m + 1 \in T
    <2>0. m \in Nat OBVIOUS
    <2>1. ASSUME m + 1 <= n PROVE f[m + 1] \in Texts
        <3>1. m + 1 \in 0 .. n /\ m + 1 # 0 /\ (m + 1) - 1 = m BY <1>0, <2>0, <2>1
        <3>2. f[m + 1] = Emit(kept, f[m], Lower[s[m + 1]]) BY <1>1, <3>1 DEF Emits
        <3>3. f[m] \in Texts BY <1>0, <2>0, <2>1
        <3>4. \A c : \A out \in Texts : Emit(kept, out, c) \in Texts BY DEF Emit
        <3> QED BY <3>2, <3>3, <3>4
    <2> QED BY <2>0, <2>1
<1>4. T = Nat
    <2> HIDE DEF T
    <2>1. T \subseteq Nat BY DEF T
    <2> QED BY <1>2, <1>3, <2>1, NatSetInduction
<1>5. f[n] \in Texts BY <1>0, <1>4
<1>6. \A t \in Texts : TrimRight(t) \in Texts BY DEF TrimRight, Sq!Front
<1> QED BY <1>5, <1>6, CollapseIs DEF f, n

\* Nothing is left of a text in which no character is kept.
LEMMA CollapseNone ==
    ASSUME NEW kept, NEW s \in Seq(DOMAIN Lower), \A k \in DOMAIN s : Lower[s[k]] \notin kept
    PROVE  Collapse(kept, s) = <<>>
<1> DEFINE n == Len(s)
           f == CHOOSE f : Emits(f, kept, s, n)
           T == {m \in Nat : m <= n => f[m] = <<>>}
<1>0. n \in Nat /\ DOMAIN s = 1 .. n OBVIOUS
<1>1. Emits(f, kept, s, n) BY <1>0, EmitsExist
<1> HIDE DEF f, n
<1>2. 0 \in T
    <2>1. f[0] = <<>> BY <1>0, <1>1 DEF Emits
    <2> QED BY <2>1
<1>3. ASSUME NEW m \in T PROVE m + 1 \in T
    <2>0. m \in Nat OBVIOUS
    <2>1. ASSUME m + 1 <= n PROVE f[m + 1] = <<>>
        <3>1. m + 1 \in 0 .. n /\ m + 1 # 0 /\ (m + 1) - 1 = m BY <1>0, <2>0, <2>1
        <3>2. f[m + 1] = Emit(kept, f[m], Lower[s[m + 1]]) BY <1>1, <3>1 DEF Emits
        <3>3. f[m] = <<>> BY <1>0, <2>0, <2>1
        <3>4. Lower[s[m + 1]] \notin kept BY <1>0, <3>1
        <3> QED BY <3>2, <3>3, <3>4 DEF Emit
    <2> QED BY <2>0, <2>1
<1>4. T = Nat
    <2> HIDE DEF T
    <2>1. T \subseteq Nat BY DEF T
    <2> QED BY <1>2, <1>3, <2>1, NatSetInduction
<1>5. f[n] = <<>> BY <1>0, <1>4
<1> QED BY <1>5, CollapseIs DEF TrimRight, f, n

Silent(i) == \A c \in {i.text[k] : k \in DOMAIN i.text} : Lower[c] \notin KeptSpoken
Spoken(i) == \A a \in i.task.answers : NormalizeCyrillicOnly(a) # <<>>

\* Nothing is as far from a reference as can be.
LEMMA SilenceGrade ==
    ASSUME NEW i \in Inputs, Silent(i), Spoken(i)
    PROVE  GradeSpeech(i.task, i.text).grade = 0
<1> DEFINE norm == NormalizeCyrillicOnly(i.text)
           refs == {NormalizeCyrillicOnly(a) : a \in i.task.answers}
<1>0. i.text \in Seq(DOMAIN Lower) /\ i.task.answers \subseteq Seq(DOMAIN Lower)
    BY AnswersAssumption
<1>1. norm = <<>>
    BY <1>0, CollapseNone DEF Silent, NormalizeCyrillicOnly
<1>2. ASSUME NEW a \in refs PROVE a # <<>> /\ a \in Seq(KeptSpoken \cup {Space})
    BY <1>0, CollapseType DEF Spoken, NormalizeCyrillicOnly
<1> HIDE DEF norm, refs
<1>3. ASSUME NEW a \in refs, NEW p \in Nat \ {0} PROVE ~ AtLeast(a, <<>>, p)
    <2>1. Len(a) \in Nat /\ Len(a) > 0 /\ Len(<<>>) = 0 BY <1>2
    <2>2. Levenshtein(a, <<>>) = Len(a) BY <1>2 DEF Levenshtein
    <2>3. p * Len(a) > 0 BY <2>1
    <2>4. 100 * (Len(a) - Len(a)) = 0 BY <2>1
    <2> QED BY <2>1, <2>2, <2>3, <2>4 DEF AtLeast
<1>4. ASSUME NEW g \in 1 .. 5 PROVE ~ Reaches(refs, <<>>, Thresholds[g])
    <2>1. Thresholds[g] \in Nat \ {0} BY DEF Thresholds
    <2> QED BY <1>3, <2>1 DEF Reaches
<1>5. simToGrade(refs, <<>>) = 0
    <2>1. {g \in 1 .. 5 : Reaches(refs, <<>>, Thresholds[g])} = {} BY <1>4
    <2> QED BY <2>1, FS_EmptySet DEF simToGrade
<1>6. GradeSpeech(i.task, i.text) = Verdict(simToGrade(refs, norm), "speech-fuzzy", FALSE)
    BY <1>1 DEF GradeSpeech, norm, refs
<1> QED BY <1>1, <1>5, <1>6 DEF Verdict

\* Whisper's text is graded by GradeSpeech, and no one else grades it.
Heard(h) ==
    pc[h] = "save" /\ input[h].task.kind = "speak"
        => verdict[h] = GradeSpeech(input[h].task, input[h].text)
SpeechInv == \A h \in Handlers : Heard(h)

LEMMA HeardNext == IInv /\ SpeechInv /\ [Next]_vars => SpeechInv'
<1> SUFFICES ASSUME IInv, SpeechInv, [Next]_vars, NEW o \in Handlers PROVE Heard(o)'
    BY DEF SpeechInv
<1>0. TypeOK /\ Heard(o) BY DEF IInv, SpeechInv
<1>a. ASSUME pc'[o] = pc[o], input'[o] = input[o], verdict'[o] = verdict[o] PROVE Heard(o)'
    BY <1>0, <1>a DEF Heard
<1>b. ASSUME pc'[o] # "save" PROVE Heard(o)' BY <1>b DEF Heard
<1>1. ASSUME NEW h \in Handlers, HandlerStep(h), h # o PROVE Heard(o)'
    <2>1. pc'[o] = pc[o] /\ input'[o] = input[o] /\ verdict'[o] = verdict[o]
        BY <1>0, <1>1 DEF HandlerStep, Attempt, Speak, Transcribe, TranscribeFails, Count,
           ClaudeGrades, ClaudeFails, Save, Leave, Clear, Goto, TypeOK
    <2> QED BY <1>a, <2>1
<1>2. ASSUME NEW i \in Inputs, Attempt(o, i) PROVE Heard(o)'
    <2>1. input'[o] = i /\ i.task.kind # "speak" BY <1>0, <1>2 DEF Attempt, TypeOK
    <2> QED BY <2>1 DEF Heard
<1>3. ASSUME NEW i \in Inputs, Speak(o, i) PROVE Heard(o)'
    BY <1>0, <1>3, <1>b DEF Speak, Goto, TypeOK
<1>4. CASE Transcribe(o)
    <2>1. /\ verdict'[o] = GradeSpeech(input[o].task, input[o].text)
          /\ input' = input
        BY <1>0, <1>4 DEF Transcribe, TypeOK
    <2> QED BY <2>1 DEF Heard
<1>5. CASE TranscribeFails(o) \/ Save(o)
    BY <1>0, <1>5, <1>b DEF TranscribeFails, Save, Clear, Goto, TypeOK
<1>6. ASSUME pc[o] \in {"count", "call"}, input' = input PROVE Heard(o)'
    BY <1>6 DEF IInv, OnlyOpenAnswersAsked, Heard, TranslationKinds
<1>7. CASE Count(o) BY <1>6, <1>7 DEF Count
<1>8. ASSUME NEW n \in Scores, ClaudeGrades(o, n) PROVE Heard(o)'
    BY <1>6, <1>8 DEF ClaudeGrades
<1>9. CASE ClaudeFails(o) BY <1>6, <1>9 DEF ClaudeFails
<1>10. CASE Leave(o) BY <1>a, <1>10 DEF Leave
<1>11. CASE Restart BY <1>b, <1>11 DEF Restart
<1>12. CASE NextDay \/ UNCHANGED vars BY <1>a, <1>12 DEF NextDay, vars
<1> QED
    BY <1>1, <1>2, <1>3, <1>4, <1>5, <1>7, <1>8, <1>9, <1>10, <1>11, <1>12
    DEF Next, HandlerStep

\* A recording in which nothing Cyrillic is heard does not pass, whatever the
\* references and whatever runs beside it (GradeSpeech, handleSessionSpeak).
THEOREM SilenceNeverPasses == Spec => []SilenceFails
<1>1. Init => SpeechInv BY DEF Init, SpeechInv, Heard
<1>2. IInv /\ SpeechInv => SilenceFails
    <2> SUFFICES ASSUME IInv, SpeechInv, NEW h \in Handlers,
                        pc[h] = "save", input[h].task.kind = "speak",
                        Silent(input[h]), Spoken(input[h])
                 PROVE  verdict[h].grade < 3
        BY DEF SilenceFails, Silent, Spoken
    <2>1. input[h] \in Inputs BY DEF IInv, TypeOK
    <2>2. verdict[h].grade = 0 BY <2>1, SilenceGrade DEF SpeechInv, Heard
    <2> QED BY <2>2
<1> QED BY <1>1, <1>2, IInvInit, IInvNext, HeardNext, PTL DEF Spec

-----------------------------------------------------------------------------
(* Typography.  How far two texts say the same, one character after another.  *)

LEMMA PlaceNext ==
    ASSUME NEW kept, NEW s, NEW k \in Nat
    PROVE  /\ Place(kept, s, 0) = 0
           /\ Place(kept, s, k) \in Nat
           /\ Lower[s[k + 1]] \in kept => Place(kept, s, k + 1) = Place(kept, s, k) + 1
           /\ Lower[s[k + 1]] \notin kept => Place(kept, s, k + 1) = Place(kept, s, k)
<1> DEFINE S(n) == {l \in 1 .. n : Lower[s[l]] \in kept}
<1>1. ASSUME NEW n \in Nat PROVE IsFiniteSet(S(n)) /\ Cardinality(S(n)) \in Nat
    <2>1. IsFiniteSet(1 .. n) BY FS_Interval
    <2>2. S(n) \subseteq 1 .. n OBVIOUS
    <2> QED BY <2>1, <2>2, FS_Subset, FS_CardinalityType
<1>2. S(0) = {} OBVIOUS
<1>3. ASSUME Lower[s[k + 1]] \in kept PROVE S(k + 1) = S(k) \cup {k + 1} /\ k + 1 \notin S(k)
    BY <1>3
<1>4. ASSUME Lower[s[k + 1]] \notin kept PROVE S(k + 1) = S(k)
    BY <1>4
<1>5. \A n : Place(kept, s, n) = Cardinality(S(n)) BY DEF Place
<1> HIDE DEF S
<1>6. Place(kept, s, 0) = 0 BY <1>2, <1>5, FS_EmptySet
<1>7. Place(kept, s, k) \in Nat BY <1>1, <1>5
<1>8. ASSUME Lower[s[k + 1]] \in kept PROVE Place(kept, s, k + 1) = Place(kept, s, k) + 1
    BY <1>1, <1>3, <1>5, <1>8, FS_AddElement
<1>9. ASSUME Lower[s[k + 1]] \notin kept PROVE Place(kept, s, k + 1) = Place(kept, s, k)
    BY <1>4, <1>5, <1>9
<1> QED BY <1>6, <1>7, <1>8, <1>9

LEMMA PlaceAfter ==
    ASSUME NEW kept, NEW s, NEW k \in Nat \ {0}, Lower[s[k]] \in kept
    PROVE  Place(kept, s, k) > 0
<1> DEFINE l == k - 1
<1>1. l \in Nat /\ l + 1 = k OBVIOUS
<1> HIDE DEF l
<1>2. Place(kept, s, l) \in Nat /\ Place(kept, s, l + 1) = Place(kept, s, l) + 1
    BY <1>1, PlaceNext
<1> QED BY <1>1, <1>2

LEMMA PlaceGrows ==
    ASSUME NEW kept, NEW s, NEW l \in Nat, NEW k \in 0 .. l
    PROVE  Place(kept, s, k) <= Place(kept, s, l)
<1>1. IsFiniteSet(1 .. l) BY FS_Interval
<1> DEFINE A == {n \in 1 .. k : Lower[s[n]] \in kept}
           B == {n \in 1 .. l : Lower[s[n]] \in kept}
<1>2. B \subseteq 1 .. l /\ A \subseteq B OBVIOUS
<1>3. IsFiniteSet(B) BY <1>1, <1>2, FS_Subset
<1>4. Cardinality(A) <= Cardinality(B) BY <1>2, <1>3, FS_Subset
<1> QED BY <1>4 DEF Place

LEMMA OpensNext ==
    ASSUME NEW kept, NEW s, NEW k \in Nat \ {0}
    PROVE  Opens(kept, s, k + 1) <=> \/ Lower[s[k]] = Space
                                     \/ Lower[s[k]] \notin kept /\ Opens(kept, s, k)
<1>1. Opens(kept, s, k + 1) <=>
        \E l \in 1 .. k : Lower[s[l]] = Space /\ \A n \in l + 1 .. k : Lower[s[n]] \notin kept
    BY (k + 1) - 1 = k DEF Opens
<1>2. ASSUME Lower[s[k]] = Space PROVE Opens(kept, s, k + 1)
    <2>1. k \in 1 .. k /\ \A n \in k + 1 .. k : Lower[s[n]] \notin kept OBVIOUS
    <2> QED BY <1>1, <1>2, <2>1
<1>3. ASSUME Lower[s[k]] \notin kept, Opens(kept, s, k) PROVE Opens(kept, s, k + 1)
    <2>1. PICK l \in 1 .. k - 1 :
              Lower[s[l]] = Space /\ \A n \in l + 1 .. k - 1 : Lower[s[n]] \notin kept
        BY <1>3 DEF Opens
    <2>2. l \in 1 .. k OBVIOUS
    <2>3. ASSUME NEW n \in l + 1 .. k PROVE Lower[s[n]] \notin kept
        <3>1. n = k \/ n \in l + 1 .. k - 1 OBVIOUS
        <3> QED BY <1>3, <2>1, <3>1
    <2> QED BY <1>1, <2>1, <2>2, <2>3
<1>4. ASSUME Opens(kept, s, k + 1), Lower[s[k]] # Space
      PROVE  Lower[s[k]] \notin kept /\ Opens(kept, s, k)
    <2>1. PICK l \in 1 .. k :
              Lower[s[l]] = Space /\ \A n \in l + 1 .. k : Lower[s[n]] \notin kept
        BY <1>1, <1>4
    <2>2. l # k BY <1>4, <2>1
    <2>3. l \in 1 .. k - 1 /\ k \in l + 1 .. k BY <2>2
    <2>4. \A n \in l + 1 .. k - 1 : n \in l + 1 .. k OBVIOUS
    <2> QED BY <2>1, <2>3, <2>4 DEF Opens
<1> QED BY <1>2, <1>3, <1>4

Agree(kept, s, k, t, l) ==
    Place(kept, s, k) = Place(kept, t, l)
    => /\ Lower[s[k]] = Lower[t[l]]
       /\ Place(kept, s, k) > 1 => (Opens(kept, s, k) <=> Opens(kept, t, l))

\* SaySame, of the first i characters of s and the first j of t.
SameUpTo(kept, s, i, t, j) ==
    /\ Place(kept, s, i) = Place(kept, t, j)
    /\ \A k \in 1 .. i, l \in 1 .. j :
          Lower[s[k]] \in kept /\ Lower[t[l]] \in kept => Agree(kept, s, k, t, l)

LEMMA SameSymmetric ==
    ASSUME NEW kept, NEW s, NEW t, NEW i \in Nat, NEW j \in Nat, SameUpTo(kept, s, i, t, j)
    PROVE  SameUpTo(kept, t, j, s, i)
<1>1. Place(kept, t, j) = Place(kept, s, i) BY DEF SameUpTo
<1>2. ASSUME NEW l \in 1 .. j, NEW k \in 1 .. i,
             Lower[t[l]] \in kept, Lower[s[k]] \in kept
      PROVE  Agree(kept, t, l, s, k)
    <2>1. Agree(kept, s, k, t, l) BY <1>2 DEF SameUpTo
    <2> QED BY <2>1 DEF Agree
<1> QED BY <1>1, <1>2 DEF SameUpTo

LEMMA SkipLeft ==
    ASSUME NEW kept, NEW s, NEW t, NEW i \in Nat, NEW j \in Nat, Lower[s[i + 1]] \notin kept
    PROVE  SameUpTo(kept, s, i + 1, t, j) <=> SameUpTo(kept, s, i, t, j)
<1>1. Place(kept, s, i + 1) = Place(kept, s, i) BY PlaceNext
<1>2. \A k \in 1 .. i + 1 : k = i + 1 \/ k \in 1 .. i OBVIOUS
<1>3. \A k \in 1 .. i : k \in 1 .. i + 1 OBVIOUS
<1> QED BY <1>1, <1>2, <1>3 DEF SameUpTo

LEMMA SkipRight ==
    ASSUME NEW kept, NEW s, NEW t, NEW i \in Nat, NEW j \in Nat, Lower[t[j + 1]] \notin kept
    PROVE  SameUpTo(kept, s, i, t, j + 1) <=> SameUpTo(kept, s, i, t, j)
<1>1. SameUpTo(kept, t, j + 1, s, i) <=> SameUpTo(kept, t, j, s, i) BY SkipLeft
<1> QED BY <1>1, SameSymmetric, j + 1 \in Nat

LEMMA BothNext ==
    ASSUME NEW kept, NEW s, NEW t, NEW i \in Nat, NEW j \in Nat,
           Lower[s[i + 1]] \in kept, Lower[t[j + 1]] \in kept
    PROVE  SameUpTo(kept, s, i + 1, t, j + 1)
           <=> SameUpTo(kept, s, i, t, j) /\ Agree(kept, s, i + 1, t, j + 1)
<1>1. /\ Place(kept, s, i) \in Nat /\ Place(kept, s, i + 1) = Place(kept, s, i) + 1
      /\ Place(kept, t, j) \in Nat /\ Place(kept, t, j + 1) = Place(kept, t, j) + 1
    BY PlaceNext
<1>2. /\ \A k \in 1 .. i : k \in 1 .. i + 1
      /\ \A l \in 1 .. j : l \in 1 .. j + 1
      /\ i + 1 \in 1 .. i + 1 /\ j + 1 \in 1 .. j + 1
    OBVIOUS
<1>3. ASSUME SameUpTo(kept, s, i + 1, t, j + 1)
      PROVE  SameUpTo(kept, s, i, t, j) /\ Agree(kept, s, i + 1, t, j + 1)
    <2>1. Place(kept, s, i) = Place(kept, t, j) BY <1>1, <1>3 DEF SameUpTo
    <2> QED BY <1>2, <1>3, <2>1 DEF SameUpTo
<1>4. ASSUME SameUpTo(kept, s, i, t, j), Agree(kept, s, i + 1, t, j + 1)
      PROVE  SameUpTo(kept, s, i + 1, t, j + 1)
    <2>0. Place(kept, s, i) = Place(kept, t, j) BY <1>4 DEF SameUpTo
    <2>1. ASSUME NEW k \in 1 .. i + 1, NEW l \in 1 .. j + 1,
                 Lower[s[k]] \in kept, Lower[t[l]] \in kept
          PROVE  Agree(kept, s, k, t, l)
        <3>1. CASE k \in 1 .. i /\ l \in 1 .. j BY <1>4, <2>1, <3>1 DEF SameUpTo
        <3>2. CASE k = i + 1 /\ l = j + 1 BY <1>4, <3>2
        <3>3. CASE k = i + 1 /\ l \in 1 .. j
            <4>1. l \in 0 .. j /\ l \in Nat BY <3>3
            <4>2. Place(kept, t, l) <= Place(kept, t, j) /\ Place(kept, t, l) \in Nat
                BY <4>1, PlaceGrows, PlaceNext
            <4>3. Place(kept, s, k) # Place(kept, t, l) BY <1>1, <2>0, <3>3, <4>2
            <4> QED BY <4>3 DEF Agree
        <3>4. CASE k \in 1 .. i /\ l = j + 1
            <4>1. k \in 0 .. i /\ k \in Nat BY <3>4
            <4>2. Place(kept, s, k) <= Place(kept, s, i) /\ Place(kept, s, k) \in Nat
                BY <4>1, PlaceGrows, PlaceNext
            <4>3. Place(kept, s, k) # Place(kept, t, l) BY <1>1, <2>0, <3>4, <4>2
            <4> QED BY <4>3 DEF Agree
        <3> QED BY <3>1, <3>2, <3>3, <3>4
    <2>2. Place(kept, s, i + 1) = Place(kept, t, j + 1) BY <1>1, <2>0
    <2> QED BY <2>1, <2>2 DEF SameUpTo
<1> QED BY <1>3, <1>4

\* What TrimRight makes of a text a loop has left.
LEMMA TrimIs ==
    ASSUME NEW A, NEW f \in Seq(A)
    PROVE  /\ TrimRight(<<>>) = <<>>
           /\ f # <<>> /\ Sq!Last(f) = Space =>
                TrimRight(f) \in Seq(A) /\ f = Append(TrimRight(f), Space)
           /\ f = <<>> \/ Sq!Last(f) # Space => TrimRight(f) = f
<1>1. ASSUME f # <<>>, Sq!Last(f) = Space
      PROVE  TrimRight(f) \in Seq(A) /\ f = Append(TrimRight(f), Space)
    <2> DEFINE m == Len(f) - 1
    <2>0. Len(f) \in Nat /\ Len(f) > 0 BY <1>1
    <2>1. m \in Nat /\ m + 1 = Len(f) /\ f[m + 1] = Space BY <1>1, <2>0 DEF Sq!Last
    <2>2. TrimRight(f) = SubSeq(f, 1, m) BY <1>1 DEF TrimRight, Sq!Front
    <2> HIDE DEF m
    <2>3. SubSeq(f, 1, m) \in Seq(A) /\ Len(SubSeq(f, 1, m)) = m
        BY <2>0, <2>1
    <2>4. \A k \in 1 .. m : SubSeq(f, 1, m)[k] = f[k] BY <2>0, <2>1
    <2> DEFINE g == Append(SubSeq(f, 1, m), Space)
    <2>5. Space \in A BY <2>0, <2>1
    <2>6. g \in Seq(A) /\ Len(g) = m + 1 /\ g[m + 1] = Space
        BY <2>3, <2>5
    <2>7. \A k \in 1 .. m : g[k] = f[k] BY <2>1, <2>3, <2>4
    <2>8. ASSUME NEW k \in 1 .. Len(f) PROVE g[k] = f[k]
        <3>1. k \in 1 .. m \/ k = m + 1 BY <2>1
        <3> QED BY <2>1, <2>6, <2>7, <3>1
    <2> HIDE DEF g
    <2>9. g = f BY <2>1, <2>6, <2>8
    <2> QED BY <2>2, <2>3, <2>9 DEF g
<1> QED BY <1>1 DEF TrimRight

LEMMA TrimAppend ==
    ASSUME NEW A, NEW f \in Seq(A), NEW c \in A
    PROVE  /\ Append(f, c) \in Seq(A) /\ Append(f, c) # <<>> /\ Sq!Last(Append(f, c)) = c
           /\ c # Space => TrimRight(Append(f, c)) = Append(f, c)
           /\ Sq!Front(Append(f, c)) = f
<1>1. Append(f, c) \in Seq(A) /\ Append(f, c) # <<>> /\ Sq!Last(Append(f, c)) = c
    BY DEF Sq!Last
<1>2. Sq!Front(Append(f, c)) = f BY DEF Sq!Front
<1> QED BY <1>1, <1>2 DEF TrimRight

\* A trimmed text and whether a space was trimmed give the text back.
LEMMA TrimEqual ==
    ASSUME NEW A, NEW f \in Seq(A), NEW g \in Seq(A), TrimRight(f) = TrimRight(g),
           f = <<>> <=> g = <<>>,
           f # <<>> => (Sq!Last(f) = Space <=> Sq!Last(g) = Space)
    PROVE  f = g
<1>1. CASE f = <<>> BY <1>1
<1>2. CASE f # <<>> /\ Sq!Last(f) = Space
    <2>1. f = Append(TrimRight(f), Space) /\ g = Append(TrimRight(g), Space)
        BY <1>2, TrimIs
    <2> QED BY <2>1
<1>3. CASE f # <<>> /\ Sq!Last(f) # Space
    <2>1. TrimRight(f) = f /\ TrimRight(g) = g BY <1>3, TrimIs
    <2> QED BY <2>1
<1> QED BY <1>1, <1>2, <1>3

\* What a loop has left of the first k characters: nothing before the first kept
\* one, and then a space at the end just when one has opened a gap.
Left(kept, s, k, out) ==
    /\ out \in Seq(kept \cup {Space})
    /\ out = <<>> <=> Place(kept, s, k) = 0
    /\ out # <<>> => (Sq!Last(out) = Space <=> Opens(kept, s, k + 1))

LEMMA LeftNext ==
    ASSUME NEW kept, Space \notin kept, NEW s, NEW k \in Nat, NEW out, Left(kept, s, k, out)
    PROVE  Left(kept, s, k + 1, Emit(kept, out, Lower[s[k + 1]]))
<1> DEFINE c == Lower[s[k + 1]]
           A == kept \cup {Space}
           new == Emit(kept, out, c)
<1> HIDE DEF c
<1>0. out \in Seq(A) BY DEF Left
<1>1. /\ Place(kept, s, k) \in Nat
      /\ c \in kept => Place(kept, s, k + 1) = Place(kept, s, k) + 1
      /\ c \notin kept => Place(kept, s, k + 1) = Place(kept, s, k)
    BY PlaceNext DEF c
<1>2. Opens(kept, s, (k + 1) + 1) <=> (c = Space \/ (c \notin kept /\ Opens(kept, s, k + 1)))
    <2>1. k + 1 \in Nat \ {0} OBVIOUS
    <2> QED BY <2>1, OpensNext, Zenon DEF c
<1>3. CASE c \in kept
    <2>1. new = Append(out, c) /\ c \in A /\ c # Space BY <1>3 DEF Emit
    <2>2. new \in Seq(A) /\ new # <<>> /\ Sq!Last(new) = c BY <1>0, <2>1, TrimAppend
    <2>3. Place(kept, s, k + 1) # 0 BY <1>1, <1>3
    <2>4. ~ Opens(kept, s, (k + 1) + 1) BY <1>2, <1>3, <2>1
    <2> QED BY <2>1, <2>2, <2>3, <2>4 DEF Left, c
<1>4. CASE c = Space
    <2>0. c \notin kept BY <1>4
    <2>1. CASE out # <<>> /\ Sq!Last(out) # Space
        <3>1. new = Append(out, Space) BY <1>4, <2>0, <2>1 DEF Emit
        <3>2. Space \in A OBVIOUS
        <3>3. new \in Seq(A) /\ new # <<>> /\ Sq!Last(new) = Space BY <1>0, <3>1, <3>2, TrimAppend
        <3>4. Place(kept, s, k + 1) # 0 BY <1>1, <2>0, <2>1 DEF Left
        <3>5. Opens(kept, s, (k + 1) + 1) BY <1>2, <1>4
        <3> QED BY <3>3, <3>4, <3>5 DEF Left, c
    <2>2. CASE out = <<>> \/ Sq!Last(out) = Space
        <3>1. new = out BY <1>4, <2>0, <2>2 DEF Emit
        <3>2. out = <<>> <=> Place(kept, s, k + 1) = 0 BY <1>1, <2>0 DEF Left
        <3>3. Opens(kept, s, (k + 1) + 1) BY <1>2, <1>4
        <3> QED BY <1>0, <2>2, <3>1, <3>2, <3>3 DEF Left, c
    <2> QED BY <2>1, <2>2
<1>5. CASE c \notin kept /\ c # Space
    <2>1. new = out BY <1>5 DEF Emit
    <2>2. out = <<>> <=> Place(kept, s, k + 1) = 0 BY <1>1, <1>5 DEF Left
    <2>3. Opens(kept, s, (k + 1) + 1) <=> Opens(kept, s, k + 1) BY <1>2, <1>5
    <2> QED BY <1>0, <2>1, <2>2, <2>3 DEF Left, c
<1> QED BY <1>3, <1>4, <1>5

LEMMA EmitsLeft ==
    ASSUME NEW kept, Space \notin kept, NEW s, NEW n \in Nat, NEW f, Emits(f, kept, s, n)
    PROVE  /\ f[0] = <<>>
           /\ \A k \in 0 .. n : k > 0 => f[k] = Emit(kept, f[k - 1], Lower[s[k]])
           /\ \A k \in 0 .. n : Left(kept, s, k, f[k])
<1> DEFINE T == {m \in Nat : m <= n => Left(kept, s, m, f[m])}
<1>0. f[0] = <<>> BY DEF Emits
<1>1. \A k \in 0 .. n : k > 0 => f[k] = Emit(kept, f[k - 1], Lower[s[k]])
    BY DEF Emits
<1>2. 0 \in T
    <2>1. Place(kept, s, 0) = 0 BY PlaceNext
    <2>2. <<>> \in Seq(kept \cup {Space}) OBVIOUS
    <2> QED BY <1>0, <2>1, <2>2 DEF Left
<1>3. ASSUME NEW m \in T PROVE m + 1 \in T
    <2>0. m \in Nat OBVIOUS
    <2>1. ASSUME m + 1 <= n PROVE Left(kept, s, m + 1, f[m + 1])
        <3>1. m + 1 \in 0 .. n /\ m + 1 > 0 /\ (m + 1) - 1 = m BY <2>0, <2>1
        <3>2. f[m + 1] = Emit(kept, f[m], Lower[s[m + 1]]) BY <1>1, <3>1
        <3>3. Left(kept, s, m, f[m]) BY <2>0, <2>1
        <3> QED BY <2>0, <3>2, <3>3, LeftNext
    <2> QED BY <2>0, <2>1
<1>4. T = Nat
    <2> HIDE DEF T
    <2>1. T \subseteq Nat BY DEF T
    <2> QED BY <1>2, <1>3, <2>1, NatSetInduction
<1> QED BY <1>0, <1>1, <1>4

\* A character that is not kept leaves what is trimmed as it was.
LEMMA EmitTrims ==
    ASSUME NEW kept, NEW A, Space \in A, NEW out \in Seq(A), NEW c, c \notin kept
    PROVE  TrimRight(Emit(kept, out, c)) = TrimRight(out)
<1>1. CASE c = Space /\ out # <<>> /\ Sq!Last(out) # Space
    <2>1. Emit(kept, out, c) = Append(out, Space) BY <1>1 DEF Emit
    <2>2. Append(out, Space) # <<>> /\ Sq!Last(Append(out, Space)) = Space BY TrimAppend
    <2>3. TrimRight(out) = out BY <1>1, TrimIs
    <2>4. TrimRight(Append(out, Space)) = Sq!Front(Append(out, Space)) BY <2>2 DEF TrimRight
    <2>5. Sq!Front(Append(out, Space)) = out BY TrimAppend
    <2> QED BY <2>1, <2>3, <2>4, <2>5
<1>2. CASE ~ (c = Space /\ out # <<>> /\ Sq!Last(out) # Space)
    BY <1>2 DEF Emit
<1> QED BY <1>1, <1>2

\* Two texts say the same so far exactly when the same is left of them.
Alike(kept, s, i, f, t, j, g) ==
    SameUpTo(kept, s, i, t, j) <=> TrimRight(f[i]) = TrimRight(g[j])

LEMMA BothKept ==
    ASSUME NEW kept, Space \notin kept, NEW s, NEW t, NEW i \in Nat, NEW j \in Nat,
           NEW c, NEW d, c = Lower[s[i + 1]], d = Lower[t[j + 1]], c \in kept, d \in kept,
           NEW f, NEW g, Left(kept, s, i, f), Left(kept, t, j, g),
           SameUpTo(kept, s, i, t, j) <=> TrimRight(f) = TrimRight(g)
    PROVE  SameUpTo(kept, s, i + 1, t, j + 1)
           <=> TrimRight(Emit(kept, f, c)) = TrimRight(Emit(kept, g, d))
<1> DEFINE A == kept \cup {Space}
<1>0. f \in Seq(A) /\ g \in Seq(A) /\ c \in A /\ d \in A /\ c # Space /\ d # Space
    BY DEF Left
<1>1. Emit(kept, f, c) = Append(f, c) /\ Emit(kept, g, d) = Append(g, d)
    BY DEF Emit
<1>2. TrimRight(Append(f, c)) = Append(f, c) /\ TrimRight(Append(g, d)) = Append(g, d)
    <2>1. TrimRight(Append(f, c)) = Append(f, c) BY ONLY <1>0, TrimAppend
    <2>2. TrimRight(Append(g, d)) = Append(g, d) BY ONLY <1>0, TrimAppend
    <2> QED BY <2>1, <2>2
<1>3. Append(f, c) = Append(g, d) <=> f = g /\ c = d
    <2>1. ASSUME Append(f, c) = Append(g, d) PROVE f = g /\ c = d
        <3>1. Len(f) = Len(g) BY <1>0, <2>1
        <3>2. c = d BY <1>0, <2>1, <3>1
        <3>3. ASSUME NEW k \in 1 .. Len(f) PROVE f[k] = g[k]
            <4>1. Append(f, c)[k] = f[k] /\ Append(g, d)[k] = g[k] BY <1>0, <3>1
            <4> QED BY <2>1, <4>1
        <3>4. f = g BY <1>0, <3>1, <3>3
        <3> QED BY <3>2, <3>4
    <2> QED BY <2>1
<1>4. /\ Place(kept, s, i) \in Nat /\ Place(kept, s, i + 1) = Place(kept, s, i) + 1
      /\ Place(kept, t, j) \in Nat /\ Place(kept, t, j + 1) = Place(kept, t, j) + 1
    BY PlaceNext
<1>5. ASSUME Place(kept, s, i) = Place(kept, t, j)
      PROVE  /\ f = <<>> <=> g = <<>>
             /\ f # <<>> <=> Place(kept, s, i + 1) > 1
             /\ f # <<>> => (Sq!Last(f) = Space <=> Opens(kept, s, i + 1))
             /\ g # <<>> => (Sq!Last(g) = Space <=> Opens(kept, t, j + 1))
    BY <1>4, <1>5 DEF Left
<1>6. SameUpTo(kept, s, i + 1, t, j + 1)
      <=> SameUpTo(kept, s, i, t, j) /\ Agree(kept, s, i + 1, t, j + 1)
    BY BothNext
<1>7. ASSUME SameUpTo(kept, s, i, t, j), Agree(kept, s, i + 1, t, j + 1)
      PROVE  f = g /\ c = d
    <2>1. Place(kept, s, i) = Place(kept, t, j) BY <1>7 DEF SameUpTo
    <2>2. c = d BY <1>4, <1>7, <2>1 DEF Agree
    <2>3. f # <<>> => (Sq!Last(f) = Space <=> Sq!Last(g) = Space)
        BY <1>4, <1>5, <1>7, <2>1 DEF Agree
    <2>4. TrimRight(f) = TrimRight(g) BY <1>7
    <2> QED BY <1>0, <1>5, <2>1, <2>2, <2>3, <2>4, TrimEqual
<1>8. ASSUME f = g, c = d
      PROVE  SameUpTo(kept, s, i, t, j) /\ Agree(kept, s, i + 1, t, j + 1)
    <2>1. SameUpTo(kept, s, i, t, j) BY <1>8
    <2>2. Place(kept, s, i) = Place(kept, t, j) BY <2>1 DEF SameUpTo
    <2> QED BY <1>5, <1>8, <2>1, <2>2 DEF Agree
<1> QED BY <1>1, <1>2, <1>3, <1>6, <1>7, <1>8

LEMMA AlikeAlways ==
    ASSUME NEW kept, Space \notin kept, NEW s, NEW t, NEW m \in Nat, NEW n \in Nat,
           NEW f, Emits(f, kept, s, m), NEW g, Emits(g, kept, t, n)
    PROVE  \A i \in 0 .. m, j \in 0 .. n : Alike(kept, s, i, f, t, j, g)
<1> DEFINE A == kept \cup {Space}
           T == {w \in Nat : \A i \in 0 .. m, j \in 0 .. n :
                               i + j <= w => Alike(kept, s, i, f, t, j, g)}
<1>1. /\ f[0] = <<>>
      /\ \A k \in 0 .. m : k > 0 => f[k] = Emit(kept, f[k - 1], Lower[s[k]])
      /\ \A k \in 0 .. m : Left(kept, s, k, f[k])
    BY EmitsLeft, Zenon
<1>b. /\ g[0] = <<>>
      /\ \A k \in 0 .. n : k > 0 => g[k] = Emit(kept, g[k - 1], Lower[t[k]])
      /\ \A k \in 0 .. n : Left(kept, t, k, g[k])
    BY EmitsLeft, Zenon
<1>2. Alike(kept, s, 0, f, t, 0, g)
    <2>1. Place(kept, s, 0) = 0 /\ Place(kept, t, 0) = 0 BY PlaceNext
    <2>2. SameUpTo(kept, s, 0, t, 0) BY <2>1 DEF SameUpTo
    <2> QED BY <1>1, <1>b, <2>2 DEF Alike
<1>3. 0 \in T
    <2>1. \A i \in 0 .. m, j \in 0 .. n : i + j <= 0 => i = 0 /\ j = 0 OBVIOUS
    <2> QED BY <1>2, <2>1
<1>4. ASSUME NEW w \in T PROVE w + 1 \in T
    <2>0. w \in Nat OBVIOUS
    <2>1. ASSUME NEW i \in 0 .. m, NEW j \in 0 .. n, i + j <= w
          PROVE  Alike(kept, s, i, f, t, j, g)
        BY <2>1
    <2> HIDE DEF T
    <2>2. ASSUME NEW i \in 0 .. m, NEW j \in 0 .. n, i + j <= w + 1
          PROVE  Alike(kept, s, i, f, t, j, g)
        <3>1. CASE i > 0 /\ Lower[s[i]] \notin kept
            <4>1. i - 1 \in 0 .. m /\ i - 1 \in Nat /\ (i - 1) + 1 = i /\ (i - 1) + j <= w
                BY <2>0, <2>2, <3>1
            <4>2. Alike(kept, s, i - 1, f, t, j, g) BY <2>1, <4>1
            <4>3. SameUpTo(kept, s, i, t, j) <=> SameUpTo(kept, s, i - 1, t, j)
                BY <3>1, <4>1, SkipLeft, j \in Nat
            <4>4. f[i - 1] \in Seq(A) BY <1>1, <4>1 DEF Left
            <4>5. TrimRight(f[i]) = TrimRight(f[i - 1])
                <5>1. f[i] = Emit(kept, f[i - 1], Lower[s[i]]) BY <1>1, <3>1
                <5>2. Space \in A OBVIOUS
                <5>3. TrimRight(Emit(kept, f[i - 1], Lower[s[i]])) = TrimRight(f[i - 1])
                    BY ONLY <3>1, <4>4, <5>2, EmitTrims
                <5> QED BY <5>1, <5>3
            <4> QED BY <4>2, <4>3, <4>5 DEF Alike
        <3>2. CASE j > 0 /\ Lower[t[j]] \notin kept
            <4>1. j - 1 \in 0 .. n /\ j - 1 \in Nat /\ (j - 1) + 1 = j /\ i + (j - 1) <= w
                BY <2>0, <2>2, <3>2
            <4>2. Alike(kept, s, i, f, t, j - 1, g) BY <2>1, <4>1
            <4>3. SameUpTo(kept, s, i, t, j) <=> SameUpTo(kept, s, i, t, j - 1)
                BY <3>2, <4>1, SkipRight, i \in Nat
            <4>4. g[j - 1] \in Seq(A) BY <1>b, <4>1 DEF Left
            <4>5. TrimRight(g[j]) = TrimRight(g[j - 1])
                <5>1. g[j] = Emit(kept, g[j - 1], Lower[t[j]]) BY <1>b, <3>2
                <5>2. Space \in A OBVIOUS
                <5>3. TrimRight(Emit(kept, g[j - 1], Lower[t[j]])) = TrimRight(g[j - 1])
                    BY ONLY <3>2, <4>4, <5>2, EmitTrims
                <5> QED BY <5>1, <5>3
            <4> QED BY <4>2, <4>3, <4>5 DEF Alike
        <3>3. CASE i > 0 /\ j > 0 /\ Lower[s[i]] \in kept /\ Lower[t[j]] \in kept
            <4>1. /\ i - 1 \in 0 .. m /\ i - 1 \in Nat /\ (i - 1) + 1 = i
                  /\ j - 1 \in 0 .. n /\ j - 1 \in Nat /\ (j - 1) + 1 = j
                  /\ (i - 1) + (j - 1) <= w
                BY <2>0, <2>2, <3>3
            <4>2. SameUpTo(kept, s, i - 1, t, j - 1) <=> TrimRight(f[i - 1]) = TrimRight(g[j - 1])
                BY <2>1, <4>1 DEF Alike
            <4>3. Left(kept, s, i - 1, f[i - 1]) /\ Left(kept, t, j - 1, g[j - 1])
                BY <1>1, <1>b, <4>1
            <4> DEFINE k == i - 1
                       l == j - 1
            <4>4. k \in Nat /\ l \in Nat /\ k + 1 = i /\ l + 1 = j BY <4>1
            <4> HIDE DEF k, l
            <4>5. SameUpTo(kept, s, k + 1, t, l + 1)
                  <=> TrimRight(Emit(kept, f[k], Lower[s[k + 1]]))
                      = TrimRight(Emit(kept, g[l], Lower[t[l + 1]]))
                BY <3>3, <4>2, <4>3, <4>4, BothKept DEF k, l
            <4>6. f[i] = Emit(kept, f[k], Lower[s[i]]) /\ g[j] = Emit(kept, g[l], Lower[t[j]])
                BY <1>1, <1>b, <3>3 DEF k, l
            <4> QED BY <4>4, <4>5, <4>6 DEF Alike
        <3>4. CASE i > 0 /\ j = 0 /\ Lower[s[i]] \in kept
            <4>1. i - 1 \in Nat /\ i - 1 \in 0 .. m /\ (i - 1) + 1 = i BY <3>4
            <4>2. Place(kept, t, 0) = 0 /\ Place(kept, s, i) > 0
                BY <3>4, <4>1, PlaceAfter, PlaceNext
            <4>3. f[i - 1] \in Seq(A) /\ Lower[s[i]] \in A /\ Lower[s[i]] # Space
                BY <1>1, <3>4, <4>1 DEF Left
            <4>4. f[i] = Append(f[i - 1], Lower[s[i]]) BY <1>1, <3>4 DEF Emit
            <4>5. TrimRight(f[i]) # <<>> BY <4>3, <4>4, TrimAppend
            <4>6. TrimRight(g[j]) = <<>> BY <1>b, <3>4, TrimIs DEF TrimRight
            <4> QED BY <3>4, <4>2, <4>5, <4>6 DEF Alike, SameUpTo
        <3>5. CASE i = 0 /\ j > 0 /\ Lower[t[j]] \in kept
            <4>1. j - 1 \in Nat /\ j - 1 \in 0 .. n /\ (j - 1) + 1 = j BY <3>5
            <4>2. Place(kept, s, 0) = 0 /\ Place(kept, t, j) > 0
                BY <3>5, <4>1, PlaceAfter, PlaceNext
            <4>3. g[j - 1] \in Seq(A) /\ Lower[t[j]] \in A /\ Lower[t[j]] # Space
                BY <1>b, <3>5, <4>1 DEF Left
            <4>4. g[j] = Append(g[j - 1], Lower[t[j]]) BY <1>b, <3>5 DEF Emit
            <4>5. TrimRight(g[j]) # <<>> BY <4>3, <4>4, TrimAppend
            <4>6. TrimRight(f[i]) = <<>> BY <1>1, <3>5, TrimIs DEF TrimRight
            <4> QED BY <3>5, <4>2, <4>5, <4>6 DEF Alike, SameUpTo
        <3>6. CASE i = 0 /\ j = 0 BY <1>2, <3>6
        <3> QED BY <3>1, <3>2, <3>3, <3>4, <3>5, <3>6
    <2> QED BY <2>0, <2>2 DEF T
<1>5. T = Nat
    <2> HIDE DEF T
    <2>1. T \subseteq Nat BY DEF T
    <2> QED BY <1>3, <1>4, <2>1, NatSetInduction
<1>6. m + n \in T
    <2> HIDE DEF T
    <2>1. m + n \in Nat OBVIOUS
    <2> QED BY <1>5, <2>1
<1>7. \A i \in 0 .. m, j \in 0 .. n : i + j <= m + n OBVIOUS
<1> QED BY <1>6, <1>7

LEMMA CollapseSays ==
    ASSUME NEW kept, Space \notin kept,
           NEW s \in Seq(DOMAIN Lower), NEW t \in Seq(DOMAIN Lower)
    PROVE  SaySame(kept, s, t) <=> Collapse(kept, s) = Collapse(kept, t)
<1> DEFINE m == Len(s)
           n == Len(t)
           f == CHOOSE f : Emits(f, kept, s, m)
           g == CHOOSE g : Emits(g, kept, t, n)
<1>0. m \in Nat /\ n \in Nat OBVIOUS
<1>1. Emits(f, kept, s, m) /\ Emits(g, kept, t, n) BY <1>0, EmitsExist
<1>2. Collapse(kept, s) = TrimRight(f[m]) /\ Collapse(kept, t) = TrimRight(g[n])
    BY CollapseIs
<1>3. SaySame(kept, s, t) <=> SameUpTo(kept, s, m, t, n)
    BY DEF SaySame, SameUpTo, Agree
<1> HIDE DEF f, g, m, n
<1>4. Alike(kept, s, m, f, t, n, g) BY <1>0, <1>1, AlikeAlways
<1> QED BY <1>2, <1>3, <1>4 DEF Alike

\* Whatever the texts and the alphabet, Normalize and NormalizeCyrillicOnly give
\* two texts one form exactly when they say the same.
THEOREM NormalizeForgives ==
    ASSUME NEW s \in Seq(DOMAIN Lower), NEW t \in Seq(DOMAIN Lower)
    PROVE  /\ SaySame(Kept, s, t) <=> Normalize(s) = Normalize(t)
           /\ SaySame(KeptSpoken, s, t) <=> NormalizeCyrillicOnly(s) = NormalizeCyrillicOnly(t)
<1>1. Space \notin Kept /\ Space \notin KeptSpoken
    BY GradingAssumption DEF Kept, KeptSpoken
<1>2. SaySame(Kept, s, t) <=> Collapse(Kept, s) = Collapse(Kept, t)
    BY <1>1, CollapseSays
<1>3. SaySame(KeptSpoken, s, t) <=> Collapse(KeptSpoken, s) = Collapse(KeptSpoken, t)
    BY <1>1, CollapseSays
<1> QED BY <1>2, <1>3 DEF Normalize, NormalizeCyrillicOnly

\* The same of the texts a run compares.
THEOREM TypographyKept == Spec => []TypographyForgiven
<1>1. TypographyForgiven
    BY AnswersAssumption, NormalizeForgives DEF TypographyForgiven
<1> QED BY <1>1, PTL

-----------------------------------------------------------------------------
(* Distances.  What an alignment costs, and what one character more adds.      *)

LEMMA LeastIs ==
    ASSUME NEW V \in SUBSET Nat, V # {}
    PROVE  Least(V) \in V /\ \A w \in V : Least(V) <= w
<1>1. IsWellFoundedOn(Below, Nat)
    BY NatLessThanWellFounded DEF OpToRel, Below
<1>2. PICK n \in V : \A k \in V : <<k, n>> \notin Below
    BY <1>1, WFMin
<1>3. \A k \in V : ~ (k < n) BY <1>2 DEF Below
<1>4. \A k \in V : n <= k BY <1>3
<1> QED BY <1>4 DEF Least

LEMMA CostParts ==
    ASSUME NEW a, NEW b, NEW i \in Nat, NEW j \in Nat, NEW m
    PROVE  /\ IsFiniteSet(Deleted(i, m)) /\ Cardinality(Deleted(i, m)) \in Nat
           /\ IsFiniteSet(Inserted(i, j, m)) /\ Cardinality(Inserted(i, j, m)) \in Nat
           /\ IsFiniteSet(Replaced(a, b, i, m)) /\ Cardinality(Replaced(a, b, i, m)) \in Nat
           /\ Cost(a, b, i, j, m) \in Nat
<1>1. IsFiniteSet(1 .. i) /\ IsFiniteSet(1 .. j) BY FS_Interval
<1>2. Deleted(i, m) \subseteq 1 .. i BY DEF Deleted
<1>3. Inserted(i, j, m) \subseteq 1 .. j BY DEF Inserted
<1>4. Replaced(a, b, i, m) \subseteq 1 .. i BY DEF Replaced
<1>5. IsFiniteSet(Deleted(i, m)) /\ Cardinality(Deleted(i, m)) \in Nat
    BY <1>1, <1>2, FS_Subset, FS_CardinalityType
<1>6. IsFiniteSet(Inserted(i, j, m)) /\ Cardinality(Inserted(i, j, m)) \in Nat
    BY <1>1, <1>3, FS_Subset, FS_CardinalityType
<1>7. IsFiniteSet(Replaced(a, b, i, m)) /\ Cardinality(Replaced(a, b, i, m)) \in Nat
    BY <1>1, <1>4, FS_Subset, FS_CardinalityType
<1> QED BY <1>5, <1>6, <1>7 DEF Cost

\* One character more of the first text, given none of the other.
LEMMA CostDelete ==
    ASSUME NEW a, NEW b, NEW i \in Nat, NEW j \in Nat, NEW m, NEW n,
           \A k \in 1 .. i : n[k] = m[k], n[i + 1] = 0
    PROVE  Cost(a, b, i + 1, j, n) = Cost(a, b, i, j, m) + 1
<1>0. \A k \in 1 .. i + 1 : k \in 1 .. i \/ k = i + 1 OBVIOUS
<1>1. Deleted(i + 1, n) = Deleted(i, m) \cup {i + 1} /\ i + 1 \notin Deleted(i, m)
    BY <1>0 DEF Deleted
<1>2. Inserted(i + 1, j, n) = Inserted(i, j, m)
    <2>1. ASSUME NEW l \in 1 .. j
          PROVE  (\A k \in 1 .. i + 1 : n[k] # l) <=> (\A k \in 1 .. i : m[k] # l)
        <3>1. \A k \in 1 .. i : k \in 1 .. i + 1 OBVIOUS
        <3>2. n[i + 1] # l OBVIOUS
        <3> QED BY <1>0, <3>1, <3>2
    <2> QED BY <2>1 DEF Inserted
<1>3. Replaced(a, b, i + 1, n) = Replaced(a, b, i, m)
    BY <1>0 DEF Replaced
<1>4. Cardinality(Deleted(i + 1, n)) = Cardinality(Deleted(i, m)) + 1
    BY <1>1, CostParts, FS_AddElement
<1> QED BY <1>2, <1>3, <1>4, CostParts DEF Cost

\* One character more of both, given to each other.
LEMMA CostPair ==
    ASSUME NEW a, NEW b, NEW i \in Nat, NEW j \in Nat, NEW m, NEW n,
           \A k \in 1 .. i : n[k] = m[k], n[i + 1] = j + 1
    PROVE  Cost(a, b, i + 1, j + 1, n) = Cost(a, b, i, j, m) + Differ(a[i + 1], b[j + 1])
<1>0. \A k \in 1 .. i + 1 : k \in 1 .. i \/ k = i + 1 OBVIOUS
<1>1. Deleted(i + 1, n) = Deleted(i, m)
    BY <1>0 DEF Deleted
<1>2. Inserted(i + 1, j + 1, n) = Inserted(i, j, m)
    <2>1. ASSUME NEW l \in 1 .. j + 1
          PROVE  (\A k \in 1 .. i + 1 : n[k] # l)
                 <=> (l \in 1 .. j /\ \A k \in 1 .. i : m[k] # l)
        <3>1. \A k \in 1 .. i : k \in 1 .. i + 1 OBVIOUS
        <3>2. i + 1 \in 1 .. i + 1 OBVIOUS
        <3>3. n[i + 1] # l <=> l \in 1 .. j OBVIOUS
        <3> QED BY <1>0, <3>1, <3>2, <3>3
    <2>2. \A l \in 1 .. j : l \in 1 .. j + 1 OBVIOUS
    <2> QED BY <2>1, <2>2 DEF Inserted
<1>3. CASE a[i + 1] = b[j + 1]
    <2>1. Replaced(a, b, i + 1, n) = Replaced(a, b, i, m)
        BY <1>0, <1>3 DEF Replaced
    <2> QED BY <1>1, <1>2, <1>3, <2>1, CostParts DEF Cost, Differ
<1>4. CASE a[i + 1] # b[j + 1]
    <2>1. /\ Replaced(a, b, i + 1, n) = Replaced(a, b, i, m) \cup {i + 1}
          /\ i + 1 \notin Replaced(a, b, i, m)
        BY <1>0, <1>4 DEF Replaced
    <2>2. Cardinality(Replaced(a, b, i + 1, n)) = Cardinality(Replaced(a, b, i, m)) + 1
        BY <2>1, CostParts, FS_AddElement
    <2> QED BY <1>1, <1>2, <1>4, <2>2, CostParts DEF Cost, Differ
<1> QED BY <1>3, <1>4

\* One character more of the other text, given to none of the first.
LEMMA CostInsert ==
    ASSUME NEW a, NEW b, NEW i \in Nat, NEW j \in Nat, NEW m,
           \A k \in 1 .. i : m[k] # j + 1
    PROVE  Cost(a, b, i, j + 1, m) = Cost(a, b, i, j, m) + 1
<1>1. Inserted(i, j + 1, m) = Inserted(i, j, m) \cup {j + 1} /\ j + 1 \notin Inserted(i, j, m)
    <2>1. \A l \in 1 .. j + 1 : l \in 1 .. j \/ l = j + 1 OBVIOUS
    <2>2. \A l \in 1 .. j : l \in 1 .. j + 1 OBVIOUS
    <2> QED BY <2>1, <2>2 DEF Inserted
<1>2. Cardinality(Inserted(i, j + 1, m)) = Cardinality(Inserted(i, j, m)) + 1
    BY <1>1, CostParts, FS_AddElement
<1> QED BY <1>2, CostParts DEF Cost

\* The distance is the cost of one alignment and no more than that of another.
LEMMA DistanceIs ==
    ASSUME NEW a, NEW b, NEW i \in Nat, NEW j \in Nat
    PROVE  /\ Distance(a, b, i, j) \in Nat
           /\ \E m \in Alignments(i, j) : Distance(a, b, i, j) = Cost(a, b, i, j, m)
           /\ \A m \in Alignments(i, j) : Distance(a, b, i, j) <= Cost(a, b, i, j, m)
<1> DEFINE V == {Cost(a, b, i, j, m) : m \in Alignments(i, j)}
<1>1. V \in SUBSET Nat BY CostParts
<1>2. V # {}
    <2> DEFINE m == [k \in 1 .. i |-> 0]
    <2>1. m \in [1 .. i -> 0 .. j] /\ \A k \in 1 .. i : m[k] = 0 OBVIOUS
    <2> HIDE DEF m
    <2>2. m \in Alignments(i, j) BY <2>1 DEF Alignments
    <2> QED BY <2>2
<1>3. Least(V) \in V /\ \A w \in V : Least(V) <= w BY <1>1, <1>2, LeastIs
<1>4. Distance(a, b, i, j) = Least(V) BY DEF Distance
<1> QED BY <1>1, <1>3, <1>4

LEMMA DistanceNone ==
    ASSUME NEW a, NEW b, NEW j \in Nat
    PROVE  Distance(a, b, 0, j) = j /\ Distance(a, b, j, 0) = j
<1>0. IsFiniteSet(1 .. j) /\ Cardinality(1 .. j) = j
    <2>1. 1 \in Int /\ j \in Int OBVIOUS
    <2>2. IsFiniteSet(1 .. j) /\ Cardinality(1 .. j) = IF 1 > j THEN 0 ELSE j - 1 + 1
        BY <2>1, FS_Interval, Zenon
    <2> QED BY <2>2
<1>1. PICK m \in Alignments(0, j) : Distance(a, b, 0, j) = Cost(a, b, 0, j, m)
    BY DistanceIs
<1>2. Deleted(0, m) = {} /\ Replaced(a, b, 0, m) = {} /\ Inserted(0, j, m) = 1 .. j
    BY DEF Deleted, Replaced, Inserted
<1>a. Cardinality({}) = 0 BY FS_EmptySet
<1>3. Cost(a, b, 0, j, m) = j BY <1>0, <1>2, <1>a DEF Cost
<1>4. PICK n \in Alignments(j, 0) : Distance(a, b, j, 0) = Cost(a, b, j, 0, n)
    BY DistanceIs
<1>5. \A k \in 1 .. j : n[k] = 0
    BY DEF Alignments
<1>6. Deleted(j, n) = 1 .. j /\ Replaced(a, b, j, n) = {} /\ Inserted(j, 0, n) = {}
    BY <1>5 DEF Deleted, Replaced, Inserted
<1>7. Cost(a, b, j, 0, n) = j BY <1>0, <1>6, <1>a DEF Cost
<1> QED BY <1>1, <1>3, <1>4, <1>7

\* No distance is more than a step above those beside it...
LEMMA DistanceAtMost ==
    ASSUME NEW a, NEW b, NEW i \in Nat, NEW j \in Nat
    PROVE  /\ Distance(a, b, i + 1, j + 1) <= Distance(a, b, i + 1, j) + 1
           /\ Distance(a, b, i + 1, j + 1) <= Distance(a, b, i, j + 1) + 1
           /\ Distance(a, b, i + 1, j + 1)
                  <= Distance(a, b, i, j) + Differ(a[i + 1], b[j + 1])
<1>0. i + 1 \in Nat /\ j + 1 \in Nat OBVIOUS
<1>1. Distance(a, b, i + 1, j + 1) <= Distance(a, b, i + 1, j) + 1
    <2>1. PICK m \in Alignments(i + 1, j) :
              Distance(a, b, i + 1, j) = Cost(a, b, i + 1, j, m)
        BY <1>0, DistanceIs
    <2>2. m \in Alignments(i + 1, j + 1) /\ \A k \in 1 .. i + 1 : m[k] # j + 1
        BY DEF Alignments
    <2>3. Cost(a, b, i + 1, j + 1, m) = Cost(a, b, i + 1, j, m) + 1
        BY <1>0, <2>2, CostInsert
    <2> QED BY <1>0, <2>1, <2>2, <2>3, DistanceIs
<1>2. Distance(a, b, i + 1, j + 1) <= Distance(a, b, i, j + 1) + 1
    <2>1. PICK m \in Alignments(i, j + 1) :
              Distance(a, b, i, j + 1) = Cost(a, b, i, j + 1, m)
        BY <1>0, DistanceIs
    <2> DEFINE n == [k \in 1 .. i + 1 |-> IF k <= i THEN m[k] ELSE 0]
    <2>2. n[i + 1] = 0 /\ \A k \in 1 .. i : n[k] = m[k] OBVIOUS
    <2>3. n \in [1 .. i + 1 -> 0 .. j + 1] BY DEF Alignments
    <2> HIDE DEF n
    <2>4. n \in Alignments(i + 1, j + 1)
        <3>1. ASSUME NEW k \in 1 .. i + 1, NEW l \in 1 .. i + 1, k < l, n[k] # 0, n[l] # 0
              PROVE  n[k] < n[l]
            <4>1. k \in 1 .. i /\ l \in 1 .. i BY <2>2, <3>1
            <4> QED BY <2>2, <3>1, <4>1 DEF Alignments
        <3> QED BY <2>3, <3>1 DEF Alignments
    <2>5. Cost(a, b, i + 1, j + 1, n) = Cost(a, b, i, j + 1, m) + 1
        BY <1>0, <2>2, CostDelete
    <2> QED BY <1>0, <2>1, <2>4, <2>5, DistanceIs
<1>3. Distance(a, b, i + 1, j + 1) <= Distance(a, b, i, j) + Differ(a[i + 1], b[j + 1])
    <2>1. PICK m \in Alignments(i, j) : Distance(a, b, i, j) = Cost(a, b, i, j, m)
        BY DistanceIs
    <2> DEFINE n == [k \in 1 .. i + 1 |-> IF k <= i THEN m[k] ELSE j + 1]
    <2>2. n[i + 1] = j + 1 /\ \A k \in 1 .. i : n[k] = m[k] OBVIOUS
    <2>3. n \in [1 .. i + 1 -> 0 .. j + 1] BY DEF Alignments
    <2> HIDE DEF n
    <2>4. n \in Alignments(i + 1, j + 1)
        <3>1. ASSUME NEW k \in 1 .. i + 1, NEW l \in 1 .. i + 1, k < l, n[k] # 0, n[l] # 0
              PROVE  n[k] < n[l]
            <4>1. k \in 1 .. i /\ n[k] \in 0 .. j BY <2>2, <3>1 DEF Alignments
            <4>2. CASE l \in 1 .. i BY <2>2, <3>1, <4>1, <4>2 DEF Alignments
            <4>3. CASE l = i + 1 BY <2>2, <4>1, <4>3
            <4> QED BY <4>2, <4>3
        <3> QED BY <2>3, <3>1 DEF Alignments
    <2>5. Cost(a, b, i + 1, j + 1, n) = Cost(a, b, i, j, m) + Differ(a[i + 1], b[j + 1])
        BY <2>2, CostPair
    <2> QED BY <1>0, <2>1, <2>4, <2>5, DistanceIs
<1> QED BY <1>1, <1>2, <1>3

\* ... and each is a step above one of them, by what its alignment does last.
LEMMA DistanceFrom ==
    ASSUME NEW a, NEW b, NEW i \in Nat, NEW j \in Nat
    PROVE  \/ Distance(a, b, i + 1, j + 1) >= Distance(a, b, i + 1, j) + 1
           \/ Distance(a, b, i + 1, j + 1) >= Distance(a, b, i, j + 1) + 1
           \/ Distance(a, b, i + 1, j + 1)
                  >= Distance(a, b, i, j) + Differ(a[i + 1], b[j + 1])
<1>0. i + 1 \in Nat /\ j + 1 \in Nat /\ i + 1 \in 1 .. i + 1 OBVIOUS
<1>1. PICK n \in Alignments(i + 1, j + 1) :
          Distance(a, b, i + 1, j + 1) = Cost(a, b, i + 1, j + 1, n)
    BY <1>0, DistanceIs
<1>2. /\ n \in [1 .. i + 1 -> 0 .. j + 1]
      /\ \A k, l \in 1 .. i + 1 : k < l /\ n[k] # 0 /\ n[l] # 0 => n[k] < n[l]
    BY DEF Alignments
<1> DEFINE m == [k \in 1 .. i |-> n[k]]
<1>3. \A k \in 1 .. i : m[k] = n[k] /\ k \in 1 .. i + 1 /\ k < i + 1 OBVIOUS
<1>4. CASE n[i + 1] = 0
    <2>1. m \in Alignments(i, j + 1) BY <1>2, <1>3 DEF Alignments
    <2> HIDE DEF m
    <2>2. Cost(a, b, i + 1, j + 1, n) = Cost(a, b, i, j + 1, m) + 1
        BY <1>0, <1>3, <1>4, CostDelete
    <2> QED BY <1>0, <1>1, <2>1, <2>2, DistanceIs, CostParts
<1>5. CASE n[i + 1] = j + 1
    <2>1. \A k \in 1 .. i : n[k] \in 0 .. j BY <1>0, <1>2, <1>3, <1>5
    <2>2. m \in Alignments(i, j) BY <1>2, <1>3, <2>1 DEF Alignments
    <2> HIDE DEF m
    <2>3. Cost(a, b, i + 1, j + 1, n) = Cost(a, b, i, j, m) + Differ(a[i + 1], b[j + 1])
        BY <1>3, <1>5, CostPair
    <2>4. Differ(a[i + 1], b[j + 1]) \in Nat BY DEF Differ
    <2> QED BY <1>0, <1>1, <2>2, <2>3, <2>4, DistanceIs, CostParts
<1>6. CASE n[i + 1] \in 1 .. j
    <2>1. \A k \in 1 .. i + 1 : n[k] \in 0 .. j
        <3>1. \A k \in 1 .. i + 1 : k = i + 1 \/ k \in 1 .. i OBVIOUS
        <3> QED BY <1>0, <1>2, <1>3, <1>6, <3>1
    <2>2. n \in Alignments(i + 1, j) BY <1>2, <2>1 DEF Alignments
    <2>3. \A k \in 1 .. i + 1 : n[k] # j + 1 BY <2>1
    <2>4. Cost(a, b, i + 1, j + 1, n) = Cost(a, b, i + 1, j, n) + 1
        BY <1>0, <2>3, CostInsert
    <2> QED BY <1>0, <1>1, <2>2, <2>4, DistanceIs, CostParts
<1>7. n[i + 1] \in 0 .. j + 1 BY <1>0, <1>2
<1> QED BY <1>4, <1>5, <1>6, <1>7

LEMMA DistanceStep ==
    ASSUME NEW a, NEW b, NEW i \in Nat, NEW j \in Nat
    PROVE  Distance(a, b, i + 1, j + 1)
           = Least({Distance(a, b, i + 1, j) + 1, Distance(a, b, i, j + 1) + 1,
                    Distance(a, b, i, j) + Differ(a[i + 1], b[j + 1])})
<1> DEFINE d == Distance(a, b, i + 1, j + 1)
           x == Distance(a, b, i + 1, j) + 1
           y == Distance(a, b, i, j + 1) + 1
           z == Distance(a, b, i, j) + Differ(a[i + 1], b[j + 1])
<1>1. d \in Nat /\ x \in Nat /\ y \in Nat /\ z \in Nat
    <2>1. i + 1 \in Nat /\ j + 1 \in Nat /\ Differ(a[i + 1], b[j + 1]) \in Nat BY DEF Differ
    <2>2. /\ d \in Nat /\ Distance(a, b, i + 1, j) \in Nat
          /\ Distance(a, b, i, j + 1) \in Nat /\ Distance(a, b, i, j) \in Nat
        BY <2>1, DistanceIs, Zenon
    <2> QED BY <2>1, <2>2
<1>2. d <= x /\ d <= y /\ d <= z BY DistanceAtMost
<1>3. d >= x \/ d >= y \/ d >= z BY DistanceFrom
<1> HIDE DEF d, x, y, z
<1>4. {x, y, z} \in SUBSET Nat /\ {x, y, z} # {} BY <1>1
<1>5. Least({x, y, z}) \in {x, y, z} /\ \A w \in {x, y, z} : Least({x, y, z}) <= w
    BY <1>4, LeastIs
<1>6. d = Least({x, y, z}) BY <1>1, <1>2, <1>3, <1>5
<1> QED BY <1>6 DEF d, x, y, z

-----------------------------------------------------------------------------
(* The two rows.  Each holds the distances of as much of a from all of b.      *)

\* The distances of the first i characters of a from the first 0 .. n of b.
Holds(a, b, i, n, row) ==
    /\ row \in Seq(Nat) /\ Len(row) = n + 1
    /\ \A j \in 0 .. n : row[j + 1] = Distance(a, b, i, j)

Cells(r, prev, x, b, n) ==
    r = [j \in 0 .. n |-> IF j = 0 THEN <<prev[1] + 1>>
                          ELSE Cell(r[j - 1], prev, j, Differ(x, b[j]))]

LEMMA RowIs ==
    ASSUME NEW prev, NEW x, NEW b
    PROVE  Row(prev, x, b) = (CHOOSE r : Cells(r, prev, x, b, Len(b)))[Len(b)]
BY DEF Row, Cells

LEMMA CellsExist ==
    ASSUME NEW prev, NEW x, NEW b, NEW n \in Nat
    PROVE  \E r : Cells(r, prev, x, b, n)
<1> DEFINE T == {m \in Nat : \E r : Cells(r, prev, x, b, m)}
<1>1. 0 \in T
    <2> DEFINE r == [j \in 0 .. 0 |-> <<prev[1] + 1>>]
    <2>1. Cells(r, prev, x, b, 0) BY DEF Cells
    <2> QED BY <2>1
<1>2. ASSUME NEW m \in T PROVE m + 1 \in T
    <2>1. PICK r : Cells(r, prev, x, b, m) OBVIOUS
    <2> DEFINE q == [j \in 0 .. m + 1 |->
                       IF j <= m THEN r[j] ELSE Cell(r[m], prev, m + 1, Differ(x, b[m + 1]))]
    <2>2. ASSUME NEW j \in 0 .. m + 1
          PROVE  q[j] = IF j = 0 THEN <<prev[1] + 1>>
                        ELSE Cell(q[j - 1], prev, j, Differ(x, b[j]))
        <3>1. CASE j = 0 BY <3>1, <2>1 DEF Cells
        <3>2. CASE j # 0 /\ j <= m
            <4>1. j \in 0 .. m /\ j - 1 \in 0 .. m + 1 /\ j - 1 <= m BY <3>2
            <4>2. r[j] = Cell(r[j - 1], prev, j, Differ(x, b[j]))
                BY <2>1, <3>2, <4>1 DEF Cells
            <4>3. q[j] = r[j] /\ q[j - 1] = r[j - 1] BY <3>2, <4>1
            <4> QED BY <3>2, <4>2, <4>3
        <3>3. CASE j = m + 1
            <4>1. j - 1 = m /\ j # 0 /\ ~ (j <= m) /\ m \in 0 .. m + 1 /\ m <= m BY <3>3
            <4> QED BY <3>3, <4>1
        <3> QED BY <3>1, <3>2, <3>3
    <2>3. Cells(q, prev, x, b, m + 1) BY <2>2 DEF Cells
    <2>4. m + 1 \in Nat OBVIOUS
    <2> HIDE DEF q
    <2> QED BY <2>3, <2>4
<1>3. T = Nat
    <2> HIDE DEF T
    <2>1. T \subseteq Nat BY DEF T
    <2> QED BY <1>1, <1>2, <2>1, NatSetInduction
<1> QED BY <1>3

\* A cell is the distance its three neighbours allow.
LEMMA CellHolds ==
    ASSUME NEW a, NEW b, NEW i \in Nat, NEW j \in Nat, NEW n \in Nat, j + 1 <= n,
           NEW row, Holds(a, b, i + 1, j, row), NEW prev, Holds(a, b, i, n, prev)
    PROVE  Holds(a, b, i + 1, j + 1, Cell(row, prev, j + 1, Differ(a[i + 1], b[j + 1])))
<1> DEFINE d == Distance(a, b, i + 1, j + 1)
           x == Differ(a[i + 1], b[j + 1])
<1>1. row[j + 1] = Distance(a, b, i + 1, j) BY DEF Holds
<1>2. prev[j + 1] = Distance(a, b, i, j) BY DEF Holds
<1>3. prev[(j + 1) + 1] = Distance(a, b, i, j + 1)
    <2>1. j + 1 \in 0 .. n OBVIOUS
    <2> QED BY <2>1 DEF Holds
<1>4. Cell(row, prev, j + 1, x) = Append(row, d)
    BY <1>1, <1>2, <1>3, DistanceStep DEF Cell
<1>5. d \in Nat
    <2>1. i + 1 \in Nat /\ j + 1 \in Nat OBVIOUS
    <2> QED BY <2>1, DistanceIs
<1> HIDE DEF d, x
<1>6. /\ row \in Seq(Nat) /\ Len(row) = j + 1
      /\ \A k \in 0 .. j : row[k + 1] = Distance(a, b, i + 1, k)
    BY DEF Holds
<1>7. Append(row, d) \in Seq(Nat) /\ Len(Append(row, d)) = (j + 1) + 1
    BY <1>5, <1>6
<1>8. ASSUME NEW k \in 0 .. j + 1 PROVE Append(row, d)[k + 1] = Distance(a, b, i + 1, k)
    <2>1. CASE k \in 0 .. j
        <3>1. k + 1 \in 1 .. Len(row) BY <1>6, <2>1
        <3>2. Append(row, d)[k + 1] = row[k + 1] BY <1>5, <1>6, <3>1
        <3> QED BY <1>6, <2>1, <3>2
    <2>2. CASE k = j + 1
        <3>1. Append(row, d)[Len(row) + 1] = d BY <1>5, <1>6
        <3> QED BY <1>6, <2>2, <3>1 DEF d
    <2>3. k \in 0 .. j \/ k = j + 1 OBVIOUS
    <2> QED BY <2>1, <2>2, <2>3
<1>9. Holds(a, b, i + 1, j + 1, Append(row, d)) BY <1>7, <1>8 DEF Holds
<1> QED BY <1>4, <1>9 DEF x

LEMMA RowHolds ==
    ASSUME NEW a, NEW b, Len(b) \in Nat, NEW i \in Nat, NEW prev, Holds(a, b, i, Len(b), prev)
    PROVE  Holds(a, b, i + 1, Len(b), Row(prev, a[i + 1], b))
<1> DEFINE n == Len(b)
           r == CHOOSE r : Cells(r, prev, a[i + 1], b, n)
           T == {m \in Nat : m <= n => Holds(a, b, i + 1, m, r[m])}
<1>0. n \in Nat OBVIOUS
<1>1. Cells(r, prev, a[i + 1], b, n) BY <1>0, CellsExist
<1> HIDE DEF r, n
<1>2. 0 \in T
    <2>1. r[0] = <<prev[1] + 1>> BY <1>0, <1>1 DEF Cells
    <2>2. prev[1] = Distance(a, b, i, 0)
        <3>1. 0 \in 0 .. n /\ 0 + 1 = 1 BY <1>0
        <3> QED BY <3>1 DEF Holds, n
    <2>3. Distance(a, b, i, 0) = i /\ Distance(a, b, i + 1, 0) = i + 1
        BY DistanceNone, i + 1 \in Nat
    <2>4. <<i + 1>> \in Seq(Nat) /\ Len(<<i + 1>>) = 0 + 1 /\ <<i + 1>>[0 + 1] = i + 1 OBVIOUS
    <2>5. \A j \in 0 .. 0 : j = 0 OBVIOUS
    <2>6. Holds(a, b, i + 1, 0, r[0]) BY <2>1, <2>2, <2>3, <2>4, <2>5 DEF Holds
    <2> QED BY <2>6
<1>3. ASSUME NEW m \in T PROVE m + 1 \in T
    <2>0. m \in Nat OBVIOUS
    <2>1. ASSUME m + 1 <= n PROVE Holds(a, b, i + 1, m + 1, r[m + 1])
        <3>1. m + 1 \in 0 .. n /\ m + 1 # 0 /\ (m + 1) - 1 = m BY <1>0, <2>0, <2>1
        <3>2. r[m + 1] = Cell(r[m], prev, m + 1, Differ(a[i + 1], b[m + 1]))
            BY <1>1, <3>1 DEF Cells
        <3>3. Holds(a, b, i + 1, m, r[m]) BY <1>0, <2>0, <2>1
        <3> QED BY <1>0, <2>0, <2>1, <3>2, <3>3, CellHolds DEF n
    <2> QED BY <2>0, <2>1
<1>4. T = Nat
    <2> HIDE DEF T
    <2>1. T \subseteq Nat BY DEF T
    <2> QED BY <1>2, <1>3, <2>1, NatSetInduction
<1>5. Holds(a, b, i + 1, n, r[n]) BY <1>0, <1>4
<1> QED BY <1>5, RowIs DEF r, n

Rows(q, a, b, n) ==
    q = [i \in 0 .. n |-> IF i = 0 THEN [j \in 1 .. Len(b) + 1 |-> j - 1]
                          ELSE Row(q[i - 1], a[i], b)]

LEMMA RowsAre ==
    ASSUME NEW a, NEW b, a # <<>>, b # <<>>
    PROVE  Levenshtein(a, b) = (CHOOSE q : Rows(q, a, b, Len(a)))[Len(a)][Len(b) + 1]
BY DEF Levenshtein, Rows

LEMMA RowsExist ==
    ASSUME NEW a, NEW b, NEW n \in Nat
    PROVE  \E q : Rows(q, a, b, n)
<1> DEFINE first == [j \in 1 .. Len(b) + 1 |-> j - 1]
           T == {m \in Nat : \E q : Rows(q, a, b, m)}
<1> HIDE DEF first
<1>1. 0 \in T
    <2> DEFINE q == [i \in 0 .. 0 |-> first]
    <2>1. Rows(q, a, b, 0) BY DEF Rows, first
    <2> QED BY <2>1
<1>2. ASSUME NEW m \in T PROVE m + 1 \in T
    <2>1. PICK q : Rows(q, a, b, m) OBVIOUS
    <2> DEFINE p == [i \in 0 .. m + 1 |-> IF i <= m THEN q[i] ELSE Row(q[m], a[m + 1], b)]
    <2>2. ASSUME NEW i \in 0 .. m + 1
          PROVE  p[i] = IF i = 0 THEN first ELSE Row(p[i - 1], a[i], b)
        <3>1. CASE i = 0 BY <3>1, <2>1 DEF Rows, first
        <3>2. CASE i # 0 /\ i <= m
            <4>1. i \in 0 .. m /\ i - 1 \in 0 .. m + 1 /\ i - 1 <= m BY <3>2
            <4>2. q[i] = Row(q[i - 1], a[i], b)
                BY <2>1, <3>2, <4>1 DEF Rows
            <4>3. p[i] = q[i] /\ p[i - 1] = q[i - 1] BY <3>2, <4>1
            <4> QED BY <3>2, <4>2, <4>3
        <3>3. CASE i = m + 1
            <4>1. i - 1 = m /\ i # 0 /\ ~ (i <= m) /\ m \in 0 .. m + 1 /\ m <= m BY <3>3
            <4> QED BY <3>3, <4>1
        <3> QED BY <3>1, <3>2, <3>3
    <2>3. Rows(p, a, b, m + 1) BY <2>2 DEF Rows, first
    <2>4. m + 1 \in Nat OBVIOUS
    <2> HIDE DEF p
    <2> QED BY <2>3, <2>4
<1>3. T = Nat
    <2> HIDE DEF T
    <2>1. T \subseteq Nat BY DEF T
    <2> QED BY <1>1, <1>2, <2>1, NatSetInduction
<1> QED BY <1>3

LEMMA FirstRow ==
    ASSUME NEW a, NEW b, Len(b) \in Nat
    PROVE  Holds(a, b, 0, Len(b), [j \in 1 .. Len(b) + 1 |-> j - 1])
<1> DEFINE n == Len(b)
           row == [j \in 1 .. n + 1 |-> j - 1]
<1>0. n \in Nat OBVIOUS
<1> HIDE DEF n
<1>1. row \in Seq(Nat) /\ Len(row) = n + 1 BY <1>0
<1>2. ASSUME NEW j \in 0 .. n PROVE row[j + 1] = Distance(a, b, 0, j)
    <2>1. row[j + 1] = j BY <1>0
    <2> QED BY <2>1, DistanceNone, j \in Nat
<1> QED BY <1>1, <1>2 DEF Holds, n

\* Whatever the two texts, what normalize.go's two rows end with is the least
\* number of insertions, deletions and replacements that turn one into the other.
THEOREM LevenshteinNearest ==
    ASSUME NEW A, NEW a \in Seq(A), NEW b \in Seq(A)
    PROVE  Levenshtein(a, b) = EditDistance(a, b)
<1>0. Len(a) \in Nat /\ Len(b) \in Nat OBVIOUS
<1>1. CASE a = <<>>
    <2>1. Len(a) = 0 /\ Levenshtein(a, b) = Len(b) BY <1>1 DEF Levenshtein
    <2> QED BY <1>0, <2>1, DistanceNone DEF EditDistance
<1>2. CASE a # <<>> /\ b = <<>>
    <2>1. Len(b) = 0 /\ Levenshtein(a, b) = Len(a) BY <1>2 DEF Levenshtein
    <2> QED BY <1>0, <2>1, DistanceNone DEF EditDistance
<1>3. CASE a # <<>> /\ b # <<>>
    <2> DEFINE m == Len(a)
               q == CHOOSE q : Rows(q, a, b, m)
               T == {i \in Nat : i <= m => Holds(a, b, i, Len(b), q[i])}
    <2>0. m \in Nat BY <1>0
    <2>1. Rows(q, a, b, m) BY <2>0, RowsExist
    <2> HIDE DEF q, m
    <2>2. 0 \in T
        <3>1. q[0] = [j \in 1 .. Len(b) + 1 |-> j - 1] BY <2>0, <2>1 DEF Rows
        <3>2. Holds(a, b, 0, Len(b), q[0]) BY <1>0, <3>1, FirstRow
        <3> QED BY <3>2
    <2>3. ASSUME NEW i \in T PROVE i + 1 \in T
        <3>0. i \in Nat OBVIOUS
        <3>1. ASSUME i + 1 <= m PROVE Holds(a, b, i + 1, Len(b), q[i + 1])
            <4>1. i + 1 \in 0 .. m /\ i + 1 # 0 /\ (i + 1) - 1 = i BY <2>0, <3>0, <3>1
            <4>2. q[i + 1] = Row(q[i], a[i + 1], b) BY <2>1, <4>1 DEF Rows
            <4>3. Holds(a, b, i, Len(b), q[i]) BY <2>0, <3>0, <3>1
            <4> QED BY <1>0, <3>0, <4>2, <4>3, RowHolds
        <3> QED BY <3>0, <3>1
    <2>4. T = Nat
        <3> HIDE DEF T
        <3>1. T \subseteq Nat BY DEF T
        <3> QED BY <2>2, <2>3, <3>1, NatSetInduction
    <2>5. Holds(a, b, m, Len(b), q[m]) BY <2>0, <2>4
    <2>6. q[m][Len(b) + 1] = Distance(a, b, m, Len(b))
        <3>1. Len(b) \in 0 .. Len(b) BY <1>0
        <3> QED BY <2>5, <3>1 DEF Holds
    <2> QED BY <1>3, <2>6, RowsAre DEF q, m, EditDistance
<1> QED BY <1>1, <1>2, <1>3

\* The same of the texts a run compares.
THEOREM NearestKept == Spec => []NearestEdits
<1>1. NearestEdits
    <2>1. ASSUME NEW a \in Words, NEW b \in Words PROVE Levenshtein(a, b) = EditDistance(a, b)
        <3>1. a \in Seq(DOMAIN Lower) /\ b \in Seq(DOMAIN Lower) BY AnswersAssumption
        <3> QED BY <3>1, LevenshteinNearest
    <2> QED BY <2>1 DEF NearestEdits
<1> QED BY <1>1, PTL

-----------------------------------------------------------------------------
(* What the graders rely on: a similarity lies between 0 and 1 and is 1 of     *)
(* equal texts alone, whichever comes first.                                   *)

\* Two beginnings of texts, of i and of j characters, are the same.
Equal(a, b, i, j) == i = j /\ \A k \in 1 .. i : a[k] = b[k]

\* What a distance is, whatever the texts.
Metric(a, b, i, j) ==
    /\ Distance(a, b, i, j) = Distance(b, a, j, i)
    /\ Distance(a, b, i, j) <= i \/ Distance(a, b, i, j) <= j
    /\ Distance(a, b, i, j) = 0 <=> Equal(a, b, i, j)

LEMMA MetricNext ==
    ASSUME NEW a, NEW b, NEW i \in Nat, NEW j \in Nat,
           Metric(a, b, i + 1, j), Metric(a, b, i, j + 1), Metric(a, b, i, j)
    PROVE  Metric(a, b, i + 1, j + 1)
<1> DEFINE d == Distance(a, b, i + 1, j + 1)
           e == Distance(b, a, j + 1, i + 1)
           x == Distance(a, b, i + 1, j)
           y == Distance(a, b, i, j + 1)
           z == Distance(a, b, i, j)
           c == Differ(a[i + 1], b[j + 1])
<1>0. i + 1 \in Nat /\ j + 1 \in Nat OBVIOUS
<1>1. c \in {0, 1} /\ (c = 0 <=> a[i + 1] = b[j + 1]) /\ c = Differ(b[j + 1], a[i + 1])
    BY DEF Differ
<1>2. d \in Nat /\ e \in Nat BY <1>0, DistanceIs, Zenon
<1>3. x \in Nat /\ y \in Nat /\ z \in Nat BY <1>0, DistanceIs, Zenon
<1>4. d <= x + 1 /\ d <= y + 1 /\ d <= z + c BY DistanceAtMost
<1>5. d >= x + 1 \/ d >= y + 1 \/ d >= z + c BY DistanceFrom
<1>6. Distance(b, a, j, i + 1) = x /\ Distance(b, a, j + 1, i) = y /\ Distance(b, a, j, i) = z
    BY DEF Metric
<1>7. e <= x + 1 /\ e <= y + 1 /\ e <= z + c
    <2>1. /\ e <= Distance(b, a, j + 1, i) + 1 /\ e <= Distance(b, a, j, i + 1) + 1
          /\ e <= Distance(b, a, j, i) + Differ(b[j + 1], a[i + 1])
        BY DistanceAtMost
    <2> QED BY <1>1, <1>6, <2>1
<1>8. e >= x + 1 \/ e >= y + 1 \/ e >= z + c
    <2>1. \/ e >= Distance(b, a, j + 1, i) + 1 \/ e >= Distance(b, a, j, i + 1) + 1
          \/ e >= Distance(b, a, j, i) + Differ(b[j + 1], a[i + 1])
        BY DistanceFrom
    <2> QED BY <1>1, <1>6, <2>1
<1>9. (z <= i \/ z <= j) /\ (z = 0 <=> Equal(a, b, i, j)) BY DEF Metric
<1>10. Equal(a, b, i + 1, j + 1) <=> Equal(a, b, i, j) /\ a[i + 1] = b[j + 1]
    <2>1. \A k \in 1 .. i + 1 : k \in 1 .. i \/ k = i + 1 OBVIOUS
    <2>2. \A k \in 1 .. i : k \in 1 .. i + 1 OBVIOUS
    <2>3. i + 1 \in 1 .. i + 1 OBVIOUS
    <2> QED BY <2>1, <2>2, <2>3 DEF Equal
<1> HIDE DEF d, e, x, y, z, c
<1>11. d = e BY <1>1, <1>2, <1>3, <1>4, <1>5, <1>7, <1>8
<1>12. d <= i + 1 \/ d <= j + 1 BY <1>1, <1>2, <1>3, <1>4, <1>9
<1>13. d = 0 <=> z = 0 /\ c = 0 BY <1>1, <1>2, <1>3, <1>4, <1>5
<1> QED BY <1>1, <1>9, <1>10, <1>11, <1>12, <1>13 DEF Metric, d, e

LEMMA MetricAlways ==
    ASSUME NEW a, NEW b
    PROVE  \A i, j \in Nat : Metric(a, b, i, j)
<1> DEFINE T == {w \in Nat : \A i, j \in Nat : i + j <= w => Metric(a, b, i, j)}
<1>1. ASSUME NEW j \in Nat PROVE Metric(a, b, 0, j) /\ Metric(a, b, j, 0)
    <2>1. /\ Distance(a, b, 0, j) = j /\ Distance(b, a, j, 0) = j
          /\ Distance(a, b, j, 0) = j /\ Distance(b, a, 0, j) = j
        BY DistanceNone
    <2>2. Equal(a, b, 0, j) <=> j = 0 BY DEF Equal
    <2>3. Equal(a, b, j, 0) <=> j = 0 BY DEF Equal
    <2> QED BY <2>1, <2>2, <2>3 DEF Metric
<1>2. 0 \in T
    <2>1. \A i, j \in Nat : i + j <= 0 => i = 0 /\ j = 0 OBVIOUS
    <2> QED BY <1>1, <2>1
<1>3. ASSUME NEW w \in T PROVE w + 1 \in T
    <2>0. w \in Nat OBVIOUS
    <2>1. \A i, j \in Nat : i + j <= w => Metric(a, b, i, j) OBVIOUS
    <2> HIDE DEF T
    <2>2. ASSUME NEW i \in Nat, NEW j \in Nat, i + j <= w + 1 PROVE Metric(a, b, i, j)
        <3>1. CASE i = 0 \/ j = 0 BY <1>1, <3>1
        <3>2. CASE i # 0 /\ j # 0
            <4> DEFINE k == i - 1
                       l == j - 1
            <4>1. k \in Nat /\ l \in Nat /\ k + 1 = i /\ l + 1 = j BY <3>2
            <4> HIDE DEF k, l
            <4>2. /\ k + 1 \in Nat /\ l + 1 \in Nat
                  /\ (k + 1) + l <= w /\ k + (l + 1) <= w /\ k + l <= w
                BY <2>0, <2>2, <4>1
            <4>3. /\ Metric(a, b, k + 1, l) /\ Metric(a, b, k, l + 1) /\ Metric(a, b, k, l)
                BY <2>1, <4>1, <4>2
            <4>4. Metric(a, b, k + 1, l + 1) BY <4>1, <4>3, MetricNext
            <4> QED BY <4>1, <4>4
        <3> QED BY <3>1, <3>2
    <2> QED BY <2>0, <2>2 DEF T
<1>4. T = Nat
    <2> HIDE DEF T
    <2>1. T \subseteq Nat BY DEF T
    <2> QED BY <1>2, <1>3, <2>1, NatSetInduction
<1>5. ASSUME NEW i \in Nat, NEW j \in Nat PROVE Metric(a, b, i, j)
    <2>1. i + j \in T
        <3> HIDE DEF T
        <3> QED BY <1>4
    <2> QED BY <2>1
<1> QED BY <1>5

LEMMA ProductGrows ==
    ASSUME NEW p \in Nat, NEW q \in Nat, NEW m \in Nat, p <= q
    PROVE  p * m <= q * m /\ p * m \in Int /\ q * m \in Int
OBVIOUS

\* "Similarity returns 1 for identical strings down to 0 for fully different"
\* (normalize.go): of any two texts it is not below 0, and 1 of equal ones alone;
\* which of them is the reference does not matter; and what reaches a threshold
\* reaches those below it, on which the cascade of simToGrade relies.
THEOREM SimilarityBounds ==
    ASSUME NEW A, NEW a \in Seq(A), NEW b \in Seq(A)
    PROVE  /\ AtLeast(a, b, 0)
           /\ AtLeast(a, b, 100) <=> a = b
           /\ \A p \in Nat : AtLeast(a, b, p) <=> AtLeast(b, a, p)
           /\ \A p, q \in Nat : p <= q /\ AtLeast(a, b, q) => AtLeast(a, b, p)
<1> DEFINE d == Levenshtein(a, b)
           m == IF Len(a) > Len(b) THEN Len(a) ELSE Len(b)
<1>0. /\ Len(a) \in Nat /\ Len(b) \in Nat
      /\ m \in Nat /\ m >= Len(a) /\ m >= Len(b)
      /\ m = IF Len(b) > Len(a) THEN Len(b) ELSE Len(a)
    OBVIOUS
<1>1. d = Distance(a, b, Len(a), Len(b)) /\ Levenshtein(b, a) = Distance(b, a, Len(b), Len(a))
    BY LevenshteinNearest DEF EditDistance
<1>2. Metric(a, b, Len(a), Len(b)) BY <1>0, MetricAlways
<1>3. d \in Nat
    <2>1. Distance(a, b, Len(a), Len(b)) \in Nat BY <1>0, DistanceIs
    <2> QED BY <1>1, <2>1
<1>4. d <= m /\ Levenshtein(b, a) = d BY <1>0, <1>1, <1>2, <1>3 DEF Metric
<1>5. d = 0 <=> a = b
    <2>1. Equal(a, b, Len(a), Len(b)) <=> a = b
        <3>1. ASSUME Equal(a, b, Len(a), Len(b)) PROVE a = b
            <4>1. Len(a) = Len(b) /\ \A k \in 1 .. Len(a) : a[k] = b[k] BY <3>1 DEF Equal
            <4> QED BY <4>1
        <3> QED BY <3>1 DEF Equal
    <2> QED BY <1>1, <1>2, <2>1 DEF Metric
<1> HIDE DEF d, m
<1>6. ASSUME NEW p \in Nat
      PROVE  /\ AtLeast(a, b, p) <=> 100 * (m - d) >= p * m
             /\ AtLeast(b, a, p) <=> 100 * (m - d) >= p * m
    BY <1>0, <1>4 DEF AtLeast, d, m
<1>7. AtLeast(a, b, 0) BY <1>0, <1>3, <1>4, <1>6
<1>8. AtLeast(a, b, 100) <=> a = b
    <2>1. AtLeast(a, b, 100) <=> 100 * (m - d) >= 100 * m BY <1>6
    <2>2. 100 * (m - d) >= 100 * m <=> d = 0 BY ONLY <1>0, <1>3
    <2> QED BY <1>5, <2>1, <2>2
<1>9. ASSUME NEW p \in Nat, NEW q \in Nat, p <= q, AtLeast(a, b, q) PROVE AtLeast(a, b, p)
    <2>1. p * m <= q * m /\ p * m \in Int /\ q * m \in Int BY <1>0, <1>9, ProductGrows
    <2>2. 100 * (m - d) >= q * m /\ 100 * (m - d) \in Int BY <1>0, <1>3, <1>6, <1>9
    <2>3. 100 * (m - d) >= p * m BY <2>1, <2>2
    <2> QED BY <1>6, <2>3
<1> QED BY <1>6, <1>7, <1>8, <1>9

\* The grade of a similarity is g or better exactly when it reaches the g-th
\* threshold, as the cascade of simToGrade has it.
THEOREM GradeByThreshold ==
    ASSUME NEW A, NEW refs \in SUBSET Seq(A), NEW s \in Seq(A), NEW g \in 1 .. 5
    PROVE  simToGrade(refs, s) >= g <=> Reaches(refs, s, Thresholds[g])
<1> DEFINE S == {h \in 1 .. 5 : Reaches(refs, s, Thresholds[h])}
<1>1. ASSUME NEW h \in 1 .. 5, NEW k \in 1 .. h, Reaches(refs, s, Thresholds[h])
      PROVE  Reaches(refs, s, Thresholds[k])
    <2>1. PICK a \in refs : AtLeast(a, s, Thresholds[h]) BY <1>1 DEF Reaches
    <2>2. k \in 1 .. 5 /\ k <= h OBVIOUS
    <2>3. /\ Thresholds[k] \in Nat /\ Thresholds[h] \in Nat
          /\ Thresholds[k] <= Thresholds[h]
        BY <2>2 DEF Thresholds
    <2>4. a \in Seq(A) OBVIOUS
    <2>5. AtLeast(a, s, Thresholds[k]) BY <2>1, <2>3, <2>4, SimilarityBounds
    <2> QED BY <2>5 DEF Reaches
<1>2. PICK n \in 0 .. 5 : S = 1 .. n
    <2>1. \A h \in S : \A k \in 1 .. h : k \in S BY <1>1
    <2>2. S \subseteq 1 .. 5 OBVIOUS
    <2> HIDE DEF S
    <2>a. \A h \in S : h \in {1, 2, 3, 4, 5} BY <2>2
    <2>3. 5 \in S => S = 1 .. 5 BY <2>1, <2>2
    <2>4. 5 \notin S /\ 4 \in S => S = 1 .. 4 BY <2>1, <2>a
    <2>5. 5 \notin S /\ 4 \notin S /\ 3 \in S => S = 1 .. 3 BY <2>1, <2>a
    <2>6. 5 \notin S /\ 4 \notin S /\ 3 \notin S /\ 2 \in S => S = 1 .. 2 BY <2>1, <2>a
    <2>7. 5 \notin S /\ 4 \notin S /\ 3 \notin S /\ 2 \notin S /\ 1 \in S => S = 1 .. 1
        BY <2>a
    <2>8. 5 \notin S /\ 4 \notin S /\ 3 \notin S /\ 2 \notin S /\ 1 \notin S => S = 1 .. 0
        BY <2>a
    <2>9. {0, 1, 2, 3, 4, 5} \subseteq 0 .. 5 OBVIOUS
    <2> QED BY <2>3, <2>4, <2>5, <2>6, <2>7, <2>8, <2>9
<1>3. Cardinality(S) = n
    <2>1. Cardinality(1 .. n) = IF 1 > n THEN 0 ELSE n - 1 + 1
        BY FS_Interval, 1 \in Int, n \in Int, Zenon
    <2> HIDE DEF S
    <2> QED BY <1>2, <2>1
<1>4. g \in S <=> n >= g BY <1>2
<1>5. simToGrade(refs, s) = Cardinality(S) BY DEF simToGrade
<1> QED BY <1>3, <1>4, <1>5

\* Typing that says the same as an answer is graded 5, whatever its case, marks and
\* gaps and whatever the task's gates; and in a choice anything else is graded 0
\* (GradeText).
THEOREM TypographyNeverCosts ==
    ASSUME NEW i \in Inputs
    PROVE  LET same == \E a \in i.task.answers : SaySame(Kept, i.text, a)
               grade == GradeText(i.task, i.text).grade
           IN  /\ same => grade = 5
               /\ i.task.kind \in ChoiceKinds /\ ~same => grade = 0
<1>1. i.text \in Seq(DOMAIN Lower) /\ i.task.answers \subseteq Seq(DOMAIN Lower)
    BY AnswersAssumption
<1>2. ASSUME NEW a \in i.task.answers
      PROVE  SaySame(Kept, i.text, a) <=> Normalize(i.text) = Normalize(a)
    BY <1>1, NormalizeForgives
<1>3. Reference(i) <=> \E a \in i.task.answers : SaySame(Kept, i.text, a)
    BY <1>2 DEF Reference, Normalized
<1>4. i.task.kind \in ChoiceKinds => Barred(i) BY DEF Barred
<1> QED BY <1>3, <1>4, TextVerdict
=============================================================================
