------------------------------- MODULE Answers -------------------------------
(***************************************************************************)
(* An answer on its way to a grade: handleSessionAttempt and               *)
(* handleSessionSpeak between the look-up of the session and the save of   *)
(* the card (Sessions has those), with the whisper and Anthropic clients    *)
(* and the day's budget of Claude calls.  The database, the clock and the   *)
(* budget are shared by the handlers that run at once.                      *)
(***************************************************************************)
EXTENDS Grading

CONSTANTS
    Handlers, \* requests the server may be running at once
    Inputs,   \* what learners may send: a task and the text typed or heard
    Budget,   \* daily_claude_budget; 0 also stands for no API key
    Days,     \* bound: the days of the run, 1 .. Days
    Scores,   \* bound: what the model may put in submit_grade
    Words,    \* bound: the texts between which distances are compared
    Typings,  \* bound: the texts between which typography is compared
    None

ASSUME AnswersAssumption ==
    /\ IsFiniteSet(Handlers)
    /\ \A i \in Inputs :
          i.text \in Seq(DOMAIN Lower) /\ i.task.answers \subseteq Seq(DOMAIN Lower)
    /\ Words \cup Typings \subseteq Seq(DOMAIN Lower)
    /\ Budget \in Nat /\ Days \in Nat \ {0}
    /\ Scores \subseteq Int
    /\ None \notin Inputs

VARIABLES
    pc,      \* the step a handler takes next
    input,   \* its task and text
    verdict, \* res, as it will be saved
    day,     \* `today` of its budget check
    gone,    \* its context is cancelled: the client went away
    today,   \* the UTC day
    calls    \* rows of claude_calls for grading, by day

vars == <<pc, input, verdict, day, gone, today, calls>>

Steps == {"idle", "listen", "count", "call", "save"}
Verdicts == [grade : 0 .. 5,
             by : {"exact", "critical", "forbidden", "fuzzy", "speech-exact",
                   "speech-fuzzy", "claude"},
             ambiguous : BOOLEAN]

\* The variables have their types and the budget rows their days.
TypeOK ==
    /\ pc \in [Handlers -> Steps]
    /\ input \in [Handlers -> Inputs \cup {None}]
    /\ verdict \in [Handlers -> Verdicts \cup {None}]
    /\ day \in [Handlers -> 1 .. Days]
    /\ gone \in [Handlers -> BOOLEAN]
    /\ today \in 1 .. Days
    /\ calls \in [1 .. Days -> Nat]
    /\ \A h \in Handlers :
          /\ pc[h] # "idle" => input[h] \in Inputs
          /\ pc[h] \in {"count", "call", "save"} => verdict[h] \in Verdicts

Init ==
    /\ pc = [h \in Handlers |-> "idle"]
    /\ input = [h \in Handlers |-> None]
    /\ verdict = [h \in Handlers |-> None]
    /\ day = [h \in Handlers |-> 1]
    /\ gone = [h \in Handlers |-> FALSE]
    /\ today = 1
    /\ calls = [d \in 1 .. Days |-> 0]

-----------------------------------------------------------------------------
(* The handlers *)

Goto(h, step) == pc' = [pc EXCEPT ![h] = step]

\* A handler that has answered, or whose server stopped, is free again.
Clear(h) ==
    /\ Goto(h, "idle")
    /\ input' = [input EXCEPT ![h] = None]
    /\ verdict' = [verdict EXCEPT ![h] = None]
    /\ day' = [day EXCEPT ![h] = 1]
    /\ gone' = [gone EXCEPT ![h] = FALSE]

\* A typed answer is graded at once; only an ambiguous one goes on to Claude.
Attempt(h, i) ==
    /\ pc[h] = "idle" /\ i.task.kind # "speak"
    /\ input' = [input EXCEPT ![h] = i]
    /\ verdict' = [verdict EXCEPT ![h] = GradeText(i.task, i.text)]
    /\ Goto(h, IF verdict'[h].ambiguous THEN "count" ELSE "save")
    /\ UNCHANGED <<day, gone, today, calls>>

\* A recording goes to whisper-server, whose text is what the input says.
Speak(h, i) ==
    /\ pc[h] = "idle" /\ i.task.kind = "speak"
    /\ Goto(h, "listen")
    /\ input' = [input EXCEPT ![h] = i]
    /\ UNCHANGED <<verdict, day, gone, today, calls>>

Transcribe(h) ==
    /\ pc[h] = "listen" /\ ~gone[h]
    /\ verdict' = [verdict EXCEPT ![h] = GradeSpeech(input[h].task, input[h].text)]
    /\ Goto(h, "save")
    /\ UNCHANGED <<input, day, gone, today, calls>>

\* No answer within two minutes, another status than 200, a body that does
\* not parse, or a cancelled context: nothing is graded or saved.
TranscribeFails(h) ==
    /\ pc[h] = "listen"
    /\ Clear(h)
    /\ UNCHANGED <<today, calls>>

\* Mutant: one call more than the budget.
AffordableOneMore(n) == n <= Budget
Affordable(n) == n < Budget

\* The count of the day's calls; a cancelled query gives up the upgrade.
Count(h) ==
    /\ pc[h] = "count"
    /\ IF ~gone[h] /\ Budget > 0 /\ Affordable(calls[today])
       THEN Goto(h, "call") /\ day' = [day EXCEPT ![h] = today]
       ELSE Goto(h, "save") /\ UNCHANGED day
    /\ UNCHANGED <<input, verdict, gone, today, calls>>

\* The row is inserted with the request's context and any error ignored.
Recorded(h) == IF gone[h] THEN calls ELSE [calls EXCEPT ![day[h]] = @ + 1]

\* Mutant: what the model says is taken as it is.
Unclamped(n) == n

\* GradeTranslation keeps what the model says within 0 .. 5.
Clamped(n) == IF n < 0 THEN 0 ELSE IF n > 5 THEN 5 ELSE n

ClaudeGrades(h, n) ==
    /\ pc[h] = "call"
    /\ verdict' = [verdict EXCEPT ![h] = Verdict(Clamped(n), "claude", FALSE)]
    /\ calls' = Recorded(h)
    /\ Goto(h, "save")
    /\ UNCHANGED <<input, day, gone, today>>

\* An error, a timeout, no submit_grade: the fuzzy grade stays.
ClaudeFails(h) ==
    /\ pc[h] = "call"
    /\ calls' = Recorded(h)
    /\ Goto(h, "save")
    /\ UNCHANGED <<input, verdict, day, gone, today>>

\* updateSRSAndLog with res and the answer to the client, or their failure.
Save(h) ==
    /\ pc[h] = "save"
    /\ Clear(h)
    /\ UNCHANGED <<today, calls>>

\* The client goes away; after the last call that no longer matters here.
Leave(h) ==
    /\ pc[h] \in {"listen", "count", "call"} /\ ~gone[h]
    /\ gone' = [gone EXCEPT ![h] = TRUE]
    /\ UNCHANGED <<pc, input, verdict, day, today, calls>>

\* The server stops and starts: what was under way is gone, paid or not.
Restart ==
    /\ pc' = [h \in Handlers |-> "idle"]
    /\ input' = [h \in Handlers |-> None]
    /\ verdict' = [h \in Handlers |-> None]
    /\ day' = [h \in Handlers |-> 1]
    /\ gone' = [h \in Handlers |-> FALSE]
    /\ UNCHANGED <<today, calls>>

NextDay ==
    /\ today < Days
    /\ today' = today + 1
    /\ UNCHANGED <<pc, input, verdict, day, gone, calls>>

HandlerStep(h) ==
    \/ \E i \in Inputs : Attempt(h, i) \/ Speak(h, i)
    \/ Transcribe(h)
    \/ TranscribeFails(h)
    \/ Count(h)
    \/ \E n \in Scores : ClaudeGrades(h, n)
    \/ ClaudeFails(h)
    \/ Save(h)
    \/ Leave(h)

Next == (\E h \in Handlers : HandlerStep(h)) \/ Restart \/ NextDay

Spec == Init /\ [][Next]_vars

-----------------------------------------------------------------------------
(* Properties *)

InFlight(d) == {h \in Handlers : pc[h] = "call" /\ day[h] = d}

\* The count and the insert are apart, so a day's rows and calls under way may
\* exceed the budget, but by no more than the handlers that were between the two:
\* whatever is answered, cancelled or restarted, they stay below the budget plus the
\* handlers that run at once (maybeUpgradeWithClaude).  A call that was cancelled, or
\* whose insert failed, is neither, and nothing bounds those.
BudgetBound ==
    \A d \in 1 .. Days :
        calls[d] + Cardinality(InFlight(d))
            <= IF Budget = 0 THEN 0 ELSE Budget - 1 + Cardinality(Handlers)

Reference(i) == Normalize(i.text) \in Normalized(i.task.answers)
Barred(i) ==
    \/ i.task.kind \in ChoiceKinds
    \/ Missing(i.task, Normalize(i.text)) # {}
    \/ Hit(i.task, Normalize(i.text)) # {}

\* The hard gates of grade.go hold to the end: what is saved for a reference
\* answer is 5, and for another that a gate bars 0, whether Claude is asked,
\* answers or fails.  Only translations are Claude's to grade.
GatesHold ==
    \A h \in Handlers :
        pc[h] = "save" =>
            LET i == input[h]
                v == verdict[h]
            IN  /\ v.by = "claude" => i.task.kind \in TranslationKinds
                /\ i.task.kind # "speak" /\ Reference(i) => v.grade = 5
                /\ i.task.kind # "speak" /\ ~Reference(i) /\ Barred(i) => v.grade = 0

\* The reason: only what no gate decides is ever on its way to Claude, and
\* only speaking tasks to whisper-server.
OnlyOpenAnswersAsked ==
    \A h \in Handlers :
        /\ pc[h] = "listen" => input[h].task.kind = "speak"
        /\ pc[h] \in {"count", "call"} =>
              /\ input[h].task.kind \in TranslationKinds
              /\ ~Reference(input[h]) /\ ~Barred(input[h])

\* A recording in which no Cyrillic letter and no digit is heard does not pass,
\* when every reference has something to say (GradeSpeech: the similarity of two
\* texts of which nothing is left is 1).
SilenceFails ==
    \A h \in Handlers :
        /\ pc[h] = "save" /\ input[h].task.kind = "speak"
        /\ \A c \in {input[h].text[k] : k \in DOMAIN input[h].text} : Lower[c] \notin KeptSpoken
        /\ \A a \in input[h].task.answers : NormalizeCyrillicOnly(a) # <<>>
        => verdict[h].grade < 3

\* The graders' operators do not depend on the state, and what they compute is
\* checked once, where a run begins.

\* The two rows of normalize.go's Levenshtein give the least number of edits.
NearestEdits ==
    Init => \A a, b \in Words : Levenshtein(a, b) = EditDistance(a, b)

\* Two texts are one to the graders exactly when they say the same: case,
\* punctuation and the length of a gap are forgiven, and nothing else is.
TypographyForgiven ==
    Init => \A s, t \in Typings :
        /\ SaySame(Kept, s, t) <=> Normalize(s) = Normalize(t)
        /\ SaySame(KeptSpoken, s, t) <=> NormalizeCyrillicOnly(s) = NormalizeCyrillicOnly(t)
=============================================================================
