------------------------------ MODULE Composer ------------------------------
(***************************************************************************)
(* Compose of internal/tasks/scheduler.go, as POST /api/session/start of   *)
(* one learner runs it: a query for each modality, a top-up when they give *)
(* too few, and the time budget.  The queries are statements of their own, *)
(* and between them the learner's other requests and the admin page change *)
(* what is due.  The difficulty band is the one read with the request's    *)
(* user, so a task outside it is as one that is flagged.  RANDOM() and     *)
(* rand.Shuffle are a choice among equals and an order nothing reads.      *)
(***************************************************************************)
EXTENDS Integers, Sequences, FiniteSets

CONSTANTS
    Tasks,   \* rows of the tasks table within the band
    Kind,    \* the kind of a task
    Mix,     \* how many tasks of each modality to take
    TopUp,   \* how many rows the top-up reads
    Budget,  \* seconds a session may take
    MaxNow,  \* bound: the clock
    Changes  \* bound: what others change while a session is composed

ModalityOf ==
    [cloze |-> "grammar", conjugation |-> "grammar", case |-> "grammar",
     aspect |-> "grammar", tr_ru_sr |-> "translation", tr_sr_ru |-> "translation",
     vocab |-> "translation", speak |-> "speaking"]

EstSeconds == [cloze |-> 20, conjugation |-> 15, case |-> 15, aspect |-> 20,
               tr_ru_sr |-> 30, tr_sr_ru |-> 30, vocab |-> 10, speak |-> 45]

Modalities == {"grammar", "translation", "speaking"}
Wanted == Mix["grammar"] + Mix["translation"] + Mix["speaking"]

ASSUME ComposerAssumption ==
    /\ Kind \in [Tasks -> DOMAIN ModalityOf]
    /\ Mix \in [Modalities -> Nat]
    /\ TopUp \in Nat /\ Wanted <= TopUp
    /\ Budget \in Nat /\ MaxNow \in Nat /\ Changes \in Nat

VARIABLES
    due,      \* due_at of the learner's cards; 0 for a task without one
    live,     \* tasks that are there and not flagged
    now,      \* unixepoch()
    pc,       \* the query Compose makes next
    selected, \* Compose's list
    given,    \* the list Compose returns
    changed   \* history: what others changed since Compose began

cards == <<due, live, now>>
vars == <<cards, pc, selected, given, changed>>

-----------------------------------------------------------------------------
(* The queries *)

DueTasks == {t \in live : due[t] <= now}
Of(m) == {t \in DueTasks : ModalityOf[Kind[t]] = m}

Taken(s) == {s[i] : i \in DOMAIN s}
Distinct(s) == \A i, j \in DOMAIN s : s[i] = s[j] => i = j
UpTo(n, S) == UNION {[1 .. k -> S] : k \in 0 .. n}

\* ORDER BY COALESCE(due_at, 0), RANDOM(): s may be the beginning of the rows S.
\* Mutant: the latest first.
LeadsLatest(s, S) ==
    \A i \in DOMAIN s : \A t \in S : (\A j \in 1 .. i : s[j] # t) => due[s[i]] >= due[t]
Leads(s, S) ==
    \A i \in DOMAIN s : \A t \in S : (\A j \in 1 .. i : s[j] # t) => due[s[i]] <= due[t]

\* The first n rows of S, or all when they are fewer.
FirstRows(S, n) ==
    {s \in UpTo(n, S) : Distinct(s) /\ Leads(s, S) /\ (Len(s) = n \/ Taken(s) = S)}

After(m, s) ==
    CASE m = "grammar" -> "translation"
      [] m = "translation" -> "speaking"
      [] m = "speaking" -> IF Len(s) < Wanted THEN "any" ELSE "budget"

Select(rows, m) ==
    /\ selected' = selected \o rows
    /\ pc' = After(m, selected')
    /\ UNCHANGED <<cards, given, changed>>

\* The limit of mix * 4 is never the smaller one.
DueByModality(m) ==
    /\ pc = m
    /\ \E rows \in FirstRows(Of(m), Mix[m]) : Select(rows, m)

\* The TopUp most urgent rows; which of the equally urgent, RANDOM() decides.
\* Mutant: only as many are read as the list lacks.
Urgent(n) ==
    {M \in SUBSET DueTasks :
        /\ Cardinality(M) = n \/ (M = DueTasks /\ Cardinality(M) < n)
        /\ \A t \in M, u \in DueTasks \ M : due[t] <= due[u]}
MoreFew == Urgent(Wanted - Len(selected))
More == Urgent(TopUp)

\* Mutant: the loop goes on once the list is long enough.
LackingMore == TopUp
Lacking == Wanted - Len(selected)

\* Mutant: what is in the list already is not passed over.
UnseenAll(more) == more
Unseen(more) == more \ Taken(selected)

DueAny ==
    /\ pc = "any"
    /\ \E more \in More :
          \E rows \in FirstRows(Unseen(more), Lacking) :
             selected' = selected \o rows
    /\ pc' = "budget"
    /\ UNCHANGED <<cards, given, changed>>

QueryFails ==
    /\ pc \in Modalities \cup {"any"}
    /\ pc' = "failed"
    /\ UNCHANGED <<cards, selected, given, changed>>

-----------------------------------------------------------------------------
(* The time budget *)

Est(t) == EstSeconds[Kind[t]]

\* The seconds of the first n tasks of s.
Time(s, n) ==
    LET sum[i \in 0 .. n] == IF i = 0 THEN 0 ELSE sum[i - 1] + Est(s[i])
    IN  sum[n]

\* The list ends before its second or later task that does not fit.
\* Mutant: the task itself is not counted.
FitsWithout(s, n) == n = 1 \/ Time(s, n - 1) <= Budget
Fits(s, n) == n = 1 \/ Time(s, n) <= Budget

Kept == Cardinality({n \in DOMAIN selected : \A i \in 1 .. n : Fits(selected, i)})

FitBudget ==
    /\ pc = "budget"
    /\ given' = SubSeq(selected, 1, Kept)
    /\ pc' = "done"
    /\ UNCHANGED <<cards, selected, changed>>

-----------------------------------------------------------------------------
(* Others, while the session is composed *)

Composing == pc \notin {"done", "failed"}

Other ==
    /\ Composing
    /\ changed < Changes
    /\ changed' = changed + 1
    /\ UNCHANGED <<pc, selected, given>>

\* A task graded, or put off, in another tab.
Study(t) ==
    /\ Other
    /\ \E at \in now + 1 .. MaxNow + 1 : due' = [due EXCEPT ![t] = at]
    /\ UNCHANGED <<live, now>>

\* The admin page sets or clears the flag; a deletion is as a flag never cleared.
Flag(t) ==
    /\ Other
    /\ live' = IF t \in live THEN live \ {t} ELSE live \cup {t}
    /\ UNCHANGED <<due, now>>

Tick ==
    /\ Other
    /\ now < MaxNow
    /\ now' = now + 1
    /\ UNCHANGED <<due, live>>

-----------------------------------------------------------------------------

Init ==
    /\ due \in [Tasks -> 0 .. MaxNow + 1]
    /\ live = Tasks
    /\ now \in 0 .. MaxNow
    /\ pc = "grammar"
    /\ selected = <<>> /\ given = <<>>
    /\ changed = 0

Next ==
    \/ \E m \in Modalities : DueByModality(m)
    \/ DueAny
    \/ QueryFails
    \/ FitBudget
    \/ \E t \in Tasks : Study(t) \/ Flag(t)
    \/ Tick

Spec == Init /\ [][Next]_vars

-----------------------------------------------------------------------------
(* Properties *)

TypeOK ==
    /\ due \in [Tasks -> 0 .. MaxNow + 1]
    /\ live \subseteq Tasks
    /\ now \in 0 .. MaxNow
    /\ pc \in Modalities \cup {"any", "budget", "done", "failed"}
    /\ selected \in Seq(Tasks) /\ Len(selected) <= Wanted
    /\ given \in Seq(Tasks) /\ Len(given) <= Len(selected)
    /\ changed \in 0 .. Changes

\* No task is in a session twice, though the top-up reads again what the three
\* queries have read and the cards may have changed between them (Compose).
NoTaskTwice == Distinct(selected)

Undisturbed == pc = "done" /\ changed = 0
LeftOut == DueTasks \ Taken(given)

\* If nothing changed meanwhile, a task of a session is as urgent as any due task of
\* its modality that was left out, by a quota, the top-up or the budget alike.
UrgentFirst ==
    Undisturbed =>
        \A t \in Taken(given), u \in LeftOut :
            ModalityOf[Kind[t]] = ModalityOf[Kind[u]] => due[t] <= due[u]

\* A session fits its time unless it is one task ("capped by est-seconds budget");
\* and if nothing changed meanwhile it fills it: it has as many tasks as wanted, or
\* every due task, or leaves one out that no longer fits, and is not empty then
\* (Compose: the top-up's limit allows for rows the list has already).
Filled ==
    /\ Len(given) > 1 => Time(given, Len(given)) <= Budget
    /\ Undisturbed =>
        \/ LeftOut = {}
        \/ Len(given) = Wanted
        \/ /\ given # <<>>
           /\ \E t \in LeftOut : Time(given, Len(given)) + Est(t) > Budget
=============================================================================
