# Models of serbian

`serbian` is a self-hosted trainer for Serbian: a Go server with a SQLite
database, a browser client without a build step, and a few command line tools.
This directory holds TLA+ models of it, the TLC runs that check them and proofs
that TLAPS checks. The definitions are translated from `src/`; `PROJECT.json`
names the lines each one stands for.

## The system

| Component | State | Operations | Talks to |
|---|---|---|---|
| Study sessions (`internal/server/api.go`, `speak.go`, `skip.go`, `internal/tasks/store.go`) | rows of `sessions`, `srs_state`, `attempts` | start, attempt, speak, skip, end | database, graders, whisper, Claude, client |
| SM-2 update (`internal/tasks/srs.go`) | none (a function of a card) | `UpdateSRS` | session handlers |
| Composer (`internal/tasks/scheduler.go`, `types.go`) | a list, from query to query | `Compose`: due tasks by modality, top-up, time budget | `tasks`, `srs_state` |
| Graders (`grade.go`, `speech.go`, `normalize.go`) | none | `GradeText`, `GradeSpeech`, `Levenshtein` | session handlers |
| Claude budget (`api.go`, `maybeUpgradeWithClaude`) | `claude_calls` | count, call, insert | Anthropic API |
| Authentication (`internal/server/server.go`) | cookie, `users` | `requireAuth`, `handleSetup` | `users` |
| Administration (`internal/server/admin.go`) | `tasks.flagged` | list, flag, delete | cascades to cards and attempts |
| Users (`internal/store/users.go`) | `users` | create, look up, preferences, remove | every per-user table |
| Store (`internal/store/sqlite.go`, `migrations/`) | `_migrations`, the schema | open, migrate | every start of every program |
| Bootstrap (`internal/store/bootstrap.go`) | `users`, `srs_state_old` | `EnsureOwnerUser` | config, migrations |
| Configuration (`internal/config/config.go`) | `config.json` | `Load`, `Save` | every start of every program |
| Start and CLI (`cmd/serbian/main.go`) | none | serve, add, remove and list users, back up | all of the above |
| Push (`internal/server/push.go`, `internal/push/`) | `push_subs` | subscribe, unsubscribe, fire | push services |
| Backups (`internal/store/backup.go`) | files | `Backup`, `PruneBackups`, daily loop | database |
| Generation, import, annotation (`cmd/pregen`, `cmd/annotate`) | `tasks` | validate, insert, merge | Anthropic API, files |
| Client (`web/app.js`, `web/lib`, `web/ui`) | the page's `state`, recorder, calls under way | the buttons of a session | session endpoints |

What makes it hard:

* **No transactions in handlers.** `net/http` runs each request in a goroutine
  and every SQL statement commits on its own, so the statements of all requests
  interleave. The CLI removes users from another process.
* **Checked once, used later.** A session is found open, then the answer is
  graded (whisper and Claude take seconds), then three statements follow.
* **Partial foreign keys.** Migration 0004 could not give `sessions.user_id` and
  `attempts.user_id` references; only `srs_state` has them.
* **Starts are not exclusive.** The CLI loads and saves the config, migrates and
  bootstraps beside a running server; any program may be killed at any step.
* **The client goes on after an await** with a session object whose current task
  may have changed: Skip, Cancel, timeouts, the recorder's auto-stop and the
  microphone prompt race with one another.
* **A count and its use apart.** The day's Claude calls are counted before a call
  of seconds and entered after it, with a context that the client may cancel.
* **Files without locks.** The server's loop and `-backup` write and delete the
  same snapshots, and a snapshot is removed before its successor is written.
* **Ids kept outside the database.** A dump names rows that are merged days later,
  after deletions, imports or a migration that rebuilt the table.

What must hold: a card is moved by grades alone, and no grade, lapse or attempt
is lost or invented when requests do not overlap; accounts do not reach into one
another; a session's log freezes once it has ended; every request is answered; a
start always leaves something the next start can run on; a verdict is shown for
the task it judges; the page never hangs; a gate of the grader holds whoever
grades; the calls recorded and under way exceed the budget by no more than the
handlers at once; no row of the
task bank becomes unsolvable or another task's; a whole snapshot is lost only to
newer ones or to the failed backup of its own day.

## The modules

* `SM2`: `UpdateSRS` on integers (easiness and interval in hundredths). A due
  date beyond what `time.Duration` holds is whatever the platform's conversion
  makes of it: `DueOffsets` gives both outcomes.
* `Sessions` (extends `SM2`): the tables are `users`, `tasks`, `flagged`,
  `sessions`, `srs`, `attempts`; each request is a record with a program counter,
  and each SQL statement of `store.go` is one action. An attempt is
  `Admit` (`SessionExists`), `LoadTask`, `Grade`, `ReadSRS`, `SaveSRS`,
  `LogAttempt`; a skip is `Admit`, `LoadTask`, `DeferTask`, `LogAttempt`; an end
  is `EndSession`, `Summarise`; a start is `Compose`, `StartSession`. `Refuse` is
  a foreign key refusing a statement, `CountFails` an end whose count fails and is
  answered as 0 of 0 (`"blank"`), `Fail` any other error, `Crash` a restart.
  `DeleteTask` and `DeleteUser` are the admin page and the CLI.
* `SessionLog`: what the endpoints promise about one session, as an abstract
  specification: open, close, admit, record, drop, erase. `Sessions` implements
  it (`LogSpec`).
* `Startup`: two or more programs coming up. `Load`, `CreateTmp`, `WriteTmp` and
  `RenameTmp` are the file operations of `config.go`, with inodes, as
  `os.Create` truncates a file another program has open; `WriteFails` is the error
  path of the write. `Load` draws a token when none is set (`NoneSet`): there is no
  file, or one without `auth_token`, written by hand before the first start or left
  by `ForgetToken`, the regeneration `src/README.md:30` describes. `ReadApplied`, `Apply`
  and `Migrated` are `Migrate`, a migration being one transaction; then
  `EnsureOwnerUser`, and `AddUser`, `DeleteUser` or `Stop`. `Found` gives the
  databases an earlier build leaves.
* `ClientSession`: the page. An action is what JavaScript runs between two
  awaits; `calls` holds the handlers that wait, each remembering the session
  object it closed over; `mic` holds the recorders, with the permission prompt as
  a state of its own; `offered` is whether Skip was enabled when the page was last
  drawn.
* `Reminders`: subscriptions and reminders. `fire` holds every run of the Go
  `fire()`, the scheduler's and those of `/api/push/test`: `Query` reads the rows,
  `Send` gets an answer, `MarkOK`, `BumpFailure` and `DropDead` are its statements,
  each of which may fail; the list of rows may also be cut short, as `rows.Err()` is
  not looked at. `NextSlot` is `nextSlot`; `Boot`, `WakeUp` and `Finish`
  set and take the loop's timer. A request authenticated before its user's removal
  may run its statement after it, so the handlers need no table of users.
* `Composer`: one `Compose`. `DueByModality` is each of the three queries, `DueAny`
  the top-up, `FitBudget` the time budget; `Study`, `Flag` and `Tick` are what other
  tabs, the admin page and the clock change between the queries. `RANDOM()` is any
  choice among equals (`FirstRows`, `Urgent`).
* `Grading`: `Normalize`, `NormalizeCyrillicOnly`, `Levenshtein`, `GradeText` and
  `GradeSpeech` on sequences of characters, with the loops as recursive functions
  (`Cell`, `Row` and the rows of `Levenshtein` are its two nested loops).
  `EditDistance` is what `Levenshtein` should compute: the least cost of an alignment,
  which gives each character of one text, in order, a character of the other or none.
  `SaySame` is which texts normalisation should make one: with the same kept characters
  at the same places (`Place`), case aside, and spaces between the same ones (`Opens`).
  Similarities are compared in whole numbers; for all lengths up to 2000 characters that
  is what the comparisons of `float64` give.
* `Answers` (extends `Grading`): an answer from the look-up of its session to the
  save. `Attempt` grades what was typed, `Transcribe` what whisper heard; `Count`,
  `ClaudeGrades` and `ClaudeFails` are `maybeUpgradeWithClaude` between its calls;
  `Leave` is a client that goes away, which cancels the request's context and with
  it the insert of the call's row. `Sessions` has the statements before and after.
* `TaskBank`: the rows of `tasks` under `cmd/pregen` (`BeginImport`, `InsertItem`),
  `cmd/annotate` (`Dump`, `BeginMerge`, `OpenFile`, `MergeFile`, `SkipFile`,
  `EndMerge`), the admin page and the migrations that rebuild the table (`Upgrade`).
  `Annotate` is what the annotator writes about a dump. A text is the set of the
  pieces it contains. A transaction whose snapshot another writer made old cannot
  write: `SkipFile`.
* `Backups`: the files by day, each whole, partial or being written, and for each
  program where it stands in `Backup` and `PruneBackups`. `Begin` reads the clock,
  `Remove`, `Create`, `Finish` and `DeleteOldest` are the file operations, `Fail` and
  `Kill` come at any of them. `Rest` sets the timer of the loop.
* `MCSessions`, `MCStartup`, `MCReminders`, `MCComposer`, `MCClientSession`,
  `MCAnswers`, `MCTaskBank`, `MCBackups`: instances for TLC.
* `SessionsProofs`, `ClientSessionProofs`, `ComposerProofs`, `RemindersProofs`,
  `StartupProofs`, `TaskBankProofs`, `AnswersProofs`, `BackupsProofs`: theorems.

How they meet. `Sessions` lets a grader give any grade and lets the composer find
any due task; `Grading`, `Answers` and `Composer` say which. `ClientSession` lets the
server answer anything or fail; `Sessions` says what it does. `Startup` leaves a
complete schema, from which `Sessions`, `Reminders` and `TaskBank` begin.

Operators commented as mutants are what plausible bugs would make of the
definition after them; `PROJECT.json` pairs each with the property that finds it.

## The runs

| Run | Instance | Shows |
|---|---|---|
| `sessions_learner` | 1 user, 1 written task, 3 requests, grades 0 and 4, 2 clock values, weak fairness | cards stay sound under lost updates; lapses equal the failing grades saved, unless two saves overlapped; a summary that could count has what was acknowledged; skips move no learning state; an end is final; every request is answered |
| `sessions_accounts` | 2 users, 1 speaking task, 3 requests, 2 sessions | attempts have owners; one account's requests leave the other's data alone; the endpoints implement `SessionLog` |
| `composer_mixed` | 6 tasks of 5 kinds with every distribution of due dates, a mix of 2, 1 and 1, 2 changes by others | no task twice; without changes the session is full or has all that is due and fits, is within the time budget, and takes the most urgent of each modality |
| `startup_two` | 2 programs, 2 tokens, 1 card, three kinds of install, 2 deletions of the token by the operator | once up, a complete schema migrated without gaps; rows with users, a readable config, the owner's token on disk unless the operator deleted it, and every start ends |
| `startup_upgrade` | 1 program, single-user install | *violated*: migrations 0005 and 0007 delete cards and attempts |
| `reminders_fires` | the loop, 2 tests, 2 accounts, 1 device and 2 rows of it, 2 slots a day over 2 days | a slot fires once and the loop waits for the first to come; a subscription is retired after three failures, and then at once |
| `client_learner` | 2 sessions of speak, text, speak, 3 waiting handlers, 2 recorders, a learner who waits; or 1 session, 2 handlers, any enabled button | verdicts belong to their tasks, no task is passed over, no session of a learner who waits is left open behind another; whoever clicks, the page's state is well formed and transcribing ends |
| `client_verdict` | 1 session of 2 speaking tasks, any enabled button | *violated*: a late verdict lands on the next task |
| `client_recording` | as above, a learner who waits | *violated*: a late microphone prompt leaves the page recording |
| `answers_three` | 3 handlers, a budget of 2 calls, 2 days, 9 tasks and texts over 2 Cyrillic letters, a Latin one, a digit, a space and a mark | the grade of a gate is the grade saved; silence does not pass; a day's recorded calls and those under way exceed the budget by less than the handlers at once; `Levenshtein` is the edit distance and normalisation forgives case, marks and gaps alone |
| `bank_merge` | 2 batches of 2 contents, 2 ids, 2 annotations in one or two files, 1 rebuild | every row's gates can be passed by its own answers; a row changes only by an annotation of its content; a merge that reports no failure has done its work |
| `backups_two` | the loop and 2 commands, 3 days, 2 snapshots kept | a day's snapshot is whole, outnumbered, in hand or spoiled by its own day's failure |

Bounds. In `sessions_learner` the first request to be answered is a start, so that
three requests are a session with two others in it: two attempts that overlap, an
attempt with a skip, or an attempt with an end that counts it. A fourth request
would add chains of such pairs; for all but `Answered` the proofs cover any number. Ids beyond a session's and users beyond
two add no new relation between a request and a row. One written and one speaking task
cover the kind check; a second grade on each side of the pass mark adds nothing
the SM-2 update tells apart, and the proofs hold for all grades. Two clock values
tell a due card from one that is not. Two programs reach every race between
`Load` and `Rename` and between `ReadApplied` and `Apply`. Requests are
symmetric in `sessions_accounts`; runs with liveness use no symmetry. Three scheduled
fires and two tests reach three failures with a success between any two, on one
device that is subscribed, removed and subscribed again. The composer's mix, top-up
limit and time budget are scaled down together, so that quotas, top-up and budget
all cut off tasks; kinds and their seconds are the code's. Three handlers and a
budget of two let one be counted in while two others are at their calls. Words of up
to four letters give every edit in every place, and typings of up to four characters
every gap and mark at both ends and inside. In `bank_merge` two rows, two contents and
two annotations give a row that two files speak of, a file about two rows, a row
deleted and its id given out again by a rebuilt table; the batches hold a task that no
answer solves, one of the wrong shape, one that is there already with other answers, and
pieces of which `Normalize` leaves nothing. Three days and two snapshots kept make
pruning delete, and two commands beside the loop give two writers of one name while a
third prunes. Deadlock is not checked where a model comes to rest when its bounds are
used up; it is in `answers_three`, `bank_merge` and `backups_two`.

`ConfigReadable` and `OwnerTokenOnDisk` are stated for programs that did not have
the config file open at the same time. With such an overlap both fail: one
program may rename the file the other has just truncated, and two first starts
draw two tokens, of which the database keeps one and the file the other.
`OwnerTokenOnDisk` also excepts a token the operator has deleted from the file
(`forgotten`): what the code then does is under *What the models leave out*. In
`startup_two` the operator's deletions (`MaxForget`, 2 of 2 tokens) and such an overlap are
looked at one at a time (the constraint `NotBoth`); the theorems have both at once.

`SummaryCountsAcked` speaks of summaries whose count succeeded. One whose count failed
is answered 200 as well, with 0 of 0, and of it nothing is claimed.

`orderly`, a variable of `ClientSession` that never changes, tells how the learner
behaves, and `Manners` which behaviours a run has. An orderly learner waits for the
server or the microphone prompt before beginning anything other than Skip or Cancel;
and the body of an answer, a few hundred bytes, is not overtaken by the answer to a
later call. Without the second assumption Skip is too late for an upload whose header
has arrived (`speakAttempt` has then removed its abort listener); without the first,
see `client_verdict`. `VerdictOfItsTask`, `NoTaskPassedOver`, `LeftOnlyWhenEnded` and the
bound on a session's index in `TypeOK` are stated for orderly learners, the rest for any.

Fairness. `Sessions`: weak fairness of each request's next statement, as SQLite
waits at most five seconds for a lock and the calls to whisper and Claude have
timeouts; arrivals, failures and restarts are free. `Startup`: weak fairness of a
start's steps. `ClientSession`: timers fire, recorder events come and fetches
settle; neither the learner nor the permission prompt owes anything. That a fetch
settles (the 45 s of `api.js` end with the answer's header, `return r.json()` having no
`await`) and that a stopped recorder has its event is the
environment's part: `TranscribingEnds` says nothing of a browser that loses either. The other
modules state no liveness: nothing bounds a send to a push service, and a command may
be stopped at any time.

## The proofs

Every theorem is for every value of the constants under the named assumptions of its
module. An assumption says what the code relies on: the identities that tell rows,
programs and loops apart (`Loop \notin Tests` in `Reminders`, `None` and `Empty` being
no token in `Startup`), that there are finitely many of them at a time, and how the
code's constants are ordered.

`SessionsProofs`, under `SM2Assumption` and `SessionsAssumption`:

* `UpdateSound`: `UpdateSRS` takes a sound card to a sound card at any grade. Sound
  means an easiness of at least 1.30 and an interval that belongs to the number of
  passes in a row; the step uses that `Scaled` does not shrink an interval of six
  days or more when the easiness is at least 1.
* `TypeCorrect`: `Spec => []TypeOK`.
* `AttemptsOwned`: `Spec => []AttemptsHaveOwners`. The property is not inductive.
  A request about to log could belong to a removed user whose session is still
  there, or name a session id now another's. `OwnershipInv` adds why neither
  happens: ids are given once (`sid < nextSid` from admission on), so a session
  that exists under an admitted id is the requester's; and a request about to
  log has passed the foreign key of `srs_state`, so its user existed then, and
  whoever removes that user removes the session in the same transaction.
* `RowsSound`: `Spec => []SoundRows`. The strengthening is that a card in a
  request's memory is sound as well: the save may be of a stale card.
* `EndedForGood`: `Spec => EndIsFinal`, from `TypeCorrect` (the id a start takes is
  beyond every existing session's).
* `MovedByGrading`: `Spec => ProgressOnlyByGrading`. The step that moves a card
  must be a save that was not in `saved` yet, which is `SavedInv`: a request whose
  save is recorded is past its save.
* `LapsesCounted`: `Spec => []LapsesAccounted`. `LapsesInv` says the same of a card
  that has no row yet, which counts zero, so that the first save is a step like any
  other. A save adds what `ReadSRS` read; that no other save came between is what
  `raced` records of the card.
* `SummaryComplete`: `Spec => []SummaryCountsAcked`, of counts that succeeded. `AckedInv`: a graded answer whose
  200 was sent is a row as long as its user and its task are there. `SummaryInv`: an
  end's `before` holds such answers of its own session, and once summarised it has
  counted those that last. `RouteInv` keeps the endpoints apart.
* `OthersUntouched`: `Spec => OwnRequestsOnly`, from `OwnershipInv`: a statement of
  a request reaches only rows of the user its session belongs to.
* `LogImplemented`: `Spec => LogSpec`, the refinement. `Phases`, `AdmittedTo` and
  `Logs` are the three functions of the mapping; one lemma per action of
  `SessionLog` states that action in their terms, and one per action of `Sessions`
  says which of them it is. `OwnershipInv` is needed where a user is removed: the
  attempts that go are exactly those of the sessions that go.

`ClientSessionProofs`, under `ClientAssumption`, for any list of tasks and any number of
sessions, waiting handlers and recorders: `TypeCorrect`, `VerdictsBelong`
(`VerdictOfItsTask`), `NoneLeftOpen` (`LeftOnlyWhenEnded`) and `EachTaskDealtWith`
(`NoTaskPassedOver`). One invariant, `PageInv`, carries all four. `Shape` is the type;
`Links` says which handler holds which session, recorder and abort controller: a
controller that Skip or Cancel would abort is a waiting handler's of that very session,
and a recorder is one session's. Both hold for whoever clicks. `Tidy` is what
waiting adds: the calls under way are the current session's, one at a time but for
the ends that repeated skips may send (`Calls`), at most one handler has a recording,
and it is of the task shown (`Recordings`), the flags of a session agree with what waits for it
(`Flags`), its task is one of the list (`WithinTasks`), and a session that is not the
current one has ended (`OthersEnded`). `VerdictOfItsTask` alone is not inductive: a verdict
is written by a handler that remembers the session, and only `Tidy` says that session
is still at the task the recording was for.

`ComposerProofs`, under `ComposerAssumption`:

* `TypeCorrect` and `EachTaskOnce`: `Spec => []TypeOK` and `Spec => []NoTaskTwice`.
  `ListInv` adds, for each query to come, the modalities the list may hold by then and
  how many tasks; lists are then appended to disjoint ones only (`Appended`).
* `MostUrgentFirst` and `SessionFilled`: `Spec => []UrgentFirst` and
  `Spec => []Filled`. `OrderInv` says of a list nobody disturbed that it is due and
  in order of its modality, and complete when the budget is looked at; and of the
  result that it is the longest beginning that fits. That the seconds of a longer
  beginning are more is an induction over its length (`NatSetInduction`).

`RemindersProofs`, under `RemindersAssumption`:

* `TypeCorrect`: `Spec => []TypeOK`.
* `DeadRetired`: `Spec => []RetiredInTime`. Only the shape of the fires and rows
  (`ShapeInv`) is needed beside it: the step that makes a count reach three is the one
  after which its fire is at the removal.
* `SlotsFireOnce` and `SlotsNotPassedOver`: `Spec => []SlotFiresOnce` and
  `Spec => []NoSlotPassedOver`. `ClockInv`: nothing after `now` was fired for, nor was
  the slot the loop waits for; `NextSlotIsFirst` says that `nextSlot` gives the first
  slot after its argument, across midnight too.
* `RetiredAfterThree`: `Spec => RetiredOnlyAfterThree`. `StrikesInv` is the count that
  is inductive: a row's failures and those its fires have still to count are failed
  sends since its last success. `NamesInv` adds that a fire names rows that were made,
  so that an id is not another row's later.

`StartupProofs`, under `StartupAssumption`, for any number of programs:

* `TypeCorrect`: `Spec => []TypeOK`.
* `SchemaComplete`: `Spec => []UpIsComplete`. `MigInv`: what is applied is a beginning of
  the list, a program still means to apply all that is missing from what it read, and
  none is past its migrations before all are applied.
* `RowsOwned`: `Spec => []RowsHaveUsers`. `RowInv` says why the sessions that 0004
  gives to user 1 get an owner: while there is no user, old sessions are of the id the
  next user gets.
* `ConfigStaysReadable` and `OwnerTokenKept`: `Spec => []ConfigReadable` and
  `Spec => []OwnerTokenOnDisk`. `FileInv`: while programs save one after another, the
  file being written is never the one `config.json` names, it is whole before it is
  renamed, and the token of every program past its load, and of the owner's row, is one
  that the file holds or the operator took from it (`Kept`).

`TaskBankProofs`, under `BankAssumption`:

* `GatesStayPassable` and `RowsStayKept`: `Spec => []GatesPassable` and
  `Spec => RowsKept`. `BankInv`: rows have the shape and the passable gates of what
  `validate` and `MergeFile` let through; `DumpInv`: until the table is rebuilt, an
  id that was dumped is given to nothing else, which is why an old file cannot
  annotate another task.
* `AnnotationsAllLand`: `Spec => []AnnotationsLand`. `LandInv`: the files a merge has gone
  through have landed, if it passed none over; `FileLands` takes it over a whole file, in
  which a later annotation replaces an earlier one. Files are of one or two rows
  (`NewFiles`), as in the runs.

`AnswersProofs`, under `GradingAssumption` and `AnswersAssumption`:

* `TypeCorrect` and `GatesAlwaysHold`: `Spec => []TypeOK` and `Spec => []GatesHold`.
  The strengthening is `OnlyOpenAnswersAsked`: a handler on its way to Claude has a
  translation that is no reference answer and that no gate bars, so that whatever
  comes back touches nothing a gate decided. `TextVerdict` and `SpeechVerdict` say
  what `GradeText` and `GradeSpeech` give, for any texts.
* `BudgetKept`: `Spec => []BudgetBound`. The rows and the calls under way are bounded
  together, which is inductive: a handler counted in was not among those under way
  (`CountKeeps`), and one that returns leaves them for a row (`ReturnKeeps`).
* `SilenceNeverPasses`: `Spec => []SilenceFails`. `CollapseNone`: nothing is left of a
  text in which no character is kept; `SilenceGrade`: nothing is as far from every
  other text as that one is long, so that no threshold is reached. `SpeechInv` is that
  what is saved of a recording is what `GradeSpeech` gave.
* `NormalizeForgives`, and from it `TypographyKept`: `Spec => []TypographyForgiven`. It
  is of all texts, where the run compares those of `Typings`. `Left` says what the loop
  has left of the first characters of a text: nothing before the first kept one, and then
  a space at the end just when one has opened a gap (`LeftNext`). `AlikeAlways` follows
  two texts at once, by induction on how far both have been read: `SameUpTo`, which is
  `SaySame` of two beginnings, holds exactly when the same is left of them, trimmed. A
  character that is not kept changes neither side (`SkipLeft`, `EmitTrims`), and one kept
  on both sides adds the same condition to each (`BothNext`, `BothKept`).
* `LevenshteinNearest`, and from it `NearestKept`: `Spec => []NearestEdits`; again of all
  texts. `CostDelete`, `CostPair` and `CostInsert` are what one character more adds to an
  alignment; `DistanceAtMost` extends the best alignments of shorter beginnings, and
  `DistanceFrom` takes the last character off the best one; together they are the
  recurrence (`DistanceStep`). `RowHolds`: from a row of distances the inner loop makes
  the next; `Holds` is what a row is.
* What the graders rely on, of all texts: `SimilarityBounds` (a similarity is not below
  0, is 1 of equal texts alone, as the comment on `Similarity` says, and does not depend
  on which text is the reference), `GradeByThreshold` (counting the thresholds reached is
  the cascade of `simToGrade`, as reaching one is reaching those below it), and
  `TypographyNeverCosts` (typing that says the same as an answer is graded 5).

`BackupsProofs!SnapshotsStay`: `Spec => []SnapshotsKept`, under `BackupsAssumption`.
`Covered` says why a day that no program spoiled is safe: its file is whole, or it is
outnumbered, or a program has it in hand, which is being about to create the file or
writing it under its name (`InHand`). A program that deletes the file another writes is
from then on the one that has the day in hand. `DoomedSound`, that what a list to delete
names is outnumbered, is kept because days that have had a file only grow in number
(`StaysOutnumbered`), so an old list is as safe as a new one.

Recursion. The library's induction theorems take an operator as a parameter, which the
provers cannot instantiate. `NatSetInduction` says the same of a set of numbers, and is
enough for a recursive function on numbers: `validate` of `TaskBank` (the loop over
the items of a batch), `After` (the loop over a file), `Collapse` of `Grading` (the loop
over the characters of a text), `Row` and `Levenshtein` (its two nested loops) and the
seconds of a list. That such a function exists is proved first (`EmitsExist`,
`CellsExist`, `RowsExist`).

What the proofs corrected. In `ClientSession` two statements had held only because the
run of the hasty learner has one session: that a session's index never exceeds the
number of tasks by more than one (repeated skips take it further), and that a session
leaves the page only when ended (a start clicked twice replaces one that is not). The
bound in `TypeOK` and `LeftOnlyWhenEnded` now are the orderly learner's.

Model-checked only: liveness (`Answered`, `StartsEnd`, `TranscribingEnds`), as
fairness and `ENABLED` are out of the prover's reach. Every other property a passing
run checks is a theorem. The run of the graders still evaluates `Levenshtein` and the
normal forms on small texts, and finds what is wrong with a mutant of them.

## What the models leave out

Wording, layout, logging and the content of tasks and answers; `last_seen_at`,
`last_grade`, feedback and durations; the HTTP parsing errors that end a handler
before its first statement. In `ClientSession` the settings page, the push opt-in
and drawing errors; a session that steps past its last task draws nothing. A
database error is one that comes before the statement takes effect. A start's
answer lost on the way leaves a session on the server that the client does not
know; only its id is wasted, and it is not modelled.

A start under way when its user is removed leaves a session that belongs to nobody
(`sessions.user_id` references nothing); `AttemptsHaveOwners` shows that no attempt
can be logged to it. `DefaultBudgetSeconds` is 130, so a session may take up to ten
seconds more than the two minutes `src/README.md` gives; and as the budget ends the
list, which has speaking last, two clozes and two translations leave no time for the
speaking task of the mix.

In `Answers`, the prompt and the tokens of a call, and whisper's audio. In `TaskBank`
the call that generates tasks and its own rows in `claude_calls`, blank space in a topic
and ids that refused inserts use up; a merge that writes nothing
(`-dry-run`) changes nothing. In `Backups`, names in the directory that are not
snapshots, and days by local time: the file's name is the UTC day.

What the code does, met while modelling:

* A summary whose count query fails or is cancelled is a 200 with 0 attempts and 0
  correct, as `api.go:145` (`_ = row.Scan(...)`) drops the error (`CountFails`): the
  learner is then shown none of the answers that were acknowledged.
* The regenerated token opens nothing. "Regenerate by deleting the
  `auth_token` field in `data/config.json`" (`src/README.md:30`): `config.go:72` draws a new
  token, the fast path of `EnsureOwnerUser` (`bootstrap.go:35`) leaves the old one in the
  owner's row, and `main.go:174` prints a setup link that `handleSetup` refuses, while the
  old link goes on working. The same link is printed, to no use, after the owner was
  removed while other users stay.
* `DeferTask` sets `due_at` to ten minutes from now also when the card is due later, so
  that a skip can bring it forward in time, where the comments at `skip.go:22` and
  `store.go:122` speak of pushing it "forward". `DeferredRow` is the statement.
* "Every call is logged to the `claude_calls` table" (`src/README.md:170`) does not hold
  for a client that goes away during the call: the insert uses the request's cancelled
  context, so the call costs money and no budget. `Recorded` is the insert;
  `BudgetBound` speaks of the rows.
* `grade.go:54` says a literal match "by definition contains every critical piece".
  With two answers and a critical piece in each, neither match contains both. The
  exact match comes first, so `GatesHold` gives such an answer 5, as does the code.
* An answer that has all of `must_contain` gets 4 from a similarity of 0.5 on, also
  above 0.95, where without `must_contain` it would get 5.
* Two texts without Cyrillic letters and digits have similarity 1: a speaking task whose
  reference has none is passed by silence. `SilenceFails` leaves such tasks out.
* `pregen` passes blank pieces over when it validates, and inserts them; a blank
  `forbidden` piece is in every text and bars every answer but an exact one. The merge of
  `annotate` drops blank ones.
* A merge whose transaction is overtaken by another writer logs each row and commits
  nothing of that file, and ends without an error.
* A partial snapshot has the name of a whole one: it counts among the ones kept, and
  stays until it is outnumbered or overwritten.

Not modelled: a user's preferences, the difficulty band and name conflicts; the settings
page and the push opt-in, which are sequential forms over one call each; drawing; the
VAPID key generator, which keeps no state; days of 23 or 25 hours and a clock set
back, in `Reminders`. `scheduler.go` says a restart "neither double-fires nor
skips": the first is `SlotFiresOnce`; a slot that passes while the server is down,
or while a fire goes on, is not made up for, and `NoSlotPassedOver` says only that
none is skipped between the choice of a slot and the slot.

## Plan

1. `Users`: preferences, the difficulty band and name conflicts.
2. The client composed with `Sessions`, so that a lost answer and a repeated call
   meet the server's own checks.
