------------------------------ MODULE Sessions ------------------------------
(***************************************************************************)
(* The study sessions of the server: the handlers under                    *)
(* /api/session of internal/server and the SQL of internal/tasks/store.go. *)
(* The HTTP server runs each request in its own goroutine and no handler   *)
(* opens a transaction, so every SQL statement is a step of its own and    *)
(* the statements of all requests interleave.  A request that loses its    *)
(* client, its transcriber or the database returns an error before any of  *)
(* its statements, save the count of a summary, whose error is ignored;    *)
(* the server may stop with requests under way; the CLI, another process,  *)
(* may remove a user at any moment.                                        *)
(***************************************************************************)
EXTENDS SM2, FiniteSets

CONSTANTS
    Users,      \* accounts; an id is never used again (AUTOINCREMENT)
    Tasks,      \* the task bank
    SpeakTasks, \* the tasks of kind "speak"
    Requests,   \* HTTP requests, each made once
    Marks,      \* bound: the grades the graders give
    None,       \* no user, no task
    MaxSid,     \* bound: starts, and so session ids 1 .. MaxSid
    MaxNow,     \* bound: the clock stops here
    Defer       \* ticks in deferInterval

ASSUME SessionsAssumption ==
    /\ SpeakTasks \subseteq Tasks
    /\ Marks \subseteq Grades
    /\ None \notin Users \cup Tasks
    /\ MaxSid \in Nat
    /\ MaxNow \in Nat
    /\ Defer \in Nat \ {0}
    /\ Defer < Day

VARIABLES
    users,    \* users rows
    tasks,    \* tasks rows
    flagged,  \* the tasks hidden from the composer
    sessions, \* sessions rows: id -> owner and ended_at
    nextSid,  \* the id the next sessions row gets
    srs,      \* srs_state rows: <<user, task>> -> card and due_at
    attempts, \* attempts rows, each named by the request that wrote it
    req,      \* the state of every request
    now,      \* the clock, in ticks
    saved,    \* history: the requests whose SRS save was committed
    raced     \* history: the rows some save overwrote after another had

rows == <<users, tasks, flagged, sessions, nextSid, srs, attempts>>
history == <<saved, raced>>
vars == <<rows, req, now, history>>

Sids == 1 .. MaxSid
NotEnded == -1
NoSid == 0
Ops == {"start", "attempt", "speak", "skip", "end"}
GradedOps == {"attempt", "speak"}
Live == {"compose", "insert", "admit", "load", "grade", "srs", "save",
         "defer", "log", "close", "count"}
Admitted == {"load", "grade", "srs", "save", "defer", "log"}
Idle == [pc |-> "idle", op |-> "end", user |-> None, sid |-> NoSid, task |-> None,
         grade |-> 0, card |-> NewCard, at |-> 0, before |-> {}, counted |-> {}]

Keys == Users \X Tasks

-----------------------------------------------------------------------------
(* The statements of store.go. *)

SessionsOf(u) == {s \in DOMAIN sessions : sessions[s].user = u}

\* Mutant: any account's session will do.
SessionExistsAnyUser(u, s) == s \in DOMAIN sessions /\ sessions[s].ended = NotEnded

\* Mutant: an ended session will do.
SessionExistsEnded(u, s) == s \in DOMAIN sessions /\ sessions[s].user = u

SessionExists(u, s) ==
    /\ s \in DOMAIN sessions
    /\ sessions[s].user = u
    /\ sessions[s].ended = NotEnded

LoadSRS(k) == IF k \in DOMAIN srs THEN srs[k].card ELSE NewCard

\* INSERT .. ON CONFLICT DO UPDATE of one srs_state row.
Upsert(k, row) == [x \in DOMAIN srs \cup {k} |-> IF x = k THEN row ELSE srs[x]]

\* Mutant: srs_state keeps no reference to users.
SRSRefsTask(k) == k[2] \in tasks

\* srs_state references users and tasks, with foreign keys enforced.
SRSRefs(k) == k[1] \in users /\ k[2] \in tasks

\* attempts references sessions and tasks; its user_id references nothing.
AttemptRefs(s, t) == s \in DOMAIN sessions /\ t \in tasks

\* Due for user u in the composer's queries: visible, and unseen or elapsed.
Due(u, t) ==
    /\ t \in tasks \ flagged
    /\ <<u, t>> \in DOMAIN srs => srs[<<u, t>>].due <= now

-----------------------------------------------------------------------------
Init ==
    /\ users = Users
    /\ tasks = Tasks
    /\ flagged = {}
    /\ sessions = <<>>
    /\ nextSid = 1
    /\ srs = <<>>
    /\ attempts = {}
    /\ req = [r \in Requests |-> Idle]
    /\ now = 0
    /\ saved = {}
    /\ raced = {}

\* A request moves on; one that is over keeps nothing of what it had read.
Moved(q, pc) == IF pc \in Live THEN [q EXCEPT !.pc = pc]
                ELSE [q EXCEPT !.pc = pc, !.card = NewCard, !.at = 0]
Goto(r, pc) == req' = [req EXCEPT ![r] = Moved(@, pc)]
Key(r) == <<req[r].user, req[r].task>>

\* The graded attempts at session s whose 200 has been sent.
Acked(s) == {r \in Requests : /\ req[r].pc = "ok"
                              /\ req[r].op \in GradedOps
                              /\ req[r].sid = s}

-----------------------------------------------------------------------------
(* requireAuth: the user is looked up once, as the request arrives. *)

Arrive(r, call) ==
    /\ req[r] = Idle
    /\ call.user \in users
    /\ req' = [req EXCEPT ![r] = call]
    /\ UNCHANGED <<rows, now, history>>

Starts == {r \in Requests : req[r].op = "start"}

ArriveStart(r) ==
    /\ Cardinality(Starts) < MaxSid
    /\ \E u \in Users :
          Arrive(r, [Idle EXCEPT !.pc = "compose", !.op = "start", !.user = u])

ArriveEnd(r) == \E u \in Users, s \in Sids :
    Arrive(r, [Idle EXCEPT !.pc = "close", !.op = "end", !.user = u, !.sid = s,
                           !.before = Acked(s)])

\* A client may name any session id and any task.
ArriveOnTask(r) == \E op \in {"attempt", "speak", "skip"} :
    \E u \in Users, s \in Sids, t \in Tasks :
        Arrive(r, [Idle EXCEPT !.pc = "admit", !.op = op, !.user = u, !.sid = s,
                               !.task = t])

-----------------------------------------------------------------------------
(* POST /api/session/start *)

Compose(r) ==
    /\ req[r].pc = "compose"
    /\ Goto(r, IF \E t \in Tasks : Due(req[r].user, t) THEN "insert" ELSE "ok")
    /\ UNCHANGED <<rows, now, history>>

\* StartSession: sessions.user_id references nothing.  With at most MaxSid starts
\* the bound on nextSid never holds one back.
StartSession(r) ==
    /\ req[r].pc = "insert"
    /\ nextSid <= MaxSid
    /\ sessions' = [s \in DOMAIN sessions \cup {nextSid} |->
                       IF s = nextSid
                       THEN [user |-> req[r].user, ended |-> NotEnded]
                       ELSE sessions[s]]
    /\ nextSid' = nextSid + 1
    /\ Goto(r, "ok")
    /\ UNCHANGED <<users, tasks, flagged, srs, attempts, now, history>>

-----------------------------------------------------------------------------
(* POST /api/session/{id}/attempt, /speak and /skip *)

Admit(r) ==
    /\ req[r].pc = "admit"
    /\ Goto(r, IF SessionExists(req[r].user, req[r].sid) THEN "load" ELSE "failed")
    /\ UNCHANGED <<rows, now, history>>

\* The task's kind decides which endpoint takes it; a skip takes any.
Takes(op, t) == op = "skip" \/ (op = "speak" <=> t \in SpeakTasks)

LoadTask(r) ==
    /\ req[r].pc = "load"
    /\ IF req[r].task \notin tasks \/ ~ Takes(req[r].op, req[r].task)
       THEN Goto(r, "failed")
       ELSE IF req[r].op = "skip"
       THEN req' = [req EXCEPT ![r].pc = "defer", ![r].at = now]
       ELSE Goto(r, "grade")
    /\ UNCHANGED <<rows, now, history>>

\* GradeText, or the transcriber and GradeSpeech; then time.Now() of
\* updateSRSAndLog.  Any grade may come out.
Grade(r) ==
    /\ req[r].pc = "grade"
    /\ \E g \in Marks :
          req' = [req EXCEPT ![r].pc = "srs", ![r].grade = g, ![r].at = now]
    /\ UNCHANGED <<rows, now, history>>

ReadSRS(r) ==
    /\ req[r].pc = "srs"
    /\ req' = [req EXCEPT ![r].pc = "save", ![r].card = LoadSRS(Key(r))]
    /\ UNCHANGED <<rows, now, history>>

\* The card and due date a save writes: computed from what was read.
SavedRow(r, offset) == [card |-> UpdateSRS(req[r].card, req[r].grade),
                        due |-> req[r].at + offset]

SaveSRS(r) ==
    /\ req[r].pc = "save"
    /\ SRSRefs(Key(r))
    /\ \E d \in DueOffsets(UpdateSRS(req[r].card, req[r].grade)) :
          srs' = Upsert(Key(r), SavedRow(r, d))
    /\ req' = [req EXCEPT ![r].pc = "log", ![r].card = NewCard, ![r].at = 0]
    /\ saved' = saved \cup {r}
    /\ raced' = IF LoadSRS(Key(r)) = req[r].card THEN raced ELSE raced \cup {Key(r)}
    /\ UNCHANGED <<users, tasks, flagged, sessions, nextSid, attempts, now>>

\* Mutant: the deferred row replaces the one that was there.
DeferredRowAnew(k, due) == [card |-> NewCard, due |-> due]

\* The row DeferTask leaves: only due_at of an existing row changes.
DeferredRow(k, due) == [card |-> LoadSRS(k), due |-> due]

DeferTask(r) ==
    /\ req[r].pc = "defer"
    /\ SRSRefs(Key(r))
    /\ srs' = Upsert(Key(r), DeferredRow(Key(r), req[r].at + Defer))
    /\ req' = [req EXCEPT ![r].pc = "log", ![r].at = 0]
    /\ UNCHANGED <<users, tasks, flagged, sessions, nextSid, attempts, now, history>>

\* LogAttempt or LogSkip, then the 200.
LogAttempt(r) ==
    /\ req[r].pc = "log"
    /\ AttemptRefs(req[r].sid, req[r].task)
    /\ attempts' = attempts \cup {r}
    /\ Goto(r, "ok")
    /\ UNCHANGED <<users, tasks, flagged, sessions, nextSid, srs, now, history>>

\* Mutant: nothing answers a request whose attempt could not be logged.
RefusedSRS(r) == req[r].pc \in {"save", "defer"} /\ ~ SRSRefs(Key(r))

\* A foreign key refuses the statement and the handler answers 500.
Refused(r) ==
    \/ req[r].pc \in {"save", "defer"} /\ ~ SRSRefs(Key(r))
    \/ req[r].pc = "log" /\ ~ AttemptRefs(req[r].sid, req[r].task)

Refuse(r) ==
    /\ Refused(r)
    /\ Goto(r, "failed")
    /\ UNCHANGED <<rows, now, history>>

-----------------------------------------------------------------------------
(* POST /api/session/{id}/end *)

\* Mutant: the UPDATE forgets "ended_at IS NULL".
EndSessionAgain(r) ==
    /\ req[r].pc = "close"
    /\ sessions' = IF req[r].sid \in SessionsOf(req[r].user)
                   THEN [sessions EXCEPT ![req[r].sid].ended = now]
                   ELSE sessions
    /\ Goto(r, "count")
    /\ UNCHANGED <<users, tasks, flagged, nextSid, srs, attempts, now, history>>

EndSession(r) ==
    /\ req[r].pc = "close"
    /\ sessions' = IF SessionExists(req[r].user, req[r].sid)
                   THEN [sessions EXCEPT ![req[r].sid].ended = now]
                   ELSE sessions
    /\ Goto(r, "count")
    /\ UNCHANGED <<users, tasks, flagged, nextSid, srs, attempts, now, history>>

\* Mutant: only the passed answers are counted.
CountedPassed(u, s) == {a \in attempts : /\ req[a].sid = s
                                         /\ req[a].user = u
                                         /\ Passes(req[a].grade)}

\* The summary: the rows it counts, skipped ones filtered out.
Counted(u, s) == {a \in attempts : /\ req[a].sid = s
                                   /\ req[a].user = u
                                   /\ req[a].op \in GradedOps}

Summarise(r) ==
    /\ req[r].pc = "count"
    /\ req' = [req EXCEPT ![r].pc = "ok",
                          ![r].counted = Counted(req[r].user, req[r].sid)]
    /\ UNCHANGED <<rows, now, history>>

-----------------------------------------------------------------------------
(* What befalls requests *)

\* A query fails (its context is cancelled, the database is busy) or the
\* transcriber does: the handler answers 500 and its later statements never run.
Fail(r) ==
    /\ req[r].pc \in Live \ {"count"}
    /\ Goto(r, "failed")
    /\ UNCHANGED <<rows, now, history>>

\* The count fails and nobody looks (`_ = row.Scan`): the 200 says 0 of 0.
CountFails(r) ==
    /\ req[r].pc = "count"
    /\ Goto(r, "blank")
    /\ UNCHANGED <<rows, now, history>>

\* The server stops and comes back: the requests under way are gone.
Crash ==
    /\ \E r \in Requests : req[r].pc \in Live
    /\ req' = [r \in Requests |->
                  IF req[r].pc \in Live THEN Moved(req[r], "failed") ELSE req[r]]
    /\ UNCHANGED <<rows, now, history>>

-----------------------------------------------------------------------------
(* The admin page, the CLI and the clock *)

FlagTask(t) ==
    /\ t \in tasks
    /\ flagged' = IF t \in flagged THEN flagged \ {t} ELSE flagged \cup {t}
    /\ UNCHANGED <<users, tasks, sessions, nextSid, srs, attempts, req, now, history>>

\* DELETE FROM tasks cascades to srs_state and attempts.
DeleteTask(t) ==
    /\ t \in tasks
    /\ tasks' = tasks \ {t}
    /\ flagged' = flagged \ {t}
    /\ srs' = [k \in {x \in DOMAIN srs : x[2] # t} |-> srs[k]]
    /\ attempts' = {a \in attempts : req[a].task # t}
    /\ UNCHANGED <<users, sessions, nextSid, req, now, history>>

\* Mutant: the transaction forgets the sessions table.
DeleteUserNotSessions(u) ==
    /\ u \in users
    /\ users' = users \ {u}
    /\ srs' = [k \in {x \in DOMAIN srs : x[1] # u} |-> srs[k]]
    /\ attempts' = {a \in attempts : req[a].user # u}
    /\ UNCHANGED <<tasks, flagged, sessions, nextSid, req, now, history>>

\* DeleteUserByName: one transaction over the five tables.
DeleteUser(u) ==
    /\ u \in users
    /\ users' = users \ {u}
    /\ srs' = [k \in {x \in DOMAIN srs : x[1] # u} |-> srs[k]]
    /\ sessions' = [s \in DOMAIN sessions \ SessionsOf(u) |-> sessions[s]]
    /\ attempts' = {a \in attempts : req[a].user # u /\ req[a].sid \notin SessionsOf(u)}
    /\ UNCHANGED <<tasks, flagged, nextSid, req, now, history>>

Tick ==
    /\ now < MaxNow
    /\ now' = now + 1
    /\ UNCHANGED <<rows, req, history>>

-----------------------------------------------------------------------------
\* The handlers' own progress, as opposed to failures and arrivals.
Step(r) ==
    \/ Compose(r) \/ StartSession(r)
    \/ Admit(r) \/ LoadTask(r) \/ Grade(r) \/ ReadSRS(r) \/ SaveSRS(r)
    \/ DeferTask(r) \/ LogAttempt(r) \/ Refuse(r)
    \/ EndSession(r) \/ Summarise(r)

Next ==
    \/ \E r \in Requests : \/ ArriveStart(r) \/ ArriveEnd(r) \/ ArriveOnTask(r)
                           \/ Step(r)
                           \/ Fail(r) \/ CountFails(r)
    \/ Crash
    \/ \E t \in Tasks : FlagTask(t) \/ DeleteTask(t)
    \/ \E u \in Users : DeleteUser(u)
    \/ Tick

Spec == Init /\ [][Next]_vars

\* Every statement returns (busy_timeout, the transcriber's two minutes).
Fairness == \A r \in Requests : WF_vars(Step(r))
FairSpec == Spec /\ Fairness
-----------------------------------------------------------------------------
(* What must hold *)

Request ==
    [pc : Live \cup {"idle", "ok", "blank", "failed"}, op : Ops, user : Users \cup {None},
     sid : Sids \cup {NoSid}, task : Tasks \cup {None}, grade : Grades, card : Card,
     at : 0 .. MaxNow, before : SUBSET Requests, counted : SUBSET Requests]

\* The tables and the requests hold values of the shape the schema gives them.
TypeOK ==
    /\ users \subseteq Users
    /\ tasks \subseteq Tasks
    /\ flagged \subseteq tasks
    /\ nextSid \in 1 .. MaxSid + 1
    /\ DOMAIN sessions \subseteq 1 .. nextSid - 1
    /\ \A s \in DOMAIN sessions :
          sessions[s] \in [user : Users, ended : {NotEnded} \cup 0 .. MaxNow]
    /\ DOMAIN srs \subseteq users \X tasks
    /\ \A k \in DOMAIN srs : srs[k] \in [card : Card, due : Int]
    /\ attempts \subseteq Requests
    /\ req \in [Requests -> Request]
    /\ \A r \in Requests : req[r].pc # "idle" => req[r].user \in Users
    /\ now \in 0 .. MaxNow
    /\ saved \subseteq Requests
    /\ raced \subseteq Keys

\* Every attempts row belongs to an account that exists and to a session of the
\* same account, although attempts.user_id and sessions.user_id reference
\* nothing (migration 0004) and no handler holds a transaction: removing a user
\* at any moment leaves none of that user's attempts behind.
AttemptsHaveOwners ==
    \A a \in attempts : /\ req[a].user \in users
                        /\ req[a].sid \in DOMAIN sessions
                        /\ sessions[req[a].sid].user = req[a].user

\* Why that holds: a request past its admission knows a session id that was once
\* its own, and ids are never given twice; a request about to log has passed the
\* foreign key of srs_state, and whoever removes its user removes the session.
OwnershipInv ==
    /\ AttemptsHaveOwners
    /\ \A a \in attempts : req[a].pc = "ok"
    /\ \A r \in Requests : req[r].pc \in Admitted =>
          /\ req[r].sid < nextSid
          /\ req[r].sid \in DOMAIN sessions =>
                /\ sessions[req[r].sid].user = req[r].user
                /\ req[r].pc = "log" => req[r].user \in users

\* The SM-2 state of every row is one that some history of grades produces,
\* also when saves computed from stale reads overwrite one another.
SoundRows == \A k \in DOMAIN srs : Sound(srs[k].card)

\* Unless two graded answers at one card overlapped, the row counts exactly the
\* failing answers whose save was committed: no skip, removed session, failed
\* request or restart loses a lapse or adds one (updateSRSAndLog, DeferTask).
LapsesAccounted ==
    \A k \in DOMAIN srs \ raced :
        srs[k].card.lapses =
            Cardinality({r \in saved : Key(r) = k /\ ~ Passes(req[r].grade)})

\* A summary that could be counted has every graded answer the user had been told of
\* before ending the session, unless its task is gone (handleSessionEnd).  One that
\* could not be is sent as 0 of 0 all the same ("blank"), and of it nothing is said.
SummaryCountsAcked ==
    \A e \in Requests : req[e].op = "end" /\ req[e].pc = "ok" =>
        \A r \in req[e].before :
            /\ req[r].user = req[e].user
            /\ req[r].user \in users
            /\ req[r].task \in tasks
            => r \in req[e].counted

\* A step none of whose actors is user u leaves u's sessions, cards and attempts
\* as they are, short of removing u or a task: the scoping by user_id in every
\* statement ("a request authed as alice can't close bob's session").
DataOf(u) ==
    [sessions |-> [s \in SessionsOf(u) |-> sessions[s]],
     srs      |-> [k \in {x \in DOMAIN srs : x[1] = u} |-> srs[k]],
     attempts |-> {a \in attempts : sessions[req[a].sid].user = u}]

Untouched(u) ==
    /\ u \in users'
    /\ tasks' = tasks
    /\ \A r \in Requests : req[r].user = u => req'[r] = req[r]

OwnRequestsOnly == [][\A u \in Users : Untouched(u) => DataOf(u)' = DataOf(u)]_vars

\* The learning state of a card moves only when a graded answer to it is saved:
\* a skip leaves ef, interval, reps and lapses alone (skip.go, DeferTask).
ProgressOnlyByGrading ==
    [][\A k \in DOMAIN srs \cap DOMAIN srs' :
          srs'[k].card # srs[k].card => \E r \in saved' \ saved : Key(r) = k]_vars

\* An ended session is never reopened, ended anew or handed to another user.
EndIsFinal ==
    [][\A s \in DOMAIN sessions \cap DOMAIN sessions' :
          /\ sessions'[s].user = sessions[s].user
          /\ sessions[s].ended # NotEnded => sessions'[s] = sessions[s]]_vars

(* The tables as one log per session. *)
Log == INSTANCE SessionLog WITH
    phase <- [s \in Sids |->
                 IF s \in DOMAIN sessions
                 THEN IF sessions[s].ended = NotEnded THEN "open" ELSE "ended"
                 ELSE IF s < nextSid THEN "gone" ELSE "none"],
    admitted <- [s \in Sids |-> {r \in Requests : req[r].sid = s /\ req[r].pc \in Admitted}],
    log <- [s \in Sids |-> {a \in attempts : req[a].sid = s}]

\* The endpoints implement the session log: after a session has ended, only
\* requests admitted while it was open can still add to its attempts.
LogSpec == Log!Spec

\* Every request the server takes is answered, or lost with the server.
Answered == \A r \in Requests :
    req[r].pc \in Live ~> req[r].pc \in {"ok", "blank", "failed"}
=============================================================================
