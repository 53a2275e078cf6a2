--------------------------- MODULE SessionsProofs ---------------------------
(* The SM-2 update, type correctness and the safety of Sessions, for every    *)
(* set of accounts, tasks and requests and every bound.                       *)
EXTENDS Sessions, FiniteSetTheorems, TLAPS

(* SM-2: what UpdateSRS keeps true of a card *)

\* The interval times the easiness, as computed without overflow, is a natural
\* number and is at least the whole days of the interval times the easiness.
LEMMA ScaledBound ==
    ASSUME NEW i \in Nat, NEW e \in Nat
    PROVE  /\ Scaled(i, e) \in Nat
           /\ Scaled(i, e) >= (i \div 100) * e
<1> DEFINE d == i \div 100
           m == i % 100
<1>1. d \in Nat /\ m \in Nat OBVIOUS
<1>2. d * e \in Nat /\ m * e \in Nat BY <1>1, SMT
<1> DEFINE p == d * e
           q == m * e
<1>3. p \in Nat /\ q \in Nat BY <1>2
<1>4. Scaled(i, e) = p + (q \div 100) BY DEF Scaled
<1> HIDE DEF p, q
<1>5. q \div 100 \in Nat BY <1>3
<1>6. Scaled(i, e) \in Nat /\ Scaled(i, e) >= p BY <1>3, <1>4, <1>5
<1> QED BY <1>6 DEF p

\* The easiness never falls under 1.30 (srs.go lines 50 to 52).
LEMMA NextEFFloor ==
    ASSUME NEW c \in Card, NEW g \in Grades
    PROVE  NextEF(c, g) \in Nat /\ NextEF(c, g) >= 130
<1>1. g \in {0, 1, 2, 3, 4, 5} BY DEF Grades
<1>2. c.ef \in Nat BY DEF Card
<1> QED BY <1>1, <1>2 DEF NextEF

\* A card stays a card.
LEMMA UpdateType ==
    ASSUME NEW c \in Card, NEW g \in Grades
    PROVE  UpdateSRS(c, g) \in Card
<1>1. c.ef \in Nat /\ c.interval \in Nat /\ c.reps \in Nat /\ c.lapses \in Nat
    BY DEF Card
<1>2. NextEF(c, g) \in Nat BY NextEFFloor
<1>3. Scaled(c.interval, c.ef) \in Nat BY <1>1, ScaledBound
<1>4. NextInterval(c, g) \in Nat BY <1>3 DEF NextInterval
<1> QED BY <1>1, <1>2, <1>4 DEF UpdateSRS, Card

\* Every due date a card can get is a whole number of ticks from now.
LEMMA DueOffsetsType ==
    ASSUME NEW c \in Card
    PROVE  DueOffsets(c) \subseteq Int
<1>1. c.interval \in Nat BY DEF Card
<1>2. Day \in Nat /\ MaxInterval \in Nat BY SM2Assumption
<1>3. Scaled(c.interval, Day) \in Nat BY <1>1, <1>2, ScaledBound
<1>4. MaxInterval \div 100 \in Nat BY <1>2
<1> DEFINE y == MaxInterval \div 100
<1>5. y * Day \in Int /\ -y * Day \in Int BY <1>2, <1>4, SMT
<1> QED BY <1>3, <1>5 DEF DueOffsets

\* UpdateSRS keeps the easiness at 1.30 or more and the interval in step with the
\* number of passes in a row, whatever the grade.
THEOREM UpdateSound ==
    ASSUME NEW c, Sound(c), NEW g \in Grades
    PROVE  Sound(UpdateSRS(c, g))
<1>0. c \in Card BY DEF Sound
<1>1. c.ef \in Nat /\ c.interval \in Nat /\ c.reps \in Nat BY <1>0 DEF Card
<1>2. UpdateSRS(c, g) \in Card BY <1>0, UpdateType
<1>3. NextEF(c, g) >= 130 BY <1>0, NextEFFloor
<1>4. ASSUME Passes(g), c.reps # 0 PROVE NextInterval(c, g) >= 600
    <2>1. CASE c.reps = 1 BY <2>1, <1>4 DEF NextInterval
    <2>2. CASE c.reps # 1
        <3>1. c.interval >= 600 /\ c.ef >= 130 BY <2>2, <1>1, <1>4 DEF Sound
        <3> DEFINE d == c.interval \div 100
                   e == c.ef
        <3>2. d \in Nat /\ d >= 6 BY <3>1, <1>1
        <3>3. e \in Nat /\ e >= 130 BY <3>1, <1>1
        <3>4. Scaled(c.interval, c.ef) >= d * e /\ Scaled(c.interval, c.ef) \in Nat
            BY <1>1, ScaledBound
        <3> HIDE DEF d, e
        <3>5. d * e >= 6 * e BY <3>2, <3>3, SMT
        <3>6. d * e \in Nat BY <3>2, <3>3, SMT
        <3>7. 6 * e >= 780 /\ 6 * e \in Nat BY <3>3
        <3>8. Scaled(c.interval, c.ef) >= 600 BY <3>4, <3>5, <3>6, <3>7
        <3> QED BY <3>8, <2>2, <1>4 DEF NextInterval
    <2> QED BY <2>1, <2>2
<1>5. Passes(g) /\ c.reps = 0 => NextInterval(c, g) = 100 BY DEF NextInterval
<1>6. ~ Passes(g) => NextInterval(c, g) = 100 BY DEF NextInterval
<1> DEFINE n == UpdateSRS(c, g)
<1>7. /\ n.ef = NextEF(c, g)
      /\ n.interval = NextInterval(c, g)
      /\ n.reps = IF Passes(g) THEN c.reps + 1 ELSE 0
    BY DEF UpdateSRS
<1> HIDE DEF n
<1>8. n.reps = 0 => n.interval \in {0, 100} BY <1>1, <1>6, <1>7
<1>9. n.reps = 1 => n.interval = 100 BY <1>1, <1>5, <1>7
<1>10. n.reps >= 2 => n.interval >= 600 BY <1>1, <1>4, <1>7
<1>11. Sound(n) BY <1>2, <1>3, <1>7, <1>8, <1>9, <1>10 DEF n, Sound
<1> QED BY <1>11 DEF n

-----------------------------------------------------------------------------
(* Types *)

PCs == Live \cup {"idle", "ok", "blank", "failed"}

LEMMA NewCardType == NewCard \in Card
BY DEF NewCard, Card

LEMMA IdleType == Idle \in Request
<1>1. NoSid \in Sids \cup {NoSid} /\ 0 \in Grades /\ 0 \in 0 .. MaxNow
    BY SessionsAssumption DEF Grades
<1> QED BY <1>1, NewCardType DEF Idle, Request, Ops

LEMMA MovedType ==
    ASSUME NEW q \in Request, NEW pc \in PCs
    PROVE  Moved(q, pc) \in Request
<1>1. 0 \in 0 .. MaxNow BY SessionsAssumption
<1>2. [q EXCEPT !.pc = pc] \in Request BY DEF Request, PCs
<1>3. [q EXCEPT !.pc = pc, !.card = NewCard, !.at = 0] \in Request
    BY <1>1, NewCardType DEF Request, PCs
<1> QED BY <1>2, <1>3 DEF Moved

LEMMA MovedFields ==
    ASSUME NEW q \in Request, NEW pc \in PCs
    PROVE  /\ Moved(q, pc).pc = pc
           /\ Moved(q, pc).op = q.op
           /\ Moved(q, pc).user = q.user
           /\ Moved(q, pc).sid = q.sid
           /\ Moved(q, pc).task = q.task
           /\ Moved(q, pc).grade = q.grade
           /\ Moved(q, pc).before = q.before
           /\ Moved(q, pc).counted = q.counted
           /\ Moved(q, pc).card \in {q.card, NewCard}
BY DEF Moved, Request

\* The shape of the requests: what TypeOK says of req.
ReqOK(f) ==
    /\ f \in [Requests -> Request]
    /\ \A r \in Requests : f[r].pc # "idle" => f[r].user \in Users

LEMMA GotoType ==
    ASSUME ReqOK(req), NEW r \in Requests, req[r].pc # "idle", NEW pc \in PCs, Goto(r, pc)
    PROVE  ReqOK(req')
<1>1. req \in [Requests -> Request] BY DEF ReqOK
<1>2. Moved(req[r], pc) \in Request BY <1>1, MovedType
<1>3. Moved(req[r], pc).user = req[r].user BY <1>1, MovedFields
<1>4. req' = [req EXCEPT ![r] = Moved(req[r], pc)] BY DEF Goto
<1>5. req' \in [Requests -> Request] BY <1>1, <1>2, <1>4
<1>6. \A x \in Requests : req'[x] = IF x = r THEN Moved(req[r], pc) ELSE req[x]
    BY <1>1, <1>4
<1> QED BY <1>3, <1>5, <1>6 DEF ReqOK

LEMMA LoadSRSType ==
    ASSUME TypeOK, NEW k
    PROVE  LoadSRS(k) \in Card
BY NewCardType DEF LoadSRS, TypeOK

LEMMA UpsertType ==
    ASSUME TypeOK, NEW k \in users \X tasks, NEW row \in [card : Card, due : Int],
           srs' = Upsert(k, row)
    PROVE  /\ DOMAIN srs' \subseteq users \X tasks
           /\ \A x \in DOMAIN srs' : srs'[x] \in [card : Card, due : Int]
BY DEF TypeOK, Upsert

LEMMA InitType == Init => TypeOK
<1> SUFFICES ASSUME Init PROVE TypeOK OBVIOUS
<1>1. req \in [Requests -> Request] BY IdleType DEF Init
<1>2. DOMAIN sessions = {} /\ DOMAIN srs = {} BY DEF Init
<1>3. nextSid \in 1 .. MaxSid + 1 /\ now \in 0 .. MaxNow
    BY SessionsAssumption DEF Init
<1>4. \A r \in Requests : req[r].pc = "idle" BY DEF Init, Idle
<1> QED BY <1>1, <1>2, <1>3, <1>4 DEF Init, TypeOK

\* TypeOK in the two parts that a step of a request may disturb.
LEMMA TypeSplit ==
    ASSUME TypeOK, ReqOK(req'), UNCHANGED <<rows, now, history>>
    PROVE  TypeOK'
BY DEF TypeOK, ReqOK, rows, history, Keys

LEMMA StepType ==
    ASSUME TypeOK, NEW r \in Requests, Step(r)
    PROVE  TypeOK'
<1> USE DEF history
<1>0. /\ ReqOK(req) /\ req[r] \in Request /\ now \in 0 .. MaxNow /\ now \in Int
      /\ MaxNow \in Nat /\ MaxSid \in Nat /\ Defer \in Nat
    BY SessionsAssumption DEF TypeOK, ReqOK
<1>1. CASE Compose(r)
    BY <1>0, <1>1, GotoType, TypeSplit DEF Compose, PCs, Live
<1>2. CASE StartSession(r)
    <2>1. ReqOK(req') BY <1>0, <1>2, GotoType DEF StartSession, PCs
    <2>2. req[r].user \in Users BY <1>0, <1>2 DEF ReqOK, StartSession
    <2>3. nextSid \in 1 .. MaxSid /\ nextSid' = nextSid + 1
        BY <1>0, <1>2 DEF StartSession, TypeOK
    <2>4. DOMAIN sessions' \subseteq 1 .. nextSid' - 1
        BY <1>0, <1>2, <2>3 DEF StartSession, TypeOK
    <2>5. \A s \in DOMAIN sessions' :
             sessions'[s] \in [user : Users, ended : {NotEnded} \cup 0 .. MaxNow]
        BY <1>2, <2>2 DEF StartSession, TypeOK
    <2>6. nextSid' \in 1 .. MaxSid + 1 BY <1>0, <2>3
    <2> QED BY <1>2, <2>1, <2>4, <2>5, <2>6 DEF StartSession, TypeOK, ReqOK, Keys
<1>3. CASE Admit(r)
    BY <1>0, <1>3, GotoType, TypeSplit DEF Admit, PCs, Live
<1>4. CASE LoadTask(r)
    <2>1. CASE Goto(r, "failed") \/ Goto(r, "grade")
        BY <2>1, <1>0, <1>4, GotoType, TypeSplit DEF LoadTask, PCs, Live
    <2>2. CASE req' = [req EXCEPT ![r].pc = "defer", ![r].at = now]
        <3>1. ReqOK(req') BY <2>2, <1>0, <1>4 DEF ReqOK, Request, Live, LoadTask
        <3> QED BY <3>1, <1>4, TypeSplit DEF LoadTask
    <2> QED BY <2>1, <2>2, <1>4 DEF LoadTask
<1>5. CASE Grade(r)
    <2>1. PICK g \in Marks : req' = [req EXCEPT ![r].pc = "srs", ![r].grade = g, ![r].at = now]
        BY <1>5 DEF Grade
    <2>2. g \in Grades BY SessionsAssumption
    <2>3. ReqOK(req') BY <2>1, <2>2, <1>0, <1>5, ZenonT(60) DEF ReqOK, Request, Live, Grade
    <2> QED BY <2>3, <1>5, TypeSplit DEF Grade
<1>6. CASE ReadSRS(r)
    <2>1. LoadSRS(Key(r)) \in Card BY LoadSRSType
    <2>2. ReqOK(req') BY <2>1, <1>0, <1>6 DEF ReqOK, Request, Live, ReadSRS
    <2> QED BY <2>2, <1>6, TypeSplit DEF ReadSRS
<1>7. CASE SaveSRS(r)
    <2>1. PICK d \in DueOffsets(UpdateSRS(req[r].card, req[r].grade)) :
             srs' = Upsert(Key(r), SavedRow(r, d))
        BY <1>7 DEF SaveSRS
    <2>2. req[r].card \in Card /\ req[r].grade \in Grades /\ req[r].at \in Int
        BY <1>0 DEF Request
    <2>3. UpdateSRS(req[r].card, req[r].grade) \in Card BY <2>2, UpdateType
    <2>4. d \in Int BY <2>1, <2>3, DueOffsetsType
    <2>5. SavedRow(r, d) \in [card : Card, due : Int] BY <2>2, <2>3, <2>4 DEF SavedRow
    <2>6. Key(r) \in users \X tasks BY <1>7 DEF SaveSRS, SRSRefs, Key
    <2>7. /\ DOMAIN srs' \subseteq users \X tasks
          /\ \A x \in DOMAIN srs' : srs'[x] \in [card : Card, due : Int]
        BY <2>1, <2>5, <2>6, UpsertType
    <2>8. ReqOK(req')
        <3>1. 0 \in 0 .. MaxNow BY <1>0
        <3> QED BY <3>1, <1>0, <1>7, NewCardType DEF ReqOK, Request, Live, SaveSRS
    <2>9. raced' \subseteq Keys /\ saved' \subseteq Requests
        BY <1>7, <2>6 DEF SaveSRS, TypeOK, Keys
    <2> QED BY <1>7, <2>7, <2>8, <2>9 DEF SaveSRS, TypeOK, ReqOK, Keys
<1>8. CASE DeferTask(r)
    <2>1. DeferredRow(Key(r), req[r].at + Defer) \in [card : Card, due : Int]
        <3>1. req[r].at \in Int /\ req[r].at + Defer \in Int BY <1>0 DEF Request
        <3> QED BY <3>1, LoadSRSType DEF DeferredRow
    <2>2. Key(r) \in users \X tasks BY <1>8 DEF DeferTask, SRSRefs, Key
    <2>3. /\ DOMAIN srs' \subseteq users \X tasks
          /\ \A x \in DOMAIN srs' : srs'[x] \in [card : Card, due : Int]
        BY <1>8, <2>1, <2>2, UpsertType DEF DeferTask
    <2>4. ReqOK(req')
        <3>1. 0 \in 0 .. MaxNow BY <1>0
        <3> QED BY <3>1, <1>0, <1>8 DEF ReqOK, Request, Live, DeferTask
    <2> QED BY <1>8, <2>3, <2>4 DEF DeferTask, TypeOK, ReqOK, Keys
<1>9. CASE LogAttempt(r)
    <2>1. ReqOK(req') BY <1>0, <1>9, GotoType DEF LogAttempt, PCs
    <2> QED BY <1>9, <2>1 DEF LogAttempt, TypeOK, ReqOK, Keys
<1>10. CASE Refuse(r)
    BY <1>0, <1>10, GotoType, TypeSplit DEF Refuse, Refused, PCs
<1>11. CASE EndSession(r)
    <2>1. ReqOK(req') BY <1>0, <1>11, GotoType DEF EndSession, PCs, Live
    <2>2. DOMAIN sessions' = DOMAIN sessions BY <1>11 DEF EndSession
    <2>3. \A s \in DOMAIN sessions' :
             sessions'[s] \in [user : Users, ended : {NotEnded} \cup 0 .. MaxNow]
        BY <1>0, <1>11, <2>2 DEF EndSession, TypeOK
    <2> QED BY <1>11, <2>1, <2>2, <2>3 DEF EndSession, TypeOK, ReqOK, Keys
<1>12. CASE Summarise(r)
    <2>1. Counted(req[r].user, req[r].sid) \subseteq Requests BY DEF Counted, TypeOK
    <2>2. ReqOK(req') BY <2>1, <1>0, <1>12 DEF ReqOK, Request, Live, Summarise
    <2> QED BY <2>2, <1>12, TypeSplit DEF Summarise
<1> QED
    BY <1>1, <1>2, <1>3, <1>4, <1>5, <1>6, <1>7, <1>8, <1>9, <1>10, <1>11, <1>12 DEF Step

\* What arrives: a call of some account, at the first statement of its handler.
Arrival(c) ==
    /\ c \in Request
    /\ c.user \in Users
    /\ c.pc \in {"compose", "close", "admit"}
    /\ c.card = NewCard

LEMMA Arrivals ==
    ASSUME NEW r \in Requests, ArriveStart(r) \/ ArriveEnd(r) \/ ArriveOnTask(r)
    PROVE  \E c : Arrival(c) /\ Arrive(r, c)
<1> USE DEF Request, Live, Ops
<1>0. Idle.card = NewCard BY DEF Idle
<1>1. CASE ArriveStart(r)
    <2>1. PICK u \in Users :
             Arrive(r, [Idle EXCEPT !.pc = "compose", !.op = "start", !.user = u])
        BY <1>1 DEF ArriveStart
    <2> DEFINE c == [Idle EXCEPT !.pc = "compose", !.op = "start", !.user = u]
    <2>2. Arrival(c) BY <1>0, IdleType DEF Arrival
    <2> HIDE DEF c
    <2> QED BY <2>1, <2>2 DEF c
<1>2. CASE ArriveEnd(r)
    <2>1. PICK u \in Users, s \in Sids :
             Arrive(r, [Idle EXCEPT !.pc = "close", !.op = "end", !.user = u,
                                    !.sid = s, !.before = Acked(s)])
        BY <1>2 DEF ArriveEnd
    <2> DEFINE c == [Idle EXCEPT !.pc = "close", !.op = "end", !.user = u,
                                 !.sid = s, !.before = Acked(s)]
    <2>2. Acked(s) \subseteq Requests BY DEF Acked
    <2>3. Arrival(c) BY <2>2, <1>0, IdleType DEF Arrival
    <2> HIDE DEF c
    <2> QED BY <2>1, <2>3 DEF c
<1>3. CASE ArriveOnTask(r)
    <2>1. PICK op \in {"attempt", "speak", "skip"}, u \in Users, s \in Sids, t \in Tasks :
             Arrive(r, [Idle EXCEPT !.pc = "admit", !.op = op, !.user = u,
                                    !.sid = s, !.task = t])
        BY <1>3 DEF ArriveOnTask
    <2> DEFINE c == [Idle EXCEPT !.pc = "admit", !.op = op, !.user = u,
                                 !.sid = s, !.task = t]
    <2>2. Arrival(c) BY <1>0, IdleType DEF Arrival
    <2> HIDE DEF c
    <2> QED BY <2>1, <2>2 DEF c
<1> QED BY <1>1, <1>2, <1>3

LEMMA ArriveType ==
    ASSUME TypeOK, NEW r \in Requests,
           ArriveStart(r) \/ ArriveEnd(r) \/ ArriveOnTask(r)
    PROVE  TypeOK'
<1>1. PICK c : Arrival(c) /\ Arrive(r, c) BY Arrivals
<1>2. ReqOK(req') BY <1>1 DEF Arrival, Arrive, TypeOK, ReqOK
<1> QED BY <1>1, <1>2, TypeSplit DEF Arrive

LEMMA CrashType ==
    ASSUME TypeOK, Crash
    PROVE  TypeOK'
<1>1. \A r \in Requests : req[r].pc \in Live =>
          Moved(req[r], "failed") \in Request /\ Moved(req[r], "failed").user = req[r].user
    BY MovedType, MovedFields DEF TypeOK, PCs
<1>2. ReqOK(req') BY <1>1 DEF Crash, TypeOK, ReqOK, Live
<1> QED BY <1>2, TypeSplit DEF Crash

LEMMA OutsideType ==
    ASSUME TypeOK,
           \/ \E t \in Tasks : FlagTask(t) \/ DeleteTask(t)
           \/ \E u \in Users : DeleteUser(u)
           \/ Tick
    PROVE  TypeOK'
<1>1. CASE \E t \in Tasks : FlagTask(t) BY <1>1 DEF FlagTask, TypeOK, history, Keys
<1>2. CASE \E t \in Tasks : DeleteTask(t)
    <2>1. PICK t \in Tasks : DeleteTask(t) BY <1>2
    <2>2. /\ DOMAIN srs' \subseteq users' \X tasks'
          /\ \A k \in DOMAIN srs' : srs'[k] \in [card : Card, due : Int]
        BY <2>1 DEF DeleteTask, TypeOK
    <2> QED BY <2>1, <2>2 DEF DeleteTask, TypeOK, history, Keys
<1>3. CASE \E u \in Users : DeleteUser(u)
    <2>1. PICK u \in Users : DeleteUser(u) BY <1>3
    <2>2. /\ DOMAIN srs' \subseteq users' \X tasks'
          /\ \A k \in DOMAIN srs' : srs'[k] \in [card : Card, due : Int]
        BY <2>1 DEF DeleteUser, TypeOK
    <2>3. /\ DOMAIN sessions' \subseteq 1 .. nextSid - 1
          /\ \A s \in DOMAIN sessions' :
                sessions'[s] \in [user : Users, ended : {NotEnded} \cup 0 .. MaxNow]
        BY <2>1 DEF DeleteUser, TypeOK
    <2> QED BY <2>1, <2>2, <2>3 DEF DeleteUser, TypeOK, history, Keys
<1>4. CASE Tick
    <2>1. now' \in 0 .. MaxNow BY <1>4, SessionsAssumption DEF Tick, TypeOK
    <2> QED BY <1>4, <2>1 DEF Tick, TypeOK, rows, history, Keys
<1> QED BY <1>1, <1>2, <1>3, <1>4

LEMMA NextType == TypeOK /\ [Next]_vars => TypeOK'
<1> SUFFICES ASSUME TypeOK, [Next]_vars PROVE TypeOK' OBVIOUS
<1>1. CASE UNCHANGED vars BY <1>1 DEF vars, rows, history, TypeOK, Keys
<1>2. ASSUME NEW r \in Requests, Fail(r) \/ CountFails(r) PROVE TypeOK'
    <2>1. ReqOK(req) BY DEF TypeOK, ReqOK
    <2> QED BY <1>2, <2>1, GotoType, TypeSplit DEF Fail, CountFails, PCs, Live
<1> QED BY <1>1, <1>2, StepType, ArriveType, CrashType, OutsideType DEF Next

\* The tables and requests always have the shape of the schema, whatever the
\* interleaving of handlers, failures, restarts and removals.
THEOREM TypeCorrect == Spec => []TypeOK
<1>1. Init => TypeOK BY InitType
<1>2. TypeOK /\ [Next]_vars => TypeOK' BY NextType
<1> QED BY <1>1, <1>2, PTL DEF Spec

-----------------------------------------------------------------------------
(* Ownership of attempts *)

\* What a step leaves of a request: nothing changes who made it, nor at what.
SameCall(x) ==
    /\ req'[x].user = req[x].user
    /\ req'[x].sid = req[x].sid
    /\ req'[x].task = req[x].task
    /\ req'[x].op = req[x].op

\* Request r goes to one of the places P and every other request stays.
Moves(r, P) ==
    /\ req'[r].pc \in P
    /\ SameCall(r)
    /\ \A x \in Requests \ {r} : req'[x] = req[x]

LEMMA GotoMoves ==
    ASSUME TypeOK, NEW r \in Requests, NEW pc \in PCs, Goto(r, pc)
    PROVE  Moves(r, {pc})
<1>1. req \in [Requests -> Request] /\ req[r] \in Request BY DEF TypeOK
<1>2. req'[r] = Moved(req[r], pc) BY <1>1 DEF Goto
<1>3. \A x \in Requests \ {r} : req'[x] = req[x] BY <1>1 DEF Goto
<1> QED BY <1>1, <1>2, <1>3, MovedFields DEF Moves, SameCall

\* A step that touches no table and moves r to places where it is not, or was
\* already, admitted keeps the ownership of attempts.
LEMMA OwnQuiet ==
    ASSUME TypeOK, OwnershipInv, NEW r \in Requests, NEW P \in SUBSET PCs,
           Moves(r, P), UNCHANGED <<users, sessions, nextSid, attempts>>,
           req[r].pc # "ok",
           P \cap Admitted # {} => req[r].pc \in Admitted /\ req[r].pc # "log",
           "log" \in P => req[r].user \in users
    PROVE  OwnershipInv'
<1>1. \A a \in attempts : a \in Requests /\ a # r BY DEF OwnershipInv, TypeOK
<1>2. \A a \in attempts : req'[a] = req[a] BY <1>1 DEF Moves
<1>3. AttemptsHaveOwners' BY <1>2 DEF OwnershipInv, AttemptsHaveOwners
<1>4. \A a \in attempts : req'[a].pc = "ok" BY <1>2 DEF OwnershipInv
<1>5. ASSUME NEW x \in Requests, req'[x].pc \in Admitted
      PROVE  /\ req'[x].sid < nextSid
             /\ req'[x].sid \in DOMAIN sessions =>
                   /\ sessions[req'[x].sid].user = req'[x].user
                   /\ req'[x].pc = "log" => req'[x].user \in users
    <2>1. CASE x # r
        <3>1. req'[x] = req[x] BY <2>1 DEF Moves
        <3> QED BY <3>1, <1>5 DEF OwnershipInv
    <2>2. CASE x = r
        <3>1. req'[r].pc \in P \cap Admitted BY <2>2, <1>5 DEF Moves
        <3>2. req[r].pc \in Admitted BY <3>1
        <3>3. req'[r].pc = "log" => req[r].user \in users BY <3>1
        <3> QED BY <2>2, <3>2, <3>3 DEF Moves, SameCall, OwnershipInv
    <2> QED BY <2>1, <2>2
<1> QED BY <1>3, <1>4, <1>5 DEF OwnershipInv

LEMMA OwnStep ==
    ASSUME TypeOK, OwnershipInv, NEW r \in Requests, Step(r)
    PROVE  OwnershipInv'
<1> USE DEF rows, history
<1>0. req \in [Requests -> Request] /\ req[r] \in Request BY DEF TypeOK
<1>1. CASE Compose(r)
    <2>1. PICK pc \in {"insert", "ok"} : Goto(r, pc) BY <1>1 DEF Compose
    <2>2. Moves(r, {pc}) BY <2>1, GotoMoves DEF PCs, Live
    <2> QED BY <1>1, <2>2, OwnQuiet DEF Compose, PCs, Live, Admitted
<1>2. CASE StartSession(r)
    <2>1. Moves(r, {"ok"}) BY <1>2, GotoMoves DEF StartSession, PCs
    <2>2. nextSid \in Nat /\ nextSid' = nextSid + 1 /\ nextSid \notin DOMAIN sessions
        BY <1>2, SessionsAssumption DEF StartSession, TypeOK
    <2>3. \A s \in DOMAIN sessions : s \in DOMAIN sessions' /\ sessions'[s] = sessions[s]
        BY <1>2, <2>2 DEF StartSession
    <2>4. \A s \in DOMAIN sessions' : s = nextSid \/ s \in DOMAIN sessions
        BY <1>2 DEF StartSession
    <2>5. \A a \in attempts : a \in Requests /\ req'[a] = req[a]
        BY <1>2, <2>1 DEF OwnershipInv, TypeOK, StartSession, Moves
    <2>6. \A x \in Requests : req'[x].pc \in Admitted => x # r /\ req'[x] = req[x]
        BY <2>1 DEF Moves, Admitted
    <2>7. \A x \in Requests : req[x].sid \in Int
        BY <1>0, SessionsAssumption DEF Request, Sids, NoSid
    <2>8. AttemptsHaveOwners'
        BY <1>2, <2>3, <2>5 DEF StartSession, OwnershipInv, AttemptsHaveOwners
    <2>9. ASSUME NEW x \in Requests, req'[x].pc \in Admitted
          PROVE  /\ req'[x].sid < nextSid'
                 /\ req'[x].sid \in DOMAIN sessions' =>
                       /\ sessions'[req'[x].sid].user = req'[x].user
                       /\ req'[x].pc = "log" => req'[x].user \in users'
        <3>1. req'[x] = req[x] /\ req[x].sid < nextSid BY <2>6, <2>9 DEF OwnershipInv
        <3>2. req[x].sid # nextSid BY <3>1, <2>2, <2>7
        <3> QED BY <1>2, <2>2, <2>3, <2>4, <2>7, <2>9, <3>1, <3>2 DEF OwnershipInv, StartSession
    <2> QED BY <1>2, <2>5, <2>8, <2>9 DEF OwnershipInv, StartSession
<1>3. CASE Admit(r)
    <2>1. CASE SessionExists(req[r].user, req[r].sid)
        <3>1. Moves(r, {"load"}) BY <1>3, <2>1, GotoMoves DEF Admit, PCs, Live
        <3>2. req[r].sid < nextSid
            BY <2>1, SessionsAssumption DEF SessionExists, TypeOK
        <3>3. \A a \in attempts : req'[a] = req[a]
            BY <1>3, <3>1 DEF OwnershipInv, TypeOK, Admit, Moves
        <3> QED BY <1>3, <2>1, <3>1, <3>2, <3>3
            DEF Admit, Moves, SameCall, SessionExists, OwnershipInv, AttemptsHaveOwners
    <2>2. CASE ~ SessionExists(req[r].user, req[r].sid)
        <3>1. Moves(r, {"failed"}) BY <1>3, <2>2, GotoMoves DEF Admit, PCs
        <3> QED BY <1>3, <3>1, OwnQuiet DEF Admit, PCs, Admitted
    <2> QED BY <2>1, <2>2
<1>4. CASE LoadTask(r)
    <2>1. Moves(r, {"failed", "defer", "grade"})
        <3>1. CASE Goto(r, "failed") BY <3>1, GotoMoves DEF PCs, Moves
        <3>2. CASE Goto(r, "grade") BY <3>2, GotoMoves DEF PCs, Live, Moves
        <3>3. CASE req' = [req EXCEPT ![r].pc = "defer", ![r].at = now]
            BY <3>3, <1>0 DEF Moves, SameCall, Request
        <3> QED BY <1>4, <3>1, <3>2, <3>3 DEF LoadTask
    <2> QED BY <1>4, <2>1, OwnQuiet DEF LoadTask, PCs, Live, Admitted
<1>5. CASE Grade(r)
    <2>1. Moves(r, {"srs"}) BY <1>5, <1>0 DEF Grade, Moves, SameCall, Request
    <2> QED BY <1>5, <2>1, OwnQuiet DEF Grade, PCs, Live, Admitted
<1>6. CASE ReadSRS(r)
    <2>1. Moves(r, {"save"}) BY <1>6, <1>0 DEF ReadSRS, Moves, SameCall, Request
    <2> QED BY <1>6, <2>1, OwnQuiet DEF ReadSRS, PCs, Live, Admitted
<1>7. CASE SaveSRS(r)
    <2>1. Moves(r, {"log"}) BY <1>7, <1>0 DEF SaveSRS, Moves, SameCall, Request
    <2>2. req[r].user \in users BY <1>7 DEF SaveSRS, SRSRefs, Key
    <2> QED BY <1>7, <2>1, <2>2, OwnQuiet DEF SaveSRS, PCs, Live, Admitted
<1>8. CASE DeferTask(r)
    <2>1. Moves(r, {"log"}) BY <1>8, <1>0 DEF DeferTask, Moves, SameCall, Request
    <2>2. req[r].user \in users BY <1>8 DEF DeferTask, SRSRefs, Key
    <2> QED BY <1>8, <2>1, <2>2, OwnQuiet DEF DeferTask, PCs, Live, Admitted
<1>9. CASE LogAttempt(r)
    <2>1. Moves(r, {"ok"}) BY <1>9, GotoMoves DEF LogAttempt, PCs
    <2>2. req[r].sid \in DOMAIN sessions BY <1>9 DEF LogAttempt, AttemptRefs
    <2>3. req[r].user \in users /\ sessions[req[r].sid].user = req[r].user
        BY <1>9, <2>2 DEF LogAttempt, OwnershipInv, Admitted
    <2>4. \A a \in attempts : a \in Requests /\ a # r /\ req'[a] = req[a]
        BY <1>9, <2>1 DEF OwnershipInv, TypeOK, LogAttempt, Moves
    <2>5. AttemptsHaveOwners'
        BY <1>9, <2>1, <2>2, <2>3, <2>4
        DEF LogAttempt, OwnershipInv, AttemptsHaveOwners, Moves, SameCall
    <2>6. \A a \in attempts' : req'[a].pc = "ok"
        BY <1>9, <2>1, <2>4 DEF LogAttempt, OwnershipInv, Moves
    <2>7. \A x \in Requests : req'[x].pc \in Admitted => req'[x] = req[x]
        BY <2>1 DEF Moves, Admitted
    <2> QED BY <1>9, <2>5, <2>6, <2>7 DEF OwnershipInv, LogAttempt
<1>10. CASE Refuse(r)
    <2>1. Moves(r, {"failed"}) BY <1>10, GotoMoves DEF Refuse, PCs
    <2> QED BY <1>10, <2>1, OwnQuiet DEF Refuse, Refused, PCs, Admitted
<1>11. CASE EndSession(r)
    <2>1. Moves(r, {"count"}) BY <1>11, GotoMoves DEF EndSession, PCs, Live
    <2>2. DOMAIN sessions' = DOMAIN sessions
          /\ \A s \in DOMAIN sessions : sessions'[s].user = sessions[s].user
        BY <1>11 DEF EndSession, TypeOK
    <2>3. \A a \in attempts : a \in Requests /\ req'[a] = req[a]
        BY <1>11, <2>1 DEF OwnershipInv, TypeOK, EndSession, Moves
    <2>4. \A x \in Requests : req'[x].pc \in Admitted => req'[x] = req[x]
        BY <2>1 DEF Moves, Admitted
    <2>5. AttemptsHaveOwners'
        BY <1>11, <2>2, <2>3 DEF EndSession, OwnershipInv, AttemptsHaveOwners
    <2> QED BY <1>11, <2>2, <2>3, <2>4, <2>5 DEF OwnershipInv, EndSession
<1>12. CASE Summarise(r)
    <2>1. Moves(r, {"ok"}) BY <1>12, <1>0 DEF Summarise, Moves, SameCall, Request
    <2> QED BY <1>12, <2>1, OwnQuiet DEF Summarise, PCs, Admitted
<1> QED
    BY <1>1, <1>2, <1>3, <1>4, <1>5, <1>6, <1>7, <1>8, <1>9, <1>10, <1>11, <1>12 DEF Step

\* A request that arrives is admitted to nothing, and no attempt is its own.
LEMMA OwnArrive ==
    ASSUME TypeOK, OwnershipInv, NEW r \in Requests,
           ArriveStart(r) \/ ArriveEnd(r) \/ ArriveOnTask(r)
    PROVE  OwnershipInv'
<1>1. PICK c : Arrival(c) /\ Arrive(r, c) BY Arrivals
<1>2. /\ req[r].pc = "idle"
      /\ req'[r].pc \in {"compose", "close", "admit"}
      /\ \A x \in Requests \ {r} : req'[x] = req[x]
    BY <1>1 DEF Arrival, Arrive, Idle, TypeOK
<1>3. \A a \in attempts : a \in Requests /\ req'[a] = req[a]
    BY <1>2 DEF OwnershipInv, TypeOK
<1>4. \A x \in Requests : req'[x].pc \in Admitted => req'[x] = req[x]
    BY <1>2 DEF Admitted
<1>5. UNCHANGED <<users, sessions, nextSid, attempts>> BY <1>1 DEF Arrive, rows
<1>6. AttemptsHaveOwners' BY <1>3, <1>5 DEF OwnershipInv, AttemptsHaveOwners
<1> QED BY <1>3, <1>4, <1>5, <1>6 DEF OwnershipInv

LEMMA OwnCrash ==
    ASSUME TypeOK, OwnershipInv, Crash
    PROVE  OwnershipInv'
<1>1. \A x \in Requests :
          \/ req[x].pc \in Live /\ req'[x].pc = "failed"
          \/ req'[x] = req[x] /\ req'[x].pc \notin Live
    BY MovedFields DEF Crash, TypeOK, PCs
<1>2. \A a \in attempts : a \in Requests /\ req'[a] = req[a]
    BY <1>1 DEF OwnershipInv, TypeOK, Live
<1>3. \A x \in Requests : req'[x].pc \notin Admitted BY <1>1 DEF Admitted, Live
<1>4. UNCHANGED <<users, sessions, nextSid, attempts>> BY DEF Crash, rows
<1>5. AttemptsHaveOwners' BY <1>2, <1>4 DEF OwnershipInv, AttemptsHaveOwners
<1> QED BY <1>2, <1>3, <1>4, <1>5 DEF OwnershipInv

\* Removing a user removes the sessions, and with them every attempt, of the user.
LEMMA OwnDeleteUser ==
    ASSUME TypeOK, OwnershipInv, NEW u \in Users, DeleteUser(u)
    PROVE  OwnershipInv'
<1>1. /\ users' = users \ {u}
      /\ DOMAIN sessions' = DOMAIN sessions \ SessionsOf(u)
      /\ \A s \in DOMAIN sessions' : sessions'[s] = sessions[s] /\ sessions[s].user # u
      /\ UNCHANGED <<nextSid, req>>
    BY DEF DeleteUser, SessionsOf
<1>2. \A a \in attempts' :
         a \in attempts /\ req[a].user # u /\ req[a].sid \notin SessionsOf(u)
    BY DEF DeleteUser
<1>3. AttemptsHaveOwners'
    BY <1>1, <1>2 DEF OwnershipInv, AttemptsHaveOwners, SessionsOf
<1>4. ASSUME NEW x \in Requests, req[x].pc \in Admitted
      PROVE  /\ req[x].sid < nextSid
             /\ req[x].sid \in DOMAIN sessions' =>
                   /\ sessions'[req[x].sid].user = req[x].user
                   /\ req[x].pc = "log" => req[x].user \in users'
    BY <1>1, <1>4 DEF OwnershipInv
<1> QED BY <1>1, <1>2, <1>3, <1>4 DEF OwnershipInv

LEMMA OwnNext == TypeOK /\ OwnershipInv /\ [Next]_vars => OwnershipInv'
<1> SUFFICES ASSUME TypeOK, OwnershipInv, [Next]_vars PROVE OwnershipInv'
    OBVIOUS
<1>1. CASE UNCHANGED vars
    BY <1>1 DEF vars, rows, history, OwnershipInv, AttemptsHaveOwners
<1>2. ASSUME NEW r \in Requests, Fail(r) \/ CountFails(r) PROVE OwnershipInv'
    <2>1. Moves(r, {"blank", "failed"})
        BY <1>2, GotoMoves DEF Fail, CountFails, PCs, Moves
    <2> QED BY <1>2, <2>1, OwnQuiet DEF Fail, CountFails, Live, PCs, Admitted, rows
<1>3. ASSUME NEW t \in Tasks, FlagTask(t) \/ DeleteTask(t) PROVE OwnershipInv'
    <2>1. UNCHANGED <<users, sessions, nextSid, req>> /\ attempts' \subseteq attempts
        BY <1>3 DEF FlagTask, DeleteTask
    <2> QED BY <2>1 DEF OwnershipInv, AttemptsHaveOwners
<1>4. CASE Tick BY <1>4 DEF Tick, rows, OwnershipInv, AttemptsHaveOwners
<1> QED
    BY <1>1, <1>2, <1>3, <1>4, OwnStep, OwnArrive, OwnCrash, OwnDeleteUser DEF Next

\* No interleaving of handlers with the removal of a user leaves an attempts row
\* without its user, without its session, or in another user's session.
THEOREM AttemptsOwned == Spec => []AttemptsHaveOwners
<1>1. Init => OwnershipInv
    BY DEF Init, Idle, Admitted, OwnershipInv, AttemptsHaveOwners
<1>2. TypeOK /\ OwnershipInv /\ [Next]_vars => OwnershipInv' BY OwnNext
<1>3. OwnershipInv => AttemptsHaveOwners BY DEF OwnershipInv
<1> QED BY <1>1, <1>2, <1>3, TypeCorrect, PTL DEF Spec

-----------------------------------------------------------------------------
(* Sound cards *)

\* Every card, in the table or read by a request, is sound.
CardsInv == SoundRows /\ \A r \in Requests : Sound(req[r].card)

LEMMA NewCardSound == Sound(NewCard)
BY NewCardType DEF Sound, NewCard

LEMMA LoadSRSSound ==
    ASSUME SoundRows, NEW k
    PROVE  Sound(LoadSRS(k))
BY NewCardSound DEF SoundRows, LoadSRS

LEMMA UpsertSound ==
    ASSUME SoundRows, NEW k, NEW row, Sound(row.card), srs' = Upsert(k, row)
    PROVE  SoundRows'
BY DEF SoundRows, Upsert

LEMMA CardsNext == TypeOK /\ CardsInv /\ [Next]_vars => CardsInv'
<1> SUFFICES ASSUME TypeOK, CardsInv, [Next]_vars PROVE CardsInv'
    OBVIOUS
<1> USE DEF rows, history
<1>0. req \in [Requests -> Request] BY DEF TypeOK
\* A step that leaves the table alone and gives no request but a sound card.
<1>a. ASSUME UNCHANGED srs,
             \A x \in Requests : req'[x].card \in {req[x].card, NewCard}
      PROVE  CardsInv'
    BY <1>a, NewCardSound DEF CardsInv, SoundRows
<1>b. ASSUME NEW r \in Requests, NEW pc \in PCs, Goto(r, pc)
      PROVE  \A x \in Requests : req'[x].card \in {req[x].card, NewCard}
    <2>1. req'[r] = Moved(req[r], pc) /\ \A x \in Requests \ {r} : req'[x] = req[x]
        BY <1>0, <1>b DEF Goto
    <2> QED BY <1>0, <2>1, MovedFields
<1>1. CASE UNCHANGED vars BY <1>1, <1>a DEF vars
<1>2. ASSUME NEW r \in Requests,
             Compose(r) \/ StartSession(r) \/ Admit(r) \/ LogAttempt(r) \/ Refuse(r)
             \/ EndSession(r) \/ Fail(r) \/ CountFails(r)
      PROVE  CardsInv'
    <2>1. UNCHANGED srs
        BY <1>2 DEF Compose, StartSession, Admit, LogAttempt, Refuse, EndSession, Fail,
                    CountFails
    <2>2. \E pc \in PCs : Goto(r, pc)
        BY <1>2 DEF Compose, StartSession, Admit, LogAttempt, Refuse, EndSession, Fail,
                    CountFails, PCs, Live
    <2> QED BY <2>1, <2>2, <1>b, <1>a
<1>3. ASSUME NEW r \in Requests, LoadTask(r) PROVE CardsInv'
    <2>1. UNCHANGED srs BY <1>3 DEF LoadTask
    <2>2. CASE Goto(r, "failed") \/ Goto(r, "grade")
        BY <2>1, <2>2, <1>b, <1>a DEF PCs, Live
    <2>3. CASE req' = [req EXCEPT ![r].pc = "defer", ![r].at = now]
        <3>1. \A x \in Requests : req'[x].card = req[x].card BY <2>3, <1>0 DEF Request
        <3> QED BY <2>1, <3>1, <1>a
    <2> QED BY <1>3, <2>2, <2>3 DEF LoadTask
<1>4. ASSUME NEW r \in Requests, Grade(r) \/ Summarise(r) PROVE CardsInv'
    <2>1. \A x \in Requests : req'[x].card = req[x].card
        <3>1. CASE Grade(r) BY <3>1, <1>0 DEF Grade, Request
        <3>2. CASE Summarise(r) BY <3>2, <1>0 DEF Summarise, Request
        <3> QED BY <1>4, <3>1, <3>2
    <2> QED BY <1>4, <2>1, <1>a DEF Grade, Summarise
<1>5. ASSUME NEW r \in Requests, ReadSRS(r) PROVE CardsInv'
    <2>1. Sound(LoadSRS(Key(r))) BY LoadSRSSound DEF CardsInv
    <2>2. \A x \in Requests :
             req'[x].card = IF x = r THEN LoadSRS(Key(r)) ELSE req[x].card
        BY <1>5, <1>0 DEF ReadSRS, Request
    <2> QED BY <1>5, <2>1, <2>2 DEF ReadSRS, CardsInv, SoundRows
<1>6. ASSUME NEW r \in Requests, SaveSRS(r) PROVE CardsInv'
    <2>1. PICK d : srs' = Upsert(Key(r), SavedRow(r, d)) BY <1>6 DEF SaveSRS
    <2>2. Sound(req[r].card) /\ req[r].grade \in Grades
        BY <1>0 DEF CardsInv, Request
    <2>3. Sound(SavedRow(r, d).card) BY <2>2, UpdateSound DEF SavedRow
    <2>4. SoundRows' BY <2>1, <2>3, UpsertSound DEF CardsInv
    <2>5. \A x \in Requests : req'[x].card \in {req[x].card, NewCard}
        BY <1>6, <1>0 DEF SaveSRS, Request
    <2> QED BY <2>4, <2>5, NewCardSound DEF CardsInv
<1>7. ASSUME NEW r \in Requests, DeferTask(r) PROVE CardsInv'
    <2>1. Sound(DeferredRow(Key(r), req[r].at + Defer).card)
        BY LoadSRSSound DEF DeferredRow, CardsInv
    <2>2. SoundRows' BY <1>7, <2>1, UpsertSound DEF DeferTask, CardsInv
    <2>3. \A x \in Requests : req'[x].card = req[x].card
        BY <1>7, <1>0 DEF DeferTask, Request
    <2> QED BY <2>2, <2>3 DEF CardsInv
<1>8. ASSUME NEW r \in Requests, ArriveStart(r) \/ ArriveEnd(r) \/ ArriveOnTask(r)
      PROVE  CardsInv'
    <2>1. PICK c : Arrival(c) /\ Arrive(r, c) BY <1>8, Arrivals
    <2> QED BY <2>1, <1>0, <1>a DEF Arrival, Arrive
<1>9. CASE Crash
    <2>1. \A x \in Requests : req'[x].card \in {req[x].card, NewCard}
        BY <1>9, <1>0, MovedFields DEF Crash, PCs
    <2> QED BY <1>9, <2>1, <1>a DEF Crash
<1>10. ASSUME NEW t \in Tasks, FlagTask(t) \/ DeleteTask(t) PROVE CardsInv'
    BY <1>10 DEF FlagTask, DeleteTask, CardsInv, SoundRows
<1>11. ASSUME NEW u \in Users, DeleteUser(u) PROVE CardsInv'
    BY <1>11 DEF DeleteUser, CardsInv, SoundRows
<1>12. CASE Tick BY <1>12, <1>a DEF Tick
<1> QED
    BY <1>1, <1>2, <1>3, <1>4, <1>5, <1>6, <1>7, <1>8, <1>9, <1>10, <1>11, <1>12
    DEF Next, Step

\* Every srs_state row is one that a history of grades produces, also when the
\* saves of overlapping answers overwrite one another.
THEOREM RowsSound == Spec => []SoundRows
<1>1. Init => CardsInv BY NewCardSound DEF Init, Idle, CardsInv, SoundRows
<1>2. TypeOK /\ CardsInv /\ [Next]_vars => CardsInv' BY CardsNext
<1>3. CardsInv => SoundRows BY DEF CardsInv
<1> QED BY <1>1, <1>2, <1>3, TypeCorrect, PTL DEF Spec

-----------------------------------------------------------------------------
(* Action properties *)

\* The steps that write no row at all.
LEMMA Rowless ==
    ASSUME NEW r \in Requests,
           \/ Compose(r) \/ Admit(r) \/ LoadTask(r) \/ Grade(r) \/ ReadSRS(r)
           \/ Refuse(r) \/ Summarise(r) \/ Fail(r) \/ CountFails(r) \/ Crash \/ Tick
           \/ ArriveStart(r) \/ ArriveEnd(r) \/ ArriveOnTask(r)
    PROVE  UNCHANGED <<rows, history>>
BY DEF Compose, Admit, LoadTask, Grade, ReadSRS, Refuse, Summarise, Fail, CountFails,
       Crash, Tick, ArriveStart, ArriveEnd, ArriveOnTask, Arrive

EndStays ==
    \A s \in DOMAIN sessions \cap DOMAIN sessions' :
        /\ sessions'[s].user = sessions[s].user
        /\ sessions[s].ended # NotEnded => sessions'[s] = sessions[s]

LEMMA EndStaysNext == TypeOK /\ [Next]_vars => EndStays
<1> SUFFICES ASSUME TypeOK, [Next]_vars PROVE EndStays
    OBVIOUS
<1>0. ASSUME sessions' = sessions PROVE EndStays BY <1>0 DEF EndStays
<1>1. CASE UNCHANGED vars BY <1>1, <1>0 DEF vars, rows
<1>2. ASSUME NEW r \in Requests, StartSession(r) PROVE EndStays
    <2>1. nextSid \notin DOMAIN sessions
        BY <1>2, SessionsAssumption DEF StartSession, TypeOK
    <2> QED BY <1>2, <2>1 DEF StartSession, EndStays
<1>3. ASSUME NEW r \in Requests, EndSession(r) PROVE EndStays
    <2>1. CASE SessionExists(req[r].user, req[r].sid)
        <3>1. /\ sessions' = [sessions EXCEPT ![req[r].sid].ended = now]
              /\ sessions[req[r].sid].ended = NotEnded
            BY <1>3, <2>1 DEF EndSession, SessionExists
        <3>2. \A s \in DOMAIN sessions : sessions'[s].user = sessions[s].user
            BY <3>1 DEF TypeOK
        <3>3. \A s \in DOMAIN sessions : s # req[r].sid => sessions'[s] = sessions[s]
            BY <3>1
        <3> QED BY <3>1, <3>2, <3>3 DEF EndStays
    <2>2. CASE ~ SessionExists(req[r].user, req[r].sid)
        BY <1>3, <2>2, <1>0 DEF EndSession
    <2> QED BY <2>1, <2>2
<1>4. ASSUME NEW u \in Users, DeleteUser(u) PROVE EndStays
    BY <1>4 DEF DeleteUser, EndStays
<1>5. ASSUME NEW r \in Requests, SaveSRS(r) \/ DeferTask(r) \/ LogAttempt(r)
      PROVE  EndStays
    BY <1>5, <1>0 DEF SaveSRS, DeferTask, LogAttempt
<1>6. ASSUME NEW t \in Tasks, FlagTask(t) \/ DeleteTask(t) PROVE EndStays
    BY <1>6, <1>0 DEF FlagTask, DeleteTask
<1>7. CASE Crash \/ Tick BY <1>7, <1>0 DEF Crash, Tick, rows
<1> QED BY <1>0, <1>1, <1>2, <1>3, <1>4, <1>5, <1>6, <1>7, Rowless DEF Next, Step, rows

\* A session that has ended is never reopened, ended anew or handed on: a second end
\* matches no row, and a start never takes an id that exists.
THEOREM EndedForGood == Spec => EndIsFinal
<1>1. TypeOK /\ [Next]_vars => EndStays BY EndStaysNext
<1> QED BY <1>1, TypeCorrect, PTL DEF Spec, EndIsFinal, EndStays

\* A request whose save is in the history is past it, and saves no second time.
Past == {"log", "ok", "blank", "failed"}
SavedInv == \A r \in saved : r \in Requests /\ req[r].pc \in Past

LEMMA SavedNext == TypeOK /\ SavedInv /\ [Next]_vars => SavedInv'
<1> SUFFICES ASSUME TypeOK, SavedInv, [Next]_vars PROVE SavedInv'
    OBVIOUS
<1> USE DEF Past
<1>0. req \in [Requests -> Request] BY DEF TypeOK
<1>a. ASSUME NEW r \in Requests, NEW pcs, Moves(r, pcs), saved' = saved,
             req[r].pc \notin Past \/ pcs \subseteq Past
      PROVE  SavedInv'
    BY <1>a DEF SavedInv, Moves
<1>1. CASE UNCHANGED vars BY <1>1 DEF vars, history, SavedInv
<1>2. ASSUME NEW r \in Requests,
             LogAttempt(r) \/ Refuse(r) \/ Fail(r) \/ CountFails(r)
      PROVE  SavedInv'
    <2>1. Moves(r, {"ok", "blank", "failed"})
        <3>1. CASE LogAttempt(r)
            BY <3>1, GotoMoves DEF LogAttempt, PCs, Moves
        <3>2. CASE Refuse(r) BY <3>2, GotoMoves DEF Refuse, PCs, Moves
        <3>3. CASE Fail(r) \/ CountFails(r) BY <3>3, GotoMoves DEF Fail, CountFails, PCs, Moves
        <3> QED BY <1>2, <3>1, <3>2, <3>3
    <2> QED BY <1>2, <2>1, <1>a DEF LogAttempt, Refuse, Fail, CountFails, history
<1>3. ASSUME NEW r \in Requests,
             \/ Compose(r) \/ StartSession(r) \/ Admit(r) \/ LoadTask(r) \/ Grade(r)
             \/ ReadSRS(r) \/ DeferTask(r) \/ EndSession(r) \/ Summarise(r)
      PROVE  SavedInv'
    <2>1. req[r].pc \notin Past /\ saved' = saved
        BY <1>3 DEF Compose, StartSession, Admit, LoadTask, Grade, ReadSRS, DeferTask,
                    EndSession, Summarise, history
    <2>2. \A x \in Requests \ {r} : req'[x] = req[x]
        BY <1>3, <1>0 DEF Compose, StartSession, Admit, LoadTask, Grade, ReadSRS,
                          DeferTask, EndSession, Summarise, Goto
    <2> QED BY <2>1, <2>2 DEF SavedInv
<1>4. ASSUME NEW r \in Requests, SaveSRS(r) PROVE SavedInv'
    <2>1. req'[r].pc = "log" /\ \A x \in Requests \ {r} : req'[x] = req[x]
        BY <1>4, <1>0 DEF SaveSRS, Request
    <2> QED BY <1>4, <2>1 DEF SaveSRS, SavedInv
<1>5. ASSUME NEW r \in Requests, ArriveStart(r) \/ ArriveEnd(r) \/ ArriveOnTask(r)
      PROVE  SavedInv'
    <2>1. PICK c : Arrival(c) /\ Arrive(r, c) BY <1>5, Arrivals
    <2>2. req[r].pc = "idle" /\ \A x \in Requests \ {r} : req'[x] = req[x]
        BY <2>1, <1>0 DEF Arrive, Idle
    <2> QED BY <2>1, <2>2 DEF SavedInv, Arrive, history
<1>6. CASE Crash
    <2>1. \A x \in Requests : req'[x].pc = "failed" \/ req'[x] = req[x]
        BY <1>6, <1>0, MovedFields DEF Crash, PCs
    <2> QED BY <1>6, <2>1 DEF SavedInv, Crash, history
<1>7. ASSUME NEW t \in Tasks, FlagTask(t) \/ DeleteTask(t) PROVE SavedInv'
    BY <1>7 DEF FlagTask, DeleteTask, SavedInv, history
<1>8. ASSUME NEW u \in Users, DeleteUser(u) PROVE SavedInv'
    BY <1>8 DEF DeleteUser, SavedInv, history
<1>9. CASE Tick BY <1>9 DEF Tick, SavedInv, history
<1> QED
    BY <1>1, <1>2, <1>3, <1>4, <1>5, <1>6, <1>7, <1>8, <1>9 DEF Next, Step

GradedOnly ==
    \A k \in DOMAIN srs \cap DOMAIN srs' :
        srs'[k].card # srs[k].card => \E r \in saved' \ saved : Key(r) = k

LEMMA GradedOnlyNext == TypeOK /\ SavedInv /\ [Next]_vars => GradedOnly
<1> SUFFICES ASSUME TypeOK, SavedInv, [Next]_vars PROVE GradedOnly
    OBVIOUS
<1>0. ASSUME srs' = srs PROVE GradedOnly BY <1>0 DEF GradedOnly
<1>1. CASE UNCHANGED vars BY <1>1, <1>0 DEF vars, rows
<1>2. ASSUME NEW r \in Requests, SaveSRS(r) PROVE GradedOnly
    <2>1. r \in saved' \ saved BY <1>2 DEF SaveSRS, SavedInv, Past
    <2>2. \A k \in DOMAIN srs : k # Key(r) => srs'[k] = srs[k]
        BY <1>2 DEF SaveSRS, Upsert
    <2> QED BY <2>1, <2>2 DEF GradedOnly
<1>3. ASSUME NEW r \in Requests, DeferTask(r) PROVE GradedOnly
    <2>1. \A k \in DOMAIN srs : srs'[k].card = srs[k].card
        BY <1>3 DEF DeferTask, Upsert, DeferredRow, LoadSRS
    <2> QED BY <2>1 DEF GradedOnly
<1>4. ASSUME NEW t \in Tasks, DeleteTask(t) PROVE GradedOnly
    BY <1>4 DEF DeleteTask, GradedOnly
<1>5. ASSUME NEW u \in Users, DeleteUser(u) PROVE GradedOnly
    BY <1>5 DEF DeleteUser, GradedOnly
<1>6. ASSUME NEW r \in Requests, StartSession(r) \/ LogAttempt(r) \/ EndSession(r)
      PROVE  GradedOnly
    BY <1>6, <1>0 DEF StartSession, LogAttempt, EndSession
<1>7. ASSUME NEW t \in Tasks, FlagTask(t) PROVE GradedOnly
    BY <1>7, <1>0 DEF FlagTask
<1>8. CASE Crash \/ Tick BY <1>8, <1>0 DEF Crash, Tick, rows
<1> QED
    BY <1>0, <1>1, <1>2, <1>3, <1>4, <1>5, <1>6, <1>7, <1>8, Rowless DEF Next, Step, rows

\* A card's learning state moves only in the step that saves a graded answer to it: no
\* skip, end, removal of another row, failure or restart touches it.
THEOREM MovedByGrading == Spec => ProgressOnlyByGrading
<1>1. Init => SavedInv BY DEF Init, SavedInv
<1>2. TypeOK /\ SavedInv /\ [Next]_vars => SavedInv' BY SavedNext
<1>3. TypeOK /\ SavedInv /\ [Next]_vars => GradedOnly BY GradedOnlyNext
<1> QED BY <1>1, <1>2, <1>3, TypeCorrect, PTL DEF Spec, ProgressOnlyByGrading, GradedOnly

-----------------------------------------------------------------------------
(* What a request keeps *)

\* What no step changes of a request under way or over, nor of a graded or counted one.
Keeps(x) ==
    /\ SameCall(x)
    /\ req'[x].before = req[x].before
    /\ req[x].pc # "grade" => req'[x].grade = req[x].grade
    /\ req[x].pc # "count" => req'[x].counted = req[x].counted
    /\ req[x].pc \in {"ok", "blank", "failed"} => req'[x].pc = req[x].pc

LEMMA GotoKeeps ==
    ASSUME TypeOK, NEW r \in Requests, NEW pc \in PCs, Goto(r, pc),
           req[r].pc \notin {"ok", "blank", "failed"}
    PROVE  \A x \in Requests : Keeps(x)
<1>1. req \in [Requests -> Request] /\ req[r] \in Request BY DEF TypeOK
<1>2. req'[r] = Moved(req[r], pc) BY <1>1 DEF Goto
<1>3. \A x \in Requests \ {r} : req'[x] = req[x] BY <1>1 DEF Goto
<1> QED BY <1>1, <1>2, <1>3, MovedFields DEF Keeps, SameCall

LEMMA AllKeep ==
    ASSUME TypeOK, [Next]_vars
    PROVE  \A x \in Requests : req[x].pc # "idle" => Keeps(x)
<1>0. req \in [Requests -> Request] BY DEF TypeOK
<1>a. ASSUME req' = req PROVE \A x \in Requests : Keeps(x)
    BY <1>a DEF Keeps, SameCall
<1>1. CASE UNCHANGED vars BY <1>1, <1>a DEF vars
<1>2. ASSUME NEW r \in Requests,
             Compose(r) \/ StartSession(r) \/ Admit(r) \/ LogAttempt(r) \/ Refuse(r)
             \/ EndSession(r) \/ Fail(r) \/ CountFails(r)
      PROVE  \A x \in Requests : Keeps(x)
    <2>1. \E pc \in PCs : Goto(r, pc)
        BY <1>2 DEF Compose, StartSession, Admit, LogAttempt, Refuse, EndSession, Fail,
                    CountFails, PCs, Live
    <2>2. req[r].pc \notin {"ok", "blank", "failed"}
        BY <1>2 DEF Compose, StartSession, Admit, LogAttempt, Refuse, Refused, EndSession,
                    Fail, CountFails, Live
    <2> QED BY <2>1, <2>2, GotoKeeps
<1>3. ASSUME NEW r \in Requests, LoadTask(r) PROVE \A x \in Requests : Keeps(x)
    <2>1. CASE Goto(r, "failed") \/ Goto(r, "grade")
        BY <1>3, <2>1, GotoKeeps DEF PCs, Live, LoadTask
    <2>2. CASE req' = [req EXCEPT ![r].pc = "defer", ![r].at = now]
        BY <1>3, <2>2, <1>0 DEF Keeps, SameCall, Request, LoadTask
    <2> QED BY <1>3, <2>1, <2>2 DEF LoadTask
<1>4. ASSUME NEW r \in Requests, Grade(r) PROVE \A x \in Requests : Keeps(x)
    BY <1>4, <1>0 DEF Grade, Keeps, SameCall, Request
<1>5. ASSUME NEW r \in Requests, Summarise(r) PROVE \A x \in Requests : Keeps(x)
    BY <1>5, <1>0 DEF Summarise, Keeps, SameCall, Request
<1>6. ASSUME NEW r \in Requests, ReadSRS(r) PROVE \A x \in Requests : Keeps(x)
    BY <1>6, <1>0 DEF ReadSRS, Keeps, SameCall, Request
<1>7. ASSUME NEW r \in Requests, SaveSRS(r) PROVE \A x \in Requests : Keeps(x)
    BY <1>7, <1>0 DEF SaveSRS, Keeps, SameCall, Request
<1>8. ASSUME NEW r \in Requests, DeferTask(r) PROVE \A x \in Requests : Keeps(x)
    BY <1>8, <1>0 DEF DeferTask, Keeps, SameCall, Request
<1>9. ASSUME NEW r \in Requests, ArriveStart(r) \/ ArriveEnd(r) \/ ArriveOnTask(r)
      PROVE  \A x \in Requests : req[x].pc # "idle" => Keeps(x)
    <2>1. PICK c : Arrival(c) /\ Arrive(r, c) BY <1>9, Arrivals
    <2>2. req[r].pc = "idle" /\ \A x \in Requests \ {r} : req'[x] = req[x]
        BY <2>1, <1>0 DEF Arrive, Idle
    <2> QED BY <2>2 DEF Keeps, SameCall
<1>10. CASE Crash
    <2>1. ASSUME NEW x \in Requests PROVE Keeps(x)
        <3>1. \/ req'[x] = req[x]
              \/ req[x].pc \in Live /\ req'[x] = Moved(req[x], "failed")
            BY <1>10 DEF Crash
        <3>2. "failed" \in PCs /\ req[x] \in Request BY <1>0 DEF PCs
        <3> QED BY <3>1, <3>2, MovedFields DEF Keeps, SameCall, Live
    <2> QED BY <2>1
<1>11. ASSUME NEW t \in Tasks, FlagTask(t) \/ DeleteTask(t) PROVE req' = req
    BY <1>11 DEF FlagTask, DeleteTask
<1>12. ASSUME NEW u \in Users, DeleteUser(u) PROVE req' = req BY <1>12 DEF DeleteUser
<1>13. CASE Tick BY <1>13, <1>a DEF Tick
<1> QED
    BY <1>1, <1>2, <1>3, <1>4, <1>5, <1>6, <1>7, <1>8, <1>9, <1>10, <1>11, <1>12, <1>13,
       <1>a DEF Next, Step

-----------------------------------------------------------------------------
(* Lapses *)

\* The answers that failed at a card and were saved.
FailedSaves(k) == {r \in saved : Key(r) = k /\ ~ Passes(req[r].grade)}

\* Of every card a save may still be for, also of one with no row yet.
LapsesInv ==
    /\ IsFiniteSet(saved)
    /\ \A k \in (users \X tasks) \ raced :
          LoadSRS(k).lapses = Cardinality(FailedSaves(k))

\* Nothing is saved, and what the cards hold stays.
LEMMA LapsesQuiet ==
    ASSUME TypeOK, SavedInv, LapsesInv, [Next]_vars, UNCHANGED history,
           \A k \in users' \X tasks' : k \in users \X tasks /\ LoadSRS(k)' = LoadSRS(k)
    PROVE  LapsesInv'
<1>1. ASSUME NEW r \in saved PROVE Key(r)' = Key(r) /\ req'[r].grade = req[r].grade
    <2>1. r \in Requests /\ req[r].pc \in Past BY DEF SavedInv
    <2>2. Keeps(r) /\ req[r].pc # "grade" BY <2>1, AllKeep DEF Past
    <2> QED BY <2>2 DEF Keeps, SameCall, Key
<1>2. saved' = saved /\ raced' = raced BY DEF history
<1>3. ASSUME NEW k PROVE FailedSaves(k)' = FailedSaves(k)
    BY <1>1, <1>2 DEF FailedSaves
<1> QED BY <1>2, <1>3 DEF LapsesInv

LEMMA LapsesSave ==
    ASSUME TypeOK, SavedInv, LapsesInv, NEW r \in Requests, SaveSRS(r)
    PROVE  LapsesInv'
<1>0. /\ req \in [Requests -> Request] /\ req[r].pc = "save"
      /\ saved' = saved \cup {r} /\ UNCHANGED <<users, tasks>>
    BY DEF SaveSRS, TypeOK
<1>1. r \notin saved BY <1>0 DEF SavedInv, Past
<1>2. \A x \in Requests : Key(x)' = Key(x) /\ req'[x].grade = req[x].grade
    BY <1>0 DEF SaveSRS, Request, Key
<1>3. \A x \in saved : x \in Requests BY DEF TypeOK
<1>4. PICK d : srs' = Upsert(Key(r), SavedRow(r, d)) BY DEF SaveSRS
<1>5. IsFiniteSet(saved) /\ IsFiniteSet(saved')
    BY <1>0, FS_AddElement DEF LapsesInv
<1>6. ASSUME NEW k \in (users \X tasks) \ raced', k # Key(r)
      PROVE  LoadSRS(k)' = LoadSRS(k) /\ FailedSaves(k)' = FailedSaves(k) /\ k \notin raced
    <2>1. LoadSRS(k)' = LoadSRS(k) BY <1>4, <1>6 DEF Upsert, LoadSRS
    <2>2. FailedSaves(k)' = FailedSaves(k) BY <1>0, <1>2, <1>3, <1>6 DEF FailedSaves
    <2> QED BY <2>1, <2>2 DEF SaveSRS
<1>7. ASSUME Key(r) \notin raced'
      PROVE  LoadSRS(Key(r))'.lapses = Cardinality(FailedSaves(Key(r))')
    <2> DEFINE k == Key(r)
    <2>1. LoadSRS(k) = req[r].card /\ k \notin raced BY <1>7, <1>2 DEF SaveSRS
    <2>2. k \in users \X tasks BY DEF SaveSRS, SRSRefs, Key
    <2>3. LoadSRS(k).lapses = Cardinality(FailedSaves(k))
        BY <2>1, <2>2 DEF LapsesInv
    <2>4. UpdateSRS(req[r].card, req[r].grade).lapses
             = IF Passes(req[r].grade) THEN req[r].card.lapses ELSE req[r].card.lapses + 1
        BY DEF UpdateSRS
    <2>5. LoadSRS(k)' = UpdateSRS(req[r].card, req[r].grade)
        BY <1>2, <1>4 DEF Upsert, LoadSRS, SavedRow
    <2>6. IsFiniteSet(FailedSaves(k)) /\ r \notin FailedSaves(k)
        BY <1>1, <1>5, FS_Subset DEF FailedSaves
    <2>7. FailedSaves(k)' = IF Passes(req[r].grade) THEN FailedSaves(k)
                            ELSE FailedSaves(k) \cup {r}
        BY <1>0, <1>2, <1>3 DEF FailedSaves
    <2>8. ~ Passes(req[r].grade) =>
             Cardinality(FailedSaves(k)') = Cardinality(FailedSaves(k)) + 1
        BY <2>6, <2>7, FS_AddElement
    <2> QED BY <2>1, <2>3, <2>4, <2>5, <2>7, <2>8
<1> QED BY <1>0, <1>2, <1>5, <1>6, <1>7 DEF LapsesInv

LEMMA LapsesNext == TypeOK /\ SavedInv /\ LapsesInv /\ [Next]_vars => LapsesInv'
<1> SUFFICES ASSUME TypeOK, SavedInv, LapsesInv, [Next]_vars PROVE LapsesInv'
    OBVIOUS
<1>a. ASSUME UNCHANGED <<users, tasks, srs, history>> PROVE LapsesInv'
    BY <1>a, LapsesQuiet DEF LoadSRS
<1>1. CASE UNCHANGED vars BY <1>1, <1>a DEF vars, rows
<1>2. ASSUME NEW r \in Requests, StartSession(r) \/ LogAttempt(r) \/ EndSession(r)
      PROVE  LapsesInv'
    BY <1>2, <1>a DEF StartSession, LogAttempt, EndSession
<1>3. ASSUME NEW r \in Requests, DeferTask(r) PROVE LapsesInv'
    <2>1. \A k : LoadSRS(k)' = LoadSRS(k)
        BY <1>3 DEF DeferTask, Upsert, DeferredRow, LoadSRS
    <2> QED BY <1>3, <2>1, LapsesQuiet DEF DeferTask
<1>4. ASSUME NEW t \in Tasks, DeleteTask(t) PROVE LapsesInv'
    <2>1. ASSUME NEW k \in users' \X tasks'
          PROVE  k \in users \X tasks /\ LoadSRS(k)' = LoadSRS(k)
        BY <1>4 DEF DeleteTask, LoadSRS
    <2> QED BY <1>4, <2>1, LapsesQuiet DEF DeleteTask
<1>5. ASSUME NEW u \in Users, DeleteUser(u) PROVE LapsesInv'
    <2>1. ASSUME NEW k \in users' \X tasks'
          PROVE  k \in users \X tasks /\ LoadSRS(k)' = LoadSRS(k)
        BY <1>5 DEF DeleteUser, LoadSRS
    <2> QED BY <1>5, <2>1, LapsesQuiet DEF DeleteUser
<1>6. ASSUME NEW t \in Tasks, FlagTask(t) PROVE LapsesInv'
    BY <1>6, <1>a DEF FlagTask
<1>7. CASE Crash \/ Tick BY <1>7, <1>a DEF Crash, Tick, rows
<1> QED
    BY <1>a, <1>1, <1>2, <1>3, <1>4, <1>5, <1>6, <1>7, LapsesSave, Rowless
    DEF Next, Step, rows

\* Unless two graded answers at one card overlapped, no skip, removal, failure or
\* restart loses a lapse of its row or adds one.
THEOREM LapsesCounted == Spec => []LapsesAccounted
<1>1. Init => SavedInv BY DEF Init, SavedInv
<1>2. Init => LapsesInv
    <2> SUFFICES ASSUME Init PROVE LapsesInv
        OBVIOUS
    <2>1. saved = {} /\ srs = <<>> BY DEF Init
    <2>2. \A k : LoadSRS(k).lapses = 0 /\ FailedSaves(k) = {}
        BY <2>1 DEF LoadSRS, NewCard, FailedSaves
    <2> QED BY <2>1, <2>2, FS_EmptySet DEF LapsesInv
<1>3. TypeOK /\ SavedInv /\ [Next]_vars => SavedInv' BY SavedNext
<1>4. TypeOK /\ SavedInv /\ LapsesInv /\ [Next]_vars => LapsesInv' BY LapsesNext
<1>5. TypeOK /\ LapsesInv => LapsesAccounted
    BY DEF TypeOK, LapsesInv, LapsesAccounted, LoadSRS, FailedSaves
<1> QED BY <1>1, <1>2, <1>3, <1>4, <1>5, TypeCorrect, PTL DEF Spec

-----------------------------------------------------------------------------
(* What a summary counts *)

\* Each endpoint goes its own way.
TaskPlaces == Admitted \cup {"admit"}
RouteOK(q) ==
    /\ q.pc \in {"compose", "insert"} => q.op = "start"
    /\ q.pc \in {"close", "count"} => q.op = "end"
    /\ q.pc \in TaskPlaces => q.op \notin {"start", "end"}
RouteInv == \A r \in Requests : RouteOK(req[r])

LEMMA RouteNext == TypeOK /\ RouteInv /\ [Next]_vars => RouteInv'
<1> SUFFICES ASSUME TypeOK, RouteInv, [Next]_vars PROVE RouteInv'
    OBVIOUS
<1>0. req \in [Requests -> Request] BY DEF TypeOK
\* A request that goes on goes on at its endpoint.
<1>a. ASSUME NEW x \in Requests, req'[x].op = req[x].op,
             \/ req'[x].pc \notin {"compose", "insert", "close", "count"} \cup TaskPlaces
             \/ req[x].pc \in TaskPlaces /\ req'[x].pc \in TaskPlaces
             \/ req[x].pc = "compose" /\ req'[x].pc = "insert"
             \/ req[x].pc = "close" /\ req'[x].pc = "count"
      PROVE  RouteOK(req'[x])
    BY <1>a DEF RouteInv, RouteOK, TaskPlaces, Admitted
<1>b. ASSUME NEW r \in Requests, \A x \in Requests \ {r} : req'[x] = req[x],
             RouteOK(req'[r])
      PROVE  RouteInv'
    BY <1>b DEF RouteInv
<1>c. ASSUME req' = req PROVE RouteInv' BY <1>c DEF RouteInv
<1>d. ASSUME NEW r \in Requests, NEW P \in SUBSET PCs, Moves(r, P),
             \/ P \subseteq {"ok", "blank", "failed"}
             \/ req[r].pc \in TaskPlaces /\ P \subseteq TaskPlaces \cup {"ok", "blank", "failed"}
             \/ req[r].pc = "compose" /\ P \subseteq {"insert", "ok"}
             \/ req[r].pc = "close" /\ P \subseteq {"count"}
      PROVE  RouteInv'
    <2>1. req'[r].pc \in P /\ req'[r].op = req[r].op BY <1>d DEF Moves, SameCall
    <2>2. RouteOK(req'[r]) BY <2>1, <1>a, <1>d DEF TaskPlaces, Admitted
    <2> QED BY <2>2, <1>b, <1>d DEF Moves
<1>1. CASE UNCHANGED vars BY <1>1, <1>c DEF vars
<1>2. ASSUME NEW r \in Requests,
             \/ LogAttempt(r) \/ StartSession(r) \/ Refuse(r)
             \/ Fail(r) \/ CountFails(r)
      PROVE  RouteInv'
    <2>1. \E pc \in {"ok", "blank", "failed"} : Goto(r, pc)
        BY <1>2 DEF StartSession, LogAttempt, Refuse, Fail, CountFails
    <2>2. \E pc \in {"ok", "blank", "failed"} : Moves(r, {pc}) BY <2>1, GotoMoves DEF PCs
    <2> QED BY <2>2, <1>d DEF PCs
<1>3. ASSUME NEW r \in Requests, Compose(r) PROVE RouteInv'
    <2>1. \E pc \in {"insert", "ok"} : Moves(r, {pc})
        BY <1>3, GotoMoves DEF Compose, PCs, Live
    <2> QED BY <2>1, <1>3, <1>d DEF PCs, Live, Compose
<1>4. ASSUME NEW r \in Requests, EndSession(r) PROVE RouteInv'
    <2>1. Moves(r, {"count"}) BY <1>4, GotoMoves DEF EndSession, PCs, Live
    <2> QED BY <2>1, <1>4, <1>d DEF PCs, Live, EndSession
<1>5. ASSUME NEW r \in Requests, Admit(r) PROVE RouteInv'
    <2>1. \E pc \in {"load", "failed"} : Moves(r, {pc})
        BY <1>5, GotoMoves DEF Admit, PCs, Live
    <2> QED BY <2>1, <1>5, <1>d DEF PCs, Live, Admit, TaskPlaces, Admitted
<1>6. ASSUME NEW r \in Requests, LoadTask(r) PROVE RouteInv'
    <2>1. Moves(r, {"failed", "defer", "grade"})
        <3>1. CASE Goto(r, "failed") BY <3>1, GotoMoves DEF PCs, Moves
        <3>2. CASE Goto(r, "grade") BY <3>2, GotoMoves DEF PCs, Live, Moves
        <3>3. CASE req' = [req EXCEPT ![r].pc = "defer", ![r].at = now]
            BY <3>3, <1>0 DEF Moves, SameCall, Request
        <3> QED BY <1>6, <3>1, <3>2, <3>3 DEF LoadTask
    <2> QED BY <2>1, <1>6, <1>d DEF PCs, Live, LoadTask, TaskPlaces, Admitted
<1>7. ASSUME NEW r \in Requests, Grade(r) PROVE RouteInv'
    <2>1. Moves(r, {"srs"}) BY <1>7, <1>0 DEF Grade, Moves, SameCall, Request
    <2> QED BY <2>1, <1>7, <1>d DEF PCs, Live, Grade, TaskPlaces, Admitted
<1>8. ASSUME NEW r \in Requests, ReadSRS(r) PROVE RouteInv'
    <2>1. Moves(r, {"save"}) BY <1>8, <1>0 DEF ReadSRS, Moves, SameCall, Request
    <2> QED BY <2>1, <1>8, <1>d DEF PCs, Live, ReadSRS, TaskPlaces, Admitted
<1>9. ASSUME NEW r \in Requests, SaveSRS(r) PROVE RouteInv'
    <2>1. Moves(r, {"log"}) BY <1>9, <1>0 DEF SaveSRS, Moves, SameCall, Request
    <2> QED BY <2>1, <1>9, <1>d DEF PCs, Live, SaveSRS, TaskPlaces, Admitted
<1>10. ASSUME NEW r \in Requests, DeferTask(r) PROVE RouteInv'
    <2>1. Moves(r, {"log"}) BY <1>10, <1>0 DEF DeferTask, Moves, SameCall, Request
    <2> QED BY <2>1, <1>10, <1>d DEF PCs, Live, DeferTask, TaskPlaces, Admitted
<1>11. ASSUME NEW r \in Requests, Summarise(r) PROVE RouteInv'
    <2>1. Moves(r, {"ok"}) BY <1>11, <1>0 DEF Summarise, Moves, SameCall, Request
    <2> QED BY <2>1, <1>d DEF PCs
<1>12. ASSUME NEW r \in Requests, ArriveStart(r) \/ ArriveEnd(r) \/ ArriveOnTask(r)
       PROVE  RouteInv'
    <2>1. \A x \in Requests \ {r} : req'[x] = req[x]
        BY <1>12, <1>0 DEF ArriveStart, ArriveEnd, ArriveOnTask, Arrive
    <2>2. \/ req'[r].pc = "compose" /\ req'[r].op = "start"
          \/ req'[r].pc = "close" /\ req'[r].op = "end"
          \/ req'[r].pc = "admit" /\ req'[r].op \in {"attempt", "speak", "skip"}
        <3>1. CASE ArriveStart(r) BY <3>1, <1>0 DEF ArriveStart, Arrive, Idle
        <3>2. CASE ArriveEnd(r) BY <3>2, <1>0 DEF ArriveEnd, Arrive, Idle
        <3>3. CASE ArriveOnTask(r) BY <3>3, <1>0 DEF ArriveOnTask, Arrive, Idle
        <3> QED BY <1>12, <3>1, <3>2, <3>3
    <2> QED BY <2>1, <2>2, <1>b DEF RouteOK, TaskPlaces, Admitted
<1>13. CASE Crash
    <2>1. ASSUME NEW x \in Requests
          PROVE  req'[x] = req[x] \/ (req'[x].pc = "failed" /\ req'[x].op = req[x].op)
        BY <1>13, <1>0, MovedFields DEF Crash, PCs
    <2>2. ASSUME NEW x \in Requests PROVE RouteOK(req'[x])
        BY <2>1, <1>a DEF RouteInv, TaskPlaces, Admitted
    <2> QED BY <2>2 DEF RouteInv
<1>14. ASSUME NEW t \in Tasks, FlagTask(t) \/ DeleteTask(t) PROVE RouteInv'
    BY <1>14, <1>c DEF FlagTask, DeleteTask
<1>15. ASSUME NEW u \in Users, DeleteUser(u) PROVE RouteInv'
    BY <1>15, <1>c DEF DeleteUser
<1>16. CASE Tick BY <1>16, <1>c DEF Tick
<1> QED
    BY <1>1, <1>2, <1>3, <1>4, <1>5, <1>6, <1>7, <1>8, <1>9, <1>10, <1>11, <1>12, <1>13,
       <1>14, <1>15, <1>16 DEF Next, Step

\* A graded answer whose 200 was sent is a row until its user or its task goes.
Lasting(r) == req[r].user \in users /\ req[r].task \in tasks
AckedInv ==
    \A r \in Requests :
        req[r].pc = "ok" /\ req[r].op \in GradedOps /\ Lasting(r) => r \in attempts

\* How a request comes to be answered.
LEMMA Answering ==
    ASSUME TypeOK, [Next]_vars, NEW x \in Requests,
           req'[x].pc = "ok", req[x].pc # "ok"
    PROVE  LogAttempt(x) \/ Compose(x) \/ StartSession(x) \/ Summarise(x)
<1>0. req \in [Requests -> Request] BY DEF TypeOK
<1>1. ASSUME NEW r \in Requests, ArriveStart(r) \/ ArriveEnd(r) \/ ArriveOnTask(r)
      PROVE  FALSE
    <2>1. PICK c : Arrival(c) /\ Arrive(r, c) BY <1>1, Arrivals
    <2> QED BY <2>1, <1>0 DEF Arrive, Arrival
<1>2. ~ Crash BY <1>0, MovedFields DEF Crash, PCs
<1>3. req' # req OBVIOUS
<1>4. PICK r \in Requests : Step(r) \/ Fail(r) \/ CountFails(r)
    BY <1>1, <1>2, <1>3 DEF Next, vars, FlagTask, DeleteTask, DeleteUser, Tick
<1>5. ASSUME NEW pc \in PCs, Goto(r, pc)
      PROVE  r = x /\ pc = "ok"
    <2>1. Moves(r, {pc}) BY <1>5, GotoMoves
    <2> QED BY <2>1 DEF Moves, SameCall
<1>6. ~ (Admit(r) \/ Refuse(r) \/ EndSession(r) \/ Fail(r) \/ CountFails(r))
    BY <1>5 DEF Admit, Refuse, EndSession, Fail, CountFails, PCs, Live
<1>7. ~ LoadTask(r)
    <2>1. ~ (req' = [req EXCEPT ![r].pc = "defer", ![r].at = now]) BY <1>0 DEF Request
    <2> QED BY <2>1, <1>5 DEF LoadTask, PCs, Live
<1>8. ~ (Grade(r) \/ ReadSRS(r) \/ SaveSRS(r) \/ DeferTask(r))
    <2>1. ASSUME Grade(r) PROVE FALSE
        <3>1. req'[r].pc = "srs" /\ \A y \in Requests \ {r} : req'[y] = req[y]
            BY <2>1, <1>0 DEF Grade, Request
        <3> QED BY <3>1
    <2>2. ~ ReadSRS(r) BY <1>0 DEF ReadSRS, Request
    <2>3. ~ SaveSRS(r) BY <1>0 DEF SaveSRS, Request
    <2>4. ~ DeferTask(r) BY <1>0 DEF DeferTask, Request
    <2> QED BY <2>1, <2>2, <2>3, <2>4
<1>9. LogAttempt(r) \/ Compose(r) \/ StartSession(r) => r = x
    BY <1>5 DEF LogAttempt, Compose, StartSession, PCs, Live
<1>10. Summarise(r) => r = x BY <1>0 DEF Summarise, Request
<1> QED BY <1>4, <1>6, <1>7, <1>8, <1>9, <1>10 DEF Step

LEMMA AccountsGo ==
    ASSUME [Next]_vars
    PROVE  users' \subseteq users /\ tasks' \subseteq tasks
<1>1. CASE UNCHANGED vars BY <1>1 DEF vars, rows
<1>2. ASSUME NEW x \in Requests, Step(x) PROVE UNCHANGED <<users, tasks>>
    BY <1>2, Rowless
    DEF Step, rows, StartSession, SaveSRS, DeferTask, LogAttempt, EndSession
<1>3. ASSUME NEW t \in Tasks, FlagTask(t) \/ DeleteTask(t)
      PROVE  users' \subseteq users /\ tasks' \subseteq tasks
    BY <1>3 DEF FlagTask, DeleteTask
<1>4. ASSUME NEW u \in Users, DeleteUser(u)
      PROVE  users' \subseteq users /\ tasks' \subseteq tasks
    BY <1>4 DEF DeleteUser
<1>5. CASE Crash \/ Tick BY <1>5 DEF Crash, Tick, rows
<1> QED BY <1>1, <1>2, <1>3, <1>4, <1>5, Rowless DEF Next, rows

LEMMA AckedNext ==
    TypeOK /\ OwnershipInv /\ RouteInv /\ AckedInv /\ [Next]_vars => AckedInv'
<1> SUFFICES ASSUME TypeOK, OwnershipInv, RouteInv, AckedInv, [Next]_vars,
                    NEW r \in Requests,
                    req'[r].pc = "ok", req'[r].op \in GradedOps, Lasting(r)'
             PROVE  r \in attempts'
    BY DEF AckedInv
<1>1. CASE req[r].pc # "ok"
    <2>0. RouteOK(req[r]) BY DEF RouteInv
    <2>1. LogAttempt(r) \/ req[r].op \notin GradedOps
        BY <1>1, <2>0, Answering DEF Compose, StartSession, Summarise, RouteOK, GradedOps
    <2>2. req[r].op = req'[r].op
        BY <1>1, AllKeep, Answering
        DEF Keeps, SameCall, LogAttempt, Compose, StartSession, Summarise
    <2>3. LogAttempt(r) BY <2>1, <2>2
    <2> QED BY <2>3 DEF LogAttempt
<1>2. CASE req[r].pc = "ok"
    <2>1. Keeps(r) BY <1>2, AllKeep
    <2>2. users' \subseteq users /\ tasks' \subseteq tasks BY AccountsGo
    <2>3. r \in attempts
        BY <1>2, <2>1, <2>2 DEF AckedInv, Lasting, Keeps, SameCall
    <2>a. ASSUME attempts \subseteq attempts' PROVE r \in attempts' BY <2>a, <2>3
    <2>4. CASE UNCHANGED vars BY <2>4, <2>a DEF vars, rows
    <2>5. ASSUME NEW x \in Requests, Step(x) PROVE attempts \subseteq attempts'
        BY <2>5, Rowless DEF Step, rows, StartSession, SaveSRS, DeferTask, LogAttempt, EndSession
    <2>6. ASSUME NEW t \in Tasks, FlagTask(t) PROVE attempts \subseteq attempts'
        BY <2>6 DEF FlagTask
    <2>7. ASSUME NEW t \in Tasks, DeleteTask(t) PROVE r \in attempts'
        BY <2>7, <2>3 DEF DeleteTask, Lasting
    \* The attempt's session is its user's own, and so not of the user removed.
    <2>8. ASSUME NEW u \in Users, DeleteUser(u) PROVE r \in attempts'
        <3>1. req[r].user # u BY <2>8 DEF DeleteUser, Lasting
        <3>2. sessions[req[r].sid].user = req[r].user
            BY <2>3 DEF OwnershipInv, AttemptsHaveOwners
        <3> QED BY <2>3, <2>8, <3>1, <3>2 DEF DeleteUser, SessionsOf
    <2>9. CASE Crash \/ Tick BY <2>9, <2>a DEF Crash, Tick, rows
    <2> QED BY <2>a, <2>4, <2>5, <2>6, <2>7, <2>8, <2>9, Rowless DEF Next, rows
<1> QED BY <1>1, <1>2

\* A request that ends a session holds the answers sent before it came, and one that
\* has its summary counted those that still last.
SummaryInv ==
    \A e \in Requests : req[e].op = "end" /\ req[e].pc # "idle" =>
        /\ \A r \in req[e].before :
              /\ r \in Requests /\ req[r].pc = "ok" /\ req[r].op \in GradedOps
              /\ req[r].sid = req[e].sid
        /\ req[e].pc = "ok" =>
              \A r \in req[e].before :
                 req[r].user = req[e].user /\ Lasting(r) => r \in req[e].counted

LEMMA Ending ==
    ASSUME TypeOK, [Next]_vars, NEW e \in Requests, req'[e].op = "end",
           req[e].pc = "idle", req'[e].pc # "idle"
    PROVE  req'[e].before = Acked(req'[e].sid) /\ req'[e].pc = "close"
<1>0. req \in [Requests -> Request] BY DEF TypeOK
<1>1. req' # req OBVIOUS
<1>2. ASSUME NEW r \in Requests, ArriveEnd(r)
      PROVE  req'[e].before = Acked(req'[e].sid) /\ req'[e].pc = "close"
    <2>1. r = e BY <1>2, <1>0 DEF ArriveEnd, Arrive
    <2> QED BY <1>2, <2>1, <1>0 DEF ArriveEnd, Arrive, Idle
<1>3. ASSUME NEW r \in Requests, ArriveStart(r) PROVE FALSE
    <2>1. r = e BY <1>3, <1>0 DEF ArriveStart, Arrive
    <2> QED BY <1>3, <2>1, <1>0 DEF ArriveStart, Arrive, Idle
<1>4. ASSUME NEW r \in Requests, ArriveOnTask(r) PROVE FALSE
    <2>1. r = e BY <1>4, <1>0 DEF ArriveOnTask, Arrive
    <2> QED BY <1>4, <2>1, <1>0 DEF ArriveOnTask, Arrive, Idle
<1>5. ~ Crash BY <1>0 DEF Crash, Live
<1>6. ASSUME NEW r \in Requests, Step(r) \/ Fail(r) \/ CountFails(r) PROVE FALSE
    <2>1. r = e \/ req'[e] = req[e]
        BY <1>6, <1>0 DEF Step, Fail, CountFails, Compose, StartSession, Admit, LoadTask, Grade,
            ReadSRS, SaveSRS, DeferTask, LogAttempt, Refuse, EndSession, Summarise, Goto
    <2>2. req[r].pc # "idle"
        BY <1>6 DEF Step, Fail, CountFails, Compose, StartSession, Admit, LoadTask, Grade, Live,
            ReadSRS, SaveSRS, DeferTask, LogAttempt, Refuse, Refused, EndSession, Summarise
    <2> QED BY <2>1, <2>2
<1> QED
    BY <1>1, <1>2, <1>3, <1>4, <1>5, <1>6
    DEF Next, vars, FlagTask, DeleteTask, DeleteUser, Tick

\* An answered request stays as it is.
LEMMA AckedKeep ==
    ASSUME TypeOK, [Next]_vars, NEW r \in Requests, req[r].pc = "ok"
    PROVE  req'[r].pc = "ok" /\ SameCall(r)
BY AllKeep DEF Keeps

LEMMA SummaryNext ==
    TypeOK /\ RouteInv /\ AckedInv /\ SummaryInv /\ [Next]_vars => SummaryInv'
<1> SUFFICES ASSUME TypeOK, RouteInv, AckedInv, SummaryInv, [Next]_vars,
                    NEW e \in Requests, req'[e].op = "end", req'[e].pc # "idle"
             PROVE  /\ \A r \in req'[e].before :
                          /\ r \in Requests /\ req'[r].pc = "ok" /\ req'[r].op \in GradedOps
                          /\ req'[r].sid = req'[e].sid
                    /\ req'[e].pc = "ok" =>
                          \A r \in req'[e].before :
                             req'[r].user = req'[e].user /\ Lasting(r)' => r \in req'[e].counted
    BY DEF SummaryInv
<1>1. CASE req[e].pc = "idle"
    <2>1. req'[e].before = Acked(req'[e].sid) /\ req'[e].pc = "close" BY <1>1, Ending
    <2>2. ASSUME NEW r \in Acked(req'[e].sid)
          PROVE  /\ r \in Requests /\ req'[r].pc = "ok" /\ req'[r].op \in GradedOps
                 /\ req'[r].sid = req'[e].sid
        BY AckedKeep DEF Acked, SameCall
    <2> QED BY <2>1, <2>2
<1>2. CASE req[e].pc # "idle"
    <2>1. Keeps(e) BY <1>2, AllKeep
    <2>2. /\ req'[e].before = req[e].before /\ req[e].op = "end"
          /\ req'[e].user = req[e].user /\ req'[e].sid = req[e].sid
        BY <2>1 DEF Keeps, SameCall
    <2>3. \A r \in req[e].before :
             /\ r \in Requests /\ req[r].pc = "ok" /\ req[r].op \in GradedOps
             /\ req[r].sid = req[e].sid
        BY <1>2, <2>2 DEF SummaryInv
    <2>4. \A r \in req[e].before : req'[r].pc = "ok" /\ SameCall(r) BY <2>3, AckedKeep
    <2>5. \A r : SameCall(r) /\ Lasting(r)' => Lasting(r)
        BY AccountsGo DEF SameCall, Lasting
    <2>6. ASSUME req'[e].pc = "ok", NEW r \in req[e].before,
                 req'[r].user = req'[e].user, Lasting(r)'
          PROVE  r \in req'[e].counted
        <3>1. req[r].user = req[e].user /\ Lasting(r)
            BY <2>2, <2>4, <2>5, <2>6 DEF SameCall
        <3>2. CASE req[e].pc = "ok"
            <4>1. req'[e].counted = req[e].counted BY <2>1, <3>2 DEF Keeps
            <4> QED BY <3>1, <3>2, <4>1, <1>2, <2>2, <2>6 DEF SummaryInv
        <3>3. CASE req[e].pc # "ok"
            <4>1. Summarise(e)
                <5>1. RouteOK(req[e]) BY DEF RouteInv
                <5> QED BY <5>1, <2>2, <2>6, <3>3, Answering
                    DEF RouteOK, LogAttempt, Compose, StartSession, TaskPlaces, Admitted
            <4>2. req'[e].counted = Counted(req[e].user, req[e].sid)
                BY <4>1 DEF Summarise, TypeOK, Request
            <4>3. r \in attempts BY <2>3, <2>6, <3>1 DEF AckedInv
            <4> QED BY <2>3, <2>6, <3>1, <4>2, <4>3 DEF Counted
        <3> QED BY <3>2, <3>3
    <2> QED BY <2>2, <2>3, <2>4, <2>6 DEF SameCall
<1> QED BY <1>1, <1>2

\* A summary whose count query succeeded has every graded answer its user had been told
\* of before ending the session, whatever runs or is removed meanwhile, unless the
\* answer's task is gone.  (The handler ignores the error of a failed count: "blank".)
THEOREM SummaryComplete == Spec => []SummaryCountsAcked
<1>1. Init => OwnershipInv
    BY DEF Init, Idle, Admitted, OwnershipInv, AttemptsHaveOwners
<1>2. Init => RouteInv /\ AckedInv /\ SummaryInv
    BY DEF Init, Idle, RouteInv, RouteOK, TaskPlaces, Admitted, AckedInv, SummaryInv
<1>3. TypeOK /\ OwnershipInv /\ [Next]_vars => OwnershipInv' BY OwnNext
<1>4. TypeOK /\ RouteInv /\ [Next]_vars => RouteInv' BY RouteNext
<1>5. TypeOK /\ OwnershipInv /\ RouteInv /\ AckedInv /\ [Next]_vars => AckedInv'
    BY AckedNext
<1>6. TypeOK /\ RouteInv /\ AckedInv /\ SummaryInv /\ [Next]_vars => SummaryInv'
    BY SummaryNext
<1>7. SummaryInv => SummaryCountsAcked BY DEF SummaryInv, SummaryCountsAcked, Lasting
<1> QED BY <1>1, <1>2, <1>3, <1>4, <1>5, <1>6, <1>7, TypeCorrect, PTL DEF Spec

-----------------------------------------------------------------------------
(* Other accounts' data *)

\* What is a user's, each table by its own column.
SrsOf(u) == {k \in DOMAIN srs : k[1] = u}
AttemptsOf(u) == {a \in attempts : req[a].user = u}

LEMMA DataIs ==
    ASSUME OwnershipInv, NEW u
    PROVE  DataOf(u) = [sessions |-> [s \in SessionsOf(u) |-> sessions[s]],
                        srs      |-> [k \in SrsOf(u) |-> srs[k]],
                        attempts |-> AttemptsOf(u)]
<1>1. {a \in attempts : sessions[req[a].sid].user = u} = AttemptsOf(u)
    BY DEF OwnershipInv, AttemptsHaveOwners, AttemptsOf
<1> QED BY <1>1 DEF DataOf, SrsOf

\* The three tables, as far as they are a user's.
Same(u) ==
    /\ SessionsOf(u)' = SessionsOf(u)
    /\ \A s \in SessionsOf(u) : sessions'[s] = sessions[s]
    /\ SrsOf(u)' = SrsOf(u)
    /\ \A k \in SrsOf(u) : srs'[k] = srs[k]
    /\ AttemptsOf(u)' = AttemptsOf(u)

LEMMA SameData ==
    ASSUME OwnershipInv, OwnershipInv', NEW u, Same(u)
    PROVE  DataOf(u)' = DataOf(u)
<1>1. DataOf(u)' = [sessions |-> [s \in SessionsOf(u)' |-> sessions'[s]],
                    srs      |-> [k \in SrsOf(u)' |-> srs'[k]],
                    attempts |-> AttemptsOf(u)']
    <2>1. {a \in attempts' : sessions'[req'[a].sid].user = u} = AttemptsOf(u)'
        BY DEF OwnershipInv, AttemptsHaveOwners, AttemptsOf
    <2> QED BY <2>1 DEF DataOf, SrsOf
<1>2. [s \in SessionsOf(u)' |-> sessions'[s]] = [s \in SessionsOf(u) |-> sessions[s]]
    BY DEF Same
<1>3. [k \in SrsOf(u)' |-> srs'[k]] = [k \in SrsOf(u) |-> srs[k]]
    BY DEF Same
<1> QED BY <1>1, <1>2, <1>3, DataIs DEF Same

LEMMA UntouchedSame ==
    ASSUME TypeOK, OwnershipInv, [Next]_vars, NEW u \in Users, Untouched(u)
    PROVE  Same(u)
<1>0. req \in [Requests -> Request] BY DEF TypeOK
<1>1. \A a \in attempts : a \in Requests /\ req'[a].user = req[a].user
    BY AckedKeep DEF OwnershipInv, TypeOK, SameCall
<1>a. ASSUME UNCHANGED <<sessions, srs, attempts>> PROVE Same(u)
    BY <1>a, <1>1 DEF Same, SessionsOf, SrsOf, AttemptsOf
\* A request under way moves, and so is another user's.
<1>b. ASSUME NEW r \in Requests, req'[r] # req[r] PROVE req[r].user # u
    BY <1>b DEF Untouched
<1>2. CASE UNCHANGED vars BY <1>2, <1>a DEF vars, rows
<1>3. ASSUME NEW r \in Requests, StartSession(r) PROVE Same(u)
    <2>1. req'[r] # req[r]
        <3>1. Moves(r, {"ok"}) BY <1>3, GotoMoves DEF StartSession, PCs
        <3> QED BY <3>1, <1>3 DEF Moves, StartSession
    <2>2. /\ nextSid \notin DOMAIN sessions
          /\ DOMAIN sessions' = DOMAIN sessions \cup {nextSid}
          /\ sessions'[nextSid].user # u
          /\ \A s \in DOMAIN sessions : sessions'[s] = sessions[s]
          /\ UNCHANGED <<srs, attempts>>
        BY <1>3, <2>1, <1>b, SessionsAssumption DEF StartSession, TypeOK
    <2>3. SessionsOf(u)' = SessionsOf(u) BY <2>2 DEF SessionsOf
    <2> QED BY <2>2, <2>3, <1>1 DEF Same, SessionsOf, SrsOf, AttemptsOf
<1>4. ASSUME NEW r \in Requests, EndSession(r) PROVE Same(u)
    <2>1. req'[r] # req[r]
        <3>1. Moves(r, {"count"}) BY <1>4, GotoMoves DEF EndSession, PCs, Live
        <3> QED BY <3>1, <1>4 DEF Moves, EndSession
    <2>2. req[r].user # u /\ UNCHANGED <<srs, attempts>>
        BY <1>4, <2>1, <1>b DEF EndSession
    <2>3. CASE SessionExists(req[r].user, req[r].sid)
        <3>1. /\ DOMAIN sessions' = DOMAIN sessions
              /\ sessions[req[r].sid].user # u
              /\ \A s \in DOMAIN sessions : /\ sessions'[s].user = sessions[s].user
                                            /\ s # req[r].sid => sessions'[s] = sessions[s]
            BY <1>4, <2>2, <2>3 DEF EndSession, SessionExists, TypeOK
        <3>2. SessionsOf(u)' = SessionsOf(u) BY <3>1 DEF SessionsOf
        <3>3. \A s \in SessionsOf(u) : sessions'[s] = sessions[s] BY <3>1 DEF SessionsOf
        <3> QED BY <2>2, <3>2, <3>3, <1>1 DEF Same, SrsOf, AttemptsOf
    <2>4. CASE ~ SessionExists(req[r].user, req[r].sid)
        BY <1>4, <2>2, <2>4, <1>a DEF EndSession
    <2> QED BY <2>3, <2>4
<1>5. ASSUME NEW r \in Requests, NEW row, srs' = Upsert(Key(r), row), req[r].user # u,
             UNCHANGED <<sessions, attempts>>
      PROVE  Same(u)
    <2>1. Key(r)[1] # u BY <1>5 DEF Key
    <2>2. SrsOf(u)' = SrsOf(u) /\ \A k \in SrsOf(u) : srs'[k] = srs[k]
        BY <1>5, <2>1 DEF Upsert, SrsOf
    <2> QED BY <1>5, <2>2, <1>1 DEF Same, SessionsOf, AttemptsOf
<1>6. ASSUME NEW r \in Requests, SaveSRS(r) PROVE Same(u)
    <2>1. req[r].user # u
        <3>1. req'[r].pc = "log" /\ req[r].pc = "save" BY <1>6, <1>0 DEF SaveSRS, Request
        <3> QED BY <3>1, <1>b
    <2>2. \E row : srs' = Upsert(Key(r), row) BY <1>6 DEF SaveSRS
    <2> QED BY <1>6, <2>1, <2>2, <1>5 DEF SaveSRS
<1>7. ASSUME NEW r \in Requests, DeferTask(r) PROVE Same(u)
    <2>1. req[r].user # u
        <3>1. req'[r].pc = "log" /\ req[r].pc = "defer" BY <1>7, <1>0 DEF DeferTask, Request
        <3> QED BY <3>1, <1>b
    <2> QED BY <1>7, <2>1, <1>5 DEF DeferTask
<1>8. ASSUME NEW r \in Requests, LogAttempt(r) PROVE Same(u)
    <2>1. Moves(r, {"ok"}) BY <1>8, GotoMoves DEF LogAttempt, PCs
    <2>2. req[r].user # u /\ req'[r].user # u
        BY <1>8, <2>1, <1>b DEF LogAttempt, Moves, SameCall
    <2>3. AttemptsOf(u)' = AttemptsOf(u) BY <1>8, <1>1, <2>2 DEF LogAttempt, AttemptsOf
    <2> QED BY <1>8, <2>3 DEF LogAttempt, Same, SessionsOf, SrsOf
<1>9. ASSUME NEW t \in Tasks, FlagTask(t) PROVE Same(u) BY <1>9, <1>a DEF FlagTask
<1>10. ASSUME NEW t \in Tasks, DeleteTask(t) PROVE FALSE
    BY <1>10 DEF DeleteTask, Untouched
<1>11. ASSUME NEW v \in Users, DeleteUser(v) PROVE Same(u)
    <2>1. v # u BY <1>11 DEF DeleteUser, Untouched
    <2>2. /\ \A s : s \in SessionsOf(u) => s \notin SessionsOf(v)
          /\ DOMAIN sessions' = DOMAIN sessions \ SessionsOf(v)
          /\ \A s \in DOMAIN sessions' : sessions'[s] = sessions[s]
        BY <1>11, <2>1 DEF DeleteUser, SessionsOf
    <2>3. SessionsOf(u)' = SessionsOf(u) /\ \A s \in SessionsOf(u) : sessions'[s] = sessions[s]
        BY <2>2 DEF SessionsOf
    <2>4. SrsOf(u)' = SrsOf(u) /\ \A k \in SrsOf(u) : srs'[k] = srs[k]
        BY <1>11, <2>1 DEF DeleteUser, SrsOf
    <2>5. \A a \in AttemptsOf(u) : req[a].sid \notin SessionsOf(v)
        BY <2>1 DEF AttemptsOf, OwnershipInv, AttemptsHaveOwners, SessionsOf
    <2>6. AttemptsOf(u)' = AttemptsOf(u)
        BY <1>11, <1>1, <2>1, <2>5 DEF DeleteUser, AttemptsOf
    <2> QED BY <2>3, <2>4, <2>6 DEF Same
<1>12. CASE Crash \/ Tick BY <1>12, <1>a DEF Crash, Tick, rows
<1> QED
    BY <1>a, <1>2, <1>3, <1>4, <1>6, <1>7, <1>8, <1>9, <1>10, <1>11, <1>12, Rowless
    DEF Next, Step, rows

\* No step of another account's requests, and no removal of another account, touches a
\* user's sessions, cards or attempts: the user_id in every statement.
THEOREM OthersUntouched == Spec => OwnRequestsOnly
<1>1. Init => OwnershipInv
    BY DEF Init, Idle, Admitted, OwnershipInv, AttemptsHaveOwners
<1>2. TypeOK /\ OwnershipInv /\ [Next]_vars => OwnershipInv' BY OwnNext
<1>3. TypeOK /\ OwnershipInv /\ OwnershipInv' /\ [Next]_vars =>
        [\A u \in Users : Untouched(u) => DataOf(u)' = DataOf(u)]_vars
    BY UntouchedSame, SameData
<1> QED BY <1>1, <1>2, <1>3, TypeCorrect, PTL DEF Spec, OwnRequestsOnly

-----------------------------------------------------------------------------
(* The session endpoints implement SessionLog *)

\* The three functions of the mapping (the substitution of Log in Sessions).
Phases ==
    [s \in Sids |->
        IF s \in DOMAIN sessions
        THEN IF sessions[s].ended = NotEnded THEN "open" ELSE "ended"
        ELSE IF s < nextSid THEN "gone" ELSE "none"]
AdmittedTo == [s \in Sids |-> {r \in Requests : req[r].sid = s /\ req[r].pc \in Admitted}]
Logs == [s \in Sids |-> {a \in attempts : req[a].sid = s}]

-----------------------------------------------------------------------------
(* What leaves a part of the log's state alone *)

LEMMA SamePhases ==
    ASSUME UNCHANGED <<sessions, nextSid>>
    PROVE  Phases' = Phases
BY DEF Phases

LEMMA SameAdmitted ==
    ASSUME \A x \in Requests :
              /\ req'[x].pc \in Admitted <=> req[x].pc \in Admitted
              /\ req[x].pc \in Admitted => req'[x].sid = req[x].sid
    PROVE  AdmittedTo' = AdmittedTo
<1>1. \A s \in Sids : {r \in Requests : req'[r].sid = s /\ req'[r].pc \in Admitted}
                    = {r \in Requests : req[r].sid = s /\ req[r].pc \in Admitted}
    OBVIOUS
<1> QED BY <1>1 DEF AdmittedTo

LEMMA SameLogs ==
    ASSUME attempts' = attempts, \A a \in attempts : req'[a].sid = req[a].sid
    PROVE  Logs' = Logs
<1>1. \A s \in Sids : {a \in attempts' : req'[a].sid = s} = {a \in attempts : req[a].sid = s}
    OBVIOUS
<1> QED BY <1>1 DEF Logs

\* No step gives an attempt another session: its request is over.
LEMMA AttemptsStay ==
    ASSUME TypeOK, OwnershipInv, NEW r \in Requests, NEW P, Moves(r, P)
    PROVE  \A a \in attempts : a \in Requests /\ req'[a].sid = req[a].sid
BY DEF TypeOK, Moves, SameCall

-----------------------------------------------------------------------------
(* The steps of the log, in terms of the mapping *)

LEMMA LogStutter ==
    ASSUME Phases' = Phases, AdmittedTo' = AdmittedTo, Logs' = Logs
    PROVE  UNCHANGED Log!vars
BY DEF Log!vars, Phases, AdmittedTo, Logs

LEMMA LogOpen ==
    ASSUME NEW s \in Sids, Phases[s] = "none",
           Phases' = [Phases EXCEPT ![s] = "open"],
           AdmittedTo' = AdmittedTo, Logs' = Logs
    PROVE  Log!Next
<1>1. Log!Open(s) BY DEF Log!Open, Phases, AdmittedTo, Logs
<1> QED BY <1>1 DEF Log!Next

LEMMA LogClose ==
    ASSUME NEW s \in Sids, Phases[s] = "open",
           Phases' = [Phases EXCEPT ![s] = "ended"],
           AdmittedTo' = AdmittedTo, Logs' = Logs
    PROVE  Log!Next
<1>1. Log!Close(s) BY DEF Log!Close, Phases, AdmittedTo, Logs
<1> QED BY <1>1 DEF Log!Next

LEMMA LogAdmit ==
    ASSUME NEW s \in Sids, NEW r \in Requests, Phases[s] = "open",
           AdmittedTo' = [AdmittedTo EXCEPT ![s] = @ \cup {r}],
           Phases' = Phases, Logs' = Logs
    PROVE  Log!Next
<1>1. Log!Admit(s, r) BY DEF Log!Admit, Phases, AdmittedTo, Logs
<1> QED BY <1>1 DEF Log!Next

LEMMA LogRecord ==
    ASSUME NEW s \in Sids, NEW r \in Requests, Phases[s] \in {"open", "ended"},
           r \in AdmittedTo[s],
           Logs' = [Logs EXCEPT ![s] = @ \cup {r}],
           AdmittedTo' = [AdmittedTo EXCEPT ![s] = @ \ {r}],
           Phases' = Phases
    PROVE  Log!Next
<1>1. Log!Record(s, r) BY DEF Log!Record, Phases, AdmittedTo, Logs
<1> QED BY <1>1 DEF Log!Next

LEMMA LogDrop ==
    ASSUME NEW R \in SUBSET Requests,
           AdmittedTo' = [s \in Sids |-> AdmittedTo[s] \ R],
           Phases' = Phases, Logs' = Logs
    PROVE  Log!Next
<1>1. Log!Drop(R) BY DEF Log!Drop, Phases, AdmittedTo, Logs
<1> QED BY <1>1 DEF Log!Next

LEMMA LogErase ==
    ASSUME NEW S \in SUBSET Sids, \A s \in S : Phases[s] \in {"open", "ended"},
           Phases' = [s \in Sids |-> IF s \in S THEN "gone" ELSE Phases[s]],
           Logs' = [s \in Sids |-> IF s \in S THEN {} ELSE Logs[s]],
           AdmittedTo' = AdmittedTo
    PROVE  Log!Next
<1>1. Log!Erase(S) BY DEF Log!Erase, Phases, AdmittedTo, Logs
<1> QED BY <1>1 DEF Log!Next

LEMMA LogExpunge ==
    ASSUME NEW R \in SUBSET Requests,
           Logs' = [s \in Sids |-> Logs[s] \ R],
           Phases' = Phases, AdmittedTo' = AdmittedTo
    PROVE  Log!Next
<1>1. Log!Expunge(R) BY DEF Log!Expunge, Phases, AdmittedTo, Logs
<1> QED BY <1>1 DEF Log!Next

-----------------------------------------------------------------------------
(* Every step of Sessions is a step of the log, or none *)

LogStep == Log!Next \/ UNCHANGED Log!vars

\* A request that moves between places that are both admitted, or both not.
LEMMA StepUnseen ==
    ASSUME TypeOK, OwnershipInv, NEW r \in Requests, NEW P, Moves(r, P),
           UNCHANGED <<sessions, nextSid, attempts>>,
           \/ req[r].pc \in Admitted /\ P \subseteq Admitted
           \/ req[r].pc \notin Admitted /\ P \cap Admitted = {}
    PROVE  LogStep
<1>1. Phases' = Phases BY SamePhases
<1>2. AdmittedTo' = AdmittedTo BY SameAdmitted DEF Moves, SameCall
<1>3. Logs' = Logs BY AttemptsStay, SameLogs
<1> QED BY <1>1, <1>2, <1>3, LogStutter DEF LogStep

\* A request that gives up.
LEMMA StepDrops ==
    ASSUME TypeOK, OwnershipInv, NEW r \in Requests, Moves(r, {"blank", "failed"}),
           UNCHANGED <<sessions, nextSid, attempts>>
    PROVE  LogStep
<1>1. Phases' = Phases BY SamePhases
<1>2. Logs' = Logs BY AttemptsStay, SameLogs
<1>3. \A s \in Sids : {x \in Requests : req'[x].sid = s /\ req'[x].pc \in Admitted}
                    = {x \in Requests : req[x].sid = s /\ req[x].pc \in Admitted} \ {r}
    BY DEF Moves, Admitted
<1>4. AdmittedTo' = [s \in Sids |-> AdmittedTo[s] \ {r}] BY <1>3 DEF AdmittedTo
<1> QED BY <1>1, <1>2, <1>4, LogDrop DEF LogStep

LEMMA StartOpens ==
    ASSUME TypeOK, OwnershipInv, NEW r \in Requests, StartSession(r)
    PROVE  LogStep
<1>1. Moves(r, {"ok"}) BY GotoMoves DEF StartSession, PCs
<1>2. /\ nextSid \in Sids /\ nextSid' = nextSid + 1 /\ nextSid \notin DOMAIN sessions
      /\ DOMAIN sessions' = DOMAIN sessions \cup {nextSid}
      /\ sessions'[nextSid].ended = NotEnded
      /\ \A s \in DOMAIN sessions : sessions'[s] = sessions[s]
    BY SessionsAssumption DEF StartSession, TypeOK, Sids
<1>3. Phases[nextSid] = "none" BY <1>2, SessionsAssumption DEF Phases, Sids
<1>4. ASSUME NEW s \in Sids
      PROVE  Phases'[s] = IF s = nextSid THEN "open" ELSE Phases[s]
    <2>1. s \in Int /\ nextSid \in Int BY <1>2, SessionsAssumption DEF Sids
    <2>2. s # nextSid => (s < nextSid' <=> s < nextSid) BY <1>2, <2>1
    <2> QED BY <1>2, <2>2 DEF Phases
<1>5. Phases' = [Phases EXCEPT ![nextSid] = "open"] BY <1>2, <1>4 DEF Phases
<1>6. AdmittedTo' = AdmittedTo
    BY <1>1, SameAdmitted DEF StartSession, Moves, SameCall, Admitted
<1>7. Logs' = Logs BY <1>1, AttemptsStay, SameLogs DEF StartSession
<1> QED BY <1>2, <1>3, <1>5, <1>6, <1>7, LogOpen DEF LogStep

LEMMA AdmitAdmits ==
    ASSUME TypeOK, OwnershipInv, NEW r \in Requests, Admit(r)
    PROVE  LogStep
<1>0. UNCHANGED <<sessions, nextSid, attempts>> /\ req[r].pc = "admit"
    BY DEF Admit, rows
<1>1. CASE SessionExists(req[r].user, req[r].sid)
    <2>1. Moves(r, {"load"}) BY <1>1, GotoMoves DEF Admit, PCs, Live
    <2>2. req[r].sid \in Sids /\ Phases[req[r].sid] = "open"
        BY <1>1, SessionsAssumption DEF SessionExists, TypeOK, Sids, Phases
    <2>3. \A s \in Sids :
             {x \in Requests : req'[x].sid = s /\ req'[x].pc \in Admitted}
             = IF s = req[r].sid
               THEN {x \in Requests : req[x].sid = s /\ req[x].pc \in Admitted} \cup {r}
               ELSE {x \in Requests : req[x].sid = s /\ req[x].pc \in Admitted}
        BY <1>0, <2>1 DEF Moves, SameCall, Admitted
    <2>4. AdmittedTo' = [AdmittedTo EXCEPT ![req[r].sid] = @ \cup {r}]
        BY <2>2, <2>3, ZenonT(60) DEF AdmittedTo
    <2>5. Phases' = Phases /\ Logs' = Logs
        BY <1>0, <2>1, SamePhases, SameLogs, AttemptsStay
    <2> QED BY <2>2, <2>4, <2>5, LogAdmit DEF LogStep
<1>2. CASE ~ SessionExists(req[r].user, req[r].sid)
    <2>1. Moves(r, {"failed"}) BY <1>2, GotoMoves DEF Admit, PCs
    <2> QED BY <1>0, <2>1, StepDrops DEF Moves
<1> QED BY <1>1, <1>2

LEMMA LogAttemptRecords ==
    ASSUME TypeOK, OwnershipInv, NEW r \in Requests, LogAttempt(r)
    PROVE  LogStep
<1>1. Moves(r, {"ok"}) BY GotoMoves DEF LogAttempt, PCs
<1>2. /\ UNCHANGED <<sessions, nextSid>> /\ attempts' = attempts \cup {r}
      /\ req[r].pc = "log" /\ req[r].sid \in DOMAIN sessions
    BY DEF LogAttempt, AttemptRefs
<1>3. req[r].sid \in Sids /\ Phases[req[r].sid] \in {"open", "ended"}
    BY <1>2, SessionsAssumption DEF TypeOK, Sids, Phases
<1>4. r \in AdmittedTo[req[r].sid] BY <1>2, <1>3 DEF AdmittedTo, Admitted
<1>5. \A s \in Sids : {a \in attempts' : req'[a].sid = s}
                    = IF s = req[r].sid THEN {a \in attempts : req[a].sid = s} \cup {r}
                      ELSE {a \in attempts : req[a].sid = s}
    BY <1>1, <1>2, AttemptsStay DEF Moves, SameCall
<1>6. Logs' = [Logs EXCEPT ![req[r].sid] = @ \cup {r}] BY <1>3, <1>5 DEF Logs
<1>7. \A s \in Sids :
         {x \in Requests : req'[x].sid = s /\ req'[x].pc \in Admitted}
         = IF s = req[r].sid
           THEN {x \in Requests : req[x].sid = s /\ req[x].pc \in Admitted} \ {r}
           ELSE {x \in Requests : req[x].sid = s /\ req[x].pc \in Admitted}
    BY <1>1, <1>2 DEF Moves, SameCall, Admitted
<1>8. AdmittedTo' = [AdmittedTo EXCEPT ![req[r].sid] = @ \ {r}]
    <2>1. AdmittedTo' = [s \in Sids |-> IF s = req[r].sid THEN AdmittedTo[s] \ {r}
                                        ELSE AdmittedTo[s]]
        BY <1>7 DEF AdmittedTo
    <2>2. DOMAIN AdmittedTo = Sids /\ AdmittedTo = [s \in Sids |-> AdmittedTo[s]]
        BY DEF AdmittedTo
    <2> QED BY <1>3, <2>1, <2>2
<1> QED BY <1>2, <1>3, <1>4, <1>6, <1>8, SamePhases, LogRecord DEF LogStep

LEMMA EndCloses ==
    ASSUME TypeOK, OwnershipInv, NEW r \in Requests, EndSession(r)
    PROVE  LogStep
<1>1. Moves(r, {"count"}) BY GotoMoves DEF EndSession, PCs, Live
<1>2. UNCHANGED <<nextSid, attempts>> /\ req[r].pc = "close" BY DEF EndSession
<1>3. AdmittedTo' = AdmittedTo
    BY <1>1, <1>2, SameAdmitted DEF Moves, SameCall, Admitted
<1>4. Logs' = Logs BY <1>1, <1>2, AttemptsStay, SameLogs
<1>5. CASE SessionExists(req[r].user, req[r].sid)
    <2>1. req[r].sid \in Sids /\ Phases[req[r].sid] = "open"
        BY <1>5, SessionsAssumption DEF SessionExists, TypeOK, Sids, Phases
    <2>2. /\ DOMAIN sessions' = DOMAIN sessions
          /\ sessions'[req[r].sid].ended = now /\ now # NotEnded
          /\ \A s \in DOMAIN sessions : s # req[r].sid => sessions'[s] = sessions[s]
        BY <1>5, SessionsAssumption DEF EndSession, SessionExists, TypeOK, NotEnded
    <2>3. \A s \in Sids : Phases'[s] = IF s = req[r].sid THEN "ended" ELSE Phases[s]
        BY <1>2, <1>5, <2>2 DEF Phases, SessionExists
    <2>4. Phases' = [Phases EXCEPT ![req[r].sid] = "ended"] BY <2>1, <2>3 DEF Phases
    <2> QED BY <1>3, <1>4, <2>1, <2>4, LogClose DEF LogStep
<1>6. CASE ~ SessionExists(req[r].user, req[r].sid)
    <2>1. sessions' = sessions BY <1>6 DEF EndSession
    <2> QED BY <1>2, <1>3, <1>4, <2>1, SamePhases, LogStutter DEF LogStep
<1> QED BY <1>5, <1>6

LEMMA HandlerLogs ==
    ASSUME TypeOK, OwnershipInv, NEW r \in Requests, Step(r)
    PROVE  LogStep
<1> USE DEF rows, history
<1>0. req \in [Requests -> Request] /\ req[r] \in Request BY DEF TypeOK
<1>1. CASE Compose(r)
    <2>1. Moves(r, {"insert", "ok"}) BY <1>1, GotoMoves DEF Compose, PCs, Live, Moves
    <2> QED BY <1>1, <2>1, StepUnseen DEF Compose, Admitted
<1>2. CASE LoadTask(r)
    <2>1. CASE Goto(r, "failed")
        <3>1. Moves(r, {"failed"}) BY <2>1, GotoMoves DEF PCs
        <3> QED BY <1>2, <3>1, StepDrops DEF Moves, LoadTask
    <2>2. CASE Goto(r, "grade")
        <3>1. Moves(r, {"grade"}) BY <2>2, GotoMoves DEF PCs, Live
        <3> QED BY <1>2, <3>1, StepUnseen DEF LoadTask, Admitted
    <2>3. CASE req' = [req EXCEPT ![r].pc = "defer", ![r].at = now]
        <3>1. Moves(r, {"defer"}) BY <2>3, <1>0 DEF Moves, SameCall, Request
        <3> QED BY <1>2, <3>1, StepUnseen DEF LoadTask, Admitted
    <2> QED BY <1>2, <2>1, <2>2, <2>3 DEF LoadTask
<1>3. CASE Grade(r)
    <2>1. Moves(r, {"srs"}) BY <1>3, <1>0 DEF Grade, Moves, SameCall, Request
    <2> QED BY <1>3, <2>1, StepUnseen DEF Grade, Admitted
<1>4. CASE ReadSRS(r)
    <2>1. Moves(r, {"save"}) BY <1>4, <1>0 DEF ReadSRS, Moves, SameCall, Request
    <2> QED BY <1>4, <2>1, StepUnseen DEF ReadSRS, Admitted
<1>5. CASE SaveSRS(r)
    <2>1. Moves(r, {"log"}) BY <1>5, <1>0 DEF SaveSRS, Moves, SameCall, Request
    <2> QED BY <1>5, <2>1, StepUnseen DEF SaveSRS, Admitted
<1>6. CASE DeferTask(r)
    <2>1. Moves(r, {"log"}) BY <1>6, <1>0 DEF DeferTask, Moves, SameCall, Request
    <2> QED BY <1>6, <2>1, StepUnseen DEF DeferTask, Admitted
<1>7. CASE Refuse(r)
    <2>1. Moves(r, {"failed"}) BY <1>7, GotoMoves DEF Refuse, PCs
    <2> QED BY <1>7, <2>1, StepDrops DEF Moves, Refuse
<1>8. CASE Summarise(r)
    <2>1. Moves(r, {"ok"}) BY <1>8, <1>0 DEF Summarise, Moves, SameCall, Request
    <2> QED BY <1>8, <2>1, StepUnseen DEF Summarise, Admitted
<1> QED
    BY <1>1, <1>2, <1>3, <1>4, <1>5, <1>6, <1>7, <1>8,
       StartOpens, AdmitAdmits, LogAttemptRecords, EndCloses DEF Step

\* A request that arrives is not admitted yet, and stays out of every log.
LEMMA ArrivalUnseen ==
    ASSUME TypeOK, OwnershipInv, NEW r \in Requests,
           ArriveStart(r) \/ ArriveEnd(r) \/ ArriveOnTask(r)
    PROVE  LogStep
<1>1. PICK c : Arrival(c) /\ Arrive(r, c) BY Arrivals
<1>2. /\ req[r].pc = "idle"
      /\ req'[r].pc \in {"compose", "close", "admit"}
      /\ \A x \in Requests \ {r} : req'[x] = req[x]
      /\ UNCHANGED <<sessions, nextSid, attempts>>
    BY <1>1 DEF Arrival, Arrive, Idle, TypeOK, rows
<1>3. AdmittedTo' = AdmittedTo BY <1>2, SameAdmitted DEF Admitted
<1>4. \A a \in attempts : a \in Requests /\ a # r BY <1>2 DEF OwnershipInv, TypeOK
<1>5. Logs' = Logs BY <1>2, <1>4, SameLogs
<1> QED BY <1>2, <1>3, <1>5, SamePhases, LogStutter DEF LogStep

LEMMA CrashDrops ==
    ASSUME TypeOK, OwnershipInv, Crash
    PROVE  LogStep
<1>1. \A x \in Requests :
          \/ req[x].pc \in Live /\ req'[x].pc = "failed"
          \/ req'[x] = req[x] /\ req'[x].pc \notin Live
    BY MovedFields DEF Crash, TypeOK, PCs
<1>2. UNCHANGED <<sessions, nextSid, attempts>> BY DEF Crash, rows
<1>3. \A a \in attempts : req'[a] = req[a] BY <1>1 DEF OwnershipInv, TypeOK, Live
<1>4. \A s \in Sids : {x \in Requests : req'[x].sid = s /\ req'[x].pc \in Admitted} = {}
    BY <1>1 DEF Admitted, Live
<1>5. \A s \in Sids : AdmittedTo[s] \ Requests = {} BY DEF AdmittedTo
<1>6. AdmittedTo' = [s \in Sids |-> AdmittedTo[s] \ Requests]
    BY <1>4, <1>5 DEF AdmittedTo
<1> QED BY <1>2, <1>3, <1>6, SamePhases, SameLogs, LogDrop DEF LogStep

\* The attempts at the removed user's sessions are the removed user's.
LEMMA RemovalErases ==
    ASSUME TypeOK, OwnershipInv, NEW u \in Users, DeleteUser(u)
    PROVE  LogStep
<1>1. /\ sessions' = [s \in DOMAIN sessions \ SessionsOf(u) |-> sessions[s]]
      /\ attempts' = {a \in attempts : req[a].user # u /\ req[a].sid \notin SessionsOf(u)}
      /\ UNCHANGED <<nextSid, req>>
    BY DEF DeleteUser
<1>2. \A s \in SessionsOf(u) : s \in Sids /\ s \in DOMAIN sessions /\ s < nextSid
    BY SessionsAssumption DEF SessionsOf, TypeOK, Sids
<1>3. \A s \in SessionsOf(u) : Phases[s] \in {"open", "ended"} BY <1>2 DEF Phases
<1>4. \A s \in Sids : Phases'[s] = IF s \in SessionsOf(u) THEN "gone" ELSE Phases[s]
    BY <1>1, <1>2 DEF Phases
<1>5. Phases' = [s \in Sids |-> IF s \in SessionsOf(u) THEN "gone" ELSE Phases[s]]
    BY <1>4 DEF Phases
<1>6. \A a \in attempts : req[a].user = u => req[a].sid \in SessionsOf(u)
    BY DEF OwnershipInv, AttemptsHaveOwners, SessionsOf
<1>7. \A s \in Sids : {a \in attempts' : req'[a].sid = s}
                    = IF s \in SessionsOf(u) THEN {}
                      ELSE {a \in attempts : req[a].sid = s}
    BY <1>1, <1>6
<1>8. Logs' = [s \in Sids |-> IF s \in SessionsOf(u) THEN {} ELSE Logs[s]]
    BY <1>7 DEF Logs
<1>9. AdmittedTo' = AdmittedTo BY <1>1 DEF AdmittedTo
<1> QED BY <1>2, <1>3, <1>5, <1>8, <1>9, LogErase DEF LogStep

LEMMA TaskRemovalExpunges ==
    ASSUME TypeOK, OwnershipInv, NEW t \in Tasks, FlagTask(t) \/ DeleteTask(t)
    PROVE  LogStep
<1>1. UNCHANGED <<sessions, nextSid, req>> /\ attempts' \subseteq attempts
    BY DEF FlagTask, DeleteTask
<1>2. Phases' = Phases /\ AdmittedTo' = AdmittedTo BY <1>1 DEF Phases, AdmittedTo
<1>3. attempts \ attempts' \in SUBSET Requests BY DEF TypeOK
<1>4. \A s \in Sids : {a \in attempts' : req'[a].sid = s}
                    = {a \in attempts : req[a].sid = s} \ (attempts \ attempts')
    BY <1>1
<1>5. Logs' = [s \in Sids |-> Logs[s] \ (attempts \ attempts')] BY <1>4 DEF Logs
<1> QED BY <1>2, <1>3, <1>5, LogExpunge DEF LogStep

LEMMA LogStepNext == TypeOK /\ OwnershipInv /\ [Next]_vars => [Log!Next]_(Log!vars)
<1> SUFFICES ASSUME TypeOK, OwnershipInv, [Next]_vars PROVE LogStep
    BY DEF LogStep
<1>1. ASSUME UNCHANGED <<sessions, nextSid, req, attempts>> PROVE LogStep
    BY <1>1, LogStutter DEF LogStep, Phases, AdmittedTo, Logs
<1>2. CASE UNCHANGED vars BY <1>1, <1>2 DEF vars, rows
<1>3. CASE Tick BY <1>1, <1>3 DEF Tick, rows
<1>4. ASSUME NEW r \in Requests, Fail(r) \/ CountFails(r) PROVE LogStep
    <2>1. Moves(r, {"blank", "failed"})
        BY <1>4, GotoMoves DEF Fail, CountFails, PCs, Moves
    <2> QED BY <1>4, <2>1, StepDrops DEF Fail, CountFails, rows
<1> QED
    BY <1>2, <1>3, <1>4, HandlerLogs, ArrivalUnseen, CrashDrops, RemovalErases,
       TaskRemovalExpunges DEF Next

LEMMA LogInit == Init => Log!Init
<1> SUFFICES ASSUME Init PROVE Log!Init
    OBVIOUS
<1>1. DOMAIN sessions = {} /\ nextSid = 1 /\ attempts = {} BY DEF Init
<1>2. \A r \in Requests : req[r].pc = "idle" BY DEF Init, Idle
<1>3. Phases = [s \in Sids |-> "none"]
    BY <1>1, SessionsAssumption DEF Phases, Sids
<1>4. \A s \in Sids : {r \in Requests : req[r].sid = s /\ req[r].pc \in Admitted} = {}
    BY <1>2 DEF Admitted
<1>5. AdmittedTo = [s \in Sids |-> {}] BY <1>4 DEF AdmittedTo
<1>6. \A s \in Sids : {a \in attempts : req[a].sid = s} = {} BY <1>1
<1>7. Logs = [s \in Sids |-> {}] BY <1>6 DEF Logs
<1> QED BY <1>3, <1>5, <1>7 DEF Log!Init, Phases, AdmittedTo, Logs

\* The endpoints implement the session log: a session opens and closes at most once,
\* and after the close only requests admitted before it still add to its attempts.
THEOREM LogImplemented == Spec => LogSpec
<1>1. Init => OwnershipInv
    BY DEF Init, Idle, Admitted, OwnershipInv, AttemptsHaveOwners
<1>2. TypeOK /\ OwnershipInv /\ [Next]_vars => OwnershipInv' BY OwnNext
<1>3. TypeOK /\ OwnershipInv /\ [Next]_vars => [Log!Next]_(Log!vars) BY LogStepNext
<1> QED BY <1>1, <1>2, <1>3, LogInit, TypeCorrect, PTL DEF Spec, LogSpec, Log!Spec
=============================================================================
