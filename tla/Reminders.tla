------------------------------ MODULE Reminders -----------------------------
(***************************************************************************)
(* Push subscriptions and reminders: internal/push/scheduler.go and the    *)
(* handlers of internal/server/push.go.  The scheduler's loop and every    *)
(* POST /api/push/test run the same fire(), each over the rows it read at  *)
(* its start; every SQL statement is a step, and between any two of them   *)
(* other fires, re-subscriptions and removals come.  A statement that      *)
(* fails is logged and passed over.  A device is its endpoint; keys, the   *)
(* user agent and times are left out.  VAPID keys and at least one valid   *)
(* reminder time are configured (without them the loop never starts).      *)
(***************************************************************************)
EXTENDS Integers, FiniteSets

CONSTANTS
    Users,     \* accounts
    Endpoints, \* devices
    Loop,      \* the scheduler's goroutine
    Tests,     \* requests of /api/push/test, each made once
    None,      \* no row, no slot
    Slots,     \* reminder_times, as ticks since midnight
    DayLen,    \* ticks in a day
    MaxNow,    \* bound: the clock stops here
    MaxId      \* bound: push_subs rows ever made

ASSUME RemindersAssumption ==
    /\ IsFiniteSet(Tests) /\ Loop \notin Tests
    /\ DayLen \in Nat \ {0}
    /\ Slots \subseteq 0 .. DayLen - 1 /\ Slots # {}
    /\ None \notin Nat
    /\ MaxNow \in Nat /\ MaxId \in Nat

VARIABLES
    subs,    \* push_subs rows: id -> endpoint, user and failures
    nextId,  \* the id the next row gets (AUTOINCREMENT)
    up,      \* whether the server runs
    now,     \* the clock
    wake,    \* the slot the loop's timer is set to
    fire,    \* the fires: pc, the rows left to send to and the current one
    since,   \* history: when the loop last chose a slot
    strikes, \* history: failed sends to a row since an OK was last recorded
    fired,   \* history: how often the loop fired for each slot
    lost     \* history: the rows whose removal did not run

table == <<subs, nextId>>
timer == <<up, now, wake, since, fired>>
history == <<strikes, lost>>
vars == <<table, timer, fire, history>>

Firers == Tests \cup {Loop}
Ids == 1 .. MaxId
Active == {"query", "send", "ok", "bump", "drop"}
Idle == [pc |-> "idle", row |-> None, todo |-> {}]

-----------------------------------------------------------------------------
(* nextSlot *)

Midnight(t) == t - (t % DayLen)
SlotsOn(day) == {day + s : s \in Slots}

\* Mutant: the comparison is the wrong way round.
Latest(T) == CHOOSE t \in T : \A x \in T : t >= x

Earliest(T) == CHOOSE t \in T : \A x \in T : t <= x

\* Mutant: nothing rolls over to tomorrow.
NextSlotToday(t) ==
    LET left == {x \in SlotsOn(Midnight(t)) : x > t}
    IN  IF left # {} THEN Earliest(left) ELSE None

\* Mutant: a slot is still to come while it lasts.
NextSlotNotBefore(t) ==
    LET left == {x \in SlotsOn(Midnight(t)) : x >= t}
    IN  IF left # {} THEN Earliest(left) ELSE Earliest(SlotsOn(Midnight(t) + DayLen))

NextSlot(t) ==
    LET left == {x \in SlotsOn(Midnight(t)) : x > t}
    IN  IF left # {} THEN Earliest(left) ELSE Earliest(SlotsOn(Midnight(t) + DayLen))

Horizon == 0 .. MaxNow + 2 * DayLen

-----------------------------------------------------------------------------
Init ==
    /\ subs = <<>>
    /\ nextId = 1
    /\ up = FALSE
    /\ now = 0
    /\ wake = None
    /\ fire = [f \in Firers |-> Idle]
    /\ since = 0
    /\ strikes = [id \in Ids |-> 0]
    /\ fired = [t \in Horizon |-> 0]
    /\ lost = {}

-----------------------------------------------------------------------------
(* The server and its clock *)

\* A loop that starts, or has fired, sets its timer from the clock alone.
Rest == wake' = NextSlot(now) /\ since' = now

Boot ==
    /\ ~ up
    /\ up' = TRUE
    /\ Rest
    /\ UNCHANGED <<table, now, fired, fire, history>>

\* The server stops, whatever is under way: fires are cut short by their context.
Down ==
    /\ up
    /\ up' = FALSE
    /\ wake' = None
    /\ fire' = [f \in Firers |->
                   IF f = Loop THEN Idle
                   ELSE IF fire[f].pc \in Active THEN [Idle EXCEPT !.pc = "done"]
                   ELSE fire[f]]
    /\ lost' = lost \cup {fire[f].row : f \in {g \in Firers : fire[g].pc = "drop"}}
    /\ UNCHANGED <<table, now, since, fired, strikes>>

Tick ==
    /\ now < MaxNow
    /\ now' = now + 1
    /\ UNCHANGED <<table, up, wake, since, fired, fire, history>>

-----------------------------------------------------------------------------
(* The handlers.  A request authenticated before its user was removed may     *)
(* still run its statement.                                                   *)

RowsOf(e) == {id \in DOMAIN subs : subs[id].endpoint = e}

\* ON CONFLICT: the row goes to the current user; its failures stay.
Subscribe(u, e) ==
    /\ up
    /\ IF RowsOf(e) # {}
       THEN /\ subs' = [id \in DOMAIN subs |->
                           IF id \in RowsOf(e) THEN [subs[id] EXCEPT !.user = u]
                           ELSE subs[id]]
            /\ UNCHANGED nextId
       ELSE /\ nextId <= MaxId
            /\ subs' = [id \in DOMAIN subs \cup {nextId} |->
                           IF id = nextId THEN [endpoint |-> e, user |-> u, failures |-> 0]
                           ELSE subs[id]]
            /\ nextId' = nextId + 1
    /\ UNCHANGED <<timer, fire, history>>

Without(S) == [id \in DOMAIN subs \ S |-> subs[id]]

Unsubscribe(u, e) ==
    /\ up
    /\ subs' = Without({id \in RowsOf(e) : subs[id].user = u})
    /\ UNCHANGED <<nextId, timer, fire, history>>

\* The CLI: DeleteUserByName, of which push_subs is one of five tables.
RemoveUser(u) ==
    /\ subs' = Without({id \in DOMAIN subs : subs[id].user = u})
    /\ UNCHANGED <<nextId, timer, fire, history>>

TestFire(t) ==
    /\ up
    /\ fire[t] = Idle
    /\ fire' = [fire EXCEPT ![t].pc = "query"]
    /\ UNCHANGED <<table, timer, history>>

-----------------------------------------------------------------------------
(* fire *)

\* The loop's timer; it may be late.
WakeUp ==
    /\ up
    /\ fire[Loop].pc = "idle"
    /\ now >= wake
    /\ fire' = [fire EXCEPT ![Loop].pc = "query"]
    /\ fired' = [fired EXCEPT ![wake] = @ + 1]
    /\ UNCHANGED <<table, up, now, wake, since, history>>

\* The end of a fire: the loop rests, a test has its answer.
Finish(f) ==
    /\ fire' = [fire EXCEPT ![f] = IF f = Loop THEN Idle ELSE [Idle EXCEPT !.pc = "done"]]
    /\ IF f = Loop THEN Rest ELSE UNCHANGED <<wake, since>>
    /\ UNCHANGED <<up, now, fired>>

\* SELECT of all subscriptions, of every user; its failure ends the fire, except that
\* rows.Err() is not looked at: a list cut short is taken for the whole.
Query(f) ==
    /\ fire[f].pc = "query"
    /\ \/ /\ \E ids \in SUBSET DOMAIN subs :
                fire' = [fire EXCEPT ![f].pc = "send", ![f].todo = ids]
          /\ UNCHANGED timer
       \/ Finish(f)
    /\ UNCHANGED <<table, history>>

\* The push service answers 2xx, or anything else (an error, 404, 410, 5xx).
Send(f) ==
    /\ fire[f].pc = "send"
    /\ \E id \in fire[f].todo, ok \in BOOLEAN :
          /\ fire' = [fire EXCEPT ![f] = [pc |-> IF ok THEN "ok" ELSE "bump", row |-> id,
                                          todo |-> @.todo \ {id}]]
          /\ strikes' = IF ok THEN strikes ELSE [strikes EXCEPT ![id] = @ + 1]
    /\ UNCHANGED <<table, timer, lost>>

AllSent(f) ==
    /\ fire[f].pc = "send"
    /\ fire[f].todo = {}
    /\ Finish(f)
    /\ UNCHANGED <<table, history>>

Counting(id, n) ==
    [x \in DOMAIN subs |-> IF x = id THEN [subs[x] EXCEPT !.failures = n] ELSE subs[x]]

GoOn(f, pc) == fire' = [fire EXCEPT ![f].pc = pc, ![f].row = IF pc = "send" THEN None ELSE @]

\* The failed sends to a row whose count is still to come.
Pending(id) == {f \in Firers : fire[f].pc = "bump" /\ fire[f].row = id}

\* Mutant: a success is noted, its failures are not forgotten.
MarkOKKeeps(f) ==
    /\ fire[f].pc = "ok"
    /\ strikes' = [strikes EXCEPT ![fire[f].row] = Cardinality(Pending(fire[f].row))]
    /\ GoOn(f, "send")
    /\ UNCHANGED <<table, timer, lost>>

MarkOK(f) ==
    /\ fire[f].pc = "ok"
    /\ subs' = Counting(fire[f].row, 0)
    /\ strikes' = [strikes EXCEPT ![fire[f].row] = Cardinality(Pending(fire[f].row))]
    /\ GoOn(f, "send")
    /\ UNCHANGED <<nextId, timer, lost>>

\* bumpFailure, its first statement.
BumpFailure(f) ==
    /\ fire[f].pc = "bump"
    /\ LET id == fire[f].row IN
          subs' = IF id \in DOMAIN subs THEN Counting(id, subs[id].failures + 1) ELSE subs
    /\ GoOn(f, "drop")
    /\ UNCHANGED <<nextId, timer, history>>

\* Mutant: off by one.
DropDeadLate(f) ==
    /\ fire[f].pc = "drop"
    /\ subs' = Without({id \in DOMAIN subs : id = fire[f].row /\ subs[id].failures > 3})
    /\ GoOn(f, "send")
    /\ UNCHANGED <<nextId, timer, history>>

\* bumpFailure, its second statement.
DropDead(f) ==
    /\ fire[f].pc = "drop"
    /\ subs' = Without({id \in DOMAIN subs : id = fire[f].row /\ subs[id].failures >= 3})
    /\ GoOn(f, "send")
    /\ UNCHANGED <<nextId, timer, history>>

\* A statement fails, and the fire goes on with what follows it.
StatementFails(f) ==
    /\ fire[f].pc \in {"ok", "bump", "drop"}
    /\ GoOn(f, IF fire[f].pc = "bump" THEN "drop" ELSE "send")
    /\ lost' = IF fire[f].pc = "drop" THEN lost \cup {fire[f].row} ELSE lost
    /\ UNCHANGED <<table, timer, strikes>>

\* A test's client goes away: no later send or statement of it succeeds or counts.
Abandon(t) ==
    /\ fire[t].pc \in Active
    /\ fire' = [fire EXCEPT ![t] = [Idle EXCEPT !.pc = "done"]]
    /\ lost' = IF fire[t].pc = "drop" THEN lost \cup {fire[t].row} ELSE lost
    /\ UNCHANGED <<table, timer, strikes>>

-----------------------------------------------------------------------------
Step(f) ==
    \/ Query(f) \/ Send(f) \/ AllSent(f)
    \/ MarkOK(f) \/ BumpFailure(f) \/ DropDead(f) \/ StatementFails(f)

Next ==
    \/ Boot \/ Down \/ Tick \/ WakeUp
    \/ \E u \in Users, e \in Endpoints : Subscribe(u, e) \/ Unsubscribe(u, e)
    \/ \E u \in Users : RemoveUser(u)
    \/ \E t \in Tests : TestFire(t) \/ Abandon(t)
    \/ \E f \in Firers : Step(f)

Spec == Init /\ [][Next]_vars
-----------------------------------------------------------------------------
(* What must hold *)

\* Rows and fires have their shape, and a running loop has a slot to wait for.
TypeOK ==
    /\ DOMAIN subs \subseteq 1 .. nextId - 1
    /\ \A id \in DOMAIN subs :
          subs[id] \in [endpoint : Endpoints, user : Users, failures : Nat]
    /\ nextId \in 1 .. MaxId + 1
    /\ up \in BOOLEAN
    /\ now \in 0 .. MaxNow
    /\ wake \in IF up THEN Horizon ELSE {None}
    /\ fire \in [Firers -> [pc : Active \cup {"idle", "done"}, row : Ids \cup {None},
                            todo : SUBSET Ids]]
    /\ since \in 0 .. MaxNow
    /\ strikes \in [Ids -> Nat]
    /\ fired \in [Horizon -> Nat]
    /\ lost \subseteq Ids

\* scheduler.go: "a restart neither double-fires": no slot is fired for twice, by
\* whatever restarts, late timers and fires that outlast slots come between.
SlotFiresOnce == \A t \in Horizon : fired[t] <= 1

\* The loop waits for the first slot after the moment it chose one: none between is
\* passed over, across midnight too.
NoSlotPassedOver ==
    up => \A t \in since + 1 .. wake - 1 : t % DayLen \notin Slots

\* A subscription is retired only when three of its sends have failed since a success
\* was last recorded, also when fires overlap on the row, the row changes hands, or
\* it was removed and the device subscribed again (bumpFailure, markOK).
RetiredOnlyAfterThree ==
    [][\A f \in Firers :
          /\ fire[f].pc = "drop" /\ fire'[f].pc # "drop"
          /\ fire[f].row \in DOMAIN subs \ DOMAIN subs'
          => strikes[fire[f].row] >= 3]_vars

\* And then at once: a row with three failures is one that some fire is about to
\* remove, unless that statement did not run.
RetiredInTime ==
    \A id \in DOMAIN subs : subs[id].failures >= 3 =>
        id \in lost \/ \E f \in Firers : fire[f].pc = "drop" /\ fire[f].row = id
=============================================================================
