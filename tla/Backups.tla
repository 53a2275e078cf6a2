------------------------------ MODULE Backups ------------------------------
(***************************************************************************)
(* Snapshots of the database in the backup directory (store/backup.go): the *)
(* server's loop and `serbian -backup` run beside it take a snapshot under  *)
(* the name of the day, over any that day has already, and delete the       *)
(* oldest.  A day here begins at midnight UTC, which gives the file its     *)
(* name; the loop's slot, 04:30 local time, comes once in it.               *)
(***************************************************************************)
EXTENDS Integers, FiniteSets

CONSTANTS
    Server,    \* the program whose loop takes backups
    Tools,     \* runs of `serbian -backup`
    Keep,      \* backupKeep
    LastDay    \* bound: the days modelled are 0 .. LastDay

Programs == {Server} \cup Tools
Whole == "whole"
Partial == "partial"

ASSUME BackupsAssumption ==
    /\ Server \notin Tools /\ Whole \notin Programs /\ Partial \notin Programs
    /\ Keep \in Nat /\ LastDay \in Nat

VARIABLES
    now,     \* 2 * d in day d before the loop's slot, 2 * d + 1 after it
    due,     \* when the loop's timer fires
    files,   \* by day: Whole, Partial, or the program that is writing it
    at,      \* by program: where it stands
    day,     \* by program: the stamp it took
    doomed,  \* by program: toDelete
    named,   \* history: the days that have had a file
    spoiled  \* history: the days whose file a program took away or began, and failed

vars == <<now, due, files, at, day, doomed, named, spoiled>>

Init ==
    /\ now = 0 /\ due = 0
    /\ files = [d \in {} |-> Whole]
    /\ at = [a \in Programs |-> "idle"]
    /\ day = [a \in Programs |-> 0]
    /\ doomed = [a \in Programs |-> {}]
    /\ named = {} /\ spoiled = {}

Tick ==
    /\ now < 2 * LastDay + 1
    /\ now' = now + 1
    /\ UNCHANGED <<due, files, at, day, doomed, named, spoiled>>

\* The first slot after now.
nextBackupSlot == IF now % 2 = 0 THEN now + 1 ELSE now + 2

\* Where a program goes when it is done: the loop sets its timer.
Rest(a) ==
    /\ at' = [at EXCEPT ![a] = "idle"]
    /\ doomed' = [doomed EXCEPT ![a] = {}]
    /\ due' = IF a = Server THEN nextBackupSlot ELSE due

Without(d) == [e \in DOMAIN files \ {d} |-> files[e]]
With(d, is) == [e \in DOMAIN files \cup {d} |-> IF e = d THEN is ELSE files[e]]

-----------------------------------------------------------------------------
(* Backup *)

Begin(a) ==
    /\ at[a] = "idle"
    /\ a = Server => now >= due
    /\ at' = [at EXCEPT ![a] = "remove"]
    /\ day' = [day EXCEPT ![a] = now \div 2]
    /\ UNCHANGED <<now, due, files, doomed, named, spoiled>>

\* os.Remove, also of a file that another program is writing.
Remove(a) ==
    /\ at[a] = "remove"
    /\ files' = Without(day[a])
    /\ at' = [at EXCEPT ![a] = "vacuum"]
    /\ UNCHANGED <<now, due, day, doomed, named, spoiled>>

\* VACUUM INTO begins: it does not write to a file that exists.
Create(a) ==
    /\ at[a] = "vacuum" /\ day[a] \notin DOMAIN files
    /\ files' = With(day[a], a)
    /\ named' = named \cup {day[a]}
    /\ at' = [at EXCEPT ![a] = "copy"]
    /\ UNCHANGED <<now, due, day, doomed, spoiled>>

Writes(a) == at[a] = "copy" /\ day[a] \in DOMAIN files /\ files[day[a]] = a

\* It has written everything, be it to a file that has lost its name.
Finish(a) ==
    /\ at[a] = "copy"
    /\ files' = IF Writes(a) THEN With(day[a], Whole) ELSE files
    /\ spoiled' = IF Writes(a) THEN spoiled \ {day[a]} ELSE spoiled
    /\ at' = [at EXCEPT ![a] = "prune"]
    /\ UNCHANGED <<now, due, day, doomed, named>>

\* What a program that stops short leaves of the day.
LeavesOff(a) ==
    /\ files' = IF Writes(a) THEN With(day[a], Partial) ELSE files
    /\ spoiled' = IF Writes(a) \/ (at[a] = "vacuum" /\ day[a] \notin DOMAIN files)
                  THEN spoiled \cup {day[a]} ELSE spoiled

\* An error of VACUUM INTO, refusing the file that exists among them: the loop
\* goes on to prune, the command ends (log.Fatal).
Fail(a) ==
    /\ at[a] \in {"vacuum", "copy"}
    /\ LeavesOff(a)
    /\ IF a = Server
       THEN at' = [at EXCEPT ![a] = "prune"] /\ UNCHANGED <<due, doomed>>
       ELSE Rest(a)
    /\ UNCHANGED <<now, day, named>>

-----------------------------------------------------------------------------
(* PruneBackups *)

\* Mutant: one file too many.
DoomedOneMore ==
    {d \in DOMAIN files : Cardinality({e \in DOMAIN files : e > d}) >= Keep - 1}
\* All the names but the last `Keep`, whatever the files hold.
Doomed == {d \in DOMAIN files : Cardinality({e \in DOMAIN files : e > d}) >= Keep}

List(a) ==
    /\ at[a] = "prune"
    /\ IF Doomed = {} THEN Rest(a)
       ELSE /\ at' = [at EXCEPT ![a] = "delete"]
            /\ doomed' = [doomed EXCEPT ![a] = Doomed]
            /\ UNCHANGED due
    /\ UNCHANGED <<now, files, day, named, spoiled>>

\* One os.Remove, the oldest first; one that fails, as of a file that another
\* program has deleted, ends it.
DeleteOldest(a) ==
    /\ at[a] = "delete"
    /\ \E d \in doomed[a] :
          /\ \A e \in doomed[a] : d <= e
          /\ files' = Without(d)
          /\ IF d \notin DOMAIN files \/ doomed[a] = {d} THEN Rest(a)
             ELSE /\ doomed' = [doomed EXCEPT ![a] = @ \ {d}]
                  /\ UNCHANGED <<at, due>>
    /\ UNCHANGED <<now, day, named, spoiled>>

\* The program is killed at any point.  The server starts again, and its first
\* backup comes a minute later.
Kill(a) ==
    /\ LeavesOff(a)
    /\ at' = [at EXCEPT ![a] = "idle"]
    /\ doomed' = [doomed EXCEPT ![a] = {}]
    /\ due' = IF a = Server THEN now ELSE due
    /\ UNCHANGED <<now, day, named>>

Next ==
    \/ Tick
    \/ \E a \in Programs :
          \/ Begin(a) \/ Remove(a) \/ Create(a) \/ Finish(a) \/ Fail(a)
          \/ List(a) \/ DeleteOldest(a)
          \/ Kill(a)

Spec == Init /\ [][Next]_vars

-----------------------------------------------------------------------------
(* Properties *)

TypeOK ==
    /\ now \in Nat /\ due \in Nat
    /\ named \in SUBSET Nat /\ IsFiniteSet(named)
    /\ spoiled \in SUBSET Nat
    /\ DOMAIN files \subseteq named
    /\ \A d \in DOMAIN files : files[d] \in Programs \cup {Whole, Partial}
    /\ at \in [Programs -> {"idle", "remove", "vacuum", "copy", "prune", "delete"}]
    /\ day \in [Programs -> Nat]
    /\ doomed \in [Programs -> SUBSET Nat]

Outnumbered(d) == Cardinality({e \in named : e > d}) >= Keep
Snapshot(d) == d \in DOMAIN files /\ files[d] = Whole
Busy(d) == \E a \in Programs : at[a] \in {"vacuum", "copy"} /\ day[a] = d

\* A day that has had a file has a whole snapshot whenever no program is at work
\* on it, unless the last of them failed with the file in its hands or `Keep`
\* later days have had theirs.  A backup that fails so costs the snapshot of its
\* own day and no other (it removes today's file before it writes the new one);
\* two programs that back up at once, one of them deleting the file the other
\* writes, and two that prune at once, by lists that may be old, cost none.
SnapshotsKept ==
    \A d \in named \ spoiled : ~Busy(d) => Snapshot(d) \/ Outnumbered(d)
=============================================================================
