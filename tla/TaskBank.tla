------------------------------ MODULE TaskBank ------------------------------
(***************************************************************************)
(* The rows of the tasks table and the programs that write them:            *)
(* cmd/pregen inserts, cmd/annotate dumps and merges what an agent wrote    *)
(* about the dump, the admin page flags and deletes, and a migration        *)
(* rebuilds the table.  A text is what the gates of the grader ask of it:    *)
(* the set of pieces it contains after Normalize; Blank is a piece of which  *)
(* Normalize leaves nothing.  What has the same kind, prompt and payload,    *)
(* and so the same content_hash, is one content.                             *)
(***************************************************************************)
EXTENDS Integers, Sequences, FiniteSets

CONSTANTS
    Batches,     \* what pregen may be given: a topic and a sequence of items
    Notes,       \* what the agent may write of a row: topic, critical, forbidden
    Blank,
    NoTopic,
    MaxId,       \* bound: ids given out
    MaxNotes     \* bound: annotations the agent writes

Items == UNION {{b.items[k] : k \in DOMAIN b.items} : b \in Batches}

ASSUME BankAssumption ==
    /\ \A b \in Batches : b.items \in Seq(Items)
    /\ MaxId \in Nat /\ MaxNotes \in Nat

VARIABLES
    tasks,    \* rows by id
    nextId,   \* one more than the id in sqlite_sequence
    importer, \* pregen: the topic of its batch and the items it has left
    dumped,   \* rows named in the batch files: id and content
    files,    \* the agent's files, in the order of their names
    merger,   \* annotate -mode merge
    upgraded  \* history: a migration rebuilt the table

vars == <<tasks, nextId, importer, dumped, files, merger, upgraded>>
bank == <<tasks, nextId>>

NotImporting == [topic |-> NoTopic, left |-> <<>>]
NotMerging == [pc |-> "idle", next |-> 1, last |-> 0, stale |-> FALSE, clean |-> TRUE]

Init ==
    /\ tasks = [id \in {} |-> {}] /\ nextId = 1
    /\ importer = NotImporting
    /\ dumped = {} /\ files = <<>>
    /\ merger = NotMerging
    /\ upgraded = FALSE

\* A write of another program makes the snapshot of an open transaction old:
\* its own writes then fail (SQLITE_BUSY_SNAPSHOT).
Written == merger' = IF merger.pc = "tx" THEN [merger EXCEPT !.stale = TRUE] ELSE merger

-----------------------------------------------------------------------------
(* cmd/pregen *)

InSome(piece, answers) == \E a \in answers : piece \in a
Solvable(critical, answers) == \A c \in critical \ {Blank} : InSome(c, answers)
Harmless(forbidden, answers) == \A f \in forbidden \ {Blank} : ~InSome(f, answers)

\* What validate asks; `sound` stands for a prompt in Cyrillic and JSON of the right
\* shape.
Valid(item) ==
    /\ item.sound /\ item.answers # {}
    /\ Solvable(item.critical, item.answers)
    /\ Harmless(item.forbidden, item.answers)

validate(items) ==
    LET ok[k \in 0 .. Len(items)] ==
            IF k = 0 THEN <<>>
            ELSE IF Valid(items[k]) THEN Append(ok[k - 1], items[k]) ELSE ok[k - 1]
    IN  ok[Len(items)]

BeginImport(b) ==
    /\ importer = NotImporting
    /\ importer' = [topic |-> b.topic, left |-> validate(b.items)]
    /\ UNCHANGED <<bank, dumped, files, merger, upgraded>>

Known(content) == \E id \in DOMAIN tasks : tasks[id].content = content

RowOf(item, topic) ==
    [content |-> item.content, answers |-> item.answers, topic |-> topic,
     critical |-> item.critical, forbidden |-> item.forbidden, flagged |-> FALSE]

\* Mutant: an item that is there already replaces its row.
InsertedOver(item, topic) ==
    IF Known(item.content)
    THEN /\ tasks' = [id \in DOMAIN tasks |->
                         IF tasks[id].content = item.content THEN RowOf(item, topic) ELSE tasks[id]]
         /\ UNCHANGED nextId /\ Written
    ELSE /\ nextId <= MaxId
         /\ tasks' = [id \in DOMAIN tasks \cup {nextId} |->
                         IF id = nextId THEN RowOf(item, topic) ELSE tasks[id]]
         /\ nextId' = nextId + 1 /\ Written

\* INSERT ... ON CONFLICT(content_hash) DO NOTHING, a statement of its own.  (An
\* id that a refused insert may use up is left out: ids only grow by it.)
Inserted(item, topic) ==
    IF Known(item.content) THEN UNCHANGED <<bank, merger>>
    ELSE /\ nextId <= MaxId
         /\ tasks' = [id \in DOMAIN tasks \cup {nextId} |->
                         IF id = nextId THEN RowOf(item, topic) ELSE tasks[id]]
         /\ nextId' = nextId + 1 /\ Written

InsertItem ==
    /\ importer.left # <<>>
    /\ Inserted(Head(importer.left), importer.topic)
    /\ importer' = IF Len(importer.left) = 1 THEN NotImporting
                   ELSE [importer EXCEPT !.left = Tail(@)]
    /\ UNCHANGED <<dumped, files, upgraded>>

\* An error, the five minutes of its context or a kill: the rest is not inserted.
StopImport ==
    /\ importer # NotImporting
    /\ importer' = NotImporting
    /\ UNCHANGED <<bank, dumped, files, merger, upgraded>>

-----------------------------------------------------------------------------
(* cmd/annotate *)

\* One query; of an earlier and longer dump some files stay.
Dump ==
    /\ dumped' = dumped \cup {[id |-> id, content |-> tasks[id].content] :
                                 id \in {id \in DOMAIN tasks : ~tasks[id].flagged}}
    /\ UNCHANGED <<bank, importer, files, merger, upgraded>>

\* The agent, outside: a file about one or two of the rows that were dumped, in
\* the order of the dump.
Annotate(file) ==
    /\ merger.pc = "idle"
    /\ files' = Append(files, file)
    /\ UNCHANGED <<bank, importer, dumped, merger, upgraded>>

Annotations == [on : dumped, note : Notes]
NewFiles ==
    {<<x>> : x \in Annotations} \cup
    {z \in Annotations \X Annotations : z[1].on.id < z[2].on.id}
NotesIn(fs) == Cardinality({i \in (1 .. Len(fs)) \X (1 .. 2) : i[2] \in DOMAIN fs[i[1]]})

BeginMerge ==
    /\ merger.pc = "idle" /\ files # <<>>
    /\ merger' = [NotMerging EXCEPT !.pc = "files", !.last = Len(files)]
    /\ UNCHANGED <<bank, importer, dumped, files, upgraded>>

\* BEGIN is deferred: the first SELECT takes the snapshot.
OpenFile ==
    /\ merger.pc = "files" /\ merger.next <= merger.last
    /\ merger' = [merger EXCEPT !.pc = "tx", !.stale = FALSE]
    /\ UNCHANGED <<bank, importer, dumped, files, upgraded>>

filterCritical(critical, answers) == {c \in critical \ {Blank} : InSome(c, answers)}

\* Mutant: what a blank entry was is not asked, and some answer may have it.
filterForbiddenSome(forbidden, answers) ==
    {f \in forbidden \ {Blank} : \E a \in answers : f \notin a}
filterForbidden(forbidden, answers) == {f \in forbidden \ {Blank} : ~InSome(f, answers)}

OrOld(new, old) == IF new # {} THEN new ELSE old

\* Mutant: a row that has its topic is passed over.
AnnotatedUntilTopic(row, note) ==
    IF note.topic # NoTopic /\ row.topic # NoTopic THEN row
    ELSE [row EXCEPT !.topic = IF @ = NoTopic THEN note.topic ELSE @,
                     !.critical = OrOld(filterCritical(note.critical, row.answers), @),
                     !.forbidden = OrOld(filterForbidden(note.forbidden, row.answers), @)]
\* The three steps of one annotation on its row.
Annotated(row, note) ==
    [row EXCEPT !.topic = IF @ = NoTopic THEN note.topic ELSE @,
                !.critical = OrOld(filterCritical(note.critical, row.answers), @),
                !.forbidden = OrOld(filterForbidden(note.forbidden, row.answers), @)]

\* The rows after the first k annotations of a file; an id without a row is
\* passed over.
After(file) ==
    LET at[k \in 0 .. Len(file)] ==
            IF k = 0 THEN tasks
            ELSE [id \in DOMAIN tasks |->
                     IF id = file[k].on.id THEN Annotated(at[k - 1][id], file[k].note)
                     ELSE at[k - 1][id]]
    IN  at[Len(file)]

Advance(clean) ==
    merger' = [merger EXCEPT !.pc = "files", !.next = @ + 1, !.stale = FALSE, !.clean = clean]

\* One transaction per file: the first write takes the lock until the commit.
MergeFile ==
    /\ merger.pc = "tx" /\ ~merger.stale
    /\ tasks' = After(files[merger.next])
    /\ Advance(merger.clean)
    /\ UNCHANGED <<nextId, importer, dumped, files, upgraded>>

\* After another program's write each UPDATE fails, is logged and passed over.
SkipFile ==
    /\ merger.pc = "tx" /\ merger.stale
    /\ Advance(FALSE)
    /\ UNCHANGED <<bank, importer, dumped, files, upgraded>>

EndMerge ==
    /\ merger.pc = "files" /\ merger.next > merger.last
    /\ merger' = NotMerging
    /\ UNCHANGED <<bank, importer, dumped, files, upgraded>>

\* Killed, or a failed commit: the open transaction is rolled back.
StopMerge ==
    /\ merger.pc # "idle"
    /\ merger' = NotMerging
    /\ UNCHANGED <<bank, importer, dumped, files, upgraded>>

-----------------------------------------------------------------------------
(* The others *)

Flag(id) ==
    /\ tasks' = [tasks EXCEPT ![id].flagged = ~@]
    /\ Written
    /\ UNCHANGED <<nextId, importer, dumped, files, upgraded>>

Delete(id) ==
    /\ tasks' = [o \in DOMAIN tasks \ {id} |-> tasks[o]]
    /\ Written
    /\ UNCHANGED <<nextId, importer, dumped, files, upgraded>>

\* The server's other writes, of attempts and cards.
OtherWrite ==
    /\ merger.pc = "tx" /\ Written
    /\ UNCHANGED <<bank, importer, dumped, files, upgraded>>

\* Migrations 0005 and 0007 copy the rows to a new table, whose sequence goes on
\* after the largest id that is left.
Upgrade ==
    /\ ~upgraded /\ importer = NotImporting /\ merger.pc = "idle"
    /\ nextId' = CHOOSE n \in 1 .. nextId :
                     /\ \A id \in DOMAIN tasks : id < n
                     /\ n = 1 \/ n - 1 \in DOMAIN tasks
    /\ upgraded' = TRUE
    /\ UNCHANGED <<tasks, importer, dumped, files, merger>>

Next ==
    \/ \E b \in Batches : BeginImport(b)
    \/ InsertItem \/ StopImport
    \/ Dump
    \/ \E file \in NewFiles : NotesIn(Append(files, file)) <= MaxNotes /\ Annotate(file)
    \/ BeginMerge \/ OpenFile \/ MergeFile \/ SkipFile \/ EndMerge \/ StopMerge
    \/ \E id \in DOMAIN tasks : Flag(id) \/ Delete(id)
    \/ OtherWrite
    \/ Upgrade

Spec == Init /\ [][Next]_vars

-----------------------------------------------------------------------------
(* Properties *)

\* "A critical substring that doesn't appear in any answer would make the task
\* unsolvable; a forbidden substring that does appear in an answer would make
\* the task self-defeating" (pregen): no row comes to hold either, whoever wrote
\* it, of whatever row, and however old the dump.
GatesPassable ==
    \A id \in DOMAIN tasks :
        /\ Solvable(tasks[id].critical, tasks[id].answers)
        /\ Harmless(tasks[id].forbidden, tasks[id].answers)

Unflagged(row) == [row EXCEPT !.flagged = FALSE]

\* A row is what it was first inserted as, until an annotation written about its
\* content changes it: an import that is run again changes none, an id is not
\* given to another content unless a migration rebuilt the table in between, and
\* a topic that is set stays.
RowsKept ==
    [][\A id \in DOMAIN tasks \cap DOMAIN tasks' :
          LET old == Unflagged(tasks[id])
              new == Unflagged(tasks'[id])
          IN  /\ new.content = old.content /\ new.answers = old.answers
              /\ old.topic # NoTopic => new.topic = old.topic
              /\ new # old =>
                    \E j \in DOMAIN files[merger.next] :
                        LET on == files[merger.next][j].on
                        IN  on.id = id /\ (on.content = old.content \/ upgraded)]_vars

Before(i, j) == i[1] < j[1] \/ (i[1] = j[1] /\ i[2] < j[2])

\* The annotations of the merged files that are about a row, by file and place.
About(id) ==
    {i \in (1 .. merger.last) \X (1 .. 2) :
        i[2] \in DOMAIN files[i[1]] /\ files[i[1]][i[2]].on.id = id}
Note(i) == files[i[1]][i[2]].note

\* A merge that ends without having passed a file over has done its work: every
\* row that is left has a topic if it was given one, and the gates of the last
\* annotation that had any to give.
AnnotationsLand ==
    merger.pc = "files" /\ merger.next > merger.last /\ merger.clean /\ ~upgraded =>
        \A id \in DOMAIN tasks :
            LET row == tasks[id]
                Crit(i) == filterCritical(Note(i).critical, row.answers)
                Forb(i) == filterForbidden(Note(i).forbidden, row.answers)
                Latest(i, S) == i \in S /\ \A j \in S : ~Before(i, j)
            IN  /\ (\E i \in About(id) : Note(i).topic # NoTopic) => row.topic # NoTopic
                /\ \A i \in About(id) :
                      /\ Latest(i, {j \in About(id) : Crit(j) # {}}) => row.critical = Crit(i)
                      /\ Latest(i, {j \in About(id) : Forb(j) # {}}) => row.forbidden = Forb(i)
=============================================================================
