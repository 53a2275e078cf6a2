------------------------------- MODULE Startup ------------------------------
(***************************************************************************)
(* How a program of cmd/serbian comes up on whatever a previous one left:  *)
(* config.Load and Save, store.Migrate, store.EnsureOwnerUser, then the    *)
(* server, or a CLI command that adds or removes a user.  Programs may run *)
(* side by side (the CLI beside the server) and may stop at any moment.    *)
(* A migration is one transaction, as is EnsureOwnerUser; every file       *)
(* operation is a step.  Rows are reduced to what a migration can do to    *)
(* them: the learned cards, the attempts, the sessions and their users.    *)
(***************************************************************************)
EXTENDS Integers, FiniteSets

CONSTANTS
    Programs, \* processes of the serbian binary
    Tokens,   \* setup tokens
    OldToken, \* the token of an install that has one
    None,     \* no token, no file, no owner
    Empty,    \* the content of a file just created or truncated
    NoToken,  \* the content of a config whose auth_token is empty or absent
    Cards,    \* cards learned before this build was installed
    Installs, \* the databases it may find: "fresh", "single", "multi"
    MaxUser,  \* bound: no user is added or removed once the next id passes it
    MaxForget \* bound: the tokens the operator deletes

ASSUME StartupAssumption ==
    /\ IsFiniteSet(Programs)
    /\ OldToken \in Tokens
    /\ None \notin Tokens \cup Nat /\ {Empty, NoToken} \cap Tokens = {}
    /\ None # Empty /\ None # NoToken /\ Empty # NoToken
    /\ Installs \subseteq {"fresh", "single", "multi"}
    /\ MaxUser \in Nat \ {0} /\ MaxForget \in Nat

VARIABLES
    \* the file system
    content,  \* inode -> what the file holds
    cfg,      \* the inode config.json names
    tmp,      \* the inode config.json.tmp names
    \* the database
    applied,  \* _migrations
    users,    \* users rows
    nextUser, \* the id the next users row gets (AUTOINCREMENT)
    owner,    \* the row EnsureOwnerUser made: its id and token
    old,      \* the single-user card table: None, or its cards
    srs,      \* srs_state rows: <<user, card>>
    sessions, \* sessions rows: id -> user_id, 0 before there is one
    attempts, \* attempts rows
    \* the programs
    prog,     \* pc, token held, inode being written, migrations to apply
    overlap,  \* history: two programs were between Load and Rename at once
    forgotten \* history: the tokens the operator took out of config.json

files == <<content, cfg, tmp>>
db == <<applied, users, nextUser, owner, old, srs, sessions, attempts>>
history == <<overlap, forgotten>>
vars == <<files, db, prog, history>>

Versions == 1 .. 7
UserIds == 1 .. MaxUser + 1
Inodes == 1 .. Cardinality(Programs) + 2
Stopped == [pc |-> "stopped", token |-> None, fd |-> None, todo |-> {}]
Saving == {"create", "write", "rename"}

-----------------------------------------------------------------------------
\* The database of an install: what runs of earlier builds leave.
Found(install) ==
    /\ applied = CASE install = "fresh" -> {}
                   [] install = "single" -> 1 .. 3
                   [] install = "multi" -> 1 .. 4
    /\ users = IF install = "multi" THEN {1} ELSE {}
    /\ nextUser = IF install = "multi" THEN 2 ELSE 1
    /\ old = IF install = "single" THEN Cards ELSE None
    /\ srs = IF install = "multi" THEN {1} \X Cards ELSE {}
    /\ sessions = CASE install = "fresh" -> <<>>
                    [] install = "single" -> <<0>>
                    [] install = "multi" -> <<1>>
    /\ attempts = IF install = "fresh" THEN {} ELSE Cards

\* A config written by hand before the first start has no token yet.
Init ==
    /\ \E install \in Installs :
          /\ Found(install)
          /\ owner = IF install = "multi" THEN [id |-> 1, token |-> OldToken] ELSE None
          /\ cfg \in IF install = "fresh" THEN {None, 1} ELSE {1}
          /\ content = [i \in Inodes |-> IF i # cfg THEN Empty
                                         ELSE IF install = "fresh" THEN NoToken ELSE OldToken]
    /\ tmp = None
    /\ prog = [p \in Programs |-> Stopped]
    /\ overlap = FALSE
    /\ forgotten = {}

Goto(p, pc) == prog' = [prog EXCEPT ![p].pc = pc]
Die(p) == prog' = [prog EXCEPT ![p] = Stopped]

-----------------------------------------------------------------------------
(* config.go *)

Known == {content[i] : i \in Inodes} \cup {prog[p].token : p \in Programs}
             \cup (IF owner = None THEN {} ELSE {owner.token}) \cup forgotten

\* No token is set: there is no file, or its auth_token is empty.
NoneSet == cfg # None => content[cfg] = NoToken

\* Mutant: Load makes no token when there is none.
LoadNoToken(p) ==
    /\ prog[p].pc = "stopped"
    /\ cfg # None => content[cfg] # Empty
    /\ prog' = [prog EXCEPT ![p].pc = "create",
                            ![p].token = IF NoneSet THEN None ELSE content[cfg]]
    /\ UNCHANGED <<files, db, history>>

\* Mutant: Load makes a token at every start.
LoadAnew(p) ==
    /\ prog[p].pc = "stopped"
    /\ cfg # None => content[cfg] # Empty
    /\ \E t \in Tokens \ Known :
          prog' = [prog EXCEPT ![p].pc = "create", ![p].token = t]
    /\ overlap' = (overlap \/ \E q \in Programs \ {p} : prog[q].pc \in Saving)
    /\ UNCHANGED <<files, db, forgotten>>

\* Load: without a file, or without a token in it, a fresh token is drawn; a file
\* that does not decode is fatal.
Load(p) ==
    /\ prog[p].pc = "stopped"
    /\ \/ /\ NoneSet
          /\ \E t \in Tokens \ Known :
                prog' = [prog EXCEPT ![p].pc = "create", ![p].token = t]
       \/ /\ ~ NoneSet
          /\ content[cfg] # Empty
          /\ prog' = [prog EXCEPT ![p].pc = "create", ![p].token = content[cfg]]
    /\ overlap' = (overlap \/ \E q \in Programs \ {p} : prog[q].pc \in Saving)
    /\ UNCHANGED <<files, db, forgotten>>

InUse == ({cfg, tmp} \cup {prog[q].fd : q \in Programs}) \ {None}

\* Mutant: the config itself is truncated and written.
CreateInPlace(p) ==
    /\ prog[p].pc = "create"
    /\ LET i == IF cfg # None THEN cfg ELSE CHOOSE j \in Inodes \ InUse : TRUE
       IN  /\ tmp' = i
           /\ content' = [content EXCEPT ![i] = Empty]
           /\ prog' = [prog EXCEPT ![p].pc = "write", ![p].fd = i]
    /\ UNCHANGED <<cfg, db, history>>

\* os.Create(path + ".tmp"): a file of that name is truncated, not replaced.
CreateTmp(p) ==
    /\ prog[p].pc = "create"
    /\ LET i == IF tmp # None THEN tmp ELSE CHOOSE j \in Inodes \ InUse : TRUE
       IN  /\ tmp' = i
           /\ content' = [content EXCEPT ![i] = Empty]
           /\ prog' = [prog EXCEPT ![p].pc = "write", ![p].fd = i]
    /\ UNCHANGED <<cfg, db, history>>

WriteTmp(p) ==
    /\ prog[p].pc = "write"
    /\ content' = [content EXCEPT ![prog[p].fd] = prog[p].token]
    /\ prog' = [prog EXCEPT ![p].pc = "rename", ![p].fd = None]
    /\ UNCHANGED <<cfg, tmp, db, history>>

\* Encode or Close fails: the name config.json.tmp is removed, and main gives up.
\* What is on disk then, a part or all of it, is seen only where another program
\* has renamed the inode already.
WriteFails(p) ==
    /\ prog[p].pc = "write"
    /\ \E c \in {Empty} \cup (IF prog[p].fd = cfg THEN {prog[p].token} ELSE {}) :
          content' = [content EXCEPT ![prog[p].fd] = c]
    /\ tmp' = None
    /\ Die(p)
    /\ UNCHANGED <<cfg, db, history>>

\* os.Rename, fatal when the name is gone.  The file replaced has no name left, so
\* what it held is forgotten.
RenameTmp(p) ==
    /\ prog[p].pc = "rename"
    /\ IF tmp = None
       THEN Die(p) /\ UNCHANGED files
       ELSE /\ Goto(p, "migrate")
            /\ cfg' = tmp /\ tmp' = None
            /\ content' = [i \in Inodes |-> IF i = cfg /\ i # tmp THEN Empty ELSE content[i]]
    /\ UNCHANGED <<db, history>>

\* The operator "regenerate[s] by deleting the `auth_token` field" (README.md).
ForgetToken ==
    /\ Cardinality(forgotten) < MaxForget
    /\ ~ NoneSet
    /\ content[cfg] # Empty
    /\ content' = [content EXCEPT ![cfg] = NoToken]
    /\ forgotten' = forgotten \cup {content[cfg]}
    /\ UNCHANGED <<cfg, tmp, db, prog, overlap>>

-----------------------------------------------------------------------------
(* sqlite.go: Migrate *)

ReadApplied(p) ==
    /\ prog[p].pc = "migrate"
    /\ prog' = [prog EXCEPT ![p].pc = "apply", ![p].todo = Versions \ applied]
    /\ UNCHANGED <<files, db, history>>

\* 0001 makes the tables, 0002 seeds tasks (a card for each is made by a trigger,
\* none of them learned), 0003 and 0006 add a column.
NoRows == UNCHANGED <<users, nextUser, owner, srs, sessions, attempts>>
Create == old' = {} /\ NoRows
AddColumn == UNCHANGED old /\ NoRows

\* Mutant: the new column is given no default.
MultiUserNoDefault ==
    UNCHANGED <<users, nextUser, owner, old, srs, sessions, attempts>>

\* 0004: cards are set aside for the bootstrap; every other row is user 1's.
\* (That srs_state becomes srs_state_old, and is empty anew, is a renaming here.)
MultiUser ==
    /\ sessions' = [s \in DOMAIN sessions |-> 1]
    /\ UNCHANGED <<users, nextUser, owner, old, srs, attempts>>

\* 0005 and 0007 rebuild tasks.  DROP TABLE deletes the rows of tasks first, and
\* with foreign keys on that cascades to every card and attempt; defer_foreign_keys
\* defers the check of violations, not the cascade.
RebuildTasks ==
    /\ old' = IF old = None THEN None ELSE {}
    /\ srs' = {}
    /\ attempts' = {}
    /\ UNCHANGED <<users, nextUser, owner, sessions>>

Effect(v) ==
    CASE v = 1 -> Create
      [] v \in {2, 3, 6} -> AddColumn
      [] v = 4 -> MultiUser
      [] v \in {5, 7} -> RebuildTasks

\* Mutant: the files are sorted downwards.
Greatest(V) == CHOOSE v \in V : \A w \in V : v >= w

Least(V) == CHOOSE v \in V : \A w \in V : v <= w

\* Mutant: a program waits for a migration that another has applied.
ApplyWaits(p) ==
    /\ prog[p].pc = "apply"
    /\ prog[p].todo # {}
    /\ LET v == Least(prog[p].todo) IN
          /\ v \notin applied
          /\ Effect(v)
          /\ applied' = applied \cup {v}
          /\ prog' = [prog EXCEPT ![p].todo = @ \ {v}]
    /\ UNCHANGED <<files, history>>

\* applyMigration: a migration another program has applied meanwhile fails (its
\* tables, columns, rows or its _migrations key exist), and that is fatal.
Apply(p) ==
    /\ prog[p].pc = "apply"
    /\ prog[p].todo # {}
    /\ LET v == Least(prog[p].todo) IN
       IF v \in applied
       THEN Die(p) /\ UNCHANGED db
       ELSE /\ Effect(v)
            /\ applied' = applied \cup {v}
            /\ prog' = [prog EXCEPT ![p].todo = @ \ {v}]
    /\ UNCHANGED <<files, history>>

Migrated(p) ==
    /\ prog[p].pc = "apply"
    /\ prog[p].todo = {}
    /\ Goto(p, "ensure")
    /\ UNCHANGED <<files, db, history>>

-----------------------------------------------------------------------------
(* bootstrap.go: EnsureOwnerUser *)

\* Mutant: the card table set aside is not dropped.
EnsureOwnerKeepsOld(p) ==
    /\ prog[p].pc = "ensure"
    /\ IF users # {}
       THEN UNCHANGED <<users, nextUser, owner, srs>>
       ELSE /\ users' = {nextUser}
            /\ nextUser' = nextUser + 1
            /\ owner' = [id |-> nextUser, token |-> prog[p].token]
            /\ srs' = IF old = None THEN srs ELSE srs \cup ({nextUser} \X old)
    /\ Goto(p, "up")
    /\ UNCHANGED <<files, applied, old, sessions, attempts, history>>

EnsureOwnerUser(p) ==
    /\ prog[p].pc = "ensure"
    /\ IF users # {}
       THEN UNCHANGED <<users, nextUser, owner, old, srs>>
       ELSE /\ users' = {nextUser}
            /\ nextUser' = nextUser + 1
            /\ owner' = [id |-> nextUser, token |-> prog[p].token]
            /\ srs' = IF old = None THEN srs ELSE srs \cup ({nextUser} \X old)
            /\ old' = None
    /\ Goto(p, "up")
    /\ UNCHANGED <<files, applied, sessions, attempts, history>>

-----------------------------------------------------------------------------
(* A program that is up serves, or is a CLI command. *)

AddUser(p) ==
    /\ prog[p].pc = "up"
    /\ nextUser <= MaxUser
    /\ users' = users \cup {nextUser}
    /\ nextUser' = nextUser + 1
    /\ Die(p)
    /\ UNCHANGED <<files, applied, owner, old, srs, sessions, attempts, history>>

\* DeleteUserByName.  The attempts are those of the sessions removed.
DeleteUser(p) ==
    /\ prog[p].pc = "up"
    /\ nextUser <= MaxUser
    /\ \E u \in users :
          /\ users' = users \ {u}
          /\ owner' = IF owner # None /\ owner.id = u THEN None ELSE owner
          /\ srs' = {row \in srs : row[1] # u}
          /\ sessions' = [s \in {x \in DOMAIN sessions : sessions[x] # u} |-> sessions[s]]
          /\ attempts' = IF \E s \in DOMAIN sessions : sessions[s] = u THEN {} ELSE attempts
    /\ Die(p)
    /\ UNCHANGED <<files, applied, nextUser, old, history>>

\* A program stops: it is done, is told to, or is killed between two steps.
Stop(p) ==
    /\ prog[p].pc # "stopped"
    /\ Die(p)
    /\ UNCHANGED <<files, db, history>>

-----------------------------------------------------------------------------
Progress(p) ==
    \/ CreateTmp(p) \/ WriteTmp(p) \/ RenameTmp(p)
    \/ ReadApplied(p) \/ Apply(p) \/ Migrated(p)
    \/ EnsureOwnerUser(p)

Next ==
    \/ \E p \in Programs : \/ Load(p) \/ Progress(p)
                           \/ AddUser(p) \/ DeleteUser(p)
                           \/ WriteFails(p) \/ Stop(p)
    \/ ForgetToken

Spec == Init /\ [][Next]_vars
FairSpec == Spec /\ \A p \in Programs : WF_vars(Progress(p))
-----------------------------------------------------------------------------
(* What must hold *)

TypeOK ==
    /\ content \in [Inodes -> Tokens \cup {Empty, NoToken}]
    /\ cfg \in Inodes \cup {None} /\ tmp \in Inodes \cup {None}
    /\ applied \subseteq Versions
    /\ users \subseteq UserIds /\ nextUser \in 1 .. MaxUser + 2
    /\ owner = None \/ owner \in [id : UserIds, token : Tokens]
    /\ old = None \/ old \subseteq Cards
    /\ srs \subseteq UserIds \X Cards
    /\ DOMAIN sessions \subseteq {1} /\ \A s \in DOMAIN sessions : sessions[s] \in UserIds \cup {0}
    /\ attempts \subseteq Cards
    /\ prog \in [Programs -> [pc : Saving \cup {"stopped", "migrate", "apply", "ensure", "up"},
                              token : Tokens \cup {None}, fd : Inodes \cup {None},
                              todo : SUBSET Versions]]
    /\ overlap \in BOOLEAN /\ forgotten \subseteq Tokens

\* Migrations are recorded in order and without a gap, also when several programs
\* migrate one database and any of them dies between two migrations (Migrate); and
\* a program that has come up runs on the whole schema, with the single-user cards
\* handed over: the fast path of EnsureOwnerUser ("any existing user -> bootstrap
\* already happened") never leaves srs_state_old behind.
UpIsComplete ==
    /\ \E n \in 0 .. 7 : applied = 1 .. n
    /\ \A p \in Programs : prog[p].pc = "up" => applied = Versions
    /\ users # {} => old = None

\* Once there are users, each session and card is some user's: the constant 1 that
\* 0004 gives to old sessions is the id the bootstrap then gives the owner, whatever
\* stops between the two.
RowsHaveUsers ==
    users # {} =>
        /\ \A s \in DOMAIN sessions : sessions[s] \in users
        /\ \A row \in srs : row[1] \in users

\* Stopped at any step, a program that had the file to itself leaves a config that
\* the next one can read (Save writes a second file and renames it).
ConfigReadable == ~ overlap /\ cfg # None => content[cfg] # Empty

\* The owner's token is in config.json, and so in the setup link that every start
\* prints: it is on disk before the owner's row takes it, and no later start takes
\* another (main.go lines 50 to 82), wherever programs are killed.  It is lost only
\* when the operator deletes it: Load then draws another token, and the fast path of
\* EnsureOwnerUser leaves the deleted one in the owner's row.
OwnerTokenOnDisk ==
    ~ overlap /\ owner # None /\ owner.token \notin forgotten
        => cfg # None /\ content[cfg] = owner.token

\* Every start comes to an end: the program is up, or has given up.
StartsEnd == \A p \in Programs :
    prog[p].pc \notin {"stopped", "up"} ~> prog[p].pc \in {"stopped", "up"}

(* What the source says and does not do. *)

\* 0005: "all FKs pointing at it (srs_state.task_id, attempts.task_id) keep
\* resolving after the rename"; README: all prior srs_state and attempts rows are
\* attached to the owner.  A migration loses no card and no attempt.
MigrationsKeepProgress ==
    [][applied' # applied =>
          /\ attempts \subseteq attempts'
          /\ srs \subseteq srs'
          /\ old # None => old' # None /\ old \subseteq old']_vars
=============================================================================
