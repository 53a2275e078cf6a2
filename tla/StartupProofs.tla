---------------------------- MODULE StartupProofs ---------------------------
(* What is true of the files, the schema and the rows however programs start, *)
(* overlap and stop, for every set of programs, tokens and cards.             *)
EXTENDS Startup, FiniteSetTheorems, WellFoundedInduction, TLAPS

USE DEF history

-----------------------------------------------------------------------------
(* Operators *)

Below == {ss \in Nat \X Nat : ss[1] < ss[2]}

\* The first of the migrations left.
LEMMA LeastIs ==
    ASSUME NEW V \in SUBSET Nat, V # {}
    PROVE  Least(V) \in V /\ \A w \in V : Least(V) <= w
<1>1. IsWellFoundedOn(Below, Nat)
    BY NatLessThanWellFounded DEF OpToRel, Below
<1>2. PICK n \in V : \A k \in V : <<k, n>> \notin Below
    BY <1>1, WFMin
<1>3. \A k \in V : ~ (k < n) BY <1>2 DEF Below
<1>4. \A k \in V : n <= k BY <1>3
<1> QED BY <1>4 DEF Least

\* There is an inode for a new file.
FreeInode == CHOOSE j \in Inodes \ InUse : TRUE

LEMMA FreeInodeIs ==
    ASSUME tmp = None
    PROVE  FreeInode \in Inodes /\ FreeInode \notin InUse
<1> DEFINE fds == {prog[q].fd : q \in Programs}
<1>0. IsFiniteSet(Programs) /\ Cardinality(Programs) \in Nat
    BY StartupAssumption, FS_CardinalityType
<1>1. IsFiniteSet(fds) /\ Cardinality(fds) \in Nat /\ Cardinality(fds) <= Cardinality(Programs)
    <2> DEFINE f == [q \in Programs |-> prog[q].fd]
    <2>1. f \in Surjection(Programs, fds) BY DEF Surjection
    <2> HIDE DEF f, fds
    <2> QED BY <1>0, <2>1, FS_Surjection, FS_CardinalityType
<1> HIDE DEF fds
<1>2. /\ IsFiniteSet({cfg} \cup fds) /\ Cardinality({cfg} \cup fds) \in Nat
      /\ Cardinality({cfg} \cup fds) <= Cardinality(Programs) + 1
    <2>1. {cfg} \cup fds = fds \cup {cfg} OBVIOUS
    <2>2. Cardinality(fds \cup {cfg}) \in {Cardinality(fds), Cardinality(fds) + 1}
        BY <1>1, FS_AddElement
    <2>3. IsFiniteSet(fds \cup {cfg}) BY <1>1, FS_AddElement
    <2>4. Cardinality(fds \cup {cfg}) \in Nat
          /\ Cardinality(fds \cup {cfg}) <= Cardinality(Programs) + 1
        BY <1>0, <1>1, <2>2
    <2> QED BY <2>1, <2>3, <2>4, Zenon
<1>3. Cardinality(Inodes) = Cardinality(Programs) + 2
    <2>1. Cardinality(Programs) + 2 \in Int /\ 1 \in Int BY <1>0
    <2> QED BY <1>0, <2>1, FS_Interval DEF Inodes
<1>4. InUse \subseteq {cfg} \cup fds BY DEF InUse, fds
<1>5. ASSUME Inodes \subseteq InUse PROVE FALSE
    <2>1. Inodes \subseteq {cfg} \cup fds BY <1>4, <1>5
    <2>2. Cardinality(Inodes) <= Cardinality({cfg} \cup fds) BY <1>2, <2>1, FS_Subset
    <2> QED BY <1>0, <1>2, <1>3, <2>2
<1>6. \E j : j \in Inodes \ InUse BY <1>5
<1> QED BY <1>6 DEF FreeInode

-----------------------------------------------------------------------------
(* Types *)

PCs == Saving \cup {"stopped", "migrate", "apply", "ensure", "up"}
ProgOK ==
    /\ prog \in [Programs -> [pc : PCs, token : Tokens \cup {None},
                              fd : Inodes \cup {None}, todo : SUBSET Versions]]
    /\ \A p \in Programs : prog[p].pc # "stopped" => prog[p].token \in Tokens
FilesOK ==
    /\ content \in [Inodes -> Tokens \cup {Empty, NoToken}]
    /\ cfg \in Inodes \cup {None} /\ tmp \in Inodes \cup {None}
    /\ overlap \in BOOLEAN /\ forgotten \subseteq Tokens
DbOK ==
    /\ applied \subseteq Versions
    /\ users \subseteq UserIds
    /\ nextUser \in 1 .. MaxUser + 1
    /\ users = {} => nextUser <= MaxUser
    /\ owner = None \/ owner \in [id : UserIds, token : Tokens]
    /\ old = None \/ old \subseteq Cards
    /\ srs \subseteq UserIds \X Cards
    /\ DOMAIN sessions \subseteq {1}
    /\ \A s \in DOMAIN sessions : sessions[s] \in UserIds \cup {0}
    /\ attempts \subseteq Cards
TypeInv == ProgOK /\ FilesOK /\ DbOK

LEMMA TypeInvType == TypeInv => TypeOK
<1>1. nextUser \in 1 .. MaxUser + 1 => nextUser \in 1 .. MaxUser + 2
    BY StartupAssumption
<1> QED BY <1>1 DEF TypeInv, ProgOK, FilesOK, DbOK, TypeOK, PCs

LEMMA TypeInit == Init => TypeInv
<1> SUFFICES ASSUME Init PROVE TypeInv
    OBVIOUS
<1>1. ProgOK BY DEF Init, ProgOK, PCs, Stopped
<1>2. 1 \in Inodes
    BY StartupAssumption, FS_CardinalityType DEF Inodes
<1>3. PICK install \in Installs :
          /\ Found(install)
          /\ owner = IF install = "multi" THEN [id |-> 1, token |-> OldToken] ELSE None
          /\ cfg \in IF install = "fresh" THEN {None, 1} ELSE {1}
          /\ content = [i \in Inodes |-> IF i # cfg THEN Empty
                                         ELSE IF install = "fresh" THEN NoToken ELSE OldToken]
    BY DEF Init
<1>4. FilesOK BY <1>2, <1>3, StartupAssumption DEF FilesOK, Init
<1>5. install \in {"fresh", "single", "multi"} /\ MaxUser \in Nat \ {0}
    BY StartupAssumption
<1>6. 1 \in UserIds /\ 1 \in 1 .. MaxUser + 1 BY <1>5 DEF UserIds
<1>7. CASE install = "fresh"
    <2>1. /\ applied = {} /\ users = {} /\ nextUser = 1 /\ old = None /\ srs = {}
          /\ sessions = <<>> /\ attempts = {} /\ owner = None
        BY <1>3, <1>7 DEF Found
    <2> QED BY <2>1, <1>1, <1>4, <1>5, <1>6 DEF TypeInv, DbOK
<1>8. CASE install = "single"
    <2>1. /\ applied = 1 .. 3 /\ users = {} /\ nextUser = 1 /\ old = Cards /\ srs = {}
          /\ sessions = <<0>> /\ attempts = Cards /\ owner = None
        BY <1>3, <1>8 DEF Found
    <2>2. applied \subseteq Versions BY <2>1 DEF Versions
    <2> QED BY <2>1, <2>2, <1>1, <1>4, <1>5, <1>6 DEF TypeInv, DbOK
<1>9. CASE install = "multi"
    <2>1. /\ applied = 1 .. 4 /\ users = {1} /\ nextUser = 2 /\ old = None
          /\ srs = {1} \X Cards /\ sessions = <<1>> /\ attempts = Cards
          /\ owner = [id |-> 1, token |-> OldToken] /\ OldToken \in Tokens
        BY <1>3, <1>9, StartupAssumption DEF Found
    <2>2. applied \subseteq Versions BY <2>1 DEF Versions
    <2>3. nextUser \in 1 .. MaxUser + 1 BY <2>1, <1>5
    <2> QED BY <2>1, <2>2, <2>3, <1>1, <1>4, <1>6 DEF TypeInv, DbOK
<1> QED BY <1>5, <1>7, <1>8, <1>9

LEMMA DieProg ==
    ASSUME ProgOK, NEW p \in Programs, Die(p)
    PROVE  ProgOK'
BY DEF ProgOK, Die, Stopped, PCs

LEMMA GotoProg ==
    ASSUME ProgOK, NEW p \in Programs, NEW pc \in PCs, prog[p].pc # "stopped", Goto(p, pc)
    PROVE  ProgOK'
BY DEF ProgOK, Goto

LEMMA EffectType ==
    ASSUME DbOK, NEW v \in Versions, Effect(v)
    PROVE  /\ UNCHANGED <<users, nextUser, owner>>
           /\ old' = None \/ old' \subseteq Cards
           /\ srs' \in {srs, {}} /\ attempts' \in {attempts, {}}
           /\ DOMAIN sessions' = DOMAIN sessions
           /\ \A s \in DOMAIN sessions' : sessions'[s] \in {sessions[s], 1}
           /\ v # 1 /\ old = None => old' = None
           /\ v # 4 => sessions' = sessions
           /\ v = 4 => \A s \in DOMAIN sessions' : sessions'[s] = 1
<1>0. v = 1 \/ v \in {2, 3, 6} \/ v = 4 \/ v \in {5, 7} BY DEF Versions
<1>1. CASE v = 1 BY <1>1 DEF Effect, Create, NoRows
<1>2. CASE v \in {2, 3, 6}
    <2>1. AddColumn
        <3>1. CASE v = 2 BY <3>1 DEF Effect
        <3>2. CASE v = 3 BY <3>2 DEF Effect
        <3>3. CASE v = 6 BY <3>3 DEF Effect
        <3> QED BY <1>2, <3>1, <3>2, <3>3
    <2>2. UNCHANGED <<users, nextUser, owner, old, srs, sessions, attempts>>
        BY <2>1 DEF AddColumn, NoRows
    <2> QED BY <1>2, <2>2 DEF DbOK
<1>3. CASE v = 4 BY <1>3 DEF Effect, MultiUser, DbOK
<1>4. CASE v \in {5, 7}
    <2>1. RebuildTasks
        <3>1. CASE v = 5 BY <3>1 DEF Effect
        <3>2. CASE v = 7 BY <3>2 DEF Effect
        <3> QED BY <1>4, <3>1, <3>2
    <2>2. /\ old' = IF old = None THEN None ELSE {}
          /\ srs' = {} /\ attempts' = {} /\ UNCHANGED <<users, nextUser, owner, sessions>>
        BY <2>1 DEF RebuildTasks
    <2> QED BY <1>4, <2>2
<1> QED BY <1>0, <1>1, <1>2, <1>3, <1>4

LEMMA TypeNext == TypeInv /\ [Next]_vars => TypeInv'
<1> SUFFICES ASSUME TypeInv, [Next]_vars PROVE TypeInv'
    OBVIOUS
<1> USE DEF TypeInv
<1>0. MaxUser \in Nat /\ None \notin Nat BY StartupAssumption
<1>a. ASSUME UNCHANGED db PROVE DbOK' BY <1>a DEF db, DbOK
<1>b. ASSUME UNCHANGED <<files, history>> PROVE FilesOK' BY <1>b DEF files, FilesOK
<1>1. CASE UNCHANGED vars
    <2>1. ProgOK' BY <1>1 DEF vars, ProgOK
    <2> QED BY <1>1, <2>1, <1>a, <1>b DEF vars
<1>2. ASSUME NEW p \in Programs, Load(p) PROVE TypeInv'
    <2>1. PICK t \in Tokens :
             prog' = [prog EXCEPT ![p].pc = "create", ![p].token = t]
        BY <1>2 DEF Load, NoneSet, FilesOK
    <2>2. ProgOK' BY <2>1, ZenonT(60) DEF ProgOK, PCs, Saving
    <2>3. FilesOK' BY <1>2 DEF Load, FilesOK, files
    <2> QED BY <1>2, <2>2, <2>3, <1>a DEF Load
<1>3. ASSUME NEW p \in Programs, CreateTmp(p) PROVE TypeInv'
    <2> DEFINE i == IF tmp # None THEN tmp ELSE FreeInode
    <2>1. /\ prog[p].pc = "create" /\ tmp' = i
          /\ content' = [content EXCEPT ![i] = Empty]
          /\ prog' = [prog EXCEPT ![p].pc = "write", ![p].fd = i]
          /\ UNCHANGED <<cfg, db, history>>
        BY <1>3 DEF CreateTmp, FreeInode
    <2>2. i \in Inodes BY FreeInodeIs DEF FilesOK
    <2> HIDE DEF i
    <2>3. ProgOK' BY <2>1, <2>2, ZenonT(60) DEF ProgOK, PCs, Saving
    <2>4. FilesOK' BY <2>1, <2>2 DEF FilesOK
    <2> QED BY <2>1, <2>3, <2>4, <1>a
<1>4. ASSUME NEW p \in Programs, WriteTmp(p) PROVE TypeInv'
    <2>1. prog[p].token \in Tokens BY <1>4 DEF WriteTmp, ProgOK
    <2>2. ProgOK' BY <1>4, ZenonT(60) DEF WriteTmp, ProgOK, PCs, Saving
    <2>3. FilesOK' BY <1>4, <2>1 DEF WriteTmp, FilesOK
    <2> QED BY <1>4, <2>2, <2>3, <1>a DEF WriteTmp
<1>5. ASSUME NEW p \in Programs, RenameTmp(p) PROVE TypeInv'
    <2>1. ProgOK' BY <1>5, DieProg, GotoProg DEF RenameTmp, PCs
    <2>2. FilesOK'
        <3>1. CASE tmp = None BY <1>5, <3>1, <1>b DEF RenameTmp
        <3>2. CASE tmp # None
            <4>1. /\ cfg' = tmp /\ tmp' = None /\ UNCHANGED history
                  /\ content' = [i \in Inodes |->
                                    IF i = cfg /\ i # tmp THEN Empty ELSE content[i]]
                BY <1>5, <3>2 DEF RenameTmp
            <4> QED BY <3>2, <4>1 DEF FilesOK
        <3> QED BY <3>1, <3>2
    <2> QED BY <1>5, <2>1, <2>2, <1>a DEF RenameTmp
<1>6. ASSUME NEW p \in Programs, ReadApplied(p) PROVE TypeInv'
    <2>1. ProgOK' BY <1>6, ZenonT(60) DEF ReadApplied, ProgOK, PCs
    <2> QED BY <1>6, <2>1, <1>a, <1>b DEF ReadApplied
<1>7. ASSUME NEW p \in Programs, Apply(p) PROVE TypeInv'
    <2> DEFINE v == Least(prog[p].todo)
    <2>1. v \in Versions
        <3>1. prog[p].todo \in SUBSET Versions /\ prog[p].todo # {}
            BY <1>7 DEF Apply, ProgOK
        <3>2. prog[p].todo \in SUBSET Nat BY <3>1 DEF Versions
        <3> QED BY <3>1, <3>2, LeastIs
    <2>2. CASE v \in applied
        <3>1. Die(p) /\ UNCHANGED <<db, files, history>> BY <1>7, <2>2 DEF Apply
        <3> QED BY <3>1, DieProg, <1>a, <1>b
    <2>3. CASE v \notin applied
        <3>1. /\ Effect(v) /\ applied' = applied \cup {v}
              /\ prog' = [prog EXCEPT ![p].todo = @ \ {v}]
              /\ UNCHANGED <<files, history>>
            BY <1>7, <2>3 DEF Apply
        <3> HIDE DEF v
        <3>2. ProgOK' BY <3>1 DEF ProgOK
        <3>3. 1 \in UserIds BY <1>0 DEF UserIds
        <3>4. DbOK' BY <2>1, <3>1, <3>3, EffectType DEF DbOK
        <3> QED BY <3>1, <3>2, <3>4, <1>b
    <2> QED BY <2>2, <2>3
<1>8. ASSUME NEW p \in Programs, Migrated(p) PROVE TypeInv'
    <2>1. ProgOK' BY <1>8, GotoProg DEF Migrated, PCs
    <2> QED BY <1>8, <2>1, <1>a, <1>b DEF Migrated
<1>9. ASSUME NEW p \in Programs, EnsureOwnerUser(p) PROVE TypeInv'
    <2>1. ProgOK' BY <1>9, GotoProg DEF EnsureOwnerUser, PCs
    <2>2. CASE users # {} BY <1>9, <2>1, <2>2, <1>a, <1>b DEF EnsureOwnerUser, db
    <2>3. CASE users = {}
        <3>1. /\ users' = {nextUser} /\ nextUser' = nextUser + 1
              /\ owner' = [id |-> nextUser, token |-> prog[p].token]
              /\ srs' = IF old = None THEN srs ELSE srs \cup ({nextUser} \X old)
              /\ old' = None
              /\ UNCHANGED <<files, applied, sessions, attempts, history>>
            BY <1>9, <2>3 DEF EnsureOwnerUser
        <3>2. nextUser \in UserIds /\ nextUser' \in 1 .. MaxUser + 1
            BY <2>3, <3>1, <1>0 DEF DbOK, UserIds
        <3>3. prog[p].token \in Tokens BY <1>9 DEF EnsureOwnerUser, ProgOK
        <3>4. DbOK' BY <3>1, <3>2, <3>3 DEF DbOK
        <3> QED BY <3>1, <3>4, <2>1, <1>b
    <2> QED BY <2>2, <2>3
<1>10. ASSUME NEW p \in Programs, AddUser(p) PROVE TypeInv'
    <2>1. /\ users' = users \cup {nextUser} /\ nextUser' = nextUser + 1
          /\ nextUser <= MaxUser
          /\ UNCHANGED <<files, applied, owner, old, srs, sessions, attempts, history>>
        BY <1>10 DEF AddUser
    <2>2. nextUser \in UserIds /\ nextUser' \in 1 .. MaxUser + 1
        BY <2>1, <1>0 DEF DbOK, UserIds
    <2>3. DbOK' BY <2>1, <2>2 DEF DbOK
    <2> QED BY <1>10, <2>1, <2>3, DieProg, <1>b DEF AddUser
<1>11. ASSUME NEW p \in Programs, DeleteUser(p) PROVE TypeInv'
    <2>1. PICK u \in users :
             /\ users' = users \ {u}
             /\ owner' = IF owner # None /\ owner.id = u THEN None ELSE owner
             /\ srs' = {row \in srs : row[1] # u}
             /\ sessions' = [s \in {x \in DOMAIN sessions : sessions[x] # u} |-> sessions[s]]
             /\ attempts' = IF \E s \in DOMAIN sessions : sessions[s] = u THEN {} ELSE attempts
        BY <1>11 DEF DeleteUser
    <2>2. UNCHANGED <<files, applied, nextUser, old, history>> /\ nextUser <= MaxUser
        BY <1>11 DEF DeleteUser
    <2>3. /\ DOMAIN sessions' \subseteq DOMAIN sessions
          /\ \A s \in DOMAIN sessions' : sessions'[s] = sessions[s]
        BY <2>1
    <2>4. attempts' \subseteq attempts /\ srs' \subseteq srs /\ owner' \in {None, owner}
        BY <2>1
    <2>5. DbOK' BY <2>1, <2>2, <2>3, <2>4 DEF DbOK
    <2> QED BY <1>11, <2>2, <2>5, DieProg, <1>b DEF DeleteUser
<1>12. ASSUME NEW p \in Programs, Stop(p) PROVE TypeInv'
    BY <1>12, DieProg, <1>a, <1>b DEF Stop
<1>13. ASSUME NEW p \in Programs, WriteFails(p) PROVE TypeInv'
    <2>1. prog[p].token \in Tokens BY <1>13 DEF WriteFails, ProgOK
    <2>2. FilesOK' BY <1>13, <2>1 DEF WriteFails, FilesOK
    <2> QED BY <1>13, <2>2, DieProg, <1>a DEF WriteFails
<1>14. ASSUME ForgetToken PROVE TypeInv'
    <2>1. cfg # None /\ content[cfg] \in Tokens BY <1>14 DEF ForgetToken, NoneSet, FilesOK
    <2>2. FilesOK' BY <1>14, <2>1 DEF ForgetToken, FilesOK
    <2>3. ProgOK' BY <1>14 DEF ForgetToken, ProgOK
    <2> QED BY <1>14, <2>2, <2>3, <1>a DEF ForgetToken
<1> QED
    BY <1>1, <1>2, <1>3, <1>4, <1>5, <1>6, <1>7, <1>8, <1>9, <1>10, <1>11, <1>12, <1>13, <1>14
    DEF Next, Progress

\* Files, tables and programs keep their shape; there is an inode for every new file
\* and an id for every new user.
THEOREM TypeCorrect == Spec => []TypeOK
BY TypeInit, TypeNext, TypeInvType, PTL DEF Spec

-----------------------------------------------------------------------------
(* The schema *)

\* What a program still means to apply is all that is not applied, and none is past its
\* migrations before all are; there are no users before the tables 0004 makes.
MigInv ==
    /\ \E n \in 0 .. 7 : applied = 1 .. n
    /\ \A p \in Programs :
          /\ prog[p].pc = "apply" => Versions \ applied \subseteq prog[p].todo
          /\ prog[p].pc \in {"ensure", "up"} => applied = Versions
          /\ prog[p].pc = "up" => old = None
    /\ users # {} => 4 \in applied /\ old = None

LEMMA MigInit == Init => MigInv
<1> SUFFICES ASSUME Init PROVE MigInv
    OBVIOUS
<1>1. \A p \in Programs : prog[p].pc = "stopped" BY DEF Init, Stopped
<1>2. PICK install \in {"fresh", "single", "multi"} : Found(install)
    BY StartupAssumption DEF Init
<1>3. CASE install = "fresh"
    <2>1. applied = {} /\ users = {} BY <1>2, <1>3 DEF Found
    <2>2. applied = 1 .. 0 BY <2>1
    <2> QED BY <1>1, <2>1, <2>2 DEF MigInv
<1>4. CASE install = "single"
    <2>1. applied = 1 .. 3 /\ users = {} BY <1>2, <1>4 DEF Found
    <2> QED BY <1>1, <2>1 DEF MigInv
<1>5. CASE install = "multi"
    <2>1. applied = 1 .. 4 /\ old = None BY <1>2, <1>5 DEF Found
    <2> QED BY <1>1, <2>1 DEF MigInv
<1> QED BY <1>2, <1>3, <1>4, <1>5

\* The migration a program applies is the next one.
LEMMA NextMigration ==
    ASSUME TypeInv, MigInv, NEW p \in Programs, Apply(p)
    PROVE  \/ Die(p) /\ UNCHANGED db
           \/ \E v \in Versions :
                 /\ v \notin applied /\ applied = 1 .. v - 1 /\ applied' = 1 .. v
                 /\ applied' = applied \cup {v}
                 /\ Effect(v)
                 /\ prog' = [prog EXCEPT ![p].todo = @ \ {v}]
<1> DEFINE v == Least(prog[p].todo)
<1>1. /\ prog[p].pc = "apply" /\ prog[p].todo # {} /\ prog[p].todo \in SUBSET Versions
      /\ Versions \ applied \subseteq prog[p].todo
    BY DEF Apply, TypeInv, ProgOK, MigInv
<1>2. prog[p].todo \in SUBSET Nat BY <1>1 DEF Versions
<1>3. v \in prog[p].todo /\ \A w \in prog[p].todo : v <= w BY <1>1, <1>2, LeastIs
<1>4. \/ v \in applied /\ Die(p) /\ UNCHANGED db
      \/ /\ v \notin applied /\ Effect(v) /\ applied' = applied \cup {v}
         /\ prog' = [prog EXCEPT ![p].todo = @ \ {v}]
    BY DEF Apply
<1> HIDE DEF v
<1>5. PICK n \in 0 .. 7 : applied = 1 .. n BY DEF MigInv
<1>6. ASSUME v \notin applied PROVE v \in Versions /\ v = n + 1
    <2>1. v \in 1 .. 7 /\ n < v BY <1>1, <1>3, <1>5, <1>6 DEF Versions
    <2>2. n + 1 \in Versions \ applied BY <2>1, <1>5 DEF Versions
    <2>3. v <= n + 1 BY <2>2, <1>1, <1>3
    <2> QED BY <2>1, <2>3 DEF Versions
<1>7. ASSUME v \notin applied
      PROVE  applied = 1 .. v - 1 /\ applied \cup {v} = 1 .. v
    BY <1>5, <1>6, <1>7
<1> QED BY <1>4, <1>6, <1>7

LEMMA MigNext == TypeInv /\ MigInv /\ [Next]_vars => MigInv'
<1> SUFFICES ASSUME TypeInv, MigInv, [Next]_vars PROVE MigInv'
    OBVIOUS
<1>0. prog \in [Programs -> [pc : PCs, token : Tokens \cup {None}, fd : Inodes \cup {None},
                             todo : SUBSET Versions]]
    BY DEF TypeInv, ProgOK
\* A program that dies, or moves where nothing is asked of it.
<1>a. ASSUME applied' = applied, old' \in {old, None},
             \A p \in Programs :
                \/ prog'[p].pc = prog[p].pc /\ prog'[p].todo = prog[p].todo
                \/ prog'[p].pc \notin {"apply", "ensure", "up"}
                \/ prog[p].pc = "ensure" /\ prog'[p].pc = "up" /\ old' = None,
             \/ users' = {}
             \/ users # {}
             \/ 4 \in applied /\ old' = None
      PROVE  MigInv'
    <2>1. ASSUME NEW p \in Programs
          PROVE  /\ prog'[p].pc = "apply" => Versions \ applied' \subseteq prog'[p].todo
                 /\ prog'[p].pc \in {"ensure", "up"} => applied' = Versions
                 /\ prog'[p].pc = "up" => old' = None
        BY <1>a DEF MigInv
    <2>2. users' # {} => 4 \in applied' /\ old' = None BY <1>a DEF MigInv
    <2> QED BY <2>1, <2>2, <1>a DEF MigInv
<1>b. ASSUME NEW p \in Programs, Die(p)
      PROVE  \A q \in Programs :
                \/ prog'[q].pc = prog[q].pc /\ prog'[q].todo = prog[q].todo
                \/ prog'[q].pc \notin {"apply", "ensure", "up"}
    BY <1>b, <1>0 DEF Die, Stopped
<1>1. CASE UNCHANGED vars BY <1>1, <1>a DEF vars, db
<1>2. ASSUME NEW p \in Programs, Load(p) \/ CreateTmp(p) \/ WriteTmp(p) PROVE MigInv'
    <2>1. \A q \in Programs : q # p => prog'[q] = prog[q]
        BY <1>2, <1>0 DEF Load, CreateTmp, WriteTmp
    <2>2. prog'[p].pc \in {"create", "write", "rename"}
        BY <1>2, <1>0 DEF Load, CreateTmp, WriteTmp
    <2>3. UNCHANGED db BY <1>2 DEF Load, CreateTmp, WriteTmp
    <2> QED BY <2>1, <2>2, <2>3, <1>a DEF db
<1>3. ASSUME NEW p \in Programs, RenameTmp(p) PROVE MigInv'
    <2>1. CASE Die(p) BY <1>3, <2>1, <1>a, <1>b DEF RenameTmp, db
    <2>2. CASE Goto(p, "migrate")
        BY <1>3, <2>2, <1>0, <1>a DEF RenameTmp, Goto, db
    <2> QED BY <1>3, <2>1, <2>2 DEF RenameTmp
<1>4. ASSUME NEW p \in Programs, ReadApplied(p) PROVE MigInv'
    <2>1. /\ UNCHANGED <<applied, users, old>>
          /\ \A q \in Programs : q # p => prog'[q] = prog[q]
          /\ prog'[p].pc = "apply" /\ prog'[p].todo = Versions \ applied
        BY <1>4, <1>0 DEF ReadApplied, db
    <2> QED BY <2>1 DEF MigInv
<1>5. ASSUME NEW p \in Programs, Apply(p) PROVE MigInv'
    <2>1. CASE Die(p) /\ UNCHANGED db BY <2>1, <1>a, <1>b DEF db
    <2>2. ASSUME NEW v \in Versions,
                 /\ v \notin applied /\ applied = 1 .. v - 1 /\ applied' = 1 .. v
                 /\ applied' = applied \cup {v}
                 /\ Effect(v)
                 /\ prog' = [prog EXCEPT ![p].todo = @ \ {v}]
          PROVE  MigInv'
        <3>1. v \in 0 .. 7 BY DEF Versions
        <3>2. users' = users /\ (v # 1 /\ old = None => old' = None)
            BY <2>2, EffectType DEF TypeInv
        <3>3. users # {} => 4 \in applied' /\ old' = None
            <4>1. users # {} => v # 1 BY <2>2 DEF MigInv
            <4> QED BY <2>2, <3>2, <4>1 DEF MigInv
        <3>4. \A q \in Programs : /\ prog'[q].pc = prog[q].pc
                                  /\ prog[q].todo \ {v} \subseteq prog'[q].todo
            BY <2>2, <1>0
        <3>5. \A q \in Programs : prog[q].pc \notin {"ensure", "up"}
            BY <2>2 DEF MigInv
        <3>6. \A q \in Programs : prog[q].pc = "apply" =>
                 Versions \ applied' \subseteq prog'[q].todo
            BY <2>2, <3>4 DEF MigInv
        <3>7. \E n \in 0 .. 7 : applied' = 1 .. n BY <2>2, <3>1
        <3>8. \A q \in Programs :
                 /\ prog'[q].pc = "apply" => Versions \ applied' \subseteq prog'[q].todo
                 /\ prog'[q].pc \in {"ensure", "up"} => applied' = Versions
                 /\ prog'[q].pc = "up" => old' = None
            BY <3>4, <3>5, <3>6
        <3>9. users' # {} => 4 \in applied' /\ old' = None BY <3>2, <3>3
        <3> QED BY <3>7, <3>8, <3>9, Zenon DEF MigInv
    <2> QED BY <1>5, <2>1, <2>2, NextMigration
<1>6. ASSUME NEW p \in Programs, Migrated(p) PROVE MigInv'
    <2>1. /\ UNCHANGED <<applied, users, old>>
          /\ \A q \in Programs : q # p => prog'[q] = prog[q]
          /\ prog'[p].pc = "ensure" /\ prog[p].pc = "apply" /\ prog[p].todo = {}
        BY <1>6, <1>0 DEF Migrated, Goto, db
    <2>2. applied = Versions BY <2>1 DEF MigInv, TypeInv, DbOK
    <2> QED BY <2>1, <2>2 DEF MigInv
<1>7. ASSUME NEW p \in Programs, EnsureOwnerUser(p) PROVE MigInv'
    <2>1. /\ prog[p].pc = "ensure" /\ prog'[p].pc = "up" /\ applied' = applied
          /\ \A q \in Programs : q # p => prog'[q] = prog[q]
        BY <1>7, <1>0 DEF EnsureOwnerUser, Goto
    <2>2. applied = Versions /\ 4 \in Versions BY <2>1 DEF MigInv, Versions
    <2>3. old' = None BY <1>7 DEF EnsureOwnerUser, MigInv
    <2> QED BY <2>1, <2>2, <2>3, <1>a
<1>8. ASSUME NEW p \in Programs, AddUser(p) PROVE MigInv'
    <2>1. prog[p].pc = "up" /\ Die(p) /\ UNCHANGED <<applied, old>> BY <1>8 DEF AddUser
    <2>2. 4 \in applied /\ old = None BY <2>1 DEF MigInv, Versions
    <2> QED BY <2>1, <2>2, <1>a, <1>b
<1>9. ASSUME NEW p \in Programs, DeleteUser(p) PROVE MigInv'
    BY <1>9, <1>a, <1>b DEF DeleteUser
<1>10. ASSUME NEW p \in Programs, Stop(p) PROVE MigInv'
    BY <1>10, <1>a, <1>b DEF Stop, db
<1>11. ASSUME NEW p \in Programs, WriteFails(p) PROVE MigInv'
    BY <1>11, <1>a, <1>b DEF WriteFails, db
<1>12. CASE ForgetToken BY <1>12, <1>a DEF ForgetToken, db
<1> QED
    BY <1>1, <1>2, <1>3, <1>4, <1>5, <1>6, <1>7, <1>8, <1>9, <1>10, <1>11, <1>12
    DEF Next, Progress

\* Migrations are recorded without a gap, however many programs apply them and wherever
\* they die, and a program that is up runs on all of them with the old cards handed over.
THEOREM SchemaComplete == Spec => []UpIsComplete
<1>1. MigInv => UpIsComplete BY DEF MigInv, UpIsComplete
<1> QED BY <1>1, TypeInit, TypeNext, MigInit, MigNext, PTL DEF Spec

-----------------------------------------------------------------------------
(* Rows *)

\* Before the first user, or after the last, a session is of the id the next user gets.
RowInv ==
    /\ RowsHaveUsers
    /\ users = {} =>
          /\ srs = {}
          /\ 4 \in applied => \A s \in DOMAIN sessions : sessions[s] = nextUser
    /\ 4 \notin applied => nextUser = 1

LEMMA RowInit == Init => RowInv
<1> SUFFICES ASSUME Init PROVE RowInv
    OBVIOUS
<1>1. PICK install \in {"fresh", "single", "multi"} : Found(install)
    BY StartupAssumption DEF Init
<1>2. CASE install = "fresh"
    BY <1>1, <1>2 DEF Found, RowInv, RowsHaveUsers
<1>3. CASE install = "single"
    BY <1>1, <1>3 DEF Found, RowInv, RowsHaveUsers
<1>4. CASE install = "multi"
    <2>1. applied = 1 .. 4 /\ users = {1} /\ srs = {1} \X Cards /\ sessions = <<1>>
        BY <1>1, <1>4 DEF Found
    <2> QED BY <2>1 DEF RowInv, RowsHaveUsers
<1> QED BY <1>1, <1>2, <1>3, <1>4

LEMMA RowNext == TypeInv /\ MigInv /\ RowInv /\ [Next]_vars => RowInv'
<1> SUFFICES ASSUME TypeInv, MigInv, RowInv, [Next]_vars PROVE RowInv'
    OBVIOUS
<1>a. ASSUME UNCHANGED <<applied, users, nextUser, srs, sessions>> PROVE RowInv'
    BY <1>a DEF RowInv, RowsHaveUsers
<1>1. CASE UNCHANGED vars BY <1>1, <1>a DEF vars, db
<1>2. ASSUME NEW p \in Programs,
             \/ Load(p) \/ CreateTmp(p) \/ WriteTmp(p) \/ RenameTmp(p) \/ ReadApplied(p)
             \/ Migrated(p) \/ WriteFails(p) \/ Stop(p)
      PROVE  RowInv'
    BY <1>2, <1>a
    DEF Load, CreateTmp, WriteTmp, RenameTmp, ReadApplied, Migrated, WriteFails, Stop, db
<1>3. ASSUME NEW p \in Programs, Apply(p) PROVE RowInv'
    <2>1. CASE Die(p) /\ UNCHANGED db BY <2>1, <1>a DEF db
    <2>2. ASSUME NEW v \in Versions,
                 v \notin applied, applied' = applied \cup {v}, Effect(v)
          PROVE  RowInv'
        <3>1. /\ UNCHANGED <<users, nextUser>> /\ srs' \in {srs, {}}
              /\ DOMAIN sessions' = DOMAIN sessions
              /\ v # 4 => sessions' = sessions
              /\ v = 4 => \A s \in DOMAIN sessions' : sessions'[s] = 1
            BY <2>2, EffectType DEF TypeInv
        <3>2. CASE v = 4
            <4>1. users' = {} /\ nextUser' = 1
                BY <2>2, <3>1, <3>2 DEF MigInv, RowInv
            <4>2. srs' = {} BY <3>1, <4>1 DEF RowInv
            <4>3. \A s \in DOMAIN sessions' : sessions'[s] = nextUser'
                BY <3>1, <3>2, <4>1
            <4> QED BY <4>1, <4>2, <4>3 DEF RowInv, RowsHaveUsers
        <3>3. CASE v # 4
            BY <2>2, <3>1, <3>3 DEF RowInv, RowsHaveUsers
        <3> QED BY <3>2, <3>3
    <2> QED BY <1>3, <2>1, <2>2, NextMigration
<1>4. ASSUME NEW p \in Programs, EnsureOwnerUser(p) PROVE RowInv'
    <2>1. 4 \in applied /\ applied' = applied
        BY <1>4 DEF EnsureOwnerUser, MigInv, Versions
    <2>2. CASE users # {} BY <1>4, <2>2, <1>a DEF EnsureOwnerUser
    <2>3. CASE users = {}
        <3>1. /\ users' = {nextUser} /\ sessions' = sessions
              /\ srs' \in {srs, srs \cup ({nextUser} \X old)}
            BY <1>4, <2>3 DEF EnsureOwnerUser
        <3>2. \A row \in srs' : row[1] = nextUser BY <2>3, <3>1 DEF RowInv
        <3>3. \A s \in DOMAIN sessions' : sessions'[s] = nextUser
            BY <2>1, <2>3, <3>1 DEF RowInv
        <3> QED BY <2>1, <3>1, <3>2, <3>3 DEF RowInv, RowsHaveUsers
    <2> QED BY <2>2, <2>3
<1>5. ASSUME NEW p \in Programs, AddUser(p) PROVE RowInv'
    <2>1. /\ users' = users \cup {nextUser} /\ prog[p].pc = "up"
          /\ UNCHANGED <<applied, srs, sessions>>
        BY <1>5 DEF AddUser
    <2>2. 4 \in applied BY <2>1 DEF MigInv, Versions
    <2>3. /\ \A s \in DOMAIN sessions : sessions[s] \in users'
          /\ \A row \in srs : row[1] \in users'
        BY <2>1, <2>2 DEF RowInv, RowsHaveUsers
    <2> QED BY <2>1, <2>2, <2>3 DEF RowInv, RowsHaveUsers
<1>6. ASSUME NEW p \in Programs, DeleteUser(p) PROVE RowInv'
    <2>1. PICK u \in users :
             /\ users' = users \ {u}
             /\ srs' = {row \in srs : row[1] # u}
             /\ sessions' = [s \in {x \in DOMAIN sessions : sessions[x] # u} |-> sessions[s]]
        BY <1>6 DEF DeleteUser
    <2>2. prog[p].pc = "up" /\ applied' = applied BY <1>6 DEF DeleteUser
    <2>3. 4 \in applied BY <2>2 DEF MigInv, Versions
    <2>4. \A row \in srs' : row[1] \in users' BY <2>1 DEF RowInv, RowsHaveUsers
    <2>5. \A s \in DOMAIN sessions' : sessions'[s] \in users'
        BY <2>1 DEF RowInv, RowsHaveUsers
    <2>6. users' = {} => srs' = {} /\ DOMAIN sessions' = {} BY <2>4, <2>5
    <2> QED BY <2>2, <2>3, <2>4, <2>5, <2>6 DEF RowInv, RowsHaveUsers
<1>7. CASE ForgetToken BY <1>7, <1>a DEF ForgetToken, db
<1> QED
    BY <1>1, <1>2, <1>3, <1>4, <1>5, <1>6, <1>7 DEF Next, Progress

\* Once there are users every session and card is one's: the constant 1 of migration
\* 0004 is the id the bootstrap gives, whatever stops between the two.
THEOREM RowsOwned == Spec => []RowsHaveUsers
<1>1. RowInv => RowsHaveUsers BY DEF RowInv
<1> QED BY <1>1, TypeInit, TypeNext, MigInit, MigNext, RowInit, RowNext, PTL DEF Spec

-----------------------------------------------------------------------------
(* The file *)

\* The token in config.json, and those the operator has taken out of it.
Kept == IF cfg = None THEN {} ELSE {content[cfg]} \cup forgotten

\* What makes a config readable when programs save one after another: the file being
\* written is never the one config.json names, it is whole before it is renamed, a
\* program saves the token of the file unless that has none, and the token of a program
\* past its rename is kept, as is the owner's.
FileInv == ~ overlap =>
    /\ \A p, q \in Programs : prog[p].pc \in Saving /\ prog[q].pc \in Saving => p = q
    /\ tmp # None => tmp # cfg
    /\ \A p \in Programs :
          /\ prog[p].pc = "write" => tmp # None /\ prog[p].fd = tmp
          /\ prog[p].pc = "rename" => tmp # None /\ content[tmp] = prog[p].token
          /\ prog[p].pc \in Saving => NoneSet \/ content[cfg] = prog[p].token
          /\ prog[p].pc \notin Saving \cup {"stopped"} => prog[p].token \in Kept
    /\ cfg # None => content[cfg] # Empty
    /\ owner # None => owner.token \in Kept

LEMMA FileInit == Init => FileInv
<1> SUFFICES ASSUME Init PROVE FileInv
    OBVIOUS
<1>1. PICK install \in Installs :
          /\ owner = IF install = "multi" THEN [id |-> 1, token |-> OldToken] ELSE None
          /\ cfg \in IF install = "fresh" THEN {None, 1} ELSE {1}
          /\ content = [i \in Inodes |-> IF i # cfg THEN Empty
                                         ELSE IF install = "fresh" THEN NoToken ELSE OldToken]
    BY DEF Init
<1>2. \A p \in Programs : prog[p].pc = "stopped" BY DEF Init, Stopped
<1>3. 1 \in Inodes /\ OldToken # Empty /\ NoToken # Empty /\ 1 # None
    BY StartupAssumption, FS_CardinalityType DEF Inodes
<1>4. /\ cfg # None => content[cfg] \in {OldToken, NoToken}
      /\ owner # None => cfg # None /\ content[cfg] = owner.token
    BY <1>1, <1>3
<1>5. tmp = None BY DEF Init
<1> QED BY <1>2, <1>3, <1>4, <1>5 DEF FileInv, Kept, Saving

\* A step that leaves the files alone, and takes no program into the save.
LEMMA FileAside ==
    ASSUME TypeInv, FileInv, UNCHANGED <<files, history>>,
           owner' \in {None, owner},
           \A p \in Programs : \/ prog'[p].pc = "stopped"
                               \/ prog'[p] = prog[p]
                               \/ /\ prog'[p].pc \notin Saving
                                  /\ prog[p].pc \notin Saving \cup {"stopped"}
                                  /\ prog'[p].token = prog[p].token
    PROVE  FileInv'
<1> SUFFICES ASSUME ~ overlap PROVE FileInv'
    BY DEF FileInv
<1>1. /\ UNCHANGED <<content, cfg, tmp, history>> /\ NoneSet' = NoneSet
      /\ Kept' = Kept
    BY DEF files, NoneSet, Kept
<1>2. \A p \in Programs : prog'[p].pc \in Saving => prog'[p] = prog[p] BY DEF Saving
<1>3. \A p, q \in Programs : prog'[p].pc \in Saving /\ prog'[q].pc \in Saving => p = q
    BY <1>2 DEF FileInv
<1>4. \A p \in Programs :
          /\ prog'[p].pc = "write" => tmp' # None /\ prog'[p].fd = tmp'
          /\ prog'[p].pc = "rename" => tmp' # None /\ content'[tmp'] = prog'[p].token
    BY <1>1, <1>2 DEF FileInv, Saving
<1>5. \A p \in Programs :
          prog'[p].pc \in Saving => NoneSet' \/ content'[cfg'] = prog'[p].token
    BY <1>1, <1>2 DEF FileInv
<1>6. \A p \in Programs :
          prog'[p].pc \notin Saving \cup {"stopped"} => prog[p].token \in Kept
    BY DEF FileInv
<1>7. \A p \in Programs :
          prog'[p].pc \notin Saving \cup {"stopped"} => prog'[p].token = prog[p].token
    OBVIOUS
<1>8. \A p \in Programs :
          prog'[p].pc \notin Saving \cup {"stopped"} => prog'[p].token \in Kept'
    BY <1>1, <1>6, <1>7
<1>9. cfg' # None => content'[cfg'] # Empty BY <1>1 DEF FileInv
<1>10. owner' # None => owner'.token \in Kept' BY <1>1 DEF FileInv
<1> QED BY <1>1, <1>3, <1>4, <1>5, <1>8, <1>9, <1>10 DEF FileInv

LEMMA FileNext == TypeInv /\ FileInv /\ [Next]_vars => FileInv'
<1> SUFFICES ASSUME TypeInv, FileInv, [Next]_vars PROVE FileInv'
    OBVIOUS
<1>0. /\ \A p \in Programs : DOMAIN prog[p] = {"pc", "token", "fd", "todo"}
      /\ DOMAIN prog = Programs
    BY DEF TypeInv, ProgOK
<1>a. ASSUME NEW p \in Programs, Die(p)
      PROVE  /\ prog'[p].pc = "stopped"
             /\ \A q \in Programs : q # p => prog'[q] = prog[q]
    BY <1>0, <1>a DEF Die, Stopped
<1>1. CASE UNCHANGED vars BY <1>1, FileAside DEF vars, db
<1>2. ASSUME NEW p \in Programs, Load(p) PROVE FileInv'
    <2> SUFFICES ASSUME ~ overlap' PROVE FileInv'
        BY DEF FileInv
    <2>1. /\ prog[p].pc = "stopped" /\ ~ overlap
          /\ UNCHANGED <<content, cfg, tmp, owner, forgotten>>
          /\ \A q \in Programs \ {p} : prog[q].pc \notin Saving
        BY <1>2 DEF Load, files, db
    <2>2. /\ \A q \in Programs : q # p => prog'[q] = prog[q]
          /\ prog'[p].pc = "create" /\ (NoneSet \/ content[cfg] = prog'[p].token)
        BY <1>2, <1>0 DEF Load
    <2>3. \A q \in Programs : prog'[q].pc \in Saving => q = p BY <2>1, <2>2
    <2>4. NoneSet' = NoneSet /\ Kept' = Kept BY <2>1 DEF NoneSet, Kept
    <2>5. \A q \in Programs : prog'[q].pc \notin Saving \cup {"stopped"} =>
             q # p /\ prog[q].token \in Kept
        BY <2>1, <2>2 DEF FileInv, Saving
    <2>6. \A q \in Programs : prog'[q].pc \notin Saving \cup {"stopped"} =>
             prog'[q].token \in Kept'
        BY <2>2, <2>4, <2>5
    <2>7. \A q \in Programs : prog'[q].pc \in Saving => NoneSet' \/ content'[cfg'] = prog'[q].token
        BY <2>1, <2>2, <2>3, <2>4
    <2>8. \A q \in Programs : prog'[q].pc \notin {"write", "rename"}
        BY <2>2, <2>3 DEF Saving
    <2>9. owner' # None => owner'.token \in Kept' BY <2>1, <2>4 DEF FileInv
    <2> QED BY <2>1, <2>3, <2>6, <2>7, <2>8, <2>9 DEF FileInv
<1>3. ASSUME NEW p \in Programs, CreateTmp(p) PROVE FileInv'
    <2> SUFFICES ASSUME ~ overlap PROVE FileInv'
        BY <1>3 DEF FileInv, CreateTmp
    <2> DEFINE i == IF tmp # None THEN tmp ELSE FreeInode
    <2>1. /\ prog[p].pc = "create" /\ tmp' = i
          /\ content' = [content EXCEPT ![i] = Empty]
          /\ prog' = [prog EXCEPT ![p].pc = "write", ![p].fd = i]
          /\ UNCHANGED <<cfg, owner, history>>
        BY <1>3 DEF CreateTmp, FreeInode, db
    <2>2. i # None /\ i # cfg
        <3>1. CASE tmp # None BY <3>1 DEF FileInv
        <3>2. CASE tmp = None
            <4>1. FreeInode \in Inodes /\ FreeInode \notin InUse BY <3>2, FreeInodeIs
            <4>2. None \notin Inodes
                BY StartupAssumption, FS_CardinalityType DEF Inodes
            <4> QED BY <3>2, <4>1, <4>2 DEF InUse
        <3> QED BY <3>1, <3>2
    <2> HIDE DEF i
    <2>3. cfg # None => content'[cfg] = content[cfg]
        BY <2>1, <2>2 DEF TypeInv, FilesOK
    <2>4. /\ \A q \in Programs : q # p => prog'[q] = prog[q]
          /\ prog'[p].pc = "write" /\ prog'[p].token = prog[p].token /\ prog'[p].fd = i
        BY <2>1, <1>0
    <2>5. \A q \in Programs : prog[q].pc \in Saving => q = p BY <2>1 DEF FileInv, Saving
    <2>6. \A q \in Programs : prog'[q].pc \in Saving => q = p BY <2>4, <2>5
    <2>7. \A q \in Programs : /\ prog'[q].pc = "write" => prog'[q].fd = tmp'
                              /\ prog'[q].pc # "rename"
        BY <2>1, <2>4, <2>6 DEF Saving
    <2>8. NoneSet' = NoneSet /\ Kept' = Kept
        BY <2>1, <2>3 DEF NoneSet, Kept
    <2>9. \A q \in Programs :
              /\ prog'[q].pc \in Saving => NoneSet \/ content[cfg] = prog'[q].token
              /\ prog'[q].pc \notin Saving \cup {"stopped"} => prog'[q].token \in Kept
        BY <2>1, <2>4 DEF FileInv, Saving
    <2>10. \A q \in Programs :
              /\ prog'[q].pc \in Saving => NoneSet' \/ content'[cfg'] = prog'[q].token
              /\ prog'[q].pc \notin Saving \cup {"stopped"} => prog'[q].token \in Kept'
        BY <2>1, <2>3, <2>8, <2>9 DEF NoneSet
    <2>11. owner' # None => owner'.token \in Kept' BY <2>1, <2>8 DEF FileInv
    <2> QED BY <2>1, <2>2, <2>3, <2>6, <2>7, <2>10, <2>11 DEF FileInv
<1>4. ASSUME NEW p \in Programs, WriteTmp(p) PROVE FileInv'
    <2> SUFFICES ASSUME ~ overlap PROVE FileInv'
        BY <1>4 DEF FileInv, WriteTmp
    <2>1. /\ prog[p].pc = "write" /\ tmp # None /\ prog[p].fd = tmp /\ tmp # cfg
          /\ content' = [content EXCEPT ![tmp] = prog[p].token]
          /\ prog' = [prog EXCEPT ![p].pc = "rename", ![p].fd = None]
          /\ UNCHANGED <<cfg, tmp, owner, history>>
        BY <1>4 DEF WriteTmp, FileInv, db
    <2>2. /\ cfg # None => content'[cfg] = content[cfg]
          /\ content'[tmp] = prog[p].token
        BY <2>1 DEF TypeInv, FilesOK
    <2>3. /\ \A q \in Programs : q # p => prog'[q] = prog[q]
          /\ prog'[p].pc = "rename" /\ prog'[p].token = prog[p].token
        BY <2>1, <1>0
    <2>4. \A q \in Programs : prog[q].pc \in Saving => q = p BY <2>1 DEF FileInv, Saving
    <2>5. \A q \in Programs : prog'[q].pc \in Saving => q = p BY <2>3, <2>4
    <2>6. \A q \in Programs : /\ prog'[q].pc # "write"
                              /\ prog'[q].pc = "rename" => content'[tmp] = prog'[q].token
        BY <2>2, <2>3, <2>5 DEF Saving
    <2>7. NoneSet' = NoneSet /\ Kept' = Kept
        BY <2>1, <2>2 DEF NoneSet, Kept
    <2>8. \A q \in Programs :
              /\ prog'[q].pc \in Saving => NoneSet \/ content[cfg] = prog'[q].token
              /\ prog'[q].pc \notin Saving \cup {"stopped"} => prog'[q].token \in Kept
        BY <2>1, <2>3 DEF FileInv, Saving
    <2>9. \A q \in Programs :
              /\ prog'[q].pc \in Saving => NoneSet' \/ content'[cfg'] = prog'[q].token
              /\ prog'[q].pc \notin Saving \cup {"stopped"} => prog'[q].token \in Kept'
        BY <2>1, <2>2, <2>7, <2>8 DEF NoneSet
    <2>10. owner' # None => owner'.token \in Kept' BY <2>1, <2>7 DEF FileInv
    <2> QED BY <2>1, <2>2, <2>5, <2>6, <2>9, <2>10 DEF FileInv
<1>5. ASSUME NEW p \in Programs, RenameTmp(p) PROVE FileInv'
    <2> SUFFICES ASSUME ~ overlap PROVE FileInv'
        BY <1>5 DEF FileInv, RenameTmp
    <2>1. /\ prog[p].pc = "rename" /\ tmp # None /\ content[tmp] = prog[p].token
          /\ Goto(p, "migrate") /\ cfg' = tmp /\ tmp' = None
          /\ content' = [i \in Inodes |-> IF i = cfg /\ i # tmp THEN Empty ELSE content[i]]
          /\ UNCHANGED <<owner, history>>
        BY <1>5 DEF RenameTmp, FileInv, db
    <2>2. /\ \A q \in Programs : q # p => prog'[q] = prog[q]
          /\ prog'[p].pc = "migrate" /\ prog'[p].token = prog[p].token
        BY <2>1, <1>0 DEF Goto
    <2>3. content'[cfg'] = prog[p].token BY <2>1 DEF TypeInv, FilesOK
    <2>4. prog[p].token \in Tokens BY <2>1 DEF TypeInv, ProgOK
    <2>5. prog[p].token # Empty /\ prog[p].token # NoToken BY <2>4, StartupAssumption
    <2>6. \A q \in Programs : prog[q].pc \in Saving => q = p BY <2>1 DEF FileInv, Saving
    <2>7. \A q \in Programs : prog'[q].pc \notin Saving BY <2>2, <2>6 DEF Saving
    \* What was kept is the token saved, or was taken out.
    <2>8. ASSUME NEW t \in Tokens, t \in Kept PROVE t \in Kept'
        <3>1. NoneSet \/ content[cfg] = prog[p].token BY <2>1 DEF FileInv, Saving
        <3>2. cfg # None /\ (content[cfg] = t \/ t \in forgotten) BY <2>8 DEF Kept
        <3>3. t # NoToken BY StartupAssumption
        <3>4. prog[p].token = t \/ t \in forgotten BY <3>1, <3>2, <3>3 DEF NoneSet
        <3> QED BY <2>1, <2>3, <3>4 DEF Kept
    <2>9. prog[p].token \in Kept' BY <2>1, <2>2, <2>3 DEF Kept
    <2>10. \A q \in Programs : prog'[q].pc # "stopped" => prog'[q].token \in Kept'
        <3> SUFFICES ASSUME NEW q \in Programs, q # p, prog[q].pc # "stopped"
                     PROVE  prog[q].token \in Kept'
            BY <2>2, <2>9
        <3>1. prog[q].token \in Kept BY <2>6 DEF FileInv
        <3>2. prog[q].token \in Tokens BY DEF TypeInv, ProgOK
        <3> QED BY <2>8, <3>1, <3>2
    <2>11. ASSUME owner # None PROVE owner.token \in Kept'
        <3>1. owner.token \in Tokens BY <2>11 DEF TypeInv, DbOK
        <3> QED BY <2>8, <2>11, <3>1 DEF FileInv
    <2>12. owner' # None => owner'.token \in Kept' BY <2>1, <2>11
    <2>13. cfg' # None => content'[cfg'] # Empty BY <2>3, <2>5
    <2> QED BY <2>1, <2>7, <2>10, <2>12, <2>13 DEF FileInv, Saving
<1>6. ASSUME NEW p \in Programs, ReadApplied(p) PROVE FileInv'
    <2>1. /\ UNCHANGED <<files, owner, history>>
          /\ \A q \in Programs : q # p => prog'[q] = prog[q]
          /\ prog[p].pc = "migrate" /\ prog'[p].pc = "apply" /\ prog'[p].token = prog[p].token
        BY <1>6, <1>0 DEF ReadApplied, db
    <2> QED BY <2>1, FileAside DEF Saving
<1>7. ASSUME NEW p \in Programs, Apply(p) PROVE FileInv'
    <2> DEFINE v == Least(prog[p].todo)
    <2>1. prog[p].pc = "apply" /\ UNCHANGED <<files, history>> BY <1>7 DEF Apply
    <2>2. CASE v \in applied
        <3>1. Die(p) /\ UNCHANGED owner BY <1>7, <2>2 DEF Apply, db
        <3> QED BY <2>1, <3>1, <1>a, FileAside
    <2>3. CASE v \notin applied
        <3>1. Effect(v) /\ prog' = [prog EXCEPT ![p].todo = @ \ {v}]
            BY <1>7, <2>3 DEF Apply
        <3>2. v \in Versions
            <4>1. prog[p].todo \in SUBSET Versions /\ prog[p].todo # {}
                BY <1>7 DEF Apply, TypeInv, ProgOK
            <4>2. prog[p].todo \in SUBSET Nat BY <4>1 DEF Versions
            <4> QED BY <4>1, <4>2, LeastIs
        <3> HIDE DEF v
        <3>3. owner' = owner BY <3>1, <3>2, EffectType DEF TypeInv
        <3>4. /\ \A q \in Programs : q # p => prog'[q] = prog[q]
              /\ prog'[p].pc = "apply" /\ prog'[p].token = prog[p].token
            BY <2>1, <3>1, <1>0
        <3> QED BY <2>1, <3>3, <3>4, FileAside DEF Saving
    <2> QED BY <2>2, <2>3
<1>8. ASSUME NEW p \in Programs, Migrated(p) PROVE FileInv'
    <2>1. /\ UNCHANGED <<files, owner, history>>
          /\ \A q \in Programs : q # p => prog'[q] = prog[q]
          /\ prog[p].pc = "apply" /\ prog'[p].pc = "ensure" /\ prog'[p].token = prog[p].token
        BY <1>8, <1>0 DEF Migrated, Goto, db
    <2> QED BY <2>1, FileAside DEF Saving
<1>9. ASSUME NEW p \in Programs, EnsureOwnerUser(p) PROVE FileInv'
    <2>1. /\ UNCHANGED <<files, history>>
          /\ \A q \in Programs : q # p => prog'[q] = prog[q]
          /\ prog[p].pc = "ensure" /\ prog'[p].pc = "up" /\ prog'[p].token = prog[p].token
          /\ owner' \in {owner, [id |-> nextUser, token |-> prog[p].token]}
        BY <1>9, <1>0 DEF EnsureOwnerUser, Goto
    <2>2. CASE owner' = owner BY <2>1, <2>2, FileAside DEF Saving
    <2>3. CASE owner' = [id |-> nextUser, token |-> prog[p].token]
        <3> SUFFICES ASSUME ~ overlap PROVE FileInv'
            BY <2>1 DEF FileInv
        <3>1. UNCHANGED <<content, cfg, tmp, history>> BY <2>1 DEF files
        <3>2. NoneSet' = NoneSet /\ Kept' = Kept BY <3>1 DEF NoneSet, Kept
        <3>3. prog[p].token \in Kept BY <2>1 DEF FileInv, Saving
        <3>4. owner'.token \in Kept' BY <2>3, <3>2, <3>3
        <3>5. \A q \in Programs : prog'[q].pc \in Saving => prog'[q] = prog[q]
            BY <2>1 DEF Saving
        <3>6. \A q, r \in Programs : prog'[q].pc \in Saving /\ prog'[r].pc \in Saving => q = r
            BY <3>5 DEF FileInv
        <3>7. \A q \in Programs :
                  /\ prog'[q].pc = "write" => tmp' # None /\ prog'[q].fd = tmp'
                  /\ prog'[q].pc = "rename" => tmp' # None /\ content'[tmp'] = prog'[q].token
            BY <3>1, <3>5 DEF FileInv, Saving
        <3>8. \A q \in Programs :
                  prog'[q].pc \in Saving => NoneSet' \/ content'[cfg'] = prog'[q].token
            BY <3>1, <3>2, <3>5 DEF FileInv
        <3>9. \A q \in Programs : prog'[q].pc \notin Saving \cup {"stopped"} => prog'[q].token \in Kept
            BY <2>1, <3>3 DEF FileInv
        <3>10. \A q \in Programs : prog'[q].pc \notin Saving \cup {"stopped"} => prog'[q].token \in Kept'
            BY <3>2, <3>9
        <3>11. tmp' # None => tmp' # cfg' BY <3>1 DEF FileInv
        <3>12. cfg' # None => content'[cfg'] # Empty BY <3>1 DEF FileInv
        <3> QED BY <3>4, <3>6, <3>7, <3>8, <3>10, <3>11, <3>12 DEF FileInv
    <2> QED BY <2>1, <2>2, <2>3
<1>10. ASSUME NEW p \in Programs, AddUser(p) PROVE FileInv'
    BY <1>10, <1>a, FileAside DEF AddUser
<1>11. ASSUME NEW p \in Programs, DeleteUser(p) PROVE FileInv'
    <2>1. Die(p) /\ UNCHANGED <<files, history>> /\ owner' \in {None, owner}
        BY <1>11 DEF DeleteUser
    <2> QED BY <2>1, <1>a, FileAside
<1>12. ASSUME NEW p \in Programs, Stop(p) PROVE FileInv'
    BY <1>12, <1>a, FileAside DEF Stop, db
<1>13. ASSUME NEW p \in Programs, WriteFails(p) PROVE FileInv'
    <2> SUFFICES ASSUME ~ overlap PROVE FileInv'
        BY <1>13 DEF FileInv, WriteFails
    <2>1. /\ prog[p].pc = "write" /\ tmp # None /\ prog[p].fd = tmp /\ tmp # cfg
          /\ tmp' = None /\ Die(p) /\ UNCHANGED <<cfg, owner, history>>
        BY <1>13 DEF WriteFails, FileInv, db
    <2>2. cfg # None => content'[cfg] = content[cfg]
        BY <1>13, <2>1 DEF WriteFails, TypeInv, FilesOK
    <2>3. \A q \in Programs : prog'[q].pc = "stopped" \/ prog'[q] = prog[q]
        BY <2>1, <1>a
    <2>4. \A q \in Programs : prog[q].pc \in Saving => q = p BY <2>1 DEF FileInv, Saving
    <2>5. \A q \in Programs : prog'[q].pc \notin Saving
        BY <2>1, <2>4, <1>a DEF Saving
    <2>6. Kept' = Kept BY <2>1, <2>2 DEF Kept
    <2>7. \A q \in Programs : prog'[q].pc # "stopped" => prog'[q].token \in Kept
        BY <2>3, <2>5 DEF FileInv
    <2>8. \A q \in Programs : prog'[q].pc # "stopped" => prog'[q].token \in Kept'
        BY <2>6, <2>7
    <2>9. owner' # None => owner'.token \in Kept' BY <2>1, <2>6 DEF FileInv
    <2>10. cfg' # None => content'[cfg'] # Empty BY <2>1, <2>2 DEF FileInv
    <2> QED BY <2>1, <2>5, <2>8, <2>9, <2>10 DEF FileInv, Saving
<1>14. CASE ForgetToken
    <2> SUFFICES ASSUME ~ overlap PROVE FileInv'
        BY <1>14 DEF FileInv, ForgetToken
    <2>1. /\ cfg # None /\ cfg' = cfg /\ tmp' = tmp /\ prog' = prog /\ owner' = owner
          /\ content' = [content EXCEPT ![cfg] = NoToken]
          /\ forgotten' = forgotten \cup {content[cfg]} /\ overlap' = overlap
        BY <1>14 DEF ForgetToken, NoneSet, db
    <2>2. content'[cfg'] = NoToken BY <2>1 DEF TypeInv, FilesOK
    <2>3. NoneSet' BY <2>2 DEF NoneSet
    <2>4. Kept \subseteq Kept' BY <2>1 DEF Kept
    <2>5. tmp # None => content'[tmp] = content[tmp]
        BY <2>1 DEF FileInv, TypeInv, FilesOK
    <2>6. content'[cfg'] # Empty BY <2>2, StartupAssumption
    <2>7. \A q \in Programs :
              prog'[q].pc \notin Saving \cup {"stopped"} => prog'[q].token \in Kept
        BY <2>1 DEF FileInv
    <2>8. \A q \in Programs :
              prog'[q].pc \notin Saving \cup {"stopped"} => prog'[q].token \in Kept'
        BY <2>4, <2>7
    <2>9. owner' # None => owner'.token \in Kept' BY <2>1, <2>4 DEF FileInv
    <2> QED BY <2>1, <2>3, <2>5, <2>6, <2>8, <2>9 DEF FileInv
<1> QED
    BY <1>1, <1>2, <1>3, <1>4, <1>5, <1>6, <1>7, <1>8, <1>9, <1>10, <1>11, <1>12, <1>13, <1>14
    DEF Next, Progress

\* A program that had config.json to itself leaves a config the next one can read,
\* wherever it was killed.
THEOREM ConfigStaysReadable == Spec => []ConfigReadable
<1>1. FileInv => ConfigReadable BY DEF FileInv, ConfigReadable
<1> QED BY <1>1, TypeInit, TypeNext, FileInit, FileNext, PTL DEF Spec

\* The owner's token is the one on disk unless the operator took it out: the row takes
\* it after the rename, and no later start writes another over it.
THEOREM OwnerTokenKept == Spec => []OwnerTokenOnDisk
<1>1. FileInv => OwnerTokenOnDisk BY DEF FileInv, Kept, OwnerTokenOnDisk
<1> QED BY <1>1, TypeInit, TypeNext, FileInit, FileNext, PTL DEF Spec
=============================================================================
