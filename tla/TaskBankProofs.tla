--------------------------- MODULE TaskBankProofs ---------------------------
(* What is true of the rows whatever writes them at the same time, for every  *)
(* batch, note, piece and topic and every number of rows and files.           *)
EXTENDS TaskBank, WellFoundedInduction, TLAPS

Below == {ss \in Nat \X Nat : ss[1] < ss[2]}

\* Induction over the numbers, for a set of them.
LEMMA NatSetInduction ==
    ASSUME NEW T \in SUBSET Nat, 0 \in T, \A n \in T : n + 1 \in T
    PROVE  T = Nat
<1>1. ASSUME Nat \ T # {} PROVE FALSE
    <2>0. IsWellFoundedOn(Below, Nat)
        BY NatLessThanWellFounded DEF OpToRel, Below
    <2>1. PICK x \in Nat \ T : \A y \in Nat \ T : <<y, x>> \notin Below
        BY <1>1, <2>0, WFMin
    <2>2. x - 1 \in Nat /\ x - 1 \notin T BY <2>1
    <2>3. <<x - 1, x>> \in Below BY <2>1, <2>2 DEF Below
    <2> QED BY <2>1, <2>2, <2>3
<1> QED BY <1>1

(* What validate lets through *)

LetsThrough(f, items, n) ==
    f = [k \in 0 .. n |->
            IF k = 0 THEN <<>>
            ELSE IF Valid(items[k]) THEN Append(f[k - 1], items[k]) ELSE f[k - 1]]

LEMMA ValidateIs ==
    ASSUME NEW items
    PROVE  validate(items) = (CHOOSE f : LetsThrough(f, items, Len(items)))[Len(items)]
BY DEF validate, LetsThrough

LEMMA ValidateExists ==
    ASSUME NEW items \in Seq(Items), NEW n \in Nat
    PROVE  \E f : LetsThrough(f, items, n)
<1> DEFINE T == {m \in Nat : \E f : LetsThrough(f, items, m)}
<1>1. 0 \in T
    <2> DEFINE f == [k \in 0 .. 0 |-> <<>>]
    <2>1. LetsThrough(f, items, 0) BY DEF LetsThrough
    <2> QED BY <2>1
<1>2. ASSUME NEW m \in T PROVE m + 1 \in T
    <2>1. PICK f : LetsThrough(f, items, m) OBVIOUS
    <2> DEFINE g == [k \in 0 .. m + 1 |->
                       IF k <= m THEN f[k]
                       ELSE IF Valid(items[m + 1]) THEN Append(f[m], items[m + 1]) ELSE f[m]]
    <2>2. ASSUME NEW k \in 0 .. m + 1
          PROVE  g[k] = IF k = 0 THEN <<>>
                        ELSE IF Valid(items[k]) THEN Append(g[k - 1], items[k]) ELSE g[k - 1]
        <3>1. CASE k = 0 BY <3>1, <2>1 DEF LetsThrough
        <3>2. CASE k # 0 /\ k <= m
            <4>1. k \in 0 .. m /\ k - 1 \in 0 .. m + 1 /\ k - 1 <= m BY <3>2
            <4>2. f[k] = IF Valid(items[k]) THEN Append(f[k - 1], items[k]) ELSE f[k - 1]
                BY <2>1, <3>2, <4>1 DEF LetsThrough
            <4>3. g[k] = f[k] /\ g[k - 1] = f[k - 1] BY <3>2, <4>1
            <4> QED BY <3>2, <4>2, <4>3
        <3>3. CASE k = m + 1
            <4>1. k - 1 = m /\ k # 0 /\ ~ (k <= m) /\ m \in 0 .. m + 1 /\ m <= m BY <3>3
            <4> QED BY <3>3, <4>1
        <3> QED BY <3>1, <3>2, <3>3
    <2>3. LetsThrough(g, items, m + 1) BY <2>2 DEF LetsThrough
    <2>4. m + 1 \in Nat OBVIOUS
    <2> HIDE DEF g
    <2> QED BY <2>3, <2>4
<1>3. T = Nat
    <2> HIDE DEF T
    <2>1. T \subseteq Nat BY DEF T
    <2> QED BY <1>1, <1>2, <2>1, NatSetInduction
<1> QED BY <1>3

\* A batch goes on with items that are valid.
ValidItems == {item \in Items : Valid(item)}

LEMMA ValidateValid ==
    ASSUME NEW items \in Seq(Items)
    PROVE  validate(items) \in Seq(ValidItems)
<1> DEFINE n == Len(items)
           f == CHOOSE f : LetsThrough(f, items, n)
           T == {m \in Nat : m <= n => f[m] \in Seq(ValidItems)}
<1>0. n \in Nat OBVIOUS
<1>1. LetsThrough(f, items, n) BY <1>0, ValidateExists
<1> HIDE DEF f, n
<1>2. 0 \in T
    <2>1. f[0] = <<>> BY <1>0, <1>1 DEF LetsThrough
    <2>2. f[0] \in Seq(ValidItems) BY <2>1
    <2> QED BY <2>2
<1>3. ASSUME NEW m \in T PROVE m + 1 \in T
    <2>0. m \in Nat OBVIOUS
    <2>1. CASE m + 1 <= n
        <3>1. m + 1 \in 0 .. n /\ m + 1 # 0 /\ (m + 1) - 1 = m BY <1>0, <2>0, <2>1
        <3>2. f[m + 1] = IF Valid(items[m + 1]) THEN Append(f[m], items[m + 1]) ELSE f[m]
            BY <1>1, <3>1 DEF LetsThrough
        <3>3. f[m] \in Seq(ValidItems) BY <1>0, <2>0, <2>1
        <3>4. items[m + 1] \in Items
            BY <1>0, <2>0, <2>1 DEF n
        <3>5. f[m + 1] \in Seq(ValidItems)
            <4>1. CASE Valid(items[m + 1])
                <5>1. items[m + 1] \in ValidItems BY <3>4, <4>1 DEF ValidItems
                <5> QED BY <3>2, <3>3, <4>1, <5>1
            <4> QED BY <3>2, <3>3, <4>1
        <3> QED BY <2>0, <3>5
    <2> QED BY <2>0, <2>1
<1>4. T = Nat
    <2> HIDE DEF T
    <2>1. T \subseteq Nat BY DEF T
    <2> QED BY <1>2, <1>3, <2>1, NatSetInduction
<1>5. f[n] \in Seq(ValidItems) BY <1>0, <1>4
<1> QED BY <1>5, ValidateIs DEF f, n

-----------------------------------------------------------------------------
(* What a file makes of a row *)

RowShape(row) ==
    row = [content |-> row.content, answers |-> row.answers, topic |-> row.topic,
           critical |-> row.critical, forbidden |-> row.forbidden, flagged |-> row.flagged]
Passable(row) ==
    Solvable(row.critical, row.answers) /\ Harmless(row.forbidden, row.answers)

\* What an annotation leaves of a row.
LEMMA AnnotatedRow ==
    ASSUME NEW row, RowShape(row), NEW note
    PROVE  LET new == Annotated(row, note)
               crit == filterCritical(note.critical, row.answers)
               forb == filterForbidden(note.forbidden, row.answers)
           IN  /\ RowShape(new)
               /\ new.content = row.content /\ new.answers = row.answers
               /\ new.flagged = row.flagged
               /\ new.topic = IF row.topic = NoTopic THEN note.topic ELSE row.topic
               /\ new.critical = IF crit # {} THEN crit ELSE row.critical
               /\ new.forbidden = IF forb # {} THEN forb ELSE row.forbidden
               /\ Passable(row) => Passable(new)
<1> DEFINE new == Annotated(row, note)
           crit == filterCritical(note.critical, row.answers)
           forb == filterForbidden(note.forbidden, row.answers)
<1>1. /\ RowShape(new)
      /\ new.content = row.content /\ new.answers = row.answers
      /\ new.flagged = row.flagged
      /\ new.topic = IF row.topic = NoTopic THEN note.topic ELSE row.topic
      /\ new.critical = IF crit # {} THEN crit ELSE row.critical
      /\ new.forbidden = IF forb # {} THEN forb ELSE row.forbidden
    <2> HIDE DEF crit, forb
    <2>1. new = [row EXCEPT !.topic = IF @ = NoTopic THEN note.topic ELSE @,
                            !.critical = IF crit # {} THEN crit ELSE @,
                            !.forbidden = IF forb # {} THEN forb ELSE @]
        BY DEF Annotated, OrOld, crit, forb
    <2> HIDE DEF new
    <2>2. new = [content |-> row.content, answers |-> row.answers,
                 topic |-> IF row.topic = NoTopic THEN note.topic ELSE row.topic,
                 critical |-> IF crit # {} THEN crit ELSE row.critical,
                 forbidden |-> IF forb # {} THEN forb ELSE row.forbidden,
                 flagged |-> row.flagged]
        BY <2>1 DEF RowShape
    <2> QED BY <2>2 DEF RowShape
<1>2. Solvable(crit, row.answers) BY DEF Solvable, filterCritical
<1>3. Harmless(forb, row.answers) BY DEF Harmless, filterForbidden
<1> HIDE DEF new, crit, forb
<1>4. Passable(row) => Passable(new) BY <1>1, <1>2, <1>3 DEF Passable
<1> QED BY <1>1, <1>4 DEF new, crit, forb

\* The rows after one annotation more.
Noted(rows, x) ==
    [id \in DOMAIN tasks |->
        IF id = x.on.id THEN Annotated(rows[id], x.note) ELSE rows[id]]

Follows(f, file, n) ==
    f = [k \in 0 .. n |-> IF k = 0 THEN tasks ELSE Noted(f[k - 1], file[k])]

LEMMA AfterIs ==
    ASSUME NEW file
    PROVE  After(file) = (CHOOSE f : Follows(f, file, Len(file)))[Len(file)]
BY DEF After, Follows, Noted

LEMMA FollowsExists ==
    ASSUME NEW file, NEW n \in Nat
    PROVE  \E f : Follows(f, file, n)
<1> DEFINE T == {m \in Nat : \E f : Follows(f, file, m)}
<1>1. 0 \in T
    <2> DEFINE f == [k \in 0 .. 0 |-> tasks]
    <2>1. Follows(f, file, 0) BY DEF Follows
    <2> QED BY <2>1
<1>2. ASSUME NEW m \in T PROVE m + 1 \in T
    <2>1. PICK f : Follows(f, file, m) OBVIOUS
    <2> DEFINE g == [k \in 0 .. m + 1 |-> IF k <= m THEN f[k] ELSE Noted(f[m], file[m + 1])]
    <2>2. ASSUME NEW k \in 0 .. m + 1
          PROVE  g[k] = IF k = 0 THEN tasks ELSE Noted(g[k - 1], file[k])
        <3>1. CASE k = 0 BY <3>1, <2>1 DEF Follows
        <3>2. CASE k # 0 /\ k <= m
            <4>1. k \in 0 .. m /\ k - 1 \in 0 .. m + 1 /\ k - 1 <= m BY <3>2
            <4>2. f[k] = Noted(f[k - 1], file[k]) BY <2>1, <3>2, <4>1 DEF Follows
            <4>3. g[k] = f[k] /\ g[k - 1] = f[k - 1] BY <3>2, <4>1
            <4> QED BY <3>2, <4>2, <4>3
        <3>3. CASE k = m + 1
            <4>1. k - 1 = m /\ k # 0 /\ ~ (k <= m) /\ m \in 0 .. m + 1 /\ m <= m BY <3>3
            <4> QED BY <3>3, <4>1
        <3> QED BY <3>1, <3>2, <3>3
    <2>3. Follows(g, file, m + 1) BY <2>2 DEF Follows
    <2>4. m + 1 \in Nat OBVIOUS
    <2> HIDE DEF g
    <2> QED BY <2>3, <2>4
<1>3. T = Nat
    <2> HIDE DEF T
    <2>1. T \subseteq Nat BY DEF T
    <2> QED BY <1>1, <1>2, <2>1, NatSetInduction
<1> QED BY <1>3

\* A file is its annotations one after another.
LEMMA AfterSteps ==
    ASSUME NEW file, Len(file) \in Nat
    PROVE  \E f : /\ f[0] = tasks
                  /\ \A k \in 0 .. Len(file) - 1 : f[k + 1] = Noted(f[k], file[k + 1])
                  /\ After(file) = f[Len(file)]
<1> DEFINE n == Len(file)
           f == CHOOSE f : Follows(f, file, n)
<1>1. Follows(f, file, n) BY FollowsExists
<1>2. After(file) = f[n] BY AfterIs
<1> HIDE DEF f
<1>3. f[0] = tasks BY <1>1 DEF Follows
<1>4. ASSUME NEW k \in 0 .. n - 1 PROVE f[k + 1] = Noted(f[k], file[k + 1])
    <2>1. k + 1 \in 0 .. n /\ k + 1 # 0 /\ (k + 1) - 1 = k OBVIOUS
    <2> QED BY <1>1, <2>1 DEF Follows
<1> QED BY <1>2, <1>3, <1>4

-----------------------------------------------------------------------------
\* What the annotations of a file do to a row, one after another.
LEMMA AfterRows ==
    ASSUME \A id \in DOMAIN tasks : RowShape(tasks[id]),
           NEW file, Len(file) \in Nat
    PROVE  /\ DOMAIN After(file) = DOMAIN tasks
           /\ \A id \in DOMAIN tasks :
                 LET row == tasks[id]
                     new == After(file)[id]
                 IN  /\ RowShape(new)
                     /\ new.content = row.content /\ new.answers = row.answers
                     /\ row.topic # NoTopic => new.topic = row.topic
                     /\ Passable(row) => Passable(new)
                     /\ new # row => \E j \in 1 .. Len(file) : file[j].on.id = id
<1> DEFINE n == Len(file)
           Good(row, new) ==
               /\ RowShape(new)
               /\ new.content = row.content /\ new.answers = row.answers
               /\ row.topic # NoTopic => new.topic = row.topic
               /\ Passable(row) => Passable(new)
<1>1. PICK f : /\ f[0] = tasks
               /\ \A k \in 0 .. n - 1 : f[k + 1] = Noted(f[k], file[k + 1])
               /\ After(file) = f[n]
    BY AfterSteps
<1> HIDE DEF n
<1>0. n \in Nat BY DEF n
<1> DEFINE T == {m \in Nat : m <= n =>
                    /\ DOMAIN f[m] = DOMAIN tasks
                    /\ \A id \in DOMAIN tasks :
                          /\ Good(tasks[id], f[m][id])
                          /\ (\A j \in 1 .. m : file[j].on.id # id) => f[m][id] = tasks[id]}
<1>2. 0 \in T BY <1>1
<1>3. ASSUME NEW m \in T PROVE m + 1 \in T
    <2>0. m \in Nat OBVIOUS
    <2>1. CASE m + 1 <= n
        <3>1. m \in 0 .. n - 1 /\ m <= n BY <1>0, <2>0, <2>1
        <3>2. f[m + 1] = Noted(f[m], file[m + 1]) BY <1>1, <3>1
        <3>3. /\ DOMAIN f[m] = DOMAIN tasks
              /\ \A id \in DOMAIN tasks :
                    /\ Good(tasks[id], f[m][id])
                    /\ (\A j \in 1 .. m : file[j].on.id # id) => f[m][id] = tasks[id]
            BY <3>1
        <3>4. DOMAIN f[m + 1] = DOMAIN tasks BY <3>2 DEF Noted
        <3>5. ASSUME NEW id \in DOMAIN tasks
              PROVE  /\ Good(tasks[id], f[m + 1][id])
                     /\ (\A j \in 1 .. m + 1 : file[j].on.id # id) => f[m + 1][id] = tasks[id]
            <4>0. m + 1 \in 1 .. m + 1 /\ \A j \in 1 .. m : j \in 1 .. m + 1 BY <2>0
            <4>1. CASE id = file[m + 1].on.id
                <5> DEFINE row == f[m][id]  new == f[m + 1][id]
                <5>1. new = Annotated(row, file[m + 1].note) BY <3>2, <4>1 DEF Noted
                <5>2. Good(tasks[id], row) BY <3>3
                <5> HIDE DEF row, new
                <5>3. /\ RowShape(new)
                      /\ new.content = row.content /\ new.answers = row.answers
                      /\ new.topic = IF row.topic = NoTopic THEN file[m + 1].note.topic ELSE row.topic
                      /\ Passable(row) => Passable(new)
                    BY <5>1, <5>2, AnnotatedRow
                <5>4. Good(tasks[id], new) BY <5>2, <5>3
                <5> QED BY <4>0, <4>1, <5>4 DEF new
            <4>2. CASE id # file[m + 1].on.id
                <5>1. f[m + 1][id] = f[m][id] BY <3>2, <4>2 DEF Noted
                <5> HIDE DEF Good
                <5> QED BY <3>3, <4>0, <5>1
            <4> QED BY <4>1, <4>2
        <3> HIDE DEF Good
        <3> QED BY <2>0, <3>4, <3>5
    <2> QED BY <2>0, <2>1
<1>4. T = Nat
    <2> HIDE DEF T
    <2>1. T \subseteq Nat BY DEF T
    <2> QED BY <1>2, <1>3, <2>1, NatSetInduction
<1>5. n \in T /\ n <= n BY <1>0, <1>4
<1> HIDE DEF Good
<1>6. /\ DOMAIN f[n] = DOMAIN tasks
      /\ \A id \in DOMAIN tasks :
            /\ Good(tasks[id], f[n][id])
            /\ (\A j \in 1 .. n : file[j].on.id # id) => f[n][id] = tasks[id]
    BY <1>5
<1> QED BY <1>1, <1>6 DEF n, Good

-----------------------------------------------------------------------------
(* The invariants *)

\* The rows, and what pregen has yet to insert.
BankInv ==
    /\ nextId \in Nat \ {0}
    /\ \A id \in DOMAIN tasks : id \in 1 .. nextId - 1
    /\ \A id \in DOMAIN tasks : RowShape(tasks[id]) /\ Passable(tasks[id])
    /\ importer = [topic |-> importer.topic, left |-> importer.left]
    /\ importer.left \in Seq(ValidItems)

\* The files name rows that were dumped, and a merge goes through them in order.
MergeInv ==
    /\ files \in Seq(Seq(Annotations))
    /\ \A i \in DOMAIN files : Len(files[i]) <= 2
    /\ merger \in [pc : {"idle", "files", "tx"}, next : Nat \ {0}, last : Nat,
                   stale : BOOLEAN, clean : BOOLEAN]
    /\ merger.pc # "idle" => merger.last = Len(files) /\ merger.next <= merger.last + 1
    /\ merger.pc = "tx" => merger.next <= merger.last

\* Until the table is rebuilt, an id in the dump is still the id of what was dumped.
DumpInv ==
    /\ upgraded \in BOOLEAN
    /\ ~ upgraded =>
          \A d \in dumped :
              /\ d.id \in Nat /\ d.id < nextId
              /\ d.id \in DOMAIN tasks => tasks[d.id].content = d.content

LEMMA BankInit == Init => BankInv /\ MergeInv /\ DumpInv
<1> SUFFICES ASSUME Init PROVE BankInv /\ MergeInv /\ DumpInv
    OBVIOUS
<1>1. BankInv BY DEF Init, BankInv, NotImporting
<1>2. MergeInv
    <2>1. merger = [pc |-> "idle", next |-> 1, last |-> 0, stale |-> FALSE, clean |-> TRUE]
        BY DEF Init, NotMerging
    <2>2. files = <<>> BY DEF Init
    <2> QED BY <2>1, <2>2 DEF MergeInv
<1>3. DumpInv BY DEF Init, DumpInv
<1> QED BY <1>1, <1>2, <1>3

\* The merge under way is at one of the files.
LEMMA AtFile ==
    ASSUME MergeInv, merger.pc = "tx"
    PROVE  /\ files[merger.next] \in Seq(Annotations)
           /\ Len(files[merger.next]) \in Nat
           /\ DOMAIN files[merger.next] = 1 .. Len(files[merger.next])
<1>1. merger.next \in Nat \ {0} /\ merger.next <= Len(files) BY DEF MergeInv
<1>2. files \in Seq(Seq(Annotations)) /\ Len(files) \in Nat BY DEF MergeInv
<1>3. merger.next \in 1 .. Len(files) BY <1>1, <1>2
<1>4. files[merger.next] \in Seq(Annotations) BY <1>2, <1>3
<1> QED BY <1>4

LEMMA MergeNext == MergeInv /\ [Next]_vars => MergeInv'
<1> SUFFICES ASSUME MergeInv, [Next]_vars PROVE MergeInv'
    OBVIOUS
<1> DEFINE Run == [pc : {"idle", "files", "tx"}, next : Nat \ {0}, last : Nat,
                   stale : BOOLEAN, clean : BOOLEAN]
<1>0. merger \in Run /\ Len(files) \in Nat BY DEF MergeInv
<1>a. ASSUME dumped \subseteq dumped', files' = files
      PROVE  files' \in Seq(Seq(Annotations')) /\ \A i \in DOMAIN files' : Len(files'[i]) <= 2
    <2>1. Annotations \subseteq Annotations' BY <1>a DEF Annotations
    <2>2. \A s \in Seq(Annotations) : s \in Seq(Annotations') BY <2>1
    <2>3. files \in Seq(Seq(Annotations')) BY <2>2 DEF MergeInv
    <2> QED BY <1>a, <2>3 DEF MergeInv
<1>b. ASSUME Written
      PROVE  /\ merger' \in Run
             /\ merger'.pc = merger.pc /\ merger'.next = merger.next
             /\ merger'.last = merger.last /\ merger'.clean = merger.clean
    BY <1>b, <1>0 DEF Written
<1>c. ASSUME dumped \subseteq dumped', files' = files, Written \/ merger' = merger
      PROVE  MergeInv'
    <2>1. /\ merger' \in Run
          /\ merger'.pc = merger.pc /\ merger'.next = merger.next
          /\ merger'.last = merger.last
        BY <1>b, <1>c, <1>0
    <2> QED BY <1>a, <1>c, <2>1 DEF MergeInv
<1>1. CASE UNCHANGED vars BY <1>1, <1>c DEF vars
<1>2. ASSUME NEW b \in Batches, BeginImport(b) PROVE MergeInv'
    BY <1>2, <1>c DEF BeginImport
<1>3. CASE InsertItem BY <1>3, <1>c DEF InsertItem, Inserted
<1>4. CASE StopImport BY <1>4, <1>c DEF StopImport
<1>5. CASE Dump BY <1>5, <1>c DEF Dump
<1>6. ASSUME NEW file \in NewFiles, Annotate(file) PROVE MergeInv'
    <2>1. merger.pc = "idle" /\ files' = Append(files, file) /\ UNCHANGED <<dumped, merger>>
        BY <1>6 DEF Annotate
    <2>2. file \in Seq(Annotations) /\ Len(file) <= 2
        <3>1. CASE \E x \in Annotations : file = <<x>> BY <3>1
        <3>2. CASE file \in Annotations \X Annotations
            <4>1. PICK x \in Annotations, y \in Annotations : file = <<x, y>> BY <3>2
            <4> QED BY <4>1
        <3> QED BY <3>1, <3>2 DEF NewFiles
    <2>3. Annotations' = Annotations BY <2>1 DEF Annotations
    <2>4. /\ files' \in Seq(Seq(Annotations))
          /\ \A i \in DOMAIN files' : Len(files'[i]) <= 2
        BY <2>1, <2>2 DEF MergeInv
    <2> QED BY <1>0, <2>1, <2>3, <2>4 DEF MergeInv
<1>7. CASE BeginMerge
    <2>1. /\ merger' = [NotMerging EXCEPT !.pc = "files", !.last = Len(files)]
          /\ UNCHANGED <<dumped, files>>
        BY <1>7 DEF BeginMerge
    <2>2. merger' = [pc |-> "files", next |-> 1, last |-> Len(files), stale |-> FALSE,
                     clean |-> TRUE]
        BY <2>1 DEF NotMerging
    <2>3. merger' \in Run BY <1>0, <2>2
    <2>4. /\ merger'.pc = "files" /\ merger'.last = Len(files') /\ merger'.next = 1
          /\ merger'.next <= merger'.last + 1
        <3>1. merger'.pc = "files" /\ merger'.last = Len(files) /\ merger'.next = 1
            BY <2>2
        <3>2. Len(files') = Len(files) BY <2>1
        <3>3. 1 <= Len(files) + 1 BY <1>0
        <3> QED BY <3>1, <3>2, <3>3
    <2>5. files' \in Seq(Seq(Annotations')) /\ \A i \in DOMAIN files' : Len(files'[i]) <= 2
        BY <1>a, <2>1
    <2> QED BY <2>3, <2>4, <2>5 DEF MergeInv
<1>8. CASE OpenFile
    <2>1. /\ merger.pc = "files" /\ merger.next <= merger.last
          /\ merger' = [merger EXCEPT !.pc = "tx", !.stale = FALSE]
          /\ UNCHANGED <<dumped, files>>
        BY <1>8 DEF OpenFile
    <2>2. merger' \in Run /\ merger'.pc = "tx" /\ merger'.next = merger.next
          /\ merger'.last = merger.last
        BY <1>0, <2>1
    <2> QED BY <1>0, <1>a, <2>1, <2>2 DEF MergeInv
<1>9. ASSUME NEW clean \in BOOLEAN, merger.pc = "tx", Advance(clean), UNCHANGED <<dumped, files>>
      PROVE  MergeInv'
    <2>1. merger' = [merger EXCEPT !.pc = "files", !.next = @ + 1, !.stale = FALSE, !.clean = clean]
        BY <1>9 DEF Advance
    <2>0. merger' = [pc |-> "files", next |-> merger.next + 1, last |-> merger.last,
                     stale |-> FALSE, clean |-> clean]
        BY <1>0, <2>1
    <2>2. merger' \in Run /\ merger'.pc = "files" /\ merger'.next = merger.next + 1
          /\ merger'.last = merger.last
        BY <1>0, <2>0
    <2> QED BY <1>0, <1>9, <1>a, <2>2 DEF MergeInv
<1>10. CASE MergeFile BY <1>0, <1>9, <1>10 DEF MergeFile
<1>11. CASE SkipFile BY <1>9, <1>11 DEF SkipFile
<1>12. ASSUME merger' = NotMerging, UNCHANGED <<dumped, files>> PROVE MergeInv'
    BY <1>12, <1>a DEF MergeInv, NotMerging
<1>13. CASE EndMerge BY <1>12, <1>13 DEF EndMerge
<1>14. CASE StopMerge BY <1>12, <1>14 DEF StopMerge
<1>15. ASSUME NEW id \in DOMAIN tasks, Flag(id) \/ Delete(id) PROVE MergeInv'
    BY <1>15, <1>c DEF Flag, Delete
<1>16. CASE OtherWrite BY <1>16, <1>c DEF OtherWrite
<1>17. CASE Upgrade BY <1>17, <1>c DEF Upgrade
<1> QED
    BY <1>1, <1>2, <1>3, <1>4, <1>5, <1>6, <1>7, <1>8, <1>10, <1>11, <1>13, <1>14,
       <1>15, <1>16, <1>17 DEF Next

-----------------------------------------------------------------------------
(* Rows *)

\* The row an import makes.
LEMMA RowOfItem ==
    ASSUME NEW item \in ValidItems, NEW topic
    PROVE  RowShape(RowOf(item, topic)) /\ Passable(RowOf(item, topic))
BY DEF RowOf, RowShape, Passable, ValidItems, Valid

LEMMA InsertedRows ==
    ASSUME NEW item, NEW topic, Inserted(item, topic)
    PROVE  \/ UNCHANGED bank
           \/ /\ nextId' = nextId + 1
              /\ DOMAIN tasks' = DOMAIN tasks \cup {nextId}
              /\ tasks'[nextId] = RowOf(item, topic)
              /\ \A id \in DOMAIN tasks : id # nextId => tasks'[id] = tasks[id]
BY DEF Inserted, bank

\* What an import takes from its list is valid, and so is the rest.
LEMMA InsertTakes ==
    ASSUME BankInv, InsertItem
    PROVE  /\ Head(importer.left) \in ValidItems
           /\ importer' = [topic |-> importer'.topic, left |-> importer'.left]
           /\ importer'.left \in Seq(ValidItems)
<1>1. /\ importer.left \in Seq(ValidItems) /\ importer.left # <<>>
      /\ importer = [topic |-> importer.topic, left |-> importer.left]
    BY DEF BankInv, InsertItem
<1>2. Head(importer.left) \in ValidItems /\ Tail(importer.left) \in Seq(ValidItems)
    BY <1>1
<1>3. CASE importer' = NotImporting BY <1>2, <1>3 DEF NotImporting
<1>4. CASE importer' = [importer EXCEPT !.left = Tail(@)]
    <2>1. importer' = [topic |-> importer.topic, left |-> Tail(importer.left)]
        BY <1>1, <1>4
    <2> QED BY <1>2, <2>1
<1> QED BY <1>3, <1>4 DEF InsertItem

\* After a migration the ids go on after the largest.
LEMMA UpgradeIds ==
    ASSUME BankInv, Upgrade
    PROVE  nextId' \in Nat \ {0} /\ \A id \in DOMAIN tasks : id \in 1 .. nextId' - 1
<1> DEFINE above == {n \in Nat \ {0} : \A id \in DOMAIN tasks : id < n}
<1>0. /\ nextId \in Nat \ {0}
      /\ \A id \in DOMAIN tasks : id \in 1 .. nextId - 1
    BY DEF BankInv
<1>1. PICK n \in above : \A m \in above : n <= m
    <2>1. IsWellFoundedOn(Below, Nat)
        BY NatLessThanWellFounded DEF OpToRel, Below
    <2>2. nextId \in above BY <1>0
    <2>3. above \subseteq Nat OBVIOUS
    <2> HIDE DEF above
    <2>4. PICK n \in above : \A m \in above : <<m, n>> \notin Below BY <2>1, <2>2, <2>3, WFMin
    <2>5. n \in Nat BY <2>3
    <2>6. \A m \in above : m \in Nat /\ ~ (m < n) BY <2>3, <2>4, <2>5 DEF Below
    <2>7. \A m \in above : n <= m BY <2>5, <2>6
    <2> QED BY <2>7
<1>2. n \in 1 .. nextId
    <2>1. nextId \in above BY <1>0
    <2> QED BY <1>0, <1>1, <2>1
<1>3. n = 1 \/ n - 1 \in DOMAIN tasks
    <2> SUFFICES ASSUME n # 1, n - 1 \notin DOMAIN tasks PROVE FALSE
        OBVIOUS
    <2>1. n - 1 \in Nat \ {0} /\ ~ (n <= n - 1) BY <1>1
    <2>2. \A id \in DOMAIN tasks : id < n - 1 BY <1>0, <1>1
    <2> QED BY <1>1, <2>1, <2>2
<1>4. /\ nextId' \in 1 .. nextId
      /\ \A id \in DOMAIN tasks : id < nextId'
    <2>1. nextId' = CHOOSE k \in 1 .. nextId :
                     /\ \A id \in DOMAIN tasks : id < k
                     /\ k = 1 \/ k - 1 \in DOMAIN tasks
        BY DEF Upgrade
    <2>2. \E k \in 1 .. nextId : /\ \A id \in DOMAIN tasks : id < k
                                 /\ k = 1 \/ k - 1 \in DOMAIN tasks
        BY <1>1, <1>2, <1>3
    <2> QED BY <2>1, <2>2
<1> QED BY <1>0, <1>4

\* A row but for its flag.
LEMMA UnflaggedRow ==
    ASSUME NEW row, RowShape(row)
    PROVE  Unflagged(row) = [content |-> row.content, answers |-> row.answers,
                             topic |-> row.topic, critical |-> row.critical,
                             forbidden |-> row.forbidden, flagged |-> FALSE]
<1> DEFINE u == Unflagged(row)
<1>1. u = [row EXCEPT !.flagged = FALSE] BY DEF Unflagged
<1> HIDE DEF u
<1>2. u = [content |-> row.content, answers |-> row.answers, topic |-> row.topic,
           critical |-> row.critical, forbidden |-> row.forbidden, flagged |-> FALSE]
    BY <1>1 DEF RowShape
<1> QED BY <1>2 DEF u

\* A row of before and what a step makes of it.
Becomes(row, new) ==
    /\ RowShape(new)
    /\ new.content = row.content /\ new.answers = row.answers
    /\ row.topic # NoTopic => new.topic = row.topic
    /\ Passable(row) => Passable(new)

LEMMA BecomesSelf ==
    ASSUME NEW row, RowShape(row) PROVE Becomes(row, row)
BY DEF Becomes

\* A step makes no more of a row than the annotations about it say, and a row is new
\* only under the next id.
LEMMA RowStep ==
    ASSUME BankInv, MergeInv, [Next]_vars
    PROVE  /\ \A id \in DOMAIN tasks' :
                 \/ /\ id \in DOMAIN tasks
                    /\ Becomes(tasks[id], tasks'[id])
                 \/ /\ id \notin DOMAIN tasks /\ id = nextId /\ nextId' = nextId + 1
                    /\ RowShape(tasks'[id]) /\ Passable(tasks'[id])
           /\ \A id \in DOMAIN tasks \cap DOMAIN tasks' :
                 \/ Unflagged(tasks'[id]) = Unflagged(tasks[id])
                 \/ /\ merger.pc = "tx"
                    /\ \E j \in DOMAIN files[merger.next] : files[merger.next][j].on.id = id
<1> DEFINE Kept ==
        /\ \A id \in DOMAIN tasks' :
                 \/ /\ id \in DOMAIN tasks
                    /\ Becomes(tasks[id], tasks'[id])
                 \/ /\ id \notin DOMAIN tasks /\ id = nextId /\ nextId' = nextId + 1
                    /\ RowShape(tasks'[id]) /\ Passable(tasks'[id])
        /\ \A id \in DOMAIN tasks \cap DOMAIN tasks' :
                 \/ Unflagged(tasks'[id]) = Unflagged(tasks[id])
                 \/ /\ merger.pc = "tx"
                    /\ \E j \in DOMAIN files[merger.next] : files[merger.next][j].on.id = id
<1> SUFFICES Kept
    OBVIOUS
<1>0. \A id \in DOMAIN tasks : RowShape(tasks[id]) /\ Becomes(tasks[id], tasks[id])
    BY BecomesSelf DEF BankInv
<1>a. ASSUME tasks' = tasks PROVE Kept BY <1>0, <1>a
<1>1. CASE InsertItem
    <2> DEFINE item == Head(importer.left)
    <2>1. Inserted(item, importer.topic) /\ item \in ValidItems
        BY <1>1, InsertTakes DEF InsertItem
    <2>2. RowShape(RowOf(item, importer.topic)) /\ Passable(RowOf(item, importer.topic))
        BY <2>1, RowOfItem
    <2>3. nextId \notin DOMAIN tasks BY DEF BankInv
    <2>4. CASE UNCHANGED bank BY <1>a, <2>4 DEF bank
    <2>5. CASE /\ nextId' = nextId + 1
               /\ DOMAIN tasks' = DOMAIN tasks \cup {nextId}
               /\ tasks'[nextId] = RowOf(item, importer.topic)
               /\ \A id \in DOMAIN tasks : id # nextId => tasks'[id] = tasks[id]
        BY <1>0, <2>2, <2>3, <2>5
    <2> HIDE DEF item, Kept
    <2> QED BY <2>1, <2>4, <2>5, InsertedRows
<1>2. CASE MergeFile
    <2>1. merger.pc = "tx" /\ tasks' = After(files[merger.next]) BY <1>2 DEF MergeFile
    <2> DEFINE file == files[merger.next]
    <2>2. Len(file) \in Nat /\ DOMAIN file = 1 .. Len(file) BY <2>1, AtFile
    <2> HIDE DEF file, Kept
    <2>3. \A id \in DOMAIN tasks : RowShape(tasks[id]) BY <1>0
    <2>4. tasks' = After(file) BY <2>1 DEF file
    <2>5. DOMAIN tasks' = DOMAIN tasks BY <2>2, <2>3, <2>4, AfterRows
    <2>6. ASSUME NEW id \in DOMAIN tasks
          PROVE  /\ Becomes(tasks[id], tasks'[id])
                 /\ tasks'[id] # tasks[id] => \E j \in 1 .. Len(file) : file[j].on.id = id
        BY <2>2, <2>3, <2>4, AfterRows DEF Becomes
    <2>7. \A id \in DOMAIN tasks :
             \/ Unflagged(tasks'[id]) = Unflagged(tasks[id])
             \/ \E j \in DOMAIN file : file[j].on.id = id
        BY <2>2, <2>6
    <2> QED BY <2>1, <2>5, <2>6, <2>7 DEF file, Kept
<1>3. ASSUME NEW id \in DOMAIN tasks, Flag(id) PROVE Kept
    <2>1. /\ DOMAIN tasks' = DOMAIN tasks
          /\ \A o \in DOMAIN tasks : o # id => tasks'[o] = tasks[o]
          /\ tasks'[id] = [tasks[id] EXCEPT !.flagged = ~ @]
        BY <1>3 DEF Flag
    <2> DEFINE row == tasks[id]  new == tasks'[id]
    <2>2. RowShape(row) BY <1>0
    <2>3. new = [content |-> row.content, answers |-> row.answers, topic |-> row.topic,
                 critical |-> row.critical, forbidden |-> row.forbidden,
                 flagged |-> ~ row.flagged]
        <3> HIDE DEF row, new
        <3>1. new = [row EXCEPT !.flagged = ~ @] BY <2>1 DEF row, new
        <3> QED BY <2>2, <3>1 DEF RowShape
    <2>4. Becomes(row, new) /\ Unflagged(new) = Unflagged(row)
        <3> HIDE DEF row, new
        <3>1. Becomes(row, new) BY <2>3 DEF Becomes, RowShape, Passable
        <3>2. RowShape(new) BY <2>3 DEF RowShape
        <3>3. Unflagged(new) = Unflagged(row) BY <2>2, <2>3, <3>2, UnflaggedRow
        <3> QED BY <3>1, <3>2, <3>3
    <2> QED BY <1>0, <2>1, <2>4
<1>4. ASSUME NEW id \in DOMAIN tasks, Delete(id) PROVE Kept
    <2>1. /\ DOMAIN tasks' \subseteq DOMAIN tasks
          /\ \A o \in DOMAIN tasks' : tasks'[o] = tasks[o]
        BY <1>4 DEF Delete
    <2> QED BY <1>0, <2>1
<1>6. CASE /\ ~ InsertItem /\ ~ MergeFile
           /\ \A id \in DOMAIN tasks : ~ Flag(id) /\ ~ Delete(id)
    <2>1. tasks' = tasks
        BY <1>6 DEF Next, vars, BeginImport, StopImport, Dump, BeginMerge, OpenFile, SkipFile,
                    EndMerge, StopMerge, OtherWrite, Upgrade, Annotate, bank
    <2> QED BY <1>a, <2>1
<1> HIDE DEF Kept
<1> QED BY <1>1, <1>2, <1>3, <1>4, <1>6

LEMMA BankNext == BankInv /\ MergeInv /\ [Next]_vars => BankInv'
<1> SUFFICES ASSUME BankInv, MergeInv, [Next]_vars PROVE BankInv'
    OBVIOUS
<1>1. \A id \in DOMAIN tasks' : RowShape(tasks'[id]) /\ Passable(tasks'[id])
    <2>1. \A id \in DOMAIN tasks : Passable(tasks[id]) BY DEF BankInv
    <2> QED BY <2>1, RowStep DEF Becomes
<1>2. /\ nextId' \in Nat \ {0}
      /\ \A id \in DOMAIN tasks' : id \in 1 .. nextId' - 1
    <2>0. /\ nextId \in Nat \ {0}
          /\ \A id \in DOMAIN tasks : id \in 1 .. nextId - 1
        BY DEF BankInv
    <2>1. CASE Upgrade
        <3>1. tasks' = tasks BY <2>1 DEF Upgrade
        <3> QED BY <2>1, <3>1, UpgradeIds
    <2>2. CASE ~ Upgrade
        <3>1. nextId' = nextId \/ nextId' = nextId + 1
            <4>1. CASE InsertItem BY <4>1, InsertedRows DEF InsertItem, bank
            <4>2. CASE ~ InsertItem
                BY <2>2, <4>2 DEF Next, vars, BeginImport, StopImport, Dump, BeginMerge, OpenFile,
                    MergeFile, SkipFile, EndMerge, StopMerge, OtherWrite, Annotate, Flag,
                    Delete, bank
            <4> QED BY <4>1, <4>2
        <3>2. \A id \in DOMAIN tasks' : id \in DOMAIN tasks \/ (id = nextId /\ nextId' = nextId + 1)
            BY RowStep
        <3> QED BY <2>0, <3>1, <3>2
    <2> QED BY <2>1, <2>2
<1>3. /\ importer' = [topic |-> importer'.topic, left |-> importer'.left]
      /\ importer'.left \in Seq(ValidItems)
    <2>0. /\ importer = [topic |-> importer.topic, left |-> importer.left]
          /\ importer.left \in Seq(ValidItems)
        BY DEF BankInv
    <2>1. CASE InsertItem BY <2>1, InsertTakes
    <2>2. ASSUME NEW b \in Batches, BeginImport(b)
          PROVE  /\ importer' = [topic |-> importer'.topic, left |-> importer'.left]
                 /\ importer'.left \in Seq(ValidItems)
        <3>1. b.items \in Seq(Items) BY BankAssumption
        <3>2. validate(b.items) \in Seq(ValidItems) BY <3>1, ValidateValid
        <3> QED BY <2>2, <3>2 DEF BeginImport
    <2>3. CASE StopImport BY <2>3 DEF StopImport, NotImporting
    <2>4. CASE importer' = importer BY <2>0, <2>4
    <2>5. CASE ~ InsertItem /\ ~ StopImport /\ ~ \E b \in Batches : BeginImport(b)
        <3>1. importer' = importer
            BY <2>5 DEF Next, vars, Dump, BeginMerge, OpenFile, MergeFile, SkipFile,
                EndMerge, StopMerge, OtherWrite, Annotate, Flag, Delete, Upgrade
        <3> QED BY <2>4, <3>1
    <2> QED BY <2>1, <2>2, <2>3, <2>5
<1> QED BY <1>1, <1>2, <1>3 DEF BankInv

LEMMA DumpNext == BankInv /\ MergeInv /\ DumpInv /\ [Next]_vars => DumpInv'
<1> SUFFICES ASSUME BankInv, MergeInv, DumpInv, [Next]_vars PROVE DumpInv'
    OBVIOUS
<1>0. /\ nextId \in Nat \ {0}
      /\ \A id \in DOMAIN tasks : id \in 1 .. nextId - 1
    BY DEF BankInv
<1>1. CASE Upgrade BY <1>1 DEF Upgrade, DumpInv
<1>2. CASE ~ Upgrade
    <2>1. upgraded' = upgraded
        BY <1>2 DEF Next, vars, BeginImport, InsertItem, StopImport, Dump, BeginMerge,
            OpenFile, MergeFile, SkipFile, EndMerge, StopMerge, OtherWrite, Annotate, Flag, Delete
    <2> SUFFICES ASSUME ~ upgraded, NEW d \in dumped'
                 PROVE  /\ d.id \in Nat /\ d.id < nextId'
                        /\ d.id \in DOMAIN tasks' => tasks'[d.id].content = d.content
        BY <2>1 DEF DumpInv
    <2>2. nextId' = nextId \/ nextId' = nextId + 1
        <3>1. CASE InsertItem BY <3>1, InsertedRows DEF InsertItem, bank
        <3>2. CASE ~ InsertItem
            BY <1>2, <3>2 DEF Next, vars, BeginImport, StopImport, Dump, BeginMerge, OpenFile,
                MergeFile, SkipFile, EndMerge, StopMerge, OtherWrite, Annotate, Flag,
                Delete, bank
        <3> QED BY <3>1, <3>2
    <2>3. /\ d.id \in Nat /\ d.id < nextId
          /\ d.id \in DOMAIN tasks => tasks[d.id].content = d.content
        <3>1. CASE d \in dumped BY <3>1 DEF DumpInv
        <3>2. CASE d \notin dumped
            <4>1. CASE Dump
                <5>1. PICK id \in DOMAIN tasks : d = [id |-> id, content |-> tasks[id].content]
                    BY <3>2, <4>1 DEF Dump
                <5> QED BY <1>0, <5>1
            <4>2. CASE ~ Dump
                <5>1. dumped' = dumped
                    BY <1>2, <4>2 DEF Next, vars, BeginImport, InsertItem, StopImport, BeginMerge,
                        OpenFile, MergeFile, SkipFile, EndMerge, StopMerge, OtherWrite, Annotate,
                        Flag, Delete
                <5> QED BY <3>2, <5>1
            <4> QED BY <4>1, <4>2
        <3> QED BY <3>1, <3>2
    <2>4. d.id \in DOMAIN tasks' =>
             d.id \in DOMAIN tasks /\ tasks'[d.id].content = tasks[d.id].content
        <3>1. d.id # nextId BY <1>0, <2>3
        <3> QED BY <3>1, RowStep DEF Becomes
    <2> QED BY <1>0, <2>2, <2>3, <2>4
<1> QED BY <1>1, <1>2

LEMMA BankInvariant == Spec => [](BankInv /\ MergeInv /\ DumpInv)
BY BankInit, BankNext, MergeNext, DumpNext, PTL DEF Spec

\* No row comes to hold a gate that no reference answer passes, or one that bars a
\* reference answer, whoever writes it and of whatever row.
THEOREM GatesStayPassable == Spec => []GatesPassable
<1>1. BankInv => GatesPassable BY DEF BankInv, Passable, GatesPassable
<1> QED BY <1>1, BankInvariant, PTL

\* A row stays what it was inserted as but for what was written about its content.
THEOREM RowsStayKept == Spec => RowsKept
<1> DEFINE Step ==
        \A id \in DOMAIN tasks \cap DOMAIN tasks' :
          LET old == Unflagged(tasks[id])
              new == Unflagged(tasks'[id])
          IN  /\ new.content = old.content /\ new.answers = old.answers
              /\ old.topic # NoTopic => new.topic = old.topic
              /\ new # old =>
                    \E j \in DOMAIN files[merger.next] :
                        LET on == files[merger.next][j].on
                        IN  on.id = id /\ (on.content = old.content \/ upgraded)
<1>1. ASSUME BankInv, MergeInv, DumpInv, [Next]_vars PROVE Step
    <2> SUFFICES ASSUME NEW id \in DOMAIN tasks \cap DOMAIN tasks'
                 PROVE  LET old == Unflagged(tasks[id])
                            new == Unflagged(tasks'[id])
                        IN  /\ new.content = old.content /\ new.answers = old.answers
                            /\ old.topic # NoTopic => new.topic = old.topic
                            /\ new # old =>
                                  \E j \in DOMAIN files[merger.next] :
                                      LET on == files[merger.next][j].on
                                      IN  on.id = id /\ (on.content = old.content \/ upgraded)
        OBVIOUS
    <2> DEFINE row == tasks[id]  next == tasks'[id]
    <2>1. Becomes(row, next) BY <1>1, RowStep DEF BankInv
    <2>2. RowShape(row) /\ RowShape(next) BY <1>1, <2>1 DEF BankInv, Becomes
    <2>3. ASSUME NEW r, RowShape(r)
          PROVE  /\ Unflagged(r).content = r.content /\ Unflagged(r).answers = r.answers
                 /\ Unflagged(r).topic = r.topic
        BY <2>3, UnflaggedRow
    <2>4. Unflagged(next) # Unflagged(row) =>
             \E j \in DOMAIN files[merger.next] :
                 /\ files[merger.next][j].on.id = id
                 /\ files[merger.next][j].on.content = row.content \/ upgraded
        <3> SUFFICES ASSUME Unflagged(next) # Unflagged(row)
                     PROVE  \E j \in DOMAIN files[merger.next] :
                               /\ files[merger.next][j].on.id = id
                               /\ files[merger.next][j].on.content = row.content \/ upgraded
            OBVIOUS
        <3>1. /\ merger.pc = "tx"
              /\ \E j \in DOMAIN files[merger.next] : files[merger.next][j].on.id = id
            BY <1>1, RowStep
        <3>2. PICK j \in DOMAIN files[merger.next] : files[merger.next][j].on.id = id
            BY <3>1
        <3>3. files[merger.next][j] \in Annotations BY <1>1, <3>1, AtFile
        <3>4. files[merger.next][j].on \in dumped BY <3>3 DEF Annotations
        <3>5. files[merger.next][j].on.content = row.content \/ upgraded
            BY <1>1, <3>2, <3>4 DEF DumpInv
        <3> QED BY <3>2, <3>5
    <2> HIDE DEF row, next
    <2>5. LET old == Unflagged(row)
              new == Unflagged(next)
          IN  /\ new.content = old.content /\ new.answers = old.answers
              /\ old.topic # NoTopic => new.topic = old.topic
              /\ new # old =>
                    \E j \in DOMAIN files[merger.next] :
                        LET on == files[merger.next][j].on
                        IN  on.id = id /\ (on.content = old.content \/ upgraded)
        BY <2>1, <2>2, <2>3, <2>4 DEF Becomes
    <2> QED BY <2>5 DEF row, next
<1>2. Spec => [][Step]_vars BY <1>1, BankInvariant, PTL DEF Spec
<1> QED BY <1>2 DEF RowsKept

-----------------------------------------------------------------------------
(* Annotations *)

\* The places of the annotations before file n, and of the first k of that file.
Places(fs, n, k) ==
    {i \in (1 .. Len(fs)) \X (1 .. 2) :
        i[2] \in DOMAIN fs[i[1]] /\ (i[1] < n \/ (i[1] = n /\ i[2] <= k))}

Last(i, S) == i \in S /\ \A j \in S : ~ Before(i, j)

\* A row has what the annotations at the places P say of it.
Landed(fs, id, row, P) ==
    LET A == {i \in P : fs[i[1]][i[2]].on.id = id}
        Crit(i) == filterCritical(fs[i[1]][i[2]].note.critical, row.answers)
        Forb(i) == filterForbidden(fs[i[1]][i[2]].note.forbidden, row.answers)
    IN  /\ (\E i \in A : fs[i[1]][i[2]].note.topic # NoTopic) => row.topic # NoTopic
        /\ \A i \in A :
              /\ Last(i, {j \in A : Crit(j) # {}}) => row.critical = Crit(i)
              /\ Last(i, {j \in A : Forb(j) # {}}) => row.forbidden = Forb(i)

\* One annotation more, that is about another row, and that is about this one.
LEMMA LandedAside ==
    ASSUME NEW fs, NEW id, NEW row, NEW P, Landed(fs, id, row, P),
           NEW i, fs[i[1]][i[2]].on.id # id
    PROVE  Landed(fs, id, row, P \cup {i})
<1> DEFINE A(Q) == {j \in Q : fs[j[1]][j[2]].on.id = id}
<1>1. A(P \cup {i}) = A(P) OBVIOUS
<1> HIDE DEF A
<1> QED BY <1>1 DEF Landed, A

LEMMA LandedOne ==
    ASSUME NEW fs, NEW id, NEW row, RowShape(row), NEW P, Landed(fs, id, row, P),
           NEW i, fs[i[1]][i[2]].on.id = id, \A j \in P : Before(j, i), ~ Before(i, i)
    PROVE  Landed(fs, id, Annotated(row, fs[i[1]][i[2]].note), P \cup {i})
<1> DEFINE note(j) == fs[j[1]][j[2]].note
           new == Annotated(row, note(i))
           Crit(j) == filterCritical(note(j).critical, row.answers)
           Forb(j) == filterForbidden(note(j).forbidden, row.answers)
           A == {j \in P : fs[j[1]][j[2]].on.id = id}
           B == {j \in P \cup {i} : fs[j[1]][j[2]].on.id = id}
<1>1. /\ new.answers = row.answers
      /\ new.topic = IF row.topic = NoTopic THEN note(i).topic ELSE row.topic
      /\ new.critical = IF Crit(i) # {} THEN Crit(i) ELSE row.critical
      /\ new.forbidden = IF Forb(i) # {} THEN Forb(i) ELSE row.forbidden
    BY AnnotatedRow
<1>2. B = A \cup {i} /\ \A j \in A : Before(j, i) OBVIOUS
<1>3. /\ (\E j \in A : note(j).topic # NoTopic) => row.topic # NoTopic
      /\ \A j \in A :
            /\ Last(j, {k \in A : Crit(k) # {}}) => row.critical = Crit(j)
            /\ Last(j, {k \in A : Forb(k) # {}}) => row.forbidden = Forb(j)
    BY DEF Landed
<1> SUFFICES /\ (\E j \in B : note(j).topic # NoTopic) => new.topic # NoTopic
             /\ \A j \in B :
                   /\ Last(j, {k \in B : Crit(k) # {}}) => new.critical = Crit(j)
                   /\ Last(j, {k \in B : Forb(k) # {}}) => new.forbidden = Forb(j)
    BY <1>1 DEF Landed
<1> HIDE DEF new, Crit, Forb, A, B, note
<1>4. (\E j \in B : note(j).topic # NoTopic) => new.topic # NoTopic
    BY <1>1, <1>2, <1>3
<1>5. ASSUME NEW j \in B, Last(j, {k \in B : Crit(k) # {}}) PROVE new.critical = Crit(j)
    <2>1. Crit(j) # {} /\ \A k \in B : Crit(k) # {} => ~ Before(j, k) BY <1>5 DEF Last
    <2>2. CASE Crit(i) # {}
        <3>1. j = i BY <1>2, <2>1, <2>2
        <3> QED BY <1>1, <2>2, <3>1
    <2>3. CASE Crit(i) = {}
        <3>1. j \in A BY <1>2, <2>1, <2>3
        <3>2. Last(j, {k \in A : Crit(k) # {}}) BY <1>2, <2>1, <3>1 DEF Last
        <3> QED BY <1>1, <1>3, <2>3, <3>1, <3>2
    <2> QED BY <2>2, <2>3
<1>6. ASSUME NEW j \in B, Last(j, {k \in B : Forb(k) # {}}) PROVE new.forbidden = Forb(j)
    <2>1. Forb(j) # {} /\ \A k \in B : Forb(k) # {} => ~ Before(j, k) BY <1>6 DEF Last
    <2>2. CASE Forb(i) # {}
        <3>1. j = i BY <1>2, <2>1, <2>2
        <3> QED BY <1>1, <2>2, <3>1
    <2>3. CASE Forb(i) = {}
        <3>1. j \in A BY <1>2, <2>1, <2>3
        <3>2. Last(j, {k \in A : Forb(k) # {}}) BY <1>2, <2>1, <3>1 DEF Last
        <3> QED BY <1>1, <1>3, <2>3, <3>1, <3>2
    <2> QED BY <2>2, <2>3
<1> QED BY <1>4, <1>5, <1>6

\* The files that a merge has gone through have landed, if it passed none over.
LandInv ==
    merger.pc # "idle" /\ merger.clean /\ ~ upgraded =>
        \A id \in DOMAIN tasks : Landed(files, id, tasks[id], Places(files, merger.next, 0))

\* A whole file lands.
LEMMA FileLands ==
    ASSUME BankInv, MergeInv, merger.pc = "tx",
           NEW id \in DOMAIN tasks, Landed(files, id, tasks[id], Places(files, merger.next, 0))
    PROVE  Landed(files, id, After(files[merger.next])[id], Places(files, merger.next + 1, 0))
<1> DEFINE n == merger.next
           file == files[n]
           len == Len(file)
<1>0. /\ n \in 1 .. Len(files) /\ Len(files) \in Nat
      /\ len \in Nat /\ len <= 2 /\ DOMAIN file = 1 .. len
      /\ \A k \in 1 .. Len(files) : DOMAIN files[k] = 1 .. Len(files[k]) /\ Len(files[k]) \in Nat
    <2>1. n \in 1 .. Len(files) /\ Len(files) \in Nat BY DEF MergeInv
    <2>2. \A k \in 1 .. Len(files) : files[k] \in Seq(Annotations) BY DEF MergeInv
    <2>3. \A k \in 1 .. Len(files) :
             DOMAIN files[k] = 1 .. Len(files[k]) /\ Len(files[k]) \in Nat
        BY <2>2
    <2>4. len <= 2 BY <2>1 DEF MergeInv
    <2> QED BY <2>1, <2>3, <2>4
<1>1. PICK f : /\ f[0] = tasks
               /\ \A k \in 0 .. len - 1 : f[k + 1] = Noted(f[k], file[k + 1])
               /\ After(file) = f[len]
    BY <1>0, AfterSteps
<1> HIDE DEF n, file, len
<1> DEFINE T == {m \in Nat : m <= len =>
                    RowShape(f[m][id]) /\ Landed(files, id, f[m][id], Places(files, n, m))}
<1>2. 0 \in T BY <1>1 DEF BankInv, n
<1>3. ASSUME NEW m \in T PROVE m + 1 \in T
    <2>0. m \in Nat OBVIOUS
    <2>1. CASE m + 1 <= len
        <3> DEFINE i == <<n, m + 1>>
        <3>1. m \in 0 .. len - 1 /\ m <= len BY <1>0, <2>0, <2>1
        <3>2. f[m + 1] = Noted(f[m], file[m + 1]) BY <1>1, <3>1
        <3>3. RowShape(f[m][id]) /\ Landed(files, id, f[m][id], Places(files, n, m))
            BY <3>1
        <3>4. i \in (1 .. Len(files)) \X (1 .. 2) /\ i[1] = n /\ i[2] = m + 1
              /\ i[2] \in DOMAIN files[i[1]]
            BY <1>0, <2>0, <2>1 DEF file
        <3> HIDE DEF i
        <3>5. Places(files, n, m + 1) = Places(files, n, m) \cup {i}
            <4>1. ASSUME NEW j \in (1 .. Len(files)) \X (1 .. 2)
                  PROVE  (j[1] < n \/ (j[1] = n /\ j[2] <= m + 1))
                            <=> (j[1] < n \/ (j[1] = n /\ j[2] <= m)) \/ j = i
                <5>1. j = <<j[1], j[2]>> /\ j[1] \in Nat /\ j[2] \in Nat BY <4>1
                <5>2. i = <<n, m + 1>> /\ n \in Nat BY <1>0 DEF i
                <5>3. j[2] <= m + 1 <=> j[2] <= m \/ j[2] = m + 1 BY <2>0, <5>1
                <5> QED BY <2>0, <5>1, <5>2, <5>3
            <4> QED BY <3>4, <4>1 DEF Places
        <3>6. \A j \in Places(files, n, m) : Before(j, i)
            <4> SUFFICES ASSUME NEW j \in Places(files, n, m) PROVE Before(j, i)
                OBVIOUS
            <4>1. /\ j[1] \in Nat /\ j[2] \in Nat
                  /\ j[1] < n \/ (j[1] = n /\ j[2] <= m)
                BY <1>0 DEF Places
            <4> QED BY <2>0, <3>4, <4>1 DEF Before
        <3>7. ~ Before(i, i) BY <1>0, <2>0, <3>4 DEF Before
        <3>8. files[i[1]][i[2]] = file[m + 1] BY <3>4 DEF file
        <3>9. CASE file[m + 1].on.id = id
            <4>1. f[m + 1][id] = Annotated(f[m][id], file[m + 1].note) BY <3>2, <3>9 DEF Noted
            <4>2. RowShape(f[m + 1][id]) BY <3>3, <4>1, AnnotatedRow
            <4>3. Landed(files, id, f[m + 1][id], Places(files, n, m + 1))
                BY <3>3, <3>5, <3>6, <3>7, <3>8, <3>9, <4>1, LandedOne
            <4> QED BY <2>0, <4>2, <4>3
        <3>10. CASE file[m + 1].on.id # id
            <4>1. f[m + 1][id] = f[m][id] BY <3>2, <3>10 DEF Noted
            <4>2. Landed(files, id, f[m + 1][id], Places(files, n, m + 1))
                BY <3>3, <3>5, <3>8, <3>10, <4>1, LandedAside
            <4> QED BY <2>0, <3>3, <4>1, <4>2
        <3> QED BY <3>9, <3>10
    <2> QED BY <2>0, <2>1
<1>4. T = Nat
    <2> HIDE DEF T
    <2>1. T \subseteq Nat BY DEF T
    <2> QED BY <1>2, <1>3, <2>1, NatSetInduction
<1>5. Landed(files, id, f[len][id], Places(files, n, len))
    <2>1. len \in T /\ len <= len BY <1>0, <1>4
    <2> QED BY <2>1
<1>6. Places(files, n, len) = Places(files, n + 1, 0)
    <2>1. ASSUME NEW j \in (1 .. Len(files)) \X (1 .. 2), j[2] \in DOMAIN files[j[1]]
          PROVE  (j[1] < n \/ (j[1] = n /\ j[2] <= len))
                    <=> (j[1] < n + 1 \/ (j[1] = n + 1 /\ j[2] <= 0))
        <3>1. j[1] \in Nat /\ j[2] \in 1 .. 2 /\ n \in Nat BY <1>0, <2>1
        <3>2. j[1] = n => j[2] <= len BY <1>0, <2>1 DEF file, len
        <3> QED BY <3>1, <3>2
    <2> QED BY <2>1 DEF Places
<1> QED BY <1>1, <1>5, <1>6 DEF n, file

LEMMA LandNext == BankInv /\ MergeInv /\ DumpInv /\ LandInv /\ [Next]_vars => LandInv'
<1> SUFFICES ASSUME BankInv, MergeInv, DumpInv, LandInv, [Next]_vars,
                    merger'.pc # "idle", merger'.clean, ~ upgraded',
                    NEW id \in DOMAIN tasks'
             PROVE  Landed(files', id, tasks'[id], Places(files', merger'.next, 0))
    BY DEF LandInv
<1>0. merger \in [pc : {"idle", "files", "tx"}, next : Nat \ {0}, last : Nat,
                  stale : BOOLEAN, clean : BOOLEAN]
    BY DEF MergeInv
<1>a. ASSUME merger.pc # "idle", merger.clean, merger'.next = merger.next, files' = files,
             ~ upgraded, id \in DOMAIN tasks => /\ tasks'[id].answers = tasks[id].answers
                                  /\ tasks'[id].topic = tasks[id].topic
                                  /\ tasks'[id].critical = tasks[id].critical
                                  /\ tasks'[id].forbidden = tasks[id].forbidden
      PROVE  Landed(files', id, tasks'[id], Places(files', merger'.next, 0))
    <2>1. CASE id \in DOMAIN tasks
        <3>1. Landed(files, id, tasks[id], Places(files, merger.next, 0)) BY <1>a, <2>1 DEF LandInv
        <3> QED BY <1>a, <2>1, <3>1, ZenonT(60) DEF Landed
    <2>2. CASE id \notin DOMAIN tasks
        <3>1. id = nextId BY <2>2, RowStep
        <3>2. ASSUME NEW i \in Places(files, merger.next, 0), files[i[1]][i[2]].on.id = id
              PROVE  FALSE
            <4>1. i[1] \in DOMAIN files /\ i[2] \in DOMAIN files[i[1]]
                BY DEF Places, MergeInv
            <4>2. files[i[1]] \in Seq(Annotations) BY <4>1 DEF MergeInv
            <4>3. files[i[1]][i[2]] \in Annotations BY <4>1, <4>2
            <4>4. files[i[1]][i[2]].on \in dumped BY <4>3 DEF Annotations
            <4> QED BY <1>a, <3>1, <3>2, <4>4 DEF DumpInv, BankInv
        <3>3. {i \in Places(files, merger.next, 0) : files[i[1]][i[2]].on.id = id} = {}
            BY <3>2
        <3> QED BY <1>a, <3>3 DEF Landed
    <2> QED BY <2>1, <2>2
<1>b. ASSUME Written
      PROVE  /\ merger'.pc = merger.pc /\ merger'.next = merger.next
             /\ merger'.clean = merger.clean
    BY <1>b, <1>0 DEF Written
<1>1. CASE MergeFile
    <2>1. /\ merger.pc = "tx" /\ tasks' = After(files[merger.next])
          /\ Advance(merger.clean) /\ UNCHANGED <<files, upgraded>>
        BY <1>1 DEF MergeFile
    <2>2. merger'.next = merger.next + 1 /\ merger'.clean = merger.clean
        BY <1>0, <2>1 DEF Advance
    <2>3. id \in DOMAIN tasks
        <3>1. nextId' = nextId BY <1>1 DEF MergeFile
        <3> QED BY <3>1, RowStep DEF BankInv
    <2>4. Landed(files, id, tasks[id], Places(files, merger.next, 0))
        BY <2>1, <2>2, <2>3 DEF LandInv
    <2> QED BY <2>1, <2>2, <2>3, <2>4, FileLands
<1>2. CASE SkipFile
    <2>1. merger'.clean = FALSE BY <1>0, <1>2 DEF SkipFile, Advance
    <2> QED BY <2>1
<1>3. CASE BeginMerge
    <2>1. merger'.next = 1 /\ files' = files BY <1>3 DEF BeginMerge, NotMerging
    <2>2. Places(files', merger'.next, 0) = {}
        <3>1. ASSUME NEW j \in (1 .. Len(files)) \X (1 .. 2)
              PROVE  ~ (j[1] < 1 \/ (j[1] = 1 /\ j[2] <= 0))
            BY DEF MergeInv
        <3> QED BY <2>1, <3>1 DEF Places
    <2> QED BY <2>2 DEF Landed
<1>4. CASE EndMerge \/ StopMerge BY <1>4 DEF EndMerge, StopMerge, NotMerging
<1>5. CASE OpenFile
    <2>1. /\ merger.pc = "files" /\ merger' = [merger EXCEPT !.pc = "tx", !.stale = FALSE]
          /\ UNCHANGED <<tasks, files, upgraded>>
        BY <1>5 DEF OpenFile, bank
    <2>2. merger'.next = merger.next /\ merger'.clean = merger.clean BY <1>0, <2>1
    <2> QED BY <1>a, <2>1, <2>2
<1>6. CASE InsertItem
    <2>1. UNCHANGED <<files, upgraded>> BY <1>6 DEF InsertItem
    <2>2. /\ merger'.pc = merger.pc /\ merger'.next = merger.next
          /\ merger'.clean = merger.clean
        BY <1>6, <1>b DEF InsertItem, Inserted
    <2>3. id \in DOMAIN tasks => tasks'[id] = tasks[id]
        <3>1. nextId \notin DOMAIN tasks BY DEF BankInv
        <3> QED BY <1>6, <3>1, InsertedRows DEF InsertItem, bank
    <2> QED BY <1>a, <2>1, <2>2, <2>3
<1>7. ASSUME NEW o \in DOMAIN tasks, Flag(o)
      PROVE  Landed(files', id, tasks'[id], Places(files', merger'.next, 0))
    <2>1. /\ DOMAIN tasks' = DOMAIN tasks
          /\ \A r \in DOMAIN tasks : r # o => tasks'[r] = tasks[r]
          /\ tasks'[o] = [tasks[o] EXCEPT !.flagged = ~ @]
          /\ Written /\ UNCHANGED <<files, upgraded>>
        BY <1>7 DEF Flag
    <2>2. /\ tasks'[id].answers = tasks[id].answers
          /\ tasks'[id].topic = tasks[id].topic
          /\ tasks'[id].critical = tasks[id].critical
          /\ tasks'[id].forbidden = tasks[id].forbidden
        <3>1. CASE id # o BY <2>1, <3>1
        <3>2. CASE id = o
            <4> DEFINE row == tasks[o]  new == tasks'[o]
            <4>1. RowShape(row) BY DEF BankInv
            <4>2. new = [row EXCEPT !.flagged = ~ @] BY <2>1
            <4> HIDE DEF row, new
            <4>3. /\ new.answers = row.answers /\ new.topic = row.topic
                  /\ new.critical = row.critical /\ new.forbidden = row.forbidden
                BY <4>1, <4>2 DEF RowShape
            <4> QED BY <3>2, <4>3 DEF row, new
        <3> QED BY <3>1, <3>2
    <2> QED BY <1>a, <1>b, <2>1, <2>2
<1>8. ASSUME NEW o \in DOMAIN tasks, Delete(o)
      PROVE  Landed(files', id, tasks'[id], Places(files', merger'.next, 0))
    <2>1. /\ \A r \in DOMAIN tasks' : tasks'[r] = tasks[r]
          /\ Written /\ UNCHANGED <<files, upgraded>>
        BY <1>8 DEF Delete
    <2> QED BY <1>a, <1>b, <2>1
<1>9. CASE Upgrade BY <1>9 DEF Upgrade
<1>10. ASSUME NEW file \in NewFiles, Annotate(file)
       PROVE  Landed(files', id, tasks'[id], Places(files', merger'.next, 0))
    BY <1>10 DEF Annotate
<1>11. CASE \/ UNCHANGED vars \/ StopImport \/ Dump \/ \E b \in Batches : BeginImport(b)
    <2>1. UNCHANGED <<tasks, files, merger, upgraded>>
        BY <1>11 DEF vars, StopImport, Dump, BeginImport, bank
    <2> QED BY <1>a, <2>1
<1>12. CASE OtherWrite
    <2>1. Written /\ UNCHANGED <<tasks, files, upgraded>>
        BY <1>12 DEF OtherWrite, bank
    <2> QED BY <1>a, <1>b, <2>1
<1> QED
    BY <1>1, <1>2, <1>3, <1>4, <1>5, <1>6, <1>7, <1>8, <1>9, <1>10, <1>11, <1>12 DEF Next

LEMMA LandedAll == MergeInv /\ LandInv => AnnotationsLand
<1> SUFFICES ASSUME MergeInv, LandInv, merger.pc = "files", merger.next > merger.last,
                    merger.clean, ~ upgraded, NEW id \in DOMAIN tasks
             PROVE  LET row == tasks[id]
                        Crit(i) == filterCritical(Note(i).critical, row.answers)
                        Forb(i) == filterForbidden(Note(i).forbidden, row.answers)
                        Latest(i, S) == i \in S /\ \A j \in S : ~Before(i, j)
                    IN  /\ (\E i \in About(id) : Note(i).topic # NoTopic) => row.topic # NoTopic
                        /\ \A i \in About(id) :
                              /\ Latest(i, {j \in About(id) : Crit(j) # {}})
                                    => row.critical = Crit(i)
                              /\ Latest(i, {j \in About(id) : Forb(j) # {}})
                                    => row.forbidden = Forb(i)
    BY DEF AnnotationsLand
<1> DEFINE P == Places(files, merger.next, 0)
<1>1. merger.last = Len(files) /\ Len(files) \in Nat /\ merger.next \in Nat
    BY DEF MergeInv
<1>2. About(id) = {i \in P : files[i[1]][i[2]].on.id = id}
    <2>1. \A i \in (1 .. Len(files)) \X (1 .. 2) : i[1] < merger.next BY <1>1
    <2> QED BY <1>1, <2>1 DEF About, Places
<1>3. Landed(files, id, tasks[id], P) BY DEF LandInv
<1> HIDE DEF P
<1> QED BY <1>2, <1>3 DEF Landed, Last, Note

\* An annotation run that passed no file over leaves every row with what the last
\* annotation about it says, whatever else is written meanwhile.
THEOREM AnnotationsAllLand == Spec => []AnnotationsLand
<1>1. Init => LandInv BY DEF Init, LandInv, NotMerging
<1> QED
    BY <1>1, BankInit, BankNext, MergeNext, DumpNext, LandNext, LandedAll, PTL DEF Spec
=============================================================================
