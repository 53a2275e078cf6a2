--------------------------- MODULE BackupsProofs ---------------------------
(***************************************************************************)
(* Backups keeps what SnapshotsKept says, for any number of programs, days  *)
(* and snapshots kept.  The invariant says of every day that its snapshot   *)
(* is there, or outnumbered, or that a program has it in hand: one about to *)
(* create the file or writing it under its name.  A program that writes to  *)
(* a file without a name is nobody's hope, which is why Remove, by which it *)
(* lost the name, had to leave its own program at the day.                  *)
(***************************************************************************)
EXTENDS Backups, FiniteSetTheorems, TLAPS

InHand(d) ==
    \E a \in Programs : day[a] = d /\ (at[a] = "vacuum" \/ Writes(a))

Covered == \A d \in named \ spoiled : Snapshot(d) \/ Outnumbered(d) \/ InHand(d)

FilesSound ==
    /\ \A d \in DOMAIN files : files[d] = Partial => d \in spoiled
    /\ \A d \in DOMAIN files : \A a \in Programs :
          files[d] = a => at[a] = "copy" /\ day[a] = d

DoomedSound == \A a \in Programs : \A d \in doomed[a] : Outnumbered(d)

IInv == TypeOK /\ FilesSound /\ DoomedSound /\ Covered

-----------------------------------------------------------------------------
(* What is newer only grows in number *)

LEMMA StaysOutnumbered ==
    ASSUME NEW d \in Nat, IsFiniteSet(named'), named' \in SUBSET Nat,
           named \subseteq named', Outnumbered(d)
    PROVE  Outnumbered(d)'
<1> DEFINE Old == {e \in named : e > d}
           New == {e \in named' : e > d}
<1>1. Old \subseteq New
      OBVIOUS
<1>2. IsFiniteSet(New)
      BY FS_Subset
<1>3. Cardinality(Old) <= Cardinality(New) /\ IsFiniteSet(Old)
      BY <1>1, <1>2, FS_Subset
<1>4. Cardinality(Old) \in Nat /\ Cardinality(New) \in Nat
      BY <1>2, <1>3, FS_CardinalityType
<1>5. QED
      BY <1>3, <1>4, BackupsAssumption DEF Outnumbered

LEMMA DoomedIsOutnumbered ==
    ASSUME TypeOK, NEW d \in Doomed
    PROVE  d \in Nat /\ Outnumbered(d)
<1> DEFINE Files == {e \in DOMAIN files : e > d}
           Days == {e \in named : e > d}
<1>1. d \in Nat /\ Files \subseteq Days /\ IsFiniteSet(Days)
  <2>1. Days \subseteq named
        OBVIOUS
  <2>2. QED
        BY <2>1, FS_Subset DEF TypeOK, Doomed
<1>2. Cardinality(Files) <= Cardinality(Days) /\ IsFiniteSet(Files)
      BY <1>1, FS_Subset
<1>3. Cardinality(Files) \in Nat /\ Cardinality(Days) \in Nat
      BY <1>1, <1>2, FS_CardinalityType
<1>4. Cardinality(Files) >= Keep
      BY DEF Doomed
<1>5. QED
      BY <1>1, <1>2, <1>3, <1>4, BackupsAssumption DEF Outnumbered

-----------------------------------------------------------------------------
(* Types *)

LEMMA TypeInit == Init => TypeOK
<1> SUFFICES ASSUME Init PROVE TypeOK
    OBVIOUS
<1>1. IsFiniteSet(named)
      BY FS_EmptySet DEF Init
<1>2. QED
      BY <1>1 DEF Init, TypeOK

LEMMA TypeNext ==
    ASSUME TypeOK, [Next]_vars
    PROVE  TypeOK'
<1> USE DEF TypeOK
<1>1. CASE UNCHANGED vars
      BY <1>1 DEF vars
<1>2. CASE Tick
      BY <1>2, BackupsAssumption DEF Tick
<1>3. ASSUME NEW a \in Programs, Begin(a) PROVE TypeOK'
  <2>1. now \div 2 \in Nat
        OBVIOUS
  <2>2. QED
        BY <1>3, <2>1 DEF Begin
<1>4. ASSUME NEW a \in Programs, Remove(a) PROVE TypeOK'
      BY <1>4 DEF Remove, Without
<1>5. ASSUME NEW a \in Programs, Create(a) PROVE TypeOK'
  <2>1. IsFiniteSet(named')
        BY <1>5, FS_AddElement DEF Create
  <2>2. QED
        BY <1>5, <2>1 DEF Create, With
<1>6. ASSUME NEW a \in Programs, Finish(a) PROVE TypeOK'
      BY <1>6 DEF Finish, With, Writes, Whole
<1>7. due \in Nat /\ nextBackupSlot \in Nat
      BY DEF nextBackupSlot
<1>8. ASSUME NEW a \in Programs, LeavesOff(a), UNCHANGED named
      PROVE  /\ spoiled' \in SUBSET Nat
             /\ DOMAIN files' \subseteq named'
             /\ \A d \in DOMAIN files' : files'[d] \in Programs \cup {Whole, Partial}
      BY <1>8 DEF LeavesOff, With, Writes
<1>9. ASSUME NEW a \in Programs, Fail(a) PROVE TypeOK'
      BY <1>7, <1>8, <1>9 DEF Fail, Rest
<1>10. ASSUME NEW a \in Programs, List(a) PROVE TypeOK'
      BY <1>7, <1>10, DoomedIsOutnumbered DEF List, Rest
<1>11. ASSUME NEW a \in Programs, DeleteOldest(a) PROVE TypeOK'
      BY <1>7, <1>11 DEF DeleteOldest, Rest, Without
<1>12. ASSUME NEW a \in Programs, Kill(a) PROVE TypeOK'
      BY <1>7, <1>8, <1>12 DEF Kill
<1>13. QED
      BY <1>1, <1>2, <1>3, <1>4, <1>5, <1>6, <1>9, <1>10, <1>11, <1>12 DEF Next

-----------------------------------------------------------------------------
(* Files and lists *)

LEMMA FilesNext ==
    ASSUME TypeOK, FilesSound, [Next]_vars
    PROVE  FilesSound'
<1> USE BackupsAssumption DEF TypeOK, FilesSound
<1>1. CASE UNCHANGED vars \/ Tick
      BY <1>1 DEF vars, Tick
<1>2. ASSUME NEW a \in Programs, Begin(a) PROVE FilesSound'
      BY <1>2 DEF Begin
<1>3. ASSUME NEW a \in Programs, Remove(a) PROVE FilesSound'
      BY <1>3 DEF Remove, Without
<1>4. ASSUME NEW a \in Programs, Create(a) PROVE FilesSound'
      BY <1>4 DEF Create, With
<1>5. ASSUME NEW a \in Programs, Finish(a) PROVE FilesSound'
  <2>1. Whole # Partial
        BY DEF Whole, Partial
  <2>2. QED
        BY <1>5, <2>1 DEF Finish, With, Writes
<1>6. ASSUME NEW a \in Programs, LeavesOff(a), day' = day,
             \A b \in Programs \ {a} : at'[b] = at[b]
      PROVE  FilesSound'
  <2>1. \A b \in Programs : b # a /\ at[b] = "copy" => at'[b] = "copy"
        BY <1>6
  <2>2. QED
        BY <1>6, <2>1 DEF LeavesOff, With, Writes
<1>7. ASSUME NEW a \in Programs, Fail(a) PROVE FilesSound'
      BY <1>6, <1>7 DEF Fail, Rest
<1>8. ASSUME NEW a \in Programs, List(a) PROVE FilesSound'
      BY <1>8 DEF List, Rest
<1>9. ASSUME NEW a \in Programs, DeleteOldest(a) PROVE FilesSound'
      BY <1>9 DEF DeleteOldest, Rest, Without
<1>10. ASSUME NEW a \in Programs, Kill(a) PROVE FilesSound'
      BY <1>6, <1>10 DEF Kill
<1>11. QED
      BY <1>1, <1>2, <1>3, <1>4, <1>5, <1>7, <1>8, <1>9, <1>10 DEF Next

LEMMA NamedGrows ==
    ASSUME [Next]_vars
    PROVE  named \subseteq named'
BY DEF Next, vars, Tick, Begin, Remove, Create, Finish, Fail, List, DeleteOldest, Kill

LEMMA OutnumberedNext ==
    ASSUME TypeOK, TypeOK', [Next]_vars, NEW d \in Nat, Outnumbered(d)
    PROVE  Outnumbered(d)'
BY NamedGrows, StaysOutnumbered DEF TypeOK

\* A list is drawn up from the files there are, which have had their day.
LEMMA DoomedNext ==
    ASSUME TypeOK, TypeOK', DoomedSound, [Next]_vars
    PROVE  DoomedSound'
<1> SUFFICES ASSUME NEW b \in Programs, NEW d \in doomed'[b]
             PROVE  Outnumbered(d)'
    BY DEF DoomedSound
<1>1. d \in doomed[b] \/ d \in Doomed
      BY DEF TypeOK, Next, vars, Tick, Begin, Remove, Create, Finish, Fail, List,
             DeleteOldest, Kill, Rest
<1>2. d \in Nat /\ Outnumbered(d)
      BY <1>1, DoomedIsOutnumbered DEF DoomedSound, TypeOK
<1>3. QED
      BY <1>2, OutnumberedNext

-----------------------------------------------------------------------------
(* No day is forgotten *)

\* A step that does not touch a day's file, nor the programs that have it in hand.
LEMMA Untouched ==
    ASSUME TypeOK, TypeOK', [Next]_vars, NEW d \in Nat,
           Snapshot(d) \/ Outnumbered(d) \/ InHand(d),
           Snapshot(d) => Snapshot(d)',
           InHand(d) => InHand(d)'
    PROVE  Snapshot(d)' \/ Outnumbered(d)' \/ InHand(d)'
BY OutnumberedNext

LEMMA CoveredNext ==
    ASSUME TypeOK, TypeOK', FilesSound, DoomedSound, Covered, [Next]_vars
    PROVE  Covered'
<1> SUFFICES ASSUME NEW d \in Nat, d \in named', d \notin spoiled'
             PROVE  Snapshot(d)' \/ Outnumbered(d)' \/ InHand(d)'
    BY DEF Covered, TypeOK
<1> DEFINE Held == Snapshot(d) \/ Outnumbered(d) \/ InHand(d)
<1>1. CASE UNCHANGED vars \/ Tick
  <2>1. Held /\ UNCHANGED <<files, at, day>>
        BY <1>1 DEF Covered, vars, Tick
  <2>2. QED
        BY <2>1, Untouched DEF Snapshot, InHand, Writes
<1>2. ASSUME NEW a \in Programs, Begin(a) PROVE Snapshot(d)' \/ Outnumbered(d)' \/ InHand(d)'
  <2>1. Held /\ UNCHANGED files
        BY <1>2 DEF Covered, Begin
  <2>2. \A b \in Programs : b # a => at'[b] = at[b] /\ day'[b] = day[b]
        BY <1>2 DEF Begin, TypeOK
  <2>3. at[a] = "idle"
        BY <1>2 DEF Begin
  <2>4. InHand(d) => InHand(d)'
        BY <2>1, <2>2, <2>3 DEF InHand, Writes
  <2>5. QED
        BY <2>1, <2>4, Untouched DEF Snapshot
<1>3. ASSUME NEW a \in Programs, Remove(a) PROVE Snapshot(d)' \/ Outnumbered(d)' \/ InHand(d)'
  <2>1. day' = day /\ at'[a] = "vacuum" /\ at[a] = "remove"
        BY <1>3 DEF Remove, TypeOK
  <2>2. \A b \in Programs : b # a => at'[b] = at[b]
        BY <1>3 DEF Remove, TypeOK
  <2>3. CASE d = day[a]
        BY <2>1, <2>3 DEF InHand
  <2>4. CASE d # day[a]
    <3>1. Held
          BY <1>3 DEF Covered, Remove
    <3>2. d \in DOMAIN files => d \in DOMAIN files' /\ files'[d] = files[d]
          BY <1>3, <2>4 DEF Remove, Without
    <3>3. InHand(d) => InHand(d)'
          BY <2>1, <2>2, <3>2 DEF InHand, Writes
    <3>4. QED
          BY <3>1, <3>2, <3>3, Untouched DEF Snapshot
  <2>5. QED
        BY <2>3, <2>4
<1>4. ASSUME NEW a \in Programs, Create(a) PROVE Snapshot(d)' \/ Outnumbered(d)' \/ InHand(d)'
  <2>1. day' = day /\ at'[a] = "copy" /\ at[a] = "vacuum"
        BY <1>4 DEF Create, TypeOK
  <2>2. \A b \in Programs : b # a => at'[b] = at[b]
        BY <1>4 DEF Create, TypeOK
  <2>3. CASE d = day[a]
    <3>1. d \in DOMAIN files' /\ files'[d] = a
          BY <1>4, <2>3 DEF Create, With
    <3>2. QED
          BY <2>1, <2>3, <3>1 DEF InHand, Writes
  <2>4. CASE d # day[a]
    <3>1. Held
          BY <1>4, <2>4 DEF Covered, Create
    <3>2. d \in DOMAIN files => d \in DOMAIN files' /\ files'[d] = files[d]
          BY <1>4, <2>4 DEF Create, With
    <3>3. InHand(d) => InHand(d)'
          BY <2>1, <2>2, <2>4, <3>2 DEF InHand, Writes
    <3>4. QED
          BY <3>1, <3>2, <3>3, Untouched DEF Snapshot
  <2>5. QED
        BY <2>3, <2>4
<1>5. ASSUME NEW a \in Programs, Finish(a) PROVE Snapshot(d)' \/ Outnumbered(d)' \/ InHand(d)'
  <2>1. day' = day /\ at[a] = "copy" /\ \A b \in Programs : b # a => at'[b] = at[b]
        BY <1>5 DEF Finish, TypeOK
  <2>2. CASE Writes(a) /\ d = day[a]
        BY <1>5, <2>2 DEF Finish, With, Snapshot
  <2>3. CASE ~(Writes(a) /\ d = day[a])
    <3>1. Held
          BY <1>5, <2>3 DEF Covered, Finish
    <3>2. d \in DOMAIN files => d \in DOMAIN files' /\ files'[d] = files[d]
          BY <1>5, <2>3 DEF Finish, With
    <3>3. InHand(d) => InHand(d)'
          BY <2>1, <2>3, <3>2 DEF InHand, Writes
    <3>4. QED
          BY <3>1, <3>2, <3>3, Untouched DEF Snapshot
  <2>4. QED
        BY <2>2, <2>3
<1>6. ASSUME NEW a \in Programs, LeavesOff(a), UNCHANGED <<day, named>>,
             \A b \in Programs \ {a} : at'[b] = at[b]
      PROVE  Snapshot(d)' \/ Outnumbered(d)' \/ InHand(d)'
  <2>1. d \notin spoiled /\ ~(Writes(a) /\ d = day[a])
        BY <1>6 DEF LeavesOff
  <2>2. ~(at[a] = "vacuum" /\ d = day[a] /\ d \notin DOMAIN files)
        BY <1>6 DEF LeavesOff
  <2>3. Held
        BY <1>6, <2>1 DEF Covered
  <2>4. d \in DOMAIN files => d \in DOMAIN files' /\ files'[d] = files[d]
        BY <1>6, <2>1 DEF LeavesOff, With
  <2>5. ASSUME NEW b \in Programs, b # a, day[b] = d, at[b] = "vacuum" \/ Writes(b)
        PROVE  InHand(d)'
        BY <1>6, <2>4, <2>5 DEF InHand, Writes
  <2>6. CASE d \in DOMAIN files
    <3>1. files[d] = Whole \/ \E b \in Programs : files[d] = b
          BY <2>1, <2>6 DEF FilesSound, TypeOK
    <3>2. CASE files[d] = Whole
          BY <2>4, <2>6, <3>2 DEF Snapshot
    <3>3. ASSUME NEW b \in Programs, files[d] = b
          PROVE  InHand(d)'
      <4>1. at[b] = "copy" /\ day[b] = d
            BY <2>6, <3>3 DEF FilesSound
      <4>2. b # a
            BY <2>1, <2>6, <3>3, <4>1 DEF Writes
      <4>3. QED
            BY <2>5, <2>6, <3>3, <4>1, <4>2 DEF Writes
    <3>4. QED
          BY <3>1, <3>2, <3>3
  <2>7. CASE d \notin DOMAIN files
    <3>1. InHand(d) => InHand(d)'
          BY <2>2, <2>5, <2>7 DEF InHand, Writes
    <3>2. QED
          BY <2>3, <2>7, <3>1, OutnumberedNext DEF Snapshot
  <2>8. QED
        BY <2>6, <2>7
<1>7. ASSUME NEW a \in Programs, Fail(a) PROVE Snapshot(d)' \/ Outnumbered(d)' \/ InHand(d)'
      BY <1>6, <1>7 DEF Fail, Rest, TypeOK
<1>8. ASSUME NEW a \in Programs, List(a) PROVE Snapshot(d)' \/ Outnumbered(d)' \/ InHand(d)'
  <2>1. Held /\ UNCHANGED <<files, day>> /\ at[a] = "prune"
        BY <1>8 DEF Covered, List
  <2>2. \A b \in Programs : b # a => at'[b] = at[b]
        BY <1>8 DEF List, Rest, TypeOK
  <2>3. QED
        BY <2>1, <2>2, Untouched DEF Snapshot, InHand, Writes
<1>9. ASSUME NEW a \in Programs, DeleteOldest(a)
      PROVE  Snapshot(d)' \/ Outnumbered(d)' \/ InHand(d)'
  <2>1. PICK e \in doomed[a] : files' = Without(e)
        BY <1>9 DEF DeleteOldest
  <2>2. Held /\ day' = day /\ at[a] = "delete"
        BY <1>9 DEF Covered, DeleteOldest
  <2>3. \A b \in Programs : b # a => at'[b] = at[b]
        BY <1>9 DEF DeleteOldest, Rest, TypeOK
  <2>4. CASE d = e
        BY <2>1, <2>4, OutnumberedNext DEF DoomedSound
  <2>5. CASE d # e
    <3>1. d \in DOMAIN files => d \in DOMAIN files' /\ files'[d] = files[d]
          BY <2>1, <2>5 DEF Without
    <3>2. InHand(d) => InHand(d)'
          BY <2>2, <2>3, <3>1 DEF InHand, Writes
    <3>3. QED
          BY <2>2, <3>1, <3>2, Untouched DEF Snapshot
  <2>6. QED
        BY <2>4, <2>5
<1>10. ASSUME NEW a \in Programs, Kill(a) PROVE Snapshot(d)' \/ Outnumbered(d)' \/ InHand(d)'
      BY <1>6, <1>10 DEF Kill, TypeOK
<1>11. QED
      BY <1>1, <1>2, <1>3, <1>4, <1>5, <1>7, <1>8, <1>9, <1>10 DEF Next

-----------------------------------------------------------------------------
(* The invariant and the property *)

LEMMA InitIInv == Init => IInv
<1> SUFFICES ASSUME Init PROVE IInv
    OBVIOUS
<1>1. QED
      BY TypeInit DEF Init, IInv, FilesSound, DoomedSound, Covered

LEMMA NextIInv == IInv /\ [Next]_vars => IInv'
BY TypeNext, FilesNext, DoomedNext, CoveredNext DEF IInv

LEMMA IInvImplies == IInv => SnapshotsKept
BY DEF IInv, Covered, SnapshotsKept, InHand, Busy, Writes

\* A day's snapshot is lost only to a backup of that very day that fails with the
\* file in its hands, and to `Keep` later days: whatever programs back up and
\* prune at the same time, and wherever they are killed (store.Backup,
\* store.PruneBackups, StartBackupLoop and serbian -backup).
THEOREM SnapshotsStay == Spec => []SnapshotsKept
<1>1. Spec => []IInv
      BY InitIInv, NextIInv, PTL DEF Spec
<1>2. QED
      BY <1>1, IInvImplies, PTL
=============================================================================
