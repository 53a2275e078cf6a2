--------------------------- MODULE RemindersProofs --------------------------
(* The loop's slots, and the retirement of dead subscriptions, for every set  *)
(* of accounts, devices and requests, every clock and every set of slots.     *)
EXTENDS Reminders, FiniteSetTheorems, WellFoundedInduction, TLAPS

(* nextSlot *)

Below == {ss \in Nat \X Nat : ss[1] < ss[2]}

\* A set of natural numbers has a least one.
LEMMA LeastNatural ==
    ASSUME NEW T \in SUBSET Nat, T # {}
    PROVE  \E n \in T : \A k \in T : n <= k
<1>1. IsWellFoundedOn(Below, Nat)
    BY NatLessThanWellFounded DEF OpToRel, Below
<1>2. PICK n \in T : \A k \in T : <<k, n>> \notin Below
    BY <1>1, WFMin
<1>3. \A k \in T : ~ (k < n)
    BY <1>2 DEF Below
<1>4. \A k \in T : n <= k
    BY <1>3
<1> QED BY <1>4

LEMMA EarliestIs ==
    ASSUME NEW T \in SUBSET Nat, T # {}
    PROVE  Earliest(T) \in T /\ \A t \in T : Earliest(T) <= t
BY LeastNatural DEF Earliest

\* Midnight comes once a day.
LEMMA DayOf ==
    ASSUME NEW t \in Nat
    PROVE  /\ t % DayLen \in 0 .. DayLen - 1
           /\ t \div DayLen \in Nat
           /\ Midnight(t) = DayLen * (t \div DayLen)
           /\ Midnight(t) \in Nat
           /\ t = Midnight(t) + (t % DayLen)
           /\ Midnight(t) <= t /\ t < Midnight(t) + DayLen
<1>0. DayLen \in Nat \ {0} BY RemindersAssumption
<1>1. /\ t % DayLen \in 0 .. DayLen - 1
      /\ t \div DayLen \in Nat
      /\ Midnight(t) = DayLen * (t \div DayLen)
      /\ Midnight(t) \in Nat
    BY <1>0 DEF Midnight
<1>2. t = Midnight(t) + (t % DayLen)
    BY <1>0, <1>1 DEF Midnight
<1> QED BY <1>0, <1>1, <1>2

LEMMA Times ==
    ASSUME NEW d \in Nat \ {0}, NEW q \in Nat, NEW r \in Nat
    PROVE  /\ q <= r => d * q <= d * r
           /\ q + 1 <= r => d * q + d <= d * r
           /\ q + 2 <= r => d * q + 2 * d <= d * r
<1>1. ASSUME NEW a \in Nat, NEW b \in Nat PROVE d * (a + b) = d * a + d * b
    OBVIOUS
<1>2. ASSUME NEW a \in Nat PROVE d * a \in Nat
    OBVIOUS
<1>3. ASSUME q <= r PROVE d * q <= d * r
    <2>1. r - q \in Nat /\ r = q + (r - q) BY <1>3
    <2> QED BY <2>1, <1>1, <1>2
<1>4. ASSUME q + 1 <= r PROVE d * q + d <= d * r
    <2>1. r - q - 1 \in Nat /\ r = (q + 1) + (r - q - 1) BY <1>4
    <2>2. d * (q + 1) = d * q + d BY <1>1
    <2> QED BY <2>1, <2>2, <1>1, <1>2
<1>5. ASSUME q + 2 <= r PROVE d * q + 2 * d <= d * r
    <2>1. r - q - 2 \in Nat /\ r = (q + 2) + (r - q - 2) BY <1>5
    <2>2. d * (q + 2) = d * q + 2 * d BY <1>1
    <2> QED BY <2>1, <2>2, <1>1, <1>2
<1> QED BY <1>3, <1>4, <1>5

LEMMA Midnights ==
    ASSUME NEW n \in Nat, NEW t \in Nat, n < t
    PROVE  \/ Midnight(t) = Midnight(n)
           \/ Midnight(t) = Midnight(n) + DayLen
           \/ Midnight(t) >= Midnight(n) + 2 * DayLen
<1> DEFINE q == n \div DayLen
           r == t \div DayLen
<1>0. DayLen \in Nat \ {0} BY RemindersAssumption
<1>1. /\ q \in Nat /\ Midnight(n) = DayLen * q
      /\ n < Midnight(n) + DayLen /\ Midnight(n) <= n
    BY DayOf
<1>2. /\ r \in Nat /\ Midnight(t) = DayLen * r
      /\ t < Midnight(t) + DayLen /\ Midnight(t) <= t
    BY DayOf
<1> HIDE DEF q, r
<1>3. q <= r
    <2>1. ASSUME r + 1 <= q PROVE FALSE
        <3>1. DayLen * r + DayLen <= DayLen * q BY <2>1, <1>0, <1>1, <1>2, Times
        <3>2. Midnight(t) \in Int /\ Midnight(n) \in Int BY <1>0, <1>1, <1>2, DayOf
        <3> QED BY <3>1, <3>2, <1>0, <1>1, <1>2
    <2> QED BY <2>1, <1>1, <1>2
<1>4. CASE r = q BY <1>4, <1>1, <1>2
<1>5. CASE r = q + 1
    <2>1. DayLen * (q + 1) = DayLen * q + DayLen BY <1>0, <1>1
    <2> QED BY <1>5, <2>1, <1>1, <1>2
<1>6. CASE q + 2 <= r
    <2>1. DayLen * q + 2 * DayLen <= DayLen * r BY <1>0, <1>1, <1>2, <1>6, Times
    <2> QED BY <2>1, <1>1, <1>2, DayOf, <1>0
<1> QED BY <1>1, <1>2, <1>3, <1>4, <1>5, <1>6

LEMMA SlotsOnDay ==
    ASSUME NEW m \in Nat
    PROVE  /\ SlotsOn(m) \in SUBSET Nat /\ SlotsOn(m) # {}
           /\ \A x \in SlotsOn(m) : m <= x /\ x < m + DayLen
<1>1. /\ DayLen \in Nat
      /\ Slots # {} /\ \A x \in Slots : x \in Nat /\ x < DayLen
    BY RemindersAssumption
<1>2. \A x \in SlotsOn(m) : x \in Nat /\ m <= x /\ x < m + DayLen
    BY <1>1 DEF SlotsOn
<1>3. SlotsOn(m) # {}
    BY <1>1 DEF SlotsOn
<1> QED BY <1>2, <1>3

\* nextSlot gives the first slot after the moment it is asked about, within two days.
LEMMA NextSlotIsFirst ==
    ASSUME NEW n \in Nat
    PROVE  /\ NextSlot(n) \in Nat
           /\ n < NextSlot(n) /\ NextSlot(n) < n + 2 * DayLen
           /\ \A t \in n + 1 .. NextSlot(n) - 1 : t % DayLen \notin Slots
<1> DEFINE m == Midnight(n)
           left == {x \in SlotsOn(m) : x > n}
           next == SlotsOn(m + DayLen)
<1>0. DayLen \in Nat \ {0} BY RemindersAssumption
<1>1. m \in Nat /\ m <= n /\ n < m + DayLen BY DayOf
<1>2. NextSlot(n) = IF left # {} THEN Earliest(left) ELSE Earliest(next)
    BY DEF NextSlot
<1>3. /\ left \in SUBSET Nat
      /\ next \in SUBSET Nat /\ next # {}
      /\ \A x \in left : n < x /\ x < m + DayLen
      /\ \A x \in next : m + DayLen <= x /\ x < m + DayLen + DayLen
    BY <1>0, <1>1, SlotsOnDay
\* A moment after n whose time of day is a slot's is one of these or later than both.
<1>4. ASSUME NEW t \in Nat, n < t, t % DayLen \in Slots
      PROVE  t \in left \/ t \in next \/ t >= m + DayLen + DayLen
    <2>1. t = Midnight(t) + (t % DayLen) /\ Midnight(t) \in Nat
        BY DayOf
    <2>2. CASE Midnight(t) = m BY <2>1, <2>2, <1>4 DEF SlotsOn
    <2>3. CASE Midnight(t) = m + DayLen BY <2>1, <2>3, <1>4 DEF SlotsOn
    <2>4. CASE Midnight(t) >= m + 2 * DayLen
        BY <2>1, <2>4, <1>0, <1>1, DayOf, SMTT(30)
    <2> QED BY <2>2, <2>3, <2>4, <1>4, Midnights
<1> HIDE DEF m, left, next
<1>5. CASE left # {}
    <2>0. NextSlot(n) \in left /\ \A x \in left : NextSlot(n) <= x
        BY <1>2, <1>3, <1>5, EarliestIs
    <2>1. NextSlot(n) \in Nat /\ n < NextSlot(n) /\ NextSlot(n) < m + DayLen
        BY <2>0, <1>3
    <2>2. ASSUME NEW t \in n + 1 .. NextSlot(n) - 1, t % DayLen \in Slots PROVE FALSE
        <3>1. t \in Nat /\ n < t /\ t < NextSlot(n)
            BY <2>1
        <3> QED BY <3>1, <2>0, <2>1, <2>2, <1>0, <1>1, <1>3, <1>4
    <2> QED BY <2>1, <2>2, <1>0, <1>1
<1>6. CASE left = {}
    <2>0. NextSlot(n) \in next /\ \A x \in next : NextSlot(n) <= x
        BY <1>2, <1>3, <1>6, EarliestIs
    <2>1. /\ NextSlot(n) \in Nat /\ m + DayLen <= NextSlot(n)
          /\ NextSlot(n) < m + DayLen + DayLen
        BY <2>0, <1>3
    <2>2. ASSUME NEW t \in n + 1 .. NextSlot(n) - 1, t % DayLen \in Slots PROVE FALSE
        <3>1. t \in Nat /\ n < t /\ t < NextSlot(n)
            BY <2>1
        <3> QED BY <3>1, <2>0, <2>1, <2>2, <1>0, <1>1, <1>4, <1>6
    <2> QED BY <2>1, <2>2, <1>0, <1>1
<1> QED BY <1>5, <1>6

-----------------------------------------------------------------------------
(* Shapes *)

\* What the argument needs of the fires' shape.
FireOK == fire \in [Firers -> [pc : Active \cup {"idle", "done"}, row : Ids \cup {None},
                               todo : SUBSET Ids]]
SubsOK ==
    /\ nextId \in Nat \ {0}
    /\ DOMAIN subs \subseteq Ids \cap 1 .. nextId - 1
ShapeInv == FireOK /\ SubsOK

LEMMA ShapeInit == Init => ShapeInv
BY DEF Init, ShapeInv, FireOK, SubsOK, Idle, Firers

LEMMA GoOnShape ==
    ASSUME FireOK, NEW f \in Firers, NEW pc \in Active, GoOn(f, pc)
    PROVE  FireOK'
BY ZenonT(60) DEF FireOK, GoOn

LEMMA FinishShape ==
    ASSUME FireOK, NEW f \in Firers, Finish(f)
    PROVE  FireOK'
BY DEF FireOK, Finish, Idle

LEMMA ShapeNext == ShapeInv /\ [Next]_vars => ShapeInv'
<1> SUFFICES ASSUME ShapeInv, [Next]_vars PROVE ShapeInv'
    OBVIOUS
<1> USE DEF ShapeInv
<1>a. ASSUME UNCHANGED <<subs, nextId>> PROVE SubsOK' BY <1>a DEF SubsOK
<1>b. ASSUME UNCHANGED fire PROVE FireOK' BY <1>b DEF FireOK
<1>1. CASE UNCHANGED vars BY <1>1, <1>a, <1>b DEF vars, table
<1>2. CASE Boot \/ Tick BY <1>2, <1>a, <1>b DEF Boot, Tick, table
<1>3. CASE Down
    <2>1. FireOK' BY <1>3 DEF Down, FireOK, Idle, Active
    <2> QED BY <1>3, <2>1, <1>a DEF Down, table
<1>4. CASE WakeUp
    <2>1. FireOK' BY <1>4 DEF WakeUp, FireOK, Active, Firers
    <2> QED BY <1>4, <2>1, <1>a DEF WakeUp, table
<1>5. ASSUME NEW u \in Users, NEW e \in Endpoints, Subscribe(u, e) PROVE ShapeInv'
    <2>1. CASE RowsOf(e) # {} BY <1>5, <2>1, <1>b DEF Subscribe, SubsOK
    <2>2. CASE RowsOf(e) = {}
        <3>1. /\ DOMAIN subs' = DOMAIN subs \cup {nextId}
              /\ nextId' = nextId + 1 /\ nextId <= MaxId
            BY <1>5, <2>2 DEF Subscribe
        <3>2. SubsOK' BY <3>1, RemindersAssumption DEF SubsOK, Ids
        <3> QED BY <1>5, <3>2, <1>b DEF Subscribe
    <2> QED BY <2>1, <2>2
<1>6. ASSUME NEW S, subs' = Without(S), UNCHANGED nextId PROVE SubsOK'
    BY <1>6 DEF Without, SubsOK
<1>7. ASSUME NEW u \in Users, NEW e \in Endpoints, Unsubscribe(u, e) PROVE ShapeInv'
    BY <1>7, <1>6, <1>b DEF Unsubscribe
<1>8. ASSUME NEW u \in Users, RemoveUser(u) PROVE ShapeInv'
    BY <1>8, <1>6, <1>b DEF RemoveUser
<1>9. ASSUME NEW t \in Tests, TestFire(t) \/ Abandon(t) PROVE ShapeInv'
    <2>1. FireOK' BY <1>9 DEF TestFire, Abandon, FireOK, Active, Idle, Firers
    <2> QED BY <1>9, <2>1, <1>a DEF TestFire, Abandon, table
<1>10. ASSUME NEW f \in Firers, Query(f) \/ AllSent(f) PROVE ShapeInv'
    <2>1. FireOK'
        <3>1. CASE Finish(f) BY <3>1, FinishShape
        <3>2. CASE \E ids \in SUBSET DOMAIN subs :
                      fire' = [fire EXCEPT ![f].pc = "send", ![f].todo = ids]
            BY <3>2, ZenonT(60) DEF FireOK, SubsOK, Active
        <3> QED BY <1>10, <3>1, <3>2 DEF Query, AllSent
    <2> QED BY <1>10, <2>1, <1>a DEF Query, AllSent, table
<1>11. ASSUME NEW f \in Firers, Send(f) PROVE ShapeInv'
    <2>1. PICK id \in fire[f].todo, ok \in BOOLEAN :
             fire' = [fire EXCEPT ![f] = [pc |-> IF ok THEN "ok" ELSE "bump", row |-> id,
                                          todo |-> @.todo \ {id}]]
        BY <1>11 DEF Send
    <2>2. FireOK' BY <2>1 DEF FireOK, Active
    <2> QED BY <1>11, <2>2, <1>a DEF Send, table
<1>12. ASSUME NEW f \in Firers, MarkOK(f) \/ BumpFailure(f) PROVE ShapeInv'
    <2>1. FireOK' BY <1>12, GoOnShape DEF MarkOK, BumpFailure, Active
    <2>2. DOMAIN subs' = DOMAIN subs /\ nextId' = nextId
        BY <1>12 DEF MarkOK, BumpFailure, Counting
    <2> QED BY <2>1, <2>2 DEF SubsOK
<1>13. ASSUME NEW f \in Firers, DropDead(f) PROVE ShapeInv'
    <2>1. FireOK' BY <1>13, GoOnShape DEF DropDead, Active
    <2> QED BY <1>13, <2>1, <1>6 DEF DropDead
<1>14. ASSUME NEW f \in Firers, StatementFails(f) PROVE ShapeInv'
    <2>1. FireOK' BY <1>14, GoOnShape DEF StatementFails, Active
    <2> QED BY <1>14, <2>1, <1>a DEF StatementFails, table
<1> QED
    BY <1>1, <1>2, <1>3, <1>4, <1>5, <1>7, <1>8, <1>9, <1>10, <1>11, <1>12, <1>13, <1>14
    DEF Next, Step

-----------------------------------------------------------------------------
LEMMA RetireNext == ShapeInv /\ RetiredInTime /\ [Next]_vars => RetiredInTime'
<1> SUFFICES ASSUME ShapeInv, RetiredInTime, [Next]_vars PROVE RetiredInTime'
    OBVIOUS
<1>0. fire \in [Firers -> [pc : Active \cup {"idle", "done"}, row : Ids \cup {None},
                           todo : SUBSET Ids]]
    BY DEF ShapeInv, FireOK
\* Fires that are not at a removal may move; the table and the losses stay.
<1>a. ASSUME UNCHANGED <<subs, lost>>,
             \A f \in Firers : fire[f].pc = "drop" => fire'[f] = fire[f]
      PROVE  RetiredInTime'
    BY <1>a DEF RetiredInTime
<1>b. ASSUME NEW S, subs' = Without(S), UNCHANGED <<fire, lost>> PROVE RetiredInTime'
    BY <1>b DEF RetiredInTime, Without
<1>1. CASE UNCHANGED vars BY <1>1, <1>a DEF vars, table, history
<1>2. CASE Boot \/ Tick BY <1>2, <1>a DEF Boot, Tick, table, history
<1>3. CASE Down
    <2>1. \A f \in Firers : fire[f].pc = "drop" => fire[f].row \in lost'
        BY <1>3 DEF Down
    <2> QED BY <1>3, <2>1 DEF Down, table, RetiredInTime
<1>4. CASE WakeUp
    BY <1>4, <1>0, <1>a DEF WakeUp, table, history
<1>5. ASSUME NEW u \in Users, NEW e \in Endpoints, Subscribe(u, e) PROVE RetiredInTime'
    <2>1. UNCHANGED <<fire, lost>> BY <1>5 DEF Subscribe, history
    <2>2. ASSUME NEW id \in DOMAIN subs', subs'[id].failures >= 3
          PROVE  id \in DOMAIN subs /\ subs[id].failures >= 3
        <3>1. CASE RowsOf(e) # {}
            <4>1. id \in DOMAIN subs /\ subs'[id] \in {subs[id], [subs[id] EXCEPT !.user = u]}
                BY <1>5, <2>2, <3>1 DEF Subscribe
            <4>2. [subs[id] EXCEPT !.user = u].failures = subs[id].failures
                OBVIOUS
            <4> QED BY <2>2, <4>1, <4>2
        <3>2. CASE RowsOf(e) = {}
            <4>1. id # nextId => id \in DOMAIN subs /\ subs'[id] = subs[id]
                BY <1>5, <3>2 DEF Subscribe
            <4>2. subs'[nextId].failures = 0 BY <1>5, <3>2 DEF Subscribe
            <4> QED BY <2>2, <4>1, <4>2
        <3> QED BY <3>1, <3>2
    <2> QED BY <2>1, <2>2 DEF RetiredInTime
<1>6. ASSUME NEW u \in Users, NEW e \in Endpoints, Unsubscribe(u, e) PROVE RetiredInTime'
    BY <1>6, <1>b DEF Unsubscribe, history
<1>7. ASSUME NEW u \in Users, RemoveUser(u) PROVE RetiredInTime'
    BY <1>7, <1>b DEF RemoveUser, history
<1>8. ASSUME NEW t \in Tests, TestFire(t) PROVE RetiredInTime'
    BY <1>8, <1>0, <1>a DEF TestFire, Idle, table, history, Firers
<1>9. ASSUME NEW t \in Tests, Abandon(t) PROVE RetiredInTime'
    <2>1. \A f \in Firers : fire[f].pc = "drop" => fire'[f] = fire[f] \/ fire[f].row \in lost'
        BY <1>9, <1>0 DEF Abandon
    <2>2. subs' = subs /\ lost \subseteq lost' BY <1>9 DEF Abandon, table
    <2> QED BY <2>1, <2>2 DEF RetiredInTime
<1>10. ASSUME NEW f \in Firers, Query(f) \/ AllSent(f) \/ Send(f) PROVE RetiredInTime'
    <2>1. UNCHANGED <<subs, lost>> /\ fire[f].pc # "drop"
        BY <1>10 DEF Query, AllSent, Send, table, history
    <2>2. \A g \in Firers \ {f} : fire'[g] = fire[g]
        BY <1>10, <1>0 DEF Query, AllSent, Send, Finish
    <2> QED BY <2>1, <2>2, <1>a
<1>11. ASSUME NEW f \in Firers, MarkOK(f) PROVE RetiredInTime'
    <2>1. /\ lost' = lost /\ fire[f].pc = "ok"
          /\ \A g \in Firers \ {f} : fire'[g] = fire[g]
        BY <1>11, <1>0 DEF MarkOK, GoOn
    <2>2. ASSUME NEW id \in DOMAIN subs', subs'[id].failures >= 3
          PROVE  id \in DOMAIN subs /\ subs[id].failures >= 3
        BY <1>11, <2>2 DEF MarkOK, Counting
    <2> QED BY <2>1, <2>2 DEF RetiredInTime
<1>12. ASSUME NEW f \in Firers, BumpFailure(f) PROVE RetiredInTime'
    <2>1. /\ lost' = lost /\ fire[f].pc = "bump"
          /\ fire'[f].pc = "drop" /\ fire'[f].row = fire[f].row
          /\ \A g \in Firers \ {f} : fire'[g] = fire[g]
        BY <1>12, <1>0 DEF BumpFailure, GoOn, history
    <2>2. /\ DOMAIN subs' = DOMAIN subs
          /\ \A id \in DOMAIN subs : id # fire[f].row => subs'[id] = subs[id]
        <3>1. \/ subs' = subs
              \/ \E n : subs' = Counting(fire[f].row, n)
            BY <1>12 DEF BumpFailure
        <3>2. ASSUME NEW n, subs' = Counting(fire[f].row, n)
              PROVE  /\ DOMAIN subs' = DOMAIN subs
                     /\ \A id \in DOMAIN subs : id # fire[f].row => subs'[id] = subs[id]
            BY <3>2 DEF Counting
        <3> QED BY <3>1, <3>2
    <2> QED BY <2>1, <2>2 DEF RetiredInTime
<1>13. ASSUME NEW f \in Firers, DropDead(f) PROVE RetiredInTime'
    <2>1. lost' = lost /\ \A g \in Firers \ {f} : fire'[g] = fire[g]
        BY <1>13, <1>0 DEF DropDead, GoOn, history
    <2>2. \A id \in DOMAIN subs' :
             /\ id \in DOMAIN subs /\ subs'[id] = subs[id]
             /\ id = fire[f].row => ~ (subs[id].failures >= 3)
        BY <1>13 DEF DropDead, Without
    <2> QED BY <2>1, <2>2 DEF RetiredInTime
<1>14. ASSUME NEW f \in Firers, StatementFails(f) PROVE RetiredInTime'
    <2>1. /\ subs' = subs /\ lost \subseteq lost'
          /\ \A g \in Firers \ {f} : fire'[g] = fire[g]
          /\ fire[f].pc = "drop" => fire[f].row \in lost'
        BY <1>14, <1>0 DEF StatementFails, GoOn, table
    <2> QED BY <2>1 DEF RetiredInTime
<1> QED
    BY <1>1, <1>2, <1>3, <1>4, <1>5, <1>6, <1>7, <1>8, <1>9, <1>10, <1>11, <1>12, <1>13,
       <1>14 DEF Next, Step

\* Whatever overlaps, a subscription with three failures is one that a fire is about to
\* remove, unless that statement did not run.
THEOREM DeadRetired == Spec => []RetiredInTime
<1>1. Init => RetiredInTime BY DEF Init, RetiredInTime
<1>2. ShapeInv /\ RetiredInTime /\ [Next]_vars => RetiredInTime' BY RetireNext
<1> QED BY <1>1, <1>2, ShapeInit, ShapeNext, PTL DEF Spec

-----------------------------------------------------------------------------
(* The loop and its slots *)

\* The clock, and when the loop has fired: never for a slot to come, and not yet
\* for the one it waits for.
ClockInv ==
    /\ up \in BOOLEAN /\ now \in 0 .. MaxNow /\ since \in 0 .. MaxNow
    /\ wake = IF up THEN NextSlot(since) ELSE None
    /\ fired \in [Horizon -> Nat]
    /\ \A t \in Horizon : fired[t] <= 1 /\ (t > now => fired[t] = 0)
    /\ up /\ fire[Loop].pc = "idle" => fired[wake] = 0
    /\ ~ up => fire[Loop].pc = "idle"

LEMMA NextSlotInHorizon ==
    ASSUME NEW n \in 0 .. MaxNow
    PROVE  NextSlot(n) \in Horizon /\ n < NextSlot(n)
BY NextSlotIsFirst, RemindersAssumption DEF Horizon

LEMMA ClockInit == Init => ClockInv
<1> SUFFICES ASSUME Init PROVE ClockInv
    OBVIOUS
<1>1. fire[Loop].pc = "idle" BY DEF Init, Idle, Firers
<1>2. fired \in [Horizon -> Nat] /\ \A t \in Horizon : fired[t] = 0
    BY DEF Init
<1>3. /\ now \in 0 .. MaxNow /\ since \in 0 .. MaxNow
      /\ up = FALSE /\ wake = None
    BY RemindersAssumption DEF Init
<1>4. \A t \in Horizon : fired[t] <= 1 /\ (t > now => fired[t] = 0)
    BY <1>2
<1>5. wake = IF up THEN NextSlot(since) ELSE None BY <1>3
<1>6. ~ up /\ up \in BOOLEAN BY <1>3
<1> QED BY <1>1, <1>2, <1>3, <1>4, <1>5, <1>6, Zenon DEF ClockInv

\* After a rest the loop waits for a slot to come.
LEMMA RestKeeps ==
    ASSUME ClockInv, Rest, up' = TRUE, UNCHANGED <<now, fired>>
    PROVE  ClockInv'
<1>1. wake' = NextSlot(now) /\ since' = now /\ now \in 0 .. MaxNow BY DEF Rest, ClockInv
<1>2. wake' \in Horizon /\ now < wake' BY <1>1, NextSlotInHorizon
<1>3. fired[wake'] = 0 BY <1>2 DEF ClockInv
<1> QED BY <1>1, <1>3 DEF ClockInv

LEMMA ClockNext == ShapeInv /\ ClockInv /\ [Next]_vars => ClockInv'
<1> SUFFICES ASSUME ShapeInv, ClockInv, [Next]_vars PROVE ClockInv'
    OBVIOUS
<1>0. fire \in [Firers -> [pc : Active \cup {"idle", "done"}, row : Ids \cup {None},
                           todo : SUBSET Ids]]
    BY DEF ShapeInv, FireOK
<1>a. ASSUME UNCHANGED timer, fire'[Loop].pc = "idle" <=> fire[Loop].pc = "idle"
      PROVE  ClockInv'
    BY <1>a DEF timer, ClockInv
<1>1. CASE UNCHANGED vars BY <1>1, <1>a DEF vars
<1>2. CASE Boot BY <1>2, RestKeeps DEF Boot
<1>3. CASE Down
    <2>1. fire'[Loop].pc = "idle" BY <1>3 DEF Down, Idle, Firers
    <2> QED BY <1>3, <2>1 DEF Down, ClockInv
<1>4. CASE Tick
    <2>1. now' \in 0 .. MaxNow /\ \A t \in Horizon : t > now' => t > now
        BY <1>4, RemindersAssumption DEF Tick, ClockInv, Horizon
    <2> QED BY <1>4, <2>1 DEF Tick, ClockInv
<1>5. CASE WakeUp
    <2>1. /\ up /\ fire[Loop].pc = "idle" /\ now >= wake
          /\ fired' = [fired EXCEPT ![wake] = @ + 1]
          /\ UNCHANGED <<up, now, wake, since>>
        BY <1>5 DEF WakeUp
    <2>2. fire'[Loop].pc = "query"
        BY <1>5, <1>0 DEF WakeUp, Firers
    <2>3. wake \in Horizon /\ fired[wake] = 0
        BY <2>1, NextSlotInHorizon DEF ClockInv
    <2>4. fired' \in [Horizon -> Nat] /\ \A t \in Horizon : fired'[t] <= 1
        BY <2>1, <2>3 DEF ClockInv
    <2>5. ASSUME NEW t \in Horizon, t > now PROVE fired'[t] = 0
        <3>1. t # wake BY <2>1, <2>3, <2>5, RemindersAssumption DEF Horizon, ClockInv
        <3> QED BY <3>1, <2>1, <2>5 DEF ClockInv
    <2> QED BY <2>1, <2>2, <2>4, <2>5 DEF ClockInv
<1>6. ASSUME NEW u \in Users, NEW e \in Endpoints, Subscribe(u, e) \/ Unsubscribe(u, e)
      PROVE  ClockInv'
    BY <1>6, <1>a DEF Subscribe, Unsubscribe
<1>7. ASSUME NEW u \in Users, RemoveUser(u) PROVE ClockInv'
    BY <1>7, <1>a DEF RemoveUser
<1>8. ASSUME NEW t \in Tests, TestFire(t) \/ Abandon(t) PROVE ClockInv'
    <2>1. fire'[Loop] = fire[Loop]
        BY <1>8, <1>0, RemindersAssumption DEF TestFire, Abandon, Firers
    <2> QED BY <1>8, <2>1, <1>a DEF TestFire, Abandon
<1>9. ASSUME NEW f \in Firers, fire[f].pc \in Active, Finish(f) PROVE ClockInv'
    <2>1. CASE f = Loop
        <3>1. up = TRUE BY <1>9, <2>1 DEF Active, ClockInv
        <3> QED BY <1>9, <2>1, <3>1, RestKeeps DEF Finish
    <2>2. CASE f # Loop
        <3>1. fire'[Loop] = fire[Loop] BY <1>9, <2>2, <1>0 DEF Finish, Firers
        <3> QED BY <1>9, <2>2, <3>1, <1>a DEF Finish, timer
    <2> QED BY <2>1, <2>2
<1>10. ASSUME NEW f \in Firers, Step(f) PROVE ClockInv'
    <2>1. CASE fire[f].pc \in Active /\ Finish(f) BY <2>1, <1>9
    <2>2. CASE UNCHANGED timer /\ \A g \in Firers : fire'[g].pc = "idle" <=> fire[g].pc = "idle"
        BY <2>2, <1>a DEF Firers
    <2>3. ASSUME NEW pc \in Active, GoOn(f, pc), fire[f].pc \in Active
          PROVE  \A g \in Firers : fire'[g].pc = "idle" <=> fire[g].pc = "idle"
        BY <2>3, <1>0 DEF GoOn, Active
    <2>4. CASE Query(f) \/ AllSent(f)
        <3>1. fire[f].pc \in Active BY <2>4 DEF Query, AllSent, Active
        <3>2. CASE Finish(f) BY <3>1, <3>2, <2>1
        <3>3. CASE ~ Finish(f)
            BY <2>4, <3>3, <1>0, <2>2 DEF Query, AllSent
        <3> QED BY <3>2, <3>3
    <2>5. CASE Send(f)
        BY <2>5, <1>0, <2>2 DEF Send
    <2>6. CASE MarkOK(f) BY <2>6, <2>2, <2>3 DEF MarkOK, Active
    <2>7. CASE BumpFailure(f) BY <2>7, <2>2, <2>3 DEF BumpFailure, Active
    <2>8. CASE DropDead(f) BY <2>8, <2>2, <2>3 DEF DropDead, Active
    <2>9. CASE StatementFails(f) BY <2>9, <2>2, <2>3 DEF StatementFails, Active
    <2> QED BY <1>10, <2>4, <2>5, <2>6, <2>7, <2>8, <2>9 DEF Step
<1> QED
    BY <1>1, <1>2, <1>3, <1>4, <1>5, <1>6, <1>7, <1>8, <1>10 DEF Next

\* scheduler.go's promise to neither double-fire, for all slots, restarts and delays.
THEOREM SlotsFireOnce == Spec => []SlotFiresOnce
<1>1. ClockInv => SlotFiresOnce BY DEF ClockInv, SlotFiresOnce
<1> QED BY <1>1, ShapeInit, ShapeNext, ClockInit, ClockNext, PTL DEF Spec

\* And it skips none between the moment it chose one and that one, across midnight too.
THEOREM SlotsNotPassedOver == Spec => []NoSlotPassedOver
<1>1. ClockInv => NoSlotPassedOver
    BY NextSlotIsFirst, RemindersAssumption DEF ClockInv, NoSlotPassedOver
<1> QED BY <1>1, ShapeInit, ShapeNext, ClockInit, ClockNext, PTL DEF Spec

-----------------------------------------------------------------------------
(* Failures and strikes *)

\* A fire names only rows that were made, and a statement of it names one.
NamesInv ==
    \A f \in Firers :
        /\ fire[f].row \in (1 .. nextId - 1) \cup {None}
        /\ fire[f].pc \in {"ok", "bump", "drop"} => fire[f].row # None
        /\ fire[f].todo \subseteq 1 .. nextId - 1

RowsInv ==
    /\ nextId \in 1 .. MaxId + 1
    /\ \A id \in DOMAIN subs :
          subs[id] \in [endpoint : Endpoints, user : Users, failures : Nat]
    /\ lost \subseteq Ids

\* A row's failures, and those still to be counted, are failed sends since its last OK.
Counted(id) == subs[id].failures + Cardinality(Pending(id)) <= strikes[id]
StrikesInv ==
    /\ strikes \in [Ids -> Nat]
    /\ \A id \in DOMAIN subs : Counted(id)

DeadInv == ShapeInv /\ NamesInv /\ RowsInv /\ StrikesInv

LEMMA PendingFinite ==
    ASSUME NEW id
    PROVE  IsFiniteSet(Pending(id)) /\ Cardinality(Pending(id)) \in Nat
<1>1. IsFiniteSet(Firers) BY RemindersAssumption, FS_AddElement DEF Firers
<1>2. Pending(id) \subseteq Firers BY DEF Pending
<1> QED BY <1>1, <1>2, FS_Subset, FS_CardinalityType

LEMMA PendingShrinks ==
    ASSUME NEW id, Pending(id)' \subseteq Pending(id)
    PROVE  /\ Cardinality(Pending(id)') \in Nat
           /\ Cardinality(Pending(id)') <= Cardinality(Pending(id))
BY PendingFinite, FS_Subset, FS_CardinalityType

LEMMA DeadInit == Init => DeadInv
<1> SUFFICES ASSUME Init PROVE DeadInv
    OBVIOUS
<1>1. ShapeInv BY ShapeInit
<1>2. subs = <<>> /\ nextId = 1 /\ lost = {} /\ fire = [f \in Firers |-> Idle]
    BY DEF Init
<1>3. \A f \in Firers : fire[f] = Idle BY <1>2
<1>4. NamesInv BY <1>3 DEF NamesInv, Idle
<1>5. RowsInv BY <1>2, RemindersAssumption DEF RowsInv
<1>6. StrikesInv BY <1>2 DEF StrikesInv, Init
<1> QED BY <1>1, <1>4, <1>5, <1>6 DEF DeadInv

\* Fires that lose their row or keep it name no more than they did.
LEMMA NamesKeep ==
    ASSUME NamesInv, ShapeInv, nextId' \in Nat, nextId <= nextId',
           \A f \in Firers :
              /\ fire'[f].row \in {fire[f].row, None}
              /\ fire'[f].pc \in {"ok", "bump", "drop"} =>
                    fire[f].pc \in {"ok", "bump", "drop"} /\ fire'[f].row = fire[f].row
              /\ fire'[f].todo \subseteq fire[f].todo
    PROVE  NamesInv'
<1>1. nextId \in Nat BY DEF ShapeInv, SubsOK
<1>2. ASSUME NEW m \in Nat, NEW n \in Nat, m <= n PROVE 1 .. m - 1 \subseteq 1 .. n - 1
    BY <1>2
<1>3. 1 .. nextId - 1 \subseteq 1 .. nextId' - 1 BY <1>1, <1>2, Zenon
<1> QED BY <1>3 DEF NamesInv

LEMMA NamesNext == DeadInv /\ [Next]_vars => NamesInv'
<1> SUFFICES ASSUME DeadInv, [Next]_vars PROVE NamesInv'
    OBVIOUS
<1>0. /\ NamesInv /\ ShapeInv /\ nextId \in Nat \ {0}
      /\ DOMAIN subs \subseteq 1 .. nextId - 1
      /\ fire \in [Firers -> [pc : Active \cup {"idle", "done"}, row : Ids \cup {None},
                              todo : SUBSET Ids]]
    BY DEF DeadInv, ShapeInv, FireOK, SubsOK
<1>a. ASSUME nextId' \in Nat, nextId <= nextId', UNCHANGED fire PROVE NamesInv'
    BY <1>a, <1>0, NamesKeep
<1>b. ASSUME nextId' = nextId,
             NEW f \in Firers,
             \A g \in Firers \ {f} : fire'[g] = fire[g],
             /\ fire'[f].row \in {fire[f].row, None}
             /\ fire'[f].pc \in {"ok", "bump", "drop"} =>
                    fire[f].pc \in {"ok", "bump", "drop"} /\ fire'[f].row = fire[f].row
             /\ fire'[f].todo \subseteq fire[f].todo
      PROVE  NamesInv'
    BY <1>b, <1>0, NamesKeep
<1>c. ASSUME NEW f \in Firers, NEW r, r.row = None, r.pc \notin {"ok", "bump", "drop"},
             r.todo = {}, nextId' = nextId, fire' = [fire EXCEPT ![f] = r]
      PROVE  NamesInv'
    BY <1>c, <1>b, <1>0
<1>d. ASSUME NEW f \in Firers, Finish(f), nextId' = nextId PROVE NamesInv'
    BY <1>d, <1>c DEF Finish, Idle
<1>1. CASE UNCHANGED vars BY <1>1, <1>a, <1>0 DEF vars, table
<1>2. CASE Boot \/ Tick BY <1>2, <1>a, <1>0 DEF Boot, Tick, table
<1>3. CASE Down
    <2>1. nextId' = nextId BY <1>3 DEF Down, table
    <2>2. ASSUME NEW f \in Firers
          PROVE  \/ fire'[f] = fire[f] /\ fire'[f].pc \notin {"ok", "bump", "drop"}
                 \/ /\ fire'[f].row = None /\ fire'[f].todo = {}
                    /\ fire'[f].pc \notin {"ok", "bump", "drop"}
        BY <1>3, <1>0 DEF Down, Idle, Active
    <2> QED BY <2>1, <2>2, <1>0, NamesKeep
<1>4. CASE WakeUp
    <2>1. /\ nextId' = nextId /\ Loop \in Firers
          /\ fire' = [fire EXCEPT ![Loop].pc = "query"]
        BY <1>4 DEF WakeUp, table, Firers
    <2> QED BY <2>1, <1>0, <1>b
<1>5. ASSUME NEW u \in Users, NEW e \in Endpoints, Subscribe(u, e) \/ Unsubscribe(u, e)
      PROVE  NamesInv'
    <2>1. nextId' \in {nextId, nextId + 1} /\ UNCHANGED fire
        BY <1>5 DEF Subscribe, Unsubscribe
    <2> QED BY <2>1, <1>a, <1>0
<1>6. ASSUME NEW u \in Users, RemoveUser(u) PROVE NamesInv'
    BY <1>6, <1>a, <1>0 DEF RemoveUser
<1>7. ASSUME NEW t \in Tests, TestFire(t) PROVE NamesInv'
    <2>1. /\ nextId' = nextId /\ t \in Firers
          /\ fire' = [fire EXCEPT ![t].pc = "query"]
        BY <1>7 DEF TestFire, table, Firers
    <2> QED BY <2>1, <1>0, <1>b
<1>8. ASSUME NEW t \in Tests, Abandon(t) PROVE NamesInv'
    BY <1>8, <1>c DEF Abandon, Idle, table, Firers
<1>9. ASSUME NEW f \in Firers, Query(f) \/ AllSent(f) PROVE NamesInv'
    <2>1. nextId' = nextId BY <1>9 DEF Query, AllSent, table
    <2>2. CASE Finish(f) BY <2>1, <2>2, <1>d
    <2>3. CASE \E ids \in SUBSET DOMAIN subs :
                  fire' = [fire EXCEPT ![f].pc = "send", ![f].todo = ids]
        BY <2>1, <2>3, <1>0 DEF NamesInv
    <2> QED BY <1>9, <2>2, <2>3 DEF Query, AllSent
<1>10. ASSUME NEW f \in Firers, Send(f) PROVE NamesInv'
    <2>1. PICK id \in fire[f].todo, ok \in BOOLEAN :
             fire' = [fire EXCEPT ![f] = [pc |-> IF ok THEN "ok" ELSE "bump", row |-> id,
                                          todo |-> @.todo \ {id}]]
        BY <1>10 DEF Send
    <2>2. nextId' = nextId BY <1>10 DEF Send, table
    <2>3. id \in 1 .. nextId - 1 /\ id # None BY <1>0, RemindersAssumption DEF NamesInv
    <2>4. /\ fire'[f].row = id /\ fire'[f].todo \subseteq fire[f].todo
          /\ \A g \in Firers \ {f} : fire'[g] = fire[g]
        BY <2>1, <1>0
    <2> QED BY <2>2, <2>3, <2>4, <1>0 DEF NamesInv
<1>11. ASSUME NEW f \in Firers, NEW pc \in Active, GoOn(f, pc), nextId' = nextId,
              pc # "send" => fire[f].pc \in {"ok", "bump", "drop"}
      PROVE  NamesInv'
    <2>1. /\ \A g \in Firers \ {f} : fire'[g] = fire[g]
          /\ fire'[f].pc = pc /\ fire'[f].todo = fire[f].todo
          /\ fire'[f].row = IF pc = "send" THEN None ELSE fire[f].row
        BY <1>11, <1>0 DEF GoOn
    <2> QED BY <2>1, <1>11, <1>b
<1>12. ASSUME NEW f \in Firers,
              MarkOK(f) \/ BumpFailure(f) \/ DropDead(f) \/ StatementFails(f)
       PROVE  NamesInv'
    BY <1>12, <1>11 DEF MarkOK, BumpFailure, DropDead, StatementFails, Active, table
<1> QED
    BY <1>1, <1>2, <1>3, <1>4, <1>5, <1>6, <1>7, <1>8, <1>9, <1>10, <1>12 DEF Next, Step

LEMMA WithoutRows ==
    ASSUME DeadInv, NEW S, subs' = Without(S)
    PROVE  /\ DOMAIN subs' \subseteq DOMAIN subs
           /\ \A id \in DOMAIN subs' : subs'[id] = subs[id]
BY DEF Without

LEMMA CountingRows ==
    ASSUME RowsInv, NEW row, NEW n \in Nat, subs' = Counting(row, n)
    PROVE  /\ DOMAIN subs' = DOMAIN subs
           /\ \A id \in DOMAIN subs : id # row => subs'[id] = subs[id]
           /\ \A id \in DOMAIN subs :
                 /\ subs'[id] \in [endpoint : Endpoints, user : Users, failures : Nat]
                 /\ id = row => subs'[id].failures = n
BY DEF RowsInv, Counting

LEMMA SubscribeRows ==
    ASSUME DeadInv, NEW u \in Users, NEW e \in Endpoints, Subscribe(u, e)
    PROVE  /\ nextId' \in 1 .. MaxId + 1
           /\ \A id \in DOMAIN subs' :
                 /\ subs'[id] \in [endpoint : Endpoints, user : Users, failures : Nat]
                 /\ \/ id \in DOMAIN subs /\ subs'[id].failures = subs[id].failures
                    \/ id = nextId /\ nextId \in Ids /\ subs'[id].failures = 0
<1>0. /\ nextId \in Nat \ {0} /\ DOMAIN subs \subseteq Ids /\ MaxId \in Nat
      /\ nextId \in 1 .. MaxId + 1
      /\ \A id \in DOMAIN subs :
            subs[id] \in [endpoint : Endpoints, user : Users, failures : Nat]
    BY RemindersAssumption DEF DeadInv, ShapeInv, SubsOK, RowsInv
<1>1. CASE RowsOf(e) # {}
    <2>1. /\ nextId' = nextId /\ DOMAIN subs' = DOMAIN subs
          /\ \A id \in DOMAIN subs :
                subs'[id] = IF id \in RowsOf(e) THEN [subs[id] EXCEPT !.user = u] ELSE subs[id]
        BY <1>1 DEF Subscribe
    <2> QED BY <2>1, <1>0
<1>2. CASE RowsOf(e) = {}
    <2>1. /\ nextId <= MaxId /\ nextId' = nextId + 1
          /\ DOMAIN subs' = DOMAIN subs \cup {nextId}
          /\ \A id \in DOMAIN subs' :
                subs'[id] = IF id = nextId THEN [endpoint |-> e, user |-> u, failures |-> 0]
                            ELSE subs[id]
        BY <1>2 DEF Subscribe
    <2>2. nextId \in Ids /\ nextId' \in 1 .. MaxId + 1 BY <2>1, <1>0 DEF Ids
    <2> QED BY <2>1, <2>2, <1>0
<1> QED BY <1>1, <1>2

LEMMA RowsNext == DeadInv /\ [Next]_vars => RowsInv'
<1> SUFFICES ASSUME DeadInv, [Next]_vars PROVE RowsInv'
    OBVIOUS
<1>0. /\ RowsInv /\ NamesInv
      /\ fire \in [Firers -> [pc : Active \cup {"idle", "done"}, row : Ids \cup {None},
                              todo : SUBSET Ids]]
      /\ \A f \in Firers : fire[f].pc = "drop" => fire[f].row \in Ids
    BY DEF DeadInv, ShapeInv, FireOK, NamesInv
<1>a. ASSUME UNCHANGED <<subs, nextId>>, lost' \subseteq Ids PROVE RowsInv'
    BY <1>a, <1>0 DEF RowsInv
<1>b. ASSUME NEW S, subs' = Without(S), UNCHANGED <<nextId, lost>> PROVE RowsInv'
    BY <1>b, <1>0, WithoutRows DEF RowsInv
<1>1. CASE UNCHANGED vars BY <1>1, <1>a, <1>0 DEF vars, table, history, RowsInv
<1>2. CASE Boot \/ Tick \/ WakeUp
    BY <1>2, <1>a, <1>0 DEF Boot, Tick, WakeUp, table, history, RowsInv
<1>3. CASE Down
    <2>1. lost' \subseteq Ids BY <1>3, <1>0 DEF Down, RowsInv
    <2> QED BY <1>3, <2>1, <1>a DEF Down, table
<1>4. ASSUME NEW u \in Users, NEW e \in Endpoints, Subscribe(u, e) PROVE RowsInv'
    <2>1. lost' = lost BY <1>4 DEF Subscribe, history
    <2> QED BY <1>4, <2>1, <1>0, SubscribeRows DEF RowsInv
<1>5. ASSUME NEW u \in Users, NEW e \in Endpoints, Unsubscribe(u, e) PROVE RowsInv'
    BY <1>5, <1>b DEF Unsubscribe, history
<1>6. ASSUME NEW u \in Users, RemoveUser(u) PROVE RowsInv'
    BY <1>6, <1>b DEF RemoveUser, history
<1>7. ASSUME NEW t \in Tests, TestFire(t) \/ Abandon(t) PROVE RowsInv'
    BY <1>7, <1>a, <1>0 DEF TestFire, Abandon, table, history, RowsInv, Firers
<1>8. ASSUME NEW f \in Firers, Query(f) \/ AllSent(f) \/ Send(f) \/ StatementFails(f)
      PROVE  RowsInv'
    BY <1>8, <1>a, <1>0 DEF Query, AllSent, Send, StatementFails, table, history, RowsInv
<1>9. ASSUME NEW f \in Firers, MarkOK(f) PROVE RowsInv'
    <2>1. /\ subs' = Counting(fire[f].row, 0) /\ UNCHANGED <<nextId, lost>>
        BY <1>9 DEF MarkOK
    <2> QED BY <2>1, <1>0, CountingRows DEF RowsInv
<1>10. ASSUME NEW f \in Firers, BumpFailure(f) PROVE RowsInv'
    <2> DEFINE row == fire[f].row
    <2>1. UNCHANGED <<nextId, lost>> BY <1>10 DEF BumpFailure, history
    <2>2. CASE row \in DOMAIN subs
        <3>1. subs[row].failures + 1 \in Nat BY <1>0, <2>2 DEF RowsInv
        <3>2. subs' = Counting(row, subs[row].failures + 1) BY <1>10, <2>2 DEF BumpFailure
        <3> QED BY <2>1, <3>1, <3>2, <1>0, CountingRows DEF RowsInv
    <2>3. CASE row \notin DOMAIN subs
        BY <1>10, <2>1, <2>3, <1>a, <1>0 DEF BumpFailure, RowsInv
    <2> QED BY <2>2, <2>3
<1>11. ASSUME NEW f \in Firers, DropDead(f) PROVE RowsInv'
    BY <1>11, <1>b DEF DropDead, history
<1> QED
    BY <1>1, <1>2, <1>3, <1>4, <1>5, <1>6, <1>7, <1>8, <1>9, <1>10, <1>11 DEF Next, Step

LEMMA StrikesNext == DeadInv /\ [Next]_vars => StrikesInv'
<1> SUFFICES ASSUME DeadInv, [Next]_vars PROVE StrikesInv'
    OBVIOUS
<1>0. /\ fire \in [Firers -> [pc : Active \cup {"idle", "done"}, row : Ids \cup {None},
                              todo : SUBSET Ids]]
      /\ strikes \in [Ids -> Nat]
      /\ nextId \in Nat \ {0} /\ None \notin Nat
      /\ DOMAIN subs \subseteq Ids \cap (1 .. nextId - 1)
      /\ RowsInv
      /\ \A id \in DOMAIN subs : /\ subs[id].failures \in Nat
                                 /\ Cardinality(Pending(id)) \in Nat
                                 /\ subs[id].failures + Cardinality(Pending(id)) <= strikes[id]
                                 /\ strikes[id] \in Nat
    BY PendingFinite, RemindersAssumption
    DEF DeadInv, ShapeInv, FireOK, SubsOK, RowsInv, StrikesInv, Counted
\* Rows may go and fires give up.
<1>a. ASSUME strikes' = strikes,
             \A id \in DOMAIN subs' : /\ id \in DOMAIN subs
                                      /\ subs'[id].failures = subs[id].failures
                                      /\ Pending(id)' \subseteq Pending(id)
      PROVE  StrikesInv'
    <2>1. ASSUME NEW id \in DOMAIN subs' PROVE Counted(id)'
        <3>1. /\ id \in DOMAIN subs /\ subs'[id].failures = subs[id].failures
              /\ Cardinality(Pending(id)') \in Nat
              /\ Cardinality(Pending(id)') <= Cardinality(Pending(id))
              /\ strikes' = strikes
            BY <1>a, <2>1, PendingShrinks
        <3> QED BY <3>1, <1>0 DEF Counted
    <2> QED BY <2>1, <1>a, <1>0 DEF StrikesInv
<1>b. ASSUME UNCHANGED <<subs, strikes>>,
             \A g \in Firers : fire'[g].pc = "bump" =>
                 fire[g].pc = "bump" /\ fire'[g].row = fire[g].row
      PROVE  StrikesInv'
    BY <1>b, <1>a DEF Pending, Firers
<1>c. ASSUME NEW S, subs' = Without(S), strikes' = strikes,
             \A g \in Firers : fire'[g].pc = "bump" =>
                 fire[g].pc = "bump" /\ fire'[g].row = fire[g].row
      PROVE  StrikesInv'
    BY <1>c, <1>a, WithoutRows DEF Pending, Firers
<1>1. CASE UNCHANGED vars BY <1>1, <1>b DEF vars, table, history
<1>2. CASE Boot \/ Tick BY <1>2, <1>b DEF Boot, Tick, table, history
<1>3. CASE WakeUp
    <2>1. Loop \in Firers BY DEF Firers
    <2> QED BY <1>3, <2>1, <1>b, <1>0 DEF WakeUp, table, history
<1>4. CASE Down
    <2>1. \A g \in Firers : fire'[g].pc = "bump" =>
             fire[g].pc = "bump" /\ fire'[g].row = fire[g].row
        BY <1>4, <1>0 DEF Down, Idle
    <2> QED BY <1>4, <2>1, <1>b DEF Down, table
<1>5. ASSUME NEW u \in Users, NEW e \in Endpoints, Subscribe(u, e) PROVE StrikesInv'
    <2>1. UNCHANGED <<strikes, fire>> BY <1>5 DEF Subscribe, history
    <2>2. ASSUME NEW id \in DOMAIN subs' PROVE Counted(id)'
        <3>1. Pending(id)' = Pending(id) BY <2>1 DEF Pending
        <3>2. CASE id \in DOMAIN subs /\ subs'[id].failures = subs[id].failures
            BY <2>1, <3>1, <3>2, <1>0 DEF Counted
        <3>3. CASE id = nextId /\ nextId \in Ids /\ subs'[id].failures = 0
            <4>1. Pending(id) = {}
                <5>1. \A f \in Firers : fire[f].row \in (1 .. nextId - 1) \cup {None}
                    BY DEF DeadInv, NamesInv
                <5>2. nextId \notin (1 .. nextId - 1) \cup {None} BY <1>0
                <5> QED BY <3>3, <5>1, <5>2 DEF Pending
            <4>2. Cardinality(Pending(id)') = 0 BY <3>1, <4>1, FS_EmptySet
            <4>3. strikes'[id] \in Nat BY <2>1, <3>3, <1>0
            <4> QED BY <3>3, <4>2, <4>3 DEF Counted
        <3> QED BY <1>5, <2>2, <3>2, <3>3, SubscribeRows
    <2> QED BY <2>1, <2>2, <1>0 DEF StrikesInv
<1>6. ASSUME NEW u \in Users, NEW e \in Endpoints, Unsubscribe(u, e) PROVE StrikesInv'
    BY <1>6, <1>c DEF Unsubscribe, history
<1>7. ASSUME NEW u \in Users, RemoveUser(u) PROVE StrikesInv'
    BY <1>7, <1>c DEF RemoveUser, history
<1>8. ASSUME NEW t \in Tests, TestFire(t) \/ Abandon(t) PROVE StrikesInv'
    <2>1. t \in Firers BY DEF Firers
    <2>2. \A g \in Firers : fire'[g].pc = "bump" =>
             fire[g].pc = "bump" /\ fire'[g].row = fire[g].row
        BY <1>8, <2>1, <1>0 DEF TestFire, Abandon, Idle
    <2> QED BY <1>8, <2>2, <1>b DEF TestFire, Abandon, table, history
<1>9. ASSUME NEW f \in Firers, Query(f) \/ AllSent(f) PROVE StrikesInv'
    <2>1. \A g \in Firers : fire'[g].pc = "bump" =>
             fire[g].pc = "bump" /\ fire'[g].row = fire[g].row
        BY <1>9, <1>0 DEF Query, AllSent, Finish, Idle
    <2> QED BY <1>9, <2>1, <1>b DEF Query, AllSent, table, history
\* A failed send is one more strike and one more failure to be counted.
<1>10. ASSUME NEW f \in Firers, Send(f) PROVE StrikesInv'
    <2>1. PICK row \in fire[f].todo, ok \in BOOLEAN :
             /\ fire' = [fire EXCEPT ![f] = [pc |-> IF ok THEN "ok" ELSE "bump", row |-> row,
                                             todo |-> @.todo \ {row}]]
             /\ strikes' = IF ok THEN strikes ELSE [strikes EXCEPT ![row] = @ + 1]
        BY <1>10 DEF Send
    <2>2. subs' = subs /\ fire[f].pc = "send" BY <1>10 DEF Send, table
    <2>3. CASE ok
        BY <2>1, <2>2, <2>3, <1>b, <1>0
    <2>4. CASE ~ ok
        <3>1. row \in Ids /\ strikes[row] \in Nat BY <2>1, <1>0
        <3>2. strikes' \in [Ids -> Nat] BY <2>1, <2>4, <3>1, <1>0
        <3>3. ASSUME NEW id \in DOMAIN subs PROVE Counted(id)'
            <4>1. CASE id # row
                <5>1. Pending(id)' \subseteq Pending(id) BY <2>1, <4>1, <1>0 DEF Pending
                <5>2. strikes'[id] = strikes[id] BY <2>1, <2>4, <4>1, <1>0
                <5>3. /\ Cardinality(Pending(id)') \in Nat
                      /\ Cardinality(Pending(id)') <= Cardinality(Pending(id))
                    BY <5>1, PendingShrinks
                <5> QED BY <5>2, <5>3, <2>2, <1>0 DEF Counted
            <4>2. CASE id = row
                <5>1. Pending(id)' = Pending(id) \cup {f} /\ f \notin Pending(id)
                    BY <2>1, <2>2, <2>4, <4>2, <1>0 DEF Pending
                <5>2. Cardinality(Pending(id)') = Cardinality(Pending(id)) + 1
                    BY <5>1, PendingFinite, FS_AddElement
                <5>3. strikes'[id] = strikes[id] + 1 BY <2>1, <2>4, <3>1, <4>2, <1>0
                <5> QED BY <5>2, <5>3, <2>2, <1>0 DEF Counted
            <4> QED BY <4>1, <4>2
        <3> QED BY <3>2, <3>3, <2>2 DEF StrikesInv
    <2> QED BY <2>3, <2>4
<1>11. ASSUME NEW f \in Firers, MarkOK(f) PROVE StrikesInv'
    <2> DEFINE row == fire[f].row
    <2>1. /\ fire[f].pc = "ok" /\ subs' = Counting(row, 0) /\ GoOn(f, "send")
          /\ strikes' = [strikes EXCEPT ![row] = Cardinality(Pending(row))]
        BY <1>11 DEF MarkOK
    <2>2. \A id : Pending(id)' = Pending(id)
        BY <2>1, <1>0 DEF GoOn, Pending
    <2>3. Cardinality(Pending(row)) \in Nat BY PendingFinite
    <2>4. strikes' \in [Ids -> Nat] BY <2>1, <2>3, <1>0
    <2>5. ASSUME NEW id \in DOMAIN subs' PROVE Counted(id)'
        <3>1. /\ id \in DOMAIN subs /\ id \in Ids
              /\ id # row => subs'[id] = subs[id]
              /\ id = row => subs'[id].failures = 0
            BY <2>1, <2>5, <1>0, CountingRows
        <3>2. CASE id # row
            <4>1. strikes'[id] = strikes[id] BY <2>1, <3>1, <3>2, <1>0
            <4> QED BY <4>1, <3>1, <3>2, <2>2, <1>0 DEF Counted
        <3>3. CASE id = row
            <4>1. strikes'[id] = Cardinality(Pending(id)) BY <2>1, <3>1, <3>3, <1>0
            <4> QED BY <4>1, <3>1, <3>3, <2>2, <2>3 DEF Counted
        <3> QED BY <3>2, <3>3
    <2> QED BY <2>4, <2>5 DEF StrikesInv
\* A counted failure is one less to be counted.
<1>12. ASSUME NEW f \in Firers, BumpFailure(f) PROVE StrikesInv'
    <2> DEFINE row == fire[f].row
    <2>1. fire[f].pc = "bump" /\ GoOn(f, "drop") /\ strikes' = strikes
        BY <1>12 DEF BumpFailure, history
    <2>2. /\ \A id : Pending(id)' \subseteq Pending(id)
          /\ \A id : id = row => Pending(id)' = Pending(id) \ {f} /\ f \in Pending(id)
        BY <2>1, <1>0 DEF GoOn, Pending
    <2>3. CASE row \notin DOMAIN subs
        <3>1. subs' = subs BY <1>12, <2>3 DEF BumpFailure
        <3> QED BY <3>1, <2>1, <2>2, <1>a
    <2>4. CASE row \in DOMAIN subs
        <3>1. /\ subs' = Counting(row, subs[row].failures + 1)
              /\ subs[row].failures + 1 \in Nat
            BY <1>12, <2>4, <1>0 DEF BumpFailure
        <3>2. ASSUME NEW id \in DOMAIN subs' PROVE Counted(id)'
            <4>1. /\ id \in DOMAIN subs
                  /\ id # row => subs'[id] = subs[id]
                  /\ id = row => subs'[id].failures = subs[row].failures + 1
                <5> DEFINE n == subs[row].failures + 1
                <5>1. n \in Nat /\ subs' = Counting(row, n) BY <3>1
                <5> HIDE DEF n
                <5>2. /\ DOMAIN subs' = DOMAIN subs
                      /\ \A x \in DOMAIN subs : x # row => subs'[x] = subs[x]
                      /\ \A x \in DOMAIN subs : x = row => subs'[x].failures = n
                    BY <5>1, <1>0, CountingRows
                <5> QED BY <3>2, <5>2 DEF n
            <4>2. CASE id # row
                <5>1. /\ Cardinality(Pending(id)') \in Nat
                      /\ Cardinality(Pending(id)') <= Cardinality(Pending(id))
                    BY <2>2, PendingShrinks
                <5> QED BY <4>1, <4>2, <5>1, <2>1, <1>0 DEF Counted
            <4>3. CASE id = row
                <5>0. Pending(id)' = Pending(id) \ {f} /\ f \in Pending(id)
                    BY <4>3, <2>2
                <5>1. Cardinality(Pending(id)') = Cardinality(Pending(id)) - 1
                    BY <5>0, PendingFinite, FS_RemoveElement
                <5> QED BY <4>1, <4>3, <5>1, <2>1, <1>0 DEF Counted
            <4> QED BY <4>2, <4>3
        <3> QED BY <3>2, <2>1, <1>0 DEF StrikesInv
    <2> QED BY <2>3, <2>4
<1>13. ASSUME NEW f \in Firers, DropDead(f) PROVE StrikesInv'
    <2>1. \A g \in Firers : fire'[g].pc = "bump" =>
             fire[g].pc = "bump" /\ fire'[g].row = fire[g].row
        BY <1>13, <1>0 DEF DropDead, GoOn
    <2> QED BY <1>13, <2>1, <1>c DEF DropDead, history
<1>14. ASSUME NEW f \in Firers, StatementFails(f) PROVE StrikesInv'
    <2>1. \A g \in Firers : fire'[g].pc = "bump" =>
             fire[g].pc = "bump" /\ fire'[g].row = fire[g].row
        BY <1>14, <1>0 DEF StatementFails, GoOn
    <2> QED BY <1>14, <2>1, <1>b DEF StatementFails, table
<1> QED
    BY <1>1, <1>2, <1>3, <1>4, <1>5, <1>6, <1>7, <1>8, <1>9, <1>10, <1>11, <1>12, <1>13,
       <1>14 DEF Next, Step

LEMMA DeadNext == DeadInv /\ [Next]_vars => DeadInv'
BY ShapeNext, NamesNext, RowsNext, StrikesNext DEF DeadInv

\* Only the statement of a fire at its removal takes its row with three failures.
LEMMA RetiresDead ==
    ASSUME DeadInv, [Next]_vars, NEW f \in Firers,
           fire[f].pc = "drop", fire'[f].pc # "drop",
           fire[f].row \in DOMAIN subs \ DOMAIN subs'
    PROVE  strikes[fire[f].row] >= 3
<1>0. fire \in [Firers -> [pc : Active \cup {"idle", "done"}, row : Ids \cup {None},
                           todo : SUBSET Ids]]
    BY DEF DeadInv, ShapeInv, FireOK
<1>1. subs' # subs /\ fire' # fire OBVIOUS
<1>2. DOMAIN subs' # DOMAIN subs OBVIOUS
<1>3. PICK g \in Firers : Step(g)
    BY <1>1 DEF Next, vars, table, Boot, Down, Tick, WakeUp, Subscribe, Unsubscribe,
                RemoveUser, TestFire, Abandon
<1>4. DropDead(g)
    <2>1. ~ (Query(g) \/ AllSent(g) \/ Send(g) \/ StatementFails(g))
        BY <1>1 DEF Query, AllSent, Send, StatementFails, table
    <2>2. ~ (MarkOK(g) \/ BumpFailure(g))
        BY <1>2 DEF MarkOK, BumpFailure, Counting
    <2> QED BY <1>3, <2>1, <2>2 DEF Step
<1>5. g = f BY <1>4, <1>0 DEF DropDead, GoOn
<1>6. fire[f].row \in DOMAIN subs /\ subs[fire[f].row].failures >= 3
    BY <1>4, <1>5 DEF DropDead, Without
<1>7. ASSUME NEW id \in DOMAIN subs, subs[id].failures >= 3 PROVE strikes[id] >= 3
    <2>1. /\ subs[id].failures \in Nat /\ strikes[id] \in Nat /\ Counted(id)
          /\ Cardinality(Pending(id)) \in Nat
        BY PendingFinite DEF DeadInv, RowsInv, ShapeInv, SubsOK, StrikesInv
    <2> QED BY <2>1, <1>7 DEF Counted
<1> QED BY <1>6, <1>7

\* Whatever fires overlap on a row, it is retired only when three of its sends have
\* failed since an OK was last recorded (bumpFailure, markOK).
THEOREM RetiredAfterThree == Spec => RetiredOnlyAfterThree
<1>1. DeadInv /\ [Next]_vars =>
        [\A f \in Firers :
          /\ fire[f].pc = "drop" /\ fire'[f].pc # "drop"
          /\ fire[f].row \in DOMAIN subs \ DOMAIN subs'
          => strikes[fire[f].row] >= 3]_vars
    BY RetiresDead
<1> QED BY <1>1, DeadInit, DeadNext, PTL DEF Spec, RetiredOnlyAfterThree

\* Rows and fires keep their shape, and a running loop has a slot to wait for.
THEOREM TypeCorrect == Spec => []TypeOK
<1>1. ShapeInv /\ DeadInv /\ ClockInv => TypeOK
    <2> SUFFICES ASSUME ShapeInv, DeadInv, ClockInv PROVE TypeOK
        OBVIOUS
    <2>1. wake \in IF up THEN Horizon ELSE {None}
        BY NextSlotInHorizon DEF ClockInv
    <2> QED BY <2>1
        DEF TypeOK, ShapeInv, FireOK, SubsOK, DeadInv, RowsInv, StrikesInv, ClockInv
<1> QED BY <1>1, ShapeInit, ShapeNext, DeadInit, DeadNext, ClockInit, ClockNext, PTL DEF Spec
=============================================================================
