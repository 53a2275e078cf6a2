-------------------------------- MODULE SM2 --------------------------------
(***************************************************************************)
(* The spaced-repetition update of internal/tasks/srs.go on integers: the  *)
(* easiness factor is in hundredths and the interval in hundredths of a    *)
(* day, rounded down.  A card is what an srs_state row says about a        *)
(* (user, task) pair apart from its due date; last_grade and last_seen_at  *)
(* are written with every grade, read by nothing, and left out.            *)
(***************************************************************************)
EXTENDS Integers

CONSTANTS
    MaxInterval, \* the longest interval a time.Duration holds (106751.99 days)
    Day          \* ticks of the model's clock in a day

ASSUME SM2Assumption == MaxInterval \in Nat \ {0} /\ Day \in Nat \ {0}

Grades == 0 .. 5
Passes(grade) == grade >= 3

\* What LoadSRS returns for a missing row, and the row DeferTask inserts.
NewCard == [ef |-> 250, interval |-> 0, reps |-> 0, lapses |-> 0]

Card == [ef : Nat, interval : Nat, reps : Nat, lapses : Nat]

\* interval * ef, both in hundredths, computed so that 32 bits suffice.
Scaled(interval, ef) == (interval \div 100) * ef + ((interval % 100) * ef) \div 100

NextInterval(c, grade) ==
    IF ~ Passes(grade) \/ c.reps = 0 THEN 100
    ELSE IF c.reps = 1 THEN 600
    ELSE Scaled(c.interval, c.ef)

\* Mutant: no floor under the easiness.
NextEFNoFloor(c, grade) == c.ef + 10 - (5 - grade) * (8 + (5 - grade) * 2)

NextEF(c, grade) ==
    LET ef == c.ef + 10 - (5 - grade) * (8 + (5 - grade) * 2)
    IN  IF ef < 130 THEN 130 ELSE ef

\* Mutant: a pass forgives the lapses.
UpdateSRSForgives(c, grade) ==
    [ef       |-> NextEF(c, grade),
     interval |-> NextInterval(c, grade),
     reps     |-> IF Passes(grade) THEN c.reps + 1 ELSE 0,
     lapses   |-> IF Passes(grade) THEN 0 ELSE c.lapses + 1]

UpdateSRS(c, grade) ==
    [ef       |-> NextEF(c, grade),
     interval |-> NextInterval(c, grade),
     reps     |-> IF Passes(grade) THEN c.reps + 1 ELSE 0,
     lapses   |-> IF Passes(grade) THEN c.lapses ELSE c.lapses + 1]

\* The conversion of a float64 beyond int64 to a time.Duration is left to the
\* implementation: amd64 yields the least int64, arm64 the greatest.
DueOffsets(c) ==
    IF c.interval <= MaxInterval
    THEN {Scaled(c.interval, Day)}
    ELSE {- (MaxInterval \div 100) * Day, (MaxInterval \div 100) * Day}

(***************************************************************************)
(* The cards a learner can reach: an easiness of at least 1.30, and an     *)
(* interval that belongs to the number of passes in a row.                 *)
(***************************************************************************)
Sound(c) ==
    /\ c \in Card
    /\ c.ef >= 130
    /\ c.reps = 0 => c.interval \in {0, 100}
    /\ c.reps = 1 => c.interval = 100
    /\ c.reps >= 2 => c.interval >= 600
=============================================================================
