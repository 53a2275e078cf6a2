\* Six tasks of five kinds, all distributions of due dates; two changes by others.
CONSTANTS
    gap1 = gap1
    gap2 = gap2
    cases = cases
    trans = trans
    word = word
    say = say
    Tasks = {gap1, gap2, cases, trans, word, say}
    Kind <- KindOf
    Mix <- SmallMix
    TopUp = 5
    Budget = 90
    MaxNow = 1
    Changes = 2
SPECIFICATION Spec
INVARIANTS TypeOK NoTaskTwice UrgentFirst Filled
SYMMETRY Symmetry
CHECK_DEADLOCK FALSE
