\* Three tasks; two sessions of a learner who waits for answers, or one of a
\* learner who clicks whatever is enabled.
SPECIFICATION FairSpec
CONSTANTS
    Kinds <- Three
    MaxSessions = 2
    MaxHasty = 1
    Slots <- SlotsMC
    HastySlots <- TwoSlots
    Recorders <- RecordersMC
    None = None
    Manners = {TRUE, FALSE}
    c1 = c1
    c2 = c2
    c3 = c3
    m1 = m1
    m2 = m2
INVARIANTS TypeOK VerdictOfItsTask LeftOnlyWhenEnded
PROPERTIES NoTaskPassedOver TranscribingEnds
CHECK_DEADLOCK FALSE
