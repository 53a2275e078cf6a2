SPECIFICATION FairSpec
CONSTANTS
    Kinds <- Spoken
    MaxSessions = 1
    MaxHasty = 1
    Slots <- TwoSlots
    HastySlots <- TwoSlots
    Recorders <- RecordersMC
    None = None
    Manners = {TRUE}
    c1 = c1
    c2 = c2
    c3 = c3
    m1 = m1
    m2 = m2
PROPERTY RecordingEnds
CHECK_DEADLOCK FALSE
