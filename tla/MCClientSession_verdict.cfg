SPECIFICATION Spec
CONSTANTS
    Kinds <- Spoken
    MaxSessions = 1
    MaxHasty = 1
    Slots <- SlotsMC
    HastySlots <- SlotsMC
    Recorders <- RecordersMC
    None = None
    Manners = {FALSE}
    c1 = c1
    c2 = c2
    c3 = c3
    m1 = m1
    m2 = m2
INVARIANT SkipTearsDown
SYMMETRY Symmetry
CHECK_DEADLOCK FALSE
