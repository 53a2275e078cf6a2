\* Three days, two snapshots kept, the loop and two commands.
CONSTANTS
    Server = server
    t1 = t1
    t2 = t2
    Tools = {t1, t2}
    Keep = 2
    LastDay = 2
SPECIFICATION Spec
SYMMETRY Symmetry
INVARIANTS SnapshotsKept
