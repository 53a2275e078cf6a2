\* Two contents, up to two ids, two files of the agent.
CONSTANTS
    p = p
    q = q
    r = r
    c1 = c1
    c2 = c2
    t1 = t1
    t2 = t2
    Blank = Blank
    NoTopic = NoTopic
    Batches <- BatchesMC
    Notes <- NotesMC
    MaxId = 2
    MaxNotes = 2
SPECIFICATION Spec
INVARIANTS GatesPassable AnnotationsLand
PROPERTIES RowsKept
