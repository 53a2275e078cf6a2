\* One learner and one card; three requests, every interleaving of their statements.
CONSTANTS
    alice = alice
    bob = bob
    grammar = grammar
    spoken = spoken
    r1 = r1
    r2 = r2
    r3 = r3
    r4 = r4
    None = None
    Users = {alice}
    Tasks = {grammar}
    SpeakTasks = {}
    Requests = {r1, r2, r3}
    Marks = {0, 4}
    MaxSid = 1
    MaxNow = 1
    Defer = 1
    Day = 2
    MaxInterval = 10675199
SPECIFICATION FairSpec
INVARIANTS TypeOK SoundRows LapsesAccounted SummaryCountsAcked
PROPERTIES ProgressOnlyByGrading EndIsFinal Answered
CHECK_DEADLOCK FALSE
