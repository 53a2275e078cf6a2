\* Two learners and a speaking task; three requests.
CONSTANTS
    alice = alice
    bob = bob
    grammar = grammar
    spoken = spoken
    r1 = r1
    r2 = r2
    r3 = r3
    r4 = r4
    None = None
    Users = {alice, bob}
    Tasks = {spoken}
    SpeakTasks = {spoken}
    Requests = {r1, r2, r3}
    Marks = {1}
    MaxSid = 2
    MaxNow = 0
    Defer = 1
    Day = 2
    MaxInterval = 10675199
SPECIFICATION Spec
SYMMETRY Symmetry
INVARIANTS AttemptsHaveOwners
PROPERTIES OwnRequestsOnly LogSpec
CHECK_DEADLOCK FALSE
