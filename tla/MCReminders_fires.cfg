\* The loop and two tests on one device of either of two accounts; two slots a day.
CONSTANTS
    alice = alice
    bob = bob
    phone = phone
    test1 = test1
    test2 = test2
    Loop = Loop
    None = None
    Users = {alice, bob}
    Endpoints = {phone}
    Tests = {test1, test2}
    Slots = {0, 2}
    DayLen = 3
    MaxNow = 5
    MaxId = 2
SPECIFICATION Spec
INVARIANTS TypeOK SlotFiresOnce NoSlotPassedOver RetiredInTime
PROPERTIES RetiredOnlyAfterThree
SYMMETRY Symmetry
CHECK_DEADLOCK FALSE
