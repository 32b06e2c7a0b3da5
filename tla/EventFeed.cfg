SPECIFICATION Spec
CONSTANTS
    Cap = 1
    PageCap = 2
    MaxEvents = 2
    MaxRestarts = 1
    MaxFailures = 1
    Polls = {p1, p2}
INVARIANTS OnlyTheGapLoses ShownInOrder
PROPERTIES EventuallyDelivered
CHECK_DEADLOCK FALSE
