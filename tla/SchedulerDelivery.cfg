SPECIFICATION FairSpec
CONSTANTS
    l1 = l1
    l2 = l2
    b1 = b1
    l3 = l3
    Job = {l1, b1}
    Class <- Classes
    ClassOf <- ClassOfJob
    Segments <- TwoSegments
    Slots <- OneSlotEach
    FalseStartFrames = 2
    MaxAttempts = 2
    Layers = 2
    MaxGenLen = 2
    FramesAfterEos = 1
    Faults = {"add", "partial", "step", "frame"}
    MaxFaults = 1
INVARIANT StreamsMatchReadings
INVARIANT ReadInOrder
INVARIANT ClosedIsComplete
PROPERTY EveryReadingEnds
CHECK_DEADLOCK FALSE
