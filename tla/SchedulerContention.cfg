SPECIFICATION Spec
CONSTANTS
    l1 = l1
    l2 = l2
    b1 = b1
    l3 = l3
    Job = {l1, l2, l3, b1}
    Class <- Classes
    ClassOf <- ClassOfJob
    Segments <- OneSegment
    Slots <- TwoLiveOneBackground
    FalseStartFrames = 1
    MaxAttempts = 1
    Layers = 2
    MaxGenLen = 1
    FramesAfterEos = 1
    Faults = {"add", "partial", "step", "frame"}
    MaxFaults = 2
SYMMETRY SameClass
INVARIANT TypeOK
INVARIANT CountersExact
INVARIANT NothingWaits
PROPERTY KeepsAdmission
CHECK_DEADLOCK FALSE
