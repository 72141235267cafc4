SPECIFICATION FairSpecOneSaved
CONSTANTS
    SetNames = {s1, s2}
    Clients = {c1}
    Callbacks = {k1, k2}
    MaxVersion = 2
    EventSlots = 2
    MaxSamples = 1
    Faults = {}
    Absent = Absent
PROPERTIES
    KeepsUp
    DestructorReturns
    ChannelSpec
    CallbackIsCalled
