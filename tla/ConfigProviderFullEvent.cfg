SPECIFICATION Spec
CONSTANTS
    SetNames = {s1, s2}
    Clients = {c1}
    Callbacks = {k1}
    MaxVersion = 3
    EventSlots = 2
    MaxSamples = 2
    Faults = {}
    Absent = Absent
INVARIANTS
    EveryUpdateArrives
