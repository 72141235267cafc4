SPECIFICATION Spec
CONSTANTS
    SetNames = {s1, s2}
    Clients = {c1}
    Callbacks = {k1}
    MaxVersion = 2
    EventSlots = 2
    MaxSamples = 2
    Faults = {"fetch"}
    Absent = Absent
INVARIANTS
    AvailableMeansUpdated
