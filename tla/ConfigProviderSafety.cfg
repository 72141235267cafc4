SPECIFICATION Spec
CONSTANTS
    SetNames = {s1, s2}
    Clients = {c1, c2}
    Callbacks = {k1}
    MaxVersion = 2
    EventSlots = 1
    MaxSamples = 1
    Faults = {"fetch", "send", "poll", "subscribe"}
    Absent = Absent
SYMMETRY Symmetry
INVARIANTS
    TypeOK
    CachedSetsHaveHandlers
    PollingHasProvider
    NoLostUpdate
    StorageIsCurrent
    SeenIsStored
    NothingRunsAfterDestruction
PROPERTIES
    NeverGoesBack
    PromiseSpec
