SPECIFICATION FairSpec
CONSTANTS
    NumCreators = 4
INVARIANTS
    OfferedIsPopulated
    EveryRunIsCleanedUp
    SendersHaveService
PROPERTIES
    LifeSpec
    EndsWhenStopped
