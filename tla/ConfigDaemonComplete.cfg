SPECIFICATION Spec
CONSTANTS
    NumCreators = 2
INVARIANTS
    OfferedIsComplete
