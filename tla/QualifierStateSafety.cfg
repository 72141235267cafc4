SPECIFICATION Spec
CONSTANTS
    Clients = {c1, c2}
    MaxSends = 3
    FirstValues = {"undefined", "invalid"}
SYMMETRY Symmetry
INVARIANTS
    QualifiedWasSent
PROPERTIES
    RegisterSpec
    FinalAnswersStay
