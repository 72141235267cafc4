SPECIFICATION Spec
CONSTANTS
    Clients = {c1}
    MaxSends = 2
    FirstValues = {"undefined", "inProgress", "default", "qualifying", "unqualified", "qualified", "invalid"}
INVARIANTS
    QualifiedWasSent
