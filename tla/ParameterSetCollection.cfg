SPECIFICATION Spec
CONSTANTS
    Threads = {t1, t2}
    SetNames = {s1, s2}
    ParamNames = {p1, p2}
    Values = {v1, v2}
    Absent = Absent
SYMMETRY Symmetry
PROPERTIES
    FixedUnlessCalibratable
    ModelSpec
