SPECIFICATION Spec
CONSTANTS
    Handles = {a, b}
    ParamNames = {"p", "q"}
    Leaves <- MCLeaves
    Json <- MCJson
    Types = {"uint8", "int64", "double"}
    Floats = {"double"}
    CppValues <- MCValues
    Zero = 0
    None = None
    As <- MCAs
    Cast <- MCCast
    Nearest <- MCNearest
    Write <- MCWrite
    Parse <- MCParse
    Reread <- MCReread
    Rounded <- MCRounded
    QualifierLeaf <- MCQualifierLeaf
    DataSets <- MCDataSets
    Elsewhere <- MCElsewhere
SYMMETRY Symmetry
INVARIANTS
    ReadsWhatTextKeeps
    QualifierSurvives
    BlamesDamagedDocuments
