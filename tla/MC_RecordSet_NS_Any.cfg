SPECIFICATION Spec
CONSTANTS
    RecordType = "NS"
    RemoveTypes = {"NS", "ANY"}
    Data = {d1, d2}
    SoaSerials = {1, 2}
    Serials = {0, 1}
    Ttls = {1}
    Classes = {"IN"}
    NumAlgorithms = 2
    MaxRrsigs = 2
SYMMETRY MCSymmetry
PROPERTY ProtectedSetNeverEmptied
