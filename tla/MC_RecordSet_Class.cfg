SPECIFICATION Spec
CONSTANTS
    RecordType = "A"
    RemoveTypes = {"A"}
    Data = {d1, d2}
    SoaSerials = {1, 2}
    Serials = {0, 1}
    Ttls = {1}
    Classes = {"IN", "CH"}
    NumAlgorithms = 2
    MaxRrsigs = 2
SYMMETRY MCSymmetry
INVARIANT SignaturesCurrent
