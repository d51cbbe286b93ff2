SPECIFICATION Spec
CONSTANTS
    RecordType = "A"
    RemoveTypes = {"A", "ANY"}
    Data = {d1, d2}
    SoaSerials = {1, 2}
    Serials = {0, 1}
    Ttls = {1}
    Classes = {"IN"}
    NumAlgorithms = 2
    MaxRrsigs = 2
SYMMETRY MCSymmetry
PROPERTY ChangeClearsRrsigs
INVARIANT UniqueRData
INVARIANT SignaturesCoverData
INVARIANT SignatureSelection
PROPERTY InsertReportsChange
PROPERTY RefinesAbstract
