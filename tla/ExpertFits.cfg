CONSTANTS
    NumLayers = 2
    NumExperts = 3
    TopK = 2
    InitialSlots = 2
    Totals = {4, 6}
    Floor = 2
    AdmitFilter = TRUE
    ReadsFail = TRUE
SPECIFICATION Spec
INVARIANTS TypeOK Coherent KeptSound Converges
