CONSTANTS
    NumLayers = 2
    NumExperts = 3
    TopK = 2
    InitialSlots = 2
    Totals = {2, 4}
    Floor = 2
    AdmitFilter = FALSE
    ReadsFail = FALSE
SPECIFICATION Spec
INVARIANTS Converges
