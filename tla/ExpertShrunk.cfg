CONSTANTS
    NumLayers = 1
    NumExperts = 4
    TopK = 3
    InitialSlots = 3
    Totals = {2}
    Floor = 3
    AdmitFilter = FALSE
    ReadsFail = FALSE
SPECIFICATION Spec
INVARIANTS NoSharedSlot
