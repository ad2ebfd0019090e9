CONSTANTS
    Sections <- MC_CapacitySections
    MaxSections = 2
    Blocks = {b1, b2, b3, b4}
    KnownLabels <- MC_KnownLabels
    StationMaxSoftKeySetDefinition = 16
    LabelBytes <- MC_LabelBytes
    NULL = NULL
SPECIFICATION Spec
SYMMETRY MC_Symmetry
INVARIANT SoftKeySetsMeetSpec
