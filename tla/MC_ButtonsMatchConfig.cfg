CONSTANTS
    NoValue = NoValue
    SCCP_CONFIG_NOUPDATENEEDED = 0
    SCCP_CONFIG_NEEDDEVICERESET = 2
    SCCP_CONFIG_CHANGE_NOCHANGE = 0
    SCCP_CONFIG_CHANGE_CHANGED = 1
    SCCP_CONFIG_CHANGE_INVALIDVALUE = 2
    Numerals <- MC_Numerals
    ButtonEntries <- MC_ButtonEntries
    MaxEntries = 2
    CallocType = "LINE"
    FeatureNames = {"devstate"}
    SCCP_FEATURE_DEVSTATE = "devstate"
    MaxSpecifiers = 3
SPECIFICATION Spec
INVARIANT
    ButtonStateMatchesConfig
