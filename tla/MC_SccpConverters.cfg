CONSTANTS
    NoValue = NoValue
    SCCP_CONFIG_NOUPDATENEEDED = 0
    SCCP_CONFIG_NEEDDEVICERESET = 2
    SCCP_CONFIG_CHANGE_NOCHANGE = 0
    SCCP_CONFIG_CHANGE_CHANGED = 1
    SCCP_CONFIG_CHANGE_INVALIDVALUE = 2
    Numerals <- MC_Numerals
    Rows <- MC_ContractRows
    Values <- MC_Values
    Malformed <- MC_Malformed
    Chars <- MC_Chars
    Hosts <- MC_Hosts
    TosNames <- MC_TosNames
    AmaNames <- MC_AmaNames
    DebugLevels <- MC_DebugLevels
    TrueWords = {"yes", "true", "on", "1"}
    Codecs <- MC_Codecs
    CosGarbage = {0, 5, 200}
    MaxList = 3
SPECIFICATION Spec
CONSTRAINT StateConstraint
INVARIANT
    TypeOK
PROPERTY
    ConverterContract
