CONSTANTS
    NoValue = NoValue
    SCCP_CONFIG_NOUPDATENEEDED = 0
    SCCP_CONFIG_NEEDDEVICERESET = 2
    SCCP_CONFIG_CHANGE_NOCHANGE = 0
    SCCP_CONFIG_CHANGE_CHANGED = 1
    SCCP_CONFIG_CHANGE_INVALIDVALUE = 2
    Devices = {"SEP0001"}
    Lines = {"1000"}
    SectionOrder <- MC_SectionOrder
    GeneralSections <- MC_GeneralSections
    DeviceSections <- MC_DeviceSections
    LineSections <- MC_LineSections
    MaxAddons = 2
    AstDbs <- MC_AstDbs
    RealtimeTables <- MC_NoRealtime
    Numerals <- MC_Numerals
SPECIFICATION Spec
INVARIANTS
    TypeOK
    FeaturesMatchDatabase
