CONSTANTS
    FileStates = {"missing", "invalid", "old", "nogeneral", "ok"}
    MaxLoads = 3
    CONFIG_FLAG_WITHCOMMENTS = 1
    CONFIG_FLAG_FILEUNCHANGED = 2
    CONFIG_STATUS_FILEMISSING = 0
    CONFIG_STATUS_FILEUNCHANGED = CONFIG_STATUS_FILEUNCHANGED
    CONFIG_STATUS_FILEINVALID = CONFIG_STATUS_FILEINVALID
    CONFIG_STATUS_FILEOLD = CONFIG_STATUS_FILEOLD
    CONFIG_STATUS_FILE_NOT_SCCP = CONFIG_STATUS_FILE_NOT_SCCP
SPECIFICATION Spec
INVARIANT ConfigDestroyedOnce
