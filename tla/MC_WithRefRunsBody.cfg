CONSTANTS
    Threads = {t1, t2}
    NULL = NULL
SPECIFICATION Spec
INVARIANT
    WithRefRunsBody
