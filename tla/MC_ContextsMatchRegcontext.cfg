CONSTANTS
    RegContexts <- MC_RegContexts
    Sep = "&"
SPECIFICATION Spec
INVARIANT ContextsMatchRegcontext
