CONSTANTS
    Pages <- MCPages
    SizeMod <- MCSizeMod
SPECIFICATION Spec
\* looks_like_kcode_ppc returns: the model of one call stops
CHECK_DEADLOCK FALSE
INVARIANT TypeOK
INVARIANT ScanAgreesWithStartup
