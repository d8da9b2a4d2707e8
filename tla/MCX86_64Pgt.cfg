CONSTANTS
    PageShift = 8
    FieldBits = 1
    PhysBits = 13
    VaBits = 16
    Mems <- MCMems
    Pgts <- MCPgts
    Addrs <- MCAddrs
SPECIFICATION Spec
\* a walk returns its result: the model of one walk stops
CHECK_DEADLOCK FALSE
INVARIANT TypeOK
PROPERTY WalkRefinesTranslate
