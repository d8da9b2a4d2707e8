CONSTANT Dumps <- MCDumps
INIT Init
NEXT Next
INVARIANT TypeOK
INVARIANT DirectmapCorrect
INVARIANT RdirectCorrect
INVARIANT RootIsATable
CHECK_DEADLOCK FALSE
