\* KPTI dumps whose version is known or with SME active, dumps whose page
\* tables cannot be walked, and Xen dumps
CONSTANT Dumps <- MCDumpsProbeFallbacks
INIT Init
NEXT Next
INVARIANT ProbeFallbacks
\* sys_x86_64 returns: the model of one call stops
CHECK_DEADLOCK FALSE
