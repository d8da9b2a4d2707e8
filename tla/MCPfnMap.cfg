\* Up to three regions over PFNs 0..4, the allocation increment scaled to 2
\* so that the array is grown twice.
CONSTANTS
    Pfns = {0, 1, 2, 3, 4}
    MaxCnt = 2
    RGN_ALLOC_INC = 2
    MaxRegions = 3
    EndPfns = {1, 2}
    NMaps = 3
SPECIFICATION Spec
INVARIANT TypeOK
INVARIANT WithinAlloc
INVARIANT FindCorrect
