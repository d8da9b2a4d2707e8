\* 64-bit x86_64 dumps, process_notes (do_any_note)
CONSTANTS
    Notes <- MCNotes64
    MaxNotes = 2
    Cuts = {0, 1, 2, 5, 13}
    PtrSize = 8
    Arch = "x86_64"
    SizeMod <- MCSizeMod
    NameLen <- MCNameLen
    Unset = Unset
    DoNote = "any"
SPECIFICATION Spec
\* do_notes returns: the model of one call stops
CHECK_DEADLOCK FALSE
INVARIANT TypeOK
INVARIANT InBounds
INVARIANT PrefixProcessed
INVARIANT P2mIsLastWord
