\* a 32-bit build (size_t as wide as Elf32_Word, both scaled to 12 bits)
\* reading an ia32 Xen dump: the 32-bit crash info, a short DUMPCORE_HEADER
\* note and a note whose n_descsz wraps, process_notes (do_any_note)
CONSTANTS
    Notes <- MCNotes32Build
    MaxNotes = 2
    Cuts = {0, 1, 2, 5, 13, 4090}
    PtrSize = 4
    Arch = "ia32"
    SizeMod <- MCSizeMod32
    NameLen <- MCNameLen
    Unset = Unset
    DoNote = "any"
SPECIFICATION Spec
\* do_notes returns: the model of one call stops
CHECK_DEADLOCK FALSE
INVARIANT Notes32Correct
