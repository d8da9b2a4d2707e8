--------------------------- MODULE MCNotesParser ---------------------------
(* Note buffers for NotesParser: up to MaxNotes notes drawn from the      *)
(* records below, cut short by a few bytes.                               *)
EXTENDS NotesParser

MCNameLen ==
    [x \in {"CORE", "QEMU", "Xen", ".note.Xen", "VMCOREINFO",
            "VMCOREINFO_XEN", "ERASEINFO", "GNU"} |->
       CASE x = "CORE" -> 4 [] x = "QEMU" -> 4 [] x = "Xen" -> 3
         [] x = ".note.Xen" -> 9 [] x = "VMCOREINFO" -> 10
         [] x = "VMCOREINFO_XEN" -> 14 [] x = "ERASEINFO" -> 9
         [] x = "GNU" -> 3]

Note(nm, nsz, nul, t, dsz, v) ==
    [name |-> nm, namesz |-> nsz, nul |-> nul, type |-> t, descsz |-> dsz,
     version |-> v]

\* notes a kdump or Xen dump carries, with the descriptor sizes of their
\* producers and a few malformed variants
CommonNotes ==
    { Note("CORE", 5, TRUE, NT_PRSTATUS, 6, 0),
      Note("CORE", 4, FALSE, NT_TASKSTRUCT, 8, 0),
      Note("VMCOREINFO", 11, TRUE, 0, 3, 0),
      Note("VMCOREINFO", 11, FALSE, 0, 3, 0),
      Note("QEMU", 5, TRUE, QEMU_ELFNOTE_CPUSTATE, 4, 0),
      Note("GNU", 4, TRUE, 3, 4, 0),
      Note(".note.Xen", 10, TRUE, XEN_ELFNOTE_DUMPCORE_HEADER, 32, 0),
      Note(".note.Xen", 10, TRUE, XEN_ELFNOTE_DUMPCORE_FORMAT_VERSION, 8, 2) }

MCNotes64 ==
    CommonNotes \cup
    { Note("Xen", 4, TRUE, XEN_ELFNOTE_CRASH_INFO, 80, 0),
      Note("Xen", 4, TRUE, XEN_ELFNOTE_CRASH_INFO, 72, 0),
      Note("Xen", 4, TRUE, XEN_ELFNOTE_DUMPCORE_XEN_VERSION, 1272, 0) }

\* the crash info of a 32-bit hypervisor: xen_crash_info_x86
MCNotes32 ==
    { Note("CORE", 5, TRUE, NT_PRSTATUS, 6, 0),
      Note("Xen", 4, TRUE, XEN_ELFNOTE_CRASH_INFO, 40, 0),
      Note("Xen", 4, TRUE, XEN_ELFNOTE_CRASH_INFO, 68, 0) }

\* a DUMPCORE_HEADER note shorter than struct xen_elfnote_header
MCNotesShortHeader ==
    { Note(".note.Xen", 10, TRUE, XEN_ELFNOTE_DUMPCORE_HEADER, 8, 0),
      Note("CORE", 5, TRUE, NT_PRSTATUS, 6, 0) }

\* a 64-bit size_t: wider than any Elf32_Word field below
MCSizeMod == 65536

\* A 32-bit size_t is as wide as Elf32_Word. Both are scaled to 12 bits
\* (SizeMod 4096): the note below has n_descsz = 2^12 - 6, the analogue of
\* 0xfffffffa, and the buffer is cut so that only its header and name
\* remain.
MCSizeMod32 == 4096
MCNotesWrap ==
    { Note("VMCOREINFO", 11, TRUE, 0, 4090, 0),
      Note("CORE", 5, TRUE, NT_PRSTATUS, 6, 0) }

\* the notes of both out-of-bounds reads: each family alone violates InBounds
MCNotesOutOfBounds == MCNotesShortHeader \cup MCNotesWrap

\* the notes of a 32-bit dump read by a 32-bit build: the 32-bit crash info
\* and both out-of-bounds families
MCNotes32Build == MCNotes32 \cup MCNotesOutOfBounds
====
