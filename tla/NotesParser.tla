---------------------------- MODULE NotesParser ----------------------------
(***************************************************************************)
(* The ELF notes parser of libkdumpfile (src/kdumpfile/notes.c).          *)
(*                                                                         *)
(* A note buffer is a sequence of notes laid out back to back, each a     *)
(* 12-byte header, the name padded to 4 and the descriptor padded to 4,   *)
(* possibly cut short at the end. do_notes walks it one header per step   *)
(* with size_t arithmetic (modulo SizeMod) and hands every note to        *)
(* do_any_note, whose handlers write attributes. Note contents are        *)
(* abstract: a note is a record of its header fields, whether its name    *)
(* is NUL-terminated, and the few descriptor fields a handler decodes.    *)
(***************************************************************************)
EXTENDS Naturals, Sequences

CONSTANTS
    Notes,      \* the note records a buffer is made of
    MaxNotes,   \* bound on the number of notes in a buffer
    Cuts,       \* numbers of bytes a buffer may be cut short by
    PtrSize,    \* get_ptr_size(ctx): 4 or 8
    Arch,       \* arch_ops: "x86_64", "ia32" or "other"
    SizeMod,    \* 2^(bits of size_t)
    NameLen,    \* strlen() of the producer names the parser knows
    Unset,      \* value of an attribute that is not set
    DoNote      \* the do_note_fn passed to do_notes: "noarch", "arch" or "any"

ASSUME PtrSize \in {4, 8} /\ Arch \in {"x86_64", "ia32", "other"}
ASSUME DoNote \in {"noarch", "arch", "any"}

NT_PRSTATUS == 1
NT_TASKSTRUCT == 4
QEMU_ELFNOTE_CPUSTATE == 0
XEN_ELFNOTE_CRASH_INFO == 16777217              \* 0x1000001
XEN_ELFNOTE_DUMPCORE_HEADER == 33554433         \* 0x2000001
XEN_ELFNOTE_DUMPCORE_XEN_VERSION == 33554434    \* 0x2000002
XEN_ELFNOTE_DUMPCORE_FORMAT_VERSION == 33554435 \* 0x2000003

\* sizeof the packed descriptor structures
SizeofCrashInfo32 == 32
SizeofCrashInfo64 == 64
SizeofCrashInfoX86 == 40
SizeofCrashInfoX86_64 == 80
SizeofXenVersion32 == 1276
SizeofXenVersion64 == 1280
SizeofNhdr == 12

VARIABLES
    buf,        \* the notes of the buffer
    bufsize,    \* its length in bytes
    pos,        \* offset of the next header (hdr)
    size,       \* bytes left from pos (size)
    ret,        \* status of the last handler (ret)
    done,       \* do_notes has returned
    processed,  \* the notes handed to do_note so far, in order
    attrs,      \* attributes written by the handlers
    outOfBounds \* a note outside the buffer was dispatched, or a handler
                \* read past its descriptor

vars == <<buf, bufsize, pos, size, ret, done, processed, attrs, outOfBounds>>

Keys == {"num_cpus", "linux.vmcoreinfo.raw", "xen.vmcoreinfo.raw",
         "file.eraseinfo.raw", "linux.task_struct", "xen.type",
         "xen.version.major", "xen.version.minor", "xen.version.extra_addr",
         "xen.version.extra", "xen.p2m_mfn", "xen.phys_start",
         "arch.page_size"}

\* roundup_size(): size_t arithmetic
roundup_size(sz) == LET s == (sz + 3) % SizeMod IN s - (s % 4)

NoteLen(n) == SizeofNhdr + roundup_size(n.namesz) + roundup_size(n.descsz)

RECURSIVE Layout(_)
\* bytes taken by a sequence of notes laid out back to back
Layout(s) == IF s = <<>> THEN 0 ELSE NoteLen(Head(s)) + Layout(Tail(s))

\* offset of the i-th note of buf
Off(i) == Layout(SubSeq(buf, 1, i - 1))

\* note_equal(): the whole name, with or without its terminating NUL
note_equal(name, n) ==
    /\ n.name = name
    /\ \/ n.namesz = NameLen[name]
       \/ n.namesz = NameLen[name] + 1 /\ n.nul

-----------------------------------------------------------------------------
(* Handlers. Each returns [st |-> status, a |-> attrs after it, rd |->    *)
(* the number of descriptor bytes it reads]. Failures of the library     *)
(* services they call (blob allocation, init_cpu_prstatus, set_page_size) *)
(* are an input: fail \in BOOLEAN.                                        *)

Res(st, a, rd) == [st |-> st, a |-> a, rd |-> rd]
SetA(a, k, v) == [a EXCEPT ![k] = v]

\* set_blob_attr / process_task_struct: copy the descriptor into a blob
set_blob_attr(a, k, n, fail) ==
    IF fail THEN Res("ERR_SYSTEM", a, n.descsz)
    ELSE Res("OK", SetA(a, k, "desc_copy"), n.descsz)

\* process_core_note(): NT_PRSTATUS counts a CPU before decoding it
process_core_note(a, n, fail) ==
    CASE n.type = NT_PRSTATUS ->
           LET cpu == IF a["num_cpus"] = Unset THEN 0 ELSE a["num_cpus"]
               a1 == SetA(a, "num_cpus", cpu + 1)
           IN Res(IF fail THEN "ERR_PRSTATUS" ELSE "OK", a1, n.descsz)
      [] n.type = NT_TASKSTRUCT -> set_blob_attr(a, "linux.task_struct", n, fail)
      [] OTHER -> Res("OK", a, 0)

\* process_xen_crash_info(): which layout is decoded depends on the
\* pointer size, the architecture and the descriptor length.
\* a CRASH_INFO descriptor longer than the base layout carries the p2m MFN
\* in its last aligned word (both branches test the 64-bit base size)
CrashInfoHasP2m_x86_64(len) == len > SizeofCrashInfoX86_64
CrashInfoHasP2m(len) == len > SizeofCrashInfo64

process_xen_crash_info(a, n) ==
    LET len == n.descsz
        a0 == SetA(a, "xen.type", "KDUMP_XEN_SYSTEM")
        b64 == PtrSize = 8 /\ len >= SizeofCrashInfo64
        b32 == ~b64 /\ PtrSize = 4 /\ len >= SizeofCrashInfo32
        hasP2m == CrashInfoHasP2m(len)
        hasPhys == IF b64 THEN Arch = "x86_64" /\ len >= SizeofCrashInfoX86_64
                          ELSE Arch = "ia32" /\ len >= SizeofCrashInfoX86
        version == IF hasPhys THEN 2 ELSE IF hasP2m THEN 1 ELSE 0
        p2m == IF hasP2m THEN "last_word" ELSE "zero"
        a1 == [SetA(SetA(SetA(a0, "xen.version.major", "major"),
                 "xen.version.minor", "minor"), "xen.version.extra_addr", "extra")
               EXCEPT !["xen.p2m_mfn"] = IF version >= 1 THEN p2m ELSE @,
                      !["xen.phys_start"] = IF version >= 2 THEN "phys_start" ELSE @]
        rd == IF hasP2m \/ hasPhys THEN len
              ELSE IF b64 THEN SizeofCrashInfo64 ELSE SizeofCrashInfo32
    IN IF b64 \/ b32 THEN Res("OK", a1, rd) ELSE Res("OK", a0, 0)

\* process_xen_dumpcore_version(): its status is ignored by the caller
process_xen_dumpcore_version(a, n) ==
    LET need == IF PtrSize = 8 THEN SizeofXenVersion64 ELSE SizeofXenVersion32
    IN IF n.descsz >= need
         THEN SetA(SetA(SetA(a, "xen.version.major", "major"),
                "xen.version.minor", "minor"), "xen.version.extra", "extra")
         ELSE a

process_xen_note(a, n) ==
    CASE n.type = XEN_ELFNOTE_CRASH_INFO -> process_xen_crash_info(a, n)
      [] n.type = XEN_ELFNOTE_DUMPCORE_XEN_VERSION ->
            Res("OK", process_xen_dumpcore_version(a, n), 0)
      [] OTHER -> Res("OK", a, 0)

\* process_xc_xen_note(): the header's xch_page_size (bytes 24..31) and the
\* format version (bytes 0..7) are read without a length check.
process_xc_xen_note(a, n, fail) ==
    CASE n.type = XEN_ELFNOTE_DUMPCORE_HEADER ->
           IF fail THEN Res("ERR_PAGESIZE", a, 32)
           ELSE Res("OK", SetA(a, "arch.page_size", "xch_page_size"), 32)
      [] n.type = XEN_ELFNOTE_DUMPCORE_FORMAT_VERSION ->
           Res(IF n.version # 1 THEN "ERR_NOTIMPL" ELSE "OK", a, 8)
      [] OTHER -> Res("OK", a, 0)

do_noarch_note(a, n, fail) ==
    CASE note_equal("VMCOREINFO", n) -> set_blob_attr(a, "linux.vmcoreinfo.raw", n, fail)
      [] note_equal("VMCOREINFO_XEN", n) -> set_blob_attr(a, "xen.vmcoreinfo.raw", n, fail)
      [] note_equal("ERASEINFO", n) -> set_blob_attr(a, "file.eraseinfo.raw", n, fail)
      [] OTHER -> Res("OK", a, 0)

do_arch_note(a, n, fail) ==
    CASE note_equal("CORE", n) -> process_core_note(a, n, fail)
      [] note_equal("QEMU", n) -> Res("OK", a, 0)  \* arch cpustate decoder
      [] note_equal("Xen", n) -> process_xen_note(a, n)
      [] note_equal(".note.Xen", n) -> process_xc_xen_note(a, n, fail)
      [] OTHER -> Res("OK", a, 0)

\* do_any_note(): the no-arch handlers first, the arch ones if they succeed
do_any_note(a, n, fail) ==
    LET r1 == do_noarch_note(a, n, fail)
        r2 == do_arch_note(r1.a, n, fail)
    IN IF r1.st # "OK" THEN r1
       ELSE [r2 EXCEPT !.rd = IF r1.rd > @ THEN r1.rd ELSE @]

\* the do_note callback: process_noarch_notes, process_arch_notes or
\* process_notes
do_note(a, n, fail) ==
    CASE DoNote = "noarch" -> do_noarch_note(a, n, fail)
      [] DoNote = "arch" -> do_arch_note(a, n, fail)
      [] DoNote = "any" -> do_any_note(a, n, fail)

-----------------------------------------------------------------------------
(* do_notes(): one loop iteration per step.                              *)

\* index of the note whose header is at pos, Len(buf) + 1 if none is
CurIdx == CHOOSE i \in 1..Len(buf) + 1 : i = Len(buf) + 1 \/ Off(i) = pos

HeaderInBuf == CurIdx <= Len(buf) /\ pos + SizeofNhdr <= bufsize

descoff(n) == (SizeofNhdr + roundup_size(n.namesz)) % SizeMod

NextSize_nowrap(n) == size - descoff(n) - roundup_size(n.descsz)
NextSize_noclamp(n) ==
    LET s1 == (size - descoff(n)) % SizeMod
    IN (s1 - roundup_size(n.descsz)) % SizeMod

\* size -= descoff; size = size >= roundup(descsz) ? size - roundup : 0
NextSize(n) ==
    LET s1 == (size - descoff(n)) % SizeMod
    IN IF s1 >= roundup_size(n.descsz) THEN s1 - roundup_size(n.descsz) ELSE 0

FitsRemaining_padded(n) ==
    size >= (descoff(n) + roundup_size(n.descsz)) % SizeMod

\* the note's name and descriptor fit in what is left: size >= descoff + descsz
FitsRemaining(n) == size >= (descoff(n) + n.descsz) % SizeMod

Looping == ~done /\ ret = "OK" /\ size >= SizeofNhdr

Init ==
    /\ \E k \in 0..MaxNotes, c \in Cuts :
         \E s \in [1..k -> Notes] :
           /\ c < Layout(s)
           /\ buf = s
           /\ bufsize = Layout(s) - c
    /\ pos = 0
    /\ size = bufsize
    /\ ret = "OK"
    /\ done = FALSE
    /\ processed = <<>>
    /\ attrs = [k \in Keys |-> Unset]
    /\ outOfBounds = FALSE

\* the header at hdr is read and its note handed to do_note
ProcessNote ==
    /\ Looping
    /\ HeaderInBuf
    /\ LET n == buf[CurIdx] IN
         /\ FitsRemaining(n)
         /\ \E fail \in BOOLEAN :
              LET r == do_note(attrs, n, fail) IN
                /\ pos' = pos + descoff(n) + roundup_size(n.descsz)
                /\ size' = NextSize(n)
                /\ ret' = r.st
                /\ attrs' = r.a
                /\ processed' = Append(processed, n)
                /\ outOfBounds' = \/ outOfBounds
                                  \/ pos + descoff(n) + n.descsz > bufsize
                                  \/ r.rd > n.descsz
    /\ UNCHANGED <<buf, bufsize, done>>

\* size < descoff + descsz: the truncated tail is skipped
TruncatedTail ==
    /\ Looping
    /\ HeaderInBuf
    /\ ~FitsRemaining(buf[CurIdx])
    /\ done' = TRUE
    /\ UNCHANGED <<buf, bufsize, pos, size, ret, processed, attrs, outOfBounds>>

\* the while condition fails: do_notes returns ret
Return ==
    /\ ~done
    /\ ~Looping
    /\ done' = TRUE
    /\ UNCHANGED <<buf, bufsize, pos, size, ret, processed, attrs, outOfBounds>>

Next == ProcessNote \/ TruncatedTail \/ Return

Spec == Init /\ [][Next]_vars

-----------------------------------------------------------------------------
(* Properties                                                             *)

TypeOK ==
    /\ pos \in Nat /\ size \in 0..SizeMod - 1
    /\ ret \in {"OK", "ERR_SYSTEM", "ERR_PRSTATUS", "ERR_PAGESIZE", "ERR_NOTIMPL"}
    /\ done \in BOOLEAN /\ outOfBounds \in BOOLEAN
    /\ processed \in Seq(Notes)
    /\ attrs["num_cpus"] \in {Unset} \cup Nat
    /\ \A k \in Keys \ {"num_cpus"} :
         attrs[k] \in {Unset, "desc_copy", "KDUMP_XEN_SYSTEM", "major", "minor",
                      "extra", "last_word", "zero", "phys_start", "xch_page_size"}

\* Reference: note k fits when its header, padded name and unpadded
\* descriptor lie within the buffer.
Fits(k) == Off(k) + SizeofNhdr + roundup_size(buf[k].namesz) + buf[k].descsz
             <= bufsize
ValidPrefixLen ==
    CHOOSE m \in 0..Len(buf) :
        /\ \A j \in 1..m : Fits(j)
        /\ m < Len(buf) => ~Fits(m + 1)

\* do_notes reads every header at a note boundary inside the buffer and
\* hands no name or descriptor that leaves the buffer to a handler, and no
\* handler reads past its descriptor (the size checks and the size_t clamp
\* of do_notes, the length checks of the handlers).
InBounds == ~outOfBounds /\ (Looping => HeaderInBuf)

\* Spec 8.6: when do_notes returns OK it has handed exactly the notes of
\* the valid prefix to the handler, in order, and a cut tail is ignored.
PrefixProcessed ==
    done /\ ret = "OK" => processed = SubSeq(buf, 1, ValidPrefixLen)

\* Spec 4.D: the p2m_mfn recorded from a Xen CRASH_INFO note is the last
\* aligned word of its descriptor (process_xen_crash_info).
P2mIsLastWord == attrs["xen.p2m_mfn"] \in {Unset, "last_word"}

\* What spec 4.D and do_notes promise a 32-bit build reading a 32-bit
\* dump: every note is parsed within the buffer (InBounds) and the p2m_mfn
\* of a Xen CRASH_INFO note is its last word (P2mIsLastWord).
Notes32Correct == InBounds /\ P2mIsLastWord

====
