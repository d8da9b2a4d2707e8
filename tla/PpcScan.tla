------------------------------- MODULE PpcScan -------------------------------
(***************************************************************************)
(* kdumpid's test whether a page holds PowerPC kernel start-up code        *)
(* (tools/kdumpid/ppc.c): looks_like_kcode_ppc reads the page and          *)
(* disas_at disassembles it one instruction at a time.  libopcodes'        *)
(* print_insn prints each instruction through the disas_fn callback in     *)
(* fragments, which append_insn writes into the 100-byte insn buffer.     *)
(*                                                                         *)
(* An instruction is abstracted to its mnemonic kind and the lengths of    *)
(* the fragments print_insn prints for it, the mnemonic first.  libopcodes *)
(* is not part of the repository: print_insn prints every 4-byte word it   *)
(* decodes (".long" for an invalid one) and returns 4, and returns -1 with *)
(* nothing printed past the end of the buffer.                             *)
(***************************************************************************)
EXTENDS Integers, Sequences

CONSTANTS
    Pages,     \* page contents: sequences of [mn, frags] instructions
    SizeMod    \* 2^(bits of size_t), scaled

VARIABLES
    page,      \* the page read by read_page, or <<>> if it failed
    readable,  \* read_page succeeded
    disasm,    \* disassembler() found a print_insn for the target
    phase,     \* "start", "call", "print", "done"
    pc,        \* byte offset of the next instruction
    flags,     \* priv->state.flags: a subset of {SRR0_SET, SRR1_SET}
    iptr,      \* priv->iptr - priv->insn
    frags,     \* fragments print_insn has still to print
    mn,        \* the mnemonic of the instruction being printed
    count,     \* print_insn's return value
    ret,       \* the return value, once phase = "done"
    overflow   \* some write went past the end of insn

vars == <<page, readable, disasm, phase, pc, flags, iptr, frags, mn, count, ret,
         overflow>>

MAX_INSN_LEN == 100
SRR0_SET == 1
SRR1_SET == 2

\* the first token of insn: print_insn prints the mnemonic first
FirstToken == mn

(* append_insn: remain is size_t, so it wraps once iptr is past the end;  *)
(* vsnprintf writes min(len, remain - 1) characters and a NUL and returns *)
(* the untruncated length, which is added to iptr                         *)
append_insn(len) ==
    LET remain == (MAX_INSN_LEN - iptr) % SizeMod
        last   == iptr + (IF len < remain - 1 THEN len ELSE remain - 1)
    IN  /\ overflow' = (overflow \/ (remain > 0 /\ last >= MAX_INSN_LEN))
        /\ iptr' = IF len > 0 THEN iptr + len ELSE iptr

\* looks_like_kcode_ppc: read the page, set up the disassembler, scan
looks_like_kcode_ppc ==
    /\ phase = "start"
    /\ IF ~readable
       THEN /\ ret' = -1
            /\ phase' = "done"
       ELSE IF ~disasm
       THEN /\ ret' = 0
            /\ phase' = "done"
       ELSE /\ phase' = "call"
            /\ UNCHANGED ret
    /\ UNCHANGED <<page, readable, disasm, pc, flags, iptr, frags, mn, count,
                   overflow>>

(* disas_at, top of the loop: reset iptr and call print_insn, which       *)
(* returns 4, or -1 with nothing printed past the end of the page          *)
CallPrintInsn ==
    /\ phase = "call"
    /\ iptr' = 0
    /\ IF pc \div 4 >= Len(page)
       THEN /\ count' = -1
            /\ frags' = <<>>
            /\ UNCHANGED mn
       ELSE /\ count' = 4
            /\ frags' = page[pc \div 4 + 1].frags
            /\ mn' = page[pc \div 4 + 1].mn
    /\ phase' = "print"
    /\ UNCHANGED <<page, readable, disasm, pc, flags, ret, overflow>>

\* disas_fn: print_insn prints its next fragment
disas_fn ==
    /\ phase = "print"
    /\ frags # <<>>
    /\ append_insn(Head(frags))
    /\ frags' = Tail(frags)
    /\ UNCHANGED <<page, readable, disasm, phase, pc, flags, mn, count, ret>>

\* mutant: only the first two instructions must be nops
InPrologue_short(p) == p < 3 * 4

\* for historical reasons, ppc starts with 3 NOPs
InPrologue(p) == p <= 3 * 4

\* mutant: pc counts instructions instead of bytes
Advance_insns(p, c) == p + 1

\* pc += count
Advance(p, c) == p + c

(* disas_at, rest of the loop: break on a negative count; the first three  *)
(* instructions must be nops, an rfi after mtsrr0 and mtsrr1 is the MMU    *)
(* switch, an invalid instruction ends the scan, and a positive count      *)
(* loops                                                                   *)
disas_at ==
    /\ phase = "print"
    /\ frags = <<>>
    /\ IF count < 0
       THEN /\ ret' = 0
            /\ phase' = "done"
            /\ UNCHANGED <<pc, flags>>
       ELSE LET npc == Advance(pc, count) IN
            /\ pc' = npc
            /\ CASE InPrologue(npc) /\ FirstToken # "nop" ->
                      /\ ret' = 0 /\ phase' = "done" /\ UNCHANGED flags
                 [] {SRR0_SET, SRR1_SET} \subseteq flags /\ FirstToken = "rfi" ->
                      /\ ret' = 1 /\ phase' = "done" /\ UNCHANGED flags
                 [] OTHER ->
                      /\ flags' = flags
                                   \cup (IF FirstToken = "mtsrr0" THEN {SRR0_SET} ELSE {})
                                   \cup (IF FirstToken = "mtsrr1" THEN {SRR1_SET} ELSE {})
                      /\ IF FirstToken = ".long" \/ count <= 0
                         THEN ret' = 0 /\ phase' = "done"
                         ELSE phase' = "call" /\ UNCHANGED ret
    /\ UNCHANGED <<page, readable, disasm, iptr, frags, mn, count, overflow>>

Init ==
    /\ readable \in BOOLEAN
    /\ page \in IF readable THEN Pages ELSE {<<>>}
    /\ disasm \in BOOLEAN
    /\ phase = "start"
    /\ pc = 0
    /\ flags = {}
    /\ iptr = 0
    /\ frags = <<>>
    /\ mn = "none"
    /\ count = 0
    /\ ret = 0
    /\ overflow = FALSE

Next == looks_like_kcode_ppc \/ CallPrintInsn \/ disas_fn \/ disas_at

Spec == Init /\ [][Next]_vars

-----------------------------------------------------------------------------

TypeOK ==
    /\ phase \in {"start", "call", "print", "done"}
    /\ flags \subseteq {SRR0_SET, SRR1_SET}
    /\ ret \in {-1, 0, 1}
    /\ pc \in 0..4 * Len(page) /\ pc % 4 = 0
    /\ count \in {-1, 0, 4}
    /\ overflow \in BOOLEAN

\* the start-up code the scan looks for, stated over the whole page
Before(k, j) == \E i \in 1..j - 1 : page[i].mn = k

KernelStartup ==
    /\ Len(page) >= 3
    /\ \A i \in 1..3 : page[i].mn = "nop"
    /\ \E j \in 4..Len(page) :
          /\ page[j].mn = "rfi"
          /\ Before("mtsrr0", j) /\ Before("mtsrr1", j)
          /\ ~Before(".long", j)

(* looks_like_kcode_ppc answers 1 exactly for a page that starts with      *)
(* three nops and switches the MMU on with an rfi after mtsrr0 and mtsrr1  *)
(* and before any invalid instruction, and -1 exactly when the page could *)
(* not be read; disas_at's loop, its pc <= 3 * 4 test and the order of its *)
(* checks decide this one instruction at a time.                          *)
ScanAgreesWithStartup ==
    phase = "done" =>
        /\ (ret = -1) = ~readable
        /\ (ret = 1) = (readable /\ disasm /\ KernelStartup)

=============================================================================
