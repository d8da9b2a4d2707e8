--------------------------- MODULE X86_64Translate ---------------------------
(***************************************************************************)
(* What a page-table translation of one x86_64 virtual address promises   *)
(* (spec 4.C): the architectural result, computed in one step.  A          *)
(* non-canonical address is invalid; an entry whose present bit is clear   *)
(* ends the translation as not present; an entry of a page directory or a *)
(* PDPT table with the PSE bit maps a huge page whose size is the span of *)
(* its level; otherwise the entry names the next table, and an entry of    *)
(* the last level names the page.  The SME bits of pte_mask are not part  *)
(* of any address.  X86_64Pgt is shown to implement this module.           *)
(*                                                                         *)
(* Sizes are scaled: PageShift stands for 12, FieldBits for 9, PhysBits    *)
(* for 52 and VaBits for 64.                                               *)
(***************************************************************************)
EXTENDS Naturals, Bitwise

CONSTANTS PageShift, FieldBits, PhysBits, VaBits

VARIABLES
    mem,    \* physical address of a readable 8-byte entry -> its value
    pgt,    \* the PGT method: [root, pteMask, nfields]
    vaddr,  \* the virtual address to translate
    out     \* NoResult, then the result [st, addr]

vars == <<mem, pgt, vaddr, out>>

NoResult == [st |-> "NONE", addr |-> 0]

\* bit b of x, and the k low bits of x
BitSet(x, b) == (x \div 2^b) % 2 = 1
LowBits(x, k) == x % 2^k

\* the number of address bits an entry of level lvl spans
SpanBits(lvl) == PageShift + (lvl - 1) * FieldBits

\* the table index of vaddr at level lvl
LevelIndex(lvl) == (vaddr \div 2^SpanBits(lvl)) % 2^FieldBits

\* canonical: the bits above the translated ones copy the top translated one
IsCanonical(nf) ==
    LET vbits == SpanBits(nf) IN
    vaddr < 2^(vbits - 1) \/ vaddr >= 2^VaBits - 2^(vbits - 1)

\* the architectural walk from the table at physical address t, level lvl
RECURSIVE Lookup(_, _)
Lookup(t, lvl) ==
    LET ea    == t + LevelIndex(lvl) * 8
        e     == mem[ea] - (mem[ea] & pgt.pteMask)
        frame == LowBits(e, PhysBits)
        span  == SpanBits(lvl)
    IN  CASE ea \notin DOMAIN mem ->
                [st |-> "NODATA", addr |-> 0]
          [] ~BitSet(e, 0) ->
                [st |-> "NOTPRESENT", addr |-> 0]
          [] lvl = 1 \/ (lvl \in {2, 3} /\ BitSet(e, 7)) ->
                [st |-> "OK",
                 addr |-> frame - LowBits(frame, span) + LowBits(vaddr, span)]
          [] OTHER ->
                Lookup(frame - LowBits(frame, PageShift), lvl - 1)

Translate ==
    IF IsCanonical(pgt.nfields)
    THEN Lookup(pgt.root, pgt.nfields - 1)
    ELSE [st |-> "INVALID", addr |-> 0]

Init == out = NoResult

TranslateStep ==
    /\ out = NoResult
    /\ out' = Translate
    /\ UNCHANGED <<mem, pgt, vaddr>>

Next == TranslateStep

SafetySpec == Init /\ [][Next]_vars

\* a requested translation is eventually answered
Spec == SafetySpec /\ WF_vars(Next)

\* what the fairness of Spec gives: TranslateStep stays enabled until taken
Answered == <>(out # NoResult)
=============================================================================
