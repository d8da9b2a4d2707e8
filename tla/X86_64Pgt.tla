------------------------------ MODULE X86_64Pgt ------------------------------
(***************************************************************************)
(* One page-table walk of the PGT method (x86_64.c pgt_x86_64, with the   *)
(* engine's launch, step, read_pte64 and pgt_huge_page that call it and    *)
(* that it calls; those are not in the source tree and are modelled from   *)
(* spec 4.B).  A walk splits the address into indices, starts at the root *)
(* and reads one entry per step until the page, or an error, is reached.  *)
(*                                                                         *)
(* Sizes are scaled and kept in proportion: PageShift stands for          *)
(* PAGE_SHIFT (12), FieldBits for the 9 bits of every index field,        *)
(* PhysBits for PHYSADDR_BITS_MAX (52), VaBits for the 64 bits of an      *)
(* address.  The flag bits keep their positions (present 0, PSE 7), which *)
(* PageShift >= 8 leaves below the frame bits.                             *)
(***************************************************************************)
EXTENDS Naturals, Bitwise

CONSTANTS
    PageShift, FieldBits, PhysBits, VaBits,
    Mems,   \* memory images: physical entry address -> entry value
    Pgts,   \* PGT methods: [root, pteMask, nfields]
    Addrs   \* virtual addresses to translate

ASSUME PageShift >= 8 /\ PhysBits > PageShift + 2 * FieldBits

VARIABLES
    mem,     \* the dump's readable page-table entries
    pgt,     \* meth->param.pgt
    vaddr,   \* the address passed to the walk
    pc,      \* "launch", "step" or "done"
    status,  \* the walk's status
    step     \* addrxlat_step_t: [base, remain, idx, elemsz]

vars == <<mem, pgt, vaddr, pc, status, step>>

\* address-bit constants of x86_64.c, at the scale of the model
PAGE_SHIFT == PageShift
PAGE_SHIFT_2M == PageShift + FieldBits
PAGE_SHIFT_1G == PageShift + 2 * FieldBits
PHYSADDR_BITS_MAX == PhysBits
_PAGE_BIT_PRESENT == 0
_PAGE_BIT_PSE == 7

\* x & ~ADDR_MASK(k), and the test of bit b
ClearLow(x, k) == x - (x % 2^k)
BitSet(x, b) == (x \div 2^b) % 2 = 1

\* the number of address bits spanned by one index at level k >= 1
FieldShift(k) == PageShift + (k - 1) * FieldBits

(* engine, launch: split the address into idx[], reject a non-canonical    *)
(* one, start at the root with remain = nfields - 1 and 8-byte entries     *)
NonCanonical(a, nf) ==
    LET half == 2^(FieldShift(nf) - 1) IN a >= half /\ a < 2^VaBits - half

Launch ==
    [base |-> pgt.root, remain |-> pgt.nfields - 1, elemsz |-> 8,
     idx |-> [k \in 0..pgt.nfields - 1 |->
                IF k = 0 THEN vaddr % 2^PageShift
                ELSE (vaddr \div 2^FieldShift(k)) % 2^FieldBits]]

(* engine, read_pte64: read the entry idx[remain] of the table at base,    *)
(* failing if the dump does not have it, and clear the pte_mask bits       *)
read_pte64(s) ==
    LET ea == s.base + s.idx[s.remain] * 8 IN
    IF ea \in DOMAIN mem
    THEN [st |-> "OK", pte |-> mem[ea] - (mem[ea] & pgt.pteMask)]
    ELSE [st |-> "NODATA", pte |-> 0]

(* engine, pgt_huge_page: fold the indices below the huge page into the    *)
(* page offset idx[0] and leave one level to go, at byte resolution        *)
RECURSIVE HugeOffset(_, _)
HugeOffset(s, k) ==
    IF k = 0 THEN s.idx[0]
    ELSE HugeOffset(s, k - 1) + s.idx[k] * 2^FieldShift(k)

pgt_huge_page(s) ==
    [s EXCEPT !.idx[0] = HugeOffset(s, s.remain - 1), !.remain = 1,
              !.elemsz = 1]

\* mutant: the entry's bits above PHYSADDR_MASK (NX) stay in the address
PteFrame_nomask(pte) == pte

\* step->base.addr = pte & PHYSADDR_MASK
PteFrame(pte) == pte % 2^PHYSADDR_BITS_MAX

\* mutant: a 2M page keeps the PAT bit (bit PAGE_SHIFT) of its entry
HugeBase_pat(b, remain) ==
    ClearLow(b, IF remain = 3 THEN PAGE_SHIFT_1G ELSE PAGE_SHIFT)

\* the base of a 1G page (remain 3) or a 2M page (remain 2)
HugeBase(b, remain) ==
    ClearLow(b, IF remain = 3 THEN PAGE_SHIFT_1G ELSE PAGE_SHIFT_2M)

(* pgt_x86_64: one step.  A read error or a clear present bit ends the     *)
(* walk (with noerr.notpresent the same status comes without a message);   *)
(* the frame is pte & PHYSADDR_MASK; PSE at remain 3 or 2 ends it in a     *)
(* 1G or 2M page, otherwise the frame is the next table or the page        *)
pgt_x86_64(s) ==
    LET rd == read_pte64(s)
        b  == PteFrame(rd.pte)
    IN  CASE rd.st # "OK" -> [st |-> rd.st, s |-> s]
          [] ~BitSet(rd.pte, _PAGE_BIT_PRESENT) -> [st |-> "NOTPRESENT", s |-> s]
          [] s.remain \in {2, 3} /\ BitSet(rd.pte, _PAGE_BIT_PSE) ->
                [st |-> "OK",
                 s  |-> pgt_huge_page([s EXCEPT !.base = HugeBase(b, s.remain)])]
          [] OTHER ->
                [st |-> "OK",
                 s  |-> [s EXCEPT !.base = ClearLow(b, PAGE_SHIFT),
                                  !.elemsz = IF s.remain = 1 THEN 1 ELSE @]]

Init ==
    /\ mem \in Mems
    /\ pgt \in Pgts
    /\ vaddr \in Addrs
    /\ pc = "launch"
    /\ status = "OK"
    /\ step = [base |-> 0, remain |-> 0, elemsz |-> 8, idx |-> [k \in {0} |-> 0]]

\* engine, walk: launch; an address in the non-canonical hole is invalid
LaunchStep ==
    /\ pc = "launch"
    /\ IF NonCanonical(vaddr, pgt.nfields)
       THEN /\ status' = "INVALID"
            /\ pc' = "done"
            /\ UNCHANGED step
       ELSE /\ step' = Launch
            /\ pc' = "step"
            /\ UNCHANGED status
    /\ UNCHANGED <<mem, pgt, vaddr>>

(* engine, step: call pgt_x86_64; on success decrement remain, and when it *)
(* reaches 0 the page base plus idx[0] is the result                       *)
WalkStep ==
    /\ pc = "step"
    /\ LET r  == pgt_x86_64(step)
           s2 == [r.s EXCEPT !.remain = @ - 1]
       IN  IF r.st # "OK"
           THEN /\ status' = r.st
                /\ pc' = "done"
                /\ step' = r.s
           ELSE /\ step' = IF s2.remain = 0
                           THEN [s2 EXCEPT !.base = @ + s2.idx[0]]
                           ELSE s2
                /\ pc' = IF s2.remain = 0 THEN "done" ELSE "step"
                /\ UNCHANGED status
    /\ UNCHANGED <<mem, pgt, vaddr>>

Next == LaunchStep \/ WalkStep

(* walk() loops in the caller's thread until remain is 0 or a step fails,  *)
(* waiting for nothing: it keeps taking steps                              *)
Spec == Init /\ [][Next]_vars /\ WF_vars(Next)

-----------------------------------------------------------------------------

\* The step state keeps its shape: at most nfields - 1 levels remain, entries
\* are 8 bytes until the page is reached, and the base is a physical address.
TypeOK ==
    /\ pc \in {"launch", "step", "done"}
    /\ status \in {"OK", "INVALID", "NOTPRESENT", "NODATA"}
    /\ step.remain \in 0..pgt.nfields - 1
    /\ step.elemsz \in {1, 8}
    /\ step.base \in 0..2^PhysBits - 1

\* the result the walk reports, as the abstract translation sees it
Out ==
    IF pc = "done"
    THEN [st |-> status, addr |-> IF status = "OK" THEN step.base ELSE 0]
    ELSE [st |-> "NONE", addr |-> 0]

Abs == INSTANCE X86_64Translate WITH out <- Out

(* The walk implements the architectural translation: launch, the engine   *)
(* steps and pgt_x86_64's masks give, and eventually give, the result of   *)
(* spec 4.C for every canonical or non-canonical address, huge page, PAT   *)
(* bit, NX bit, SME mask and missing or not-present entry.  The liveness   *)
(* of Abs!Spec is checked as Abs!Answered, which its weak fairness gives:  *)
(* TLC would have to solve ENABLED through the mapping Out otherwise.     *)
WalkRefinesTranslate == Abs!SafetySpec /\ Abs!Answered
=============================================================================
