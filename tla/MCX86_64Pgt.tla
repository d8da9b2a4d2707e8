----------------------------- MODULE MCX86_64Pgt -----------------------------
(***************************************************************************)
(* Walks of a small page-table tree at the scale PageShift 8, FieldBits 1, *)
(* PhysBits 13, VaBits 16 (a 4-level address has 12 translated bits, a    *)
(* 5-level one 13).  Pages are 256 bytes and hold two 8-byte entries.      *)
(* The tree is PML5 page 6 -> PML4 page 1 -> PDPT page 2 -> PD page 3 ->   *)
(* PT page 4 -> page 5; a 1G page sits at page 8, a 2M page at page 10;    *)
(* page 14 is not in the dump.  Every entry of a table holds the same      *)
(* value, chosen per level from the kinds the hardware and Linux produce.  *)
(***************************************************************************)
EXTENDS X86_64Pgt

PageAddr(p) == p * 2^PageShift

\* flag bits: present, rw, accessed, dirty; PSE (bit 7, PAT in a PTE);
\* the PAT bit of a huge page (bit PAGE_SHIFT); NX (the top bit); the SME
\* C-bit, inside PHYSADDR_MASK like bit 47 of a real entry
FLAGS == 99
PSE == 128
PAT_HUGE == 2^PageShift
NX == 2^15
SME_BIT == 2^12

Tbl(p) == PageAddr(p) + FLAGS
Huge(p) == PageAddr(p) + FLAGS + PSE

\* PSE is ignored above the PDPT level
L5 == {Tbl(1) + PSE}
L4 == {0, Tbl(2), Tbl(2) + NX, Tbl(14)}
L3 == {0, Tbl(3), Huge(8), Huge(8) + PAT_HUGE}
L2 == {Tbl(4), Tbl(4) + NX, Huge(10), Huge(10) + PAT_HUGE}
L1 == {0, Tbl(5), Tbl(5) + PSE, Tbl(5) + NX}

\* an entry of an encrypted table has the C-bit set in its frame
Enc(e, sme) == IF sme /\ e % 2 = 1 THEN e + SME_BIT ELSE e

TablePages == <<1, 2, 3, 4, 6>>   \* the table of level 4, 3, 2, 1 and 5

Image(c, sme) ==
    [ea \in { PageAddr(TablePages[i]) + 8 * j : i \in 1..5, j \in 0..1 } |->
        LET i == CHOOSE k \in 1..5 : ea \div 2^PageShift = TablePages[k]
        IN  Enc(c[i], sme)]

MCMems ==
    { Image(<<l4, l3, l2, l1, l5>>, sme) :
        l5 \in L5, l4 \in L4, l3 \in L3, l2 \in L2, l1 \in L1, sme \in BOOLEAN }

MCPgts ==
    { [root |-> PageAddr(r[1]), pteMask |-> m, nfields |-> r[2]] :
        r \in {<<1, 5>>, <<6, 6>>}, m \in {0, SME_BIT} }

\* both halves and the edges of the 4-level and 5-level holes
MCAddrs == {421, 1445, 2047, 2048, 61440, 63487, 63488}
====
