------------------------------ MODULE MCPpcScan ------------------------------
(***************************************************************************)
(* Pages of up to seven instructions: a three-instruction prologue and a   *)
(* tail of up to four.  The fragments are what libopcodes prints for each *)
(* kind: the mnemonic, a tab, and operands separated by commas.            *)
(***************************************************************************)
EXTENDS PpcScan

Insn(m, f) == [mn |-> m, frags |-> f]

NOP    == Insn("nop", <<3>>)
MTSRR0 == Insn("mtsrr0", <<6, 1, 2>>)             \* mtsrr0  r3
MTSRR1 == Insn("mtsrr1", <<6, 1, 2>>)             \* mtsrr1  r4
RFI    == Insn("rfi", <<3>>)
LONG   == Insn(".long", <<5, 1, 10>>)             \* .long   0xffffffff
BL     == Insn("bl", <<2, 1, 18>>)                \* bl      0xc000000000012345
RLWINM == Insn("rlwinm", <<6, 1, 2, 1, 2, 1, 2, 1, 2, 1, 2>>)  \* five operands

Prologues == { <<NOP, NOP, NOP>>, <<NOP, NOP, RFI>>, <<NOP, MTSRR0, NOP>>,
               <<NOP, NOP, BL>> }

TailInsns == {MTSRR0, MTSRR1, RFI, LONG, RLWINM}

Tails == UNION { [1..n -> TailInsns] : n \in 0..4 }

MCPages == { p \o t : p \in Prologues, t \in Tails }

\* size_t is wider than any offset the scan reaches
MCSizeMod == 2^16
====
