--------------------------- MODULE MCX86_64Sys ---------------------------
(***************************************************************************)
(* Dump facts for checking X86_64Sys. Each family varies the facts one  *)
(* part of the set-up reads and fixes the rest to a plain modern dump;    *)
(* Realistic keeps the combinations a Linux kernel can produce.           *)
(***************************************************************************)
EXTENDS X86_64Sys

\* a 4-level dump with init_top_pgt, _stext, cr4 and readable memory
Base == [os |-> "LINUX", virtBits |-> 0, cr4 |-> "4l", l5 |-> "NODATA",
         stext |-> "_stext", ver |-> "unset", la57 |-> FALSE,
         rootpgt |-> FALSE, topPgt |-> "OK", l4Pgt |-> "NODATA",
         cr3 |-> "NODATA", sme |-> FALSE, smeNum |-> "NODATA",
         xenXlat |-> FALSE, p2m |-> FALSE, physCaps |-> TRUE,
         kvCaps |-> TRUE, pob |-> FALSE, physBase |-> FALSE, dm |-> "2_6_27",
         pgdL4 |-> "NODATA", xtext |-> "none", ptPresent |-> TRUE]

Vers == {"unset", "2_4", "2_6_20", "4_4", "4_15", "5_4"}
Modern == {"4_15", "5_4", "unset"}       \* 4.8 or later, or not known

\* where each kernel version puts the direct mapping
DmOf(ver, la57) ==
    CASE ver = "2_4" -> {"2_6_0"}
      [] ver = "2_6_20" -> {"2_6_11"}
      [] ver = "4_4" -> {"2_6_27"}
      [] ver = "4_15" -> IF la57 THEN {"5L", "kaslr"} ELSE {"2_6_27", "kaslr"}
      [] ver = "5_4" -> IF la57 THEN {"5L_4_2", "kaslr"} ELSE {"4_2", "kaslr"}
      [] OTHER -> IF la57 THEN {"5L", "5L_4_2", "kaslr"}
                  ELSE DirectmapBases \ {"5L", "5L_4_2"}

\* where each Xen version puts the direct mapping and the text
XenLayoutOf(ver) ==
    CASE ver = "x3_1" -> {[dm |-> "xen", text |-> "none"]}
      [] ver = "x3_3" -> {[dm |-> "xen", text |-> "3_2"]}
      [] ver = "x4_1" -> {[dm |-> "xen", text |-> "4_0"]}
      [] ver = "x4_3" -> {[dm |-> "xen", text |-> "4_3"]}
      [] ver = "x4_6" -> {[dm |-> "xen", text |-> "4_4"], [dm |-> "bigmem", text |-> "4_4"]}
      [] OTHER -> {[dm |-> "xen", text |-> t] : t \in {"none", "3_2", "4_0dev", "4_0", "4_3", "4_4"}}
                  \cup {[dm |-> "bigmem", text |-> "4_4"]}

RealisticXen(d) ==
    /\ [dm |-> d.dm, text |-> d.xtext] \in XenLayoutOf(d.ver)

Realistic(d) ==
    IF d.os = "XEN" THEN RealisticXen(d) ELSE
    /\ d.dm \in DmOf(d.ver, d.la57)
    /\ d.la57 => d.ver \in Modern
    /\ d.cr4 # "NODATA" => (d.cr4 = "la57") = d.la57
    /\ d.l5 # "NODATA" => (d.l5 = "1") = d.la57 /\ d.ver \in Modern
    /\ d.virtBits = 48 => ~d.la57
    /\ d.virtBits = 57 => d.la57
    /\ d.cr3 = "user" => d.ver # "2_4" /\ d.ver # "2_6_20"
    /\ d.sme \/ d.smeNum = "OK" => d.ver \in Modern
    /\ d.pob => d.ver \in Modern

\* how the paging mode is found
VirtBitsDumps ==
    { [Base EXCEPT !.os = os, !.virtBits = vb, !.cr4 = cr4, !.l5 = l5,
                   !.stext = st, !.ver = v, !.la57 = l, !.dm = "kaslr"] :
        os \in {"LINUX", "OTHER"}, vb \in {0, 48, 39}, cr4 \in {"NODATA", "4l", "la57"},
        l5 \in {"NODATA", "0", "1"}, st \in {"_stext", "NODATA"},
        v \in {"unset", "4_4", "4_15"}, l \in BOOLEAN }

\* how the root is found, with KPTI, SME and the version table
RootDumps ==
    { [Base EXCEPT !.rootpgt = rp, !.topPgt = tp, !.l4Pgt = l4, !.cr3 = c,
                   !.ver = v, !.sme = sm[1], !.smeNum = sm[2],
                   !.physCaps = pc0, !.dm = dm] :
        rp \in BOOLEAN, tp \in {"OK", "NODATA", "ERR"}, l4 \in {"OK", "NODATA", "ERR"},
        c \in {"NODATA", "kernel", "kernel_odd", "user"}, v \in Vers,
        sm \in {<<FALSE, "NODATA">>, <<FALSE, "OK">>, <<TRUE, "OK">>},
        pc0 \in BOOLEAN, dm \in DirectmapBases }

\* how physical memory and the kernel text are reached
ReadDumps ==
    { [Base EXCEPT !.physCaps = FALSE, !.kvCaps = kv, !.pob = pob,
                   !.physBase = pb, !.stext = st, !.dm = dm, !.topPgt = tp,
                   !.cr3 = "kernel", !.xenXlat = x[1], !.p2m = x[2]] :
        kv \in BOOLEAN, pob \in BOOLEAN, pb \in BOOLEAN,
        st \in {"_stext", "_text", "NODATA"}, dm \in DirectmapBases,
        tp \in {"OK", "NODATA"},
        x \in {<<FALSE, FALSE>>, <<TRUE, FALSE>>, <<TRUE, TRUE>>} }

\* Xen hypervisor dumps
XenVers == {"unset", "x3_1", "x3_3", "x4_1", "x4_3", "x4_6"}

XenDumps ==
    { [Base EXCEPT !.os = "XEN", !.cr4 = "NODATA", !.rootpgt = rp, !.cr3 = c,
                   !.pgdL4 = pg, !.physBase = pb, !.ver = v, !.dm = l.dm,
                   !.xtext = l.text, !.ptPresent = pp, !.physCaps = pc0] :
        rp \in BOOLEAN, c \in {"kernel", "NODATA"}, pg \in {"text", "directmap", "NODATA"},
        pb \in BOOLEAN, v \in XenVers, l \in UNION {XenLayoutOf(x) : x \in XenVers},
        pp \in BOOLEAN, pc0 \in BOOLEAN }

MCDumpsXen == { d \in XenDumps : Realistic(d) }

\* the root that map_xen_x86_64 picks can be read: a machine address, a
\* pgd_l4 in the text with phys_base, or a pgd_l4 in the non-BIGMEM
\* direct mapping
XenRootUsable(d) ==
    \/ d.rootpgt \/ d.cr3 # "NODATA"
    \/ d.pgdL4 = "text" /\ d.physBase
    \/ d.pgdL4 = "directmap" /\ d.dm = "xen"

\* Xen dumps whose page tables are all present and readable from the root
MCDumpsXenWalk ==
    { d \in MCDumpsXen : d.ptPresent /\ d.physCaps /\ XenRootUsable(d) }

\* BIGMEM Xen dumps whose page tables are present
MCDumpsXenBigmem ==
    { d \in MCDumpsXen : d.dm = "bigmem" /\ d.ptPresent /\ d.physCaps }

MCDumps == { d \in VirtBitsDumps \cup RootDumps \cup ReadDumps : Realistic(d) } \cup MCDumpsXenWalk

\* a KPTI dump of a kernel whose version is known
MCDumpsKptiVersion ==
    { d \in RootDumps : Realistic(d) /\ d.ver # "unset" }

\* a KPTI dump with SME active, version not known
MCDumpsKptiSme ==
    { d \in RootDumps : Realistic(d) /\ d.ver = "unset" /\ d.sme }

\* KPTI dumps of either kind: each family alone violates KptiKernelRoot
MCDumpsKpti == MCDumpsKptiVersion \cup MCDumpsKptiSme

\* a 4.8+ dump whose page tables cannot be walked
MCDumpsNoWalk ==
    { d \in RootDumps : Realistic(d) /\ ~d.physCaps }

\* the KPTI dumps and the dumps whose page tables cannot be walked
MCDumpsFallbacks == MCDumpsKpti \cup MCDumpsNoWalk

\* with the Xen dumps whose calc_ktext_offset may fail
MCDumpsProbeFallbacks == MCDumpsFallbacks \cup MCDumpsXen
====
