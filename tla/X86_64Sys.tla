---------------------------- MODULE X86_64Sys ----------------------------
(***************************************************************************)
(* Set-up of the x86_64 translation system for a Linux dump               *)
(* (src/addrxlat/x86_64.c: sys_x86_64, init_pgt_meth, get_virt_bits,      *)
(* map_linux_x86_64 and the functions it calls).                           *)
(*                                                                         *)
(* The dump is a record of facts fixed for a behaviour: which symbols,    *)
(* registers and numbers the callbacks resolve, which page table cr3      *)
(* points to, whether PTEs carry the SME encryption bit, where the kernel *)
(* page table maps the direct mapping, and what the reader can read.      *)
(* Addresses are abstracted to the regions the code tells apart.          *)
(*                                                                         *)
(* The translation engine (walks, lowest_mapped, highest_linear) is not in *)
(* this source tree. Its outcome is the predicate WalkOK: a walk of a     *)
(* region succeeds when the root is the kernel page table, the root can   *)
(* be read, PTEs can be decoded, and the kernel page table maps the       *)
(* region.                                                                 *)
(*                                                                         *)
(* One step is one function of the set-up sequence, with everything it    *)
(* calls.                                                                  *)
(***************************************************************************)
EXTENDS Naturals, SequencesExt

CONSTANTS
    Dumps       \* the dump facts a behaviour may start from

Meths == {"PGT", "DIRECT", "RDIRECT", "KTEXT", "KPHYS_MACHPHYS", "MACHPHYS_KPHYS"}
Kinds == {"NOMETH", "PGT", "LINEAR", "MEMARR"}

\* Direct-mapping locations: the fixed bases of x86_64.c and a randomized
\* (KASLR) base inside the search range of the paging mode.
DirectmapBases == {"2_6_0", "2_6_11", "2_6_27", "4_2", "5L", "5L_4_2", "kaslr",
                   "xen", "bigmem"}

\* Xen text bases in the order map_xen_x86_64 tries them
XenTextLoc == <<"4_4", "4_3", "4_0", "3_2", "4_0dev">>

\* fixed_loc[] of linux_rdirect_map, most recent first
FixedLoc == <<"4_2", "2_6_27", "2_6_11", "2_6_0">>

VARIABLES
    dump,       \* the facts of the dump being opened
    pc,         \* the set-up function to run next, "done" when returned
    status,     \* status returned by sys_x86_64
    failed,     \* the step that returned a failure, "none" if none did
    sys         \* the translation system under construction

vars == <<dump, pc, status, failed, sys>>

(* sys: root is the PGT root (as: "NOADDR", "KV" or "MPA"; tbl: the page  *)
(* table it points to: "kernel", "user" (KPTI user half) or "other"),     *)
(* nfields the paging form, pteMask whether sme_mask is applied, meth the *)
(* kind of each method, dm the direct-mapping region installed, rdirect   *)
(* the base used by the reverse direct mapping, ktext how the KTEXT       *)
(* offset was obtained, kv the ranges of the KV_PHYS map set up here.     *)

Res(st, s) == [st |-> st, sys |-> s]

-----------------------------------------------------------------------------
(* The engine, as seen from this file                                     *)

\* physical memory can be read: by the reader, or through an RDIRECT
\* method whose base is the real direct mapping (a wrong base reads
\* other pages)
PhysReadable(s) ==
    \/ dump.physCaps
    \/ s.meth["RDIRECT"] # "NOMETH" /\ s.rdirect = dump.dm

\* the KTEXT offset is right for the root page: the temporary Xen offset
\* -XEN_DIRECTMAP is wrong for a root in the BIGMEM direct mapping
RootOffsetOK(s) ==
    s.ktext # "xen_tmp" \/ dump.pgdL4 = "text" \/ dump.dm = "xen"

\* the page-table pages can be read: lower levels are physical; a KV
\* root is read by the reader or through the minimal ktext mapping
RootReadable(s) ==
    /\ PhysReadable(s)
    /\ \/ s.root.as = "MPA"
       \/ s.root.as = "KV" /\ dump.kvCaps
       \/ /\ s.root.as = "KV" /\ "ktext_root" \in s.kv
          /\ s.meth["KTEXT"] = "LINEAR" /\ RootOffsetOK(s)

\* a walk of an address of region r reaches a present page
WalkOK(s, r) ==
    /\ s.root.tbl = "kernel"
    /\ RootReadable(s)
    /\ ~dump.sme \/ s.pteMask
    /\ (s.nfields = 6) = dump.la57
    /\ dump.ptPresent
    /\ r \in {dump.dm, "ktext", dump.xtext}

\* is_directmap(): the address translates to physical 0
is_directmap(s, base) == WalkOK(s, base) /\ base = dump.dm

\* linux_search_directmap(): lowest_mapped/is_directmap over the search
\* range of the paging mode
Searchable(s, r) ==
    IF s.nfields = 6 THEN r \in {"5L", "5L_4_2", "kaslr"}
    ELSE r \in {"2_6_27", "4_2", "kaslr"}

\* linux_directmap_by_pgt(): 2.6.0 and 2.6.11 bases, then the search
linux_directmap_by_pgt(s) ==
    IF is_directmap(s, dump.dm) /\ (dump.dm \in {"2_6_0", "2_6_11"} \/ Searchable(s, dump.dm))
    THEN Res("OK", dump.dm) ELSE Res("NOTIMPL", "none")

\* a version table with a row for 4.2 and later
linux_directmap_by_ver_4_2(ver) ==
    CASE ver \in {"4_15", "5_4"} -> Res("NOMETH", "none")
      [] ver = "4_4" -> Res("OK", "4_2")
      [] ver = "2_6_20" -> Res("OK", "2_6_11")
      [] ver = "2_4" -> Res("NOTIMPL", "none")

\* linux_directmap_by_ver(): the table of known layouts
linux_directmap_by_ver(ver) ==
    CASE ver \in {"4_15", "5_4"} -> Res("NOMETH", "none")
      [] ver = "4_4" -> Res("OK", "2_6_27")
      [] ver = "2_6_20" -> Res("OK", "2_6_11")
      [] ver = "2_4" -> Res("NOTIMPL", "none")

\* remove_rdirect()
remove_rdirect(s) == [s EXCEPT !.meth["RDIRECT"] = "NOMETH", !.rdirect = "none"]

\* linux_directmap(): keep an existing direct mapping, else find it in the
\* page tables, else take it from the version table
linux_directmap(s) ==
    IF s.meth["DIRECT"] # "NOMETH" THEN Res("OK", s)
    ELSE LET p == linux_directmap_by_pgt(s)
             r == IF p.st # "OK" /\ dump.ver # "unset"
                  THEN linux_directmap_by_ver(dump.ver) ELSE p
             s1 == remove_rdirect(s)
         IN IF r.st = "OK"
            THEN Res("OK", [s1 EXCEPT !.meth["DIRECT"] = "LINEAR", !.dm = r.sys])
            ELSE Res(r.st, s1)

\* the root after "addr->addr &= ~LINUX_PTI_USER_PGTABLE_MASK": the kernel
\* half for a KPTI user table, another page for a table that merely lies
\* at an odd page frame
WithoutUserBit(s) ==
    [s EXCEPT !.root.tbl = IF dump.cr3 = "user" THEN "kernel" ELSE "other"]

\* cr3 with bit 12 clear: a kernel page table at an even frame
UserBitSet == dump.cr3 \in {"user", "kernel_odd"}

\* get_linux_pgt_root() that does not restore bit 12 after a failed retry
get_linux_pgt_root_norestore(s) ==
    CASE s.root.as # "NOADDR" -> Res("OK", s)
      [] dump.topPgt = "OK" ->
            Res("OK", [s EXCEPT !.root = [as |-> "KV", tbl |-> "kernel"]])
      [] dump.topPgt = "ERR" -> Res("ERR", s)
      [] dump.l4Pgt = "OK" ->
            Res("OK", [s EXCEPT !.root = [as |-> "KV", tbl |-> "kernel"]])
      [] dump.l4Pgt = "ERR" -> Res("ERR", s)
      [] dump.cr3 = "NODATA" -> Res("OK", s)
      [] OTHER ->
         LET s0 == [s EXCEPT !.root = [as |-> "MPA",
                       tbl |-> IF dump.cr3 = "user" THEN "user" ELSE "kernel"]]
             r1 == linux_directmap(s0)
             r2 == linux_directmap(WithoutUserBit(r1.sys))
         IN IF ~UserBitSet THEN Res("OK", s0)
            ELSE IF r1.st # "NOTIMPL" THEN Res("OK", r1.sys)
            ELSE Res("OK", r2.sys)

\* get_linux_pgt_root(): init_top_pgt, init_level4_pgt, then cr3; with
\* the KPTI bit set, probe the direct mapping, and on NOTIMPL retry with
\* the bit cleared, restoring it if that fails too
get_linux_pgt_root(s) ==
    CASE s.root.as # "NOADDR" -> Res("OK", s)
      [] dump.topPgt = "OK" ->
            Res("OK", [s EXCEPT !.root = [as |-> "KV", tbl |-> "kernel"]])
      [] dump.topPgt = "ERR" -> Res("ERR", s)
      [] dump.l4Pgt = "OK" ->
            Res("OK", [s EXCEPT !.root = [as |-> "KV", tbl |-> "kernel"]])
      [] dump.l4Pgt = "ERR" -> Res("ERR", s)
      [] dump.cr3 = "NODATA" -> Res("OK", s)
      [] OTHER ->
         LET s0 == [s EXCEPT !.root = [as |-> "MPA",
                       tbl |-> IF dump.cr3 = "user" THEN "user" ELSE "kernel"]]
             r1 == linux_directmap(s0)
             r2 == linux_directmap(WithoutUserBit(r1.sys))
         IN IF ~UserBitSet THEN Res("OK", s0)
            ELSE IF r1.st # "NOTIMPL" THEN Res("OK", r1.sys)
            ELSE IF r2.st = "OK" THEN Res("OK", r2.sys)
            ELSE Res("OK", [r2.sys EXCEPT !.root.tbl = s0.root.tbl])

\* linux_rdirect_map() whose loop does not remove a failed guess
linux_rdirect_map_keep(s) ==
    LET At(b) == [s EXCEPT !.meth["RDIRECT"] = "LINEAR", !.rdirect = b]
        i == SelectInSeq(FixedLoc, LAMBDA b : is_directmap(At(b), b))
    IN CASE ~dump.kvCaps -> Res("NOMETH", s)
         [] dump.pob /\ is_directmap(At(dump.dm), dump.dm) -> Res("OK", At(dump.dm))
         [] i > 0 -> Res("OK", At(FixedLoc[i]))
         [] OTHER -> Res("NOMETH", At(FixedLoc[Len(FixedLoc)]))

\* linux_rdirect_map(): page_offset_base, then the fixed locations, each
\* kept only if it maps to physical 0
linux_rdirect_map(s) ==
    LET At(b) == [s EXCEPT !.meth["RDIRECT"] = "LINEAR", !.rdirect = b]
        i == SelectInSeq(FixedLoc, LAMBDA b : is_directmap(At(b), b))
    IN CASE ~dump.kvCaps -> Res("NOMETH", s)
         [] dump.pob /\ is_directmap(At(dump.dm), dump.dm) -> Res("OK", At(dump.dm))
         [] i > 0 -> Res("OK", At(FixedLoc[i]))
         [] OTHER -> Res("NOMETH", remove_rdirect(s))

\* set_ktext_offset()
set_ktext_offset(s, how) == [s EXCEPT !.meth["KTEXT"] = "LINEAR", !.ktext = how]

\* the status of a failed walk: not-present, no-data from the reader or
\* no-method without a root; linux_ktext_map treats all three alike
WalkErr == "NOTPRESENT"

\* linux_ktext_meth(): phys_base, then _stext or _text through the page
\* tables, then the lowest mapped ktext address
linux_ktext_meth(s) ==
    CASE dump.physBase -> Res("OK", set_ktext_offset(s, "phys_base"))
      [] ~WalkOK(s, "ktext") -> Res(WalkErr, s)
      [] dump.stext # "NODATA" -> Res("OK", set_ktext_offset(s, "calc"))
      [] OTHER -> Res("OK", set_ktext_offset(s, "lowest"))

\* linux_ktext_map(): the offset, the minimal mapping of a KV root page,
\* then the ktext extents; failures of a walk are not fatal
linux_ktext_map(s) ==
    LET m == linux_ktext_meth(s)
        s1 == IF s.meth["PGT"] = "PGT" /\ s.root.as = "KV"
              THEN [m.sys EXCEPT !.kv = @ \cup {"ktext_root"}] ELSE m.sys
    IN CASE m.st # "OK" -> Res("OK", m.sys)
         [] WalkOK(s1, "ktext") -> Res("OK", [s1 EXCEPT !.kv = @ \cup {"ktext"}])
         [] OTHER -> Res("OK", s1)

\* set_pgt_fallback()
set_pgt_fallback(s, idx) ==
    IF s.meth[idx] = "NOMETH" THEN [s EXCEPT !.meth[idx] = s.meth["PGT"]] ELSE s

\* get_xen_pgt_root(): the option, cr3, then the pgd_l4 symbol
get_xen_pgt_root(s) ==
    CASE s.root.as # "NOADDR" -> s
      [] dump.cr3 # "NODATA" -> [s EXCEPT !.root = [as |-> "MPA", tbl |-> "kernel"]]
      [] dump.pgdL4 # "NODATA" -> [s EXCEPT !.root = [as |-> "KV", tbl |-> "kernel"]]
      [] OTHER -> s

\* setup_xen_pgt(): for a KV root, a temporary KTEXT mapping of the root
\* page, with the offset of the Xen direct mapping when the root lies at
\* or above XEN_DIRECTMAP, else the offset from phys_base
setup_xen_pgt(s) ==
    LET s1 == get_xen_pgt_root(s)
    IN IF s1.root.as # "KV" \/ (dump.pgdL4 = "text" /\ ~dump.physBase) THEN s1
       ELSE [set_ktext_offset(s1, "xen_tmp") EXCEPT !.kv = @ \cup {"ktext_root"}]

\* is_xen_ktext(): the address is mapped by a 2M page
is_xen_ktext(s, t) == WalkOK(s, t) /\ t = dump.xtext

\* Xen versions at or above 4.0, 4.3, 4.4 and 3.2
XenVer4_0 == {"x4_1", "x4_3", "x4_6"}
XenVer4_3 == {"x4_3", "x4_6"}
XenVer4_4 == {"x4_6"}
XenVer3_2 == {"x3_3"} \cup XenVer4_0

\* a layout choice without the BIGMEM probe, and one that keeps the 4.4
\* text base when no text base is found
XenLayout_nobigmem(s) ==
    LET i == SelectInSeq(XenTextLoc, LAMBDA t : is_xen_ktext(s, t))
    IN CASE is_directmap(s, "xen") ->
              [dm |-> "xen", text |-> IF i > 0 THEN XenTextLoc[i] ELSE "none"]
         [] dump.ver \in XenVer4_0 ->
              [dm |-> "xen", text |-> CASE dump.ver \in XenVer4_4 -> "4_4"
                                        [] dump.ver \in XenVer4_3 -> "4_3"
                                        [] OTHER -> "4_0"]
         [] dump.ver # "unset" ->
              [dm |-> "xen", text |-> IF dump.ver \in XenVer3_2 THEN "3_2" ELSE "none"]
         [] OTHER -> [dm |-> "none", text |-> "none"]

\* the layout map_xen_x86_64 chooses: found in the page tables, else from
\* the version, else none
XenLayout(s) ==
    LET i == SelectInSeq(XenTextLoc, LAMBDA t : is_xen_ktext(s, t))
    IN CASE is_directmap(s, "xen") ->
              [dm |-> "xen", text |-> IF i > 0 THEN XenTextLoc[i] ELSE "none"]
         [] is_directmap(s, "bigmem") -> [dm |-> "bigmem", text |-> "4_4"]
         [] dump.ver \in XenVer4_0 ->
              [dm |-> "xen", text |-> CASE dump.ver \in XenVer4_4 -> "4_4"
                                        [] dump.ver \in XenVer4_3 -> "4_3"
                                        [] OTHER -> "4_0"]
         [] dump.ver # "unset" ->
              [dm |-> "xen", text |-> IF dump.ver \in XenVer3_2 THEN "3_2" ELSE "none"]
         [] OTHER -> [dm |-> "none", text |-> "none"]

\* map_xen_x86_64(): the temporary root mapping, the layout, then the
\* KTEXT offset from the page tables (its failure cleared) and the PGT
\* fallback
map_xen_x86_64(s) ==
    LET s1 == setup_xen_pgt(s)
        l == XenLayout(s1)
        s2 == [s1 EXCEPT !.meth["DIRECT"] = "LINEAR", !.dm = l.dm, !.xtext = l.text]
        s3 == IF WalkOK(s2, l.text) THEN set_ktext_offset(s2, "calc") ELSE s2
    IN CASE l.dm = "none" -> s1
         [] l.text = "none" -> s2
         [] OTHER -> set_pgt_fallback(s3, "KTEXT")

\* get_virt_bits(): the option, cr4.LA57, pgtable_l5_enabled, _stext, and
\* a version below 4.13
VerBelow4_13 == {"2_4", "2_6_20", "4_4"}

get_virt_bits ==
    CASE dump.virtBits # 0 -> Res("OK", dump.virtBits)
      [] dump.cr4 # "NODATA" -> Res("OK", IF dump.cr4 = "la57" THEN 57 ELSE 48)
      [] dump.os = "XEN" -> Res("OK", 48)
      [] dump.os # "LINUX" -> Res("NOTIMPL", 0)
      [] dump.l5 # "NODATA" -> Res("OK", IF dump.l5 = "1" THEN 57 ELSE 48)
      [] dump.stext = "_stext" -> Res("OK", 48)
      [] dump.ver \in VerBelow4_13 -> Res("OK", 48)
      [] OTHER -> Res("NODATA", 0)

-----------------------------------------------------------------------------
(* The set-up sequence                                                    *)

Sys0 == [root |-> [as |-> "NOADDR", tbl |-> "none"], nfields |-> 5,
         pteMask |-> FALSE, meth |-> [m \in Meths |-> "NOMETH"], dm |-> "none",
         rdirect |-> "none", ktext |-> "none", kv |-> {}, xtext |-> "none"]

Init ==
    /\ dump \in Dumps
    /\ pc = "init"
    /\ status = "OK"
    /\ failed = "none"
    /\ sys = Sys0

\* return from sys_x86_64 with status st after step
Finish(st, step) ==
    /\ pc' = "done"
    /\ status' = st
    /\ failed' = IF st = "OK" THEN "none" ELSE step

Goto(next) == pc' = next /\ UNCHANGED <<status, failed>>

\* init_pgt_meth() that counts page-table levels instead of fields
init_pgt_meth_levels ==
    /\ pc = "init"
    /\ LET vb == get_virt_bits
           s1 == [sys EXCEPT !.meth["PGT"] = "PGT", !.pteMask = FALSE,
                  !.root = IF dump.rootpgt THEN [as |-> "MPA", tbl |-> "kernel"]
                           ELSE [as |-> "NOADDR", tbl |-> "none"]]
       IN \/ vb.st # "OK" /\ Finish(vb.st, "init") /\ sys' = s1
          \/ /\ vb.st = "OK" /\ vb.sys \in {48, 57}
             /\ sys' = [s1 EXCEPT !.nfields = IF vb.sys = 57 THEN 5 ELSE 4]
             /\ Goto("layout")
          \/ vb.st = "OK" /\ vb.sys \notin {48, 57} /\ Finish("INVALID", "init")
             /\ sys' = s1
    /\ UNCHANGED dump

\* init_pgt_meth(), with get_virt_bits()
init_pgt_meth ==
    /\ pc = "init"
    /\ LET vb == get_virt_bits
           s1 == [sys EXCEPT !.meth["PGT"] = "PGT", !.pteMask = FALSE,
                  !.root = IF dump.rootpgt THEN [as |-> "MPA", tbl |-> "kernel"]
                           ELSE [as |-> "NOADDR", tbl |-> "none"]]
       IN \/ vb.st # "OK" /\ Finish(vb.st, "init") /\ sys' = s1
          \/ /\ vb.st = "OK" /\ vb.sys \in {48, 57}
             /\ sys' = [s1 EXCEPT !.nfields = IF vb.sys = 57 THEN 6 ELSE 5]
             /\ Goto("layout")
          \/ vb.st = "OK" /\ vb.sys \notin {48, 57} /\ Finish("INVALID", "init")
             /\ sys' = s1
    /\ UNCHANGED dump

\* sys_x86_64() after init_pgt_meth(): the hardware layout, its copy as
\* KV_PHYS (which can fail to allocate), the physical maps, then the OS
sys_x86_64 ==
    /\ pc = "layout"
    /\ \/ Finish("NOMEM", "layout") /\ UNCHANGED sys
       \/ dump.os = "LINUX" /\ Goto("root") /\ UNCHANGED sys
       \/ dump.os = "XEN" /\ Finish("OK", "layout") /\ sys' = map_xen_x86_64(sys)
       \/ dump.os = "OTHER" /\ Finish("OK", "layout") /\ UNCHANGED sys
    /\ UNCHANGED dump

\* map_linux_x86_64(), step 1: the root page table
RootStep ==
    /\ pc = "root"
    /\ LET r == get_linux_pgt_root(sys)
       IN /\ sys' = r.sys
          /\ IF r.st = "OK" THEN Goto("sme") ELSE Finish(r.st, "root")
    /\ UNCHANGED dump

\* map_linux_x86_64(), step 2: sme_mask into the PTE mask
SmeStep ==
    /\ pc = "sme"
    /\ sys' = IF dump.smeNum = "OK" THEN [sys EXCEPT !.pteMask = TRUE] ELSE sys
    /\ Goto("xen")
    /\ UNCHANGED dump

\* map_linux_x86_64(), step 3: set_xen_p2m() and set_xen_mach2phys()
XenStep ==
    /\ pc = "xen"
    /\ sys' = IF dump.xenXlat
              THEN [sys EXCEPT !.meth["KPHYS_MACHPHYS"] = IF dump.p2m THEN "PGT" ELSE @,
                               !.meth["MACHPHYS_KPHYS"] = "MEMARR"]
              ELSE sys
    /\ Goto("rdirect")
    /\ UNCHANGED dump

\* map_linux_x86_64(), step 4: the reverse direct mapping when neither
\* physical address space can be read; its failures are not fatal
RdirectStep ==
    /\ pc = "rdirect"
    /\ sys' = IF dump.physCaps THEN sys ELSE linux_rdirect_map(sys).sys
    /\ Goto("ktext")
    /\ UNCHANGED dump

\* map_linux_x86_64(), step 5: linux_ktext_map() and the PGT fallback
KtextStep ==
    /\ pc = "ktext"
    /\ sys' = set_pgt_fallback(linux_ktext_map(sys).sys, "KTEXT")
    /\ Goto("directmap")
    /\ UNCHANGED dump

\* map_linux_x86_64(), step 6: linux_directmap(); NOTIMPL is not fatal
DirectmapStep ==
    /\ pc = "directmap"
    /\ LET r == linux_directmap(sys)
       IN /\ sys' = r.sys
          /\ Finish(IF r.st = "NOTIMPL" THEN "OK" ELSE r.st, "directmap")
    /\ UNCHANGED dump

Next ==
    \/ init_pgt_meth
    \/ sys_x86_64
    \/ RootStep
    \/ SmeStep
    \/ XenStep
    \/ RdirectStep
    \/ KtextStep
    \/ DirectmapStep

Spec == Init /\ [][Next]_vars

-----------------------------------------------------------------------------
(* Properties                                                             *)

Statuses == {"OK", "ERR", "NOMEM", "INVALID", "NOTIMPL", "NODATA", "NOMETH"}

TypeOK ==
    /\ pc \in {"init", "layout", "root", "sme", "xen", "rdirect", "ktext",
               "directmap", "done"}
    /\ status \in Statuses
    /\ sys.root \in [as : {"NOADDR", "KV", "MPA"}, tbl : {"none", "kernel", "user", "other"}]
    /\ sys.nfields \in {5, 6}
    /\ sys.meth \in [Meths -> Kinds]
    /\ sys.dm \in DirectmapBases \cup {"none"}
    /\ sys.rdirect \in DirectmapBases \cup {"none"}
    /\ sys.kv \subseteq {"ktext_root", "ktext"}
    /\ sys.xtext \in {"none", "4_4", "4_3", "4_0", "3_2", "4_0dev"}

\* A direct mapping that linux_directmap installs, found in the page tables
\* during the KPTI probe or at the end of map_linux_x86_64, or taken from
\* the version table, is where the kernel really maps physical memory.
DirectmapCorrect ==
    sys.meth["DIRECT"] = "LINEAR" => sys.dm = dump.dm

\* The reverse direct mapping that linux_rdirect_map leaves behind, from
\* page_offset_base or one of the fixed locations, uses the real base of
\* the direct mapping: physical reads through it read the right pages.
RdirectCorrect ==
    sys.meth["RDIRECT"] # "NOMETH" => sys.rdirect = dump.dm

\* After set-up the PGT root is a page table of the dump: when clearing the
\* cr3 bit 12 in get_linux_pgt_root finds no direct mapping, the bit is
\* set again.
RootIsATable ==
    pc = "done" /\ sys.root.as # "NOADDR" => sys.root.tbl \in {"kernel", "user"}

\* The dump's kernel page table can be walked: physical memory is readable,
\* PTEs can be decoded, the paging mode is known, and the root comes from
\* a cr3 that holds the KPTI user half.
KernelTableUsable ==
    /\ dump.physCaps
    /\ ~dump.sme \/ dump.smeNum = "OK"
    /\ dump.cr3 = "user"
    /\ ~dump.rootpgt /\ dump.topPgt = "NODATA" /\ dump.l4Pgt = "NODATA"

\* The KTEXT method that map_xen_x86_64 leaves for the Xen text region
\* translates text with an offset computed for text: from the page
\* tables, or the temporary offset when it came from phys_base.
KtextCorrect ==
    sys.xtext # "none" /\ sys.meth["KTEXT"] = "LINEAR" =>
        \/ sys.ktext = "calc"
        \/ sys.ktext = "xen_tmp" /\ dump.pgdL4 = "text"

\* Spec 4.C step 2: with the KPTI bit set in cr3, get_linux_pgt_root
\* probes the direct mapping through the user table and on failure falls
\* back to the kernel table; a usable kernel table ends up as the root.
KptiKernelRoot ==
    pc = "done" /\ status = "OK" /\ KernelTableUsable => sys.root.tbl = "kernel"

\* Spec 4.C step 7: when the direct mapping is neither found nor known
\* from a version below 4.8, map_linux_x86_64 leaves it undefined; not
\* finding it never makes sys_x86_64 fail.
DirectmapOptional ==
    failed # "directmap"

\* Spec 4.C steps 2 and 7 together: each of map_linux_x86_64's probes that
\* may fail has its fallback, so a KPTI dump ends with the kernel table as
\* the root and a dump without a known direct mapping is still set up.
LinuxFallbacks == KptiKernelRoot /\ DirectmapOptional

\* Spec 4.C as a whole: every probe of sys_x86_64 that may fail, in
\* map_linux_x86_64 and in map_xen_x86_64, has a fallback that still gives
\* the right layout, so the Linux fallbacks hold and the Xen text region is
\* translated with an offset computed for it.
ProbeFallbacks == LinuxFallbacks /\ KtextCorrect

====
