------------------------------ MODULE PfnMap ------------------------------
(***************************************************************************)
(* The PFN-to-file region map of libkdumpfile (src/kdumpfile/pfn.c).      *)
(*                                                                         *)
(* A pfn_file_map holds an array of regions (pfn, cnt) grown by           *)
(* add_pfn_region in steps of RGN_ALLOC_INC, searched by find_pfn_region, *)
(* and the format readers sort arrays of maps with sort_pfn_file_maps.    *)
(* The readers that call these functions are not in this source tree, so *)
(* a region may be added in any order: the model lets the caller add any *)
(* region and states find_pfn_region's contract for sorted maps.         *)
(***************************************************************************)
EXTENDS Naturals, Sequences, SequencesExt, Functions

CONSTANTS
    Pfns,           \* page frame numbers of regions and lookups
    MaxCnt,         \* largest region length
    RGN_ALLOC_INC,  \* allocation increment (1024 in the code, scaled)
    MaxRegions,     \* bound on the regions added
    EndPfns,        \* end_pfn values of the maps sorted by sort_pfn_file_maps
    NMaps           \* number of maps in that array

VARIABLES
    regions,    \* map->regions[0 .. nregions - 1]
    alloc,      \* number of regions the realloc'ed array holds
    status,     \* result of the last add_pfn_region: "ok" or "nomem"
    maps        \* end_pfn of each map of an array passed to the sort

vars == <<regions, alloc, status, maps>>

Region == [pfn : Pfns, cnt : 0..MaxCnt]

\* add_pfn_region(): grow the array when nregions is a multiple of the
\* increment, then append; a failed realloc leaves the map unchanged.
GrowsAt_one(n) == n % RGN_ALLOC_INC = 1
GrowsAt(n) == n % RGN_ALLOC_INC = 0

NewAlloc_short(n) == n + RGN_ALLOC_INC - 1
\* num = map->nregions + RGN_ALLOC_INC
NewAlloc(n) == n + RGN_ALLOC_INC

add_pfn_region(rgn) ==
    /\ Len(regions) < MaxRegions
    /\ \/ /\ GrowsAt(Len(regions))
          /\ alloc' = NewAlloc(Len(regions))
          /\ regions' = Append(regions, rgn)
          /\ status' = "ok"
       \/ /\ GrowsAt(Len(regions))
          /\ status' = "nomem"
          /\ UNCHANGED <<regions, alloc>>
       \/ /\ ~GrowsAt(Len(regions))
          /\ regions' = Append(regions, rgn)
          /\ status' = "ok"
          /\ UNCHANGED alloc
    /\ UNCHANGED maps

\* find_pfn_region(): binary search over [left, right) of 0-based
\* indices; the result is a 1-based index, 0 for NULL.
RECURSIVE Search(_, _, _, _)
SearchInclusive(rs, pfn, left, right) ==
    IF left = right
    THEN IF right < Len(rs) THEN right + 1 ELSE 0
    ELSE LET mid == (left + right) \div 2
             rgn == rs[mid + 1]
         IN IF pfn < rgn.pfn THEN Search(rs, pfn, left, mid)
            ELSE IF pfn > rgn.pfn + rgn.cnt THEN Search(rs, pfn, mid + 1, right)
            ELSE mid + 1
Search(rs, pfn, left, right) ==
    IF left = right
    THEN IF right < Len(rs) THEN right + 1 ELSE 0
    ELSE LET mid == (left + right) \div 2
             rgn == rs[mid + 1]
         IN IF pfn < rgn.pfn THEN Search(rs, pfn, left, mid)
            ELSE IF pfn >= rgn.pfn + rgn.cnt THEN Search(rs, pfn, mid + 1, right)
            ELSE mid + 1

find_pfn_region(pfn) == Search(regions, pfn, 0, Len(regions))

\* map_cmp(): compare two maps by end_pfn
map_cmp(a, b) == IF a # b THEN (IF a > b THEN 1 ELSE -1) ELSE 0

\* sort_pfn_file_maps(): qsort is not stable, so maps with equal end_pfn
\* may come out in any order.
sort_pfn_file_maps ==
    /\ maps' \in { [i \in 1..NMaps |-> maps[f[i]]] :
                     f \in Bijection(1..NMaps, 1..NMaps) }
    /\ IsSorted(maps', LAMBDA a, b : map_cmp(a, b) <= 0)
    /\ UNCHANGED <<regions, alloc, status>>

Init ==
    /\ regions = <<>>
    /\ alloc = 0
    /\ status = "ok"
    /\ maps \in [1..NMaps -> EndPfns]

Next ==
    \/ \E rgn \in Region : add_pfn_region(rgn)
    \/ sort_pfn_file_maps

Spec == Init /\ [][Next]_vars

-----------------------------------------------------------------------------
TypeOK ==
    /\ regions \in Seq(Region)
    /\ alloc \in {k * RGN_ALLOC_INC : k \in 0..MaxRegions}
    /\ status \in {"ok", "nomem"}
    /\ maps \in [1..NMaps -> EndPfns]

\* Regions in increasing order of PFN and disjoint: what find_pfn_region
\* assumes of the readers that fill the map.
SortedDisjoint ==
    \A i \in 1..Len(regions) - 1 :
        regions[i].pfn + regions[i].cnt <= regions[i + 1].pfn

\* Reference: the first region that contains pfn or lies above it.
FirstNotBelow(pfn) == SelectInSeq(regions, LAMBDA r : pfn < r.pfn + r.cnt)

\* add_pfn_region never stores a region past the end of the array it has
\* allocated, whatever sequence of adds and failed reallocs came before.
WithinAlloc == Len(regions) <= alloc

\* find_pfn_region on a sorted map returns the region containing pfn, or
\* the closest one above it, or NULL, as its comment promises.
FindCorrect ==
    SortedDisjoint => \A p \in Pfns : find_pfn_region(p) = FirstNotBelow(p)
====
