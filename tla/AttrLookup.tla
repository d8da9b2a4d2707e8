------------------------------ MODULE AttrLookup ------------------------------
(***************************************************************************)
(* Name resolution in attribute dictionaries (attr.c): the hash table of   *)
(* attributes keyed by their path, keycmp, path_hash and attr_hash_index,  *)
(* lookup_dir_attr with and without the fallback dictionary,               *)
(* lookup_attr, and the calls that add attributes by name: new_attr,       *)
(* alloc_attr, alloc_attr_template and create_attr_path, in the            *)
(* dictionary of a context (attr_dict_new) and in a clone of it            *)
(* (attr_dict_clone, attr_dict_free).  Values, flags and hooks are left    *)
(* out (AttrDict); an attribute is its dictionary, parent and template.    *)
(*                                                                         *)
(* Memory is a finite set of Slots.  A template is identified as the C     *)
(* code compares it, by pointer: a global template by its index in         *)
(* global_keys[], a template alloc_attr_template makes by the slot of the  *)
(* attribute it was made for.  A path is the sequence of its keys, so the  *)
(* '.' separators and strncmp over partial keys become sequence            *)
(* operations; fold_hash(phash(...)) is the constant Hash over paths.      *)
(***************************************************************************)
EXTENDS Naturals, Sequences, SequencesExt

CONSTANTS
    Names,       \* template keys of path components
    GlobalKeys,  \* global_keys[]: <<[key, parent, type]>>, parent an index
    Slots,       \* heap cells for struct attr_data: 1..N
    Buckets,     \* the ATTR_HASH_BITS-wide hash table indices
    Hash(_),     \* fold_hash of the phash of a path
    Orig,        \* the dictionary of the context
    Clone,       \* a clone of it, whose fallback is Orig
    NoKey,       \* the empty key of the root directory template
    None,        \* NULL
    Free         \* a slot no attribute occupies

Dicts == {Orig, Clone}
Types == {"directory", "number"}
Template ==
    [id : ({"g"} \X DOMAIN GlobalKeys) \cup ({"dyn"} \X (Slots \cup {None})),
     key : Names \cup {NoKey}, type : Types]
AttrRec == [dict : Dicts, parent : Slots \cup {None}, tmpl : Template,
            dyn : BOOLEAN]
ASSUME /\ Slots \subseteq Nat
       /\ GlobalKeys[1].parent = 0 /\ GlobalKeys[1].key = NoKey
       /\ \A i \in 2..Len(GlobalKeys) : GlobalKeys[i].parent \in 1..(i - 1)

VARIABLES
    at,     \* struct attr_data of every slot, or Free
    dirl,   \* the dir/next list of each directory, head first
    tbl,    \* each dictionary's hash table: bucket -> hlist, head first
    live,   \* the dictionaries that exist
    root,   \* global_attrs[GKI_dir_root] of each dictionary
    call    \* the last create_attr_path: arguments and returned attribute

vars == <<at, dirl, tbl, live, root, call>>

(* The heap as the operators below update it. *)
Heap == [at |-> at, dirl |-> dirl, tbl |-> tbl]

GlobalTmpl(i) ==
    [id |-> <<"g", i>>, key |-> GlobalKeys[i].key, type |-> GlobalKeys[i].type]

(* The keys above an attribute: what path_hash feeds for a directory (with *)
(* the dots it adds) and attr_hash_index for an attribute.                  *)
RECURSIVE PathOf(_, _)
PathOf(h, s) ==
    IF h.at[s].parent = None THEN <<>>
    ELSE PathOf(h, h.at[s].parent) \o <<h.at[s].tmpl.key>>

(* attr_hash_index() *)
AttrHashIndex(h, s) == Hash(PathOf(h, s))

(* keycmp(): match the components of key from the right against the       *)
(* templates of attr and its parents, then compare the template reached    *)
(* with dir's template.  The key is never empty.                            *)
\* Seeded fault: keycmp returns a match once the key is used up, without
\* comparing the template reached with dir's
RECURSIVE KeyCmp_nodir(_, _, _, _)
KeyCmp_nodir(h, s, dir, k) ==
    IF k = <<>> THEN TRUE
    ELSE /\ h.at[s].tmpl.key = Last(k)
         /\ h.at[s].parent # None
         /\ KeyCmp_nodir(h, h.at[s].parent, dir, Front(k))

RECURSIVE KeyCmp(_, _, _, _)
KeyCmp(h, s, dir, k) ==
    IF k = <<>> THEN h.at[s].tmpl = h.at[dir].tmpl
    ELSE /\ h.at[s].tmpl.key = Last(k)
         /\ h.at[s].parent # None
         /\ KeyCmp(h, h.at[s].parent, dir, Front(k))

(* The hlist walk of lookup_dir_attr over the dictionaries of chain, in    *)
(* bucket Hash(path_hash(dir) + key).                                       *)
RECURSIVE LookupChain(_, _, _, _, _)
LookupChain(h, chain, dir, k, b) ==
    IF chain = <<>> THEN None
    ELSE LET m == SelectSeq(h.tbl[Head(chain)][b],
                            LAMBDA x : KeyCmp(h, x, dir, k))
         IN IF m # <<>> THEN Head(m) ELSE LookupChain(h, Tail(chain), dir, k, b)

Fallback(d) == IF d = Clone THEN <<Clone, Orig>> ELSE <<Orig>>

(* lookup_dir_attr_no_fallback() *)
LookupDirAttrNoFallback(h, d, dir, k) ==
    LookupChain(h, <<d>>, dir, k, Hash(PathOf(h, dir) \o k))

(* lookup_dir_attr(): a key with a leading dot (dot) skips the fallback.   *)
LookupDirAttr(h, d, dir, k, dot) ==
    IF dot THEN LookupDirAttrNoFallback(h, d, dir, k)
    ELSE LookupChain(h, Fallback(d), dir, k, Hash(PathOf(h, dir) \o k))

(* lookup_attr() and lookup_attr_part(): under the root of d *)
LookupAttr(h, d, k, dot) == LookupDirAttr(h, d, root[d], k, dot)

FreeSlot(h) ==
    LET fs == {s \in Slots : h.at[s] = Free}
    IN IF fs = {} THEN None ELSE CHOOSE s \in fs : \A x \in fs : s <= x

(* alloc_attr() into slot s: hashed into d's table at the head of its     *)
(* bucket.                                                                  *)
AllocAttr(h, d, parent, t, s) ==
    LET h1 == [h EXCEPT !.at[s] = [dict |-> d, parent |-> parent, tmpl |-> t,
                                   dyn |-> FALSE]]
        b == AttrHashIndex(h1, s)
    IN [h1 EXCEPT !.tbl[d][b] = <<s>> \o @]

(* new_attr(): reuse the attribute of the same path in d (its value is     *)
(* discarded and its template replaced), or allocate slot s (None: calloc  *)
(* fails) and link it at the head of parent's dir list.                    *)
NewAttr(h, d, parent, t, s) ==
    LET old == IF parent = None THEN None
               ELSE LookupDirAttrNoFallback(h, d, parent, <<t.key>>)
    IN CASE old # None -> [h |-> [h EXCEPT !.at[old].tmpl = t], ret |-> old]
         [] s = None -> [h |-> h, ret |-> None]
         [] OTHER ->
              LET h1 == AllocAttr(h, d, parent, t, s)
              IN [h |-> IF parent = None THEN h1
                        ELSE [h1 EXCEPT !.dirl[parent] = <<s>> \o @],
                  ret |-> s]

(* alloc_attr_template(): a copy of a template with key k *)
AllocAttrTemplate(type, k, s) == [id |-> <<"dyn", s>>, key |-> k, type |-> type]

(* The second loop of create_attr_path: create components j.. of k under   *)
(* attr, each with a template of its own (a directory, the last one of     *)
(* type atype) and dyntmpl set.  oom = j: its template or attribute        *)
(* allocation fails, and NULL is returned with the components before it   *)
(* left in place.                                                          *)
RECURSIVE CreateFrom(_, _, _, _, _, _, _)
CreateFrom(h, d, attr, k, j, atype, oom) ==
    IF j > Len(k) THEN [h |-> h, ret |-> attr]
    ELSE
      LET s == FreeSlot(h)
          t == AllocAttrTemplate(IF j < Len(k) THEN "directory" ELSE atype,
                                 k[j], s)
          r == NewAttr(h, d, attr, t, s)
      IN IF oom = j \/ r.ret = None THEN [h |-> h, ret |-> None]
         ELSE CreateFrom([r.h EXCEPT !.at[r.ret].dyn = TRUE], d, r.ret, k,
                         j + 1, atype, oom)

\* Seeded fault: the first loop of create_attr_path probes with
\* lookup_dir_attr_no_fallback
FoundPrefix_nofallback(h, d, dir, k) ==
    LET found == {i \in 1..Len(k) :
                    LookupDirAttr(h, d, dir, SubSeq(k, 1, i), TRUE) # None}
        i == IF found = {} THEN 0 ELSE CHOOSE i \in found : \A x \in found : x <= i
    IN [len |-> i,
        attr |-> IF i = 0 THEN dir ELSE LookupDirAttr(h, d, dir, SubSeq(k, 1, i), TRUE)]

(* The first loop of create_attr_path: the longest prefix of k that       *)
(* lookup_dir_attr finds under dir, with the fallback, and the attribute   *)
(* found (dir for none).                                                   *)
FoundPrefix(h, d, dir, k) ==
    LET found == {i \in 1..Len(k) :
                    LookupDirAttr(h, d, dir, SubSeq(k, 1, i), FALSE) # None}
        i == IF found = {} THEN 0 ELSE CHOOSE i \in found : \A x \in found : x <= i
    IN [len |-> i,
        attr |-> IF i = 0 THEN dir ELSE LookupDirAttr(h, d, dir, SubSeq(k, 1, i), FALSE)]

(* create_attr_path() *)
CreateAttrPath(h, d, dir, k, atype, oom) ==
    LET p == FoundPrefix(h, d, dir, k)
    IN CreateFrom(h, d, p.attr, k, p.len + 1, atype, oom)

CONSTANTS
    Keys,        \* the paths create_attr_path and the lookups are given
    NoCall,      \* call before the first create_attr_path
    Dup          \* two attributes of one path

EmptyTable == [b \in Buckets |-> <<>>]

(* attr_dict_new(): new_attr for every global key in order, under the     *)
(* attribute made for its parent_key; g maps global indices to slots.      *)
RECURSIVE DictNew(_, _, _)
DictNew(h, i, g) ==
    IF i > Len(GlobalKeys) THEN [h |-> h, g |-> g]
    ELSE LET pk == GlobalKeys[i].parent
             r == NewAttr(h, Orig, IF pk = 0 THEN None ELSE g[pk],
                          GlobalTmpl(i), FreeSlot(h))
         IN DictNew(r.h, i + 1, g \o <<r.ret>>)

Init ==
    LET h0 == [at |-> [s \in Slots |-> Free], dirl |-> [s \in Slots |-> <<>>],
               tbl |-> [d \in Dicts |-> EmptyTable]]
        r == DictNew(h0, 1, <<>>)
    IN /\ at = r.h.at
       /\ dirl = r.h.dirl
       /\ tbl = r.h.tbl
       /\ live = {Orig}
       /\ root = [d \in Dicts |-> IF d = Orig THEN r.g[1] ELSE None]
       /\ call = NoCall

Install(h) == at' = h.at /\ dirl' = h.dirl /\ tbl' = h.tbl

(* create_attr_path(dict, dir, path, pathlen, atmpl) for a path under the *)
(* root of a dictionary, with a number template.                           *)
create_attr_path(d, k, oom) ==
    /\ d \in live
    /\ \E r \in {CreateAttrPath(Heap, d, root[d], k, "number", oom)} :
          /\ Install(r.h)
          /\ call' = [d |-> d, dir |-> root[d], key |-> k, ret |-> r.ret]
    /\ UNCHANGED <<live, root>>

\* Seeded fault: attr_dict_clone without the NULL check of new_attr's
\* result for the root
attr_dict_clone_noroot ==
    /\ Clone \notin live
    /\ LET r == NewAttr([Heap EXCEPT !.tbl[Clone] = EmptyTable], Clone, None,
                        GlobalTmpl(1), FreeSlot(Heap))
       IN /\ Install(r.h)
          /\ root' = [root EXCEPT ![Clone] = r.ret]
    /\ live' = live \cup {Clone}
    /\ UNCHANGED call

(* attr_dict_clone(): a new dictionary with an empty hash table, a new     *)
(* root of the root template, and Orig as its fallback.  A failed calloc   *)
(* returns NULL and changes nothing.                                       *)
attr_dict_clone ==
    /\ Clone \notin live
    /\ FreeSlot(Heap) # None
    /\ LET r == NewAttr([Heap EXCEPT !.tbl[Clone] = EmptyTable], Clone, None,
                        GlobalTmpl(1), FreeSlot(Heap))
       IN /\ Install(r.h)
          /\ root' = [root EXCEPT ![Clone] = r.ret]
    /\ live' = live \cup {Clone}
    /\ UNCHANGED call

(* dealloc_attr(): the children of a directory first, then hlist_del from *)
(* the table the attribute is hashed in, and free.                         *)
RECURSIVE DeallocAttr(_, _)
DeallocAttr(h, s) ==
    LET h1 == IF h.at[s].tmpl.type = "directory"
              THEN FoldLeft(DeallocAttr, h, h.dirl[s]) ELSE h
        d == h1.at[s].dict
        b == AttrHashIndex(h1, s)
    IN [h1 EXCEPT !.tbl[d][b] = SelectSeq(@, LAMBDA x : x # s),
                  !.at[s] = Free, !.dirl[s] = <<>>]

(* attr_dict_free() of the clone when its last reference is dropped: the  *)
(* tree under its root is freed, then the dictionary with its table.       *)
attr_dict_free ==
    /\ Clone \in live
    /\ LET h == DeallocAttr(Heap, root[Clone])
       IN Install([h EXCEPT !.tbl[Clone] = EmptyTable])
    /\ live' = live \ {Clone}
    /\ root' = [root EXCEPT ![Clone] = None]
    /\ UNCHANGED call

Next ==
    \/ \E d \in Dicts, k \in Keys : \E oom \in 0..Len(k) : create_attr_path(d, k, oom)
    \/ attr_dict_clone
    \/ attr_dict_free

Spec == Init /\ [][Next]_vars

-----------------------------------------------------------------------------

TypeOK ==
    /\ at \in [Slots -> AttrRec \cup {Free}]
    /\ dirl \in [Slots -> Seq(Slots)]
    /\ tbl \in [Dicts -> [Buckets -> Seq(Slots)]]
    /\ live \subseteq Dicts /\ Orig \in live
    /\ \A d \in live : root[d] \in Slots
    /\ root \in [Dicts -> Slots \cup {None}]
    /\ call \in {NoCall} \cup [d : Dicts, dir : Slots, key : Keys,
                               ret : Slots \cup {None}]

(* The attributes hashed in the table of d. *)
InTable(d) == {s \in Slots : \E b \in Buckets : s \in Range(tbl[d][b])}

(* The reference: the attribute of d's table whose path is k (spec 3, the  *)
(* hash table is keyed by the full dotted path), Dup if there are two.   *)
ByPath(d, k) ==
    LET m == {s \in InTable(d) : PathOf(Heap, s) = k}
    IN IF m = {} THEN None ELSE IF \E x, y \in m : x # y THEN Dup
       ELSE CHOOSE s \in m : TRUE

(* Spec 4.A Lookup: whatever attributes create_attr_path has added to the *)
(* context's dictionary and to a clone, and whatever buckets their paths  *)
(* hash to, lookup_attr of a key finds the attribute with that path in    *)
(* the dictionary; without a leading dot it falls back to the original    *)
(* only when the clone has none (keycmp, path_hash, attr_hash_index).      *)
LookupByPath ==
    \A d \in live, k \in Keys :
        /\ LookupAttr(Heap, d, k, TRUE) = ByPath(d, k)
        /\ LookupAttr(Heap, d, k, FALSE) =
              IF ByPath(d, k) = None /\ d = Clone THEN ByPath(Orig, k)
              ELSE ByPath(d, k)

(* create_attr_path returns the attribute that a lookup of the path then  *)
(* finds, and when the path was already there, in the dictionary or in    *)
(* its fallback, the attribute that was there: it never makes a second    *)
(* attribute of a path (the backward probe before the forward creation).   *)
CreateFindsOrMakes ==
    [][call' # call /\ call' # NoCall /\ call'.ret # None =>
         LET c == call'
             before == LookupDirAttr(Heap, c.d, c.dir, c.key, FALSE)
         IN /\ LookupDirAttr(Heap', c.d, c.dir, c.key, FALSE) = c.ret
            /\ before # None => c.ret = before]_vars

(* The attributes dealloc_attr and clear_attr reach from s: the dir lists *)
(* of directories, recursively.                                            *)
RECURSIVE Reach(_)
Reach(s) ==
    {s} \cup IF at[s].tmpl.type # "directory" THEN {}
             ELSE UNION {Reach(c) : c \in Range(dirl[s])}

(* Spec 3 and 4.A: the root of a dictionary owns exactly the attributes   *)
(* of its hash table, only a directory has children, and a lookup under   *)
(* a directory of the dictionary finds what the lookup of the full path   *)
(* finds.  create_attr_path on a clone, under a prefix that exists only   *)
(* in the fallback or that is not a directory, and the template pointers  *)
(* keycmp compares across dictionaries, are what this is about.           *)
DictStructure ==
    \A d \in live :
        /\ Reach(root[d]) = InTable(d)
        /\ \A s \in InTable(d) :
              at[s].parent # None => at[at[s].parent].tmpl.type = "directory"
        /\ \A dir \in InTable(d), k \in Keys :
              at[dir].tmpl.type = "directory" =>
                 LookupDirAttr(Heap, d, dir, k, FALSE) =
                    LookupAttr(Heap, d, PathOf(Heap, dir) \o k, FALSE)

====
