------------------------------ MODULE AttrDict ------------------------------
(***************************************************************************)
(* The attribute dictionary of libkdumpfile (src/kdumpfile/attr.c): a     *)
(* fixed tree of attributes, each with the flags isset, persist, dynstr   *)
(* and indirect, a value stored inline or (for the static attributes) in  *)
(* a field of the shared dump-file data, and the heap objects the values  *)
(* own: strdup'ed strings and reference-counted blobs.                    *)
(*                                                                         *)
(* Every API call runs under the shared rwlock, so a call is one atomic   *)
(* step; the interleaving of threads is the interleaving of these steps.  *)
(***************************************************************************)
EXTENDS Naturals, FiniteSets

CONSTANTS
    Attrs,          \* the attributes of one dictionary
    Root,           \* GKI_dir_root
    Parent,         \* Parent[a]: the parent directory, NoParent for Root
    NoParent,
    AType,          \* AType[a] \in {"directory", "number", "string", "blob"}
    StaticAttrs,    \* GKI_static_first..GKI_static_last: indirect numbers
    PreSetAttrs,    \* attributes whose template has a pre_set hook
    PostSetAttrs,   \* attributes whose template has a post_set hook that may fail
    ApiKeys,        \* attributes a user reaches through kdump_set_attr
    Nums,           \* number/address values
    StrIds,         \* heap addresses available to strdup
    StaticStr,      \* one string with static storage
    BlobIds,        \* heap addresses available to internal_blob_new
    NoVal           \* contents of a never-written value slot

ASSUME Root \in Attrs /\ Parent[Root] = NoParent
ASSUME StaticAttrs \subseteq {a \in Attrs : AType[a] = "number"}

VARIABLES
    isset, persist, dynstr, indirect,  \* struct attr_flags of every attribute
    inl,        \* attr->val: the inline value
    slot,       \* the fields of struct kdump_shared pointed to by attr->pval
    strLive,    \* strings allocated and not yet freed
    blobRef,    \* reference count of every blob (0: freed or never made)
    crashed     \* a NULL pointer was dereferenced

vars == <<isset, persist, dynstr, indirect, inl, slot, strLive, blobRef, crashed>>

Dirs == {a \in Attrs : AType[a] = "directory"}
Children(d) == {a \in Attrs : Parent[a] = d}

RECURSIVE AncestorsOf(_)
AncestorsOf(a) ==
    IF Parent[a] = NoParent THEN {}
    ELSE {Parent[a]} \cup AncestorsOf(Parent[a])

\* Precomputed: the tree is constant.
Anc == [a \in Attrs |-> AncestorsOf(a)]
SubtreeOf == [a \in Attrs |-> {a} \cup {d \in Attrs : a \in Anc[d]}]
Subtree(a) == SubtreeOf[a]

StrVals == StrIds \cup {StaticStr}
Values == Nums \cup StrVals \cup BlobIds
ValuesOf(t) == CASE t = "number" -> Nums
                 [] t = "string" -> StrVals
                 [] t = "blob"   -> BlobIds
                 [] OTHER        -> {}

\* attr_value(): the value an attribute reads, inline or through pval
Value(a) == IF indirect[a] THEN slot[a] ELSE inl[a]

\* The flags passed by callers: ATTR_DEFAULT and ATTR_PERSIST, with
\* dynstr set by set_attr_string; flags.indirect is never passed set.
Flags(p, d) == [persist |-> p, dynstr |-> d]

-----------------------------------------------------------------------------
(* Value ownership: discard_value() frees an owned string or drops a blob   *)
(* reference. The heap effect of discarding a set of values is computed    *)
(* at once so that clear_attr of a directory is one step.                  *)

\* Strings owned by the set attributes of S (discard_attr_value)
OwnedStrs(S) == {Value(a) : a \in {x \in S : isset[x] /\ AType[x] = "string"
                                              /\ dynstr[x]}}
\* Number of references the set attributes of S hold on blob b
BlobHolders(S, b) == Cardinality({a \in S : isset[a] /\ AType[a] = "blob"
                                            /\ Value(a) = b})

\* discard_attr_value() applied to every attribute of S, starting from the
\* heap sl, br (the heap after the caller's own allocation)
DiscardAll(S, sl, br) ==
    /\ strLive' = sl \ OwnedStrs(S)
    /\ blobRef' = [b \in BlobIds |-> br[b] - BlobHolders(S, b)]

\* Seeded fault: the rejected value is not discarded.
DiscardNew_leak(t, v, f, sl, br) == strLive' = sl /\ blobRef' = br

\* discard_value() of a value that never reached an attribute
DiscardNew(t, v, f, sl, br) ==
    /\ strLive' = IF t = "string" /\ f.dynstr THEN sl \ {v} ELSE sl
    /\ blobRef' = IF t = "blob" THEN [br EXCEPT ![v] = @ - 1] ELSE br

\* The outcomes of the post_set hook: TRUE when it fails.
PostSetFails(a, skip) == IF ~skip /\ a \in PostSetAttrs THEN BOOLEAN ELSE {FALSE}

-----------------------------------------------------------------------------
(* attr_has_value(): TRUE when the attribute is set and already has v.     *)
(* Strings compare by content; contents are not modelled, so two distinct  *)
(* string objects compare unequal, and a hook may then run where the code *)
(* would skip it; a pre_set hook may always accept, so this only adds      *)
(* behaviours.                                                              *)
attr_has_value(a, v) ==
    /\ isset[a]
    /\ AType[a] = "directory" \/ Value(a) = v

\* Seeded fault: the loop of instantiate_path as an "if", so only the
\* parent is marked.
instantiate_path_once(a) == [isset EXCEPT ![Parent[a]] = TRUE]

\* instantiate_path(attr->parent): mark the parent and its unset ancestors
\* set, stopping at the first ancestor already set.
instantiate_path(a) ==
    LET chain == Anc[a]
        upto == {x \in chain :
                    \A y \in chain : x \in {y} \cup Anc[y] => ~isset[y]}
    IN [x \in Attrs |-> x \in upto \/ isset[x]]

\* Store a non-directory value: through pval when the attribute is
\* indirect (the flag is then kept), inline otherwise.
store_value(a, v) ==
    /\ IF indirect[a]
          THEN slot' = [slot EXCEPT ![a] = v] /\ UNCHANGED inl
          ELSE inl' = [inl EXCEPT ![a] = v] /\ UNCHANGED slot
    /\ indirect' = indirect

(* set_attr(): the pre_set hook may reject the value (the value is then    *)
(* discarded, the attribute left alone); otherwise the path is            *)
(* instantiated, the old value discarded, the new one stored through pval *)
(* if the attribute is indirect, and attr->flags replaced by the caller's  *)
(* flags. A failing post_set hook leaves everything installed. Hooks are  *)
(* skipped when the attribute already has the value. brErr is the blob    *)
(* heap as the caller leaves it when set_attr returns an error (its own   *)
(* clean-up applied); br when the caller does nothing on error.            *)
set_attr(a, v, f, sl, br, brErr) ==
    LET skip == attr_has_value(a, v)
        t == AType[a]
    IN
    \/ /\ ~skip /\ a \in PreSetAttrs               \* pre_set rejects
       /\ DiscardNew(t, v, f, sl, brErr)
       /\ UNCHANGED <<isset, persist, dynstr, indirect, inl, slot, crashed>>
    \/ /\ Parent[a] = NoParent                     \* instantiate_path(NULL)
       /\ crashed' = TRUE
       /\ strLive' = sl /\ blobRef' = br
       /\ UNCHANGED <<isset, persist, dynstr, indirect, inl, slot>>
    \/ /\ Parent[a] # NoParent
       /\ isset' = [instantiate_path(a) EXCEPT ![a] = TRUE]
       /\ persist' = [persist EXCEPT ![a] = f.persist]
       /\ dynstr' = [dynstr EXCEPT ![a] = f.dynstr]
       /\ IF t = "directory"
             THEN /\ strLive' = sl /\ blobRef' = br
                  /\ UNCHANGED <<inl, slot, indirect>>
             ELSE /\ \E err \in PostSetFails(a, skip) :
                       DiscardAll({a}, sl, IF err THEN brErr ELSE br)
                  /\ store_value(a, v)
       /\ UNCHANGED crashed

\* clear_attr(): discard the values of the attribute and of all its
\* descendants and unset them; the persist and indirect flags stay.
clear_attr(a) ==
    LET S == Subtree(a) IN
    /\ DiscardAll(S, strLive, blobRef)
    /\ isset' = [x \in Attrs |-> IF x \in S THEN FALSE ELSE isset[x]]
    /\ dynstr' = [x \in Attrs |-> IF x \in S THEN FALSE ELSE dynstr[x]]
    /\ UNCHANGED <<persist, indirect, inl, slot, crashed>>

\* clear_volatile(): an attribute is kept when it, or any descendant, has
\* the persist flag; every other attribute is cleared.
Kept == {a \in Attrs : \E d \in Subtree(a) : persist[d]}

clear_volatile ==
    LET S == Attrs \ Kept IN
    /\ DiscardAll(S, strLive, blobRef)
    /\ isset' = [x \in Attrs |-> IF x \in S THEN FALSE ELSE isset[x]]
    /\ dynstr' = [x \in Attrs |-> IF x \in S THEN FALSE ELSE dynstr[x]]
    /\ UNCHANGED <<persist, indirect, inl, slot, crashed>>

-----------------------------------------------------------------------------
(* Callers.                                                                *)

\* Internal setters: set_attr_number/_address, set_attr_static_string
\* with ATTR_DEFAULT.
SetPlain(a, v) ==
    /\ AType[a] \in {"number", "string"}
    /\ v \in ValuesOf(AType[a]) \ StrIds
    /\ set_attr(a, v, Flags(FALSE, FALSE), strLive, blobRef, blobRef)

\* set_attr_string(): strdup the value, then set_attr with dynstr; a
\* failed strdup returns KDUMP_ERR_SYSTEM and changes nothing.
set_attr_string(a, p) ==
    /\ AType[a] = "string"
    /\ \E s \in StrIds \ strLive :
         set_attr(a, s, Flags(p, TRUE), strLive \cup {s}, blobRef, blobRef)

(* process_task_struct() (notes.c) on linux.task_struct:                   *)
(* internal_blob_new_dup makes a blob with one reference, which set_attr  *)
(* takes over with ATTR_DEFAULT; when set_attr returns an error the       *)
(* caller drops that reference with internal_blob_decref, whether         *)
(* set_attr had already discarded the blob (pre_set rejected it) or       *)
(* stored it (post_set failed).                                           *)
SetNewBlob(a) ==
    /\ AType[a] = "blob"
    /\ \E b \in BlobIds :
         /\ blobRef[b] = 0
         /\ set_attr(a, b, Flags(FALSE, FALSE), strLive,
                     [blobRef EXCEPT ![b] = 1], [blobRef EXCEPT ![b] = 0])

\* Seeded fault: the type check dropped, so a value of another type is
\* stored as given.
check_set_attr_notype(a) ==
    \/ clear_attr(a)
    \/ /\ AType[a] = "string"
       /\ set_attr_string(a, TRUE)
    \/ /\ AType[a] = "blob"
       /\ \E b \in BlobIds :
            LET br == [blobRef EXCEPT ![b] = @ + 1] IN
            set_attr(a, b, Flags(TRUE, FALSE), strLive, br, br)
    \/ /\ AType[a] \in {"directory", "number"}
       /\ \E v \in Values \cup {NoVal} :
            /\ (AType[a] = "directory") = (v = NoVal)
            /\ set_attr(a, v, Flags(TRUE, FALSE), strLive, blobRef, blobRef)

\* check_set_attr() behind kdump_set_attr/kdump_attr_ref_set: a NIL value
\* clears, a string is duplicated, any other value is set as given; all
\* with ATTR_PERSIST. A type mismatch returns KDUMP_ERR_INVALID unchanged.
\* A blob is handed over with one reference of the caller's: a new blob,
\* or one the caller holds and has increfed.
check_set_attr(a) ==
    \/ clear_attr(a)
    \/ /\ AType[a] = "string"
       /\ set_attr_string(a, TRUE)
    \/ /\ AType[a] = "blob"
       /\ \E b \in BlobIds :
            LET br == [blobRef EXCEPT ![b] = @ + 1] IN
            set_attr(a, b, Flags(TRUE, FALSE), strLive, br, br)
    \/ /\ AType[a] \in {"directory", "number"}
       /\ \E v \in ValuesOf(AType[a]) \cup {NoVal} :
            /\ (AType[a] = "directory") = (v = NoVal)
            /\ set_attr(a, v, Flags(TRUE, FALSE), strLive, blobRef, blobRef)

-----------------------------------------------------------------------------
Init ==
    /\ isset = [a \in Attrs |-> FALSE]
    /\ persist = [a \in Attrs |-> FALSE]
    /\ dynstr = [a \in Attrs |-> FALSE]
    /\ indirect = [a \in Attrs |-> a \in StaticAttrs]   \* attr_dict_new
    /\ inl = [a \in Attrs |-> NoVal]
    /\ slot = [a \in StaticAttrs |-> CHOOSE n \in Nums : TRUE]
    /\ strLive = {}
    /\ blobRef = [b \in BlobIds |-> 0]
    /\ crashed = FALSE

\* Library-internal setters, the user API and clear_volatile_attrs
Next ==
    /\ ~crashed
    /\ \/ \E a \in Attrs, v \in Values : SetPlain(a, v)
       \/ \E a \in Attrs : set_attr_string(a, FALSE)
       \/ \E a \in Attrs : SetNewBlob(a)
       \/ \E a \in ApiKeys : check_set_attr(a)
       \/ clear_volatile

Spec == Init /\ [][Next]_vars

-----------------------------------------------------------------------------
TypeOK ==
    /\ isset \in [Attrs -> BOOLEAN]
    /\ persist \in [Attrs -> BOOLEAN]
    /\ dynstr \in [Attrs -> BOOLEAN]
    /\ indirect \in [Attrs -> BOOLEAN]
    /\ inl \in [Attrs -> Values \cup {NoVal}]
    /\ slot \in [StaticAttrs -> Nums]
    /\ strLive \subseteq StrIds
    /\ blobRef \in [BlobIds -> Nat]
    /\ crashed \in BOOLEAN

(* Every set attribute lies on a fully instantiated path: set_attr marks   *)
(* the ancestors through instantiate_path, clear_attr unsets whole         *)
(* subtrees, and clear_volatile keeps any directory above a persistent     *)
(* attribute. Iteration (attr_iter_start on a directory) relies on it.     *)
ParentSet ==
    \A a \in Attrs : isset[a] /\ Parent[a] # NoParent => isset[Parent[a]]

(* Heap ownership after any sequence of set_attr (hooks rejecting or not,  *)
(* same value or not), clear_attr and clear_volatile: a string is live     *)
(* exactly when a set attribute owns it (dynstr) and no two attributes own *)
(* the same one; a blob's reference count equals the number of set         *)
(* attributes holding it. Anything else is a leak, a double free or a      *)
(* dangling value.                                                          *)
OwnershipExact ==
    /\ strLive = OwnedStrs(Attrs)
    /\ \A a, b \in Attrs :
          a # b /\ isset[a] /\ isset[b] /\ AType[a] = "string" /\ dynstr[a]
             => Value(a) # Value(b)
    /\ \A b \in BlobIds : blobRef[b] = BlobHolders(Attrs, b)

====
