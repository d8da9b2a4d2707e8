------------------------------ MODULE AttrClone ------------------------------
(***************************************************************************)
(* Cloning of an attribute dictionary (attr.c attr_dict_clone,             *)
(* clone_attr_path, clone_subtree, clone_attr, copy_data, and              *)
(* attr_dict_free of the clone).  The clone starts with a fresh, unset     *)
(* root and a copy of global_attrs[] pointing into the original; its       *)
(* lookups without a leading dot fall back to the original.                *)
(* clone_attr_path copies one attribute, the path above it and, for a      *)
(* directory, its subtree.  Both dictionaries share the heap and the       *)
(* rwlock: the original's operations (AttrDict) and its template overrides *)
(* (AttrOverride) interleave with the clone's, each call one atomic step.  *)
(* clone_attr gives the copy the original's current template, an override *)
(* included.  The clone's own set and clear calls are not modelled.        *)
(***************************************************************************)
EXTENDS AttrOverride, Sequences

CONSTANTS
    PreOrder,   \* all attributes in the order clone_subtree visits them
    CloneKeys   \* attributes clone_attr_path is called for

ASSUME CloneKeys \subseteq Attrs \ {Root}

VARIABLES
    cloned,     \* a clone of this dictionary (attr_dict_clone) exists
    cAttrs,     \* attributes allocated in the clone's hash table
    cIsset, cPersist, cDynstr,  \* the flags of the clone's attributes
    cVal,       \* the clone's inline values (NoVal: NULL)
    cGlobal,    \* global_attrs[] entries of the clone that point into it
    cTmpl,      \* attr->template of the clone's attributes
    dangling    \* freed attributes still linked in a parent's dir list

origVars == <<isset, persist, dynstr, indirect, inl, slot, blobRef>>
cloneVars == <<cloned, cAttrs, cIsset, cPersist, cDynstr, cVal, cGlobal, cTmpl,
              dangling>>
allVars == <<vars, ovrVars, cloneVars>>

(* A clone state: the record clone_attr_path updates, one field per       *)
(* clone variable, with the heap, whether the last clone_attr succeeded    *)
(* and whether NULL was handed to internal_blob_decref.                    *)
CloneState ==
    [attrs |-> cAttrs, isset |-> cIsset, persist |-> cPersist,
     dynstr |-> cDynstr, val |-> cVal, glob |-> cGlobal, tmpl |-> cTmpl,
     strs |-> strLive,
     ok |-> TRUE, null |-> FALSE]

\* copy_data of a number: dest->val = *attr_value(src)
CopiedNum(x) == Value(x)

\* Seeded fault: copy_data keeps the original's string instead of
\* duplicating it, and marks it dynstr
CopiedStr_shared(x, s) == Value(x)

\* copy_data of a string: dest->val.string = strdup(...), at address s
CopiedStr(x, s) == s

(* clone_attr(): new_attr reuses an attribute of the same path in the      *)
(* clone, discarding its value and zeroing its flags, or allocates one     *)
(* (oom = x: calloc fails, nothing changes).  copy_data copies a set value:*)
(* it marks the copy set first, duplicates a string (oom = x: strdup       *)
(* fails, leaving NULL) and fails for a blob (not implemented).  The copy  *)
(* gets orig->template; only on success, and only when that template lies *)
(* in global_keys[] (no override), does global_attrs[] point at the copy.  *)
clone_attr(st, x, oom) ==
    LET reused == x \in st.attrs
        disc   == reused /\ st.isset[x]
        strs1  == IF disc /\ AType[x] = "string" /\ st.dynstr[x]
                  THEN st.strs \ {st.val[x]} ELSE st.strs
        copy   == isset[x]
        dup    == copy /\ AType[x] = "string" /\ oom # x /\ StrIds \ strs1 # {}
        fail   == copy /\ (AType[x] = "blob" \/ (AType[x] = "string" /\ ~dup))
        s      == CHOOSE i \in StrIds \ strs1 : TRUE
    IN  IF ~reused /\ oom = x
        THEN [st EXCEPT !.ok = FALSE]
        ELSE [st EXCEPT
                !.attrs = @ \cup {x},
                !.isset[x] = copy,
                !.persist[x] = copy /\ persist[x],
                !.dynstr[x] = dup,
                !.val[x] = CASE dup -> CopiedStr(x, s)
                             [] copy /\ AType[x] = "number" -> CopiedNum(x)
                             [] OTHER -> NoVal,
                !.tmpl[x] = tmpl[x],
                !.glob = IF fail \/ tmpl[x] # Base THEN @ ELSE @ \cup {x},
                !.strs = IF dup THEN strs1 \cup {s} ELSE strs1,
                !.ok = ~fail,
                !.null = @ \/ (disc /\ AType[x] = "blob")]

\* clone_attr over a list of attributes, stopping at the first failure
RECURSIVE CloneSeq(_, _, _)
CloneSeq(st, W, oom) ==
    IF W = <<>> \/ ~st.ok THEN st
    ELSE CloneSeq(clone_attr(st, Head(W), oom), Tail(W), oom)

\* Strings owned by the set attributes S of a clone state
CloneOwned(st, S) == {st.val[x] : x \in {y \in S : st.isset[y] /\ st.dynstr[y]}}

(* clone_attr_path(): find the deepest path component already in the       *)
(* clone (lookups with a leading dot), clone the components below it,      *)
(* then the subtree of a directory.  On failure dealloc_attr frees the     *)
(* components cloned by this call, with their subtrees, up to the one      *)
(* found: their values are discarded (a set blob hands NULL to            *)
(* internal_blob_decref), while global_attrs[] and the found component's  *)
(* child list still point at them.                                         *)
CloneWalk(a, oom) ==
    LET path  == Anc[a] \cup {a}
        base  == CHOOSE b \in path \cap cAttrs :
                    \A c \in path \cap cAttrs : c \in Anc[b] \cup {b}
        newW  == SelectSeq(PreOrder, LAMBDA x : x \in path /\ base \in Anc[x])
        subW  == IF AType[a] = "directory"
                 THEN SelectSeq(PreOrder, LAMBDA x : a \in Anc[x])
                 ELSE <<>>
        st1   == CloneSeq(CloneState, newW, oom)
        st    == IF st1.ok THEN CloneSeq(st1, subW, oom) ELSE st1
        undo  == ~st.ok /\ newW # <<>> /\ clone_attr(CloneState, Head(newW), oom).ok
    IN  [st |-> st,
         F |-> IF undo THEN Subtree(Head(newW)) ELSE {},
         top |-> IF undo THEN {Head(newW)} ELSE {}]

clone_attr_path(a, oom) ==
    /\ cloned
    /\ \E w \in {CloneWalk(a, oom)} :
        LET st == w.st
            F  == w.F
            freed == F \cap st.attrs
        IN  /\ cAttrs' = st.attrs \ F
            /\ cIsset' = [x \in Attrs |-> x \notin F /\ st.isset[x]]
            /\ cPersist' = [x \in Attrs |-> x \notin F /\ st.persist[x]]
            /\ cDynstr' = [x \in Attrs |-> x \notin F /\ st.dynstr[x]]
            /\ cVal' = [x \in Attrs |-> IF x \in F THEN NoVal ELSE st.val[x]]
            /\ cGlobal' = st.glob
            /\ cTmpl' = st.tmpl
            /\ dangling' = dangling \cup w.top
            /\ strLive' = st.strs \ CloneOwned(st, freed)
            /\ crashed' = (crashed \/ st.null
                           \/ \E x \in freed : st.isset[x] /\ AType[x] = "blob")
    /\ UNCHANGED <<origVars, ovrVars, cloned>>

\* the clone's variables when no clone exists
CloneReset ==
    /\ cAttrs' = {} /\ cGlobal' = {} /\ dangling' = {}
    /\ cIsset' = [x \in Attrs |-> FALSE] /\ cPersist' = [x \in Attrs |-> FALSE]
    /\ cDynstr' = [x \in Attrs |-> FALSE] /\ cVal' = [x \in Attrs |-> NoVal]
    /\ cTmpl' = [x \in Attrs |-> Base]

\* attr_dict_clone(): a new root, global_attrs[] copied, fallback = this
\* dictionary (a failed calloc returns NULL and changes nothing)
attr_dict_clone ==
    /\ ~cloned
    /\ cloned' = TRUE
    /\ cAttrs' = {Root} /\ cGlobal' = {Root}
    /\ cTmpl' = [cTmpl EXCEPT ![Root] = Base]
    /\ UNCHANGED <<origVars, ovrVars, strLive, crashed, cIsset, cPersist,
                   cDynstr, cVal, dangling>>

\* attr_dict_free() of the clone: dealloc_attr of its root discards every
\* value (a set blob of the clone holds NULL), then the fallback is dropped
attr_dict_free ==
    /\ cloned
    /\ cloned' = FALSE
    /\ strLive' = strLive \ CloneOwned(CloneState, cAttrs)
    /\ crashed' = (crashed \/ \E x \in cAttrs : cIsset[x] /\ AType[x] = "blob")
    /\ CloneReset
    /\ UNCHANGED <<origVars, ovrVars>>

-----------------------------------------------------------------------------
CloneInit ==
    /\ Init
    /\ OvrInit
    /\ cloned = FALSE
    /\ cAttrs = {} /\ cGlobal = {} /\ dangling = {}
    /\ cIsset = [x \in Attrs |-> FALSE] /\ cPersist = [x \in Attrs |-> FALSE]
    /\ cDynstr = [x \in Attrs |-> FALSE] /\ cVal = [x \in Attrs |-> NoVal]
    /\ cTmpl = [x \in Attrs |-> Base]

\* the original's calls, its overrides, or the clone's; oom names the
\* attribute whose allocation fails, if any
CloneNext ==
    \/ Next /\ UNCHANGED <<ovrVars, cloneVars>>
    \/ OvrNext /\ UNCHANGED cloneVars
    \/ /\ ~crashed
       /\ \/ attr_dict_clone
          \/ \E a \in CloneKeys :
                \E oom \in {NoVal} \cup ((Anc[a] \ {Root}) \cup Subtree(a)) :
                   clone_attr_path(a, oom)
          \/ attr_dict_free

CloneSpec == CloneInit /\ [][CloneNext]_allVars

-----------------------------------------------------------------------------
CloneTypeOK ==
    /\ TypeOK
    /\ OvrTypeOK
    /\ cTmpl \in [Attrs -> Templates]
    /\ cloned \in BOOLEAN
    /\ cAttrs \subseteq Attrs /\ cGlobal \subseteq Attrs /\ dangling \subseteq Attrs
    /\ cIsset \in [Attrs -> BOOLEAN] /\ cPersist \in [Attrs -> BOOLEAN]
    /\ cDynstr \in [Attrs -> BOOLEAN]
    /\ cVal \in [Attrs -> Values \cup {NoVal}]

ClonedStrs == CloneOwned(CloneState, cAttrs)

(* Heap ownership across both dictionaries, after any interleaving of the  *)
(* original's sets and clears with cloning, re-cloning (which discards the *)
(* clone's values), failed cloning (whose error path frees what it made)   *)
(* and freeing of the clone: a string is live exactly when a set attribute *)
(* of either dictionary owns it, and no two attributes own the same one,   *)
(* because copy_data duplicates it.                                        *)
HeapOwnershipExact ==
    /\ strLive = OwnedStrs(Attrs) \cup ClonedStrs
    /\ OwnedStrs(Attrs) \cap ClonedStrs = {}
    /\ Cardinality(ClonedStrs)
          = Cardinality({x \in cAttrs : cIsset[x] /\ cDynstr[x]})

\* The templates an attribute of either dictionary reaches from its
\* attr->template, and the hooks the top ones provide
TopTemplates == {tmpl[a] : a \in Attrs} \cup {cTmpl[x] : x \in cAttrs}
TemplatesInUse ==
    UNION {ToSet(ChainFrom(t, Cardinality(Ovr) + 1)) : t \in TopTemplates}
HooksInUse == {OpsOf(t)[k] : t \in TopTemplates, k \in Hooks}

(* No dictionary operation uses memory it must not: setting the root      *)
(* through kdump_set_attr (a NULL key) must not dereference its NULL       *)
(* parent; discarding a blob attribute never hands NULL to                 *)
(* internal_blob_decref; no freed attribute stays in global_attrs[] or in  *)
(* its parent's child list; no set string attribute of the clone has a     *)
(* NULL value; global_attrs[] of the clone names the clone's own copy of   *)
(* every attribute it holds a value of; and no template or hook in use by  *)
(* an attribute of either dictionary belongs to an override its owner has  *)
(* removed (attr_remove_override hands the struct back to be freed); and  *)
(* no blob is released more often than it is referenced: every set blob   *)
(* attribute of the original holds a live reference of its own.           *)
MemorySafe ==
    /\ ~crashed
    /\ cGlobal \subseteq cAttrs
    /\ dangling = {}
    /\ \A x \in cAttrs : cIsset[x] /\ AType[x] = "string" => cVal[x] # NoVal
    /\ \A x \in cAttrs : cIsset[x] => x \in cGlobal
    /\ (TemplatesInUse \cup HooksInUse) \cap Ovr \subseteq Installed
    /\ \A b \in BlobIds : blobRef[b] >= BlobHolders(Attrs, b)

====
