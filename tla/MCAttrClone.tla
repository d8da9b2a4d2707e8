----------------------------- MODULE MCAttrClone -----------------------------
(* The attribute tree of MCAttrDict without xen.p2m: the root, "linux"     *)
(* with a static number and a blob, and "xen" with a subdirectory holding  *)
(* a string, so that cloning meets a static value, a blob, a string and a  *)
(* subtree.                                                                *)
EXTENDS AttrClone

CONSTANTS root, linux, vercode, task, xen, xver, extra, o1, o2

MCAttrs == {root, linux, vercode, task, xen, xver, extra}
MCParent == [a \in MCAttrs |->
               CASE a = root -> NoParent
                 [] a \in {linux, xen} -> root
                 [] a \in {vercode, task} -> linux
                 [] a = xver -> xen
                 [] a = extra -> xver]
MCAType == [a \in MCAttrs |->
               CASE a \in {root, linux, xen, xver} -> "directory"
                 [] a = vercode -> "number"
                 [] a = task -> "blob"
                 [] a = extra -> "string"]
\* the order of the child lists (the order of global_keys[])
MCPreOrder == <<root, linux, vercode, task, xen, xver, extra>>
\* the user sets the static number and the string
MCApiKeys == {vercode, extra}
MCApiKeysRoot == {root, vercode, extra}
\* paths without a blob: linux.version_code and the xen.ver subtree
MCCloneKeys == {vercode, xver}
MCCloneKeysAll == MCAttrs \ {root}
\* two owners override linux.version_code, each replacing another hook
MCOvr == {o1, o2}
MCHookOf == [o \in MCOvr |-> IF o = o1 THEN "post_set" ELSE "revalidate"]
\* both owners replacing the same member: the chain is exercised in full,
\* the copied ops of the member below are always overwritten
MCHookOfOne == [o \in MCOvr |-> "post_set"]
\* A smaller tree for the runs that interleave overrides as well: the
\* overridden static number and a string, both under "linux".
MCAttrsOvr == {root, linux, vercode, extra}
MCParentOvr == [a \in MCAttrsOvr |->
                  CASE a = root -> NoParent
                    [] a = linux -> root
                    [] a \in {vercode, extra} -> linux]
MCPreOrderOvr == <<root, linux, vercode, extra>>
MCCloneKeysOvr == {vercode, linux}
====
