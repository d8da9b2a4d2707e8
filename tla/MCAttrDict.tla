----------------------------- MODULE MCAttrDict -----------------------------
(* A dictionary shaped like the global attribute tree: the root, the       *)
(* "linux" directory with a static number (linux.version_code style) and   *)
(* a blob (linux.task_struct), and the "xen" directory with a hooked    *)
(* number and a subdirectory holding a string.                             *)
EXTENDS AttrDict

CONSTANTS root, linux, vercode, task, xen, p2m, xver, extra

MCAttrs == {root, linux, vercode, task, xen, p2m, xver, extra}
MCParent == [a \in MCAttrs |->
               CASE a = root -> NoParent
                 [] a \in {linux, xen} -> root
                 [] a \in {vercode, task} -> linux
                 [] a \in {p2m, xver} -> xen
                 [] a = extra -> xver]
MCAType == [a \in MCAttrs |->
               CASE a \in {root, linux, xen, xver} -> "directory"
                 [] a \in {vercode, p2m} -> "number"
                 [] a = task -> "blob"
                 [] a = extra -> "string"]
MCApiKeys == MCAttrs \ {root}
MCApiKeysRoot == MCAttrs
====
