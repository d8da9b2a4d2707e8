----------------------------- MODULE MCAttrLookup -----------------------------
(* A context dictionary with the root, the "linux" directory and          *)
(* linux.ver, a clone of it, and the paths below; two hash buckets, so    *)
(* that paths of different lengths collide.                               *)
EXTENDS AttrLookup

CONSTANTS linux, ver, file

MCNames == {linux, ver, file}
MCGlobalKeys ==
    << [key |-> NoKey, parent |-> 0, type |-> "directory"],
       [key |-> linux, parent |-> 1, type |-> "directory"],
       [key |-> ver, parent |-> 2, type |-> "number"] >>
\* a path of the original, a new one under its directory, a new leaf and
\* a new directory at the root, and a path through a new component
MCKeys == {<<linux, ver>>, <<linux, file>>, <<ver>>, <<file>>, <<file, ver>>}
MCNameNo == [n \in MCNames |-> IF n = file THEN 1 ELSE 0]
\* ver and linux.ver collide, file and linux.file do not: the hash depends
\* on the directory part of a path as well as on its last key
MCHash(p) == IF p = <<>> THEN 0 ELSE (Len(p) * MCNameNo[Last(p)]) % 2
\* with a path under a directory that only the original has, so that the
\* original and its clone both make a directory "file" of their own
MCKeysShadow == MCKeys \cup {<<file, linux>>, <<linux>>}
====
