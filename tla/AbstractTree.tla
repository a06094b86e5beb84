---------------------------- MODULE AbstractTree ----------------------------
(***************************************************************************)
(* What the file system promises its callers (spec.md 4.4): a tree of     *)
(* named files and directories under the root.  A call either fails and   *)
(* changes nothing, or makes exactly one of these changes:                *)
(*   create(path, size)  adds a file of that size under an existing        *)
(*                       directory, where no entry has its name;          *)
(*   createDir(path)     adds an empty directory the same way;            *)
(*   remove(path, ...)   removes one entry, with everything below it.     *)
(* A file keeps its size and kind until it is removed.  Which path a call *)
(* names is not part of the state: a create that lands in another         *)
(* directory than asked is still one of these steps.                      *)
(***************************************************************************)
EXTENDS Sequences, SequencesExt

CONSTANTS Names,      \* entry names
          MaxDepth,   \* deepest path
          FileSizes,  \* sizes a file may be created with
          DirSize     \* the size of a directory's table file

VARIABLE tree         \* path -> [isDir, size], for every entry below the root

Paths == UNION {[1 .. n -> Names] : n \in 1 .. MaxDepth}

\* The root, or an entry that is a directory.
IsDirAt(p) == p = <<>> \/ (p \in DOMAIN tree /\ tree[p].isDir)

Init == tree = [p \in {} |-> [isDir |-> TRUE, size |-> DirSize]]

AddEntry(p, node) ==
    /\ p \notin DOMAIN tree
    /\ IsDirAt(Front(p))
    /\ tree' = tree @@ (p :> node)

CreateFile(p, size) == AddEntry(p, [isDir |-> FALSE, size |-> size])

CreateDir(p) == AddEntry(p, [isDir |-> TRUE, size |-> DirSize])

\* The entry p and every entry whose path extends p.
RemoveSubtree(p) ==
    /\ p \in DOMAIN tree
    /\ tree' = [q \in {q \in DOMAIN tree : ~IsPrefix(p, q)} |-> tree[q]]

\* Every step changes the tree; the entry it adds or removes is in the
\* tree after or before it.
Next == /\ tree' # tree
        /\ \E p \in DOMAIN tree \cup DOMAIN tree' :
              \/ \E n \in FileSizes : CreateFile(p, n)
              \/ CreateDir(p)
              \/ RemoveSubtree(p)

Spec == Init /\ [][Next]_tree
=============================================================================
