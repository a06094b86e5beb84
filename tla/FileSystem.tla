----------------------------- MODULE FileSystem -----------------------------
(***************************************************************************)
(* The file-system facade (filesys/filesys.cc): format at mount, and the   *)
(* path-based Create, CreateDir, Remove(path, recursive) and the flat      *)
(* Remove(name).  The system is single-threaded: each call runs to its end *)
(* before the next, so each is one atomic action.  The state is the disk:  *)
(*   freeMap : the persisted free map (the bitmap file's content),         *)
(*   hdr     : every sector read as a FileHeader,                          *)
(*   tbl     : directory contents, keyed by the directory's header sector, *)
(*   fault   : NoFault, or the kind of the last kernel abort.              *)
(* An abort (a failed ASSERT, a disk request for a bad sector, an array    *)
(* overrun) ends the call; what was written before it stays on disk and    *)
(* the next call starts from there, as after a reboot without format.     *)
(***************************************************************************)
EXTENDS Directory, Sequences

CONSTANTS FileSizes,     \* sizes passed to Create
          MaxPathLen,    \* longest path, in components
          TypedPaths     \* TRUE: callers only pass paths whose inner
                         \* components name directories (or do not exist)

VARIABLES freeMap, hdr, tbl, fault
vars == <<freeMap, hdr, tbl, fault>>

FreeMapSector == 0
DirectorySector == 1
BitsInByte == 8
FreeMapFileSize == NumSectors \div BitsInByte
DirectoryFileSize == EntryBytes * NumDirEntries

\* The disk as an operator context; m is the operation's bitmap copy.
Disk == [bm |-> freeMap, m |-> freeMap, hdr |-> hdr, tbl |-> tbl, fault |-> NoFault]

\* What an operation leaves on disk.
Persist(S) == /\ freeMap' = S.bm
              /\ hdr' = S.hdr
              /\ tbl' = S.tbl
              /\ fault' = IF S.fault = NoFault THEN fault ELSE S.fault

Paths == UNION {[1 .. n -> Names] : n \in 1 .. MaxPathLen}
Last(path) == path[Len(path)]

(***************************************************************************)
(* FileSystem::FileSystem(TRUE): format a zeroed disk.                     *)
(***************************************************************************)
Format ==
    LET S0   == [bm |-> {}, m |-> {FreeMapSector, DirectorySector},
                 hdr |-> [s \in Sectors |-> ZeroHeader],
                 tbl |-> [s \in Sectors |-> EmptyTable], fault |-> NoFault]
        mapA == Allocate(S0, FreeMapFileSize)
        dirA == Allocate(mapA.st, DirectoryFileSize)
        S1   == HeaderWriteBack(HeaderWriteBack(dirA.st, FreeMapSector, mapA.hdr),
                                DirectorySector, dirA.hdr)
    IN  DirWriteBack([S1 EXCEPT !.bm = S1.m], DirectorySector, EmptyTable)

Init == /\ freeMap = Format.bm
        /\ hdr = Format.hdr
        /\ tbl = Format.tbl
        /\ fault = NoFault

(***************************************************************************)
(* Path resolution of Create/CreateDir: descend while the component is     *)
(* found (whatever its type); stop at the first missing one.  Returns the *)
(* in-memory table, the open file it came from, the one before, the leaf  *)
(* token and whether every component was found (shouldRollBack...).       *)
(***************************************************************************)
RECURSIVE CreateWalk(_, _, _, _)
CreateWalk(S, path, i, w) ==
    IF i > Len(path) THEN [w EXCEPT !.token = Last(path), !.rollBack = TRUE]
    ELSE LET sector == Find(w.cur, path[i])
         IN  IF sector = -1 THEN [w EXCEPT !.token = path[i], !.rollBack = FALSE]
             ELSE CreateWalk(S, path, i + 1,
                             [w EXCEPT !.lastFile = w.curFile, !.curFile = sector,
                                       !.cur = DirFetchFrom(w.cur, S, sector)])

\* Faulty variant: the table written back to lastLevelDirFile, the
\* directory before the one the entry was added to.
CreateOpWrongDir(S, path, size, isDir) ==
    LET w0     == [cur |-> DirFetchFrom(EmptyTable, S, DirectorySector),
                   curFile |-> DirectorySector, lastFile |-> DirectorySector,
                   token |-> NoName, rollBack |-> TRUE]
        w      == CreateWalk(S, path, 1, w0)
        cur    == IF w.rollBack THEN DirFetchFrom(w.cur, S, w.lastFile) ELSE w.cur
        sector == FindAndSet(S.bm)
        added  == Add(cur, w.token, sector, isDir)
        a      == Allocate([S EXCEPT !.m = MarkFound(S.bm)], size)
    IN  CASE Find(cur, w.token) # -1      -> S
          [] sector = -1 \/ ~added.ok     -> S
          [] a.st.fault # NoFault \/ ~a.ok -> a.st
          [] OTHER ->
               LET S1 == DirWriteBack(HeaderWriteBack(a.st, sector, a.hdr), w.lastFile, added.tbl)
               IN  [S1 EXCEPT !.bm = a.st.m, !.tbl[sector] = EmptyTable]

\* FileSystem::Create (isDir FALSE, size) and CreateDir (isDir TRUE,
\* DirectoryFileSize): the disk after the call.
CreateOp(S, path, size, isDir) ==
    LET w0     == [cur |-> DirFetchFrom(EmptyTable, S, DirectorySector),
                   curFile |-> DirectorySector, lastFile |-> DirectorySector,
                   token |-> NoName, rollBack |-> TRUE]
        w      == CreateWalk(S, path, 1, w0)
        cur    == IF w.rollBack THEN DirFetchFrom(w.cur, S, w.lastFile) ELSE w.cur
        sector == FindAndSet(S.bm)
        added  == Add(cur, w.token, sector, isDir)
        a      == Allocate([S EXCEPT !.m = MarkFound(S.bm)], size)
    IN  CASE Find(cur, w.token) # -1      -> S
          [] sector = -1 \/ ~added.ok     -> S
          [] a.st.fault # NoFault \/ ~a.ok -> a.st
          [] OTHER ->
               LET S1 == DirWriteBack(HeaderWriteBack(a.st, sector, a.hdr), w.curFile, added.tbl)
               IN  [S1 EXCEPT !.bm = a.st.m, !.tbl[sector] = EmptyTable]

Create(path, initialSize) == Persist(CreateOp(Disk, path, initialSize, FALSE))

CreateDir(path) == Persist(CreateOp(Disk, path, DirectoryFileSize, TRUE))

(***************************************************************************)
(* Path resolution of Remove(name, Recursive): every component must be     *)
(* found (else return FALSE); each is opened and fetched as a directory.   *)
(***************************************************************************)
RECURSIVE RemoveWalk(_, _, _, _)
RemoveWalk(S, path, i, w) ==
    IF i > Len(path) THEN w
    ELSE LET sector == Find(w.dir, path[i])
         IN  IF sector = -1 THEN [w EXCEPT !.found = FALSE]
             ELSE RemoveWalk(S, path, i + 1,
                             [w EXCEPT !.lastDirFile = w.fileTemp, !.fileTemp = sector,
                                       !.sector = sector, !.dir = DirFetchFrom(w.dir, S, sector)])

\* FileSystem::Remove(name, Recursive): the disk after the call.
RemoveOp(S, path, recursive) ==
    LET w0    == [dir |-> DirFetchFrom(EmptyTable, S, DirectorySector),
                  fileTemp |-> DirectorySector, lastDirFile |-> DirectorySector,
                  sector |-> -1, found |-> TRUE]
        w     == RemoveWalk(S, path, 1, w0)
        token == Last(path)
        dir   == DirFetchFrom(w.dir, S, w.lastDirFile)
        h     == S.hdr[w.sector]
        map   == S.bm                        \* loaded before RecursiveRemove
        \* the target is a file (or recursive is FALSE): delete it directly
        fileFreed == Deallocate([S EXCEPT !.m = map], h)
        fileDone  == [DirWriteBack(fileFreed, w.lastDirFile, DirRemove(dir, token))
                        EXCEPT !.bm = Clear(fileFreed.m, w.sector)]
        \* the target is a directory and recursive is TRUE
        rr      == RecursiveRemove(S, DirFetchFrom(dir, S, w.fileTemp), 0)
        S2      == DirWriteBack(rr.st, w.fileTemp, rr.tbl)
        dirFreed == Deallocate([S2 EXCEPT !.m = map], h)
        parent  == DirFetchFrom(rr.tbl, S2, w.lastDirFile)
        dirDone == [DirWriteBack(dirFreed, w.lastDirFile, DirRemove(parent, token))
                      EXCEPT !.bm = Clear(dirFreed.m, w.sector)]
    IN  CASE ~w.found                                  -> S
          [] FindIndex(dir, token) = -1                -> Fail(S, "ub")
          [] IsADirectory(dir, token) /\ ~recursive    -> S
          [] IsADirectory(dir, token) /\ rr.st.fault # NoFault -> rr.st
          [] IsADirectory(dir, token) /\ dirFreed.fault # NoFault -> dirFreed
          [] IsADirectory(dir, token)                  -> dirDone
          [] fileFreed.fault # NoFault                 -> fileFreed
          [] OTHER                                     -> fileDone

Remove(path, recursive) == Persist(RemoveOp(Disk, path, recursive))

\* FileSystem::Remove(name): the flat remove in the root directory; it
\* does not look at the entry's type.
RemoveName(name) ==
    LET root  == DirFetchFrom(EmptyTable, Disk, DirectorySector)
        freed == Deallocate([Disk EXCEPT !.m = freeMap], hdr[Find(root, name)])
        done  == DirWriteBack([freed EXCEPT !.bm = Clear(freed.m, Find(root, name))],
                              DirectorySector, DirRemove(root, name))
    IN  /\ Find(root, name) # -1
        /\ Persist(IF freed.fault # NoFault THEN freed ELSE done)

(***************************************************************************)
(* FileSystem::List(dirname, Recursive): descend through every component, *)
(* found whatever its type, into the one Directory object; a missing one  *)
(* prints "No such file or directory" and returns.  Then List or          *)
(* RecursiveList(0) of the table reached.  Read only.                     *)
(***************************************************************************)
RECURSIVE ListWalk(_, _, _, _)
ListWalk(S, t, path, i) ==
    IF i > Len(path) THEN [found |-> TRUE, tbl |-> t]
    ELSE IF Find(t, path[i]) = -1 THEN [found |-> FALSE, tbl |-> t]
    ELSE ListWalk(S, DirFetchFrom(t, S, Find(t, path[i])), path, i + 1)

\* The lines List(path, TRUE) prints, or found FALSE.
FsRecursiveList(S, path) ==
    LET w == ListWalk(S, DirFetchFrom(EmptyTable, S, DirectorySector), path, 1)
    IN  [found |-> w.found, lines |-> IF w.found THEN RecursiveList(S, w.tbl, 0) ELSE <<>>]

\* The names List(path, FALSE) prints, or found FALSE; FileSystem::List()
\* is the path <<>> (the root).
FsList(S, path) ==
    LET w == ListWalk(S, DirFetchFrom(EmptyTable, S, DirectorySector), path, 1)
    IN  [found |-> w.found, names |-> IF w.found THEN DirList(w.tbl) ELSE <<>>]

(***************************************************************************)
(* The callers' paths.  With TypedPaths, every component but the last that *)
(* exists names a directory.                                              *)
(***************************************************************************)
RECURSIVE TypedFrom(_, _, _)
TypedFrom(t, path, i) ==
    IF i >= Len(path) \/ FindIndex(t, path[i]) = -1 THEN TRUE
    ELSE IsADirectory(t, path[i]) /\ TypedFrom(tbl[Find(t, path[i])], path, i + 1)

Callable(path) == ~TypedPaths \/ TypedFrom(tbl[DirectorySector], path, 1)

Next ==
    \/ \E p \in Paths, n \in FileSizes : Callable(p) /\ Create(p, n)
    \/ \E p \in Paths : Callable(p) /\ CreateDir(p)
    \/ \E p \in Paths, r \in BOOLEAN : Callable(p) /\ Remove(p, r)
    \/ \E n \in Names : RemoveName(n)

Spec == Init /\ [][Next]_vars

-----------------------------------------------------------------------------
(***************************************************************************)
(* What the disk holds: the live objects and the sectors each owns.        *)
(***************************************************************************)
RECURSIVE LiveFrom(_, _, _)
LiveFrom(dirSector, prefix, depth) ==
    UNION {LET e == tbl[dirSector][i]
               o == [path |-> Append(prefix, e.name), sector |-> e.sector, isDir |-> e.isDir]
           IN  {o} \cup (IF e.isDir /\ depth < NumSectors
                         THEN LiveFrom(e.sector, o.path, depth + 1) ELSE {})
           : i \in {j \in DirSlots : tbl[dirSector][j].inUse}}

\* Every file and directory reachable from the root directory.
Live == LiveFrom(DirectorySector, <<>>, 0)

\* The bitmap file and the root directory file, owned by the system.
SystemFiles == {[path |-> <<>>, sector |-> FreeMapSector, isDir |-> FALSE],
                [path |-> <<>>, sector |-> DirectorySector, isDir |-> TRUE]}

Owners == Live \cup SystemFiles

\* The header sector followed by every sector of the header's tree.
OwnedSeq(sector) == <<sector>> \o TreeSeq(hdr, hdr[sector], 0)

Owned(sector) == Range(OwnedSeq(sector))

(***************************************************************************)
(* Type invariant.  Every sector read as a header has non-negative sizes:  *)
(* headers come from Allocate, data sectors from CleanDiskSector (zeroes).  *)
(***************************************************************************)
TypeOK ==
    /\ freeMap \subseteq Sectors
    /\ hdr \in [Sectors -> [numBytes : Nat, numSectors : Nat, dataSectors : [Slots -> Int]]]
    /\ tbl \in [Sectors -> [DirSlots -> Entry \cup {Unused}]]
    /\ fault \in {NoFault, "assert", "disk", "oob", "ub", "stack"}

(***************************************************************************)
(* No dangling sector: every sector owned by a file or directory reachable *)
(* from the root is marked in the persisted free map.  Broken if a remove  *)
(* clears sectors of something that stays listed, or if a create persists *)
(* its directory entry without the bitmap that allocated its sectors.     *)
(***************************************************************************)
LiveSectorsAllocated == \A o \in Owners : Owned(o.sector) \subseteq freeMap

(***************************************************************************)
(* No shared sector: within one reachable object the header, its index    *)
(* nodes and its data sectors are all different sectors, and two distinct  *)
(* reachable objects own disjoint sets of sectors.  Broken if FindAndSet   *)
(* hands out a sector already in use (the header sector Create took, a    *)
(* sibling's child), or a directory entry is added twice for one header.  *)
(***************************************************************************)
DisjointOwnership ==
    /\ \A o \in Owners : IsInjective(OwnedSeq(o.sector))
    /\ \A o1, o2 \in Owners : o1 # o2 => Owned(o1.sector) \cap Owned(o2.sector) = {}

(***************************************************************************)
(* No leak: every sector marked in the free map is owned by some reachable *)
(* object (spec: create/remove back to an empty directory restores the     *)
(* free count after format; README: the FreeMap is updated only after the  *)
(* child nodes are cleared).                                              *)
(***************************************************************************)
NoLeak == freeMap \subseteq UNION {Owned(o.sector) : o \in Owners}

(***************************************************************************)
(* No kernel abort: no call of Create/CreateDir/Remove ever fails an       *)
(* ASSERT, requests a bad sector from the disk or overruns dataSectors.   *)
(***************************************************************************)
NoAbort == fault = NoFault

(***************************************************************************)
(* ByteToSector is sound for every reachable file (spec section 8): every *)
(* offset maps to a sector the file owns and the bitmap marks, and offsets *)
(* in different sector-sized blocks map to different sectors.             *)
(***************************************************************************)
ByteToSectorSound ==
    \A o \in Live : ~o.isDir =>
        LET h == hdr[o.sector]
            Offsets == 0 .. h.numBytes - 1
        IN  /\ \A off \in Offsets : ByteToSector(hdr, h, off) \in Owned(o.sector) \cap freeMap
            /\ \A o1, o2 \in Offsets :
                  o1 \div SectorSize # o2 \div SectorSize =>
                      ByteToSector(hdr, h, o1) # ByteToSector(hdr, h, o2)
(***************************************************************************)
(* The tree the disk holds, as AbstractTree sees it: every reachable entry *)
(* with its kind and the size its header records.                          *)
(***************************************************************************)
AbsTree ==
    LET L == Live
        EntryAt(p) == CHOOSE o \in L : o.path = p
    IN  [p \in {o.path : o \in L} |->
            [isDir |-> EntryAt(p).isDir, size |-> hdr[EntryAt(p).sector].numBytes]]

ABS == INSTANCE AbstractTree WITH tree <- AbsTree, MaxDepth <- MaxPathLen,
                                  DirSize <- DirectoryFileSize

(***************************************************************************)
(* Refinement: every Create, CreateDir, Remove and flat Remove either       *)
(* leaves the reachable tree as it was or makes exactly one abstract step: *)
(* adds one entry under an existing directory, or removes one entry with  *)
(* its subtree; no other file changes kind or size.  Broken if a call     *)
(* writes a directory table back to the wrong directory file, or a header *)
(* over a sector another entry still uses.                                *)
(***************************************************************************)
TreeRefinement == ABS!Spec

\* The entry listing line k stands for, read as a user reads the indented
\* output: the last directory line printed one level up, then its name.
RECURSIVE LinePath(_, _)
LinePath(L, k) ==
    IF L[k].depth = 0 THEN <<L[k].name>>
    ELSE Append(LinePath(L, Max({j \in 1 .. k - 1 : L[j].depth = L[k].depth - 1})), L[k].name)

(***************************************************************************)
(* Listing shows the tree: for the root and every reachable directory,    *)
(* List(path, FALSE) prints each child's name once, and List(path, TRUE)  *)
(* prints one line per entry below it, each under the directory it is in, *)
(* with its [D]/[F] kind.  Broken if RecursiveList fetches a subdirectory *)
(* into the table it is still walking, or the walk resolves another       *)
(* directory than the path names.                                         *)
(***************************************************************************)
ListShowsTree ==
    \A p \in {<<>>} \cup {q \in DOMAIN AbsTree : AbsTree[q].isDir} :
        LET Below == {q \in DOMAIN AbsTree : Len(q) > Len(p) /\ SubSeq(q, 1, Len(p)) = p}
            Kids  == {q \in Below : Len(q) = Len(p) + 1}
            N     == FsList(Disk, p)
            R     == FsRecursiveList(Disk, p)
        IN  /\ N.found /\ R.found
            /\ Len(N.names) = Cardinality(Kids)
            /\ Range(N.names) = {q[Len(q)] : q \in Kids}
            /\ Len(R.lines) = Cardinality(Below)
            /\ {[path |-> p \o LinePath(R.lines, k), isDir |-> R.lines[k].isDir] : k \in DOMAIN R.lines}
                 = {[path |-> q, isDir |-> AbsTree[q].isDir] : q \in Below}
=============================================================================
