------------------------------ MODULE Directory ------------------------------
(***************************************************************************)
(* The fixed-size directory table (filesys/directory.cc).                  *)
(*                                                                         *)
(* A table maps slot 0..NumDirEntries-1 to an entry [inUse, name, sector,  *)
(* isDir].  A slot whose inUse is FALSE is never read for its other        *)
(* fields (FindIndex tests inUse first, Add overwrites them), so every     *)
(* unused slot is represented by the single value Unused.                  *)
(* The content of a directory file lives in its data sectors; the model    *)
(* keys it by the file's header sector: S.tbl[h].  FetchFrom/WriteBack go  *)
(* through OpenFile::ReadAt/WriteAt, which stop at the file's length: only *)
(* the slots lying wholly inside FileLength() are read or written, the     *)
(* other slots of the in-memory table keep what they held before.         *)
(***************************************************************************)
EXTENDS FileHeader

CONSTANTS Names,          \* file names (model values)
          NoName,         \* the name field of an unused slot
          NumDirEntries,  \* NumDirEntries
          EntryBytes      \* sizeof(DirectoryEntry)

ASSUME NumDirEntries \in Nat \ {0} /\ EntryBytes \in Nat \ {0}

DirSlots == 0 .. NumDirEntries - 1
Unused == [inUse |-> FALSE, name |-> NoName, sector |-> -1, isDir |-> FALSE]
Entry == [inUse : {TRUE}, name : Names, sector : Sectors, isDir : BOOLEAN]

\* Directory::Directory(size): every slot not in use.
EmptyTable == [i \in DirSlots |-> Unused]

\* Is slot i wholly inside a file of len bytes (ReadAt/WriteAt truncation)?
InFile(i, len) == (i + 1) * EntryBytes <= len

\* Directory::FetchFrom(file) = file->ReadAt(table, tableSize*entry, 0)
DirFetchFrom(t, S, file) ==
    [i \in DirSlots |-> IF InFile(i, S.hdr[file].numBytes) THEN S.tbl[file][i] ELSE t[i]]

\* Directory::WriteBack(file) = file->WriteAt(table, tableSize*entry, 0)
DirWriteBack(S, file, t) ==
    [S EXCEPT !.tbl[file] = [i \in DirSlots |->
                IF InFile(i, S.hdr[file].numBytes) THEN t[i] ELSE @[i]]]

\* Directory::FindIndex: first in-use slot with that name, or -1.
FindIndex(t, name) ==
    LET hits == {i \in DirSlots : t[i].inUse /\ t[i].name = name}
    IN  IF hits = {} THEN -1 ELSE Min(hits)

\* Directory::Find: the header sector of the named entry, or -1.
Find(t, name) == IF FindIndex(t, name) = -1 THEN -1 ELSE t[FindIndex(t, name)].sector

\* Directory::isadirectory(name) (directory.h): the flag of the named slot.
\* The caller must know the name is present; -1 would index table[-1].
IsADirectory(t, name) == t[FindIndex(t, name)].isDir

\* Directory::Add(name, newSector, isadirectory).  Returns [tbl, ok].
Add(t, name, newSector, isDir) ==
    LET free == {i \in DirSlots : ~t[i].inUse}
    IN  IF FindIndex(t, name) # -1 \/ free = {} THEN [tbl |-> t, ok |-> FALSE]
        ELSE [tbl |-> [t EXCEPT ![Min(free)] = [inUse |-> TRUE, name |-> name,
                                                sector |-> newSector, isDir |-> isDir]],
              ok  |-> TRUE]

\* Faulty variant: Remove that forgets to mark the slot unused.
DirRemoveKeep(t, name) == t

\* Directory::Remove(name): the slot becomes unused (absent name: no change).
DirRemove(t, name) ==
    IF FindIndex(t, name) = -1 THEN t ELSE [t EXCEPT ![FindIndex(t, name)] = Unused]

(***************************************************************************)
(* Directory::RecursiveRemove(name) on table t (the name is not used).     *)
(* Returns [st, tbl].  Each entry is handled with a FRESH PersistentBitmap *)
(* read from the free map file (S.bm) and written back when the entry is  *)
(* done.  For a subdirectory the bitmap copy is taken, the subdirectory's *)
(* own sectors are cleared in it, the recursion runs (persisting its own  *)
(* copies), and only then is the outer copy written back.  Plain file      *)
(* entries stay in use in t.  depth counts the C stack; a cycle of        *)
(* directories would recurse until NumSectors frames ("stack").           *)
(***************************************************************************)
RECURSIVE RecursiveRemove(_, _, _), RemoveFrom(_, _, _, _)

RecursiveRemove(S, t, depth) == RemoveFrom(S, t, 0, depth)

RemoveFrom(S, t, index, depth) ==
    IF index >= NumDirEntries \/ S.fault # NoFault THEN [st |-> S, tbl |-> t]
    ELSE IF ~t[index].inUse THEN RemoveFrom(S, t, index + 1, depth)
    ELSE LET e     == t[index]
             freed == Deallocate([S EXCEPT !.m = S.bm], S.hdr[e.sector])
             mapE  == Clear(freed.m, e.sector)
         IN  IF freed.fault # NoFault THEN [st |-> freed, tbl |-> t]
             ELSE IF ~e.isDir
             THEN RemoveFrom([freed EXCEPT !.bm = mapE], t, index + 1, depth)
             ELSE IF depth >= NumSectors THEN [st |-> Fail(freed, "stack"), tbl |-> t]
             ELSE LET inner == RecursiveRemove(freed, DirFetchFrom(EmptyTable, S, e.sector), depth + 1)
                  IN  IF inner.st.fault # NoFault THEN [st |-> inner.st, tbl |-> t]
                      ELSE RemoveFrom([DirWriteBack(inner.st, e.sector, inner.tbl) EXCEPT !.bm = mapE],
                                      DirRemove(t, e.name), index + 1, depth)

\* Directory::List: the names of the slots in use, in slot order (none:
\* "The directory is empty").
DirList(t) ==
    LET RECURSIVE From(_)
        From(i) == IF i >= NumDirEntries THEN <<>>
                   ELSE (IF t[i].inUse THEN <<t[i].name>> ELSE <<>>) \o From(i + 1)
    IN  From(0)

(***************************************************************************)
(* Directory::RecursiveList(depth) on table t: the printed lines, each     *)
(* [depth, name, isDir] (depth times four spaces, "[D] " or "[F] ", the    *)
(* name).  One subdir object is fetched for every subdirectory entry and  *)
(* recursed into; t itself is not touched.  A cycle of directories would  *)
(* recurse until the stack overflows; the listing stops at NumSectors.    *)
(***************************************************************************)
RECURSIVE RecursiveList(_, _, _), ListFrom(_, _, _, _, _), ListFromSelf(_, _, _, _, _)

RecursiveList(S, t, depth) == ListFrom(S, t, EmptyTable, 0, depth)

\* Faulty variant: the subdirectory fetched into the directory being
\* listed (FetchFrom on this instead of subdir).
ListFromSelf(S, t, sub, i, depth) ==
    IF i >= NumDirEntries THEN <<>>
    ELSE IF ~t[i].inUse THEN ListFromSelf(S, t, sub, i + 1, depth)
    ELSE LET line == <<[depth |-> depth, name |-> t[i].name, isDir |-> t[i].isDir]>>
         IN  IF ~t[i].isDir THEN line \o ListFromSelf(S, t, sub, i + 1, depth)
             ELSE IF depth >= NumSectors THEN line
             ELSE LET t2 == DirFetchFrom(t, S, t[i].sector)
                  IN  line \o RecursiveList(S, t2, depth + 1) \o ListFromSelf(S, t2, sub, i + 1, depth)

ListFrom(S, t, sub, i, depth) ==
    IF i >= NumDirEntries THEN <<>>
    ELSE IF ~t[i].inUse THEN ListFrom(S, t, sub, i + 1, depth)
    ELSE LET line == <<[depth |-> depth, name |-> t[i].name, isDir |-> t[i].isDir]>>
         IN  IF ~t[i].isDir THEN line \o ListFrom(S, t, sub, i + 1, depth)
             ELSE IF depth >= NumSectors THEN line
             ELSE LET sub2 == DirFetchFrom(sub, S, t[i].sector)
                  IN  line \o RecursiveList(S, sub2, depth + 1) \o ListFrom(S, t, sub2, i + 1, depth)
=============================================================================
