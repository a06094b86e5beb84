----------------------------- MODULE FileHandles -----------------------------
(***************************************************************************)
(* The open-file calls (filesys.cc OpenAFile, WriteFile, ReadFile,         *)
(* CloseAFile) and their system calls (ksyscall.h SysOpen, SysWrite,       *)
(* SysRead, SysClose), composed with the file system they open files of.   *)
(* The FileSystem keeps ONE handle, opfile: OpenAFile overwrites it (with  *)
(* NULL when the file is not found), Write/Read use it whatever id they    *)
(* are given, CloseAFile deletes it and leaves the pointer dangling.       *)
(* SysOpen returns the pointer cast to an OpenFileId.                      *)
(*   heap    : the live OpenFile objects, object -> header sector          *)
(*   opfile  : the object FileSystem::opfile points to, or NullObj         *)
(*   held    : the ids the user program holds open                         *)
(*   nextObj : objects allocated so far (a fresh address each time)       *)
(*   access  : the last Read/Write: the id passed and the object used      *)
(*   hfault  : "none", or how the kernel crashed ("null", "uaf",          *)
(*             "double_free")                                               *)
(* File data is not modelled: a read or write is the use of the handle.   *)
(***************************************************************************)
EXTENDS FileSystem, TLC

CONSTANTS MaxOpens,     \* bound on OpenFile objects allocated
          OneOpenFile   \* TRUE: the user closes a file before opening another

NullObj == 0
Objs == 1 .. MaxOpens
NoAccess == [id |-> NullObj, obj |-> NullObj]

VARIABLES heap, opfile, held, nextObj, access, hfault
hvars == <<heap, opfile, held, nextObj, access, hfault>>
allVars == <<vars, hvars>>

\* The handle state of a freshly booted kernel.  opfile is never
\* initialised (the constructor does not set it); under the user
\* discipline below it is not read before the first OpenAFile.
HInit == /\ Init
         /\ heap = <<>> /\ opfile = NullObj /\ held = {} /\ nextObj = 0
         /\ access = NoAccess /\ hfault = "none"

\* The walk stopped in table t at component name, having opened no more
\* directories.
WalkEnd(t, name) == [dir |-> t, name |-> name, opened |-> <<>>]

\* Faulty variant: the walk descends into every component found, without
\* asking isadirectory.
RECURSIVE OpenWalkAnyType(_, _, _, _)
OpenWalkAnyType(S, t, path, i) ==
    IF i > Len(path) THEN WalkEnd(t, path[Len(path)])
    ELSE IF Find(t, path[i]) = -1 THEN WalkEnd(t, path[i])
    ELSE LET r == OpenWalkAnyType(S, DirFetchFrom(t, S, Find(t, path[i])), path, i + 1)
         IN  [r EXCEPT !.opened = <<Find(t, path[i])>> \o @]

\* OpenAFile's walk: descend while the component is found AND is a
\* directory; the name looked up at the end is the component it stopped
\* at, or the last one when it descended through all of them (prevToken).
\* Each descent is currentDirFile = new OpenFile(sector), never deleted:
\* `opened` lists the header sectors of those objects, in order.
RECURSIVE OpenWalk(_, _, _, _)
OpenWalk(S, t, path, i) ==
    IF i > Len(path) THEN WalkEnd(t, path[Len(path)])
    ELSE IF Find(t, path[i]) = -1 \/ ~IsADirectory(t, path[i])
         THEN WalkEnd(t, path[i])
    ELSE LET r == OpenWalk(S, DirFetchFrom(t, S, Find(t, path[i])), path, i + 1)
         IN  [r EXCEPT !.opened = <<Find(t, path[i])>> \o @]

\* The walk's directory objects, allocated at the next free addresses.
DirObjects(w) == [j \in nextObj + 1 .. nextObj + Len(w.opened) |-> w.opened[j - nextObj]]

\* Faulty variant: a successful open does not update opfile.
SysOpenStaleOpfile(path) ==
    LET w == OpenWalk(Disk, DirFetchFrom(EmptyTable, Disk, DirectorySector), path, 1)
        s == Find(w.dir, w.name)
        o == nextObj + Len(w.opened) + 1
    IN  /\ OneOpenFile => held = {}
        /\ IF s >= 0
           THEN /\ o <= MaxOpens
                /\ heap' = heap @@ DirObjects(w) @@ (o :> s) /\ UNCHANGED opfile
                /\ held' = held \cup {o} /\ nextObj' = o
           ELSE /\ o - 1 <= MaxOpens
                /\ heap' = heap @@ DirObjects(w) /\ opfile' = NullObj
                /\ nextObj' = o - 1 /\ UNCHANGED held
        /\ UNCHANGED <<access, hfault>> /\ UNCHANGED vars

\* Faulty variant: new OpenFile(sector) without the sector >= 0 test.
SysOpenUnchecked(path) ==
    LET w == OpenWalk(Disk, DirFetchFrom(EmptyTable, Disk, DirectorySector), path, 1)
        o == nextObj + Len(w.opened) + 1
    IN  /\ OneOpenFile => held = {}
        /\ o <= MaxOpens
        /\ heap' = heap @@ DirObjects(w) @@ (o :> Find(w.dir, w.name)) /\ opfile' = o
        /\ held' = held \cup {o} /\ nextObj' = o
        /\ UNCHANGED <<access, hfault>> /\ UNCHANGED vars

\* SysOpen -> FileSystem::OpenAFile(name): the walk's directory objects,
\* then opfile = the new OpenFile, or NULL when the name is not found.
SysOpen(path) ==
    LET w == OpenWalk(Disk, DirFetchFrom(EmptyTable, Disk, DirectorySector), path, 1)
        s == Find(w.dir, w.name)
        o == nextObj + Len(w.opened) + 1
    IN  /\ OneOpenFile => held = {}
        /\ IF s >= 0
           THEN /\ o <= MaxOpens
                /\ heap' = heap @@ DirObjects(w) @@ (o :> s) /\ opfile' = o
                /\ held' = held \cup {o} /\ nextObj' = o
           ELSE /\ o - 1 <= MaxOpens
                /\ heap' = heap @@ DirObjects(w) /\ opfile' = NullObj
                /\ nextObj' = o - 1 /\ UNCHANGED held
        /\ UNCHANGED <<access, hfault>> /\ UNCHANGED vars

\* WriteFile/ReadFile(buf, size, id): opfile->Write/Read, id unused.
UseOpfile(id) ==
    /\ id \in held
    /\ CASE opfile = NullObj           -> hfault' = "null" /\ UNCHANGED access
         [] opfile \notin DOMAIN heap  -> hfault' = "uaf" /\ UNCHANGED access
         [] OTHER -> access' = [id |-> id, obj |-> opfile] /\ UNCHANGED hfault
    /\ UNCHANGED <<heap, opfile, held, nextObj>> /\ UNCHANGED vars

SysWrite(id) == UseOpfile(id)

SysRead(id) == UseOpfile(id)

\* SysClose -> CloseAFile(id): delete opfile; return 1.  The user stops
\* using id; opfile keeps pointing at the deleted object.
SysClose(id) ==
    /\ id \in held
    /\ held' = held \ {id}
    /\ CASE opfile = NullObj          -> UNCHANGED <<heap, hfault>>
         [] opfile \notin DOMAIN heap -> hfault' = "double_free" /\ UNCHANGED heap
         [] OTHER -> heap' = [x \in DOMAIN heap \ {opfile} |-> heap[x]] /\ UNCHANGED hfault
    /\ UNCHANGED <<opfile, nextObj, access>> /\ UNCHANGED vars

\* A kernel command-line operation (-cp, -mkdir, -r ...): it runs in a
\* boot of its own, before any user program, so the open-file objects of
\* an earlier program are gone and the disk is what persists.
Command == /\ Next
           /\ heap' = <<>> /\ opfile' = NullObj /\ held' = {} /\ nextObj' = 0
           /\ access' = NoAccess /\ UNCHANGED hfault

\* SysCreate(name, size) -> FileSystem::Create: the one disk-changing call
\* a user program has; it leaves the handle state alone.
SysCreate(path, size) == Create(path, size) /\ UNCHANGED hvars

HNext ==
    /\ hfault = "none"
    /\ \/ Command
       \/ \E p \in Paths, n \in FileSizes : Callable(p) /\ SysCreate(p, n)
       \/ \E p \in Paths : Callable(p) /\ SysOpen(p)
       \/ \E id \in Objs : SysWrite(id) \/ SysRead(id) \/ SysClose(id)

HSpec == HInit /\ [][HNext]_allVars

-----------------------------------------------------------------------------
HTypeOK ==
    /\ DOMAIN heap \subseteq Objs /\ \A x \in DOMAIN heap : heap[x] \in Sectors
    /\ opfile \in Objs \cup {NullObj} /\ held \subseteq Objs
    /\ nextObj \in 0 .. MaxOpens /\ access \in [id : Objs \cup {NullObj}, obj : Objs \cup {NullObj}]
    /\ hfault \in {"none", "null", "uaf", "double_free"}

(***************************************************************************)
(* The kernel never dereferences a NULL, deleted or twice-deleted handle   *)
(* on behalf of a user that only uses the ids it holds open.  Broken when *)
(* OpenAFile, a failed open or CloseAFile leaves opfile pointing elsewhere *)
(* than the id the user passes.                                          *)
(***************************************************************************)
HandleSafe == hfault = "none"

(***************************************************************************)
(* Every OpenFile object OpenAFile allocated is still reachable through an *)
(* id the user holds, so closing every id frees them all.  Broken by the  *)
(* directory objects OpenAFile's walk allocates (currentDirFile = new     *)
(* OpenFile(sector)) and never deletes: opening /a/b leaks /a's object.  *)
(***************************************************************************)
NoLeakedOpenFile == DOMAIN heap \subseteq held

\* The live regular file a path names, as a set of at most one object.
FileAt(path) == {o \in Live : o.path = path /\ ~o.isDir}

(***************************************************************************)
(* Opening the path of a live regular file returns a handle on that file's *)
(* header (OpenAFile's walk, its isadirectory test and its final Find):  *)
(* the id returned is a new OpenFile object on that header.              *)
(***************************************************************************)
OpenFindsFile ==
    [][\A p \in Paths : Callable(p) /\ SysOpen(p) /\ FileAt(p) # {} =>
          /\ nextObj' \in held'
          /\ heap'[nextObj'] = (CHOOSE o \in FileAt(p) : TRUE).sector]_allVars
====
