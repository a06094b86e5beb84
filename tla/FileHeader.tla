----------------------------- MODULE FileHeader -----------------------------
(***************************************************************************)
(* The multi-level indexed file header (filesys/filehdr.cc).               *)
(*                                                                         *)
(* The operators act on a disk context S, a record with fields             *)
(*   m     : the in-memory bitmap copy of the running operation,           *)
(*   bm    : the free map as persisted on disk,                            *)
(*   hdr   : the content of every sector read as a FileHeader,            *)
(*   tbl   : directory contents (see Directory),                           *)
(*   fault : NoFault, or the kind of kernel abort that stopped the         *)
(*           operation ("assert", "disk", "oob").                          *)
(* A header is [numBytes, numSectors, dataSectors], dataSectors being the  *)
(* fixed array 0..NumDirect-1.  Whether a header is direct or interior is  *)
(* derived from numBytes against the BYTES_kLEVEL thresholds, as in the   *)
(* code.  An index outside dataSectors is reported as fault "oob": the C   *)
(* code reads or writes past the array, which is undefined behaviour.     *)
(***************************************************************************)
EXTENDS PersistentBitmap, Sequences

CONSTANTS NumDirect,       \* pointers per header (NumDirect)
          SectorSize       \* bytes per sector (SectorSize)

ASSUME NumDirect \in Nat \ {0, 1} /\ SectorSize \in Nat \ {0}

NoFault == "none"
Slots == 0 .. NumDirect - 1

\* divRoundUp / divRoundDown of utility.h, for the non-negative sizes used.
DivRoundUp(n, s) == (n + s - 1) \div s

\* BYTES_kLEVEL: the bytes one subtree of depth k addresses.
Bytes(k) == SectorSize * NumDirect ^ k

\* The level ladder of Allocate/ByteToSector: the largest k in 1..4 with
\* numBytes > BYTES_kLEVEL, 0 for a direct header.
LevelOf(n) == Max({k \in 1 .. 4 : n > Bytes(k)} \cup {0})

\* FileHeader::FileHeader(): every field -1 (memset of -1 bytes).
NewHeader == [numBytes |-> -1, numSectors |-> -1, dataSectors |-> [i \in Slots |-> -1]]

\* A sector after CleanDiskSector, read as a header: all zero.
ZeroHeader == [numBytes |-> 0, numSectors |-> 0, dataSectors |-> [i \in Slots |-> 0]]

Fail(S, kind) == [S EXCEPT !.fault = kind]

\* Faulty variant: the buffer allocated without value-initialisation
\* (new char[SectorSize] instead of new char[SectorSize]()) writes
\* whatever the heap held; one such content is the -1 filler.
CleanDiskSectorUninit(S, sector) == [S EXCEPT !.hdr[sector] = NewHeader]

\* FileHeader::CleanDiskSector: the sector is overwritten with zeroes.
CleanDiskSector(S, sector) == [S EXCEPT !.hdr[sector] = ZeroHeader]

\* FileHeader::WriteBack(sector); the disk ASSERTs the sector is in range.
HeaderWriteBack(S, sector, h) ==
    IF S.fault # NoFault THEN S
    ELSE IF sector \notin Sectors THEN Fail(S, "disk")
    ELSE [S EXCEPT !.hdr[sector] = h]

MinOf(a, b) == IF a < b THEN a ELSE b

(***************************************************************************)
(* FileHeader::Allocate(freeMap, fileSize).  Returns [st, hdr, ok].        *)
(* Like the code: the free-space check counts data sectors only; the      *)
(* BYTES_4LEVEL loop is an "if" of its own, followed by the else-if ladder *)
(* on the fileSize that loop has already decremented; a child's FALSE     *)
(* result (AllocateSubHeader) is ignored.                                 *)
(***************************************************************************)
RECURSIVE Allocate(_, _), SubLoop(_, _, _, _, _), DirectLoop(_, _, _)

Allocate(S, fileSize) ==
    LET h0  == [NewHeader EXCEPT !.numBytes = fileSize,
                                 !.numSectors = DivRoundUp(fileSize, SectorSize)]
        top == IF fileSize > Bytes(4) THEN SubLoop(S, h0, fileSize, Bytes(4), 0)
               ELSE [st |-> S, hdr |-> h0, rest |-> fileSize]
        lvl == LevelOf(top.rest)
        r   == IF lvl > 0 THEN SubLoop(top.st, top.hdr, top.rest, Bytes(lvl), 0)
               ELSE DirectLoop(top.st, top.hdr, 0)
    IN  IF NumClear(S.m) < h0.numSectors
        THEN [st |-> S, hdr |-> h0, ok |-> FALSE]
        ELSE [st |-> r.st, hdr |-> r.hdr, ok |-> TRUE]

\* while (fileSize > 0) { dataSectors[i] = FindAndSet(); AllocateSubHeader;
\*                        subHeader->WriteBack(dataSectors[i]); i++; }
SubLoop(S, h, fileSize, subSize, i) ==
    IF fileSize <= 0 \/ S.fault # NoFault
    THEN [st |-> S, hdr |-> h, rest |-> fileSize]
    ELSE IF i \notin Slots THEN [st |-> Fail(S, "oob"), hdr |-> h, rest |-> fileSize]
    ELSE LET sector == FindAndSet(S.m)
             child  == Allocate([S EXCEPT !.m = MarkFound(S.m)], MinOf(fileSize, subSize))
         IN  SubLoop(HeaderWriteBack(child.st, sector, child.hdr),
                     [h EXCEPT !.dataSectors[i] = sector],
                     fileSize - subSize, subSize, i + 1)

\* Faulty variant: the loop searches the free map as persisted on disk
\* instead of the caller's in-memory copy, which already holds the sectors
\* this operation took.
RECURSIVE DirectLoopStaleMap(_, _, _)
DirectLoopStaleMap(S, h, i) ==
    IF i >= h.numSectors \/ S.fault # NoFault THEN [st |-> S, hdr |-> h]
    ELSE IF i \notin Slots THEN [st |-> Fail(S, "oob"), hdr |-> h]
    ELSE LET sector == FindAndSet(S.bm)
         IN  IF sector = -1 THEN [st |-> Fail(S, "assert"), hdr |-> h]
             ELSE DirectLoopStaleMap(CleanDiskSector([S EXCEPT !.m = @ \cup {sector}], sector),
                                  [h EXCEPT !.dataSectors[i] = sector], i + 1)

\* for (i < numSectors) { dataSectors[i] = FindAndSet(); ASSERT(>= 0);
\*                        CleanDiskSector(dataSectors[i]); }
DirectLoop(S, h, i) ==
    IF i >= h.numSectors \/ S.fault # NoFault THEN [st |-> S, hdr |-> h]
    ELSE IF i \notin Slots THEN [st |-> Fail(S, "oob"), hdr |-> h]
    ELSE LET sector == FindAndSet(S.m)
         IN  IF sector = -1 THEN [st |-> Fail(S, "assert"), hdr |-> h]
             ELSE DirectLoop(CleanDiskSector([S EXCEPT !.m = @ \cup {sector}], sector),
                             [h EXCEPT !.dataSectors[i] = sector], i + 1)

(***************************************************************************)
(* FileHeader::Deallocate(freeMap): clears bits in S.m.  An interior      *)
(* header fetches divRoundUp(numSectors, NumDirect) children and          *)
(* deallocates each; it never clears the children's own sectors.  A       *)
(* direct header ASSERTs each data sector is marked, then clears it.     *)
(***************************************************************************)
RECURSIVE Deallocate(_, _), DeallocChildren(_, _, _), DeallocDirect(_, _, _)

Deallocate(S, h) ==
    IF h.numBytes > Bytes(1) THEN DeallocChildren(S, h, 0) ELSE DeallocDirect(S, h, 0)

DeallocChildren(S, h, i) ==
    IF i >= DivRoundUp(h.numSectors, NumDirect) \/ S.fault # NoFault THEN S
    ELSE IF i \notin Slots THEN Fail(S, "oob")
    ELSE IF h.dataSectors[i] \notin Sectors THEN Fail(S, "disk")
    ELSE DeallocChildren(Deallocate(S, S.hdr[h.dataSectors[i]]), h, i + 1)

\* Faulty variant: the loop bound written as i <= numSectors.
RECURSIVE DeallocDirectPastEnd(_, _, _)
DeallocDirectPastEnd(S, h, i) ==
    IF i > h.numSectors \/ S.fault # NoFault THEN S
    ELSE IF i \notin Slots THEN Fail(S, "oob")
    ELSE IF ~Test(S.m, h.dataSectors[i]) THEN Fail(S, "assert")
    ELSE DeallocDirectPastEnd([S EXCEPT !.m = Clear(@, h.dataSectors[i])], h, i + 1)

DeallocDirect(S, h, i) ==
    IF i >= h.numSectors \/ S.fault # NoFault THEN S
    ELSE IF i \notin Slots THEN Fail(S, "oob")
    ELSE IF ~Test(S.m, h.dataSectors[i]) THEN Fail(S, "assert")
    ELSE DeallocDirect([S EXCEPT !.m = Clear(@, h.dataSectors[i])], h, i + 1)

(***************************************************************************)
(* FileHeader::ByteToSector(offset) over the headers on disk `disk`.       *)
(* -1 stands for a pointer that is not a sector (the FetchFrom or the data *)
(* read of it would abort).                                               *)
(***************************************************************************)
RECURSIVE ByteToSector(_, _, _)
ByteToSector(disk, h, offset) ==
    IF h.numBytes > Bytes(1)
    THEN LET levelBytes == Bytes(LevelOf(h.numBytes))
             entry      == offset \div levelBytes
         IN  IF entry \notin Slots \/ h.dataSectors[entry] \notin Sectors THEN -1
             ELSE ByteToSector(disk, disk[h.dataSectors[entry]], offset - levelBytes * entry)
    ELSE IF offset \div SectorSize \in Slots THEN h.dataSectors[offset \div SectorSize]
    ELSE -1

(***************************************************************************)
(* The sectors a header's tree really occupies, in order and with repeats: *)
(* the children Allocate created (one per BYTES_kLEVEL chunk of numBytes), *)
(* each followed by its own tree, and at the leaves the numSectors data    *)
(* sectors.  Pointers that are not sectors are skipped.  Used by the       *)
(* properties, not by the code.                                           *)
(***************************************************************************)
RECURSIVE TreeSeq(_, _, _), KidsSeq(_, _, _, _)
TreeSeq(disk, h, depth) ==
    IF h.numBytes > Bytes(1) /\ depth < 5 THEN KidsSeq(disk, h, 0, depth)
    ELSE SelectSeq([j \in 1 .. MinOf(h.numSectors, NumDirect) |-> h.dataSectors[j - 1]],
                   LAMBDA s : s \in Sectors)

KidsSeq(disk, h, i, depth) ==
    IF i >= MinOf(DivRoundUp(h.numBytes, Bytes(LevelOf(h.numBytes))), NumDirect) THEN <<>>
    ELSE (IF h.dataSectors[i] \in Sectors
          THEN <<h.dataSectors[i]>> \o TreeSeq(disk, disk[h.dataSectors[i]], depth + 1)
          ELSE <<>>) \o KidsSeq(disk, h, i + 1, depth)
=============================================================================
