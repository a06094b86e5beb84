---------------------------- MODULE MCFileSystem ----------------------------
(***************************************************************************)
(* Model-checking instance of FileSystem.  A 10-sector disk with           *)
(* NumDirect = 2 pointers per header and 2-byte sectors, so the level     *)
(* thresholds BYTES_1..4LEVEL are 4, 8, 16 and 32 bytes; directories of 2  *)
(* one-byte entries (DirectoryFileSize = 2: one data sector).  Format     *)
(* takes sectors 0..3 (FreeMapFileSize = 10 div 8 = 1 byte), leaving 6     *)
(* free: a directory costs 2 sectors, so two levels of directories with   *)
(* files fit, and Create runs out of sectors.                              *)
(***************************************************************************)
EXTENDS FileSystem, TLC

MCNumSectors == 10
\* Room for a two-level file: 16 sectors, format takes 0..3, 12 free.
MCNumSectorsLarge == 16
MCNumDirect == 2
MCSectorSize == 2
MCNumDirEntries == 2
MCEntryBytes == 1
MCMaxPathLen == 2
MCFlatPathLen == 1

\* Direct files only: empty, a partly used sector, exactly BYTES_1LEVEL.
MCDirectSizes == {0, 1, 4}
\* An empty file and a one-level file: 5 bytes = a 4-byte and a 1-byte child.
MCOneLevelSizes == {0, 5}
\* A two-level file: 9 bytes = an 8-byte one-level child and a 1-byte child.
MCTwoLevelSizes == {9}

\* Names are only compared for equality, so permuting them is a symmetry.
MCSymmetry == Permutations(Names)

\* While LiveSectorsAllocated holds, the code only reads the headers and
\* tables of reachable objects: a sector outside them is either free (and
\* overwritten before use: Allocate cleans data sectors, Create writes the
\* header and the new file's empty table) or leaked (never read again).
\* States that differ only in such sectors are merged.
MCView == <<freeMap, fault, {<<o, hdr[o.sector], tbl[o.sector]>> : o \in Owners}>>
=============================================================================
