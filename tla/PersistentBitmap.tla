-------------------------- MODULE PersistentBitmap --------------------------
(***************************************************************************)
(* The free-sector bitmap (userprog/bitmap.cc, filesys/pbitmap.cc of the   *)
(* NachOS base, not part of this repository's src/).  A bitmap value is    *)
(* the set of sectors whose bit is 1 (allocated).  The operators follow    *)
(* the NachOS Bitmap class; FindAndSet scans from bit 0 upward, so it      *)
(* returns the lowest clear bit, or -1 when every bit is set.              *)
(***************************************************************************)
EXTENDS Integers, FiniteSets, FiniteSetsExt

CONSTANT NumSectors        \* number of sectors on the disk (NumSectors)

ASSUME NumSectors \in Nat \ {0}

Sectors == 0 .. NumSectors - 1

\* Bitmap::Test(which): ASSERTs 0 <= which < numBits, then reads the bit.
Test(map, which) == which \in map

\* Bitmap::NumClear
NumClear(map) == NumSectors - Cardinality(map)

\* Bitmap::FindAndSet: index of the lowest clear bit, or -1 (disk full).
FindAndSet(map) == IF Sectors \subseteq map THEN -1 ELSE Min(Sectors \ map)

\* The bitmap after FindAndSet has marked the sector it returned.
MarkFound(map) == IF Sectors \subseteq map THEN map ELSE map \cup {FindAndSet(map)}

\* Bitmap::Clear(which)
Clear(map, which) == map \ {which}
=============================================================================
