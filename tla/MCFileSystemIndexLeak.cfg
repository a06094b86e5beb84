\* Removing a one-level file: do its index sectors return to the free map?
CONSTANTS
    NumSectors <- MCNumSectors
    NumDirect <- MCNumDirect
    SectorSize <- MCSectorSize
    NumDirEntries <- MCNumDirEntries
    EntryBytes <- MCEntryBytes
    MaxPathLen <- MCFlatPathLen
    FileSizes <- MCOneLevelSizes
    TypedPaths = TRUE
    Names = {a, b}
    NoName = NoName

SPECIFICATION Spec
SYMMETRY MCSymmetry
VIEW MCView

INVARIANT NoLeak
