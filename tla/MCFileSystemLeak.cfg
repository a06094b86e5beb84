\* rm -r of a non-empty directory: do the nested sectors return to the free map?
CONSTANTS
    NumSectors <- MCNumSectors
    NumDirect <- MCNumDirect
    SectorSize <- MCSectorSize
    NumDirEntries <- MCNumDirEntries
    EntryBytes <- MCEntryBytes
    MaxPathLen <- MCMaxPathLen
    FileSizes <- MCDirectSizes
    TypedPaths = TRUE
    Names = {a, b}
    NoName = NoName

SPECIFICATION Spec
SYMMETRY MCSymmetry
VIEW MCView

INVARIANT NoLeak
