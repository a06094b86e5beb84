\* Removing a two-level file: does Deallocate stay inside dataSectors?
CONSTANTS
    NumSectors <- MCNumSectorsLarge
    NumDirect <- MCNumDirect
    SectorSize <- MCSectorSize
    NumDirEntries <- MCNumDirEntries
    EntryBytes <- MCEntryBytes
    MaxPathLen <- MCFlatPathLen
    FileSizes <- MCTwoLevelSizes
    TypedPaths = TRUE
    Names = {a, b}
    NoName = NoName

SPECIFICATION Spec
SYMMETRY MCSymmetry
VIEW MCView

INVARIANT NoAbort
