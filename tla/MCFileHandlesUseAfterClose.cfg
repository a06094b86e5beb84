\* A user holding two files open at once.
CONSTANTS
    NumSectors <- MCNumSectors
    NumDirect <- MCNumDirect
    SectorSize <- MCSectorSize
    NumDirEntries <- MCNumDirEntries
    EntryBytes <- MCEntryBytes
    MaxPathLen <- MCMaxPathLen
    FileSizes <- MCFileSizes
    MaxOpens <- MCMaxOpens
    OneOpenFile = FALSE
    TypedPaths = TRUE
    Names = {a, b}
    NoName = NoName

SPECIFICATION HSpec
SYMMETRY MCSymmetry
VIEW MCHandleView

INVARIANT
    HandleSafe
