\* A user that closes each file before opening the next one.
CONSTANTS
    NumSectors <- MCNumSectors
    NumDirect <- MCNumDirect
    SectorSize <- MCSectorSize
    NumDirEntries <- MCNumDirEntries
    EntryBytes <- MCEntryBytes
    MaxPathLen <- MCMaxPathLen
    FileSizes <- MCFileSizes
    MaxOpens <- MCMaxOpens
    OneOpenFile = TRUE
    TypedPaths = TRUE
    Names = {a, b}
    NoName = NoName

SPECIFICATION HSpec
SYMMETRY MCSymmetry
VIEW MCHandleView

INVARIANT
    NoLeakedOpenFile
