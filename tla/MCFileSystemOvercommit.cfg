\* Create of a one-level file on a nearly full disk: is every offset backed by a sector?
CONSTANTS
    NumSectors <- MCNumSectors
    NumDirect <- MCNumDirect
    SectorSize <- MCSectorSize
    NumDirEntries <- MCNumDirEntries
    EntryBytes <- MCEntryBytes
    MaxPathLen <- MCFlatPathLen
    FileSizes <- MCOneLevelSizes
    TypedPaths = TRUE
    Names = {a, b}
    NoName = NoName

SPECIFICATION Spec
SYMMETRY MCSymmetry
VIEW MCView

INVARIANT ByteToSectorSound
