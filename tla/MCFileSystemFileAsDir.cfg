\* Paths through a regular file: does Remove keep every listed sector allocated?
CONSTANTS
    NumSectors <- MCNumSectors
    NumDirect <- MCNumDirect
    SectorSize <- MCSectorSize
    NumDirEntries <- MCNumDirEntries
    EntryBytes <- MCEntryBytes
    MaxPathLen <- MCMaxPathLen
    FileSizes <- MCDirectSizes
    TypedPaths = FALSE
    Names = {a, b}
    NoName = NoName

SPECIFICATION Spec
SYMMETRY MCSymmetry
VIEW MCView

INVARIANT LiveSectorsAllocated
