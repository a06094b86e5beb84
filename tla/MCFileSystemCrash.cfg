\* The core disk: every call, and a crash inside Remove(path) between its
\* directory and bitmap writes, followed by a boot without format.
CONSTANTS
    NumSectors <- MCNumSectors
    NumDirect <- MCNumDirect
    SectorSize <- MCSectorSize
    NumDirEntries <- MCNumDirEntries
    EntryBytes <- MCEntryBytes
    MaxPathLen <- MCMaxPathLen
    FileSizes <- MCDirectSizes
    TypedPaths = TRUE
    Names = {a, b}
    NoName = NoName

SPECIFICATION CrashSpec
SYMMETRY MCSymmetry
VIEW MCView

INVARIANTS
    TypeOK
    LiveSectorsAllocated
    DisjointOwnership
    NoAbort
    ListShowsTree
PROPERTY
    TreeRefinement
