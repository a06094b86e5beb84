------------------------- MODULE MCFileSystemCrash -------------------------
(* Model-checking instance of FileSystemCrash on the MCFileSystem disk.   *)
EXTENDS FileSystemCrash, MCFileSystem
=============================================================================
