---------------------------- MODULE MCFileHandles ----------------------------
(***************************************************************************)
(* Model-checking instance of FileHandles: the MCFileSystem disk, files   *)
(* of 0 or 1 byte, and up to 3 OpenFile objects, so a user can hold two   *)
(* files open and reopen one after closing it.                            *)
(***************************************************************************)
EXTENDS FileHandles, MCFileSystem

MCMaxOpens == 3
MCFileSizes == {1}

\* MCView of the disk, with the handle state (heap maps objects to header
\* sectors, which the disk part of the view keeps when they are reachable).
MCHandleView == <<MCView, hvars>>
=============================================================================
