--------------------------- MODULE FileSystemCrash ---------------------------
(***************************************************************************)
(* FileSystem with crashes.  A call persists its metadata with separate   *)
(* sector writes; the machine may stop between two of them, and the next  *)
(* boot (FileSystem(FALSE)) opens the bitmap and root directory as they   *)
(* are on disk: there is no log and no check.  A crash before the first   *)
(* write or after the last is a plain call or none, and the writes Create *)
(* makes before its directory write go to sectors the disk still has free *)
(* and no entry names, so the crash points that change what the disk      *)
(* means are the one between the directory write and the bitmap write.    *)
(* This module takes the crash inside Remove(path) (directory 579, bitmap *)
(* 585), the call that the project checks under crashes.  Crashes inside  *)
(* Create/CreateDir (296-298, 371-373) and the flat Remove(name) (615,    *)
(* 616) are left out: the specification disclaims crash consistency, and  *)
(* no property of the code is claimed for them.  rm -r of a directory     *)
(* writes tables and bitmap copies level by level and is left atomic.     *)
(***************************************************************************)
EXTENDS FileSystem

\* Faulty variant: Remove(path) writing the bitmap before the directory.
CrashRemoveMapFirst(path) ==
    LET S == RemoveOp(Disk, path, FALSE)
    IN  /\ S.fault = NoFault
        /\ Persist([S EXCEPT !.tbl = tbl])

\* Remove(path, FALSE) of a file stops after directory->WriteBack, before
\* freeMap->WriteBack.
CrashRemove(path) ==
    LET S == RemoveOp(Disk, path, FALSE)
    IN  /\ S.fault = NoFault
        /\ Persist([S EXCEPT !.bm = freeMap])

\* Every call, and a crash inside Remove(path).
CrashNext ==
    \/ Next
    \/ \E p \in Paths : Callable(p) /\ CrashRemove(p)

CrashSpec == Init /\ [][CrashNext]_vars

====
