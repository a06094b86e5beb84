# TLA+ models of the NachOS file system and pthreads pipeline

This directory holds TLA+ models of the code under `src/`. The models are checked with TLC.

## 1. Inventory of the system

| Part | Source | State | Operations |
|---|---|---|---|
| Free-sector bitmap | NachOS base (`bitmap.cc`, `pbitmap.cc`), not in `src/` | one bit per sector, persisted in the free-map file (header in sector 0) | `Test`, `NumClear`, `FindAndSet`, `Clear`, `FetchFrom`/`WriteBack` |
| File header | `filehdr.cc` | `numBytes`, `numSectors`, `dataSectors[NumDirect]`; one sector per header | `Allocate`, `Deallocate`, `CleanDiskSector`, `FetchFrom`, `WriteBack`, `ByteToSector` |
| Directory | `directory.cc` | a table of `NumDirEntries` entries `[inUse, name, sector, isadirectory]`, stored as the content of a directory file | `FetchFrom`, `WriteBack`, `FindIndex`, `Find`, `Add`, `Remove`, `RecursiveRemove`, `List` |
| File system | `filesys.cc` | the disk: free map (sector 0), root directory (sector 1), headers and tables | format, `Create`, `CreateDir`, `Remove(path, recursive)`, `Remove(name)`, `OpenAFile`/`ReadFile`/`WriteFile`/`CloseAFile`, `List` |
| System calls | `part_001` lines 1-61 (`ksyscall.h`) | none | thin wrappers; `SysOpen` casts an `OpenFile*` to `OpenFileId` |
| Consumer controller | `part_001` lines 62-175 | the consumer list, the worker queue length, the check timer | `process`: scale up above the high threshold, down below the low one |
| Reader, main | `reader.hpp`, `main.cpp` | the remaining line count, the thread objects | reading items into the input queue; starting, joining and deleting threads |

### How the parts interact

A file-system call works in a fixed order:

1. It reads the root table.
2. It walks the path, fetching each component's table.
3. It takes an in-memory copy of the free map.
4. It allocates or deallocates header trees in that copy.
5. It writes back the headers, then the tables, then the bitmap.

`RecursiveRemove` does something different. For every entry it reads its own fresh copy of the free map and writes it back. The caller `Remove(path, TRUE)` has already loaded a copy before the recursion, and it writes that copy back afterwards.

### Hard behaviours in the code

- **Cross-level stale bitmaps:**
  - `filesys.cc:527` loads the free map before the recursion, and line 585 writes it back afterwards.
  - `directory.cc:204/216` does the same thing at every recursion level.
- **Headers:**
  - Index-node sectors are never freed (`filehdr.cc:181-186`).
  - The child count in `Deallocate` is only right for one level (`filehdr.cc:181`).
  - The free-space check ignores index sectors (`filehdr.cc:103`).
  - A child allocation's failure is dropped (`filehdr.cc:88`).
  - The `BYTES_4LEVEL` branch is an `if`, not part of the `else if` chain (`filehdr.cc:106/117`).
- **Paths:**
  - Path walks do not check the type of inner components (`filesys.cc:514`).
  - An empty path makes `strtok` return NULL (`filesys.cc:499`).
- **Non-atomic calls:** each call persists its result in 2-3 separate disk writes, so a crash between them is possible.
- **Open files:** there is a single global open-file handle (`filesys.cc:455-470`).
- **Pthreads:** scale-up has no cap, scale-down cancels a consumer, and `main` deletes threads that are still running.

### Properties per part

- **Bitmap and disk:**
  - every sector owned by a reachable object is marked (`LiveSectorsAllocated`);
  - no sector is owned twice (`DisjointOwnership`);
  - every marked sector is owned (`NoLeak`).
- **Header:**
  - no kernel abort (`NoAbort`);
  - `ByteToSector` maps every byte of every live file to an owned, allocated sector, with one sector per block (`ByteToSectorSound`).
- **Directory and file system:**
  - all of the above are stated over the tree reachable from the root;
  - every call is a step of the abstract tree of spec 4.4 (`TreeRefinement`);
  - `List` and `List(path, TRUE)` print exactly that tree (`ListShowsTree`);
  - all of these hold when `Remove(path)` crashes between its directory and bitmap writes (`core` runs `CrashSpec`).
- **Open files and system calls:**
  - the kernel never uses a NULL or deleted handle for a user that uses only the ids it holds open (`HandleSafe`);
  - every `OpenFile` object allocated is reachable through an id the user holds (`NoLeakedOpenFile`, violated: the walk's directory objects leak);
  - opening the path of a live file returns a new handle on that file (`OpenFindsFile`).
- **Pipeline and consumer controller:**
  - the pipeline implements the abstract program of `AbstractPipeline`: no line is written before it is read, `main` returns only after all n lines are written, and under fair scheduling it does return (`PipelineRefinement`);
  - the program finishes (`ProgramTerminates`, checked where it fails: `small_input_hang`);
  - no thread uses an object after `main` deletes it (`NoUseAfterDelete`).

## 2. Modules

The modules build on each other in this order:

| Module | Models | State and actions |
|---|---|---|
| `PersistentBitmap` | the NachOS bitmap, modelled from its documented semantics (its code is outside `src/`) | a bitmap is the set of allocated sectors; `FindAndSet` returns the lowest clear sector |
| `FileHeader` | `filehdr.cc` | operators over a disk context `S = [bm, m, hdr, tbl, fault]`: `bm` is the persisted map, `m` is the call's in-memory copy, `hdr[s]` is sector `s` read as a header |
| `Directory` | `directory.cc` | tables as functions from slots to entries; the content of a directory is keyed by its header sector (`tbl[s]`) |
| `FileSystem` | `filesys.cc` | variables `freeMap`, `hdr`, `tbl`, `fault`; one action per call (see below) |
| `MCFileSystem` | model checking | constants, symmetry and view for TLC |
| `AbstractTree` | spec 4.4, what the file system promises | `tree`: path -> `[isDir, size]`; `CreateFile`, `CreateDir` add one entry under a directory, `RemoveSubtree` removes one entry and everything below it |
| `FileHandles` | `filesys.cc` 409-470, `ksyscall.h` (`part_001` 28-50) | `FileSystem` plus `heap` (live `OpenFile` objects -> header sector), `opfile`, `held` (ids the user holds open), `nextObj`, `access`, `hfault`; `SysCreate`, `SysOpen`, `SysWrite`, `SysRead`, `SysClose`, and `Command`: a kernel command (any `FileSystem` call) in a boot of its own |
| `MCFileHandles` | model checking | up to 3 `OpenFile` objects on the `MCFileSystem` disk |
| `FileSystemCrash` | `filesys.cc` 576-586, 142-148 | `FileSystem` plus a crash inside `Remove(path)` between its directory write and its bitmap write, then a boot without format |
| `MCFileSystemCrash` | model checking | the `MCFileSystem` disk; the `core` run |
| `ConsumerController` | `part_001` lines 62-175, `reader.hpp`, `main.cpp` | item counts per queue, the consumers vector (`"idle"`/`"busy"`), cancelled consumers still holding an item, written lines, `mainPc`, `ccUsed`; one action per thread step |
| `AbstractPipeline` | what `main.cpp` promises: `Reader(n, ...)`, `Writer(n, ...)`, `return 0` | `read`, `written`, `done`; `ReadLine`, `WriteLine` (only a line already read), `Exit` (only with all n written), weak fairness on each |
| `MCConsumerController` | model checking | `main.cpp`'s sizes scaled down with its percentages |

`FileHeader` details:
- `Allocate` keeps every branch of the code: the `NumClear` check, the separate `BYTES_4LEVEL` loop, the `else if` ladder on the decremented size, and the child result that is ignored.
- `Deallocate` recurses through `divRoundUp(numSectors, NumDirect)` children.

`Directory` details:
- `FetchFrom`/`WriteBack` reproduce the truncation of `ReadAt`/`WriteAt`: a slot beyond the file's length keeps its in-memory value.
- `RecursiveRemove` threads a fresh bitmap copy through each entry, as the code does.

`FileSystem` actions:
- `Create(path, size)` and `CreateDir(path)` model `Create`/`CreateDir`, including the "roll back to the last-level directory" walk.
- `Remove(path, recursive)` models `Remove(name, Recursive)`, including the free map loaded before `RecursiveRemove`.
- `RemoveName(name)` models the flat `Remove(name)`.
- The system is single-threaded, so each call is one atomic step.
- `ListWalk`, `FsList` and `FsRecursiveList` model `List(path, recursive)` and `List()` as the lines they print: `[depth, name, isDir]` per line of `Directory::RecursiveList`, the names of `Directory::List`. They change no state and are checked as an invariant.

Refinement (`TreeRefinement`):
- `AbsTree` maps the disk to the abstract tree: every entry reachable from the root, with its kind and the `numBytes` of its header.
- `ABS == INSTANCE AbstractTree WITH tree <- AbsTree, ...`, and `ABS!Spec` is checked as a property of `core`.
- A failed call leaves the tree unchanged, which is a stuttering step of the abstract spec.
- Which path a call names is not part of the abstract state. So `Create` adding the first missing component rather than the last one (spec 9) is still a legal abstract step.

Refinement (`PipelineRefinement`):
- `PIPE == INSTANCE AbstractPipeline WITH read <- Lines - toRead, written <- written, done <- exited`, and `PIPE!Spec` is checked as a property of `pipeline`.
- Every queue, producer, consumer and controller step is a stuttering step of the abstract program; a `ReaderStep` is `ReadLine`, a `WriterStep` is `WriteLine`, `MainReturn` is `Exit`.
- The abstract fairness makes the liveness part: every line is read and written, and `main` returns.

`FileHandles` details:
- `OpenWalk` is `OpenAFile`'s own walk. It descends while a component is found and is a directory. Then it looks up the component it stopped at, or the last component if it descended through all of them (`prevToken`).
- Each descent is `currentDirFile = new OpenFile(sector)` (`filesys.cc:433`), never deleted. `OpenWalk` returns the header sectors of those objects, and `SysOpen` adds them to `heap` (`DirObjects`) before the file's own object, failed opens included.
- `SysOpen` stores the result in `opfile`, NULL included, and returns the new object as the id.
- `SysWrite` and `SysRead` use `opfile` whatever id they are given. `SysClose` deletes `opfile` and leaves it dangling.
- The user only passes ids it holds open and does not use an id after closing it. With `OneOpenFile` it closes each file before opening the next one.
- File data is not modelled: a read or write is the use of the handle.
- `opfile` is never initialised by the constructor. Under this user discipline it is not read before the first open.
- A user program's only disk-changing call is `SysCreate` (`ksyscall.h` has no remove, mkdir or list call, and the project README lists `Create`, `Open`, `Read`, `Write`, `Close` as the file system calls). `Remove`, `CreateDir` and `List` are kernel command-line operations that run in a boot before any user program. `Command` is such a call followed by a fresh handle state. So a file cannot be removed while a user program holds it open.

`FileSystemCrash` details:
- A crash before a call's first write is no call. A crash after its last write is the whole call.
- The writes `Create` makes before its directory write go to sectors that are still free on disk and that no entry names. So the crash point that changes what the disk means is the one between the directory write and the bitmap write.
- `Create`/`CreateDir` write the header, the directory, then the bitmap. `Remove(path)` writes the directory, then the bitmap. The flat `Remove(name)` writes the bitmap, then the directory.
- `rm -r` of a directory interleaves table and bitmap writes level by level, and is kept atomic.
- After a crash the next boot (`FileSystem(FALSE)`) only opens the two files. Nothing is checked or repaired.

Aborts and faults:
- A failed `ASSERT`, a disk request for a sector outside the disk, an overrun of `dataSectors` or unbounded recursion is recorded in `fault`.
- Undefined behaviour is recorded as `"ub"` (`isadirectory` of a missing name indexes `table[-1]`).
- In every case the writes done before the abort stay on disk.

`ConsumerController` details:
- `ControllerCheck` is one elapsed check period of `ConsumerController::process`. It scales up above `high_threshold`, or else scales down below `low_threshold` while more than one consumer runs. The period itself is abstracted: a check may happen at any moment.
- `ReaderStep` is one iteration of `Reader::process`.
- `main` after starting the threads is three steps: `MainJoin` (both joins), `MainDelete` (the deletes of lines 61-71) and `MainReturn`, which ends every thread. The producer and consumer threads are blocked on empty queues once the writer has its lines, so they read none of the deleted objects.
- The controller thread never leaves its `while (true)` loop. `ControllerAfterDelete` is an iteration of it after `delete cc`: it reads `cc->check_period` through the deleted object.
- `TSQueue`, `Producer`, `Consumer` and `Writer` are not in the repository. They are modelled from their use in `main.cpp`: bounded blocking queues, and threads that move one item at a time. A cancelled consumer finishes the item it holds.
- The code puts no cap on scale-up. The model bounds the consumers vector by `MaxConsumers`.

Callers and paths:
- `Paths` are non-empty sequences of names.
- The constant `TypedPaths` restricts callers to paths whose existing inner components are directories. This is how a user of the shell commands calls the code.
- Without the restriction the model explores paths through regular files.

## 3. Runs

All runs use `MCFileSystem` with 2 names, `NumDirect = 2`, `SectorSize = 2`, and directories of 2 one-byte entries (one data sector each). The level thresholds are then 4/8/16/32 bytes, and a directory costs 2 sectors.

| Run | cfg | Expect | Shows |
|---|---|---|---|
| `core` | `MCFileSystemCrash.cfg` (module `MCFileSystemCrash`) | pass | 10 sectors, paths of depth 2, direct files of sizes 0/1/4, typed paths, every call and a crash inside any `Remove(path)` (`CrashSpec`). `TypeOK`, `LiveSectorsAllocated`, `DisjointOwnership`, `NoAbort` and `ListShowsTree` hold over 56,700 distinct states, and `TreeRefinement` holds on every step. This covers: full disks, full directories, nested `rm -r`, flat remove of a directory, create/remove of the same names at different depths, and sectors leaked by a crash. A crash in `Remove(path)` only leaks. |
| `handles` | `MCFileHandles.cfg` | pass | Files of 1 byte, up to 3 `OpenFile` objects, a user that closes each file before opening the next. `SysCreate` can happen while a file is open, and every kernel command between user programs. `HTypeOK` and `HandleSafe` hold, and `OpenFindsFile` holds on every step (15,509 distinct states). |
| `open_leak` | `MCFileHandlesOpenLeak.cfg` | violation of `NoLeakedOpenFile` | `mkdir /a` in a command boot, then a user program opens `/a/x`: the walk allocates an `OpenFile` for `/a`, which no id reaches and nothing deletes (`filesys.cc:433`). |
| `two_open_use_after_close` | `MCFileHandlesUseAfterClose.cfg` | violation of `HandleSafe` | A user holding two files: `create /a 1; open /a; open /b` fails and sets `opfile` to NULL, and `write(id of /a)` dereferences NULL. With both files open, `close(first)` deletes the second file's object, and `write(second)` then uses freed memory. |
| `rm_r_leak` | `MCFileSystemLeak.cfg` | violation of `NoLeak` | `mkdir /a; create /a/a 0; rm -r /a`: the stale bitmap written at `filesys.cc:585` re-marks `/a/a`'s header sector. |
| `index_leak` | `MCFileSystemIndexLeak.cfg` | violation of `NoLeak` | Creating and removing a 5-byte (one-level) file leaves both index sectors marked. |
| `overcommit` | `MCFileSystemOvercommit.cfg` | violation of `ByteToSectorSound` | `create a 0; create b 5`: the disk has 5 free sectors, which is enough for the data but not for the index nodes. `Create` still returns TRUE with a child full of -1 pointers. |
| `two_level_remove` | `MCFileSystemTwoLevel.cfg` | violation of `NoAbort` | On a 16-sector disk, removing a 9-byte (two-level) file indexes `dataSectors[2]`. |
| `file_as_dir` | `MCFileSystemFileAsDir.cfg` | violation of `LiveSectorsAllocated` | With untyped paths, `create /a 0; remove /a/a`: fetching the 0-byte `/a` as a directory reads nothing, so the table still holds the root's entries, `Find("a")` finds the root's `/a`, and `Remove` frees `/a` while the root still lists it. |

The pipeline runs use `MCConsumerController`. It has a worker queue of 5, which gives thresholds 1 and 4, the same 20%/80% as 40/160 out of 200. The reader and writer queues hold 2 items, and there are at most 3 consumers.

| Run | cfg | Expect | Shows |
|---|---|---|---|
| `pipeline` | `MCConsumerController.cfg` | pass | 5 lines, one more than the high threshold. `TypeOK` holds, and `PipelineRefinement` holds under weak fairness of every thread (213 distinct states): the pipeline implements `AbstractPipeline`, liveness included. The run covers scale-up to 3 consumers and the cancellation of a busy consumer. |
| `controller_use_after_delete` | `MCConsumerControllerUseAfterDelete.cfg` | violation of `NoUseAfterDelete` | The pipeline finishes, `main` joins the reader and the writer and deletes `cc`, and the controller thread's next loop iteration reads the deleted object before `main` returns. |
| `small_input_hang` | `MCConsumerControllerSmallInput.cfg` | violation of `ProgramTerminates` | With 4 lines the worker queue never exceeds the high threshold, so no consumer is ever started. With `main.cpp`'s sizes this happens for any input of at most 160 lines: the program hangs in `wr->join()`. |

### Why the bounds are enough

**Disk size:**
- 10 sectors leave 6 free after format. That is enough for two directory levels with a file inside, for the disk to fill up, and for a directory to fill up (2 slots).
- 16 sectors are needed for the smallest two-level file.

**Path depth:**
- Depth 2 is the smallest depth at which:
  - a walk descends into a directory,
  - `RecursiveRemove` recurses (it needs a directory inside a directory),
  - the last-level roll-back of `Create` happens.

**Symmetry and view:**
- Names are only compared for equality, so `SYMMETRY` over them is sound.
- `MCView` merges states that differ only in unreachable sectors. While `LiveSectorsAllocated` holds, those sectors are free or leaked. They are overwritten before any later read, or never read again.

### Mutants

Each property of `core` is broken by one plausible coding error:
- `Create` writing the new entry's table back to `lastLevelDirFile` instead of `currentDirFile` (`TreeRefinement`): the parent loses the directory the entry was added to;
- `RecursiveList` fetching a subdirectory into the table it is still walking (`ListShowsTree`);
- a `CleanDiskSector` buffer without value-initialisation (`TypeOK`);
- a `Directory::Remove` that keeps the slot in use (`LiveSectorsAllocated`);
- a direct allocation loop that searches the persisted map instead of the caller's copy (`DisjointOwnership`);
- a `Deallocate` direct loop bounded by `i <= numSectors` (`NoAbort`).

Each property of `handles` is broken by one plausible coding error:
- `new OpenFile(sector)` without the `sector >= 0` test (`HTypeOK`);
- a successful open that does not update `opfile` (`HandleSafe`);
- `OpenAFile`'s walk without the `isadirectory` test (`OpenFindsFile`).

`LiveSectorsAllocated` of `core` is also broken by `Remove(path)` writing the bitmap before the directory.

Each property of `pipeline` is broken by one plausible coding error:
- a reader enqueue that does not wait for room (`TypeOK`);
- `main` joining only the reader before it deletes and returns (`PipelineRefinement`): the program ends with lines unwritten.

### Fairness

The file-system model assumes no fairness. It states safety properties only, because the kernel makes no promise that further calls happen.

The pipeline assumes weak fairness of every thread's step: the reader, the producers, each consumer, the writer, the controller's loop (before and after `delete cc`) and `main`'s steps. Each is a pthread that the OS keeps scheduling while it can run. The controller busy-loops, so its check is always enabled.

## 4. Not modelled yet, and the plan

Next:
1. **Large files.** `Allocate` keeps the separate `BYTES_4LEVEL` `if` (`filehdr.cc:106/117`). For a file above `BYTES_4LEVEL`, the ladder then runs on the decremented size, and the direct loop runs with the original `numSectors` and overruns `dataSectors`. Showing this needs a disk with more than `NumDirect^4` free data sectors (about 40 sectors on the model disk) and a run of its own. The project README (`part_000`) gives 100 MB as the largest file size. No check in `Create` refuses a larger file on a disk with room for it.
2. **Empty paths** (`strtok` returning NULL, `filesys.cc:499`). `Find(NULL)` passes NULL to `strncmp` and `Add(NULL, ...)` to `strncpy`. `Remove` also reads the uninitialised `sector`. Modelling these calls as kernel crashes would need paths of length 0 and a run of their own.

Parts left out:
- **`Print`.** It only produces output. `FileHeader::PrintRecursive` always descends four levels, and for smaller files it reads data sectors as headers (`filehdr.cc:407`). In the model file data stays zero, so those reads see empty headers.
- **File data.** `OpenFile::ReadAt`/`WriteAt` are outside `src/`, and no property here depends on byte contents.
- **Concurrent file-system calls.** The code assumes there is no concurrent access (`filesys.cc:183`). The scheduling of several user programs is outside `src/`, so every call is one atomic step.
- **Removing an open file.** This cannot happen: a user program has no remove call, and commands run in boots of their own. The `Command` action drops every open-file object.
- **Converse of `OpenFindsFile`.** A directory path can also open another object: `Open("/b")` for a directory `/b` holding `b` opens `/b/b` (`filesys.cc:441`). This was found while modelling `OpenAFile`. It is listed as a hazard, with no run of its own.
- **Unbounded scale-up** (`part_001:158`). The model bounds the consumers vector by `MaxConsumers`.
- **Items lost at scale-down** (`part_001:167`). Whether `cancel()` lets a busy consumer finish its item is decided in `Consumer`, whose code is not in the repository. The model assumes it does (`RetiredPut`), so no property about lost items is checked: it would hold by that assumption alone.
- **Crashes inside `Create`, `CreateDir` and the flat `Remove(name)`** (`filesys.cc:296-298`, `615-616`). A crash between their directory and bitmap writes leaves a listed entry over free sectors. The specification (sections 1 and 5) and `filesys.cc:38-40` disclaim crash consistency, so no property of the code covers these crashes. Only the crash inside `Remove(path)` is checked, in `core`.
- **A negative line count** (`reader.hpp:51`). `while (expected_lines--)` does not stop for a negative `n`. The model takes `n` in `Nat`, as the program's usage states.

This was the last planned sitting. The two items under "Next" are the only parts left that can be modelled faithfully. Each needs a run of its own, and the project already has the twelve runs it keeps.
