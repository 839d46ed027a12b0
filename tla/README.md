# TLA+ models of the xv6 VFS core (xv6-fs-lab)

These modules model the virtual-file-system layer of the teaching kernel in
`src/kernel/fs/`. That layer has four parts:

- the syscall layer, `sysfile.c`;
- the in-memory inode table and path resolution, `fs.c`;
- the file table, `file.c`;
- the xv6fs implementation of the VFS operation table, `xv6fs/defs.h`.

Each module is translated from that code. `PROJECT.json` maps every definition
to the source lines it models.

## The system and how its parts interact

| Part | Source | State | Operations |
|---|---|---|---|
| Syscall layer | `sysfile.c` | per task: `ofile[NOFILE]`, `cwd` | `sys_open/close/dup/link/unlink/mkdir/mknod/chdir` and the helpers `create`, `fdalloc`, `argfd`; also `sys_read/write/fstat/pipe/exec` |
| Inode table | `fs.c` | `itable.inode[NINODE]`: `ref`, `private`, sleep-lock, cached `type`/`nlink`/`size` | `iget`, `idup`, `ilock`, `iunlock`, `iput`, `iunlockput` |
| Path resolution | `fs.c` | none of its own | `skipelem`, `namex`, `namei`, `nameiparent` |
| File layer | `file.c`, `xv6fs_open`/`xv6fs_close` | `ftable.file[NFILE]`: `ref`, `op`, `inode`, `off`, `private` | `filealloc`, `filedup`, `fileclose`, `fileread`, `filewrite`, `filestat` |
| xv6fs | `xv6fs/defs.h` | the disk: dinodes, directory blocks, the block bitmap | `ialloc`, `iupdate`, `geti`, `update_lock`, `release_inode`, `free_inode`, `dirlookup`, `link`, `unlink`, `isdirempty`, `balloc`, `bfree`, `bmap`, `itrunc`, `readi`, `writei` |

A syscall resolves a path through `namex`. `namex` starts from the root (`iget`)
or from the task's cwd (`idup`). For each element it calls `dirlookup`, which
`geti`s the child, and then `iunlockput`s the directory it came from.
Directory changes go through the operation table (`link`, `unlink`,
`write_inode`). `iput` frees an inode on disk when it drops the last reference
to an inode without links. Open files reference their inode, and `fileclose`
puts that reference when the file's own count reaches zero.

Tasks run on several CPUs and can be preempted. The code takes no spinlock
around the itable or the ftable. A task blocks only in `acquiresleep` and in
disk I/O. No syscall runs inside a log transaction: `bwrite` goes straight to
the disk.

### Hard behaviours of this code

- **Error paths after partial work.**
  - `sys_link` rolls back `nlink++` on failure.
  - `create` zeroes the new inode's `nlink` when linking it fails.
  - `sys_open` takes the fdalloc-failure path after `filealloc`.
- **Removed directories that are still in use.** A task's cwd may be
  `rmdir`ed, and its stale `..` keeps naming the old parent.
- **Resources running out.** Free disk blocks (`balloc`), free disk inodes
  (`ialloc`), the file table, the descriptor table, directory growth up to
  MAXFILE, and kernel pages.
- **Concurrency.** Unsynchronised reference counts on different CPUs, and
  sleep-lock ordering.
- **Crashes** between two unlogged disk writes of one syscall.

## Modules

### `SysFile.tla`: the name space, the inode table and the file table

**State.**

| Variable | What it holds | Code it stands for |
|---|---|---|
| `inode[i]` | one record per disk inode: `type`, `nlink`, `ents`, `ref`, `majorok` | `type` and `nlink` are the dinode. `ents` is the directory's sequence of `(inum, name)` slots. `ref` is the itable count. `majorok` abstracts the device major number. |
| `ftable[f]` | `ref`, `ip`, `op` | `op` says whether `f->op` has been set. |
| `ofile[p][fd]` | the file a descriptor names | per-task descriptor table |
| `cwd[p]` | the task's working directory | `p->cwd` |
| `hung[p]` | the inode a task blocks on forever | a task stuck in `acquiresleep` on its own lock |
| `panicked` | whether the kernel has panicked or trapped | |

Every on-disk change in the code is followed by `write_inode` or `writei`, so
`type`, `nlink` and `ents` are both the disk and the cache. The in-memory
record exists exactly when `ref > 0`: the code's `private != 0`.

**Actions.** There is one action per syscall, and each runs as one atomic
step:

- `sys_open`, `sys_close`, `sys_dup`, `sys_link`, `sys_unlink`, `sys_mkdir`,
  `sys_mknod`, `sys_chdir`.

Each action includes every call the handler makes. Helpers return the new inode
table, so a handler composes them in the code's order:

- `Walk` (the `namex` loop, `RECURSIVE`) and `Namex`;
- `IGet` and `IPut`;
- `DirLookup`, `Link`, `Unlink` and `IsDirEmpty`;
- `IAlloc`;
- `Create`, split into the steps of `create`: `CreateIn`,
  `CreateExisting`, `DirDots`, `LinkIf` and `CreateDone`;
- `OpenLookup` and `OpenFile`, the two halves of `sys_open`, and
  `FdallocFailed`, its error path when `fdalloc` fails after `filealloc`;
- `argfd`, the descriptor check of `sys_close` and `sys_dup`, and `filedup`,
  which panics on a file with no references;
- `FileClose`.

The record sets `Inode` and `File` give the fields of `struct inode` and
`struct file` (`vfs.h`) that the syscalls use, and `TypeOK` is stated with them.

Each step takes the previous step's result as a parameter and does not
re-evaluate it through a LET. This keeps the operator graph small enough for
TLC's coverage report.

**Abstractions.**

- A path is a pre-split record `[abs, elems]`.
- `Link` abstracts directory growth. An append that starts a new block needs
  one of the `room` free blocks that balloc can find, and `MaxDirSlots` is the
  MAXFILE bound. Each call chooses `room` with `\E`.
- A task that would block forever on a sleep-lock it already holds sets
  `hung`. From then on no action is enabled, as for a panic.

**Properties.**

| Property | What it says |
|---|---|
| `TypeOK` | Every variable has its type. |
| `RefCountsExact` | Each inode's `ref` equals its holders: the mount's hold on the root, the cwds, hung tasks and open files. |
| `LinkCountsExact` | `nlink` equals the number of entries in linked directories that name the inode. A child's `..` counts for its parent. |
| `FreedInodesUnreachable` | No linked directory names a freed inode, and no task or file holds one. |
| `UnlinkedInodesReclaimed` | An allocated inode without links is still referenced. Otherwise its last `iput` would have freed it. |
| `ParentLinks` | Every linked directory has `.` naming itself and `..` naming a linked directory that lists it. |
| `NamesUnique` | No linked directory has two in-use slots with the same name. |
| `NoPanicOrHang` | No syscall panics, traps or blocks forever. |
| `FileRefsExact` | While the kernel runs, each struct file's `ref` equals the number of descriptors, over all tasks, that name it. sys_open's fdalloc-failure path must give back the file it allocated. |

**Fault variants.** The module also defines fault variants, one per property of
a passing run: `IPutIgnoringNlink`, `IPutNeverFrees`, `IsDirEmptyFromFourth`,
`LinkNoNameCheck`, `FdallocFailed_no_fileclose`, `sys_close_keeping_fd`, `sys_link_no_rollback`,
`sys_unlink_any_type` and `sys_chdir_leaking_cwd`. Each one changes one
definition the way a plausible bug would, and TLC confirms that the property
then fails.

### `ITable.tla`: the inode table, step by step

`SysFile` runs each syscall as one step. `ITable` instead splits the inode
table's calls into the steps between which the code can lose the CPU or be
overtaken by another CPU: `iget` (`fs.c:173-208`), `xv6fs_geti` and
`xv6fs_update_lock` (`xv6fs/defs.h:728-793`), `ilock`, `iunlock` and `iput`
(`fs.c:229-320`), `xv6fs_iupdate`, `xv6fs_release_inode` and
`xv6fs_free_inode` (`xv6fs/defs.h:293-340`).

**State.**

| Variable | What it holds | Code it stands for |
|---|---|---|
| `itable[s]` | `inum`, `ref`, `private`, `type`, `nlink`, `lock` | `itable.inode[s]`. `private` is whether `ino->private` is non-null; `lock` is the holder of the sleep-lock or `NoTask`. |
| `disk[i]` | `type`, `nlink` | the dinode of inum `i` |
| `task[t]` | `pc`, `ino`, `s`, `idx`, `empty`, `seen`, `gets` | a kernel task's position in the calls above. `idx` and `empty` are `iget`'s loop variables; `seen` is a count read before a store (`ref++`, `ref--`). |
| `cpu` | the task that has the CPU, or `NoTask` | the scheduler, when `Preemptive = FALSE` |
| `panicked` | a panic or a trap on a null `private` | |

**Actions.** Each task runs the sequence of `sys_unlink` on a file: look up
the inode (`xv6fs_geti`), `ilock`, drop a link, `iupdate`, and
`iunlockput`. `GetPut` is the other path, `xv6fs_link`'s `iput` of an
existing name without locking it. There is one action per step:

- `iget`: `IGetScanHit`, `IGetScanMiss`, `IGetHit`, `IGetClaim`, `IGetFull`;
- `xv6fs_geti`: `GetiCached`, `GetiAlloc`, `GetiRead` (with `Load`);
- `ilock`: `ILockPanic`, `ILockCheck`, `ILockCached`, `ILockLoad`,
  `UpdateLockRead`;
- `sys_unlink`: `UnlinkPanic`, `DropLink`, `IUpdate`, `WriteTrap`;
- `iunlock`: `IUnlockPanic`, `IUnlock`;
- `iput`: `IPutUnloaded`, `IPutFree`/`IPutKeep`, `IPutFreeLock`,
  `IPutFreeWrite`, `IPutRelease`/`IPutNoRelease`, `IPutRelLock`,
  `IPutRelWrite`, `IPutDecRead`, `IPutDecWrite`.

`ref++` and `ref--` are a read and a write in separate steps, so on several
CPUs an update can be lost.

**Scheduling.** The constant `Preemptive` selects between two schedulers:

- `TRUE`: parallel kernel tasks with preemption, as spec 4.1 describes. Any
  task may take the next step.
- `FALSE`: one CPU without kernel preemption. A task keeps the CPU until it
  sleeps in `bread`, in a contended `acquiresleep`, or returns. This is the
  weakest scheduler the kernel has, and the races it still shows do not need
  a second CPU.

**Properties.**

| Property | What it says |
|---|---|
| `TypeOK` | Every variable has its type. |
| `RefCountsExact` | Each slot's `ref` equals the number of tasks that hold it. No run checks it, because the `ref = 1` stores at `defs.h:754` and `784` break it on one CPU. `FreeOnlyUnshared` checks their worst consequence. |
| `LockedViewFresh` | A task that holds an inode's lock sees that inode's dinode. |
| `EveryPutReturns` | Every started call returns, or the kernel panics (`~>`). |
| `ICacheRefinement` | The slot table implements `ICache`. |
| `FreeOnlyUnshared` | An action property: when `iput` writes a freed inode to disk, the freeing task is the slot's only holder. |

**Fairness.** `Spec` has weak fairness on each task's `Work` steps. The kernel
scheduler runs every runnable task, and a sleeping task becomes runnable when
its `bread` completes or its sleep-lock is released. Starting a new call
(`Start`) is a user's choice, so it has no fairness.

**Fault variants.** `DropLinkUnchecked` (the `nlink < 1` check removed) and
`IPutRelWriteKeepingLock` (`iput` never releases the sleep-lock) are the
mutants for `TypeOK` and `EveryPutReturns`.

### `ICache.tla`: the abstract inode cache

`ICache` is what the table promises: each slot is free or bound to one inum,
and no inum is bound to two slots. `Bind` is an `iget` that claims a slot and
`Unbind` is the `iput` that drops the last reference. `ITable` instances it
with `bound[s]` = the slot's inum while `ref > 0`, and checks `Cache!Spec` as
the property `ICacheRefinement`.

### `SkipElem.tla`: splitting a path

`SysFile` takes a path already split into elements. `SkipElem` checks that
split against the code: `skipelem` (`fs.c:377-404`) and the `namex` loop
that calls it (`fs.c:425`) over a path string, with the `DIRSIZ`-byte name
buffer that `namei` leaves uninitialised and every iteration reuses.

- **State**: `path`, the pointer `p`, the buffer `name`, `done`, and `got`,
  the buffer handed to `dirlookup` by each iteration together with the
  `*path == '\0'` test that `nameiparent` uses to stop one level early.
- **Actions**: `SkipElemNone` (no element left, return 0) and
  `SkipElemCopy` (copy one element, with `SkipSlashes`, `ElemEnd` and
  `CopyName`). The initial states are every path of up to `MaxPath`
  characters and every content of the buffer.
- **Reference**: `RefElems` splits the path into its maximal runs of
  non-slash characters. `DiskName` is the zero-padded name `strncpy` writes,
  and `StrNEq` is `strncmp(.., DIRSIZ) == 0`.
- **Properties**: `NamesAsSplit` says the i-th buffer matches exactly the
  on-disk names that agree with the i-th element in its first `DIRSIZ`
  characters, and that every element is seen. `LastOnlyAtEnd` says the
  last-element test holds only after the final element, also with trailing
  slashes.
- **Fault variants**: `ElemEndToNul`, `CopyNameNoTerminator` and
  `EmitNoTrailingSkip`.

### `Content.tla`: file contents, the block bitmap and the file offsets

`Content` models one regular file: its blocks, the block bitmap, and the
struct files through which tasks read and write it. It covers `balloc`,
`bfree`, `bmap`, `itrunc`, `readi` and `writei` (`xv6fs/defs.h:121-579`),
`fileread` and `filewrite` (`file.c:87-167`), and the `O_TRUNC` branch of
`sys_open`.

**State.**

| Variable | What it holds |
|---|---|
| `used` | the bitmap |
| `disk[b]` | the bytes of block `b`; in the indirect block, these are block addresses |
| `addrs`, `size` | the inode's `addrs[0..NDIRECT]` and `size` |
| `other` | the blocks another file holds (none, or `Foreign`) |
| `lock` | the inode's sleep-lock |
| `off[f]` | `f->off` of struct file 0, which the tasks share through `dup`, and of each task's own file |
| `task[t]` | the current call's step and locals |

**Actions.**

- Each call is split at its locks: lock, then work under the lock, then
  unlock.
  - `filewrite`: `FileWrite`, `FwLock`, then `FwWrite` or
    `FwWriteRejected`, then `FwUnlockNext` or `FwUnlockDone`. There is one
    round per chunk of at most `MaxChunk` bytes.
  - `fileread`: `FileRead`, `FrLock`, then `FrRead` or `FrReadPastEnd`,
    then `FrUnlock`.
  - `O_TRUNC`: `OpenTrunc`, `TrLock`, `Itrunc`, `TrUnlock`.
  - `sys_write` and `sys_read` start a `filewrite` or `fileread` with a good
    descriptor. They choose the file, `n`, and whether the user buffer is good.
- `writei` and `readi` run as one step under the lock. They are the
  recursive `WriteLoop` and `ReadLoop` over `Bmap`, which includes both
  levels and their `balloc` failures.
- Task `t` writes bytes of value `t`.
- A user buffer is good or bad. A bad buffer makes `either_copyin` or
  `either_copyout` fail.

**Properties.**

| Property | What it says |
|---|---|
| `TypeOK` | Every variable has its type. |
| `BlocksAccounted` | The bitmap marks exactly the inode's blocks and the other file's. No block is referenced twice, and every block under `size` is mapped. |
| `ReadReturnsBytes` | A read returns the file's bytes at its offset. With a good buffer it returns everything up to the end of the file that it asked for. |
| `AFileRefinement` | The file's bytes (`Bytes`, read through `Addr`) and the offsets implement `AFile`. |

**Fault variants.** `ReadDoneAnyR`, `ItruncKeepIndirect`,
`ReadStepBlockStart` and `FwLockNoWait`.

### `AFile.tla`: the abstract file

`AFile` is the file a task sees. Its content is a byte sequence, and each
struct file has an offset:

- a write puts `k` bytes at its file's offset, at most at the end of the
  file, and advances that offset by `k`;
- a read advances the offset by at most what is left;
- `open` with `O_TRUNC` empties the file and resets the opener's offset.

A failed or refused call is a stuttering step.

### `Crash.tla`: what a crash leaves on disk

`Crash` models the disk that the name-space calls write, and a crash between
any two of their block writes. There is no log, so the kernel reboots onto
whatever the disk holds.

**State.**

| Variable | What it holds |
|---|---|
| `dinode[i]` | inode `i`'s `type` and `nlink`, and its directory slots as a sequence of (inum, name) with inum 0 for a free slot |
| `sc` | the call in progress: its next step (`pc`), `dp`, `ip`, the name, and the type |
| `ops`, `crashes` | counts of calls and crashes |
| `panicked` | a kernel panic was raised |

**Actions.** There is one action per `bwrite` boundary, in the order of the
code:

- **`create`** (for `sys_mkdir` and `sys_mknod`):
  - `CreateAlloc`: `ialloc` writes type 3.
  - `CreateInit`: `nlink = 1` and the real type.
  - `CreateDot`, `CreateDotDot`: the new directory's `.` and `..`.
  - `CreateLink`: the name in `dp`.
  - `CreateParentNlink`: `dp->nlink++`.
  - The fail path is `CreateLinkFail` then `CreateFailPut`.
  - An existing name, or no free inode, ends the call at once.
- **`sys_unlink`**:
  - `UnlinkEntry` clears the slot.
  - For a directory, `UnlinkDirNlink` then decrements `dp->nlink`.
  - `UnlinkPutDp` is `iput(dp)`.
  - `UnlinkNlink` and `UnlinkPutIp` do the same for the inode.
  - The early exits are a missing name, a non-empty directory, and the
    `nlink < 1` panic.
- **`sys_link`**: `LinkStart` does `nlink++`. Then either `LinkEnter`, or
  `LinkFail` and `LinkFailPut` for the rollback.
- **`iput`**: every last put of an inode with no links frees it with one
  write (`FreeIfUnlinked`).
- **`Crash`**: drops the call in progress and keeps the disk.

**Simplifications.**

- One task issues calls in sequence. Concurrency is SysFile's and ITable's
  concern.
- The parent of a call is any directory reachable from the root (`Reachable`,
  using Graphs' `Descendants`). This stands for `nameiparent`'s walk.
- Block allocation inside `writei` succeeds (Content models its failures).
  A directory stops at `MaxDirSlots` entries.

**Properties.** `NoDanglingEntry`: every in-use entry of a reachable
directory names an allocated inode. It holds without crashes. With one crash,
`crash_mkdir` shows a violation: `create` writes the child's `..` before the
parent's `nlink++`, so the disk can undercount the parent's links, and a later
`rmdir` frees the parent while it is still named.

A crash inside `sys_link` (after `nlink++`, before the entry) or inside
`sys_unlink` (after the entry is cleared, before `nlink--`) leaves `nlink`
one too high. The inode is then never freed. The model has these steps, but
no run checks a link-count property over `Crash`. That would need a
thirteenth run, so the leak is listed as a hazard only.

### `MC_SysFile.tla`

`MC_SysFile.tla` holds the path sets the configurations use:

- `MCPaths` has absolute and relative paths of depth up to 2, including `..`;
- `MCPathsAbs` has only the absolute ones, and `MCPathsRoot` adds `..` to them;
- `MCChdirRoot` and `MCChdirAny` are the chdir targets;
- `MCOpenModes` is `O_RDONLY`, `O_RDWR` and `O_CREATE|O_RDWR`.

## Runs

| Run | cfg | Expect | What it shows |
|---|---|---|---|
| `sysfile_safety` | `SysFile_pass.cfg` | pass | Two tasks, three inodes, names `a`/`b`, one struct file, two descriptors, chdir only to `/`, absolute paths and `..` (relative paths would repeat the absolute ones from `/`). All eight properties hold in every reachable state (about 5,700 states). |
| `open_error_path_disk` | `SysFile_fdfail.cfg` | pass | Two tasks, two struct files, one descriptor each, absolute paths, directories capped at 3 slots. sys_open's fdalloc-failure path runs in all three of its forms: trap, hang and double put. `FileRefsExact` holds: on the path that returns, `fileclose` gives the struct file back to the table. The cap makes the MAXFILE failure of `writei` reachable. A hung task really stops the system, so deadlock is not checked. |
| `open_double_put` | `SysFile_open_double_put.cfg` | violation | `RefCountsExact` fails after 4 syscalls. A file slot is used and closed, then sys_open's fdalloc fails in it, and the error path puts the inode twice. |
| `create_in_removed_cwd` | `SysFile_create_in_removed_cwd.cfg` | violation | `LinkCountsExact` fails: `mkdir /a; chdir /a; unlink /a; open("b", O_CREATE)`. The new inode is linked only from a directory no path reaches. |
| `dotdot_of_removed` | `SysFile_dotdot_of_removed.cfg` | violation | `FreedInodesUnreachable` fails: `mkdir /a; mkdir /a/b; chdir /a/b; unlink /a/b; unlink /a; open("..")`. The open returns a file on a freed inode. |
| `itable_progress` | `ITable_smp_liveness.cfg` | pass | Two tasks, preemptive, one inum, one slot, two calls per task. `TypeOK` holds, and under fairness every call returns or panics: `iput`'s sleep-lock wait always ends (about 46,000 states). Deadlock is not checked: the bounded tasks do stop, and a task stuck forever breaks `EveryPutReturns`. |
| `skipelem_split` | `SkipElem_split.cfg` | pass | Every path of up to 5 characters over `a`, `b` and `/`, every initial 2-byte buffer (`DIRSIZ = 2`, so elements of 2 and 3 characters are unterminated and truncated). The buffers match the reference split, and the last-element test is exact (4,214 states). Deadlock is not checked: the loop ends. |
| `content_safety` | `Content_safety.cfg` | pass | Two tasks, each making two calls of 1 or 2 bytes on the shared or its own file, or an `O_TRUNC` open. Blocks of 2 bytes, one direct and two indirect entries, and 3 blocks on a disk that is empty or has block 2 taken. All four properties hold, including the refinement (about 311,000 states). |
| `crash_mkdir` | `Crash_mkdir_crash.cfg` | violation | One task, three inodes, three calls, one crash. `NoDanglingEntry` fails after `mkdir /a`, `mkdir /a/a`, a crash before `/a`'s `nlink++` reaches disk, and `rmdir /a/a`: the last `iput` of `/a` frees it while `/` still names it. With no crash the property holds (314 states). |
| `itable_free_while_held` | `ITable_free_while_held.cfg` | violation | One CPU, one inum, one slot, two calls per task. `FreeOnlyUnshared` fails after 31 steps. t2 takes a reference while t1's release sleeps in `write_inode`. t1 then looks the inode up again, and `geti` (`defs.h:754`) stores `ref = 1` after its `bread`, erasing t2's reference. t1 unlinks the inode, and `iput` frees it on disk while t2 still waits in `ilock`. |
| `itable_load_race` | `ITable_load_race.cfg` | violation | One CPU. A task locks an inode while its first `geti` sleeps in `bread`, and sees `nlink 0`. |
| `itable_cache_refinement` | `ITable_cache_refinement.cfg` | violation | One CPU, two inums, two slots, three calls per task. `update_lock`'s `ref = 1` revives a freed slot whose inum is already cached in another slot. |

These seven violations are bugs in the code, or disagreements between the
code and the spec (`crash_mkdir`: the spec puts every such syscall in a log
transaction, and the code has none). `PROJECT.json` lists them under
"findings".

Two more bugs have no run, because the project is limited to twelve runs.
Both are listed as hazards.

- **The null op pointer.** When fdalloc fails in a file slot that no earlier
  open used, `sys_open`'s error path calls `fileclose` through an `op` that
  is still null (`sysfile.c:420`). This is the same error path as
  `open_double_put`. `open_error_path_disk` reaches the trap, and
  `NoPanicOrHang` under that run's cfg fails after two syscalls.
- **`iget` without a lock.** `iget` scans and claims slots without the
  itable spinlock that the comment at `fs.c:106-109` and spec 3 require
  (`fs.c:181`). On two CPUs, two tasks looking up the same inum can cache it
  in two slots. With `Preemptive = TRUE`, `Inum = {1, 2}` and `NINODE = 2`,
  TLC finds a state where two live slots hold the same inum. With one slot,
  both tasks claim it, and `FreeOnlyUnshared` fails.

### The bounds, and why they are enough

- **Three inodes** are the root plus two more. That allows a directory
  inside a directory, a file beside a directory, and running out of inodes.
- **Two names** give two distinct entries per directory and a collision on the
  third.
- **Path depth 2** reaches `/a/b` and relative walks through `..`.
- **Two tasks** let one task hold a file or a cwd while the other removes it.
- **`EntsPerBlock = 2`** makes every second append need a new block, so the
  `balloc` failure is reachable inside `create` after `.` and `..` were written.
- **`MaxDirSlots`**:
  - 4 in the safety run, which two names never reach;
  - 3 in the error-path run, where a directory holding `.`, `..` and one name
    is full.
- **`room` per call**: 0..1 for files and links, and 0..2 for mkdir, which
  needs up to two blocks. These are the counts that decide the outcome of
  `balloc`.

For `ITable`:

- **Two tasks** are enough for every race found: one task sleeps or is
  overtaken, and the other changes the slot.
- **One slot and one inum** in the liveness run keep the preemptive state
  space small while every path of `iput` (free, release, early return) is
  reached. The violation runs use two slots, because a duplicate needs
  two, and two inums, so that a slot can be recycled.
- **`MaxGets`**: 2 calls per task, or 3 for the refinement run, where the
  revival needs one task to get the inode three times.

For `SkipElem`, `DIRSIZ = 2` with paths of 5 characters has the same
boundary cases as 14 with 17: elements shorter than, equal to and longer
than the buffer, several elements, and leading, doubled and trailing slashes.

For `Content`:

- **Two bytes per block and `MaxChunk = 1`** make a call of 2 bytes take
  two chunks, and let a chunk start in the middle of a block.
- **One direct block and two indirect entries** give a file of 6 bytes
  that uses both levels of `bmap`.
- **Three blocks** run out inside the indirect range. On the empty disk
  they run out at the second entry. With block 2 taken by another file
  (`Foreign`) they run out at the first entry, after the indirect block
  was allocated.
- **Two calls per task** over the shared and the own files allow a write,
  another task's chunk, a read and a truncation in any order.

For `Crash`:

- **Three inodes** allow a directory inside a directory below the root.
- **Three calls and one crash** are the shortest form of the hazard: two
  `mkdir`s, with the crash inside the second, then one `rmdir`.

### Fairness

`SysFile` assumes none: its properties are safety properties, and each syscall
is one atomic step. `ITable` assumes weak fairness per task, as described
above.

## What is not modelled yet, and the plan

These are planned for the coming work, in this order:

1. **Kernel pages used by lookup dentries**: a bounded page count in `SysFile`.
   Every successful `dirlookup` allocates a dentry that nothing frees
   (`xv6fs/defs.h:616`).
2. **Two-lock paths in `ITable`**: `sys_unlink` holds the child's lock while
   it `iunlockput`s the parent, and `create` holds the parent's while it locks
   the child. ITable tasks hold one inode at a time, so the lock order is not
   checked yet.

These parts stay out of the model because the kernel treats them as external
collaborators, or because they only move bytes:

- the device and pipe branches of `fileread`/`filewrite`, and `sys_fstat`;
- `pipe` and `exec` (the pipe subsystem and the loader);
- the console driver;
- `oslabs.mk` (course submission tooling).
