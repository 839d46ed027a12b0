------------------------------- MODULE ITable -------------------------------
(***************************************************************************)
(* The in-memory inode table of fs.c and the inode loading of xv6fs        *)
(* (xv6fs/defs.h) as the separate steps of concurrent kernel tasks.        *)
(*                                                                         *)
(* Each task repeatedly runs the caller idiom of fs.c:                     *)
(*     ip = xv6fs_geti(dev, inum, 1); ilock(ip); ... iunlock(ip); iput(ip) *)
(* and, while holding the lock, may drop a link as sys_unlink does         *)
(* (ip->nlink--; write_inode).  Neither iget nor iput takes an itable      *)
(* spinlock: every read and write of ref, inum and private is a step of    *)
(* its own.  A task holds its slot from the store of its increment to the  *)
(* store of its decrement.                                                 *)
(*                                                                         *)
(* Scheduling: with Preemptive = FALSE there is one CPU and a task gives   *)
(* it up only where the code sleeps (bread, bwrite, a contended            *)
(* acquiresleep) or on return to user space.  With Preemptive = TRUE any  *)
(* task may take the next step (several CPUs, preemption in the kernel).   *)
(***************************************************************************)
EXTENDS Integers, FiniteSets

CONSTANTS
    Task,        \* kernel tasks
    Inum,        \* disk inode numbers the tasks look up
    NINODE,      \* slots of itable.inode[]
    MaxGets,     \* bound: get/put rounds per task
    Preemptive,  \* see above
    NoTask       \* model value: no task (free sleep-lock, idle CPU)

ASSUME NINODE \in Nat \ {0} /\ MaxGets \in Nat /\ Preemptive \in BOOLEAN
ASSUME NoTask \notin Task /\ 0 \notin Inum

Slot == 1..NINODE
T_FILE == 2

VARIABLES
    itable,    \* itable.inode[s]: inum, ref, private, type, nlink, lock
    disk,      \* the dinode of each inum: type, nlink
    task,      \* per task: pc, ino (inum asked for), s (slot), idx, empty, seen, gets
    cpu,       \* the task that holds the only CPU when Preemptive = FALSE
    panicked   \* a panic stopped the kernel

vars == <<itable, disk, task, cpu, panicked>>

(* Program points at which the code can sleep: before bread/bwrite. *)
IOPcs == {"geti_read", "ul_read", "iupdate", "free_write", "rel_write"}
(* Program points that call acquiresleep on the task's slot. *)
LockPcs == {"ilock_acq", "free_lock", "rel_lock"}
(* Program points at which the task's increment is stored and its       *)
(* decrement is not: the task holds a reference to its slot.            *)
HoldPcs == {"geti_check", "geti_read", "ilock", "ilock_acq", "ul_read", "locked",
            "iupdate", "unlock", "put", "free_lock", "free_write", "rel_check",
            "rel_lock", "rel_write", "dec", "dec_write"}

Holds(t, s) == task[t].pc \in HoldPcs /\ task[t].s = s
Holders(s) == {t \in Task : Holds(t, s)}

Init ==
    /\ itable = [s \in Slot |-> [inum |-> 0, ref |-> 0, private |-> FALSE,
                                 type |-> 0, nlink |-> 0, lock |-> NoTask]]
    /\ disk = [i \in Inum |-> [type |-> T_FILE, nlink |-> 1]]
    /\ task = [t \in Task |-> [pc |-> "idle", ino |-> 0, s |-> 0, idx |-> 1,
                               empty |-> 0, seen |-> 0, gets |-> 0]]
    /\ cpu = NoTask
    /\ panicked = FALSE

(* A task may step when the kernel is up and it may use a CPU. *)
Runs(t) == ~panicked /\ (Preemptive \/ cpu \in {t, NoTask})

(* The CPU after a step of t that leaves it at pc with its slot's lock   *)
(* held by lk: t keeps the CPU unless it is about to sleep in bread or    *)
(* bwrite, blocks in acquiresleep, or returns to user space.             *)
CpuAfter(t, pc, lk) ==
    IF Preemptive \/ pc \in IOPcs \cup {"idle"}
       \/ (pc \in LockPcs /\ lk \notin {NoTask, t})
    THEN NoTask ELSE t

(* Task t moves to record r; its slot's lock is then lk. *)
Move(t, r, lk) == task' = [task EXCEPT ![t] = r] /\ cpu' = CpuAfter(t, r.pc, lk)

Panic == panicked' = TRUE /\ UNCHANGED <<itable, disk, task, cpu>>

(* A caller resolves a name to inum i and calls xv6fs_geti(dev, i, 1),   *)
(* which enters iget with no empty slot remembered.                      *)
Start(t, i) ==
    /\ Runs(t)
    /\ task[t].pc = "idle" /\ task[t].gets < MaxGets
    /\ disk[i].nlink > 0
    /\ Move(t, [task[t] EXCEPT !.pc = "scan", !.ino = i, !.idx = 1,
                               !.empty = 0, !.gets = @ + 1], NoTask)
    /\ UNCHANGED <<itable, disk, panicked>>

(* One iteration of iget's scan finds the inum in use: it remembers the  *)
(* ref it read, to store the increment.                                  *)
IGetScanHit(t) ==
    LET r == task[t] IN
    /\ Runs(t)
    /\ r.pc = "scan" /\ r.idx <= NINODE
    /\ itable[r.idx].ref > 0 /\ itable[r.idx].inum = r.ino
    /\ Move(t, [r EXCEPT !.pc = "hit", !.s = r.idx, !.seen = itable[r.idx].ref], NoTask)
    /\ UNCHANGED <<itable, disk, panicked>>

(* One iteration of iget's scan misses, and remembers the first free slot. *)
IGetScanMiss(t) ==
    LET r == task[t] IN
    /\ Runs(t)
    /\ r.pc = "scan" /\ r.idx <= NINODE
    /\ ~(itable[r.idx].ref > 0 /\ itable[r.idx].inum = r.ino)
    /\ Move(t, [r EXCEPT !.idx = @ + 1,
                 !.empty = IF r.empty = 0 /\ itable[r.idx].ref = 0 THEN r.idx ELSE @],
            NoTask)
    /\ UNCHANGED <<itable, disk, panicked>>

(* ip->ref++ on a hit: the store of the value read plus one. *)
IGetHit(t) ==
    /\ Runs(t)
    /\ task[t].pc = "hit"
    /\ itable' = [itable EXCEPT ![task[t].s].ref = task[t].seen + 1]
    /\ Move(t, [task[t] EXCEPT !.pc = "geti_check"], itable[task[t].s].lock)
    /\ UNCHANGED <<disk, panicked>>

(* The scan ended without a hit: recycle the remembered free slot. *)
IGetClaim(t) ==
    LET r == task[t] IN
    /\ Runs(t)
    /\ r.pc = "scan" /\ r.idx > NINODE /\ r.empty # 0
    /\ itable' = [itable EXCEPT ![r.empty] = [@ EXCEPT !.inum = r.ino, !.ref = 1,
                                                       !.private = FALSE]]
    /\ Move(t, [r EXCEPT !.pc = "geti_check", !.s = r.empty], itable[r.empty].lock)
    /\ UNCHANGED <<disk, panicked>>

(* panic("iget: no inodes") *)
IGetFull(t) ==
    /\ Runs(t)
    /\ task[t].pc = "scan" /\ task[t].idx > NINODE /\ task[t].empty = 0
    /\ Panic

(* xv6fs_geti after iget finds private set: the inode counts as loaded   *)
(* and geti returns it.                                                  *)
GetiCached(t) ==
    /\ Runs(t)
    /\ task[t].pc = "geti_check" /\ itable[task[t].s].private
    /\ Move(t, [task[t] EXCEPT !.pc = "ilock"], itable[task[t].s].lock)
    /\ UNCHANGED <<itable, disk, panicked>>

(* The first getter (private == 0) kallocs and installs the private part *)
(* and then reads the dinode with bread.                                 *)
GetiAlloc(t) ==
    /\ Runs(t)
    /\ task[t].pc = "geti_check" /\ ~itable[task[t].s].private
    /\ itable' = [itable EXCEPT ![task[t].s].private = TRUE]
    /\ Move(t, [task[t] EXCEPT !.pc = "geti_read"], itable[task[t].s].lock)
    /\ UNCHANGED <<disk, panicked>>

(* The dinode is copied into the slot, and ino->ref = 1 (also the body   *)
(* of update_lock, which ilock calls when private == 0).                 *)
Load(e, d) == [e EXCEPT !.type = d.type, !.nlink = d.nlink, !.ref = 1]

GetiRead(t) ==
    LET r == task[t] IN
    /\ Runs(t)
    /\ r.pc = "geti_read"
    /\ itable' = [itable EXCEPT ![r.s] = Load(@, disk[itable[r.s].inum])]
    /\ Move(t, [r EXCEPT !.pc = "ilock"], itable[r.s].lock)
    /\ UNCHANGED <<disk, panicked>>

(* A caller that only checks a name puts the inode without locking it   *)
(* (xv6fs_link: an existing entry is found and put at once).            *)
GetPut(t) ==
    /\ Runs(t)
    /\ task[t].pc = "ilock"
    /\ Move(t, [task[t] EXCEPT !.pc = "put"], NoTask)
    /\ UNCHANGED <<itable, disk, panicked>>

(* ilock checks ref once, before it may block in acquiresleep: below 1  *)
(* it panics("ilock").                                                  *)
ILockPanic(t) ==
    /\ Runs(t)
    /\ task[t].pc = "ilock" /\ itable[task[t].s].ref < 1
    /\ Panic

ILockCheck(t) ==
    /\ Runs(t)
    /\ task[t].pc = "ilock" /\ itable[task[t].s].ref >= 1
    /\ Move(t, [task[t] EXCEPT !.pc = "ilock_acq"], itable[task[t].s].lock)
    /\ UNCHANGED <<itable, disk, panicked>>

(* ilock takes the free sleep-lock; the inode is already loaded. *)
ILockCached(t) ==
    LET r == task[t] IN
    /\ Runs(t)
    /\ r.pc = "ilock_acq"
    /\ itable[r.s].lock = NoTask /\ itable[r.s].private
    /\ itable' = [itable EXCEPT ![r.s].lock = t]
    /\ Move(t, [r EXCEPT !.pc = "locked"], t)
    /\ UNCHANGED <<disk, panicked>>

(* ilock takes the lock and finds private == 0: update_lock kallocs the  *)
(* private part and reads the dinode.                                    *)
ILockLoad(t) ==
    LET r == task[t] IN
    /\ Runs(t)
    /\ r.pc = "ilock_acq"
    /\ itable[r.s].lock = NoTask /\ ~itable[r.s].private
    /\ itable' = [itable EXCEPT ![r.s].lock = t, ![r.s].private = TRUE]
    /\ Move(t, [r EXCEPT !.pc = "ul_read"], t)
    /\ UNCHANGED <<disk, panicked>>

UpdateLockRead(t) ==
    LET r == task[t] IN
    /\ Runs(t)
    /\ r.pc = "ul_read"
    /\ itable' = [itable EXCEPT ![r.s] = Load(@, disk[itable[r.s].inum])]
    /\ Move(t, [r EXCEPT !.pc = "locked"], t)
    /\ UNCHANGED <<disk, panicked>>

(* sys_unlink on the locked inode: panic if nlink < 1, otherwise         *)
(* ip->nlink-- and write_inode.                                          *)
UnlinkPanic(t) ==
    /\ Runs(t)
    /\ task[t].pc = "locked" /\ itable[task[t].s].nlink < 1
    /\ Panic

(* Fault variant: nlink-- without the nlink < 1 check. *)
DropLinkUnchecked(t) ==
    /\ Runs(t)
    /\ task[t].pc = "locked"
    /\ itable' = [itable EXCEPT ![task[t].s].nlink = @ - 1]
    /\ Move(t, [task[t] EXCEPT !.pc = "iupdate"], t)
    /\ UNCHANGED <<disk, panicked>>

DropLink(t) ==
    /\ Runs(t)
    /\ task[t].pc = "locked" /\ itable[task[t].s].nlink >= 1
    /\ itable' = [itable EXCEPT ![task[t].s].nlink = @ - 1]
    /\ Move(t, [task[t] EXCEPT !.pc = "iupdate"], t)
    /\ UNCHANGED <<disk, panicked>>

(* xv6fs_iupdate: bwrite of the slot's type and nlink to the dinode. *)
Dinode(e) == [type |-> e.type, nlink |-> e.nlink]

IUpdate(t) ==
    LET s == task[t].s IN
    /\ Runs(t)
    /\ task[t].pc = "iupdate" /\ itable[s].private
    /\ disk' = [disk EXCEPT ![itable[s].inum] = Dinode(itable[s])]
    /\ Move(t, [task[t] EXCEPT !.pc = "unlock"], t)
    /\ UNCHANGED <<itable, panicked>>

(* iupdate and itrunc read the block addresses through ino->private: a   *)
(* write-back of a slot whose private is 0 dereferences a null pointer.  *)
WriteTrap(t) ==
    /\ Runs(t)
    /\ task[t].pc \in {"iupdate", "free_write", "rel_write"}
    /\ ~itable[task[t].s].private
    /\ Panic

(* iunlock: panic when the caller does not hold the lock or ref < 1. *)
IUnlockPanic(t) ==
    /\ Runs(t)
    /\ task[t].pc \in {"locked", "unlock"}
    /\ (itable[task[t].s].lock # t \/ itable[task[t].s].ref < 1)
    /\ Panic

IUnlock(t) ==
    /\ Runs(t)
    /\ task[t].pc \in {"locked", "unlock"}
    /\ itable[task[t].s].lock = t /\ itable[task[t].s].ref >= 1
    /\ itable' = [itable EXCEPT ![task[t].s].lock = NoTask]
    /\ Move(t, [task[t] EXCEPT !.pc = "put"], NoTask)
    /\ UNCHANGED <<disk, panicked>>

(* iput returns at once when private == 0, without dropping the ref. *)
IPutUnloaded(t) ==
    /\ Runs(t)
    /\ task[t].pc = "put" /\ ~itable[task[t].s].private
    /\ Move(t, [task[t] EXCEPT !.pc = "idle"], NoTask)
    /\ UNCHANGED <<itable, disk, panicked>>

(* The last reference to an inode without links: truncate and free. *)
IPutFree(t) ==
    LET e == itable[task[t].s] IN
    /\ Runs(t)
    /\ task[t].pc = "put" /\ e.private /\ e.ref = 1 /\ e.nlink = 0
    /\ Move(t, [task[t] EXCEPT !.pc = "free_lock"], e.lock)
    /\ UNCHANGED <<itable, disk, panicked>>

IPutKeep(t) ==
    LET e == itable[task[t].s] IN
    /\ Runs(t)
    /\ task[t].pc = "put" /\ e.private /\ ~(e.ref = 1 /\ e.nlink = 0)
    /\ Move(t, [task[t] EXCEPT !.pc = "rel_check"], NoTask)
    /\ UNCHANGED <<itable, disk, panicked>>

(* acquiresleep, then ip->type = 0. *)
IPutFreeLock(t) ==
    /\ Runs(t)
    /\ task[t].pc = "free_lock" /\ itable[task[t].s].lock = NoTask
    /\ itable' = [itable EXCEPT ![task[t].s].lock = t, ![task[t].s].type = 0]
    /\ Move(t, [task[t] EXCEPT !.pc = "free_write"], t)
    /\ UNCHANGED <<disk, panicked>>

(* trunc and write_inode put the freed dinode on disk; free_inode drops  *)
(* private; releasesleep.                                                *)
IPutFreeWrite(t) ==
    LET s == task[t].s IN
    /\ Runs(t)
    /\ task[t].pc = "free_write" /\ itable[s].private
    /\ disk' = [disk EXCEPT ![itable[s].inum] = Dinode(itable[s])]
    /\ itable' = [itable EXCEPT ![s].private = FALSE, ![s].type = 0, ![s].lock = NoTask]
    /\ Move(t, [task[t] EXCEPT !.pc = "rel_check"], NoTask)
    /\ UNCHANGED panicked

(* The last reference to a linked inode: write it back and release it. *)
IPutRelease(t) ==
    LET e == itable[task[t].s] IN
    /\ Runs(t)
    /\ task[t].pc = "rel_check" /\ e.ref = 1 /\ e.nlink > 0
    /\ Move(t, [task[t] EXCEPT !.pc = "rel_lock"], e.lock)
    /\ UNCHANGED <<itable, disk, panicked>>

IPutNoRelease(t) ==
    LET e == itable[task[t].s] IN
    /\ Runs(t)
    /\ task[t].pc = "rel_check" /\ ~(e.ref = 1 /\ e.nlink > 0)
    /\ Move(t, [task[t] EXCEPT !.pc = "dec"], NoTask)
    /\ UNCHANGED <<itable, disk, panicked>>

IPutRelLock(t) ==
    /\ Runs(t)
    /\ task[t].pc = "rel_lock" /\ itable[task[t].s].lock = NoTask
    /\ itable' = [itable EXCEPT ![task[t].s].lock = t]
    /\ Move(t, [task[t] EXCEPT !.pc = "rel_write"], t)
    /\ UNCHANGED <<disk, panicked>>

(* Fault variant: the release path returns without releasesleep. *)
IPutRelWriteKeepingLock(t) ==
    LET s == task[t].s IN
    /\ Runs(t)
    /\ task[t].pc = "rel_write" /\ itable[s].private
    /\ disk' = [disk EXCEPT ![itable[s].inum] = Dinode(itable[s])]
    /\ itable' = [itable EXCEPT ![s].private = FALSE, ![s].type = 0]
    /\ Move(t, [task[t] EXCEPT !.pc = "dec"], NoTask)
    /\ UNCHANGED panicked

(* write_inode, then release_inode drops private and type; releasesleep. *)
IPutRelWrite(t) ==
    LET s == task[t].s IN
    /\ Runs(t)
    /\ task[t].pc = "rel_write" /\ itable[s].private
    /\ disk' = [disk EXCEPT ![itable[s].inum] = Dinode(itable[s])]
    /\ itable' = [itable EXCEPT ![s].private = FALSE, ![s].type = 0, ![s].lock = NoTask]
    /\ Move(t, [task[t] EXCEPT !.pc = "dec"], NoTask)
    /\ UNCHANGED panicked

(* ip->ref--: a load, then the store of the value loaded minus one. *)
IPutDecRead(t) ==
    /\ Runs(t)
    /\ task[t].pc = "dec"
    /\ Move(t, [task[t] EXCEPT !.pc = "dec_write", !.seen = itable[task[t].s].ref], NoTask)
    /\ UNCHANGED <<itable, disk, panicked>>

IPutDecWrite(t) ==
    /\ Runs(t)
    /\ task[t].pc = "dec_write"
    /\ itable' = [itable EXCEPT ![task[t].s].ref = task[t].seen - 1]
    /\ Move(t, [task[t] EXCEPT !.pc = "idle"], NoTask)
    /\ UNCHANGED <<disk, panicked>>

(* The steps of a task inside the kernel, once it has started a lookup. *)
Work(t) ==
    \/ IGetScanHit(t) \/ IGetScanMiss(t) \/ IGetHit(t) \/ IGetClaim(t) \/ IGetFull(t)
    \/ GetiCached(t) \/ GetiAlloc(t) \/ GetiRead(t) \/ GetPut(t)
    \/ ILockPanic(t) \/ ILockCheck(t) \/ ILockCached(t) \/ ILockLoad(t) \/ UpdateLockRead(t)
    \/ UnlinkPanic(t) \/ DropLink(t) \/ IUpdate(t) \/ WriteTrap(t)
    \/ IUnlockPanic(t) \/ IUnlock(t)
    \/ IPutUnloaded(t) \/ IPutFree(t) \/ IPutKeep(t) \/ IPutFreeLock(t)
    \/ IPutFreeWrite(t) \/ IPutRelease(t) \/ IPutNoRelease(t) \/ IPutRelLock(t)
    \/ IPutRelWrite(t) \/ IPutDecRead(t) \/ IPutDecWrite(t)


(* The kernel stopped on a panic, or every task finished its rounds or  *)
(* has no name left to look up.                                         *)
Halted ==
    /\ \/ panicked
       \/ \A t \in Task : task[t].pc = "idle"
                        /\ (task[t].gets = MaxGets \/ \A i \in Inum : disk[i].nlink = 0)
    /\ UNCHANGED vars

Next == (\E t \in Task : Work(t) \/ \E i \in Inum : Start(t, i)) \/ Halted

(* A task in the kernel that may run is eventually run: the scheduler    *)
(* picks every runnable task.  Starting a new lookup is up to the user.  *)
Fairness == \A t \in Task : WF_vars(Work(t))

Spec == Init /\ [][Next]_vars /\ Fairness

-----------------------------------------------------------------------------
Pc == {"idle", "scan", "hit"} \cup HoldPcs

TypeOK ==
    /\ itable \in [Slot -> [inum : Inum \cup {0}, ref : Int, private : BOOLEAN,
                            type : {0, T_FILE}, nlink : 0..1, lock : Task \cup {NoTask}]]
    /\ disk \in [Inum -> [type : {0, T_FILE}, nlink : 0..1]]
    /\ task \in [Task -> [pc : Pc, ino : Inum \cup {0}, s : Slot \cup {0},
                          idx : 1..(NINODE + 1), empty : Slot \cup {0},
                          seen : Int, gets : 0..MaxGets]]
    /\ cpu \in Task \cup {NoTask}
    /\ panicked \in BOOLEAN

(* Each slot's ref is the number of tasks holding it: no increment or    *)
(* decrement is lost, and no load (geti, update_lock: ref = 1) overwrites *)
(* the count.                                                            *)
RefCountsExact == \A s \in Slot : itable[s].ref = Cardinality(Holders(s))

(* A task that holds an inode's sleep-lock sees the inode it asked for,  *)
(* with the type and link count on disk: geti and ilock never hand out a *)
(* slot whose load has not finished or that now caches another inum.     *)
LockedViewFresh ==
    \A t \in Task : task[t].pc = "locked" =>
        LET e == itable[task[t].s] IN
        e.inum = task[t].ino /\ Dinode(e) = disk[task[t].ino]

(* Every task that entered the kernel for a lookup returns from its iput, *)
(* unless the kernel panicked: no task waits forever on a sleep-lock.    *)
EveryPutReturns ==
    \A t \in Task : task[t].pc # "idle" ~> (task[t].pc = "idle" \/ panicked)

(* When iput writes a freed inode to disk (trunc, then write_inode with  *)
(* type 0, then free_inode), the freeing task is the only one holding the *)
(* slot: ref == 1 at iput's check must mean that no other task uses the    *)
(* inode, or is about to lock it, while its blocks are released.          *)
FreeOnlyUnshared ==
    [][\A t \in Task : task[t].pc = "free_write" /\ task'[t].pc # "free_write"
                      => Holders(task[t].s) = {t}]_vars

(* The table implements the atomic inode cache of ICache: a slot counts  *)
(* as live while its ref is positive.                                    *)
Cache == INSTANCE ICache WITH
    Slot <- Slot,
    bound <- [s \in Slot |-> IF itable[s].ref > 0 THEN itable[s].inum ELSE 0]

ICacheRefinement == Cache!Spec

=============================================================================
