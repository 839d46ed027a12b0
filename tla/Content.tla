------------------------------ MODULE Content ------------------------------
(***************************************************************************)
(* The contents of one regular file (src/kernel/fs/xv6fs/defs.h: balloc,   *)
(* bfree, bmap, itrunc, readi, writei) and the file layer's chunked        *)
(* filewrite and fileread over one struct file that several tasks share    *)
(* through dup (src/kernel/fs/file.c), with sys_open's O_TRUNC by another  *)
(* task on the same inode (src/kernel/fs/sysfile.c).                       *)
(*                                                                         *)
(* Everything between ilock and iunlock runs under the inode's sleep-lock. *)
(* The only other user of the block bitmap would be another inode, so the *)
(* bitmap is part of this model's state.  readi and itrunc run as one step *)
(* each; writei is one step too, taking the offset that filewrite read     *)
(* from f->off right after ilock.                                          *)
(***************************************************************************)
EXTENDS Integers, Sequences, FiniteSets

CONSTANTS
    Task,       \* the tasks sharing the struct file; task t writes bytes of value t
    NBLOCK,     \* data blocks the bitmap can hand out
    Foreign,    \* blocks another file may already hold when the system starts
    BSIZE,      \* bytes per block
    NDIRECT,    \* direct block addresses in an inode
    NINDIRECT,  \* addresses in the indirect block
    MaxChunk,   \* filewrite's max = ((MAXOPBLOCKS-1-1-2) / 2) * BSIZE
    MaxLen,     \* the largest byte count a task passes to read or write
    MaxOps,     \* the system calls each task makes
    NoTask

ASSUME /\ NBLOCK \in Nat \ {0} /\ BSIZE \in Nat \ {0} /\ Foreign \subseteq 1..NBLOCK
       /\ NDIRECT \in Nat \ {0} /\ NINDIRECT \in 1..BSIZE
       /\ MaxChunk \in Nat \ {0} /\ MaxLen \in Nat /\ MaxOps \in Nat
       /\ Task \subseteq Nat \ {0} /\ NoTask = 0

Block == 1..NBLOCK
\* File 0 is the struct file the tasks share through dup; file t is the one
\* task t opened itself.
Files == {0} \cup Task
MAXFILE == NDIRECT + NINDIRECT
Zero == [k \in 0..BSIZE-1 |-> 0]

VARIABLES
    used,    \* the block bitmap
    disk,    \* disk[b][k]: byte k of block b, or an address in an indirect block
    addrs,   \* ip->addrs[0..NDIRECT]; addrs[NDIRECT] is the indirect block
    size,    \* ip->size
    other,   \* the blocks other files hold in the same bitmap (constant)
    lock,    \* the holder of the inode's sleep-lock, or NoTask
    off,     \* off[f]: f->off of struct file f
    task,    \* per task: pc, the current call's arguments and progress
    panicked

vars == <<used, disk, addrs, size, other, lock, off, task, panicked>>

(* The part of the state bmap changes, and the address it returns. *)
St == [used |-> used, disk |-> disk, addrs |-> addrs, addr |-> 0, data |-> <<>>]

\* balloc: the first clear bit of the bitmap, 0 when there is none.
Balloc(u) == IF \E b \in Block : ~u[b]
             THEN CHOOSE b \in Block : ~u[b] /\ \A c \in 1..b-1 : u[c]
             ELSE 0

\* balloc sets the bit and zeroes the block (bzero); a is its result.
Take(st, a) == [st EXCEPT !.used[a] = TRUE, !.disk[a] = Zero, !.addr = a]

\* bmap's "if((addr = ip->addrs[k]) == 0) { addr = balloc(); ... }".
Slot(st, k, a) == IF a = 0 THEN [st EXCEPT !.addr = 0]
                  ELSE [Take(st, a) EXCEPT !.addrs[k] = a]
Ensure(st, k) == IF st.addrs[k] # 0 THEN [st EXCEPT !.addr = st.addrs[k]]
                 ELSE Slot(st, k, Balloc(st.used))

\* The same for entry j of indirect block ind; the entry is written back
\* only when balloc succeeded.
Entry(st, ind, j, a) == IF a = 0 THEN [st EXCEPT !.addr = 0]
                        ELSE [Take(st, a) EXCEPT !.disk[ind][j] = a]
InEntry(st, j) ==
    IF st.addr = 0 THEN st
    ELSE IF st.disk[st.addr][j] # 0 THEN [st EXCEPT !.addr = st.disk[st.addr][j]]
    ELSE Entry(st, st.addr, j, Balloc(st.used))

\* bmap(ip, bn); bn < MAXFILE in every call, as readi and writei check.
Bmap(st, bn) == IF bn < NDIRECT THEN Ensure(st, bn)
                ELSE InEntry(Ensure(st, NDIRECT), bn - NDIRECT)

\* m = min(n - tot, BSIZE - off%BSIZE)
Chunk(n, tot, o) == IF n - tot < BSIZE - (o % BSIZE) THEN n - tot ELSE BSIZE - (o % BSIZE)

\* either_copyin of m bytes of value v into block a at offset o % BSIZE,
\* then bwrite.
Fill(st, a, o, m, v) ==
    [st EXCEPT !.disk[a] = [k \in 0..BSIZE-1 |->
                               IF (o % BSIZE) <= k /\ k < (o % BSIZE) + m THEN v
                               ELSE st.disk[a][k]]]

(* writei's loop, from the state bmap leaves; it ends with addr = tot,   *)
(* the bytes written.  Over a bad user buffer (~good) either_copyin fails. *)
RECURSIVE WriteLoop(_, _, _, _, _, _), WriteStep(_, _, _, _, _, _)
WriteLoop(st, o, tot, n, v, good) ==
    IF tot >= n THEN [st EXCEPT !.addr = tot]
    ELSE WriteStep(Bmap(st, o \div BSIZE), o, tot, n, v, good)
WriteStep(bm, o, tot, n, v, good) ==
    IF bm.addr = 0 \/ ~good THEN [bm EXCEPT !.addr = tot]
    ELSE WriteLoop(Fill(bm, bm.addr, o, Chunk(n, tot, o), v),
                   o + Chunk(n, tot, o), tot + Chunk(n, tot, o), n, v, good)

(* readi's loop: it appends the bytes it copies out to st.data and ends   *)
(* with addr = tot, or -1 when either_copyout fails.                       *)
RECURSIVE ReadLoop(_, _, _, _, _), ReadStep(_, _, _, _, _)
ReadLoop(st, o, tot, n, good) ==
    IF tot >= n THEN [st EXCEPT !.addr = tot]
    ELSE ReadStep(Bmap(st, o \div BSIZE), o, tot, n, good)
\* Fault variant: the copy-out starts at the block's first byte, not at
\* off % BSIZE.
ReadStepBlockStart(bm, o, tot, n, good) ==
    IF bm.addr = 0 THEN [bm EXCEPT !.addr = tot]
    ELSE IF ~good THEN [bm EXCEPT !.addr = -1]
    ELSE ReadLoop([bm EXCEPT !.data = @ \o
                     [k \in 1..Chunk(n, tot, o) |-> bm.disk[bm.addr][k - 1]]],
                  o + Chunk(n, tot, o), tot + Chunk(n, tot, o), n, good)
ReadStep(bm, o, tot, n, good) ==
    IF bm.addr = 0 THEN [bm EXCEPT !.addr = tot]
    ELSE IF ~good THEN [bm EXCEPT !.addr = -1]
    ELSE ReadLoop([bm EXCEPT !.data = @ \o
                     [k \in 1..Chunk(n, tot, o) |-> bm.disk[bm.addr][(o % BSIZE) + k - 1]]],
                  o + Chunk(n, tot, o), tot + Chunk(n, tot, o), n, good)

\* The address block bn of the file maps to, without allocating.
Addr(bn) == IF bn < NDIRECT THEN addrs[bn]
            ELSE IF addrs[NDIRECT] = 0 THEN 0
            ELSE disk[addrs[NDIRECT]][bn - NDIRECT]

\* The file's bytes as readi returns them.
Bytes == [k \in 1..size |-> IF Addr((k-1) \div BSIZE) = 0 THEN 0
                            ELSE disk[Addr((k-1) \div BSIZE)][(k-1) % BSIZE]]

\* The blocks itrunc hands to bfree: the direct blocks, then the indirect
\* block's entries and the indirect block itself.
DirectSlots == 0..NDIRECT-1
EntrySlots == IF addrs[NDIRECT] = 0 THEN {} ELSE 0..NINDIRECT-1
Ref(sl) == IF sl[1] = "d" THEN addrs[sl[2]]
           ELSE IF sl[1] = "i" THEN addrs[NDIRECT]
           ELSE disk[addrs[NDIRECT]][sl[2]]
RefSlots == {<<"d", i>> : i \in DirectSlots} \cup {<<"i", 0>>}
                \cup {<<"e", j>> : j \in EntrySlots}
Refs == {Ref(sl) : sl \in RefSlots} \ {0}

\* bfree panics "freeing free block" on a block whose bit is clear, and
\* on the second free of a block listed twice.
BfreePanics ==
    \/ \E b \in Refs : ~used[b]
    \/ \E s1, s2 \in RefSlots : s1 # s2 /\ Ref(s1) # 0 /\ Ref(s1) = Ref(s2)

\* A task between calls, after ops calls; the locals of the last call are
\* dead and kept at their initial values.
Idle(ops) == [pc |-> "idle", f |-> 0, n |-> 0, i |-> 0, n1 |-> 0, good |-> TRUE,
              woff |-> 0, r |-> 0, got |-> <<>>, ops |-> ops]

\* The file starts empty; the disk holds no other file, or one in Foreign.
Init ==
    /\ other \in {{}, Foreign}
    /\ used = [b \in Block |-> b \in other]
    /\ disk = [b \in Block |-> Zero]
    /\ addrs = [k \in 0..NDIRECT |-> 0]
    /\ size = 0
    /\ lock = NoTask
    /\ off = [f \in Files |-> 0]
    /\ task = [t \in Task |-> Idle(0)]
    /\ panicked = FALSE

Run(t) == ~panicked
Go(t, r) == task' = [task EXCEPT ![t] = r]
Min2(a, b) == IF a < b THEN a ELSE b

(***************************************************************************)
(* filewrite (file.c:129-167) on a writable inode file.                   *)
(***************************************************************************)
FileWrite(t, f, n, good) ==
    /\ Run(t) /\ task[t].pc = "idle" /\ task[t].ops < MaxOps
    /\ Go(t, [task[t] EXCEPT !.pc = "fw_lock", !.f = f, !.n = n, !.i = 0,
                             !.n1 = Min2(n, MaxChunk), !.good = good,
                             !.ops = @ + 1])
    /\ UNCHANGED <<used, disk, addrs, size, other, lock, off, panicked>>

\* Fault variant: filewrite that does not wait for the sleep-lock.
FwLockNoWait(t) ==
    /\ Run(t) /\ task[t].pc = "fw_lock"
    /\ lock' = t
    /\ Go(t, [task[t] EXCEPT !.pc = "fw_write", !.woff = off[task[t].f]])
    /\ UNCHANGED <<used, disk, addrs, size, other, off, panicked>>

\* ilock(f->inode), then the argument f->off of the write call.
FwLock(t) ==
    /\ Run(t) /\ task[t].pc = "fw_lock" /\ lock = NoTask
    /\ lock' = t
    /\ Go(t, [task[t] EXCEPT !.pc = "fw_write", !.woff = off[task[t].f]])
    /\ UNCHANGED <<used, disk, addrs, size, other, off, panicked>>

\* writei (defs.h:546-581), then "if r > 0, f->off += r".
WriteDone(t, wl) ==
    /\ used' = wl.used /\ disk' = wl.disk /\ addrs' = wl.addrs
    /\ size' = IF task[t].woff + wl.addr > size THEN task[t].woff + wl.addr ELSE size
    /\ off' = IF wl.addr > 0 THEN [off EXCEPT ![task[t].f] = @ + wl.addr] ELSE off
    /\ Go(t, [task[t] EXCEPT !.pc = "fw_unlock", !.r = wl.addr])

FwWrite(t) ==
    /\ Run(t) /\ task[t].pc = "fw_write"
    /\ task[t].woff <= size
    /\ task[t].woff + task[t].n1 <= MAXFILE * BSIZE
    /\ WriteDone(t, WriteLoop(St, task[t].woff, 0, task[t].n1, t, task[t].good))
    /\ UNCHANGED <<other, lock, panicked>>

\* writei's "off > ip->size" and "off + n > MAXFILE*BSIZE" return -1.
FwWriteRejected(t) ==
    /\ Run(t) /\ task[t].pc = "fw_write"
    /\ \/ task[t].woff > size
       \/ task[t].woff + task[t].n1 > MAXFILE * BSIZE
    /\ Go(t, [task[t] EXCEPT !.pc = "fw_unlock", !.r = -1])
    /\ UNCHANGED <<used, disk, addrs, size, other, lock, off, panicked>>

\* iunlock; a short or failed chunk ends the call with -1, and the last
\* full chunk ends it with n.
FwUnlockDone(t) ==
    /\ Run(t) /\ task[t].pc = "fw_unlock"
    /\ task[t].r # task[t].n1 \/ task[t].i + task[t].r >= task[t].n
    /\ lock' = NoTask
    /\ Go(t, Idle(task[t].ops))
    /\ UNCHANGED <<used, disk, addrs, size, other, off, panicked>>

\* iunlock, "i += r", and the next chunk of at most max bytes.
FwUnlockNext(t) ==
    /\ Run(t) /\ task[t].pc = "fw_unlock"
    /\ task[t].r = task[t].n1 /\ task[t].i + task[t].r < task[t].n
    /\ lock' = NoTask
    /\ Go(t, [task[t] EXCEPT !.pc = "fw_lock", !.i = @ + task[t].r,
                 !.n1 = Min2(task[t].n - (task[t].i + task[t].r), MaxChunk)])
    /\ UNCHANGED <<used, disk, addrs, size, other, off, panicked>>

(***************************************************************************)
(* fileread (file.c:87-124) on a readable inode file.                     *)
(***************************************************************************)
FileRead(t, f, n, good) ==
    /\ Run(t) /\ task[t].pc = "idle" /\ task[t].ops < MaxOps
    /\ Go(t, [task[t] EXCEPT !.pc = "fr_lock", !.f = f, !.n = n, !.good = good,
                             !.got = <<>>, !.ops = @ + 1])
    /\ UNCHANGED <<used, disk, addrs, size, other, lock, off, panicked>>

FrLock(t) ==
    /\ Run(t) /\ task[t].pc = "fr_lock" /\ lock = NoTask
    /\ lock' = t
    /\ Go(t, [task[t] EXCEPT !.pc = "fr_read", !.woff = off[task[t].f]])
    /\ UNCHANGED <<used, disk, addrs, size, other, off, panicked>>

\* Fault variant: "f->off += r" also for r = -1.
ReadDoneAnyR(t, rl) ==
    /\ used' = rl.used /\ disk' = rl.disk /\ addrs' = rl.addrs
    /\ off' = [off EXCEPT ![task[t].f] = @ + rl.addr]
    /\ Go(t, [task[t] EXCEPT !.pc = "fr_unlock", !.r = rl.addr, !.got = rl.data])

\* readi (defs.h:510-539), then "if r > 0, f->off += r".
ReadDone(t, rl) ==
    /\ used' = rl.used /\ disk' = rl.disk /\ addrs' = rl.addrs
    /\ off' = IF rl.addr > 0 THEN [off EXCEPT ![task[t].f] = @ + rl.addr] ELSE off
    /\ Go(t, [task[t] EXCEPT !.pc = "fr_unlock", !.r = rl.addr, !.got = rl.data])

FrRead(t) ==
    /\ Run(t) /\ task[t].pc = "fr_read"
    /\ task[t].woff <= size
    /\ ReadDone(t, ReadLoop(St, task[t].woff, 0,
                            Min2(task[t].n, size - task[t].woff), task[t].good))
    /\ UNCHANGED <<size, other, lock, panicked>>

\* readi's "off > ip->size" returns 0.
FrReadPastEnd(t) ==
    /\ Run(t) /\ task[t].pc = "fr_read"
    /\ task[t].woff > size
    /\ Go(t, [task[t] EXCEPT !.pc = "fr_unlock", !.r = 0])
    /\ UNCHANGED <<used, disk, addrs, size, other, lock, off, panicked>>

FrUnlock(t) ==
    /\ Run(t) /\ task[t].pc = "fr_unlock"
    /\ lock' = NoTask
    /\ Go(t, Idle(task[t].ops))
    /\ UNCHANGED <<used, disk, addrs, size, other, off, panicked>>

(***************************************************************************)
(* sys_open(path, O_WRONLY|O_TRUNC) of the same inode through a new struct *)
(* file (sysfile.c:410-442): with the inode locked, itrunc when it is a    *)
(* regular file, then iunlock.  The new struct file, with f->off = 0,      *)
(* becomes the task's own file; the one it replaces was closed.            *)
(***************************************************************************)
OpenTrunc(t) ==
    /\ Run(t) /\ task[t].pc = "idle" /\ task[t].ops < MaxOps
    /\ Go(t, [task[t] EXCEPT !.pc = "tr_lock", !.ops = @ + 1])
    /\ off' = [off EXCEPT ![t] = 0]
    /\ UNCHANGED <<used, disk, addrs, size, other, lock, panicked>>

TrLock(t) ==
    /\ Run(t) /\ task[t].pc = "tr_lock" /\ lock = NoTask
    /\ lock' = t
    /\ Go(t, [task[t] EXCEPT !.pc = "tr_trunc"])
    /\ UNCHANGED <<used, disk, addrs, size, other, off, panicked>>

\* Fault variant: itrunc that forgets bfree of the indirect block.
ItruncKeepIndirect(t) ==
    /\ Run(t) /\ task[t].pc = "tr_trunc"
    /\ used' = [b \in Block |-> used[b] /\ (b \notin Refs \/ b = addrs[NDIRECT])]
    /\ addrs' = [k \in 0..NDIRECT |-> 0]
    /\ size' = 0
    /\ panicked' = BfreePanics
    /\ Go(t, [task[t] EXCEPT !.pc = "tr_unlock"])
    /\ UNCHANGED <<disk, other, lock, off>>

\* xv6fs_itrunc (defs.h:469-503): bfree every listed block, zero addrs,
\* size = 0, iupdate.  The indirect block's entries stay on its disk copy.
Itrunc(t) ==
    /\ Run(t) /\ task[t].pc = "tr_trunc"
    /\ used' = [b \in Block |-> used[b] /\ b \notin Refs]
    /\ addrs' = [k \in 0..NDIRECT |-> 0]
    /\ size' = 0
    /\ panicked' = BfreePanics
    /\ Go(t, [task[t] EXCEPT !.pc = "tr_unlock"])
    /\ UNCHANGED <<disk, other, lock, off>>

TrUnlock(t) ==
    /\ Run(t) /\ task[t].pc = "tr_unlock"
    /\ lock' = NoTask
    /\ Go(t, Idle(task[t].ops))
    /\ UNCHANGED <<used, disk, addrs, size, other, off, panicked>>

Len1 == 1..MaxLen

Work(t) ==
    \/ FwLock(t) \/ FwWrite(t) \/ FwWriteRejected(t)
    \/ FwUnlockDone(t) \/ FwUnlockNext(t)
    \/ FrLock(t) \/ FrRead(t) \/ FrReadPastEnd(t) \/ FrUnlock(t)
    \/ TrLock(t) \/ Itrunc(t) \/ TrUnlock(t)

(* sys_write and sys_read with a good descriptor: a file shared by all    *)
(* tasks (0) or the task's own; argint gives n, argaddr a user buffer that *)
(* copyin/copyout may find bad.  A bad descriptor returns -1 at once.      *)
sys_write(t) == \E f \in {0, t}, n \in Len1, good \in BOOLEAN : FileWrite(t, f, n, good)
sys_read(t) == \E f \in {0, t}, n \in Len1, good \in BOOLEAN : FileRead(t, f, n, good)

Call(t) == sys_write(t) \/ sys_read(t) \/ OpenTrunc(t)

\* Every task has made its calls, or the kernel has panicked.
Halted ==
    /\ panicked \/ \A t \in Task : task[t].pc = "idle" /\ task[t].ops = MaxOps
    /\ UNCHANGED vars

Next == (\E t \in Task : Work(t) \/ Call(t)) \/ Halted

Spec == Init /\ [][Next]_vars

-----------------------------------------------------------------------------
Pc == {"idle", "fw_lock", "fw_write", "fw_unlock", "fr_lock", "fr_read",
       "fr_unlock", "tr_lock", "tr_trunc", "tr_unlock"}

TypeOK ==
    /\ used \in [Block -> BOOLEAN]
    /\ disk \in [Block -> [0..BSIZE-1 -> ({0} \cup Task \cup Block)]]
    /\ addrs \in [0..NDIRECT -> {0} \cup Block]
    /\ size \in 0..MAXFILE * BSIZE
    /\ other \subseteq Block
    /\ lock \in Task \cup {NoTask}
    /\ off \in [Files -> 0..MAXFILE * BSIZE]
    /\ \A t \in Task : task[t].pc \in Pc /\ task[t].ops \in 0..MaxOps
    /\ panicked \in BOOLEAN

\* The bitmap marks exactly the blocks the inode references (direct, the
\* indirect block and its entries), no block is referenced twice, and every
\* block under ip->size is mapped: balloc, bmap's two-level allocation with
\* its failure paths, and itrunc's bfree keep the bitmap and the inode in
\* step through writes that run out of blocks and truncations.
BlocksAccounted ==
    /\ {b \in Block : used[b]} = Refs \cup other /\ Refs \cap other = {}
    /\ \A s1, s2 \in RefSlots : s1 # s2 /\ Ref(s1) # 0 => Ref(s1) # Ref(s2)
    /\ \A k \in 1..size : Addr((k-1) \div BSIZE) # 0

\* A fileread that got r > 0 bytes got the file's bytes at the offset it
\* read from f->off, and with a good buffer it got all the bytes up to the
\* end of the file that it asked for (readi's clamp and block walk).
ReadReturnsBytes ==
    \A t \in Task : task[t].pc = "fr_unlock" =>
        /\ task[t].r > 0 => task[t].got = SubSeq(Bytes, task[t].woff + 1, task[t].woff + task[t].r)
        /\ task[t].good /\ task[t].woff <= size =>
               task[t].r = Min2(task[t].n, size - task[t].woff)

\* The file's bytes and the struct files' offsets behave as AFile: every
\* chunk of filewrite lands at the offset of its struct file that the
\* previous calls left, whatever the interleaving of the tasks' chunks,
\* reads and truncations.
File == INSTANCE AFile WITH Byte <- Task, File <- Files, MaxSize <- MAXFILE * BSIZE,
                            content <- Bytes, off <- off
AFileRefinement == File!Spec
=============================================================================
