------------------------------- MODULE Crash -------------------------------
(***************************************************************************)
(* The on-disk effect of the name-space system calls when the machine can  *)
(* crash between two of their block writes (src/kernel/fs/sysfile.c,       *)
(* xv6fs/defs.h).  No syscall runs inside a log transaction: create,       *)
(* sys_unlink and sys_link each write the inode block and directory blocks *)
(* with separate bwrites, and iput frees an inode with its own writes.     *)
(*                                                                         *)
(* One task issues the calls one after another, so the in-memory inode is *)
(* the disk copy plus the change the next write stores; the only volatile  *)
(* state is the call in progress, which a crash loses.  After a restart    *)
(* the kernel mounts the disk as it is: there is no recovery and no fsck.  *)
(*                                                                         *)
(* A call's parent directory is any directory reachable from the root:     *)
(* nameiparent's walk.  Block allocation inside writei is taken to succeed *)
(* (Content models its failures); a full directory (MaxDirSlots) makes     *)
(* xv6fs_link fail.                                                        *)
(***************************************************************************)
EXTENDS Integers, Sequences, Graphs

CONSTANTS
    Inum,         \* disk inode numbers 1..ninodes-1
    Names,        \* path elements other than "." and ".."
    MaxDirSlots,  \* directory entries a directory can grow to
    MaxOps,       \* system calls issued
    MaxCrash      \* crashes

ROOTINO == 1
T_DIR == 1
T_FILE == 2
T_DEVICE == 3

ASSUME ROOTINO \in Inum

Dirent == [inum : Inum \cup {0}, name : Names \cup {".", "..", ""}]
ZeroDirent == [inum |-> 0, name |-> ""]
FreeDinode == [type |-> 0, nlink |-> 0, ents |-> <<>>]

VARIABLES
    dinode,    \* Inum -> [type, nlink, ents]: the inode blocks and directory blocks
    sc,        \* the system call in progress: [pc, dp, ip, name, type]
    ops,       \* system calls issued
    crashes,   \* crashes so far
    panicked   \* a kernel panic was raised

vars == <<dinode, sc, ops, crashes, panicked>>

Idle == [pc |-> "idle", dp |-> 0, ip |-> 0, name |-> "", type |-> 0]

-----------------------------------------------------------------------------
(* The name space as namex sees it: directories reachable from the root   *)
(* through in-use entries other than "." and "..".                        *)

Tree == [node |-> Inum,
         edge |-> UNION {{<<d, e.inum>> : e \in {x \in Range(dinode[d].ents) :
                                            x.inum # 0 /\ x.name \notin {".", ".."}}} :
                          d \in {i \in Inum : dinode[i].type = T_DIR}}]

Reachable == {ROOTINO} \cup Descendants(Tree, ROOTINO)

Dirs == {d \in Reachable : dinode[d].type = T_DIR}

\* xv6fs_dirlookup: the first in-use slot whose name matches, 0 if none.
DirLookup(d, name) ==
    SelectInSeq(dinode[d].ents, LAMBDA e : e.inum # 0 /\ e.name = name)

\* xv6fs_isdirempty: every slot after "." and ".." is free.
IsDirEmpty(d) == \A j \in 3..Len(dinode[d].ents) : dinode[d].ents[j].inum = 0

\* xv6fs_link's slot: the first free one, or one appended while the
\* directory is below MaxDirSlots; 0 when writei cannot place the entry.
LinkSlot(d) ==
    LET free == SelectInSeq(dinode[d].ents, LAMBDA e : e.inum = 0)
    IN IF free # 0 THEN free
       ELSE IF Len(dinode[d].ents) < MaxDirSlots THEN Len(dinode[d].ents) + 1
       ELSE 0

\* The directory block after xv6fs_link's writei of name -> son at slot k.
Linked(d, k, name, son) ==
    [dinode EXCEPT ![d].ents =
        IF k > Len(@) THEN Append(@, [inum |-> son, name |-> name])
        ELSE [@ EXCEPT ![k] = [inum |-> son, name |-> name]]]

\* The last iput of an inode held by this call alone: with nlink 0 it is
\* truncated and its type 0 written (itrunc's iupdate); the root is also
\* held by the mount and never freed here.
FreeIfUnlinked(dn, i) ==
    IF i # ROOTINO /\ dn[i].nlink = 0 THEN [dn EXCEPT ![i] = FreeDinode] ELSE dn

Start(pc, dp, ip, name, type) ==
    /\ sc' = [pc |-> pc, dp |-> dp, ip |-> ip, name |-> name, type |-> type]
    /\ ops' = ops + 1

Return == sc' = Idle

Ready == sc.pc = "idle" /\ ops < MaxOps /\ ~panicked

At(pc) == sc.pc = pc /\ ~panicked

-----------------------------------------------------------------------------
(* create (sysfile.c), for sys_mkdir (T_DIR) and sys_mknod (T_DEVICE).     *)

\* The name exists: dp is put, and the existing inode is locked and put
\* again, since neither caller asks for T_FILE.
CreateExists(dp, name, type) ==
    /\ Ready
    /\ DirLookup(dp, name) # 0
    /\ dinode' = FreeIfUnlinked(dinode, dinode[dp].ents[DirLookup(dp, name)].inum)
    /\ ops' = ops + 1
    /\ UNCHANGED <<sc, crashes, panicked>>

\* xv6fs_ialloc finds no inode of type 0.
CreateNoInode(dp, name, type) ==
    /\ Ready
    /\ DirLookup(dp, name) = 0
    /\ \A i \in Inum : dinode[i].type # 0
    /\ ops' = ops + 1
    /\ UNCHANGED <<dinode, sc, crashes, panicked>>

\* xv6fs_ialloc: the lowest free inode is zeroed and given type 3, and
\* its block written.
CreateAlloc(dp, name, type) ==
    /\ Ready
    /\ DirLookup(dp, name) = 0
    /\ \E i \in Inum : dinode[i].type = 0
    /\ LET i == Min({j \in Inum : dinode[j].type = 0})
       IN /\ dinode' = [dinode EXCEPT ![i] = [FreeDinode EXCEPT !.type = T_DEVICE]]
          /\ Start("c_init", dp, i, name, type)
    /\ UNCHANGED <<crashes, panicked>>

\* ip->nlink = 1; ip->type = type; write_inode(ip).
CreateInit ==
    /\ At("c_init")
    /\ dinode' = [dinode EXCEPT ![sc.ip].nlink = 1, ![sc.ip].type = sc.type]
    /\ sc' = [sc EXCEPT !.pc = IF sc.type = T_DIR THEN "c_dot" ELSE "c_link"]
    /\ UNCHANGED <<ops, crashes, panicked>>

\* A new directory: xv6fs_link of "." and then of "..", each one writei
\* into the new directory's first free slot.
CreateDot ==
    /\ At("c_dot")
    /\ dinode' = Linked(sc.ip, LinkSlot(sc.ip), ".", sc.ip)
    /\ sc' = [sc EXCEPT !.pc = "c_dotdot"]
    /\ UNCHANGED <<ops, crashes, panicked>>

CreateDotDot ==
    /\ At("c_dotdot")
    /\ dinode' = Linked(sc.ip, LinkSlot(sc.ip), "..", sc.dp)
    /\ sc' = [sc EXCEPT !.pc = "c_link"]
    /\ UNCHANGED <<ops, crashes, panicked>>

\* xv6fs_link of name in dp, then xv6fs_create (no write).  For a device
\* the call ends: dp and ip are put with their links intact.
CreateLink ==
    /\ At("c_link")
    /\ DirLookup(sc.dp, sc.name) = 0 /\ LinkSlot(sc.dp) # 0
    /\ dinode' = Linked(sc.dp, LinkSlot(sc.dp), sc.name, sc.ip)
    /\ sc' = IF sc.type = T_DIR THEN [sc EXCEPT !.pc = "c_nlink"] ELSE Idle
    /\ UNCHANGED <<ops, crashes, panicked>>

\* dp->nlink++ for the new "..", write_inode(dp); the call ends.
CreateParentNlink ==
    /\ At("c_nlink")
    /\ dinode' = [dinode EXCEPT ![sc.dp].nlink = @ + 1]
    /\ Return
    /\ UNCHANGED <<ops, crashes, panicked>>

\* The link into dp fails: goto fail, ip->nlink = 0, write_inode(ip).
CreateLinkFail ==
    /\ At("c_link")
    /\ DirLookup(sc.dp, sc.name) # 0 \/ LinkSlot(sc.dp) = 0
    /\ dinode' = [dinode EXCEPT ![sc.ip].nlink = 0]
    /\ sc' = [sc EXCEPT !.pc = "c_fail"]
    /\ UNCHANGED <<ops, crashes, panicked>>

\* iunlockput(ip) frees it; iunlockput(dp).
CreateFailPut ==
    /\ At("c_fail")
    /\ dinode' = FreeIfUnlinked(dinode, sc.ip)
    /\ Return
    /\ UNCHANGED <<ops, crashes, panicked>>

-----------------------------------------------------------------------------
(* sys_unlink.                                                            *)

\* dirlookup finds no such name: goto bad, iunlockput(dp).
UnlinkMissing(dp, name) ==
    /\ Ready
    /\ DirLookup(dp, name) = 0
    /\ ops' = ops + 1
    /\ UNCHANGED <<dinode, sc, crashes, panicked>>

\* panic("unlink: nlink < 1").
UnlinkPanic(dp, name) ==
    /\ Ready
    /\ DirLookup(dp, name) # 0
    /\ dinode[dinode[dp].ents[DirLookup(dp, name)].inum].nlink < 1
    /\ panicked' = TRUE
    /\ ops' = ops + 1
    /\ UNCHANGED <<dinode, sc, crashes>>

\* A directory with entries besides "." and "..": iunlockput(ip), bad.
UnlinkNotEmpty(dp, name) ==
    LET ip == dinode[dp].ents[DirLookup(dp, name)].inum IN
    /\ Ready
    /\ DirLookup(dp, name) # 0
    /\ dinode[ip].nlink >= 1
    /\ dinode[ip].type = T_DIR /\ ~IsDirEmpty(ip)
    /\ ops' = ops + 1
    /\ UNCHANGED <<dinode, sc, crashes, panicked>>

\* xv6fs_unlink: every slot of dp whose name matches is zeroed by writei.
UnlinkEntry(dp, name) ==
    LET ip == dinode[dp].ents[DirLookup(dp, name)].inum IN
    /\ Ready
    /\ DirLookup(dp, name) # 0
    /\ dinode[ip].nlink >= 1
    /\ dinode[ip].type = T_DIR => IsDirEmpty(ip)
    /\ dinode' = [dinode EXCEPT ![dp].ents =
                    [k \in DOMAIN @ |-> IF @[k].name = name THEN ZeroDirent ELSE @[k]]]
    /\ Start(IF dinode[ip].type = T_DIR THEN "u_dirnlink" ELSE "u_putdp",
             dp, ip, name, dinode[ip].type)
    /\ UNCHANGED <<crashes, panicked>>

\* A directory was removed: dp->nlink--, write_inode(dp).
UnlinkDirNlink ==
    /\ At("u_dirnlink")
    /\ dinode' = [dinode EXCEPT ![sc.dp].nlink = @ - 1]
    /\ sc' = [sc EXCEPT !.pc = "u_putdp"]
    /\ UNCHANGED <<ops, crashes, panicked>>

\* iunlockput(dp): nameiparent's reference is the last one.
UnlinkPutDp ==
    /\ At("u_putdp")
    /\ dinode' = FreeIfUnlinked(dinode, sc.dp)
    /\ sc' = [sc EXCEPT !.pc = "u_nlink"]
    /\ UNCHANGED <<ops, crashes, panicked>>

\* ip->nlink--, write_inode(ip).
UnlinkNlink ==
    /\ At("u_nlink")
    /\ dinode' = [dinode EXCEPT ![sc.ip].nlink = @ - 1]
    /\ sc' = [sc EXCEPT !.pc = "u_putip"]
    /\ UNCHANGED <<ops, crashes, panicked>>

\* iunlockput(ip): dirlookup's reference is the last one.
UnlinkPutIp ==
    /\ At("u_putip")
    /\ dinode' = FreeIfUnlinked(dinode, sc.ip)
    /\ Return
    /\ UNCHANGED <<ops, crashes, panicked>>

-----------------------------------------------------------------------------
(* sys_link of a non-directory ip as name in dp.                          *)

\* ip->nlink++, write_inode(ip), before the new name is looked at.
LinkStart(ip, dp, name) ==
    /\ Ready
    /\ dinode[ip].type \notin {0, T_DIR}
    /\ dinode' = [dinode EXCEPT ![ip].nlink = @ + 1]
    /\ Start("l_link", dp, ip, name, dinode[ip].type)
    /\ UNCHANGED <<crashes, panicked>>

\* xv6fs_link enters the name; iunlockput(dp), iput(ip).
LinkEnter ==
    /\ At("l_link")
    /\ DirLookup(sc.dp, sc.name) = 0 /\ LinkSlot(sc.dp) # 0
    /\ dinode' = Linked(sc.dp, LinkSlot(sc.dp), sc.name, sc.ip)
    /\ Return
    /\ UNCHANGED <<ops, crashes, panicked>>

\* The name is taken or dp is full: goto bad, ip->nlink--, write_inode(ip).
LinkFail ==
    /\ At("l_link")
    /\ DirLookup(sc.dp, sc.name) # 0 \/ LinkSlot(sc.dp) = 0
    /\ dinode' = [dinode EXCEPT ![sc.ip].nlink = @ - 1]
    /\ sc' = [sc EXCEPT !.pc = "l_put"]
    /\ UNCHANGED <<ops, crashes, panicked>>

\* iunlockput(ip).
LinkFailPut ==
    /\ At("l_put")
    /\ dinode' = FreeIfUnlinked(dinode, sc.ip)
    /\ Return
    /\ UNCHANGED <<ops, crashes, panicked>>

-----------------------------------------------------------------------------

\* The machine stops between two block writes of a call and reboots: the
\* call and every in-memory inode are lost, the disk stays as written.
Crash ==
    /\ sc.pc # "idle" /\ ~panicked
    /\ crashes < MaxCrash
    /\ Return
    /\ crashes' = crashes + 1
    /\ UNCHANGED <<dinode, ops, panicked>>

Init ==
    /\ dinode = [i \in Inum |->
                    IF i = ROOTINO
                    THEN [type |-> T_DIR, nlink |-> 1,
                          ents |-> <<[inum |-> ROOTINO, name |-> "."],
                                     [inum |-> ROOTINO, name |-> ".."]>>]
                    ELSE FreeDinode]
    /\ sc = Idle
    /\ ops = 0
    /\ crashes = 0
    /\ panicked = FALSE

Next ==
    \/ \E dp \in Dirs, name \in Names, type \in {T_DIR, T_DEVICE} :
          CreateExists(dp, name, type) \/ CreateNoInode(dp, name, type)
          \/ CreateAlloc(dp, name, type)
    \/ CreateInit \/ CreateDot \/ CreateDotDot \/ CreateLink \/ CreateLinkFail
    \/ CreateParentNlink \/ CreateFailPut
    \/ \E dp \in Dirs, name \in Names :
          UnlinkMissing(dp, name) \/ UnlinkPanic(dp, name)
          \/ UnlinkNotEmpty(dp, name) \/ UnlinkEntry(dp, name)
    \/ UnlinkDirNlink \/ UnlinkPutDp \/ UnlinkNlink \/ UnlinkPutIp
    \/ \E ip \in Reachable, dp \in Dirs, name \in Names : LinkStart(ip, dp, name)
    \/ LinkEnter \/ LinkFail \/ LinkFailPut
    \/ Crash

Spec == Init /\ [][Next]_vars

-----------------------------------------------------------------------------

\* After any crash and the calls that follow it, every in-use entry of a
\* directory namex can reach names an allocated inode: no directory entry
\* leads to an inode that iput has freed (and ialloc may hand out again).
NoDanglingEntry ==
    \A d \in Dirs : \A k \in 1..Len(dinode[d].ents) :
        dinode[d].ents[k].inum # 0 => dinode[dinode[d].ents[k].inum].type # 0

====
