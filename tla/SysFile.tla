------------------------------- MODULE SysFile -------------------------------
(***************************************************************************)
(* The file-system system calls of src/kernel/fs/sysfile.c, each taken as  *)
(* one atomic step, over the VFS inode table of fs.c (iget/iput/namex) and *)
(* the xv6fs directory operations (dirlookup/link/unlink/ialloc/isdirempty)*)
(* of xv6fs/defs.h.                                                        *)
(*                                                                         *)
(* An inode is one record: the on-disk fields type, nlink and the          *)
(* directory slots ents, and the in-memory reference count ref.  Every     *)
(* change of an on-disk field is followed in the code by write_inode, and  *)
(* a cached copy is loaded only while ref = 0, so between system calls the *)
(* cached and the disk copy agree and one copy stands for both.  File data *)
(* (size, blocks, offsets) is not part of this module.                     *)
(***************************************************************************)
EXTENDS Integers, Sequences, SequencesExt, FiniteSets, FiniteSetsExt

CONSTANTS
    Proc,         \* kernel tasks (processes issuing system calls)
    Inum,         \* disk inode numbers 1..ninodes-1
    Names,        \* path elements other than "." and ".."
    NFILE,        \* size of ftable
    NOFILE,       \* size of a process's ofile table
    MaxDirSlots,  \* directory entries a directory can grow to (MAXFILE bound)
    EntsPerBlock, \* directory entries per disk block (BSIZE / 16)
    Paths,        \* path arguments: [abs |-> BOOLEAN, elems |-> Seq]
    ChdirPaths,   \* path arguments given to chdir
    OpenModes     \* omode arguments given to open

ROOTINO == 1
T_DIR == 1
T_FILE == 2
T_DEVICE == 3
O_RDONLY == 0
O_WRONLY == 1
O_RDWR == 2
O_CREATE == 512
O_TRUNC == 1024
NoFile == 0           \* a null struct file pointer
\* omode & flag # 0 for a one-bit flag
HasFlag(omode, flag) == (omode \div flag) % 2 = 1
FileIdx == 1..NFILE
FD == 0..(NOFILE - 1)

ASSUME ROOTINO \in Inum /\ ChdirPaths \subseteq Paths

\* A directory slot: inum 0 marks a free slot (memset to zero by unlink).
Dirent == [inum : Inum \cup {0}, name : Names \cup {".", "..", ""}]
ZeroDirent == [inum |-> 0, name |-> ""]

VARIABLES
    inode,     \* Inum -> [type, nlink, ents, ref]
    ftable,    \* FileIdx -> [ref, ip]
    ofile,     \* Proc -> (FD -> FileIdx or NoFile)
    cwd,       \* Proc -> Inum
    hung,      \* Proc -> inode whose sleep-lock the task blocks on forever, or 0
    panicked   \* a kernel panic was raised

vars == <<inode, ftable, ofile, cwd, hung, panicked>>

-----------------------------------------------------------------------------
(* Inode table.                                                            *)

\* iget / idup / xv6fs_geti(.., 1): one more in-memory reference.
IGet(it, i) == [it EXCEPT ![i].ref = @ + 1]

\* Fault variants of iput for mutation analysis: freeing on the last
\* reference whatever the link count, and never freeing at all.
IPutIgnoringNlink(it, i) ==
    IF it[i].ref = 0 THEN it
    ELSE IF it[i].ref = 1
    THEN [it EXCEPT ![i] = [@ EXCEPT !.type = 0, !.ents = <<>>, !.ref = 0]]
    ELSE [it EXCEPT ![i].ref = @ - 1]

IPutNeverFrees(it, i) ==
    IF it[i].ref = 0 THEN it ELSE [it EXCEPT ![i].ref = @ - 1]

\* iput: a put of an evicted inode (private == 0, i.e. ref = 0 here)
\* returns at once; the last reference to an inode without links truncates
\* it, writes type 0 and frees it; any other put only drops the reference
\* (the last one also writes the inode back and evicts the cached copy).
IPut(it, i) ==
    IF it[i].ref = 0 THEN it
    ELSE IF it[i].ref = 1 /\ it[i].nlink = 0
    THEN [it EXCEPT ![i] = [@ EXCEPT !.type = 0, !.ents = <<>>, !.ref = 0]]
    ELSE [it EXCEPT ![i].ref = @ - 1]

\* xv6fs_dirlookup: the first in-use slot whose name matches, 0 if none.
DirLookup(it, dp, name) ==
    SelectInSeq(it[dp].ents, LAMBDA e : e.inum # 0 /\ e.name = name)

\* Fault variant: the scan starts one slot too late.
IsDirEmptyFromFourth(it, dp) ==
    \A j \in 4..Len(it[dp].ents) : it[dp].ents[j].inum = 0

\* xv6fs_isdirempty: every slot after "." and ".." is free.
IsDirEmpty(it, dp) ==
    \A j \in 3..Len(it[dp].ents) : it[dp].ents[j].inum = 0

\* The loop of namex from ip (whose reference the walk owns) over the
\* remaining path elements.  Result: the inode reached (0 on failure) and
\* the table after the gets and puts of the walk.
RECURSIVE Walk(_, _, _, _)
Walk(it, ip, elems, parent) ==
    IF elems = <<>>
    THEN IF parent THEN [ip |-> 0, it |-> IPut(it, ip)]
                   ELSE [ip |-> ip, it |-> it]
    ELSE IF it[ip].type # T_DIR THEN [ip |-> 0, it |-> IPut(it, ip)]
    ELSE IF parent /\ Len(elems) = 1 THEN [ip |-> ip, it |-> it]
    ELSE LET k == DirLookup(it, ip, Head(elems))
         IN IF k = 0 THEN [ip |-> 0, it |-> IPut(it, ip)]
            ELSE LET next == it[ip].ents[k].inum
                 IN Walk(IPut(IGet(it, next), ip), next, Tail(elems), parent)

\* namex: start at the root (iget) or at the task's cwd (idup).
Namex(it, p, path, parent) ==
    LET start == IF path.abs THEN ROOTINO ELSE cwd[p]
    IN Walk(IGet(it, start), start, path.elems, parent)

\* Fault variant: xv6fs_link without the lookup for an existing name.
LinkNoNameCheck(it, dp, name, son, room) ==
    LET ents == it[dp].ents
        free == SelectInSeq(ents, LAMBDA e : e.inum = 0)
        de == [inum |-> son, name |-> name]
        need == IF Len(ents) % EntsPerBlock = 0 THEN 1 ELSE 0
    IN IF free # 0
       THEN [ok |-> TRUE, room |-> room, it |-> [it EXCEPT ![dp].ents[free] = de]]
       ELSE IF room >= need /\ Len(ents) < MaxDirSlots
       THEN [ok |-> TRUE, room |-> room - need,
             it |-> [it EXCEPT ![dp].ents = Append(@, de)]]
       ELSE [ok |-> FALSE, room |-> room, it |-> it]

\* xv6fs_link: enter name -> son in directory dp unless the name is taken
\* (the lookup's reference is put again).  The first free slot is reused,
\* otherwise a slot is appended; an append that starts a new block needs
\* balloc to find one of the room free blocks, and writei refuses to grow
\* a directory past MaxDirSlots.  Result: success, table, blocks left.
Link(it, dp, name, son, room) ==
    LET ents == it[dp].ents
        k == DirLookup(it, dp, name)
        free == SelectInSeq(ents, LAMBDA e : e.inum = 0)
        de == [inum |-> son, name |-> name]
        need == IF Len(ents) % EntsPerBlock = 0 THEN 1 ELSE 0
    IN IF k # 0
       THEN [ok |-> FALSE, room |-> room,
             it |-> IPut(IGet(it, ents[k].inum), ents[k].inum)]
       ELSE IF free # 0
       THEN [ok |-> TRUE, room |-> room, it |-> [it EXCEPT ![dp].ents[free] = de]]
       ELSE IF room >= need /\ Len(ents) < MaxDirSlots
       THEN [ok |-> TRUE, room |-> room - need,
             it |-> [it EXCEPT ![dp].ents = Append(@, de)]]
       ELSE [ok |-> FALSE, room |-> room, it |-> it]

\* xv6fs_unlink: zero every slot of dp that carries name.
Unlink(it, dp, name) ==
    [it EXCEPT ![dp].ents = [j \in DOMAIN @ |->
                                IF @[j].name = name THEN ZeroDirent ELSE @[j]]]

\* xv6fs_ialloc: the lowest free disk inode, 0 when there is none.
IAlloc(it) ==
    LET free == {i \in Inum : it[i].type = 0}
    IN IF free = {} THEN 0 ELSE Min(free)

\* A link step of create that runs only if the steps before it succeeded.
LinkIf(r, dp, name, son) ==
    IF r.ok THEN Link(r.it, dp, name, son, r.room) ELSE r

\* create, for a directory: link "." and then ".." into the new inode.
DirDots(it, ip, dp, type, room) ==
    IF type = T_DIR THEN LinkIf(Link(it, ip, ".", ip, room), ip, "..", dp)
    ELSE [ok |-> TRUE, room |-> room, it |-> it]

\* The end of create once every link is tried: on success count the new
\* directory's ".." in dp and iunlockput dp; on failure zero the new
\* inode's nlink, iunlockput it (which frees it) and then dp.
CreateDone(ln, dp, ip, type) ==
    IF ln.ok
    THEN [ip |-> ip,
          it |-> IPut(IF type = T_DIR THEN [ln.it EXCEPT ![dp].nlink = @ + 1]
                      ELSE ln.it, dp)]
    ELSE [ip |-> 0, it |-> IPut(IPut([ln.it EXCEPT ![ip].nlink = 0], ip), dp)]

\* create when the name exists: iunlockput dp, keep a file or device for
\* open, put anything else.
CreateExisting(it, dp, ip, type) ==
    LET it1 == IPut(IGet(it, ip), dp)
    IN IF type = T_FILE /\ it1[ip].type \in {T_FILE, T_DEVICE}
       THEN [ip |-> ip, it |-> it1]
       ELSE [ip |-> 0, it |-> IPut(it1, ip)]

\* create after nameiparent returned np: look the name up, else ialloc,
\* set nlink and type (write_inode), link "." and "..", link the name,
\* store the major (xv6fs_create).  majorok abstracts the major number:
\* whether it names a configured device.  room is the number of free disk
\* blocks balloc can find.
CreateIn(np, name, type, majorok, room) ==
    LET dp == np.ip
        k == DirLookup(np.it, dp, name)
        ip == IAlloc(np.it)
    IN CASE dp = 0 -> [ip |-> 0, it |-> np.it]
         [] k # 0 -> CreateExisting(np.it, dp, np.it[dp].ents[k].inum, type)
         [] ip = 0 -> [ip |-> 0, it |-> IPut(np.it, dp)]
         [] OTHER ->
              CreateDone(
                LinkIf(DirDots([IGet(np.it, ip) EXCEPT ![ip].type = type,
                                                       ![ip].nlink = 1,
                                                       ![ip].ents = <<>>,
                                                       ![ip].majorok = majorok],
                               ip, dp, type, room),
                       dp, name, ip),
                dp, ip, type)

\* create (sysfile.c): returns the new or existing inode, referenced and
\* locked, or 0.
Create(it, p, path, type, majorok, room) ==
    CreateIn(Namex(it, p, path, TRUE), Last(path.elems), type, majorok, room)

\* sys_mkdir and sys_mknod end with iunlockput of what create returned.
PutCreated(c) == IF c.ip = 0 THEN c.it ELSE IPut(c.it, c.ip)

\* The free slots filealloc and fdalloc would take, lowest first.
FreeFiles == {f \in FileIdx : ftable[f].ref = 0}
FreeFds(p) == {fd \in FD : ofile[p][fd] = NoFile}

-----------------------------------------------------------------------------
(* System calls.                                                           *)

\* fileinit: every struct file of the table is free.
fileinit == [f \in FileIdx |-> [ref |-> 0, ip |-> 0, op |-> FALSE]]

Init ==
    /\ inode = [i \in Inum |->
                  IF i = ROOTINO
                  THEN [type |-> T_DIR, nlink |-> 1, ref |-> 1 + Cardinality(Proc),
                        majorok |-> TRUE,
                        ents |-> << [inum |-> ROOTINO, name |-> "."],
                                    [inum |-> ROOTINO, name |-> ".."] >>]
                  ELSE [type |-> 0, nlink |-> 0, ref |-> 0, majorok |-> TRUE,
                        ents |-> <<>>]]
    /\ ftable = fileinit
    /\ ofile = [p \in Proc |-> [fd \in FD |-> NoFile]]
    /\ cwd = [p \in Proc |-> ROOTINO]
    /\ hung = [p \in Proc |-> 0]
    /\ panicked = FALSE

\* sys_open without O_CREATE: namei, then refuse to open a directory for
\* anything but reading.
OpenLookup(n, omode) ==
    IF n.ip # 0 /\ n.it[n.ip].type = T_DIR /\ omode # O_RDONLY
    THEN [ip |-> 0, it |-> IPut(n.it, n.ip)]
    ELSE n

\* Fault variant: the fdalloc-failure path without the fileclose: only
\* iunlockput runs and the struct file keeps its reference.
FdallocFailed_no_fileclose(p, c, f) ==
    /\ inode' = IPut(c.it, c.ip)
    /\ ftable' = [ftable EXCEPT ![f] = [ref |-> 1, ip |-> c.ip, op |-> TRUE]]
    /\ UNCHANGED <<hung, panicked>>

\* sys_open's fdalloc-failure path: fileclose(f) through f->op, then
\* iunlockput(ip).  A fresh slot has no op and the call traps; otherwise
\* xv6fs_close drops the struct file (its reference goes back to 0) and
\* puts ip, and iunlockput puts it again; when that first put is the last
\* one it blocks on the sleep-lock its own caller holds.
FdallocFailed(p, c, f) ==
    LET ip == c.ip
    IN /\ CASE ~ftable[f].op ->
                 inode' = c.it /\ panicked' = TRUE /\ UNCHANGED hung
            [] c.it[ip].ref = 1 ->
                 /\ hung' = [hung EXCEPT ![p] = ip]
                 /\ inode' = c.it
                 /\ UNCHANGED panicked
            [] OTHER ->
                 /\ inode' = IPut([c.it EXCEPT ![ip].ref = @ - 1], ip)
                 /\ UNCHANGED <<hung, panicked>>
       /\ UNCHANGED ftable

\* sys_open once c, the inode found or created, is known: open a file
\* (xv6fs_open: filealloc, and a device's major must name a configured
\* device), then give it a descriptor (fdalloc; on failure FdallocFailed).
OpenFile(p, c) ==
    LET ip == c.ip
        opened == ip # 0 /\ FreeFiles # {}
                  /\ (c.it[ip].type = T_DEVICE => c.it[ip].majorok)
        f == Min(FreeFiles)
        fd == Min(FreeFds(p))
    IN /\ \/ /\ ip = 0
             /\ inode' = c.it
             /\ UNCHANGED <<ftable, ofile, hung, panicked>>
          \/ /\ ip # 0
             /\ ~opened
             /\ inode' = IPut(c.it, ip)
             /\ UNCHANGED <<ftable, ofile, hung, panicked>>
          \/ /\ opened
             /\ FreeFds(p) = {}
             /\ FdallocFailed(p, c, f)
             /\ UNCHANGED ofile
          \/ /\ opened
             /\ FreeFds(p) # {}
             /\ inode' = c.it
             /\ ftable' = [ftable EXCEPT ![f] = [ref |-> 1, ip |-> ip, op |-> TRUE]]
             /\ ofile' = [ofile EXCEPT ![p][fd] = f]
             /\ UNCHANGED <<hung, panicked>>
       /\ UNCHANGED cwd

\* sys_open: create the file with O_CREATE, else look it up.
sys_open(p, path, omode, room) ==
    OpenFile(p, IF HasFlag(omode, O_CREATE)
                THEN Create(inode, p, path, T_FILE, TRUE, room)
                ELSE OpenLookup(Namex(inode, p, path, FALSE), omode))

\* fileclose / xv6fs_close: panic on a file without references, drop the
\* count, and put the file's inode when the count reaches zero.
FileClose(f) ==
    CASE ftable[f].ref < 1 ->
             panicked' = TRUE /\ UNCHANGED <<inode, ftable>>
      [] ftable[f].ref = 1 ->
             /\ inode' = IPut(inode, ftable[f].ip)
             /\ ftable' = [ftable EXCEPT ![f].ref = 0, ![f].ip = 0]
             /\ UNCHANGED panicked
      [] OTHER ->
             /\ ftable' = [ftable EXCEPT ![f].ref = @ - 1]
             /\ UNCHANGED <<inode, panicked>>

\* argfd: fd (already in 0..NOFILE-1, the set FD) names an open file of p;
\* otherwise the syscall returns -1 and changes nothing.
argfd(p, fd) == ofile[p][fd] # NoFile

\* filedup: panic on a file with no references, else one more reference.
filedup(f) ==
    /\ panicked' = (ftable[f].ref < 1)
    /\ ftable' = [ftable EXCEPT ![f].ref = @ + 1]

\* Fault variant: sys_close that leaves the descriptor in place.
sys_close_keeping_fd(p, fd) ==
    LET f == ofile[p][fd]
    IN /\ argfd(p, fd)
       /\ FileClose(f)
       /\ UNCHANGED <<ofile, cwd, hung>>

\* sys_close: clear the descriptor, then fileclose.
sys_close(p, fd) ==
    LET f == ofile[p][fd]
    IN /\ argfd(p, fd)
       /\ ofile' = [ofile EXCEPT ![p][fd] = NoFile]
       /\ FileClose(f)
       /\ UNCHANGED <<cwd, hung>>

\* sys_dup: a second descriptor for the same file (fdalloc, filedup).
sys_dup(p, fd) ==
    LET f == ofile[p][fd]
    IN /\ argfd(p, fd)
       /\ FreeFds(p) # {}
       /\ ofile' = [ofile EXCEPT ![p][Min(FreeFds(p))] = f]
       /\ filedup(f)
       /\ UNCHANGED <<inode, cwd, hung>>

\* Fault variant: sys_link without the rollback of the count on failure.
sys_link_no_rollback(p, old, new, room) ==
    LET n == Namex(inode, p, old, FALSE)
        ip == n.ip
        it1 == [n.it EXCEPT ![ip].nlink = @ + 1]
        np == Namex(it1, p, new, TRUE)
        dp == np.ip
        ln == IF dp # 0 THEN Link(np.it, dp, Last(new.elems), ip, room)
              ELSE [ok |-> FALSE, room |-> room, it |-> np.it]
        it2 == IF dp # 0 THEN IPut(ln.it, dp) ELSE ln.it
    IN /\ inode' = CASE ip = 0 -> n.it
                     [] n.it[ip].type = T_DIR -> IPut(n.it, ip)
                     [] OTHER -> IPut(it2, ip)
       /\ UNCHANGED <<ftable, ofile, cwd, hung, panicked>>

\* sys_link: count the new link on old first, then enter it under new's
\* parent; on any failure after the count, take the count back.
sys_link(p, old, new, room) ==
    LET n == Namex(inode, p, old, FALSE)
        ip == n.ip
        it1 == [n.it EXCEPT ![ip].nlink = @ + 1]
        np == Namex(it1, p, new, TRUE)
        dp == np.ip
        ln == IF dp # 0 THEN Link(np.it, dp, Last(new.elems), ip, room)
              ELSE [ok |-> FALSE, room |-> room, it |-> np.it]
        it2 == IF dp # 0 THEN IPut(ln.it, dp) ELSE ln.it
    IN /\ inode' = CASE ip = 0 -> n.it
                     [] n.it[ip].type = T_DIR -> IPut(n.it, ip)
                     [] ln.ok -> IPut(it2, ip)
                     [] OTHER -> IPut([it2 EXCEPT ![ip].nlink = @ - 1], ip)
       /\ UNCHANGED <<ftable, ofile, cwd, hung, panicked>>

\* Fault variant: sys_unlink dropping the parent's count for any type.
sys_unlink_any_type(p, path) ==
    LET np == Namex(inode, p, path, TRUE)
        dp == np.ip
        name == Last(path.elems)
        k == DirLookup(np.it, dp, name)
        ip == np.it[dp].ents[k].inum
        it1 == IGet(np.it, ip)
        cleared == Unlink(it1, dp, name)
        it2 == [cleared EXCEPT ![dp].nlink = @ - 1]
        it3 == IPut(it2, dp)
    IN /\ CASE dp = 0 ->
                 inode' = np.it /\ UNCHANGED panicked
            [] name \in {".", ".."} \/ k = 0 ->
                 inode' = IPut(np.it, dp) /\ UNCHANGED panicked
            [] it1[ip].nlink < 1 ->
                 inode' = it1 /\ panicked' = TRUE
            [] it1[ip].type = T_DIR /\ ~IsDirEmpty(it1, ip) ->
                 inode' = IPut(IPut(it1, ip), dp) /\ UNCHANGED panicked
            [] OTHER ->
                 inode' = IPut([it3 EXCEPT ![ip].nlink = @ - 1], ip)
                 /\ UNCHANGED panicked
       /\ UNCHANGED <<ftable, ofile, cwd, hung>>

\* sys_unlink: refuse "." and "..", look the name up, refuse a non-empty
\* directory, clear every slot with the name (xv6fs_unlink), then drop the
\* parent's count for a directory's ".." and the target's own count.
sys_unlink(p, path) ==
    LET np == Namex(inode, p, path, TRUE)
        dp == np.ip
        name == Last(path.elems)
        k == DirLookup(np.it, dp, name)
        ip == np.it[dp].ents[k].inum
        it1 == IGet(np.it, ip)
        cleared == Unlink(it1, dp, name)
        it2 == IF it1[ip].type = T_DIR
               THEN [cleared EXCEPT ![dp].nlink = @ - 1] ELSE cleared
        it3 == IPut(it2, dp)
    IN /\ CASE dp = 0 ->
                 inode' = np.it /\ UNCHANGED panicked
            [] name \in {".", ".."} \/ k = 0 ->
                 inode' = IPut(np.it, dp) /\ UNCHANGED panicked
            [] it1[ip].nlink < 1 ->
                 inode' = it1 /\ panicked' = TRUE
            [] it1[ip].type = T_DIR /\ ~IsDirEmpty(it1, ip) ->
                 inode' = IPut(IPut(it1, ip), dp) /\ UNCHANGED panicked
            [] OTHER ->
                 inode' = IPut([it3 EXCEPT ![ip].nlink = @ - 1], ip)
                 /\ UNCHANGED panicked
       /\ UNCHANGED <<ftable, ofile, cwd, hung>>

\* sys_mkdir and sys_mknod: create, then iunlockput the new inode.
sys_mkdir(p, path, room) ==
    /\ inode' = PutCreated(Create(inode, p, path, T_DIR, TRUE, room))
    /\ UNCHANGED <<ftable, ofile, cwd, hung, panicked>>

sys_mknod(p, path, majorok, room) ==
    /\ inode' = PutCreated(Create(inode, p, path, T_DEVICE, majorok, room))
    /\ UNCHANGED <<ftable, ofile, cwd, hung, panicked>>

\* Fault variant: sys_chdir that does not put the old cwd.
sys_chdir_leaking_cwd(p, path) ==
    LET n == Namex(inode, p, path, FALSE)
        ip == n.ip
    IN /\ IF ip # 0 /\ n.it[ip].type = T_DIR
          THEN /\ inode' = n.it
               /\ cwd' = [cwd EXCEPT ![p] = ip]
          ELSE /\ inode' = IF ip = 0 THEN n.it ELSE IPut(n.it, ip)
               /\ UNCHANGED cwd
       /\ UNCHANGED <<ftable, ofile, hung, panicked>>

\* sys_chdir: namei, refuse a non-directory, put the old cwd, keep the new.
sys_chdir(p, path) ==
    LET n == Namex(inode, p, path, FALSE)
        ip == n.ip
    IN /\ IF ip # 0 /\ n.it[ip].type = T_DIR
          THEN /\ inode' = IPut(n.it, cwd[p])
               /\ cwd' = [cwd EXCEPT ![p] = ip]
          ELSE /\ inode' = IF ip = 0 THEN n.it ELSE IPut(n.it, ip)
               /\ UNCHANGED cwd
       /\ UNCHANGED <<ftable, ofile, hung, panicked>>

\* A task blocked forever, or a panic, stops the kernel's file system.
Running == ~panicked /\ \A p \in Proc : hung[p] = 0

\* room ranges over the free-block counts that make a difference: a file
\* entry needs at most one new block, a directory at most two.
Next ==
    /\ Running
    /\ \E p \in Proc :
         \/ \E path \in Paths, omode \in OpenModes :
              \E room \in 0..(IF HasFlag(omode, O_CREATE) THEN 1 ELSE 0) :
                  sys_open(p, path, omode, room)
         \/ \E fd \in FD : sys_close(p, fd) \/ sys_dup(p, fd)
         \/ \E old, new \in Paths, room \in 0..1 : sys_link(p, old, new, room)
         \/ \E path \in Paths : sys_unlink(p, path)
         \/ \E path \in Paths, room \in 0..2 : sys_mkdir(p, path, room)
         \/ \E path \in Paths, majorok \in BOOLEAN, room \in 0..1 :
              sys_mknod(p, path, majorok, room)
         \/ \E path \in ChdirPaths : sys_chdir(p, path)

Spec == Init /\ [][Next]_vars

-----------------------------------------------------------------------------
(* Properties.                                                             *)

\* struct inode: the fields the syscalls read or write.  The sleep-lock is
\* not state here (syscalls are atomic), size is left to Content, and the
\* directory's data blocks are the slot sequence ents.  majorok stands for
\* "major is a configured device" (the devsw check of sys_open).
Inode == [type : {0, T_DIR, T_FILE, T_DEVICE}, nlink : Nat, majorok : BOOLEAN,
          ref : Nat, ents : Seq(Dirent)]

\* struct file: ref, the inode, and whether op is set.  off, readable and
\* writable are left to Content.
File == [ref : Nat, ip : Inum \cup {0}, op : BOOLEAN]

TypeOK ==
    /\ inode \in [Inum -> Inode]
    /\ ftable \in [FileIdx -> File]
    /\ ofile \in [Proc -> [FD -> FileIdx \cup {NoFile}]]
    /\ cwd \in [Proc -> Inum]
    /\ hung \in [Proc -> Inum \cup {0}]
    /\ panicked \in BOOLEAN

\* A directory still linked into the tree.
Linked(d) == inode[d].type = T_DIR /\ inode[d].nlink > 0

\* The references an inode's in-memory count stands for: the mount's hold
\* on the root, every task's cwd, every open struct file, and the inode a
\* blocked task still holds.
Holders(i) ==
    (IF i = ROOTINO THEN 1 ELSE 0)
    + Quantify(Proc, LAMBDA p : cwd[p] = i \/ hung[p] = i)
    + Quantify(FileIdx, LAMBDA f : ftable[f].ref > 0 /\ ftable[f].ip = i)

\* The in-memory reference count of every inode equals the number of
\* holders (iget/idup/iput are balanced on every path of every system
\* call, the error paths of open, link, unlink and create included).
\* After a panic the kernel runs no more and its counts stand for nothing.
RefCountsExact == ~panicked => \A i \in Inum : inode[i].ref = Holders(i)

\* The reference count of every struct file equals the number of
\* descriptors, over all tasks, that name it: sys_open's fdalloc-failure
\* path gives back the struct file it allocated (fileclose), sys_dup adds
\* one reference per new descriptor and sys_close drops one.  A file
\* nobody names is free for filealloc.  Checked while the kernel runs.
FileRefsExact ==
    Running =>
        \A f \in FileIdx :
            ftable[f].ref = Cardinality({pd \in Proc \X FD : ofile[pd[1]][pd[2]] = f})

\* The names under which linked directory d lists inode i, where ".." in
\* a directory other than i counts as a link of i and "." never does.
LinksIn(d, i) ==
    Quantify(DOMAIN inode[d].ents, LAMBDA j :
        LET e == inode[d].ents[j]
        IN e.inum = i /\ (e.name \notin {".", ".."} \/ (e.name = ".." /\ d # i)))

\* The on-disk link count of every allocated inode equals the number of
\* entries that name it in linked directories (plus the root's own link):
\* link/unlink/mkdir/create keep nlink and the directory contents in step.
LinkCountsExact ==
    \A i \in Inum :
        inode[i].type # 0 =>
            inode[i].nlink = (IF i = ROOTINO THEN 1 ELSE 0)
                             + MapThenSumSet(LAMBDA d : IF Linked(d) THEN LinksIn(d, i) ELSE 0,
                                             Inum)

\* A freed inode is neither named by a linked directory nor held by a task
\* or an open file: iput frees only the last reference of an unlinked inode.
FreedInodesUnreachable ==
    \A i \in Inum :
        inode[i].type = 0 =>
            /\ Holders(i) = 0
            /\ \A d \in Inum : Linked(d) =>
                   \A j \in DOMAIN inode[d].ents : inode[d].ents[j].inum # i

\* An allocated inode without links is still referenced: the put that
\* drops the last reference of an unlinked inode frees it on disk.
UnlinkedInodesReclaimed ==
    \A i \in Inum : inode[i].type # 0 /\ inode[i].nlink = 0 => inode[i].ref > 0

\* Every linked directory other than the root begins with "." naming
\* itself and ".." naming a linked directory that lists it.
ParentLinks ==
    \A d \in Inum \ {ROOTINO} : Linked(d) =>
        LET ents == inode[d].ents
        IN /\ Len(ents) >= 2
           /\ ents[1] = [inum |-> d, name |-> "."]
           /\ ents[2].name = ".." /\ Linked(ents[2].inum)
           /\ \E j \in DOMAIN inode[ents[2].inum].ents :
                  inode[ents[2].inum].ents[j].inum = d
                  /\ inode[ents[2].inum].ents[j].name \in Names

\* No two in-use slots of a linked directory carry the same name.
NamesUnique ==
    \A d \in Inum : Linked(d) =>
        \A j, k \in DOMAIN inode[d].ents :
            /\ j # k /\ inode[d].ents[j].inum # 0 /\ inode[d].ents[k].inum # 0
            => inode[d].ents[j].name # inode[d].ents[k].name

\* No system call panics ("unlink: nlink < 1", "fileclose") or blocks a
\* task forever on a sleep-lock it already holds.
NoPanicOrHang == Running

=============================================================================
