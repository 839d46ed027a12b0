------------------------------ MODULE SkipElem ------------------------------
(***************************************************************************)
(* Path splitting in namex (src/kernel/fs/fs.c): the loop                  *)
(*     while((path = skipelem(path, name)) != 0) ...                       *)
(* over a NUL-terminated path, with skipelem copying each element into     *)
(* the caller's DIRSIZ-byte name buffer.  The buffer starts uninitialised  *)
(* (namei's stack array, or the caller's for nameiparent) and is reused    *)
(* by every iteration.  An element of DIRSIZ bytes or more is truncated    *)
(* and left without a terminator.                                          *)
(*                                                                         *)
(* Each iteration records the buffer it hands to dirlookup and whether     *)
(* *path == '\0' afterwards, the test nameiparent uses to stop one level   *)
(* early.  The recorded buffers are checked against a reference split of   *)
(* the path, compared the way dirlookup compares names: strncmp bounded by *)
(* DIRSIZ against the zero-padded on-disk name.                            *)
(***************************************************************************)
EXTENDS Integers, Sequences, SequencesExt

CONSTANTS
    Letter,    \* the characters other than '/' and NUL
    Slash,     \* '/'
    NUL,       \* '\0'
    DIRSIZ,    \* the size of a name buffer and of an on-disk name
    MaxPath    \* the longest path considered

ASSUME DIRSIZ \in Nat \ {0} /\ MaxPath \in Nat

Char == Letter \cup {Slash}
Buf == [0..DIRSIZ-1 -> Letter \cup {NUL}]

VARIABLES
    path,   \* the path string, without its terminating NUL
    p,      \* the index of namex's path pointer; *path == 0 when p > Len(path)
    name,   \* the name buffer
    done,   \* skipelem has returned 0
    got     \* per iteration: the buffer passed on and the *path == '\0' test

vars == <<path, p, name, done, got>>

\* *path at index i, the NUL terminator past the end.
At(i) == IF i <= Len(path) THEN path[i] ELSE NUL

\* while(*path == '/') path++;
RECURSIVE SkipSlashes(_)
SkipSlashes(i) == IF At(i) = Slash THEN SkipSlashes(i + 1) ELSE i

\* Fault variant: the element scan without its '/' test.
RECURSIVE ElemEndToNul(_)
ElemEndToNul(i) == IF At(i) # NUL THEN ElemEndToNul(i + 1) ELSE i

\* while(*path != '/' && *path != 0) path++;
RECURSIVE ElemEnd(_)
ElemEnd(i) == IF At(i) \notin {Slash, NUL} THEN ElemEnd(i + 1) ELSE i

\* Fault variant: the short-element branch without name[len] = 0.
CopyNameNoTerminator(s, len) ==
    IF len >= DIRSIZ
    THEN [k \in 0..DIRSIZ-1 |-> path[s + k]]
    ELSE [k \in 0..DIRSIZ-1 |-> IF k < len THEN path[s + k] ELSE name[k]]

\* memmove of DIRSIZ bytes, or of len bytes and a terminator; the bytes
\* past the terminator keep what the buffer held.
CopyName(s, len) ==
    IF len >= DIRSIZ
    THEN [k \in 0..DIRSIZ-1 |-> path[s + k]]
    ELSE [k \in 0..DIRSIZ-1 |-> IF k < len THEN path[s + k]
                                ELSE IF k = len THEN NUL ELSE name[k]]

Init ==
    /\ path \in BoundedSeq(Char, MaxPath)
    /\ p = 1
    /\ name \in Buf
    /\ done = FALSE
    /\ got = <<>>

\* skipelem finds no element and returns 0: the loop ends.
SkipElemNone ==
    /\ ~done
    /\ At(SkipSlashes(p)) = NUL
    /\ done' = TRUE
    /\ UNCHANGED <<path, p, name, got>>

\* Fault variant: skipelem without the trailing while(*path == '/') path++.
EmitNoTrailingSkip(s, e) ==
    /\ name' = CopyName(s, e - s)
    /\ p' = e
    /\ got' = Append(got, [name |-> CopyName(s, e - s), last |-> At(e) = NUL])
    /\ UNCHANGED <<path, done>>

\* skipelem copies the element [s, e) and skips the slashes after it.
Emit(s, e) ==
    /\ name' = CopyName(s, e - s)
    /\ p' = SkipSlashes(e)
    /\ got' = Append(got, [name |-> CopyName(s, e - s),
                           last |-> At(SkipSlashes(e)) = NUL])
    /\ UNCHANGED <<path, done>>

SkipElemCopy ==
    /\ ~done
    /\ At(SkipSlashes(p)) # NUL
    /\ Emit(SkipSlashes(p), ElemEnd(SkipSlashes(p)))

\* When skipelem has returned 0 the loop is over and no step is enabled.
Next == SkipElemNone \/ SkipElemCopy

Spec == Init /\ [][Next]_vars

-----------------------------------------------------------------------------
(* The reference: the path's elements are its maximal runs of non-slash   *)
(* characters, and the on-disk name of an element is its first DIRSIZ     *)
(* characters padded with NUL, as strncpy writes it.                      *)

Starts == {i \in 1..Len(path) : path[i] # Slash /\ (i = 1 \/ path[i-1] = Slash)}

RefElems ==
    [j \in 1..Cardinality(Starts) |->
        LET s == SetToSortSeq(Starts, <)[j]
        IN  SubSeq(path, s, CHOOSE e \in s..Len(path) :
                               /\ \A k \in s..e : path[k] # Slash
                               /\ (e = Len(path) \/ path[e+1] = Slash))]

\* The first DIRSIZ characters of a word.
Prefix(w) == SubSeq(w, 1, Min({DIRSIZ, Len(w)}))

DiskName(e) == [k \in 0..DIRSIZ-1 |-> IF k < Len(e) THEN e[k+1] ELSE NUL]

\* strncmp(a, b, DIRSIZ) == 0
RECURSIVE StrNEq(_, _, _)
StrNEq(a, b, k) == k = DIRSIZ \/ (a[k] = b[k] /\ (a[k] = NUL \/ StrNEq(a, b, k + 1)))

\* The names an element may be compared with: every word up to one past
\* DIRSIZ, so that truncation is exercised on both sides.
Words == BoundedSeq(Letter, DIRSIZ + 1) \ {<<>>}

TypeOK ==
    /\ path \in BoundedSeq(Char, MaxPath)
    /\ p \in 1..MaxPath + 1
    /\ name \in Buf
    /\ done \in BOOLEAN
    /\ got \in Seq([name : Buf, last : BOOLEAN])

\* The i-th buffer namex hands to dirlookup matches exactly the on-disk
\* names that agree with the i-th element of the path in its first DIRSIZ
\* characters, whatever the buffer held before (skipelem's memmove and
\* name[len] = 0); and when skipelem returns 0 every element was seen.
NamesAsSplit ==
    /\ Len(got) <= Len(RefElems)
    /\ done => Len(got) = Len(RefElems)
    /\ \A i \in 1..Len(got) : \A w \in Words :
           StrNEq(got[i].name, DiskName(w), 0)
               <=> Prefix(RefElems[i]) = Prefix(w)

\* After skipelem, *path == '\0' holds exactly when the element just
\* copied is the path's last one: nameiparent's early stop (fs.c:433)
\* then returns the parent of the final element, also for "a/" and "a//".
LastOnlyAtEnd ==
    \A i \in 1..Len(got) : got[i].last <=> i = Len(RefElems)

=============================================================================
