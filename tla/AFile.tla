------------------------------- MODULE AFile -------------------------------
(***************************************************************************)
(* What a regular file and a shared struct file promise to the tasks that  *)
(* read and write through it (spec 4.3, 4.6): the file is a sequence of    *)
(* bytes; each open struct file has an offset; a write puts its bytes at   *)
(* its file's offset (extending the file, never past its end with a gap)  *)
(* and advances that offset by the count it reports; a read advances it by *)
(* at most what is left; open with O_TRUNC empties the file and gives the  *)
(* opener a new struct file at offset 0.                                   *)
(***************************************************************************)
EXTENDS Integers, Sequences

CONSTANTS Byte, File, MaxSize

VARIABLES content, off

Init == content = <<>> /\ off = [f \in File |-> 0]

\* k bytes of value v at the offset.
Write(f, v, k) ==
    /\ off[f] <= Len(content) /\ off[f] + k <= MaxSize
    /\ content' = [i \in 1..(IF off[f] + k > Len(content) THEN off[f] + k ELSE Len(content)) |->
                     IF off[f] < i /\ i <= off[f] + k THEN v ELSE content[i]]
    /\ off' = [off EXCEPT ![f] = @ + k]

Read(f, k) ==
    /\ off[f] + k <= Len(content)
    /\ off' = [off EXCEPT ![f] = @ + k]
    /\ UNCHANGED content

\* The new file replaces the opener's old one, f.
OpenTruncate(f) == content' = <<>> /\ off' = [off EXCEPT ![f] = 0]

\* Opening a new struct file without truncating.
Reopen(f) == off' = [off EXCEPT ![f] = 0] /\ UNCHANGED content

Next ==
    \/ \E f \in File, v \in Byte, k \in 1..MaxSize : Write(f, v, k)
    \/ \E f \in File, k \in 1..MaxSize : Read(f, k)
    \/ \E f \in File : OpenTruncate(f) \/ Reopen(f)

Spec == Init /\ [][Next]_<<content, off>>

=============================================================================
