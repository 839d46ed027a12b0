------------------------------- MODULE ICache -------------------------------
(***************************************************************************)
(* What the in-memory inode table promises its callers (spec 3, 4.1): it   *)
(* is a map from live slots to inode numbers.  A slot is bound to an inum  *)
(* when iget claims it and unbound when its last reference is put; a live  *)
(* slot never changes inum, and no inum is bound to two slots at once.     *)
(* Each bind and unbind is one atomic step, as under the itable spinlock.  *)
(***************************************************************************)
CONSTANTS Slot, Inum

VARIABLE bound   \* bound[s]: the inum live slot s caches, 0 when s is free

Init == bound = [s \in Slot |-> 0]

(* iget misses and claims a free slot for an inum no slot caches. *)
Bind(s, i) ==
    /\ bound[s] = 0
    /\ \A s2 \in Slot : bound[s2] # i
    /\ bound' = [bound EXCEPT ![s] = i]

(* The last reference to a slot is put. *)
Unbind(s) ==
    /\ bound[s] # 0
    /\ bound' = [bound EXCEPT ![s] = 0]

Next == \E s \in Slot : Unbind(s) \/ \E i \in Inum : Bind(s, i)

Spec == Init /\ [][Next]_bound

=============================================================================
