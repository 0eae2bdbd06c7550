------------------------------ MODULE RangeLock ------------------------------
(***************************************************************************)
(* What the segment lock of hxestorage promises its callers: a thread that *)
(* has returned from seg_lock has its blocks to itself until it calls      *)
(* seg_unlock.  SegmentLock implements this with tables, condition         *)
(* variables and several critical sections per call; Storage uses it.      *)
(***************************************************************************)
CONSTANTS Threads, Blocks

VARIABLE held   \* the blocks each thread has locked

Init == held = [t \in Threads |-> {}]

Lock(t, B) ==
    /\ held[t] = {} /\ B # {}
    /\ \A u \in Threads : held[u] \cap B = {}
    /\ held' = [held EXCEPT ![t] = B]

Unlock(t) ==
    /\ held[t] # {}
    /\ held' = [held EXCEPT ![t] = {}]

Next == \E t \in Threads : (\E B \in SUBSET Blocks : Lock(t, B)) \/ Unlock(t)

Spec == Init /\ [][Next]_held
=============================================================================
