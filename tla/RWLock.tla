--------------------------------- MODULE RWLock ---------------------------------
(***************************************************************************)
(* What a key lock promises the store: a lock that is free, or held by one  *)
(* process exclusively, or by some processes in shared mode.                 *)
(***************************************************************************)
CONSTANTS Procs, NoProc
VARIABLES writer, readers

Init == writer = NoProc /\ readers = {}

AcquireExclusive(p) ==
    /\ writer = NoProc /\ readers = {}
    /\ writer' = p
    /\ UNCHANGED readers

AcquireShared(p) ==
    /\ writer = NoProc /\ p \notin readers
    /\ readers' = readers \cup {p}
    /\ UNCHANGED writer

Release(p) ==
    \/ writer = p /\ writer' = NoProc /\ UNCHANGED readers
    \/ p \in readers /\ readers' = readers \ {p} /\ UNCHANGED writer

Next == \E p \in Procs : AcquireExclusive(p) \/ AcquireShared(p) \/ Release(p)

Spec == Init /\ [][Next]_<<writer, readers>>
=============================================================================
