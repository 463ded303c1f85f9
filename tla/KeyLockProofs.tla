----------------------------- MODULE KeyLockProofs -----------------------------
(***************************************************************************)
(* Proofs about KeyLock: for any number of processes, inodes and retries,   *)
(* mutual exclusion and the refinement of a readers/writer lock.             *)
(***************************************************************************)
EXTENDS KeyLock, TLAPS

USE DEF Goto, Ops, ExclusiveOps, BlockingOps

\* A process that closes its descriptor, at whatever point of a call, preserves the invariant:
\* only its own flock goes, and the file under the path stays.
LEMMA DoneInv ==
    ASSUME IInv, NEW p \in Procs, Done(p), UNCHANGED path
    PROVE  IInv'
<1>1. TypeOK'
  BY KeyLockAssumption DEF IInv, TypeOK, Done, CloseFd
<1>2. DescriptorInv'
  BY KeyLockAssumption DEF IInv, TypeOK, DescriptorInv, Done, CloseFd
<1>3. FlockInv'
  BY DEF IInv, TypeOK, FlockInv, Done, CloseFd
<1>4. HeldFileStays'
  BY DEF IInv, TypeOK, HeldFileStays, HoldsExclusive, HoldsShared, Done, CloseFd
<1> QED
  BY <1>1, <1>2, <1>3, <1>4 DEF IInv

\* Call, Create and Open touch no flock; Create only names a file where there was none.
LEMMA CreateInv ==
    ASSUME IInv, NEW p \in Procs,
           (\E o \in Ops \ {"none"} : Call(p, o)) \/ Create(p) \/ Open(p)
    PROVE  IInv'
<1>1. CASE \E o \in Ops \ {"none"} : Call(p, o)
  <2> PICK o \in Ops \ {"none"} : Call(p, o)
    BY <1>1
  <2>1. TypeOK'
    BY DEF IInv, TypeOK, Call
  <2>2. DescriptorInv'
    BY DEF IInv, TypeOK, DescriptorInv, Call
  <2>3. FlockInv'
    BY DEF IInv, FlockInv, Call
  <2>4. HeldFileStays'
    BY DEF IInv, TypeOK, HeldFileStays, HoldsExclusive, HoldsShared, Call
  <2> QED
    BY <2>1, <2>2, <2>3, <2>4 DEF IInv
<1>2. CASE Create(p)
  <2>1. TypeOK'
    BY <1>2 DEF IInv, TypeOK, Create, Free
  <2>2. DescriptorInv'
    BY <1>2 DEF IInv, TypeOK, DescriptorInv, Create
  <2>3. FlockInv'
    BY <1>2 DEF IInv, FlockInv, Create
  <2>4. HeldFileStays'
    BY <1>2, KeyLockAssumption
       DEF IInv, TypeOK, DescriptorInv, HeldFileStays, HoldsExclusive, HoldsShared, Create
  <2> QED
    BY <2>1, <2>2, <2>3, <2>4 DEF IInv
<1>3. CASE Open(p)
  <2>1. TypeOK'
    BY <1>3 DEF IInv, TypeOK, Open
  <2>2. DescriptorInv'
    BY <1>3 DEF IInv, TypeOK, DescriptorInv, Open
  <2>3. FlockInv'
    BY <1>3 DEF IInv, FlockInv, Open
  <2>4. HeldFileStays'
    BY <1>3 DEF IInv, TypeOK, HeldFileStays, HoldsExclusive, HoldsShared, Open
  <2> QED
    BY <2>1, <2>2, <2>3, <2>4 DEF IInv
<1> QED
  BY <1>1, <1>2, <1>3

\* The kernel grants an flock only beside compatible ones.
LEMMA FlockStepInv ==
    ASSUME IInv, NEW p \in Procs, Flock(p)
    PROVE  IInv'
<1>1. TypeOK'
  BY DEF IInv, TypeOK, DescriptorInv, Flock
<1>2. DescriptorInv'
  BY KeyLockAssumption DEF IInv, TypeOK, DescriptorInv, Flock, Grantable
<1>3. FlockInv'
  BY KeyLockAssumption DEF IInv, TypeOK, DescriptorInv, FlockInv, Flock, Grantable
<1>4. HeldFileStays'
  BY DEF IInv, TypeOK, HeldFileStays, HoldsExclusive, HoldsShared, Flock
<1> QED
  BY <1>1, <1>2, <1>3, <1>4 DEF IInv

\* lock() returns with the lock only after it has seen its own inode under the path; otherwise it
\* starts again without a descriptor, or gives up.
LEMMA CheckInv ==
    ASSUME IInv, NEW p \in Procs, CheckSame(p) \/ CheckChanged(p)
    PROVE  IInv'
<1>1. CASE CheckSame(p)
  <2>1. TypeOK'
    BY <1>1 DEF IInv, TypeOK, CheckSame
  <2>2. DescriptorInv'
    BY <1>1 DEF IInv, TypeOK, DescriptorInv, CheckSame
  <2>3. FlockInv'
    BY <1>1 DEF IInv, FlockInv, CheckSame
  <2>4. HeldFileStays'
    BY <1>1 DEF IInv, TypeOK, HeldFileStays, HoldsExclusive, HoldsShared, CheckSame
  <2> QED
    BY <2>1, <2>2, <2>3, <2>4 DEF IInv
<1>2. CASE CheckChanged(p) /\ Done(p)
  BY <1>2, DoneInv DEF CheckChanged
<1>3. CASE CheckChanged(p) /\ retries[p] < MaxRetries
  <2>1. TypeOK'
    BY <1>3, KeyLockAssumption DEF IInv, TypeOK, CheckChanged, CloseFd
  <2>2. DescriptorInv'
    BY <1>3, KeyLockAssumption DEF IInv, TypeOK, DescriptorInv, CheckChanged, CloseFd
  <2>3. FlockInv'
    BY <1>3, KeyLockAssumption DEF IInv, TypeOK, FlockInv, CheckChanged, CloseFd
  <2>4. HeldFileStays'
    BY <1>3, KeyLockAssumption
       DEF IInv, TypeOK, HeldFileStays, HoldsExclusive, HoldsShared, CheckChanged, CloseFd
  <2> QED
    BY <2>1, <2>2, <2>3, <2>4 DEF IInv
<1> QED
  BY <1>1, <1>2, <1>3 DEF CheckChanged

\* CleanKeyLocks removes the file of a key that nobody else holds: the exclusive flock it has is on
\* the file under the path.
LEMMA RemoveInv ==
    ASSUME IInv, NEW p \in Procs, Remove(p)
    PROVE  IInv'
<1>1. TypeOK'
  BY DEF IInv, TypeOK, Remove
<1>2. DescriptorInv'
  BY DEF IInv, TypeOK, DescriptorInv, Remove
<1>3. FlockInv'
  BY DEF IInv, FlockInv, Remove
<1>4. ASSUME NEW q \in Procs, q # p PROVE ~HoldsExclusive(q) /\ ~HoldsShared(q)
  BY <1>4, KeyLockAssumption
     DEF IInv, TypeOK, DescriptorInv, FlockInv, HeldFileStays, HoldsExclusive, HoldsShared, Remove
<1>5. HeldFileStays'
  BY <1>4 DEF IInv, TypeOK, HeldFileStays, HoldsExclusive, HoldsShared, Remove
<1> QED
  BY <1>1, <1>2, <1>3, <1>5 DEF IInv

\* Init => IInv.
LEMMA InitInv == Init => IInv
  BY KeyLockAssumption
     DEF Init, IInv, TypeOK, DescriptorInv, FlockInv, HeldFileStays, HoldsExclusive, HoldsShared

\* Every step of Next preserves IInv.
LEMMA NextInv == IInv /\ [Next]_vars => IInv'
<1> SUFFICES ASSUME IInv, [Next]_vars PROVE IInv'
  OBVIOUS
<1>1. CASE UNCHANGED vars
  BY <1>1 DEF vars, IInv, TypeOK, DescriptorInv, FlockInv, HeldFileStays, HoldsExclusive, HoldsShared
<1>2. CASE Next
  <2> PICK p \in Procs : (\E o \in Ops \ {"none"} : Call(p, o)) \/ Step(p) \/ Close(p) \/ Kill(p)
    BY <1>2 DEF Next
  <2>1. CASE FileMissing(p) \/ FlockBusy(p) \/ Close(p) \/ Kill(p)
    BY <2>1, DoneInv DEF FileMissing, FlockBusy, Close, Kill
  <2> QED
    BY <2>1, CreateInv, FlockStepInv, CheckInv, RemoveInv DEF Step
<1> QED
  BY <1>1, <1>2

\* IInv holds in every reachable state.
THEOREM Invariance == Spec => []IInv
  BY InitInv, NextInv, PTL DEF Spec

\* An exclusive holder of a key is alone, whatever CleanKeyLocks removes in between.
THEOREM KeyLockExcludes == Spec => []MutualExclusion
<1>1. IInv => MutualExclusion
  BY KeyLockAssumption
     DEF IInv, TypeOK, DescriptorInv, FlockInv, HeldFileStays, MutualExclusion,
         HoldsExclusive, HoldsShared
<1> QED
  BY <1>1, Invariance, PTL

\* The lock file of a key that is held is neither removed nor replaced.
THEOREM KeyLockFileStays == Spec => []HeldFileStays
<1>1. IInv => HeldFileStays
  BY DEF IInv
<1> QED
  BY <1>1, Invariance, PTL

\* A process that ends a call or closes its lock releases the abstract lock if it had it, and is
\* invisible otherwise.
LEMMA DoneRefines ==
    ASSUME IInv, MutualExclusion, NEW p \in Procs, Done(p)
    PROVE  [Lock!Next]_<<Writer, Readers>>
<1>1. HoldsExclusive(p)' = FALSE /\ HoldsShared(p)' = FALSE
  BY DEF IInv, TypeOK, Done, HoldsExclusive, HoldsShared
<1>2. \A q \in Procs \ {p} : HoldsExclusive(q)' = HoldsExclusive(q) /\ HoldsShared(q)' = HoldsShared(q)
  BY DEF IInv, TypeOK, Done, HoldsExclusive, HoldsShared
<1>3. CASE HoldsExclusive(p)
  <2>0. ~HoldsShared(p)
    BY <1>3 DEF HoldsExclusive, HoldsShared
  <2>1. Writer = p /\ Readers = {}
    BY <1>3, <2>0 DEF MutualExclusion, Writer, Readers
  <2>2. Writer' = NoProc /\ Readers' = {}
    BY <1>1, <1>2, <1>3 DEF MutualExclusion, Writer, Readers
  <2> QED
    BY <2>1, <2>2 DEF Lock!Next, Lock!Release
<1>4. CASE ~HoldsExclusive(p)
  <2>1. Writer' = Writer
    BY <1>1, <1>2, <1>4 DEF Writer
  <2>2. Readers' = Readers \ {p}
    BY <1>1, <1>2 DEF Readers
  <2> QED
    BY <2>1, <2>2 DEF Lock!Next, Lock!Release
<1> QED
  BY <1>3, <1>4

\* A process that finds its inode under the path acquires the abstract lock, which is free for it.
LEMMA CheckSameRefines ==
    ASSUME IInv, MutualExclusion, MutualExclusion', NEW p \in Procs, CheckSame(p)
    PROVE  [Lock!Next]_<<Writer, Readers>>
<1>1. ~HoldsExclusive(p) /\ ~HoldsShared(p)
  BY DEF CheckSame, HoldsExclusive, HoldsShared
<1>2. \A q \in Procs \ {p} : HoldsExclusive(q)' = HoldsExclusive(q) /\ HoldsShared(q)' = HoldsShared(q)
  BY DEF IInv, TypeOK, CheckSame, HoldsExclusive, HoldsShared
<1>3. CASE op[p] \in ExclusiveOps
  <2>1. HoldsExclusive(p)'
    BY <1>3 DEF IInv, TypeOK, CheckSame, HoldsExclusive
  <2>2. \A q \in Procs : ~HoldsExclusive(q) /\ ~HoldsShared(q)
    BY <1>1, <1>2, <2>1 DEF MutualExclusion
  <2>3. Writer = NoProc /\ Readers = {}
    BY <2>2 DEF Writer, Readers
  <2>4. ~HoldsShared(p)'
    BY <1>3, <2>1 DEF CheckSame, HoldsExclusive, HoldsShared
  <2>5. Writer' = p /\ Readers' = {}
    BY <2>1, <2>4 DEF MutualExclusion, Writer, Readers
  <2> QED
    BY <2>3, <2>5 DEF Lock!Next, Lock!AcquireExclusive
<1>4. CASE op[p] \notin ExclusiveOps
  <2>1. HoldsShared(p)' /\ HoldsExclusive(p)' = FALSE
    BY <1>4 DEF IInv, TypeOK, CheckSame, HoldsShared, HoldsExclusive
  <2>2. \A q \in Procs : ~HoldsExclusive(q)
    BY <1>1, <1>2, <2>1 DEF MutualExclusion
  <2>3. \A q \in Procs : ~HoldsExclusive(q)'
    BY <1>2, <2>1, <2>2
  <2>4. Writer = NoProc /\ Writer' = NoProc
    BY <2>2, <2>3 DEF Writer
  <2>5. p \notin Readers /\ Readers' = Readers \cup {p}
    BY <1>1, <1>2, <2>1 DEF Readers
  <2> QED
    BY <2>4, <2>5 DEF Lock!Next, Lock!AcquireShared
<1> QED
  BY <1>3, <1>4

\* CleanKeyLocks gives its lock up, as far as others can tell, with the removal of the file.
LEMMA RemoveRefines ==
    ASSUME IInv, MutualExclusion, NEW p \in Procs, Remove(p)
    PROVE  [Lock!Next]_<<Writer, Readers>>
<1>1. HoldsExclusive(p) /\ HoldsExclusive(p)' = FALSE /\ HoldsShared(p)' = FALSE
  BY DEF IInv, TypeOK, Remove, HoldsExclusive, HoldsShared
<1>2. \A q \in Procs \ {p} : HoldsExclusive(q)' = HoldsExclusive(q) /\ HoldsShared(q)' = HoldsShared(q)
  BY DEF IInv, TypeOK, Remove, HoldsExclusive, HoldsShared
<1>3. ~HoldsShared(p)
  BY DEF Remove, HoldsShared
<1>4. Writer = p /\ Readers = {}
  BY <1>1, <1>3 DEF MutualExclusion, Writer, Readers
<1>5. Writer' = NoProc /\ Readers' = {}
  BY <1>1, <1>2 DEF MutualExclusion, Writer, Readers
<1> QED
  BY <1>4, <1>5 DEF Lock!Next, Lock!Release

\* The key lock implements a readers/writer lock: every step of its processes, their deaths
\* included, acquires or releases the abstract lock as its rules allow, or is invisible.
THEOREM KeyLockRefines == Spec => ImplementsRWLock
<1>1. Init => Lock!Init
  BY DEF Init, Lock!Init, Writer, Readers, HoldsExclusive, HoldsShared
<1>2. IInv /\ MutualExclusion /\ MutualExclusion' /\ [Next]_vars => [Lock!Next]_<<Writer, Readers>>
  <2> SUFFICES ASSUME IInv, MutualExclusion, MutualExclusion', [Next]_vars
               PROVE  [Lock!Next]_<<Writer, Readers>>
    OBVIOUS
  <2>1. CASE UNCHANGED vars
    BY <2>1 DEF vars, Writer, Readers, HoldsExclusive, HoldsShared
  <2>2. ASSUME NEW p \in Procs,
               \/ \E o \in Ops \ {"none"} : Call(p, o)
               \/ Create(p) \/ Open(p) \/ Flock(p)
               \/ CheckChanged(p) /\ retries[p] < MaxRetries
        PROVE  UNCHANGED <<Writer, Readers>>
    <3>1. /\ pc[p] \notin {"locked", "remove"} /\ pc'[p] \notin {"locked", "remove"}
          /\ \A q \in Procs \ {p} : pc'[q] = pc[q] /\ op'[q] = op[q]
      <4>1. CASE \E o \in Ops \ {"none"} : Call(p, o)
        BY <4>1 DEF IInv, TypeOK, Call
      <4>2. CASE Create(p) \/ Open(p)
        BY <4>2 DEF IInv, TypeOK, Create, Open
      <4>3. CASE Flock(p)
        BY <4>3 DEF IInv, TypeOK, Flock
      <4>4. CASE CheckChanged(p) /\ retries[p] < MaxRetries
        <5>1. ~(retries[p] >= MaxRetries)
          BY <4>4, KeyLockAssumption DEF IInv, TypeOK
        <5> QED
          BY <4>4, <5>1 DEF IInv, TypeOK, CheckChanged
      <4> QED
        BY <2>2, <4>1, <4>2, <4>3, <4>4
    <3>2. \A q \in Procs : HoldsExclusive(q)' = HoldsExclusive(q) /\ HoldsShared(q)' = HoldsShared(q)
      BY <3>1 DEF HoldsExclusive, HoldsShared
    <3> QED
      BY <3>2 DEF Writer, Readers
  <2>3. CASE Next
    <3> PICK p \in Procs : (\E o \in Ops \ {"none"} : Call(p, o)) \/ Step(p) \/ Close(p) \/ Kill(p)
      BY <2>3 DEF Next
    <3>1. CASE FileMissing(p) \/ FlockBusy(p) \/ Close(p) \/ Kill(p) \/ (CheckChanged(p) /\ Done(p))
      BY <3>1, DoneRefines DEF FileMissing, FlockBusy, Close, Kill
    <3>2. CASE CheckChanged(p)
      BY <2>2, <3>1, <3>2 DEF CheckChanged
    <3> QED
      BY <2>2, <3>1, <3>2, CheckSameRefines, RemoveRefines DEF Step
  <2> QED
    BY <2>1, <2>3
<1> QED
  BY <1>1, <1>2, Invariance, KeyLockExcludes, PTL DEF Spec, ImplementsRWLock, Lock!Spec
=============================================================================
