--------------------------- MODULE PodDeadlockProofs ---------------------------
(***************************************************************************)
(* gc, rm, run, run-prepared and status --wait never wait for each other in  *)
(* a circle, for any number of pods, processes and kills.  Only an rm has a  *)
(* lock while it waits for another (LockInv), so that a circle would consist *)
(* of rm processes, each of which found its pod unlocked and was overtaken   *)
(* by the next (Acyclic).  Being overtaken cannot close a circle: the rm     *)
(* that takes a lock is not waiting when it does (Sink).                     *)
(***************************************************************************)
EXTENDS PodLifecycleProofs

USE DEF fsVars, lockVars, procVars, Goto

\* A step after which nobody is overtaken who was not before.
LEMMA NoNewEdge ==
    ASSUME Acyclic, \A p, q \in Procs : Overtaken(p, q)' => Overtaken(p, q)
    PROVE  Acyclic'
  BY DEF Acyclic

\* A step after which only r, that waits for nobody, may have overtaken somebody more.
LEMMA Sink ==
    ASSUME Acyclic, NEW r \in Procs,
           \A q \in Procs : ~Overtaken(r, q)',
           \A p, q \in Procs : q # r /\ Overtaken(p, q)' => Overtaken(p, q)
    PROVE  Acyclic'
<1> SUFFICES ASSUME NEW S \in SUBSET Procs, S # {}
             PROVE  \E p \in S : \A q \in S : ~Overtaken(p, q)'
  BY DEF Acyclic
<1>1. CASE r \in S
  BY <1>1
<1>2. CASE r \notin S
  <2>1. PICK p \in S : \A q \in S : ~Overtaken(p, q)
    BY DEF Acyclic
  <2> QED
    BY <1>2, <2>1
<1> QED
  BY <1>1, <1>2

\* A process that ends gives its locks back.
LEMMA QuitLock ==
    ASSUME IInv, LockInv, Acyclic, NEW p \in Procs, Quit(p), dir' = dir
    PROVE  LockInv' /\ Acyclic'
<1>1. LockInv'
  BY NullAssumption DEF IInv, TypeOK, LockInv, KeptLocks, WorkLocks, SharedLocks, ProbedViews,
         Quit
<1>2. \A r, q \in Procs : Overtaken(r, q)' => Overtaken(r, q)
  BY NullAssumption DEF IInv, TypeOK, LocalInv, Overtaken, Quit
<1> QED
  BY <1>1, <1>2, NoNewEdge

\* gc closes a pod it is done with, and with it the lock; rm keeps its locks.
LEMMA DoneLock ==
    ASSUME IInv, LockInv, Acyclic, NEW p \in Procs, DoneWith(p), dir' = dir,
           pc[p] \in {"got", "mark", "toGarbage", "delete", "removeDir"}
    PROVE  LockInv' /\ Acyclic'
<1>0. cmd[p] \in {"rm"} \cup Passes \/ pc[p] = "got"
  BY DEF IInv, CommandInv
<1>1. LockInv'
  BY <1>0, NullAssumption DEF IInv, TypeOK, LocalInv, LockInv, KeptLocks, WorkLocks,
         SharedLocks, ProbedViews, DoneWith
<1>2. \A r, q \in Procs : Overtaken(r, q)' => Overtaken(r, q)
  BY NullAssumption DEF IInv, TypeOK, LocalInv, Overtaken, DoneWith
<1> QED
  BY <1>1, <1>2, NoNewEdge

\* A process without locks makes a new pod.
LEMMA NewPodLocks ==
    ASSUME IInv, LockInv, Acyclic, NEW p \in Procs, NEW x \in Pods,
           NEW c \in {"prepare", "run"}, NewPod(p, x, c)
    PROVE  LockInv' /\ Acyclic'
<1>1. KeptLocks'
  BY NullAssumption DEF IInv, TypeOK, LocalInv, LockInv, KeptLocks, NewPod, WorkLocks
<1>2. WorkLocks'
  BY NullAssumption DEF IInv, TypeOK, LocalInv, LockInv, WorkLocks, CommandInv, NewPod, KeptLocks
<1>3. SharedLocks'
  BY NullAssumption DEF IInv, TypeOK, LocalInv, LockInv, SharedLocks, NewPod, WorkLocks,
         KeptLocks
<1>4. ProbedViews'
  BY NullAssumption DEF IInv, TypeOK, LocalInv, LockInv, ProbedViews, CommandInv, NewPod,
         WorkLocks, KeptLocks
<1>5. \A r, q \in Procs : Overtaken(r, q)' => Overtaken(r, q)
  BY NullAssumption DEF IInv, TypeOK, LocalInv, LockInv, KeptLocks, WorkLocks, Overtaken,
         FreeViews, NewPod
<1> QED
  BY <1>1, <1>2, <1>3, <1>4, <1>5, NoNewEdge DEF LockInv

\* A process without locks looks for a pod.
LEMMA GetPodLocks ==
    ASSUME IInv, LockInv, Acyclic, NEW p \in Procs, NEW x \in Pods,
           NEW c \in {"runPrepared", "status", "wait"}, GetPod(p, x, c)
    PROVE  LockInv' /\ Acyclic'
<1>1. KeptLocks'
  BY NullAssumption DEF IInv, TypeOK, LocalInv, LockInv, KeptLocks, GetPod, WorkLocks
<1>2. WorkLocks'
  BY NullAssumption DEF IInv, TypeOK, LocalInv, LockInv, WorkLocks, CommandInv, GetPod, KeptLocks
<1>3. SharedLocks'
  BY NullAssumption DEF IInv, TypeOK, LocalInv, LockInv, SharedLocks, GetPod, WorkLocks,
         KeptLocks
<1>4. ProbedViews'
  BY NullAssumption DEF IInv, TypeOK, LocalInv, LockInv, ProbedViews, CommandInv, GetPod,
         WorkLocks, KeptLocks
<1>5. \A r, q \in Procs : Overtaken(r, q)' => Overtaken(r, q)
  BY NullAssumption DEF IInv, TypeOK, LocalInv, LockInv, KeptLocks, WorkLocks, Overtaken,
         FreeViews, GetPod
<1> QED
  BY <1>1, <1>2, <1>3, <1>4, <1>5, NoNewEdge DEF LockInv

\* A process without locks begins a walk.
LEMMA StartWalkLocks ==
    ASSUME IInv, LockInv, Acyclic, NEW p \in Procs,
           StartGC(p) \/ \E S \in SUBSET Pods : StartRm(p, S)
    PROVE  LockInv' /\ Acyclic'
<1>1. KeptLocks'
  BY NullAssumption DEF IInv, TypeOK, LocalInv, LockInv, KeptLocks, StartGC, StartRm, WorkLocks
<1>2. WorkLocks'
  BY NullAssumption DEF IInv, TypeOK, LocalInv, LockInv, WorkLocks, CommandInv, StartGC, StartRm,
         KeptLocks
<1>3. SharedLocks'
  BY NullAssumption DEF IInv, TypeOK, LocalInv, LockInv, SharedLocks, StartGC, StartRm,
         WorkLocks, KeptLocks
<1>4. ProbedViews'
  BY NullAssumption DEF IInv, TypeOK, LocalInv, LockInv, ProbedViews, CommandInv, StartGC,
         StartRm, WorkLocks, KeptLocks
<1>5. \A r, q \in Procs : Overtaken(r, q)' => Overtaken(r, q)
  BY NullAssumption DEF IInv, TypeOK, LocalInv, LockInv, KeptLocks, WorkLocks, Overtaken,
         FreeViews, StartGC, StartRm
<1> QED
  BY <1>1, <1>2, <1>3, <1>4, <1>5, NoNewEdge DEF LockInv

\* The creator of a pod locks it, and renames it with its lock.
LEMMA CreatorLocks ==
    ASSUME IInv, LockInv, Acyclic, NEW p \in Procs,
           LockEmbryo(p) \/ XToPreparing(p) \/ Prepare(p)
    PROVE  LockInv' /\ Acyclic'
<1>1. KeptLocks'
  BY NullAssumption DEF IInv, TypeOK, LocalInv, LockInv, KeptLocks, CommandInv, OwnerInv,
         Preparing, LockEmbryo, XToPreparing, Prepare, CanLockExclusive, Rename
<1>2. WorkLocks'
  BY NullAssumption DEF IInv, TypeOK, LocalInv, LockInv, WorkLocks, CommandInv, OwnerInv,
         Preparing, LockEmbryo, XToPreparing, Prepare, CanLockExclusive, Rename
<1>3. SharedLocks'
  BY NullAssumption DEF IInv, TypeOK, LocalInv, LockInv, SharedLocks, CommandInv, OwnerInv,
         Preparing, LockEmbryo, XToPreparing, Prepare, CanLockExclusive, Rename
<1>4. ProbedViews'
  BY NullAssumption DEF IInv, TypeOK, LocalInv, LockInv, ProbedViews, CommandInv, OwnerInv,
         Preparing, LockEmbryo, XToPreparing, Prepare, CanLockExclusive, Rename
<1>5. \A r, q \in Procs : Overtaken(r, q)' => Overtaken(r, q)
  BY NullAssumption DEF IInv, TypeOK, LocalInv, LockInv, KeptLocks, WorkLocks, Overtaken,
         FreeViews, CommandInv, OwnerInv, Preparing, LockEmbryo, XToPreparing, Prepare,
         CanLockExclusive, Rename
<1> QED
  BY <1>1, <1>2, <1>3, <1>4, <1>5, NoNewEdge DEF LockInv

\* A pod is run by the process that has its lock.
LEMMA RunLocks ==
    ASSUME IInv, LockInv, Acyclic, NEW p \in Procs,
           LockRun(p) \/ XToPrepared(p) \/ XToRun(p) \/ Stage1Setup(p)
    PROVE  LockInv' /\ Acyclic'
<1>1. KeptLocks'
  BY NullAssumption DEF IInv, TypeOK, LocalInv, LockInv, KeptLocks, CommandInv, OwnerInv,
         Preparing, LockRun, XToPrepared, XToRun, Stage1Setup, CanLockExclusive, Rename
<1>2. WorkLocks'
  BY NullAssumption DEF IInv, TypeOK, LocalInv, LockInv, WorkLocks, CommandInv, OwnerInv,
         Preparing, LockRun, XToPrepared, XToRun, Stage1Setup, CanLockExclusive, Rename
<1>3. SharedLocks'
  BY NullAssumption DEF IInv, TypeOK, LocalInv, LockInv, SharedLocks, CommandInv, OwnerInv,
         Preparing, LockRun, XToPrepared, XToRun, Stage1Setup, CanLockExclusive, Rename
<1>4. ProbedViews'
  BY NullAssumption DEF IInv, TypeOK, LocalInv, LockInv, ProbedViews, CommandInv, OwnerInv,
         Preparing, LockRun, XToPrepared, XToRun, Stage1Setup, CanLockExclusive, Rename
<1>5. \A r, q \in Procs : Overtaken(r, q)' => Overtaken(r, q)
  BY NullAssumption DEF IInv, TypeOK, LocalInv, LockInv, KeptLocks, WorkLocks, Overtaken,
         FreeViews, CommandInv, OwnerInv, Preparing, LockRun, XToPrepared, XToRun, Stage1Setup,
         CanLockExclusive, Rename
<1> QED
  BY <1>1, <1>2, <1>3, <1>4, <1>5, NoNewEdge DEF LockInv

\* A lookup tries one directory after the other.
LEMMA SearchLocks ==
    ASSUME IInv, LockInv, Acyclic, NEW p \in Procs,
           NotHere(p) \/ RefreshGone(p) \/ (NotFound(p) /\ ~Quit(p))
    PROVE  LockInv' /\ Acyclic'
<1>1. KeptLocks'
  BY NullAssumption DEF IInv, TypeOK, LocalInv, LockInv, KeptLocks, CommandInv, NotHere,
         RefreshGone, NotFound
<1>2. WorkLocks'
  BY NullAssumption DEF IInv, TypeOK, LocalInv, LockInv, WorkLocks, CommandInv, NotHere,
         RefreshGone, NotFound
<1>3. SharedLocks'
  BY NullAssumption DEF IInv, TypeOK, LocalInv, LockInv, SharedLocks, CommandInv, NotHere,
         RefreshGone, NotFound
<1>4. ProbedViews'
  BY NullAssumption DEF IInv, TypeOK, LocalInv, LockInv, ProbedViews, CommandInv, NotHere,
         RefreshGone, NotFound
<1>5. \A r, q \in Procs : Overtaken(r, q)' => Overtaken(r, q)
  BY NullAssumption DEF IInv, TypeOK, LocalInv, LockInv, KeptLocks, WorkLocks, Overtaken,
         FreeViews, CommandInv, NotHere, RefreshGone, NotFound
<1> QED
  BY <1>1, <1>2, <1>3, <1>4, <1>5, NoNewEdge DEF LockInv

\* A lookup finds the pod: where it does not probe the lock, no rm has it.
LEMMA FoundLocks ==
    ASSUME IInv, LockInv, Acyclic, NEW p \in Procs, Found(p)
    PROVE  LockInv' /\ Acyclic'
<1>1. KeptLocks'
  BY NullAssumption DEF IInv, TypeOK, LocalInv, LockInv, KeptLocks, CommandInv, Found,
         UnlockedView, Dirs, FreeViews
<1>2. WorkLocks'
  BY NullAssumption DEF IInv, TypeOK, LocalInv, LockInv, WorkLocks, CommandInv, Found,
         UnlockedView, Dirs, FreeViews
<1>3. SharedLocks'
  BY NullAssumption DEF IInv, TypeOK, LocalInv, LockInv, SharedLocks, CommandInv, Found,
         UnlockedView, Dirs, FreeViews
<1>4. ProbedViews'
  <2>1. pod[p] \in Pods
    BY DEF IInv, LocalInv, Found
  <2>2. dir[pod[p]] \in Dirs
    BY <2>1 DEF IInv, TypeOK, Found, DirOrder, Dirs
  <2>3. dir[pod[p]] \notin {"embryo", "prepared"}
            => UnlockedView(dir[pod[p]]) \in FreeViews \ {"prepared"}
    BY <2>2 DEF Dirs, UnlockedView, FreeViews
  <2> QED
    BY <2>3 DEF IInv, TypeOK, LockInv, ProbedViews, Found
<1>5. \A r, q \in Procs : Overtaken(r, q)' => Overtaken(r, q)
  BY NullAssumption DEF IInv, TypeOK, LocalInv, LockInv, KeptLocks, WorkLocks, Overtaken,
         FreeViews, CommandInv, Found, UnlockedView, Dirs
<1> QED
  BY <1>1, <1>2, <1>3, <1>4, <1>5, NoNewEdge DEF LockInv

\* The probe of a lock: a pod that is found locked is left alone by rm.
LEMMA ProbeLocks ==
    ASSUME IInv, LockInv, Acyclic, NEW p \in Procs,
           ProbeFree(p) \/ ProbeLocked(p) \/ Unprobe(p)
    PROVE  LockInv' /\ Acyclic'
<1>1. KeptLocks'
  BY NullAssumption DEF IInv, TypeOK, LocalInv, LockInv, KeptLocks, ProbeFree, ProbeLocked,
         Unprobe, CanLockShared, LockedView, MarkedViews, GarbageViews, FreeViews, ProbedViews
<1>2. WorkLocks'
  BY NullAssumption DEF IInv, TypeOK, LocalInv, LockInv, WorkLocks, CommandInv, ProbeFree,
         ProbeLocked, Unprobe, CanLockShared, LockedView, MarkedViews, GarbageViews, FreeViews,
         ProbedViews
<1>3. SharedLocks'
  BY NullAssumption DEF IInv, TypeOK, LocalInv, LockInv, SharedLocks, ProbeFree, ProbeLocked,
         Unprobe, CanLockShared, LockedView, MarkedViews, GarbageViews, FreeViews, ProbedViews
<1>4. ProbedViews'
  BY NullAssumption DEF IInv, TypeOK, LocalInv, LockInv, ProbedViews, CommandInv, ProbeFree,
         ProbeLocked, Unprobe, CanLockShared, LockedView, MarkedViews, GarbageViews, FreeViews
<1>5. \A r, q \in Procs : Overtaken(r, q)' => Overtaken(r, q)
  BY NullAssumption DEF IInv, TypeOK, LocalInv, LockInv, KeptLocks, WorkLocks, Overtaken,
         FreeViews, ProbeFree, ProbeLocked, Unprobe, CanLockShared, LockedView, MarkedViews,
         GarbageViews, ProbedViews
<1> QED
  BY <1>1, <1>2, <1>3, <1>4, <1>5, NoNewEdge DEF LockInv

\* status --wait has a shared lock for a moment.
LEMMA WaitLocks ==
    ASSUME IInv, LockInv, Acyclic, NEW p \in Procs,
           WaitTest(p) \/ WaitLock(p) \/ WaitUnlock(p)
    PROVE  LockInv' /\ Acyclic'
<1>1. KeptLocks'
  BY NullAssumption DEF IInv, TypeOK, LocalInv, LockInv, KeptLocks, CommandInv, WaitTest,
         WaitLock, WaitUnlock, CanLockShared
<1>2. WorkLocks'
  BY NullAssumption DEF IInv, TypeOK, LocalInv, LockInv, WorkLocks, CommandInv, WaitTest,
         WaitLock, WaitUnlock, CanLockShared
<1>3. SharedLocks'
  BY NullAssumption DEF IInv, TypeOK, LocalInv, LockInv, SharedLocks, CommandInv, WaitTest,
         WaitLock, WaitUnlock, CanLockShared
<1>4. ProbedViews'
  BY NullAssumption DEF IInv, TypeOK, LocalInv, LockInv, ProbedViews, CommandInv, WaitTest,
         WaitLock, WaitUnlock, CanLockShared
<1>5. \A r, q \in Procs : Overtaken(r, q)' => Overtaken(r, q)
  BY NullAssumption DEF IInv, TypeOK, LocalInv, LockInv, KeptLocks, WorkLocks, Overtaken,
         FreeViews, CommandInv, WaitTest, WaitLock, WaitUnlock, CanLockShared
<1> QED
  BY <1>1, <1>2, <1>3, <1>4, <1>5, NoNewEdge DEF LockInv

\* The loops of gc and rm.
LEMMA WalkLocks ==
    ASSUME IInv, LockInv, Acyclic, NEW p \in Procs,
           \/ ListPods(p) \/ (\E x \in Pods : NextPod(p, x))
           \/ (WalkDone(p) /\ ~Quit(p)) \/ (RunPrepared(p) /\ ~Quit(p))
    PROVE  LockInv' /\ Acyclic'
<1>1. KeptLocks'
  BY NullAssumption DEF IInv, TypeOK, LocalInv, LockInv, KeptLocks, CommandInv, ListPods,
         NextPod, WalkDone, NextPass, RunPrepared
<1>2. WorkLocks'
  BY NullAssumption DEF IInv, TypeOK, LocalInv, LockInv, WorkLocks, CommandInv, ListPods,
         NextPod, WalkDone, NextPass, RunPrepared
<1>3. SharedLocks'
  BY NullAssumption DEF IInv, TypeOK, LocalInv, LockInv, SharedLocks, CommandInv, ListPods,
         NextPod, WalkDone, NextPass, RunPrepared
<1>4. ProbedViews'
  BY NullAssumption DEF IInv, TypeOK, LocalInv, LockInv, ProbedViews, CommandInv, ListPods,
         NextPod, WalkDone, NextPass, RunPrepared
<1>5. \A r, q \in Procs : Overtaken(r, q)' => Overtaken(r, q)
  BY NullAssumption DEF IInv, TypeOK, LocalInv, LockInv, KeptLocks, WorkLocks, Overtaken,
         FreeViews, CommandInv, ListPods, NextPod, WalkDone, NextPass, RunPrepared
<1> QED
  BY <1>1, <1>2, <1>3, <1>4, <1>5, NoNewEdge DEF LockInv

\* gc and rm decide what to do with a pod: rm leaves one that it found locked.
LEMMA VisitLocks ==
    ASSUME IInv, LockInv, Acyclic, NEW p \in Procs, ~DoneWith(p), GCVisit(p) \/ RemovePod(p)
    PROVE  LockInv' /\ Acyclic'
<1>1. KeptLocks'
  BY DEF IInv, TypeOK, LockInv, KeptLocks, GCVisit, RemovePod, PassStep
<1>2. WorkLocks'
  BY NullAssumption DEF IInv, TypeOK, LockInv, WorkLocks, GCVisit, RemovePod
<1>3. SharedLocks'
  BY DEF IInv, TypeOK, LockInv, SharedLocks, GCVisit, RemovePod
<1>4. ProbedViews'
  BY DEF IInv, TypeOK, LockInv, ProbedViews, FreeViews, GCVisit, RemovePod, Passes, PassStep
<1>5. \A r, q \in Procs : Overtaken(r, q)' => Overtaken(r, q)
  BY DEF IInv, TypeOK, Overtaken, FreeViews, GCVisit, RemovePod
<1> QED
  BY <1>1, <1>2, <1>3, <1>4, <1>5, NoNewEdge DEF LockInv

\* A rename without a lock: nobody has the lock of a pod that is not garbage for deletion.
LEMMA MovedLocks ==
    ASSUME IInv, LockInv, Acyclic, NEW p \in Procs, NEW v \in {"exitedGarbage", "garbage"},
           NEW d \in {"exited-garbage", "garbage"},
           pc[p] \in {"mark", "toGarbage"}, Moved(p, v), dir' = [dir EXCEPT ![pod[p]] = d]
    PROVE  LockInv' /\ Acyclic'
<1>0. pod[p] \in Pods /\ cmd[p] \in {"rm"} \cup Passes
  BY DEF IInv, LocalInv, CommandInv
<1>1. KeptLocks'
  BY <1>0, NullAssumption DEF IInv, TypeOK, LockInv, KeptLocks, Moved, DoneWith
<1>2. WorkLocks'
  BY <1>0, NullAssumption DEF IInv, TypeOK, LockInv, WorkLocks, Moved, DoneWith
<1>3. SharedLocks'
  BY <1>0 DEF IInv, TypeOK, LockInv, SharedLocks, Moved, DoneWith
<1>4. ProbedViews'
  BY <1>0 DEF IInv, TypeOK, LockInv, ProbedViews, FreeViews, Moved, DoneWith
<1>5. \A r, q \in Procs : Overtaken(r, q)' => Overtaken(r, q)
  <2>1. CASE cmd[p] = "rm"
    BY <1>0, <2>1 DEF IInv, TypeOK, LockInv, ProbedViews, Overtaken, Moved
  <2>2. CASE cmd[p] # "rm"
    BY <1>0, <2>2, NullAssumption DEF IInv, TypeOK, LocalInv, Overtaken, Moved, DoneWith
  <2> QED
    BY <2>1, <2>2
<1> QED
  BY <1>1, <1>2, <1>3, <1>4, <1>5, NoNewEdge DEF LockInv

\* A pod is locked for deletion: whoever takes the lock waits for nobody.
LEMMA SweepLocks ==
    ASSUME IInv, LockInv, Acyclic, NEW p \in Procs, SweepLock(p)
    PROVE  LockInv' /\ Acyclic'
<1>0. pod[p] \in Pods /\ dir[pod[p]] \in {"exited-garbage", "garbage", "gone"}
  BY DEF IInv, LocalInv, SweepInv, ViewInv, SweepLock
<1>1. KeptLocks'
  BY <1>0, NullAssumption DEF IInv, TypeOK, LockInv, KeptLocks, SweepLock
<1>2. WorkLocks'
  BY <1>0, NullAssumption DEF IInv, TypeOK, LockInv, WorkLocks, SweepLock
<1>3. SharedLocks'
  BY <1>0 DEF IInv, TypeOK, LockInv, SharedLocks, SweepLock
<1>4. ProbedViews'
  BY <1>0 DEF IInv, TypeOK, LockInv, ProbedViews, SweepLock
<1>5. \A q \in Procs : ~Overtaken(p, q)'
  BY DEF IInv, TypeOK, Overtaken, SweepLock
<1>6. \A r, q \in Procs : q # p /\ Overtaken(r, q)' => Overtaken(r, q)
  BY <1>0, NullAssumption DEF IInv, TypeOK, LocalInv, Overtaken, SweepLock
<1> QED
  BY <1>1, <1>2, <1>3, <1>4, <1>5, <1>6, Sink DEF LockInv

\* A pod is deleted by the process that has locked it.
LEMMA DeleteLocks ==
    ASSUME IInv, LockInv, Acyclic, NEW p \in Procs,
           (DeletePod(p) /\ ~DoneWith(p)) \/ RemoveFiles(p)
    PROVE  LockInv' /\ Acyclic'
<1>0. view[p] \in MarkedViews \cup GarbageViews
  BY DEF IInv, SweepInv, DeletePod, RemoveFiles
<1>1. KeptLocks'
  BY DEF IInv, TypeOK, LockInv, KeptLocks, DeletePod, RemoveFiles
<1>2. WorkLocks'
  BY <1>0, NullAssumption DEF IInv, TypeOK, LockInv, WorkLocks, DeletePod, RemoveFiles
<1>3. SharedLocks'
  BY DEF IInv, TypeOK, LockInv, SharedLocks, DeletePod, RemoveFiles
<1>4. ProbedViews'
  BY DEF IInv, TypeOK, LockInv, ProbedViews, DeletePod, RemoveFiles
<1>5. \A r, q \in Procs : Overtaken(r, q)' => Overtaken(r, q)
  BY DEF IInv, TypeOK, Overtaken, DeletePod, RemoveFiles
<1> QED
  BY <1>1, <1>2, <1>3, <1>4, <1>5, NoNewEdge DEF LockInv

\* The directory of a deleted pod goes; gc closes the pod, rm keeps its lock.
LEMMA RemoveDirLocks ==
    ASSUME IInv, LockInv, Acyclic, NEW p \in Procs, RemoveDir(p) \/ RemoveFails(p)
    PROVE  LockInv' /\ Acyclic'
<1>0. pod[p] \in Pods /\ cmd[p] \in {"rm"} \cup Passes
  BY DEF IInv, LocalInv, CommandInv, RemoveDir, RemoveFails
<1>1. KeptLocks'
  BY <1>0, NullAssumption DEF IInv, TypeOK, LockInv, KeptLocks, RemoveDir, RemoveFails, DoneWith, fsVars
<1>2. WorkLocks'
  BY <1>0, NullAssumption DEF IInv, TypeOK, LockInv, WorkLocks, RemoveDir, RemoveFails, DoneWith, fsVars
<1>3. SharedLocks'
  BY <1>0 DEF IInv, TypeOK, LockInv, SharedLocks, RemoveDir, RemoveFails, DoneWith, fsVars
<1>4. ProbedViews'
  BY DEF IInv, TypeOK, LockInv, ProbedViews, RemoveDir, RemoveFails, DoneWith, fsVars
<1>5. \A r, q \in Procs : Overtaken(r, q)' => Overtaken(r, q)
  BY <1>0, NullAssumption DEF IInv, TypeOK, LocalInv, Overtaken, RemoveDir, RemoveFails, DoneWith, fsVars
<1> QED
  BY <1>1, <1>2, <1>3, <1>4, <1>5, NoNewEdge DEF LockInv

\* Every step of the commands and their environment.
LEMMA LockStep ==
    ASSUME IInv, LockInv, Acyclic, [Next]_vars
    PROVE  LockInv' /\ Acyclic'
<1>1. CASE UNCHANGED vars
  BY <1>1 DEF vars, LockInv, KeptLocks, WorkLocks, SharedLocks, ProbedViews, Acyclic, Overtaken
<1>2. ASSUME NEW p \in Procs, Start(p)
      PROVE  LockInv' /\ Acyclic'
  BY <1>2, NewPodLocks, GetPodLocks, StartWalkLocks DEF Start
<1>3. ASSUME NEW p \in Procs, Step(p)
      PROVE  LockInv' /\ Acyclic'
  <2>1. CASE LockEmbryo(p) \/ XToPreparing(p) \/ Prepare(p)
    BY <2>1, CreatorLocks
  <2>2. CASE XToPrepared(p) \/ LockRun(p) \/ XToRun(p)
    BY <2>2, RunLocks
  <2>3. CASE UnlockPrepared(p) \/ RenameLost(p) \/ Status(p) \/ Reap(p)
    BY <2>3, QuitLock DEF UnlockPrepared, RenameLost, Status, Reap
  <2>4. CASE Found(p)
    BY <2>4, FoundLocks
  <2>5. CASE NotHere(p) \/ NotFound(p) \/ RefreshGone(p)
    BY <2>5, SearchLocks, QuitLock DEF NotFound
  <2>6. CASE ProbeFree(p) \/ ProbeLocked(p) \/ Unprobe(p)
    BY <2>6, ProbeLocks
  <2>7. CASE RunPrepared(p) \/ WalkDone(p)
    BY <2>7, WalkLocks, QuitLock DEF RunPrepared, WalkDone
  <2>8. CASE WaitTest(p) \/ WaitLock(p) \/ WaitUnlock(p)
    BY <2>8, WaitLocks
  <2>9. CASE ListPods(p) \/ \E x \in Pods : NextPod(p, x)
    BY <2>9, WalkLocks
  <2>10. CASE GCVisit(p) \/ RemovePod(p)
    BY <2>10, VisitLocks, DoneLock DEF GCVisit, RemovePod
  <2>11. CASE XToExitedGarbage(p)
    BY <2>11, MovedLocks, DoneLock DEF XToExitedGarbage, Rename
  <2>12. CASE XToGarbage(p)
    BY <2>12, MovedLocks, DoneLock DEF XToGarbage, Rename
  <2>13. CASE SweepLock(p)
    BY <2>13, SweepLocks
  <2>14. CASE DeletePod(p)
    BY <2>14, DeleteLocks, DoneLock DEF DeletePod
  <2>15. CASE RemoveFiles(p)
    BY <2>15, DeleteLocks
  <2>16. CASE RemoveDir(p)
    BY <2>16, RemoveDirLocks
  <2> QED
    BY <1>3, <2>1, <2>2, <2>3, <2>4, <2>5, <2>6, <2>7, <2>8, <2>9, <2>10, <2>11, <2>12, <2>13,
       <2>14, <2>15, <2>16 DEF Step
<1>4. ASSUME NEW p \in Procs, Fail(p) \/ PodExit(p) \/ Kill(p)
      PROVE  LockInv' /\ Acyclic'
  BY <1>4, QuitLock DEF Fail, PodExit, Kill
<1>5. ASSUME NEW p \in Procs, Stage1Setup(p)
      PROVE  LockInv' /\ Acyclic'
  BY <1>5, RunLocks
<1>6. ASSUME NEW p \in Procs, RemoveFails(p)
      PROVE  LockInv' /\ Acyclic'
  BY <1>6, RemoveDirLocks
<1>7. ASSUME NEW x \in Pods, Age(x)
      PROVE  LockInv' /\ Acyclic'
  BY <1>7 DEF Age, LockInv, KeptLocks, WorkLocks, SharedLocks, ProbedViews, Acyclic, Overtaken
<1> QED
  BY <1>1, <1>2, <1>3, <1>4, <1>5, <1>6, <1>7 DEF Next

\* Who may have a lock, and that rm is not overtaken in a circle, is invariant.
LEMMA LockInvariance == Spec => [](IInv /\ LockInv /\ Acyclic)
<1>1. Init => LockInv /\ Acyclic
  BY NullAssumption DEF Init, LockInv, KeptLocks, WorkLocks, SharedLocks, ProbedViews, Acyclic,
         Overtaken
<1>2. IInv /\ LockInv /\ Acyclic /\ [Next]_vars => LockInv' /\ Acyclic'
  BY LockStep
<1>3. Spec => []IInv
  BY Invariance
<1> QED
  BY <1>1, <1>2, <1>3, PTL DEF Spec

\* A process that is waited for and waits for a third, waiting one is an rm in front of deletePod
\* whose pod that third one, an rm too, has locked since.
LEMMA WaitingIsOvertaken ==
    ASSUME IInv, LockInv, NEW p \in Procs, NEW q \in Procs, WaitsFor(p, q),
           NEW r \in Procs, WaitsFor(q, r), NEW s \in Procs, WaitsFor(r, s)
    PROVE  Overtaken(q, r)
<1>1. pod[p] \in Pods /\ pod[q] \in Pods /\ pod[r] \in Pods
  BY DEF IInv, LocalInv, WaitsFor
<1>2. /\ pc[q] \in {"lockEmbryo", "lockRun", "sweepLock", "waitLock"}
      /\ pc[r] \in {"lockEmbryo", "lockRun", "sweepLock", "waitLock"}
  BY DEF WaitsFor
<1>3. ex[pod[p]] = q /\ ex[pod[q]] = r
  BY <1>1, <1>2 DEF WaitsFor, LockInv, SharedLocks
<1>4. cmd[q] = "rm"
  <2> SUFFICES ASSUME cmd[q] # "rm"
               PROVE  FALSE
    OBVIOUS
  <2>1. pod[q] = pod[p] /\ pc[q] = "lockRun"
    BY <1>1, <1>2, <1>3 DEF LockInv, WorkLocks
  <2> QED
    BY <1>3, <2>1 DEF WaitsFor
<1>5. pc[q] = "sweepLock" /\ view[q] \in FreeViews
  BY <1>2, <1>4 DEF IInv, CommandInv, Passes, LockInv, ProbedViews
<1>6. cmd[r] = "rm"
  <2> SUFFICES ASSUME cmd[r] # "rm"
               PROVE  FALSE
    OBVIOUS
  <2>1. pod[r] = pod[q] /\ pc[r] = "lockRun" /\ cmd[r] = "run"
    BY <1>1, <1>2, <1>3 DEF LockInv, WorkLocks
  <2>2. dir[pod[r]] = "prepare"
    BY <2>1 DEF IInv, OwnerInv, Preparing
  <2>3. dir[pod[q]] \in {"exited-garbage", "garbage", "gone"}
    BY <1>5 DEF IInv, SweepInv, ViewInv
  <2> QED
    BY <2>1, <2>2, <2>3
<1> QED
  BY <1>3, <1>4, <1>5, <1>6 DEF Overtaken, WaitsFor

\* No set of processes waits only for each other (NoDeadlock): neither in the ExclusiveLock of
\* xToPreparing and xToRun, nor in the one in front of deletePod, nor in waitExited's SharedLock,
\* although runRm keeps the lock of every pod it deleted while it waits for the next one.
THEOREM WaitsAreAcyclic == Spec => []NoDeadlock
<1>1. IInv /\ LockInv /\ Acyclic => NoDeadlock
  <2> SUFFICES ASSUME IInv, LockInv, Acyclic, NEW S \in SUBSET Procs, S # {},
                      \A p \in S : \E q \in S : WaitsFor(p, q)
               PROVE  FALSE
    BY DEF NoDeadlock
  <2> DEFINE T == {q \in S : \E p \in S : WaitsFor(p, q)}
  <2>1. T \in SUBSET Procs /\ T # {}
    OBVIOUS
  <2>2. PICK p \in T : \A q \in T : ~Overtaken(p, q)
    BY <2>1 DEF Acyclic
  <2>3. PICK q \in S : WaitsFor(p, q)
    OBVIOUS
  <2>4. q \in T
    BY <2>3
  <2>5. Overtaken(p, q)
    BY <2>3, WaitingIsOvertaken
  <2> QED
    BY <2>2, <2>4, <2>5
<1> QED
  BY <1>1, LockInvariance, PTL
=============================================================================
