--------------------------- MODULE PodLifecycleProofs ---------------------------
(***************************************************************************)
(* Safety of PodLifecycle for any number of pods, processes and kills.  The  *)
(* argument rests on IInv: the process that prepares or runs a pod has its   *)
(* lock and finds it where it put it (OwnerInv); a pod is where a process's  *)
(* cached flags say or further on (ViewInv); flags set by a successful probe *)
(* exclude the process that would hold the lock (IdleInv).  One lemma per    *)
(* action shows that IInv is preserved; the safety properties follow from    *)
(* it, and the one about steps (PodsMoveForward) from the pairs of           *)
(* directories the renames can connect (DirStep).                            *)
(***************************************************************************)
EXTENDS PodLifecycle, TLAPS

USE DEF fsVars, lockVars, procVars, Goto, MarkedViews, GarbageViews, ExitedViews, Preparing, Running

\* A process that ends, whatever it was at: the kernel releases its own locks only.
LEMMA QuitInv ==
    ASSUME IInv, NEW p \in Procs, Quit(p), UNCHANGED fsVars, kills' \in 0..MaxKills
    PROVE  IInv'
<1>1. TypeOK'
  BY DEF IInv, TypeOK, Commands, Control, Dirs, Passes, Quit, Views
<1>2. LocalInv'
  BY DEF IInv, LocalInv, TypeOK, Passes, Quit
<1>3. CommandInv'
  BY DEF IInv, CommandInv, TypeOK, Passes, Quit
<1>4. OwnerInv'
  BY SMTT(30) DEF IInv, OwnerInv, TypeOK, LocalInv, Passes, Quit
<1>5. OneCreator'
  BY DEF IInv, OneCreator, TypeOK, Passes, Quit
<1>6. ViewInv'
  BY DEF IInv, ViewInv, TypeOK, Passes, Quit
<1>7. IdleInv'
  BY DEF IInv, IdleInv, TypeOK, Passes, Quit
<1>8. SweepInv'
  BY DEF IInv, SweepInv, TypeOK, PassDir, Passes, Quit
<1>9. LookupComplete'
  BY DEF IInv, LookupComplete, TypeOK, Passes, Quit, Rank
<1>10. PodInv'
  BY DEF IInv, PodInv, Quit
<1> QED
  BY <1>1, <1>2, <1>3, <1>4, <1>5, <1>6, <1>7, <1>8, <1>9, <1>10 DEF IInv

\* A walk or rm that is done with a pod and goes on to the next one.
LEMMA DoneInv ==
    ASSUME IInv, NEW p \in Procs, DoneWith(p), UNCHANGED fsVars, kills' \in 0..MaxKills,
           pc[p] \in {"got", "mark", "toGarbage", "delete", "removeFiles", "removeDir"},
           cmd[p] \in {"rm"} \cup Passes
    PROVE  IInv'
<1>1. TypeOK'
  BY DEF IInv, TypeOK, Commands, Control, Dirs, DoneWith, Passes, Views
<1>2. LocalInv'
  BY DEF IInv, LocalInv, TypeOK, DoneWith, Passes
<1>3. CommandInv'
  BY DEF IInv, CommandInv, TypeOK, DoneWith, Passes
<1>4. OwnerInv'
  BY DEF IInv, OwnerInv, TypeOK, DoneWith, Passes
<1>5. OneCreator'
  BY DEF IInv, OneCreator, TypeOK, DoneWith, Passes
<1>6. ViewInv'
  BY DEF IInv, ViewInv, TypeOK, DoneWith, Passes
<1>7. IdleInv'
  BY DEF IInv, IdleInv, TypeOK, DoneWith, Passes
<1>8. SweepInv'
  BY DEF IInv, SweepInv, TypeOK, DoneWith, PassDir, Passes
<1>9. LookupComplete'
  BY ZenonT(40) DEF IInv, LookupComplete, TypeOK, DoneWith, Passes, Rank
<1>10. PodInv'
  BY DEF IInv, PodInv, DoneWith
<1> QED
  BY <1>1, <1>2, <1>3, <1>4, <1>5, <1>6, <1>7, <1>8, <1>9, <1>10 DEF IInv

\* The same for a process that is done with a pod while nothing fails.
LEMMA DoneInvQuiet ==
    ASSUME IInv, NEW p \in Procs, DoneWith(p), UNCHANGED <<fsVars, kills>>,
           pc[p] \in {"got", "mark", "toGarbage", "delete"}, cmd[p] \in {"rm"} \cup Passes
    PROVE  IInv'
<1>1. kills' \in 0..MaxKills
  BY DEF IInv, TypeOK
<1> QED
  BY <1>1, DoneInv

\* A new embryo: its UUID was not in use.
LEMMA NewPodInv ==
    ASSUME IInv, NEW p \in Procs, NEW x \in Pods, NEW c \in {"prepare", "run"}, NewPod(p, x, c)
    PROVE  IInv'
<1>1. TypeOK'
  BY DEF IInv, TypeOK, Commands, Control, Dirs, NewPod, Passes, Views
<1>2. LocalInv'
  BY DEF IInv, LocalInv, TypeOK, NewPod, Passes
<1>3. CommandInv'
  BY DEF IInv, CommandInv, TypeOK, NewPod, Passes
<1>4. OwnerInv'
  BY DEF IInv, OwnerInv, TypeOK, NewPod, Passes
<1>5. OneCreator'
  BY DEF IInv, OneCreator, TypeOK, LocalInv, OwnerInv, NewPod, Passes
<1>6. ViewInv'
  BY DEF IInv, ViewInv, TypeOK, NewPod, Passes
<1>7. IdleInv'
  BY DEF IInv, IdleInv, TypeOK, NewPod, Passes
<1>8. SweepInv'
  BY DEF IInv, SweepInv, TypeOK, NewPod, PassDir, Passes
<1>9. PodInv'
  BY DEF IInv, PodInv, TypeOK, NewPod, Passes
<1>10. LookupComplete'
  BY DEF IInv, LookupComplete, TypeOK, LocalInv, ViewInv, CommandInv, OwnerInv, Commands, Control,
       Dirs, NewPod, Passes, Rank, Views
<1> QED
  BY <1>1, <1>2, <1>3, <1>4, <1>5, <1>6, <1>7, <1>8, <1>9, <1>10 DEF IInv

\* xToPreparing locks the embryo: nobody else is its creator.
LEMMA LockEmbryoInv ==
    ASSUME IInv, NEW p \in Procs, LockEmbryo(p)
    PROVE  IInv'
<1>1. TypeOK'
  BY DEF IInv, TypeOK, CanLockExclusive, Commands, Control, Dirs, LockEmbryo, Passes, Views
<1>2. LocalInv'
  BY DEF IInv, LocalInv, TypeOK, CanLockExclusive, LockEmbryo, Passes
<1>3. CommandInv'
  BY DEF IInv, CommandInv, TypeOK, CanLockExclusive, LockEmbryo, Passes
<1>4. OwnerInv'
  BY DEF IInv, OwnerInv, TypeOK, LocalInv, CommandInv, OneCreator, ViewInv, IdleInv, SweepInv,
       PodInv, CanLockExclusive, LockEmbryo, PassDir, Passes
<1>5. OneCreator'
  BY DEF IInv, OneCreator, TypeOK, CanLockExclusive, LockEmbryo, Passes
<1>6. IdleInv'
  BY DEF IInv, IdleInv, TypeOK, CanLockExclusive, LockEmbryo, Passes
<1>7. SweepInv'
  BY DEF IInv, SweepInv, TypeOK, CanLockExclusive, LockEmbryo, PassDir, Passes
<1>8. LookupComplete'
  BY DEF IInv, LookupComplete, TypeOK, CanLockExclusive, LockEmbryo, Passes, Rank
<1>9. ViewInv' /\ PodInv'
  BY DEF IInv, ViewInv, PodInv, LockEmbryo
<1> QED
  BY <1>1, <1>2, <1>3, <1>4, <1>5, <1>6, <1>7, <1>8, <1>9 DEF IInv

\* The only descriptor at the embryo is its creator's.
LEMMA XToPreparingInv ==
    ASSUME IInv, NEW p \in Procs, XToPreparing(p)
    PROVE  IInv'
<1>1. TypeOK'
  BY DEF IInv, TypeOK, Commands, Control, Dirs, Passes, Rename, Views, XToPreparing
<1>2. LocalInv'
  BY DEF IInv, LocalInv, TypeOK, Passes, Rename, XToPreparing
<1>3. CommandInv'
  BY DEF IInv, CommandInv, TypeOK, Passes, Rename, XToPreparing
<1>4. OwnerInv'
  BY DEF IInv, OwnerInv, TypeOK, LocalInv, CommandInv, OneCreator, ViewInv, IdleInv, SweepInv,
       PodInv, PassDir, Passes, Rename, XToPreparing
<1>5. OneCreator'
  BY DEF IInv, OneCreator, TypeOK, Passes, Rename, XToPreparing
<1>6. ViewInv'
  BY DEF IInv, ViewInv, TypeOK, LocalInv, Passes, Rename, XToPreparing
<1>7. IdleInv'
  BY DEF IInv, IdleInv, TypeOK, LocalInv, CommandInv, OwnerInv, ViewInv, Passes, Rename,
       XToPreparing
<1>8. SweepInv'
  BY DEF IInv, SweepInv, TypeOK, LocalInv, CommandInv, OwnerInv, ViewInv, PodInv, PassDir, Passes,
       Rename, XToPreparing
<1>9. PodInv'
  BY DEF IInv, PodInv, TypeOK, Passes, Rename, XToPreparing
<1>10. LookupComplete'
  BY DEF IInv, LookupComplete, TypeOK, LocalInv, ViewInv, CommandInv, OwnerInv, Commands, Control,
       Dirs, Passes, Rank, Rename, Views, XToPreparing
<1> QED
  BY <1>1, <1>2, <1>3, <1>4, <1>5, <1>6, <1>7, <1>8, <1>9, <1>10 DEF IInv

\* stage0.Prepare completes the pod's content; where the pod is and who locks it stay.
LEMMA PrepareInv ==
    ASSUME IInv, NEW p \in Procs, Prepare(p)
    PROVE  IInv'
<1>1. TypeOK'
  BY DEF IInv, TypeOK, Commands, Control, Dirs, Passes, Prepare, Views
<1>2. LocalInv'
  BY DEF IInv, LocalInv, TypeOK, Passes, Prepare
<1>3. CommandInv'
  BY DEF IInv, CommandInv, TypeOK, Passes, Prepare
<1>4. OwnerInv'
  BY DEF IInv, OwnerInv, TypeOK, LocalInv, CommandInv, OneCreator, ViewInv, IdleInv, SweepInv,
       PodInv, PassDir, Passes, Prepare
<1>5. OneCreator'
  BY DEF IInv, OneCreator, TypeOK, Passes, Prepare
<1>6. IdleInv'
  BY DEF IInv, IdleInv, TypeOK, Passes, Prepare
<1>7. SweepInv'
  BY DEF IInv, SweepInv, TypeOK, PassDir, Passes, Prepare
<1>8. PodInv'
  BY DEF IInv, PodInv, TypeOK, Passes, Prepare
<1>9. LookupComplete'
  BY DEF IInv, LookupComplete, TypeOK, Passes, Prepare, Rank
<1>10. ViewInv'
  BY DEF IInv, ViewInv, Prepare
<1> QED
  BY <1>1, <1>2, <1>3, <1>4, <1>5, <1>6, <1>7, <1>8, <1>9, <1>10 DEF IInv

\* xToPrepared renames the complete pod while its creator still has the lock.
LEMMA XToPreparedInv ==
    ASSUME IInv, NEW p \in Procs, XToPrepared(p)
    PROVE  IInv'
<1>1. TypeOK'
  BY DEF IInv, TypeOK, Commands, Control, Dirs, Passes, PathOf, Rename, Views, XToPrepared
<1>2. LocalInv'
  BY DEF IInv, LocalInv, TypeOK, Passes, PathOf, Rename, XToPrepared
<1>3. CommandInv'
  BY DEF IInv, CommandInv, TypeOK, Passes, PathOf, Rename, XToPrepared
<1>4. OwnerInv'
  BY DEF IInv, OwnerInv, TypeOK, Passes, PathOf, Rename, XToPrepared
<1>5. OneCreator'
  BY DEF IInv, OneCreator, TypeOK, Passes, PathOf, Rename, XToPrepared
<1>6. ViewInv'
  BY DEF IInv, ViewInv, TypeOK, LocalInv, CommandInv, OwnerInv, SweepInv, PassDir, Passes, PathOf,
       Rename, XToPrepared
<1>7. IdleInv'
  BY DEF IInv, IdleInv, TypeOK, Passes, PathOf, Rename, XToPrepared
<1>8. SweepInv'
  BY DEF IInv, SweepInv, TypeOK, LocalInv, CommandInv, OwnerInv, ViewInv, PodInv, PassDir, Passes,
       PathOf, Rename, XToPrepared
<1>9. PodInv'
  BY DEF IInv, PodInv, TypeOK, LocalInv, CommandInv, OwnerInv, ViewInv, SweepInv, PassDir, Passes,
       PathOf, Rename, XToPrepared
<1>10. LookupComplete'
  BY DEF IInv, LookupComplete, TypeOK, LocalInv, ViewInv, CommandInv, OwnerInv, Commands, Control,
       Dirs, Passes, PathOf, Rank, Rename, Views, XToPrepared
<1> QED
  BY <1>1, <1>2, <1>3, <1>4, <1>5, <1>6, <1>7, <1>8, <1>9, <1>10 DEF IInv

\* xToRun locks before it renames: the lock is free or already the creator's.
LEMMA LockRunInv ==
    ASSUME IInv, NEW p \in Procs, LockRun(p)
    PROVE  IInv'
<1>1. TypeOK'
  BY DEF IInv, TypeOK, CanLockExclusive, Commands, Control, Dirs, LockRun, Passes, Views
<1>2. LocalInv'
  BY DEF IInv, LocalInv, TypeOK, CanLockExclusive, LockRun, Passes
<1>3. CommandInv'
  BY DEF IInv, CommandInv, TypeOK, CanLockExclusive, LockRun, Passes
<1>4. OwnerInv'
  BY NullAssumption DEF IInv, OwnerInv, TypeOK, LocalInv, CommandInv, CanLockExclusive, LockRun
<1>5. OneCreator'
  BY DEF IInv, OneCreator, TypeOK, CanLockExclusive, LockRun, Passes
<1>6. IdleInv'
  BY DEF IInv, IdleInv, TypeOK, CanLockExclusive, LockRun, Passes
<1>7. SweepInv'
  BY DEF IInv, SweepInv, TypeOK, CanLockExclusive, LockRun, PassDir, Passes
<1>8. LookupComplete'
  BY DEF IInv, LookupComplete, TypeOK, CanLockExclusive, LockRun, Passes, Rank
<1>9. ViewInv' /\ PodInv'
  BY DEF IInv, ViewInv, PodInv, LockRun
<1> QED
  BY <1>1, <1>2, <1>3, <1>4, <1>5, <1>6, <1>7, <1>8, <1>9 DEF IInv

\* The rename succeeds from prepare for the creator, from prepared for run-prepared: no pod
\* process exists yet.
LEMMA XToRunInv ==
    ASSUME IInv, NEW p \in Procs, XToRun(p)
    PROVE  IInv'
<1>1. TypeOK'
  BY DEF IInv, TypeOK, Commands, Control, Dirs, Passes, PathOf, Rename, Views, XToRun
<1>2. LocalInv'
  BY DEF IInv, LocalInv, TypeOK, Passes, PathOf, Rename, XToRun
<1>3. CommandInv'
  BY DEF IInv, CommandInv, TypeOK, Passes, PathOf, Rename, XToRun
<1>4. OwnerInv'
  BY DEF IInv, OwnerInv, TypeOK, LocalInv, CommandInv, OneCreator, ViewInv, IdleInv, SweepInv,
       PodInv, PassDir, Passes, PathOf, Rename, XToRun
<1>5. OneCreator'
  BY DEF IInv, OneCreator, TypeOK, Passes, PathOf, Rename, XToRun
<1>6. ViewInv'
  BY DEF IInv, ViewInv, TypeOK, LocalInv, CommandInv, OwnerInv, SweepInv, PassDir, Passes, PathOf,
       Rename, XToRun
<1>7. IdleInv'
  BY DEF IInv, IdleInv, TypeOK, LocalInv, CommandInv, OwnerInv, ViewInv, Passes, PathOf, Rename,
       XToRun
<1>8. SweepInv'
  BY DEF IInv, SweepInv, TypeOK, LocalInv, CommandInv, OwnerInv, ViewInv, PodInv, PassDir, Passes,
       PathOf, Rename, XToRun
<1>9. PodInv'
  BY DEF IInv, PodInv, TypeOK, LocalInv, CommandInv, OwnerInv, ViewInv, SweepInv, PassDir, Passes,
       PathOf, Rename, XToRun
<1>10. LookupComplete'
  BY SMTT(30) DEF IInv, LookupComplete, TypeOK, LocalInv, ViewInv, CommandInv, OwnerInv,
       Commands, Control, Dirs, Passes, PathOf, Rank, Rename, Views, XToRun
<1> QED
  BY <1>1, <1>2, <1>3, <1>4, <1>5, <1>6, <1>7, <1>8, <1>9, <1>10 DEF IInv

\* stage1 begins in a pod of the run directory only.
LEMMA Stage1SetupInv ==
    ASSUME IInv, NEW p \in Procs, Stage1Setup(p)
    PROVE  IInv'
<1>1. TypeOK'
  BY DEF IInv, TypeOK, Commands, Control, Dirs, Passes, Stage1Setup, Views
<1>2. SweepInv'
  BY DEF IInv, SweepInv, TypeOK, LocalInv, CommandInv, OwnerInv, ViewInv, PodInv, PassDir, Passes,
       Stage1Setup
<1>3. PodInv'
  BY DEF IInv, PodInv, TypeOK, LocalInv, CommandInv, OwnerInv, ViewInv, SweepInv, PassDir, Passes,
       Stage1Setup
<1>4. LocalInv' /\ CommandInv' /\ OwnerInv' /\ OneCreator' /\ ViewInv' /\ IdleInv' /\ LookupComplete'
  BY DEF IInv, LocalInv, CommandInv, OwnerInv, OneCreator, ViewInv, IdleInv, LookupComplete,
       Stage1Setup
<1> QED
  BY <1>1, <1>2, <1>3, <1>4 DEF IInv

\* A command starts to look for a pod that a user could name: it is past the embryo directory.
LEMMA GetPodInv ==
    ASSUME IInv, NEW p \in Procs, NEW x \in Pods, NEW c \in {"runPrepared", "status", "wait"},
         GetPod(p, x, c)
    PROVE  IInv'
<1>1. TypeOK'
  BY DEF IInv, TypeOK, Commands, Control, Dirs, GetPod, Listed, Passes, Views
<1>2. LocalInv'
  BY DEF IInv, LocalInv, TypeOK, GetPod, Listed, Passes
<1>3. CommandInv'
  BY DEF IInv, CommandInv, TypeOK, GetPod, Listed, Passes
<1>4. OwnerInv'
  BY DEF IInv, OwnerInv, TypeOK, GetPod, Listed, Passes
<1>5. OneCreator'
  BY DEF IInv, OneCreator, TypeOK, GetPod, Listed, Passes
<1>6. ViewInv'
  BY DEF IInv, ViewInv, TypeOK, LocalInv, GetPod, Listed, Passes
<1>7. IdleInv'
  BY DEF IInv, IdleInv, TypeOK, LocalInv, GetPod, Listed, Passes
<1>8. SweepInv'
  BY DEF IInv, SweepInv, TypeOK, GetPod, Listed, PassDir, Passes
<1>9. LookupComplete'
  BY DEF IInv, LookupComplete, TypeOK, LocalInv, ViewInv, CommandInv, OwnerInv, Commands, Control,
       Dirs, GetPod, Listed, Passes, Rank, Views
<1>10. PodInv'
  BY DEF IInv, PodInv, GetPod
<1> QED
  BY <1>1, <1>2, <1>3, <1>4, <1>5, <1>6, <1>7, <1>8, <1>9, <1>10 DEF IInv

\* The flags are set from the directory the pod is in at this moment.
LEMMA FoundInv ==
    ASSUME IInv, NEW p \in Procs, Found(p)
    PROVE  IInv'
<1>1. TypeOK'
  BY DEF IInv, TypeOK, Commands, Control, DirOrder, Dirs, Found, Passes, UnlockedView, Views
<1>2. LocalInv'
  BY DEF IInv, LocalInv, TypeOK, DirOrder, Found, Passes, UnlockedView
<1>3. CommandInv'
  BY DEF IInv, CommandInv, TypeOK, DirOrder, Found, Passes, UnlockedView
<1>4. OwnerInv'
  BY DEF IInv, OwnerInv, TypeOK, DirOrder, Found, Passes, UnlockedView
<1>5. OneCreator'
  BY DEF IInv, OneCreator, TypeOK, DirOrder, Found, Passes, UnlockedView
<1>6. ViewInv'
  BY DEF IInv, ViewInv, TypeOK, DirOrder, Found, Passes, UnlockedView
<1>7. IdleInv'
  BY DEF IInv, IdleInv, TypeOK, DirOrder, Found, Passes, UnlockedView
<1>8. SweepInv'
  <2>1. dir[pod[p]] \in Dirs
    BY DEF IInv, TypeOK, Dirs, DirOrder, Found
  <2>2. /\ view' = [view EXCEPT ![p] = UnlockedView(dir[pod[p]])]
        /\ pc'[p] \in {"got", "probe"} /\ \A q \in Procs \ {p} : pc'[q] = pc[q]
        /\ UNCHANGED <<dir, uncollected, cmd, pod, todo>>
    BY DEF IInv, TypeOK, Found
  <2>3. cmd[p] = "emptyGarbage" => dir[pod[p]] = "garbage"
    BY <2>1, NullAssumption DEF IInv, SweepInv, Dirs, PassDir, TypeOK, LocalInv, Found
  <2>4. cmd[p] = "emptyExitedGarbage" => dir[pod[p]] = "exited-garbage"
    BY <2>1, NullAssumption DEF IInv, SweepInv, Dirs, PassDir, TypeOK, LocalInv, Found
  <2>5. /\ cmd[p] = "emptyGarbage" => view'[p] = "garbage"
        /\ cmd[p] = "emptyExitedGarbage" => view'[p] = "exitedGarbage"
    BY <2>2, <2>3, <2>4 DEF IInv, TypeOK, UnlockedView
  <2> QED
    BY <2>2, <2>5 DEF IInv, TypeOK, SweepInv, PassDir
<1>9. LookupComplete'
  BY DEF IInv, LookupComplete, TypeOK, DirOrder, Found, Passes, Rank, UnlockedView
<1>10. PodInv'
  BY DEF IInv, PodInv, Found
<1> QED
  BY <1>1, <1>2, <1>3, <1>4, <1>5, <1>6, <1>7, <1>8, <1>9, <1>10 DEF IInv

\* The pod is not in the directory looked into and was not in an earlier one, so it is further on.
LEMMA NotHereInv ==
    ASSUME IInv, NEW p \in Procs, NotHere(p)
    PROVE  IInv'
<1>1. TypeOK'
  BY DEF IInv, TypeOK, Commands, Control, DirOrder, Dirs, NotHere, Passes, Views
<1>2. LocalInv'
  BY DEF IInv, LocalInv, TypeOK, DirOrder, NotHere, Passes
<1>3. LookupComplete'
  BY DEF IInv, LookupComplete, TypeOK, LocalInv, ViewInv, CommandInv, OwnerInv, Commands, Control,
       DirOrder, Dirs, NotHere, Passes, Rank, Views
<1>4. CommandInv' /\ OwnerInv' /\ OneCreator' /\ ViewInv' /\ IdleInv' /\ SweepInv' /\ PodInv'
  BY DEF IInv, CommandInv, OwnerInv, OneCreator, ViewInv, IdleInv, SweepInv, PodInv, NotHere
<1> QED
  BY <1>1, <1>2, <1>3, <1>4 DEF IInv

\* getPod fails: the command ends, or the walk skips the pod, or rm panics.
LEMMA NotFoundInv ==
    ASSUME IInv, NEW p \in Procs, NotFound(p)
    PROVE  IInv'
<1>1. CASE cmd[p] \in {"runPrepared", "status", "wait"}
  BY <1>1, QuitInv DEF IInv, TypeOK, NotFound, Passes
<1>2. CASE cmd[p] \in Passes \cup {"rm"}
  <2>1. TypeOK'
    BY <1>2, SMTT(30) DEF IInv, TypeOK, Commands, Control, DirOrder, Dirs, NotFound, Passes, Quit, Views
  <2>2. LocalInv'
    BY <1>2 DEF IInv, LocalInv, TypeOK, DirOrder, NotFound, Passes, Quit
  <2>3. CommandInv'
    BY <1>2 DEF IInv, CommandInv, TypeOK, DirOrder, NotFound, Passes, Quit
  <2>4. OwnerInv'
    BY <1>2 DEF IInv, OwnerInv, TypeOK, DirOrder, NotFound, Passes, Quit
  <2>5. OneCreator'
    BY <1>2 DEF IInv, OneCreator, TypeOK, DirOrder, NotFound, Passes, Quit
  <2>6. ViewInv'
    BY <1>2 DEF IInv, ViewInv, TypeOK, LocalInv, DirOrder, NotFound, Passes, Quit
  <2>7. IdleInv'
    BY <1>2 DEF IInv, IdleInv, TypeOK, LocalInv, DirOrder, NotFound, Passes, Quit
  <2>8. SweepInv'
    BY <1>2 DEF IInv, SweepInv, TypeOK, DirOrder, NotFound, PassDir, Passes, Quit
  <2>9. LookupComplete'
    <3>1. /\ pc'[p] \in {"panicked", "next"}
          /\ \A q \in Procs \ {p} : pc'[q] = pc[q] /\ pod'[q] = pod[q] /\ scan'[q] = scan[q]
          /\ dir' = dir
      BY <1>2 DEF IInv, TypeOK, NotFound, Passes
    <3> QED
      BY <3>1 DEF IInv, LookupComplete
  <2>10. PodInv'
    BY <1>2 DEF IInv, PodInv, NotFound
  <2> QED
    BY <2>1, <2>2, <2>3, <2>4, <2>5, <2>6, <2>7, <2>8, <2>9, <2>10 DEF IInv
<1> QED
  BY <1>1, <1>2 DEF IInv, TypeOK, CommandInv, NotFound

\* refreshState has looked into every directory: the pod is gone.
LEMMA RefreshGoneInv ==
    ASSUME IInv, NEW p \in Procs, RefreshGone(p)
    PROVE  IInv'
<1>1. TypeOK'
  BY DEF IInv, TypeOK, Commands, Control, DirOrder, Dirs, Passes, RefreshGone, Views
<1>2. LocalInv'
  BY DEF IInv, LocalInv, TypeOK, DirOrder, Passes, RefreshGone
<1>3. CommandInv'
  BY DEF IInv, CommandInv, TypeOK, DirOrder, Passes, RefreshGone
<1>4. OwnerInv'
  BY DEF IInv, OwnerInv, TypeOK, DirOrder, Passes, RefreshGone
<1>5. OneCreator'
  BY DEF IInv, OneCreator, TypeOK, DirOrder, Passes, RefreshGone
<1>6. ViewInv'
  BY DEF IInv, ViewInv, TypeOK, DirOrder, Passes, RefreshGone
<1>7. IdleInv'
  BY DEF IInv, IdleInv, TypeOK, DirOrder, Passes, RefreshGone
<1>8. SweepInv'
  BY DEF IInv, SweepInv, TypeOK, LocalInv, CommandInv, OwnerInv, ViewInv, PodInv, DirOrder, PassDir,
       Passes, RefreshGone
<1>9. LookupComplete'
  BY DEF IInv, LookupComplete, TypeOK, DirOrder, Passes, Rank, RefreshGone
<1>10. PodInv'
  BY DEF IInv, PodInv, RefreshGone
<1> QED
  BY <1>1, <1>2, <1>3, <1>4, <1>5, <1>6, <1>7, <1>8, <1>9, <1>10 DEF IInv

\* A free lock excludes the owner that would hold it.
LEMMA ProbeFreeInv ==
    ASSUME IInv, NEW p \in Procs, ProbeFree(p)
    PROVE  IInv'
<1>1. TypeOK'
  BY DEF IInv, TypeOK, CanLockShared, Commands, Control, Dirs, Passes, ProbeFree, Views
<1>2. LocalInv'
  BY DEF IInv, LocalInv, TypeOK, CanLockShared, Passes, ProbeFree
<1>3. CommandInv'
  BY DEF IInv, CommandInv, TypeOK, CanLockShared, Passes, ProbeFree
<1>4. OwnerInv'
  BY DEF IInv, OwnerInv, TypeOK, CanLockShared, Passes, ProbeFree
<1>5. OneCreator'
  BY DEF IInv, OneCreator, TypeOK, CanLockShared, Passes, ProbeFree
<1>6. IdleInv'
  BY NullAssumption DEF IInv, IdleInv, TypeOK, LocalInv, OwnerInv, CanLockShared, ProbeFree
<1>7. SweepInv'
  BY DEF IInv, SweepInv, TypeOK, CanLockShared, PassDir, Passes, ProbeFree
<1>8. LookupComplete'
  BY DEF IInv, LookupComplete, TypeOK, CanLockShared, Passes, ProbeFree, Rank
<1>9. ViewInv' /\ PodInv'
  BY DEF IInv, ViewInv, PodInv, ProbeFree
<1> QED
  BY <1>1, <1>2, <1>3, <1>4, <1>5, <1>6, <1>7, <1>8, <1>9 DEF IInv

\* The probe fails: the flags become those of a pod some process is at work on.
LEMMA ProbeLockedInv ==
    ASSUME IInv, NEW p \in Procs, ProbeLocked(p)
    PROVE  IInv'
<1>1. TypeOK'
  BY DEF IInv, TypeOK, CanLockShared, Commands, Control, Dirs, LockedView, Passes, ProbeLocked,
       Views
<1>2. LocalInv'
  BY DEF IInv, LocalInv, TypeOK, CanLockShared, LockedView, Passes, ProbeLocked
<1>3. CommandInv'
  BY DEF IInv, CommandInv, TypeOK, CanLockShared, LockedView, Passes, ProbeLocked
<1>4. OwnerInv'
  BY DEF IInv, OwnerInv, TypeOK, CanLockShared, LockedView, Passes, ProbeLocked
<1>5. OneCreator'
  BY DEF IInv, OneCreator, TypeOK, CanLockShared, LockedView, Passes, ProbeLocked
<1>6. ViewInv'
  BY DEF IInv, ViewInv, TypeOK, CanLockShared, LockedView, Passes, ProbeLocked
<1>7. IdleInv'
  BY DEF IInv, IdleInv, TypeOK, LocalInv, CommandInv, OwnerInv, ViewInv, CanLockShared, LockedView,
       Passes, ProbeLocked
<1>8. SweepInv'
  BY DEF IInv, SweepInv, TypeOK, CanLockShared, LockedView, PassDir, Passes, ProbeLocked
<1>9. LookupComplete'
  BY DEF IInv, LookupComplete, TypeOK, CanLockShared, LockedView, Passes, ProbeLocked, Rank
<1>10. PodInv'
  BY DEF IInv, PodInv, ProbeLocked
<1> QED
  BY <1>1, <1>2, <1>3, <1>4, <1>5, <1>6, <1>7, <1>8, <1>9, <1>10 DEF IInv

\* getPod releases the shared lock of its probe.
LEMMA UnprobeInv ==
    ASSUME IInv, NEW p \in Procs, Unprobe(p)
    PROVE  IInv'
<1>1. TypeOK'
  BY DEF IInv, TypeOK, Commands, Control, Dirs, Passes, Unprobe, Views
<1>2. LocalInv'
  BY DEF IInv, LocalInv, TypeOK, Passes, Unprobe
<1>3. CommandInv'
  BY DEF IInv, CommandInv, TypeOK, Passes, Unprobe
<1>4. OwnerInv'
  BY DEF IInv, OwnerInv, TypeOK, Passes, Unprobe
<1>5. OneCreator'
  BY DEF IInv, OneCreator, TypeOK, Passes, Unprobe
<1>6. IdleInv'
  BY DEF IInv, IdleInv, TypeOK, Passes, Unprobe
<1>7. SweepInv'
  BY DEF IInv, SweepInv, TypeOK, PassDir, Passes, Unprobe
<1>8. LookupComplete'
  BY DEF IInv, LookupComplete, TypeOK, Passes, Rank, Unprobe
<1>9. ViewInv' /\ PodInv'
  BY DEF IInv, ViewInv, PodInv, Unprobe
<1> QED
  BY <1>1, <1>2, <1>3, <1>4, <1>5, <1>6, <1>7, <1>8, <1>9 DEF IInv

\* run-prepared goes on with a prepared pod and ends otherwise.
LEMMA RunPreparedInv ==
    ASSUME IInv, NEW p \in Procs, RunPrepared(p)
    PROVE  IInv'
<1>1. CASE Quit(p)
  BY <1>1, QuitInv DEF IInv, TypeOK, RunPrepared
<1>2. CASE /\ view[p] = "prepared"
           /\ pc' = [pc EXCEPT ![p] = "lockRun"]
           /\ UNCHANGED <<lockVars, cmd, pod, view, scan, todo>>
  <2>1. TypeOK'
    BY <1>2 DEF IInv, TypeOK, Commands, Control, Dirs, Passes, Quit, RunPrepared, Views
  <2>2. LocalInv'
    BY <1>2 DEF IInv, LocalInv, TypeOK, Passes, Quit, RunPrepared
  <2>3. CommandInv'
    BY <1>2 DEF IInv, CommandInv, TypeOK, Passes, Quit, RunPrepared
  <2>4. OwnerInv'
    BY <1>2 DEF IInv, OwnerInv, TypeOK, Passes, Quit, RunPrepared
  <2>5. OneCreator'
    BY <1>2 DEF IInv, OneCreator, TypeOK, Passes, Quit, RunPrepared
  <2>6. IdleInv'
    BY <1>2 DEF IInv, IdleInv, TypeOK, Passes, Quit, RunPrepared
  <2>7. SweepInv'
    BY <1>2 DEF IInv, SweepInv, TypeOK, PassDir, Passes, Quit, RunPrepared
  <2>8. LookupComplete'
    BY <1>2 DEF IInv, LookupComplete, TypeOK, Passes, Quit, Rank, RunPrepared
  <2>9. ViewInv' /\ PodInv'
    BY <1>2 DEF IInv, ViewInv, PodInv, RunPrepared
  <2> QED
    BY <2>1, <2>2, <2>3, <2>4, <2>5, <2>6, <2>7, <2>8, <2>9 DEF IInv
<1> QED
  BY <1>1, <1>2 DEF IInv, TypeOK, CommandInv, RunPrepared

\* waitExited's test reads the flags only.
LEMMA WaitTestInv ==
    ASSUME IInv, NEW p \in Procs, WaitTest(p)
    PROVE  IInv'
<1>1. TypeOK'
  BY DEF IInv, TypeOK, Commands, Control, Dirs, Passes, Views, WaitTest
<1>2. LocalInv'
  BY DEF IInv, LocalInv, TypeOK, Passes, WaitTest
<1>3. CommandInv'
  BY DEF IInv, CommandInv, TypeOK, Passes, WaitTest
<1>4. OwnerInv'
  BY DEF IInv, OwnerInv, TypeOK, Passes, WaitTest
<1>5. OneCreator'
  BY DEF IInv, OneCreator, TypeOK, Passes, WaitTest
<1>6. IdleInv'
  BY DEF IInv, IdleInv, TypeOK, Passes, WaitTest
<1>7. SweepInv'
  BY DEF IInv, SweepInv, TypeOK, PassDir, Passes, WaitTest
<1>8. LookupComplete'
  BY DEF IInv, LookupComplete, TypeOK, Passes, Rank, WaitTest
<1>9. ViewInv' /\ PodInv'
  BY DEF IInv, ViewInv, PodInv, WaitTest
<1> QED
  BY <1>1, <1>2, <1>3, <1>4, <1>5, <1>6, <1>7, <1>8, <1>9 DEF IInv

\* waitExited's shared lock touches no exclusive one.
LEMMA WaitLockInv ==
    ASSUME IInv, NEW p \in Procs, WaitLock(p)
    PROVE  IInv'
<1>1. TypeOK'
  BY DEF IInv, TypeOK, CanLockShared, Commands, Control, Dirs, Passes, Views, WaitLock
<1>2. LocalInv'
  BY DEF IInv, LocalInv, TypeOK, CanLockShared, Passes, WaitLock
<1>3. CommandInv'
  BY DEF IInv, CommandInv, TypeOK, CanLockShared, Passes, WaitLock
<1>4. OwnerInv'
  BY DEF IInv, OwnerInv, TypeOK, CanLockShared, Passes, WaitLock
<1>5. OneCreator'
  BY DEF IInv, OneCreator, TypeOK, CanLockShared, Passes, WaitLock
<1>6. IdleInv'
  BY DEF IInv, IdleInv, TypeOK, CanLockShared, Passes, WaitLock
<1>7. SweepInv'
  BY DEF IInv, SweepInv, TypeOK, CanLockShared, PassDir, Passes, WaitLock
<1>8. LookupComplete'
  BY DEF IInv, LookupComplete, TypeOK, CanLockShared, Passes, Rank, WaitLock
<1>9. ViewInv' /\ PodInv'
  BY DEF IInv, ViewInv, PodInv, WaitLock
<1> QED
  BY <1>1, <1>2, <1>3, <1>4, <1>5, <1>6, <1>7, <1>8, <1>9 DEF IInv

\* waitExited unlocks and forgets its flags before it looks again.
LEMMA WaitUnlockInv ==
    ASSUME IInv, NEW p \in Procs, WaitUnlock(p)
    PROVE  IInv'
<1>1. TypeOK'
  BY DEF IInv, TypeOK, Commands, Control, Dirs, Passes, Views, WaitUnlock
<1>2. LocalInv'
  BY DEF IInv, LocalInv, TypeOK, Passes, WaitUnlock
<1>3. CommandInv'
  BY DEF IInv, CommandInv, TypeOK, Passes, WaitUnlock
<1>4. OwnerInv'
  BY DEF IInv, OwnerInv, TypeOK, Passes, WaitUnlock
<1>5. OneCreator'
  BY DEF IInv, OneCreator, TypeOK, Passes, WaitUnlock
<1>6. ViewInv'
  BY DEF IInv, ViewInv, TypeOK, Passes, WaitUnlock
<1>7. IdleInv'
  BY DEF IInv, IdleInv, TypeOK, Passes, WaitUnlock
<1>8. SweepInv'
  BY DEF IInv, SweepInv, TypeOK, PassDir, Passes, WaitUnlock
<1>9. LookupComplete'
  BY NullAssumption
     DEF IInv, LookupComplete, TypeOK, LocalInv, Dirs, Rank, WaitUnlock
<1>10. PodInv'
  BY DEF IInv, PodInv, WaitUnlock
<1> QED
  BY <1>1, <1>2, <1>3, <1>4, <1>5, <1>6, <1>7, <1>8, <1>9, <1>10 DEF IInv

\* gc starts its first pass with nothing listed.
LEMMA StartGCInv ==
    ASSUME IInv, NEW p \in Procs, StartGC(p)
    PROVE  IInv'
<1>1. TypeOK'
  BY DEF IInv, TypeOK, Commands, Control, Dirs, Passes, StartGC, Views
<1>2. LocalInv'
  BY DEF IInv, LocalInv, TypeOK, Passes, StartGC
<1>3. CommandInv'
  BY DEF IInv, CommandInv, TypeOK, Passes, StartGC
<1>4. OwnerInv'
  BY DEF IInv, OwnerInv, TypeOK, Passes, StartGC
<1>5. OneCreator'
  BY DEF IInv, OneCreator, TypeOK, Passes, StartGC
<1>6. IdleInv'
  BY DEF IInv, IdleInv, TypeOK, Passes, StartGC
<1>7. SweepInv'
  BY DEF IInv, SweepInv, TypeOK, PassDir, Passes, StartGC
<1>8. LookupComplete'
  BY DEF IInv, LookupComplete, TypeOK, Passes, Rank, StartGC
<1>9. ViewInv' /\ PodInv'
  BY DEF IInv, ViewInv, PodInv, StartGC
<1> QED
  BY <1>1, <1>2, <1>3, <1>4, <1>5, <1>6, <1>7, <1>8, <1>9 DEF IInv

\* A walk lists pods that are in its pass's directory at this moment.
LEMMA ListPodsInv ==
    ASSUME IInv, NEW p \in Procs, ListPods(p)
    PROVE  IInv'
<1>1. TypeOK'
  BY DEF IInv, TypeOK, Commands, Control, Dirs, ListPods, PassDir, Passes, Views
<1>2. LocalInv'
  BY DEF IInv, LocalInv, TypeOK, ListPods, PassDir, Passes
<1>3. CommandInv'
  BY DEF IInv, CommandInv, TypeOK, ListPods, PassDir, Passes
<1>4. OwnerInv'
  BY DEF IInv, OwnerInv, TypeOK, ListPods, PassDir, Passes
<1>5. OneCreator'
  BY DEF IInv, OneCreator, TypeOK, ListPods, PassDir, Passes
<1>6. IdleInv'
  BY DEF IInv, IdleInv, TypeOK, ListPods, PassDir, Passes
<1>7. SweepInv'
  BY DEF IInv, SweepInv, TypeOK, ListPods, PassDir, Passes
<1>8. LookupComplete'
  BY DEF IInv, LookupComplete, TypeOK, ListPods, PassDir, Passes, Rank
<1>9. ViewInv' /\ PodInv'
  BY DEF IInv, ViewInv, PodInv, ListPods
<1> QED
  BY <1>1, <1>2, <1>3, <1>4, <1>5, <1>6, <1>7, <1>8, <1>9 DEF IInv

\* A walk or rm takes one pod of its list.
LEMMA NextPodInv ==
    ASSUME IInv, NEW p \in Procs, NEW x \in Pods, NextPod(p, x)
    PROVE  IInv'
<1>1. TypeOK'
  BY DEF IInv, TypeOK, Commands, Control, Dirs, NextPod, Passes, Views
<1>2. LocalInv'
  BY DEF IInv, LocalInv, TypeOK, NextPod, Passes
<1>3. CommandInv'
  BY DEF IInv, CommandInv, TypeOK, NextPod, Passes
<1>4. OwnerInv'
  BY DEF IInv, OwnerInv, TypeOK, NextPod, Passes
<1>5. OneCreator'
  BY DEF IInv, OneCreator, TypeOK, NextPod, Passes
<1>6. ViewInv'
  BY DEF IInv, ViewInv, TypeOK, LocalInv, NextPod, Passes
<1>7. IdleInv'
  BY DEF IInv, IdleInv, TypeOK, LocalInv, NextPod, Passes
<1>8. SweepInv'
  BY DEF IInv, SweepInv, TypeOK, NextPod, PassDir, Passes
<1>9. LookupComplete'
  BY DEF IInv, LookupComplete, TypeOK, LocalInv, ViewInv, CommandInv, OwnerInv, Commands, Control,
       Dirs, NextPod, Passes, Rank, Views
<1>10. PodInv'
  BY DEF IInv, PodInv, NextPod
<1> QED
  BY <1>1, <1>2, <1>3, <1>4, <1>5, <1>6, <1>7, <1>8, <1>9, <1>10 DEF IInv

\* The next pass of gc starts with an empty list.
LEMMA WalkDoneInv ==
    ASSUME IInv, NEW p \in Procs, WalkDone(p)
    PROVE  IInv'
<1>1. CASE NextPass(cmd[p]) # "none"
  <2>1. TypeOK'
    BY <1>1 DEF IInv, TypeOK, Commands, Control, Dirs, NextPass, Passes, Quit, Views, WalkDone
  <2>2. LocalInv'
    BY <1>1 DEF IInv, LocalInv, TypeOK, NextPass, Passes, Quit, WalkDone
  <2>3. CommandInv'
    BY <1>1 DEF IInv, CommandInv, TypeOK, NextPass, Passes, Quit, WalkDone
  <2>4. OwnerInv'
    BY <1>1 DEF IInv, OwnerInv, TypeOK, NextPass, Passes, Quit, WalkDone
  <2>5. OneCreator'
    BY <1>1 DEF IInv, OneCreator, TypeOK, NextPass, Passes, Quit, WalkDone
  <2>6. IdleInv'
    BY <1>1 DEF IInv, IdleInv, TypeOK, NextPass, Passes, Quit, WalkDone
  <2>7. SweepInv'
    BY <1>1 DEF IInv, SweepInv, TypeOK, LocalInv, NextPass, PassDir, Passes, Quit, WalkDone
  <2>8. LookupComplete'
    BY <1>1 DEF IInv, LookupComplete, TypeOK, NextPass, Passes, Quit, Rank, WalkDone
  <2>9. ViewInv' /\ PodInv'
    BY <1>1 DEF IInv, ViewInv, PodInv, WalkDone
  <2> QED
    BY <2>1, <2>2, <2>3, <2>4, <2>5, <2>6, <2>7, <2>8, <2>9 DEF IInv
<1>2. CASE NextPass(cmd[p]) = "none"
  BY <1>2, QuitInv DEF IInv, TypeOK, WalkDone
<1> QED
  BY <1>1, <1>2 DEF IInv, TypeOK, CommandInv, WalkDone

\* A pass acts on a pod of its directory: flags of another state do not get through the mask.
LEMMA GCVisitInv ==
    ASSUME IInv, NEW p \in Procs, GCVisit(p)
    PROVE  IInv'
<1>1. CASE InMask(cmd[p], view[p]) /\ Wanted(p)
  <2>1. TypeOK'
    BY <1>1 DEF IInv, TypeOK, Commands, Control, Dirs, DoneWith, Expired, GCVisit, InMask, PassDir,
         PassStep, Passes, PathOf, Views, Wanted
  <2>2. LocalInv'
    BY <1>1 DEF IInv, LocalInv, TypeOK, DoneWith, Expired, GCVisit, InMask, PassDir, PassStep,
         Passes, PathOf, Wanted
  <2>3. CommandInv'
    BY <1>1 DEF IInv, CommandInv, TypeOK, DoneWith, Expired, GCVisit, InMask, PassDir, PassStep,
         Passes, PathOf, Wanted
  <2>4. OwnerInv'
    BY <1>1 DEF IInv, OwnerInv, TypeOK, LocalInv, DoneWith, Expired, GCVisit, InMask, PassDir,
         PassStep, Passes, PathOf, Wanted
  <2>5. OneCreator'
    BY <1>1 DEF IInv, OneCreator, TypeOK, DoneWith, Expired, GCVisit, InMask, PassDir, PassStep,
         Passes, PathOf, Wanted
  <2>6. IdleInv'
    BY <1>1 DEF IInv, IdleInv, TypeOK, DoneWith, Expired, GCVisit, InMask, PassDir, PassStep,
         Passes, PathOf, Wanted
  <2>7. SweepInv'
    BY <1>1 DEF IInv, SweepInv, TypeOK, DoneWith, Expired, GCVisit, InMask, PassDir, PassStep,
         Passes, PathOf, Wanted
  <2>8. LookupComplete'
    BY <1>1, ZenonT(40) DEF IInv, LookupComplete, TypeOK, DoneWith, Expired, GCVisit, InMask,
         PassDir, PassStep, Passes, PathOf, Rank, Wanted
  <2>9. ViewInv' /\ PodInv'
    BY <1>1 DEF IInv, ViewInv, PodInv, GCVisit
  <2> QED
    BY <2>1, <2>2, <2>3, <2>4, <2>5, <2>6, <2>7, <2>8, <2>9 DEF IInv
<1>2. CASE ~(InMask(cmd[p], view[p]) /\ Wanted(p))
  BY <1>2, DoneInvQuiet DEF GCVisit
<1> QED
  BY <1>1, <1>2 DEF IInv, TypeOK, CommandInv, GCVisit

\* rm starts with pods a user could name.
LEMMA StartRmInv ==
    ASSUME IInv, NEW p \in Procs, NEW S \in SUBSET Pods, StartRm(p, S)
    PROVE  IInv'
<1>1. TypeOK'
  BY DEF IInv, TypeOK, Commands, Control, Dirs, Listed, Passes, StartRm, Views
<1>2. LocalInv'
  BY DEF IInv, LocalInv, TypeOK, Listed, Passes, StartRm
<1>3. CommandInv'
  BY DEF IInv, CommandInv, TypeOK, Listed, Passes, StartRm
<1>4. OwnerInv'
  BY DEF IInv, OwnerInv, TypeOK, Listed, Passes, StartRm
<1>5. OneCreator'
  BY DEF IInv, OneCreator, TypeOK, Listed, Passes, StartRm
<1>6. IdleInv'
  BY DEF IInv, IdleInv, TypeOK, Listed, Passes, StartRm
<1>7. SweepInv'
  BY DEF IInv, SweepInv, TypeOK, Listed, PassDir, Passes, StartRm
<1>8. LookupComplete'
  BY DEF IInv, LookupComplete, TypeOK, Listed, Passes, Rank, StartRm
<1>9. ViewInv' /\ PodInv'
  BY DEF IInv, ViewInv, PodInv, StartRm
<1> QED
  BY <1>1, <1>2, <1>3, <1>4, <1>5, <1>6, <1>7, <1>8, <1>9 DEF IInv

\* rm refuses a busy pod and goes on with an idle one.
LEMMA RemovePodInv ==
    ASSUME IInv, NEW p \in Procs, RemovePod(p)
    PROVE  IInv'
<1>1. CASE view[p] \in {"running", "embryo", "preparing", "exitedDeleting", "deleting"}
  BY <1>1, DoneInvQuiet DEF RemovePod
<1>2. CASE view[p] \in {"abortedPrepare", "prepared", "exited", "exitedGarbage", "garbage"}
  <2>1. TypeOK'
    BY <1>2 DEF IInv, TypeOK, Commands, Control, Dirs, DoneWith, Passes, RemovePod, Views
  <2>2. LocalInv'
    BY <1>2 DEF IInv, LocalInv, TypeOK, DoneWith, Passes, RemovePod
  <2>3. CommandInv'
    BY <1>2 DEF IInv, CommandInv, TypeOK, DoneWith, Passes, RemovePod
  <2>4. OwnerInv'
    BY <1>2 DEF IInv, OwnerInv, TypeOK, DoneWith, Passes, RemovePod
  <2>5. OneCreator'
    BY <1>2 DEF IInv, OneCreator, TypeOK, DoneWith, Passes, RemovePod
  <2>6. IdleInv'
    BY <1>2 DEF IInv, IdleInv, TypeOK, DoneWith, Passes, RemovePod
  <2>7. SweepInv'
    BY <1>2 DEF IInv, SweepInv, TypeOK, DoneWith, PassDir, Passes, RemovePod
  <2>8. LookupComplete'
    BY <1>2 DEF IInv, LookupComplete, TypeOK, DoneWith, Passes, Rank, RemovePod
  <2>9. ViewInv' /\ PodInv'
    BY <1>2 DEF IInv, ViewInv, PodInv, RemovePod
  <2> QED
    BY <2>1, <2>2, <2>3, <2>4, <2>5, <2>6, <2>7, <2>8, <2>9 DEF IInv
<1> QED
  BY <1>1, <1>2 DEF IInv, TypeOK, CommandInv, RemovePod

\* A pod believed to have exited has no pod process: marking it takes nothing from anybody.
LEMMA XToExitedGarbageInv ==
    ASSUME IInv, NEW p \in Procs, XToExitedGarbage(p)
    PROVE  IInv'
<1>1. CASE view[p] = "exited" /\ dir[pod[p]] = "run" /\ cmd[p] = "rm"
  <2>1. TypeOK'
    <3>1. dir' \in [Pods -> Dirs \cup {"none", "gone"}] /\ aged' \in [Pods -> BOOLEAN]
      BY <1>1 DEF IInv, TypeOK, Dirs, XToExitedGarbage, Rename
    <3>2. /\ pc' \in [Procs -> Control] /\ view' \in [Procs -> Views]
          /\ pod' \in [Procs -> Pods \cup {NoPod}] /\ ex' \in [Pods -> Procs \cup {NoProc}]
      BY <1>1 DEF IInv, TypeOK, Control, Views, XToExitedGarbage, Moved, DoneWith
    <3>3. UNCHANGED <<content, uncollected, sh, cmd, scan, todo, kills>>
      BY <1>1 DEF XToExitedGarbage, Rename, Moved, DoneWith
    <3> QED
      BY <3>1, <3>2, <3>3 DEF IInv, TypeOK
  <2>2. LocalInv'
    BY <1>1 DEF IInv, LocalInv, TypeOK, DoneWith, Moved, Passes, Rename, XToExitedGarbage
  <2>3. CommandInv'
    BY <1>1 DEF IInv, CommandInv, TypeOK, DoneWith, Moved, Passes, Rename, XToExitedGarbage
  <2>4. OwnerInv'
    BY <1>1, SMTT(30) DEF IInv, OwnerInv, TypeOK, LocalInv, CommandInv, OneCreator, ViewInv,
         IdleInv, SweepInv, PodInv, DoneWith, Moved, PassDir, Passes, Rename, XToExitedGarbage
  <2>5. OneCreator'
    BY <1>1 DEF IInv, OneCreator, TypeOK, DoneWith, Moved, Passes, Rename, XToExitedGarbage
  <2>6. ViewInv'
    BY <1>1 DEF IInv, ViewInv, TypeOK, LocalInv, DoneWith, Moved, Passes, Rename, XToExitedGarbage
  <2>7. IdleInv'
    BY <1>1 DEF IInv, IdleInv, TypeOK, LocalInv, DoneWith, Moved, Passes, Rename, XToExitedGarbage
  <2>8. SweepInv'
    BY <1>1 DEF IInv, SweepInv, TypeOK, DoneWith, Moved, PassDir, Passes, Rename, XToExitedGarbage
  <2>9. PodInv'
    BY <1>1 DEF IInv, PodInv, TypeOK, DoneWith, Moved, Passes, Rename, XToExitedGarbage
  <2>10. LookupComplete'
    BY <1>1 DEF IInv, LookupComplete, TypeOK, LocalInv, ViewInv, CommandInv, OwnerInv, Commands,
         Control, Dirs, DoneWith, Moved, Passes, Rank, Rename, Views, XToExitedGarbage
  <2> QED
    BY <2>1, <2>2, <2>3, <2>4, <2>5, <2>6, <2>7, <2>8, <2>9, <2>10 DEF IInv
<1>2. CASE view[p] = "exited" /\ dir[pod[p]] = "run" /\ cmd[p] # "rm"
  <2>1. TypeOK'
    <3>1. dir' \in [Pods -> Dirs \cup {"none", "gone"}] /\ aged' \in [Pods -> BOOLEAN]
      BY <1>2 DEF IInv, TypeOK, Dirs, XToExitedGarbage, Rename
    <3>2. /\ pc' \in [Procs -> Control] /\ view' \in [Procs -> Views]
          /\ pod' \in [Procs -> Pods \cup {NoPod}] /\ ex' \in [Pods -> Procs \cup {NoProc}]
      BY <1>2 DEF IInv, TypeOK, Control, Views, XToExitedGarbage, Moved, DoneWith
    <3>3. UNCHANGED <<content, uncollected, sh, cmd, scan, todo, kills>>
      BY <1>2 DEF XToExitedGarbage, Rename, Moved, DoneWith
    <3> QED
      BY <3>1, <3>2, <3>3 DEF IInv, TypeOK
  <2>2. LocalInv'
    BY <1>2 DEF IInv, LocalInv, TypeOK, DoneWith, Moved, Passes, Rename, XToExitedGarbage
  <2>3. CommandInv'
    BY <1>2 DEF IInv, CommandInv, TypeOK, DoneWith, Moved, Passes, Rename, XToExitedGarbage
  <2>4. OwnerInv'
    BY <1>2 DEF IInv, OwnerInv, TypeOK, LocalInv, CommandInv, OneCreator, ViewInv, IdleInv,
         SweepInv, PodInv, DoneWith, Moved, PassDir, Passes, Rename, XToExitedGarbage
  <2>5. OneCreator'
    BY <1>2 DEF IInv, OneCreator, TypeOK, DoneWith, Moved, Passes, Rename, XToExitedGarbage
  <2>6. ViewInv'
    BY <1>2 DEF IInv, ViewInv, TypeOK, LocalInv, DoneWith, Moved, Passes, Rename, XToExitedGarbage
  <2>7. IdleInv'
    BY <1>2 DEF IInv, IdleInv, TypeOK, LocalInv, DoneWith, Moved, Passes, Rename, XToExitedGarbage
  <2>8. SweepInv'
    BY <1>2 DEF IInv, SweepInv, TypeOK, DoneWith, Moved, PassDir, Passes, Rename, XToExitedGarbage
  <2>9. PodInv'
    BY <1>2 DEF IInv, PodInv, TypeOK, DoneWith, Moved, Passes, Rename, XToExitedGarbage
  <2>10. LookupComplete'
    BY <1>2, SMTT(30) DEF IInv, LookupComplete, TypeOK, LocalInv, ViewInv, CommandInv, OwnerInv,
         Commands, Control, Dirs, DoneWith, Moved, Passes, Rank, Rename, Views, XToExitedGarbage
  <2> QED
    BY <2>1, <2>2, <2>3, <2>4, <2>5, <2>6, <2>7, <2>8, <2>9, <2>10 DEF IInv
<1>3. CASE ~(view[p] = "exited" /\ dir[pod[p]] = "run")
  BY <1>3, DoneInvQuiet DEF IInv, CommandInv, XToExitedGarbage
<1> QED
  BY <1>1, <1>2, <1>3 DEF IInv, TypeOK, CommandInv, XToExitedGarbage

\* An aborted pod still in prepare has no creator, a prepared pod still in prepared no pod process.
LEMMA XToGarbageInv ==
    ASSUME IInv, NEW p \in Procs, XToGarbage(p)
    PROVE  IInv'
<1>1. CASE view[p] \in {"abortedPrepare", "prepared"} /\ dir[pod[p]] = PathOf(view[p]) /\ cmd[p] = "rm"
  <2>1. TypeOK'
    <3>1. dir' \in [Pods -> Dirs \cup {"none", "gone"}] /\ aged' \in [Pods -> BOOLEAN]
      BY <1>1 DEF IInv, TypeOK, Dirs, XToGarbage, Rename
    <3>2. /\ pc' \in [Procs -> Control] /\ view' \in [Procs -> Views]
          /\ pod' \in [Procs -> Pods \cup {NoPod}] /\ ex' \in [Pods -> Procs \cup {NoProc}]
      BY <1>1 DEF IInv, TypeOK, Control, Views, XToGarbage, Moved, DoneWith
    <3>3. UNCHANGED <<content, uncollected, sh, cmd, scan, todo, kills>>
      BY <1>1 DEF XToGarbage, Rename, Moved, DoneWith
    <3> QED
      BY <3>1, <3>2, <3>3 DEF IInv, TypeOK
  <2>2. LocalInv'
    BY <1>1 DEF IInv, LocalInv, TypeOK, DoneWith, Moved, Passes, PathOf, Rename, XToGarbage
  <2>3. CommandInv'
    BY <1>1 DEF IInv, CommandInv, TypeOK, DoneWith, Moved, Passes, PathOf, Rename, XToGarbage
  <2>4. OwnerInv'
    BY <1>1 DEF IInv, OwnerInv, TypeOK, LocalInv, CommandInv, OneCreator, ViewInv, IdleInv,
         SweepInv, PodInv, DoneWith, Moved, PassDir, Passes, PathOf, Rename, XToGarbage
  <2>5. OneCreator'
    BY <1>1 DEF IInv, OneCreator, TypeOK, DoneWith, Moved, Passes, PathOf, Rename, XToGarbage
  <2>6. ViewInv'
    BY <1>1 DEF IInv, ViewInv, TypeOK, LocalInv, DoneWith, Moved, Passes, PathOf, Rename, XToGarbage
  <2>7. IdleInv'
    BY <1>1 DEF IInv, IdleInv, TypeOK, LocalInv, DoneWith, Moved, Passes, PathOf, Rename, XToGarbage
  <2>8. SweepInv'
    BY <1>1 DEF IInv, SweepInv, TypeOK, DoneWith, Moved, PassDir, Passes, PathOf, Rename, XToGarbage
  <2>9. PodInv'
    BY <1>1 DEF IInv, PodInv, TypeOK, DoneWith, Moved, Passes, PathOf, Rename, XToGarbage
  <2>10. LookupComplete'
    BY <1>1 DEF IInv, LookupComplete, TypeOK, LocalInv, ViewInv, CommandInv, OwnerInv, Commands,
         Control, Dirs, DoneWith, Moved, Passes, PathOf, Rank, Rename, Views, XToGarbage
  <2> QED
    BY <2>1, <2>2, <2>3, <2>4, <2>5, <2>6, <2>7, <2>8, <2>9, <2>10 DEF IInv
<1>2. CASE view[p] \in {"abortedPrepare", "prepared"} /\ dir[pod[p]] = PathOf(view[p]) /\ cmd[p] # "rm"
  <2>1. TypeOK'
    <3>1. dir' \in [Pods -> Dirs \cup {"none", "gone"}] /\ aged' \in [Pods -> BOOLEAN]
      BY <1>2 DEF IInv, TypeOK, Dirs, XToGarbage, Rename
    <3>2. /\ pc' \in [Procs -> Control] /\ view' \in [Procs -> Views]
          /\ pod' \in [Procs -> Pods \cup {NoPod}] /\ ex' \in [Pods -> Procs \cup {NoProc}]
      BY <1>2 DEF IInv, TypeOK, Control, Views, XToGarbage, Moved, DoneWith
    <3>3. UNCHANGED <<content, uncollected, sh, cmd, scan, todo, kills>>
      BY <1>2 DEF XToGarbage, Rename, Moved, DoneWith
    <3> QED
      BY <3>1, <3>2, <3>3 DEF IInv, TypeOK
  <2>2. LocalInv'
    BY <1>2 DEF IInv, LocalInv, TypeOK, DoneWith, Moved, Passes, PathOf, Rename, XToGarbage
  <2>3. CommandInv'
    BY <1>2 DEF IInv, CommandInv, TypeOK, DoneWith, Moved, Passes, PathOf, Rename, XToGarbage
  <2>4. OwnerInv'
    BY <1>2, SMTT(30) DEF IInv, OwnerInv, TypeOK, LocalInv, CommandInv, OneCreator, ViewInv,
         IdleInv, SweepInv, PodInv, DoneWith, Moved, PassDir, Passes, PathOf, Rename, XToGarbage
  <2>5. OneCreator'
    BY <1>2 DEF IInv, OneCreator, TypeOK, DoneWith, Moved, Passes, PathOf, Rename, XToGarbage
  <2>6. ViewInv'
    BY <1>2 DEF IInv, ViewInv, TypeOK, LocalInv, DoneWith, Moved, Passes, PathOf, Rename, XToGarbage
  <2>7. IdleInv'
    BY <1>2 DEF IInv, IdleInv, TypeOK, LocalInv, DoneWith, Moved, Passes, PathOf, Rename, XToGarbage
  <2>8. SweepInv'
    BY <1>2 DEF IInv, SweepInv, TypeOK, DoneWith, Moved, PassDir, Passes, PathOf, Rename, XToGarbage
  <2>9. PodInv'
    BY <1>2 DEF IInv, PodInv, TypeOK, DoneWith, Moved, Passes, PathOf, Rename, XToGarbage
  <2>10. LookupComplete'
    BY <1>2, SMTT(30) DEF IInv, LookupComplete, TypeOK, LocalInv, ViewInv, CommandInv, OwnerInv,
         Commands, Control, Dirs, DoneWith, Moved, Passes, PathOf, Rank, Rename, Views, XToGarbage
  <2> QED
    BY <2>1, <2>2, <2>3, <2>4, <2>5, <2>6, <2>7, <2>8, <2>9, <2>10 DEF IInv
<1>3. CASE ~(view[p] \in {"abortedPrepare", "prepared"} /\ dir[pod[p]] = PathOf(view[p]))
  BY <1>3, DoneInvQuiet DEF IInv, CommandInv, XToGarbage
<1> QED
  BY <1>1, <1>2, <1>3 DEF IInv, TypeOK, CommandInv, XToGarbage

\* The lock in front of deletePod is exclusive.
LEMMA SweepLockInv ==
    ASSUME IInv, NEW p \in Procs, SweepLock(p)
    PROVE  IInv'
<1>1. TypeOK'
  BY DEF IInv, TypeOK, CanLockExclusive, Commands, Control, Dirs, Passes, SweepLock, Views
<1>2. LocalInv'
  BY DEF IInv, LocalInv, TypeOK, CanLockExclusive, Passes, SweepLock
<1>3. CommandInv'
  BY DEF IInv, CommandInv, TypeOK, CanLockExclusive, Passes, SweepLock
<1>4. OwnerInv'
  BY NullAssumption DEF IInv, OwnerInv, TypeOK, LocalInv, CommandInv, CanLockExclusive, SweepLock
<1>5. OneCreator'
  BY DEF IInv, OneCreator, TypeOK, CanLockExclusive, Passes, SweepLock
<1>6. IdleInv'
  BY DEF IInv, IdleInv, TypeOK, CanLockExclusive, Passes, SweepLock
<1>7. SweepInv'
  BY DEF IInv, SweepInv, TypeOK, CanLockExclusive, PassDir, Passes, SweepLock
<1>8. LookupComplete'
  BY DEF IInv, LookupComplete, TypeOK, CanLockExclusive, Passes, Rank, SweepLock
<1>9. ViewInv' /\ PodInv'
  BY DEF IInv, ViewInv, PodInv, SweepLock
<1> QED
  BY <1>1, <1>2, <1>3, <1>4, <1>5, <1>6, <1>7, <1>8, <1>9 DEF IInv

\* Only garbage gets here, and stage1's gc entrypoint has succeeded when the files are removed.
LEMMA DeletePodInv ==
    ASSUME IInv, NEW p \in Procs, DeletePod(p)
    PROVE  IInv'
<1>1. CASE pc'[p] # "next"
  <2>1. TypeOK'
    <3>1. uncollected' \in [Pods -> BOOLEAN] /\ pc' \in [Procs -> Control]
      BY <1>1 DEF IInv, TypeOK, Control, DeletePod, DoneWith
    <3>2. UNCHANGED <<dir, content, aged, lockVars, cmd, pod, view, scan, todo, kills>>
      BY <1>1 DEF IInv, TypeOK, DeletePod, DoneWith
    <3> QED
      BY <3>1, <3>2 DEF IInv, TypeOK
  <2>2. LocalInv'
    BY <1>1 DEF IInv, LocalInv, TypeOK, DeletePod, DoneWith, Passes
  <2>3. CommandInv'
    BY <1>1 DEF IInv, CommandInv, TypeOK, DeletePod, DoneWith, Passes
  <2>4. OwnerInv'
    BY <1>1 DEF IInv, OwnerInv, TypeOK, DeletePod, DoneWith, Passes
  <2>5. OneCreator'
    BY <1>1 DEF IInv, OneCreator, TypeOK, DeletePod, DoneWith, Passes
  <2>6. IdleInv'
    BY <1>1 DEF IInv, IdleInv, TypeOK, DeletePod, DoneWith, Passes
  <2>7. SweepInv'
    BY <1>1 DEF IInv, SweepInv, TypeOK, LocalInv, CommandInv, OwnerInv, ViewInv, PodInv, DeletePod,
         DoneWith, PassDir, Passes
  <2>8. PodInv'
    BY <1>1 DEF IInv, PodInv, TypeOK, DeletePod, DoneWith, Passes
  <2>9. LookupComplete'
    BY <1>1, ZenonT(40) DEF IInv, LookupComplete, TypeOK, DeletePod, DoneWith, Passes, Rank
  <2>10. ViewInv'
    BY <1>1 DEF IInv, TypeOK, ViewInv, DeletePod, DoneWith
  <2> QED
    BY <2>1, <2>2, <2>3, <2>4, <2>5, <2>6, <2>7, <2>8, <2>9, <2>10 DEF IInv
<1>2. CASE pc'[p] = "next" /\ UNCHANGED uncollected
  BY <1>2, DoneInv DEF IInv, TypeOK, CommandInv, DeletePod, Goto, GarbageViews, MarkedViews, fsVars
<1>3. CASE pc'[p] = "next" /\ uncollected' = [uncollected EXCEPT ![pod[p]] = FALSE]
  <2>1. TypeOK'
    BY <1>3, SMTT(30) DEF IInv, TypeOK, LocalInv, CommandInv, Commands, Control, DeletePod, Dirs,
         DoneWith, Passes, Views
  <2>2. LocalInv'
    BY <1>3 DEF IInv, LocalInv, TypeOK, DeletePod, DoneWith, Passes
  <2>3. CommandInv'
    BY <1>3 DEF IInv, CommandInv, TypeOK, DeletePod, DoneWith, Passes
  <2>4. OwnerInv'
    BY <1>3 DEF IInv, OwnerInv, TypeOK, LocalInv, DeletePod, DoneWith, Passes
  <2>5. OneCreator'
    BY <1>3 DEF IInv, OneCreator, TypeOK, DeletePod, DoneWith, Passes
  <2>6. ViewInv'
    BY <1>3 DEF IInv, ViewInv, TypeOK, DeletePod, DoneWith, Passes
  <2>7. IdleInv'
    BY <1>3 DEF IInv, IdleInv, TypeOK, DeletePod, DoneWith, Passes
  <2>8. SweepInv'
    BY <1>3 DEF IInv, SweepInv, TypeOK, DeletePod, DoneWith, PassDir, Passes
  <2>9. PodInv'
    BY <1>3 DEF IInv, PodInv, TypeOK, DeletePod, DoneWith, Passes
  <2>10. LookupComplete'
    BY <1>3, ZenonT(40) DEF IInv, LookupComplete, TypeOK, DeletePod, DoneWith, Passes, Rank
  <2> QED
    BY <2>1, <2>2, <2>3, <2>4, <2>5, <2>6, <2>7, <2>8, <2>9, <2>10 DEF IInv
<1> QED
  BY <1>1, <1>2, <1>3 DEF IInv, TypeOK, CommandInv, DeletePod

\* The files of a pod at its deleter's path go: only garbage loses its content.
LEMMA RemoveFilesInv ==
    ASSUME IInv, NEW p \in Procs, RemoveFiles(p)
    PROVE  IInv'
<1>1. TypeOK'
  BY DEF IInv, TypeOK, Commands, Control, Dirs, Passes, PathOf, RemoveFiles, Views
<1>2. LocalInv'
  BY DEF IInv, LocalInv, TypeOK, Passes, PathOf, RemoveFiles
<1>3. CommandInv'
  BY DEF IInv, CommandInv, TypeOK, Passes, PathOf, RemoveFiles
<1>4. OwnerInv'
  BY DEF IInv, OwnerInv, TypeOK, Passes, PathOf, RemoveFiles
<1>5. OneCreator'
  BY DEF IInv, OneCreator, TypeOK, Passes, PathOf, RemoveFiles
<1>6. IdleInv'
  BY DEF IInv, IdleInv, TypeOK, Passes, PathOf, RemoveFiles
<1>7. SweepInv'
  BY DEF IInv, SweepInv, TypeOK, PassDir, Passes, PathOf, RemoveFiles
<1>8. PodInv'
  BY DEF IInv, PodInv, TypeOK, LocalInv, CommandInv, OwnerInv, ViewInv, SweepInv, PassDir, Passes,
       PathOf, RemoveFiles
<1>9. LookupComplete'
  BY DEF IInv, LookupComplete, TypeOK, Passes, PathOf, Rank, RemoveFiles
<1>10. ViewInv'
  BY DEF IInv, ViewInv, RemoveFiles
<1> QED
  BY <1>1, <1>2, <1>3, <1>4, <1>5, <1>6, <1>7, <1>8, <1>9, <1>10 DEF IInv

\* The directory of a pod at its deleter's path goes, its stage1 having been collected.
LEMMA RemoveDirInv ==
    ASSUME IInv, NEW p \in Procs, RemoveDir(p)
    PROVE  IInv'
<1>1. TypeOK'
  BY DEF IInv, TypeOK, Commands, Control, Dirs, DoneWith, Passes, PathOf, RemoveDir, Views
<1>2. LocalInv'
  BY DEF IInv, LocalInv, TypeOK, DoneWith, Passes, PathOf, RemoveDir
<1>3. CommandInv'
  BY DEF IInv, CommandInv, TypeOK, DoneWith, Passes, PathOf, RemoveDir
<1>4. OwnerInv'
  BY DEF IInv, OwnerInv, TypeOK, LocalInv, CommandInv, OneCreator, ViewInv, IdleInv, SweepInv,
       PodInv, DoneWith, PassDir, Passes, PathOf, RemoveDir
<1>5. OneCreator'
  BY DEF IInv, OneCreator, TypeOK, DoneWith, Passes, PathOf, RemoveDir
<1>6. ViewInv'
  BY DEF IInv, ViewInv, TypeOK, DoneWith, Passes, PathOf, RemoveDir
<1>7. IdleInv'
  BY DEF IInv, IdleInv, TypeOK, DoneWith, Passes, PathOf, RemoveDir
<1>8. SweepInv'
  BY DEF IInv, SweepInv, TypeOK, DoneWith, PassDir, Passes, PathOf, RemoveDir
<1>9. PodInv'
  BY DEF IInv, PodInv, TypeOK, LocalInv, CommandInv, OwnerInv, ViewInv, SweepInv, DoneWith, PassDir,
       Passes, PathOf, RemoveDir
<1>10. LookupComplete'
  <2>1. ASSUME NEW q \in Procs, pc'[q] \in {"open", "refresh"}
        PROVE  q # p /\ pc'[q] = pc[q] /\ scan'[q] = scan[q] /\ pod'[q] = pod[q]
    BY <2>1 DEF IInv, TypeOK, DoneWith, RemoveDir
  <2>2. \A x \in Pods : dir'[x] \in {dir[x], "gone"}
    BY DEF IInv, TypeOK, RemoveDir
  <2>3. ASSUME NEW q \in Procs, pc'[q] \in {"open", "refresh"}
        PROVE  pod[q] \in Pods /\ scan[q] \in 1..6 /\ Rank(dir[pod[q]]) >= scan[q]
    BY <2>1, <2>3 DEF IInv, LookupComplete, LocalInv, TypeOK
  <2>4. Rank("gone") = 7
    BY DEF Rank
  <2> QED
    BY <2>1, <2>2, <2>3, <2>4 DEF LookupComplete
<1> QED
  BY <1>1, <1>2, <1>3, <1>4, <1>5, <1>6, <1>7, <1>8, <1>9, <1>10 DEF IInv

\* A removal that fails leaves the pod where it is, and its deleter goes on.
LEMMA RemoveFailsInv ==
    ASSUME IInv, NEW p \in Procs, RemoveFails(p)
    PROVE  IInv'
<1>1. kills' \in 0..MaxKills
  BY KillAssumption DEF IInv, TypeOK, RemoveFails
<1>2. /\ pc[p] \in {"removeFiles", "removeDir"} /\ cmd[p] \in {"rm"} \cup Passes
      /\ DoneWith(p) /\ UNCHANGED fsVars
  BY DEF IInv, CommandInv, RemoveFails
<1> QED
  BY <1>1, <1>2, DoneInv

\* Time touches the age of a pod only.
LEMMA AgeInv ==
    ASSUME IInv, NEW x \in Pods, Age(x)
    PROVE  IInv'
<1>1. TypeOK'
  BY DEF IInv, TypeOK, Age, Commands, Control, Dirs, Passes, Views
<1>2. /\ LocalInv' /\ CommandInv' /\ OwnerInv' /\ OneCreator' /\ ViewInv' /\ IdleInv'
      /\ SweepInv' /\ PodInv' /\ LookupComplete'
  BY DEF IInv, LocalInv, CommandInv, OwnerInv, OneCreator, ViewInv, IdleInv, SweepInv, PodInv,
       LookupComplete, Age
<1> QED
  BY <1>1, <1>2 DEF IInv

-----------------------------------------------------------------------------
(* The invariant holds at every step, and the safety properties follow.      *)

\* Before the first command there are no pods and no locks.
LEMMA InitInv == Init => IInv
<1> SUFFICES ASSUME Init PROVE IInv
  OBVIOUS
<1>1. TypeOK
  BY KillAssumption DEF Init, TypeOK, Commands, Control, Dirs, Passes, Views
<1>2. LocalInv /\ CommandInv /\ OwnerInv /\ OneCreator /\ ViewInv /\ IdleInv
  BY DEF Init, LocalInv, CommandInv, OwnerInv, OneCreator, ViewInv, IdleInv
<1>3. SweepInv /\ PodInv /\ LookupComplete
  BY DEF Init, SweepInv, PodInv, LookupComplete
<1> QED
  BY <1>1, <1>2, <1>3 DEF IInv

\* The command a user or a timer enters.
LEMMA StartInv ==
    ASSUME IInv, NEW p \in Procs, Start(p)
    PROVE  IInv'
<1>1. ASSUME NEW x \in Pods, NEW c \in {"prepare", "run"}, NewPod(p, x, c) PROVE IInv'
  BY <1>1, NewPodInv
<1>2. ASSUME NEW x \in Pods, NEW c \in {"runPrepared", "status", "wait"}, GetPod(p, x, c) PROVE IInv'
  BY <1>2, GetPodInv
<1>3. CASE StartGC(p)
  BY <1>3, StartGCInv
<1>4. ASSUME NEW S \in SUBSET Pods, StartRm(p, S) PROVE IInv'
  BY <1>4, StartRmInv
<1> QED
  BY <1>1, <1>2, <1>3, <1>4 DEF Start

\* A step that ends the process and touches no file.
LEMMA EndInv ==
    ASSUME IInv, NEW p \in Procs,
           UnlockPrepared(p) \/ Fail(p) \/ RenameLost(p) \/ PodExit(p) \/ Status(p) \/ Reap(p) \/ Kill(p)
    PROVE  IInv'
<1>1. Quit(p) /\ UNCHANGED fsVars
  BY DEF UnlockPrepared, Fail, RenameLost, PodExit, Status, Reap, Kill
<1>2. kills' \in 0..MaxKills
  BY KillAssumption DEF IInv, TypeOK, UnlockPrepared, Fail, RenameLost, PodExit, Status, Reap, Kill
<1> QED
  BY <1>1, <1>2, QuitInv

\* A step a process takes by itself.
LEMMA StepInv ==
    ASSUME IInv, NEW p \in Procs, Step(p)
    PROVE  IInv'
<1>1. CASE LockEmbryo(p) \/ XToPreparing(p) \/ Prepare(p) \/ XToPrepared(p) \/ LockRun(p) \/ XToRun(p)
  BY <1>1, LockEmbryoInv, XToPreparingInv, PrepareInv, XToPreparedInv, LockRunInv, XToRunInv
<1>2. CASE UnlockPrepared(p) \/ RenameLost(p) \/ Status(p) \/ Reap(p)
  BY <1>2, EndInv
<1>3. CASE Found(p) \/ NotHere(p) \/ NotFound(p) \/ RefreshGone(p)
  BY <1>3, FoundInv, NotHereInv, NotFoundInv, RefreshGoneInv
<1>4. CASE ProbeFree(p) \/ ProbeLocked(p) \/ Unprobe(p) \/ RunPrepared(p)
  BY <1>4, ProbeFreeInv, ProbeLockedInv, UnprobeInv, RunPreparedInv
<1>5. CASE WaitTest(p) \/ WaitLock(p) \/ WaitUnlock(p)
  BY <1>5, WaitTestInv, WaitLockInv, WaitUnlockInv
<1>6. CASE ListPods(p) \/ (\E x \in Pods : NextPod(p, x)) \/ WalkDone(p) \/ GCVisit(p)
  BY <1>6, ListPodsInv, NextPodInv, WalkDoneInv, GCVisitInv
<1>7. CASE RemovePod(p) \/ XToExitedGarbage(p) \/ XToGarbage(p)
  BY <1>7, RemovePodInv, XToExitedGarbageInv, XToGarbageInv
<1>8. CASE SweepLock(p) \/ DeletePod(p) \/ RemoveFiles(p) \/ RemoveDir(p)
  BY <1>8, SweepLockInv, DeletePodInv, RemoveFilesInv, RemoveDirInv
<1> QED
  BY <1>1, <1>2, <1>3, <1>4, <1>5, <1>6, <1>7, <1>8 DEF Step

\* Every step, a stuttering one included.
LEMMA NextInv == IInv /\ [Next]_vars => IInv'
<1> SUFFICES ASSUME IInv, [Next]_vars PROVE IInv'
  OBVIOUS
<1>1. CASE UNCHANGED vars
  BY <1>1 DEF vars, IInv, TypeOK, LocalInv, CommandInv, OwnerInv, OneCreator, ViewInv, IdleInv,
       SweepInv, PodInv, LookupComplete
<1>2. ASSUME NEW p \in Procs, \/ Start(p) \/ Step(p) \/ Fail(p) \/ RemoveFails(p) \/ Stage1Setup(p)
                              \/ PodExit(p) \/ Kill(p)
      PROVE  IInv'
  BY <1>2, StartInv, StepInv, EndInv, Stage1SetupInv, RemoveFailsInv
<1>3. ASSUME NEW x \in Pods, Age(x) PROVE IInv'
  BY <1>3, AgeInv
<1> QED
  BY <1>1, <1>2, <1>3 DEF Next

\* The inductive invariant holds in every state of every behaviour, for any number of pods,
\* processes and kills.
THEOREM Invariance == Spec => []IInv
  BY InitInv, NextInv, PTL DEF Spec

\* No command moves, deletes or locks a pod under the live process that prepares or runs it
\* (xToPreparing and xToRun lock before they rename; getPod probes before gc and rm act).
THEOREM OwnersKeepTheirPods == Spec => []OwnerKeepsPod
<1>1. IInv => OwnerKeepsPod
  <2> SUFFICES ASSUME IInv, NEW p \in Procs, NEW x \in Pods
               PROVE  /\ Preparing(p, x) => dir[x] = "prepare" /\ ex[x] = p
                      /\ Running(p, x) => dir[x] = "run" /\ ex[x] = p /\ content[x] = "full"
    BY DEF OwnerKeepsPod
  <2> QED
    BY DEF IInv, OwnerInv, PodInv
<1> QED
  BY <1>1, Invariance, PTL

\* deletePod never panics and removes only pods that are marked or garbage, or already gone.
THEOREM DeletersDeleteGarbage == Spec => []DeleteOnlyGarbage
<1>1. IInv => DeleteOnlyGarbage
  <2> SUFFICES ASSUME IInv, NEW p \in Procs, NEW x \in Pods, Deleting(p, x)
               PROVE  view[p] \in MarkedViews \cup GarbageViews /\ dir[x] \in {PathOf(view[p]), "gone"}
    BY DEF DeleteOnlyGarbage
  <2> QED
    BY DEF IInv, SweepInv, ViewInv, PathOf, Deleting
<1> QED
  BY <1>1, Invariance, PTL

\* However many gc and rm there are, at most one is in deletePod for a pod.
THEOREM DeletersExclude == Spec => []OneDeleter
<1>1. IInv => OneDeleter
  BY DEF IInv, OwnerInv, OneDeleter, Deleting
<1> QED
  BY <1>1, Invariance, PTL

\* A pod believed to have exited never runs again, however many commands race for it.
THEOREM ExitStaysTrue == Spec => []ExitedIsFinal
<1>1. IInv => ExitedIsFinal
  <2> SUFFICES ASSUME IInv, NEW p \in Procs, view[p] \in ExitedViews, pc[p] # "probe"
               PROVE  /\ dir[pod[p]] \in {"run", "exited-garbage", "gone"}
                      /\ \A q \in Procs : ~Running(q, pod[p])
    BY DEF ExitedIsFinal
  <2> QED
    BY DEF IInv, ViewInv, IdleInv
<1> QED
  BY <1>1, Invariance, PTL

\* No directory of a pod in which stage1 began disappears, or comes to the garbage directory,
\* where deletePod skips stage1's gc entrypoint, before that entrypoint has succeeded.
THEOREM CollectedBeforeRemoved == Spec => []CollectedFirst
<1>1. IInv => CollectedFirst
  BY DEF IInv, PodInv, CollectedFirst
<1> QED
  BY <1>1, Invariance, PTL

\* getPod and refreshState, which open one directory after the other, miss no pod that exists,
\* although any process may rename it between two opens.
THEOREM LookupsComplete == Spec => []LookupComplete
<1>1. IInv => LookupComplete
  BY DEF IInv
<1> QED
  BY <1>1, Invariance, PTL

-----------------------------------------------------------------------------
(* Transitions.                                                              *)

\* The renames of the code, as pairs of directories.
Renames ==
    {<<"embryo", "prepare">>, <<"prepare", "prepared">>, <<"prepare", "run">>,
     <<"prepared", "run">>, <<"run", "exited-garbage">>, <<"prepare", "garbage">>,
     <<"prepared", "garbage">>}

\* A transition of the code renames the pod it works on by one of these pairs, or fails.
LEMMA RenameStep ==
    ASSUME IInv, NEW p \in Procs,
           XToPreparing(p) \/ XToPrepared(p) \/ XToRun(p) \/ XToExitedGarbage(p) \/ XToGarbage(p)
    PROVE  dir' = dir \/ \E t \in Renames : dir[pod[p]] = t[1] /\ dir' = [dir EXCEPT ![pod[p]] = t[2]]
<1>1. CASE XToPreparing(p)
  <2>1. dir[pod[p]] = "embryo" /\ dir' = [dir EXCEPT ![pod[p]] = "prepare"]
    BY <1>1 DEF XToPreparing, Rename
  <2> QED
    BY <2>1 DEF Renames
<1>2. CASE XToPrepared(p)
  <2>1. view[p] = "preparing"
    BY <1>2 DEF XToPrepared, IInv, OwnerInv
  <2>2. dir[pod[p]] = "prepare" /\ dir' = [dir EXCEPT ![pod[p]] = "prepared"]
    BY <1>2, <2>1 DEF XToPrepared, Rename, PathOf
  <2> QED
    BY <2>2 DEF Renames
<1>3. CASE XToRun(p)
  <2>1. view[p] \in {"preparing", "prepared"}
    BY <1>3 DEF XToRun, IInv, OwnerInv, CommandInv
  <2>2. dir[pod[p]] \in {"prepare", "prepared"} /\ dir' = [dir EXCEPT ![pod[p]] = "run"]
    BY <1>3, <2>1 DEF XToRun, Rename, PathOf
  <2> QED
    BY <2>2 DEF Renames
<1>4. CASE XToExitedGarbage(p)
  <2>1. dir' = dir \/ (dir[pod[p]] = "run" /\ dir' = [dir EXCEPT ![pod[p]] = "exited-garbage"])
    BY <1>4 DEF XToExitedGarbage, Rename
  <2> QED
    BY <2>1 DEF Renames
<1>5. CASE XToGarbage(p)
  <2>1. dir' = dir \/ (dir[pod[p]] \in {"prepare", "prepared"} /\ dir' = [dir EXCEPT ![pod[p]] = "garbage"])
    BY <1>5 DEF XToGarbage, Rename, PathOf
  <2> QED
    BY <2>1 DEF Renames
<1> QED
  BY <1>1, <1>2, <1>3, <1>4, <1>5

\* RemoveAll takes away directories of marked and garbage pods only.
LEMMA RemoveStep ==
    ASSUME IInv, NEW p \in Procs, RemoveDir(p)
    PROVE  \/ dir' = dir
           \/ /\ dir[pod[p]] \in {"exited-garbage", "garbage"}
              /\ dir' = [dir EXCEPT ![pod[p]] = "gone"]
  BY DEF IInv, SweepInv, RemoveDir, PathOf

\* Every step of the system leaves the directories alone, creates an embryo, renames one pod
\* or removes one.
LEMMA DirStep ==
    ASSUME IInv, [Next]_vars
    PROVE  \/ dir' = dir
           \/ \E x \in Pods : dir[x] = "none" /\ dir' = [dir EXCEPT ![x] = "embryo"]
           \/ \E p \in Procs, t \in Renames :
                 dir[pod[p]] = t[1] /\ dir' = [dir EXCEPT ![pod[p]] = t[2]]
           \/ \E p \in Procs : /\ dir[pod[p]] \in {"exited-garbage", "garbage"}
                               /\ dir' = [dir EXCEPT ![pod[p]] = "gone"]
<1>1. CASE UNCHANGED vars
  BY <1>1 DEF vars
<1>2. ASSUME NEW p \in Procs, Start(p) PROVE \/ dir' = dir
             \/ \E x \in Pods : dir[x] = "none" /\ dir' = [dir EXCEPT ![x] = "embryo"]
  BY <1>2 DEF Start, NewPod, GetPod, StartGC, StartRm
<1>3. ASSUME NEW p \in Procs,
             XToPreparing(p) \/ XToPrepared(p) \/ XToRun(p) \/ XToExitedGarbage(p) \/ XToGarbage(p)
      PROVE  dir' = dir \/ \E t \in Renames : dir[pod[p]] = t[1] /\ dir' = [dir EXCEPT ![pod[p]] = t[2]]
  BY <1>3, RenameStep
<1>4. ASSUME NEW p \in Procs, RemoveDir(p)
      PROVE  \/ dir' = dir
             \/ /\ dir[pod[p]] \in {"exited-garbage", "garbage"}
                /\ dir' = [dir EXCEPT ![pod[p]] = "gone"]
  BY <1>4, RemoveStep
<1>5. ASSUME NEW p \in Procs,
             \/ LockEmbryo(p) \/ Prepare(p) \/ UnlockPrepared(p) \/ LockRun(p) \/ RenameLost(p)
             \/ Found(p) \/ NotHere(p) \/ NotFound(p) \/ RefreshGone(p)
             \/ ProbeFree(p) \/ ProbeLocked(p) \/ Unprobe(p)
             \/ RunPrepared(p) \/ Status(p) \/ WaitTest(p) \/ WaitLock(p) \/ WaitUnlock(p)
      PROVE  dir' = dir
  BY <1>5 DEF LockEmbryo, Prepare, UnlockPrepared, LockRun, RenameLost, Found, NotHere, NotFound,
       RefreshGone, ProbeFree, ProbeLocked, Unprobe, RunPrepared, Status, WaitTest, WaitLock, WaitUnlock
<1>6. ASSUME NEW p \in Procs,
             \/ ListPods(p) \/ (\E x \in Pods : NextPod(p, x)) \/ WalkDone(p) \/ GCVisit(p)
             \/ RemovePod(p) \/ SweepLock(p) \/ DeletePod(p) \/ RemoveFiles(p) \/ Reap(p)
             \/ Fail(p) \/ RemoveFails(p) \/ Stage1Setup(p) \/ PodExit(p) \/ Kill(p)
      PROVE  dir' = dir
  BY <1>6 DEF ListPods, NextPod, WalkDone, GCVisit, RemovePod, SweepLock, DeletePod, RemoveFiles,
       Reap, Fail, RemoveFails, Stage1Setup, PodExit, Kill, fsVars
<1>7. ASSUME NEW x \in Pods, Age(x) PROVE dir' = dir
  BY <1>7 DEF Age
<1> QED
  BY <1>1, <1>2, <1>3, <1>4, <1>5, <1>6, <1>7, Zenon DEF Next, Step

\* No pod ever moves back: gc, rm and run-prepared, which rename on the word of cached flags,
\* lose the rename when the pod has moved on.
THEOREM PodsMoveForward == Spec => ForwardOnly
<1>1. ASSUME IInv, [Next]_vars PROVE [\A x \in Pods : Rank(dir'[x]) >= Rank(dir[x])]_dir
  <2>1. CASE dir' = dir
    BY <2>1
  <2>2. ASSUME NEW y, NEW a \in {"none", "embryo", "prepare", "prepared", "run", "exited-garbage", "garbage"},
               NEW b \in Dirs \cup {"gone"}, dir[y] = a, Rank(b) >= Rank(a),
               dir' = [dir EXCEPT ![y] = b]
        PROVE  \A x \in Pods : Rank(dir'[x]) >= Rank(dir[x])
    <3> SUFFICES ASSUME NEW x \in Pods PROVE Rank(dir'[x]) >= Rank(dir[x])
      OBVIOUS
    <3>1. dir'[x] = dir[x] \/ (dir'[x] = b /\ dir[x] = a)
      BY <1>1, <2>2 DEF IInv, TypeOK
    <3>2. Rank(dir[x]) \in Nat
      BY <1>1 DEF IInv, TypeOK, Rank, Dirs
    <3> QED
      BY <2>2, <3>1, <3>2
  <2>3. \A x \in Pods : dir[x] = "none" /\ dir' = [dir EXCEPT ![x] = "embryo"]
            => \A y \in Pods : Rank(dir'[y]) >= Rank(dir[y])
    <3>1. Rank("embryo") >= Rank("none") /\ "embryo" \in Dirs
      BY DEF Rank, Dirs
    <3> QED
      BY <2>2, <3>1
  <2>4. \A p \in Procs, t \in Renames : dir[pod[p]] = t[1] /\ dir' = [dir EXCEPT ![pod[p]] = t[2]]
            => \A y \in Pods : Rank(dir'[y]) >= Rank(dir[y])
    <3> SUFFICES ASSUME NEW p \in Procs, NEW t \in Renames, dir[pod[p]] = t[1],
                        dir' = [dir EXCEPT ![pod[p]] = t[2]]
                 PROVE  \A y \in Pods : Rank(dir'[y]) >= Rank(dir[y])
      OBVIOUS
    <3>1. /\ t[1] \in {"embryo", "prepare", "prepared", "run"}
          /\ t[2] \in Dirs
          /\ Rank(t[2]) >= Rank(t[1])
      BY DEF Renames, Rank, Dirs
    <3> QED
      BY <2>2, <3>1
  <2>5. \A p \in Procs : /\ dir[pod[p]] \in {"exited-garbage", "garbage"}
                         /\ dir' = [dir EXCEPT ![pod[p]] = "gone"]
            => \A y \in Pods : Rank(dir'[y]) >= Rank(dir[y])
    <3>1. Rank("gone") >= Rank("exited-garbage") /\ Rank("gone") >= Rank("garbage")
      BY DEF Rank
    <3> QED
      BY <2>2, <3>1
  <2> QED
    BY <1>1, <2>1, <2>3, <2>4, <2>5, DirStep
<1> QED
  BY <1>1, Invariance, PTL DEF Spec, ForwardOnly

====
