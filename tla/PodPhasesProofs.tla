---------------------------- MODULE PodPhasesProofs ----------------------------
(***************************************************************************)
(* PodLifecycle implements PodPhases, for any number of pods, processes and  *)
(* kills.  The abstract state of a pod depends on its directory and on the   *)
(* process, if any, that prepares or runs it.  A step is made by one process *)
(* on one pod (Alone, SameState): it is invisible, or it is one of the       *)
(* renames, or it ends the process that prepared or ran the pod.  That such  *)
(* a process is the only one (SoleOwner), and that gc and rm rename only     *)
(* pods without one, comes from the inductive invariant of PodLifecycle.     *)
(*                                                                           *)
(* The second part is about time: gc honours its grace and expiration        *)
(* periods.  It compares a ctime long before it acts, and waits for a lock   *)
(* in between: PeriodInv says that the answer is still true then.  Renames   *)
(* and removals reset the ctime; that they do not concern a pod another gc   *)
(* has already compared follows from the inductive invariant.                *)
(***************************************************************************)
EXTENDS PodLifecycleProofs

\* Only p takes a step.
Alone(p) == \A q \in Procs \ {p} : pc'[q] = pc[q] /\ cmd'[q] = cmd[q] /\ pod'[q] = pod[q]

\* p neither prepares nor runs a pod.
NoOwner(p) == /\ pc[p] \notin {"prepare", "toPrepared", "running"}
              /\ pc[p] \in {"lockRun", "toRun"} => cmd[p] # "run"

State == [x \in Pods |-> StateOf(x)]

\* A step of p that leaves a pod's directory and p's part in the pod alone does not change
\* the state of the pod.
LEMMA SameState ==
    ASSUME NEW p \in Procs, NEW x \in Pods, Alone(p), dir'[x] = dir[x],
           Preparing(p, x)' <=> Preparing(p, x), Running(p, x)' <=> Running(p, x)
    PROVE  StateOf(x)' = StateOf(x)
<1>1. (\E q \in Procs : Preparing(q, x)') <=> (\E q \in Procs : Preparing(q, x))
  BY DEF Alone, Preparing
<1>2. (\E q \in Procs : Running(q, x)') <=> (\E q \in Procs : Running(q, x))
  BY DEF Alone, Running
<1> QED
  BY <1>1, <1>2 DEF StateOf, Preparing, Running

\* A step of a process that owns no pod before and after it, and renames none, is invisible.
LEMMA Quiet ==
    ASSUME NEW p \in Procs, Alone(p), dir' = dir, NoOwner(p), NoOwner(p)'
    PROVE  State' = State
<1>1. ASSUME NEW x \in Pods PROVE StateOf(x)' = StateOf(x)
  <2>1. ~Preparing(p, x) /\ ~Running(p, x) /\ ~Preparing(p, x)' /\ ~Running(p, x)'
    BY DEF NoOwner, Preparing, Running
  <2> QED
    BY <2>1, SameState
<1> QED
  BY <1>1 DEF State

\* One transition of one pod.
LEMMA OneMove ==
    ASSUME NEW x \in Pods, NEW a, NEW b, <<a, b>> \in Phases!Transitions,
           StateOf(x) = a, StateOf(x)' = b,
           \A y \in Pods \ {x} : StateOf(y)' = StateOf(y)
    PROVE  Phases!Next
<1>1. State[x] = a
  BY DEF State
<1>2. State' = [State EXCEPT ![x] = b]
  BY DEF State
<1>3. Phases!Move(x, <<a, b>>)
  BY <1>1, <1>2 DEF Phases!Move, State
<1> QED
  BY <1>3 DEF Phases!Next

\* A pod has at most one owner, the process that has its lock.
LEMMA SoleOwner ==
    ASSUME IInv, NEW p \in Procs, NEW x \in Pods, Preparing(p, x) \/ Running(p, x)
    PROVE  /\ ex[x] = p
           /\ \A q \in Procs \ {p} : ~Preparing(q, x) /\ ~Running(q, x)
<1>1. \A q \in Procs : Preparing(q, x) \/ Running(q, x) => ex[x] = q
  BY DEF IInv, OwnerInv, Preparing, Running
<1> QED
  BY <1>1

\* Pods other than the one that p works on before and after a step keep their state.
LEMMA OtherPods ==
    ASSUME NEW p \in Procs, Alone(p), NEW y \in Pods, dir'[y] = dir[y],
           pod[p] # y, pod'[p] # y
    PROVE  StateOf(y)' = StateOf(y)
<1>1. ~Preparing(p, y) /\ ~Running(p, y) /\ ~Preparing(p, y)' /\ ~Running(p, y)'
  BY DEF Preparing, Running
<1> QED
  BY <1>1, SameState

-----------------------------------------------------------------------------
(* The steps of the process that owns a pod.                                 *)

\* A new embryo.
LEMMA NewPodMoves ==
    ASSUME IInv, NEW p \in Procs, NEW x \in Pods, NEW c \in {"prepare", "run"}, NewPod(p, x, c)
    PROVE  Phases!Next
<1>1. Alone(p) /\ pod[p] = NoPod /\ pod'[p] = x
  BY DEF IInv, TypeOK, LocalInv, NewPod, Goto, Alone
<1>2. StateOf(x) = "unborn" /\ StateOf(x)' = "embryo"
  BY DEF IInv, TypeOK, NewPod, StateOf
<1>3. \A y \in Pods \ {x} : StateOf(y)' = StateOf(y)
  BY <1>1, OtherPods, NullAssumption DEF IInv, TypeOK, NewPod
<1> QED
  BY <1>2, <1>3, OneMove DEF Phases!Transitions

\* An embryo becomes a pod in preparation.
LEMMA XToPreparingMoves ==
    ASSUME IInv, NEW p \in Procs, XToPreparing(p)
    PROVE  Phases!Next
<1>0. PICK x \in Pods : x = pod[p]
  BY DEF IInv, LocalInv, XToPreparing
<1>1. Alone(p) /\ pod[p] = x /\ pod'[p] = x
  BY <1>0 DEF IInv, TypeOK, XToPreparing, Rename, Goto, Alone
<1>2. StateOf(x) = "embryo" /\ StateOf(x)' = "preparing"
  <2>1. Preparing(p, x)'
    BY <1>1 DEF IInv, TypeOK, XToPreparing, Goto, Preparing
  <2>2. dir[x] = "embryo" /\ dir'[x] = "prepare"
    BY <1>1 DEF IInv, TypeOK, XToPreparing, Rename
  <2> QED
    BY <2>1, <2>2 DEF StateOf, Preparing
<1>3. \A y \in Pods \ {x} : StateOf(y)' = StateOf(y)
  BY <1>1, OtherPods DEF IInv, TypeOK, XToPreparing, Rename
<1> QED
  BY <1>1, <1>2, <1>3, OneMove DEF Phases!Transitions

\* Preparation ends with a rename to prepared or to run; a prepared pod is run.
LEMMA PreparedMoves ==
    ASSUME IInv, NEW p \in Procs, XToPrepared(p) \/ XToRun(p)
    PROVE  Phases!Next
<1>0. PICK x \in Pods : x = pod[p]
  BY DEF IInv, LocalInv, XToPrepared, XToRun
<1>1. Alone(p) /\ pod[p] = x /\ pod'[p] = x
  BY <1>0 DEF IInv, TypeOK, XToPrepared, XToRun, Rename, Goto, Alone
<1>2. \A y \in Pods \ {x} : StateOf(y)' = StateOf(y)
  BY <1>1, OtherPods DEF IInv, TypeOK, XToPrepared, XToRun, Rename
<1>3. CASE XToPrepared(p)
  <2>1. Preparing(p, x) /\ dir[x] = "prepare" /\ dir'[x] = "prepared"
    BY <1>1, <1>3 DEF IInv, TypeOK, OwnerInv, XToPrepared, Rename, Preparing
  <2>2. StateOf(x) = "preparing" /\ StateOf(x)' = "prepared"
    BY <2>1 DEF StateOf
  <2> QED
    BY <1>1, <1>2, <2>2, OneMove DEF Phases!Transitions
<1>4. CASE XToRun(p)
  <2>1. dir'[x] = "run" /\ Running(p, x)'
    BY <1>1, <1>4 DEF IInv, TypeOK, XToRun, Rename, Goto, Running
  <2>2. StateOf(x)' = "running"
    BY <2>1 DEF StateOf, Running
  <2>3. CASE cmd[p] = "run"
    <3>1. Preparing(p, x) /\ dir[x] = "prepare"
      BY <1>1, <1>4, <2>3 DEF IInv, OwnerInv, XToRun, Preparing
    <3>2. StateOf(x) = "preparing"
      BY <3>1 DEF StateOf
    <3> QED
      BY <1>1, <1>2, <2>2, <3>2, OneMove DEF Phases!Transitions
  <2>4. CASE cmd[p] = "runPrepared"
    <3>1. view[p] = "prepared"
      BY <1>4, <2>4 DEF IInv, OwnerInv, XToRun
    <3>2. dir[x] = "prepared"
      BY <1>1, <1>4, <3>1 DEF XToRun, Rename, PathOf, MarkedViews, GarbageViews
    <3>3. StateOf(x) = "prepared"
      BY <3>2 DEF StateOf
    <3> QED
      BY <1>1, <1>2, <2>2, <3>3, OneMove DEF Phases!Transitions
  <2> QED
    BY <1>4, <2>3, <2>4 DEF IInv, CommandInv, XToRun
<1> QED
  BY <1>3, <1>4

\* The owner of a pod ends, by itself or killed: the pod has failed or exited, and nobody
\* else prepares or runs it.
LEMMA OwnerEnds ==
    ASSUME IInv, NEW p \in Procs, Quit(p), dir' = dir, ~NoOwner(p)
    PROVE  Phases!Next
<1>0. PICK x \in Pods : x = pod[p]
  BY DEF IInv, LocalInv, NoOwner
<1>1. pod[p] = x /\ (Preparing(p, x) \/ Running(p, x))
  BY <1>0 DEF NoOwner, Preparing, Running
<1>2. Alone(p) /\ pod'[p] = NoPod /\ pc'[p] = "idle"
  BY DEF IInv, TypeOK, Quit, Alone
<1>3. \A q \in Procs : ~Preparing(q, x)' /\ ~Running(q, x)'
  <2>1. ~Preparing(p, x)' /\ ~Running(p, x)'
    BY <1>2 DEF Preparing, Running
  <2>2. ASSUME NEW q \in Procs \ {p} PROVE ~Preparing(q, x)' /\ ~Running(q, x)'
    <3>1. ~Preparing(q, x) /\ ~Running(q, x)
      BY <1>1, SoleOwner
    <3> QED
      BY <1>2, <3>1 DEF Alone, Preparing, Running
  <2> QED
    BY <2>1, <2>2
<1>4. \A y \in Pods \ {x} : StateOf(y)' = StateOf(y)
  BY <1>1, <1>2, OtherPods, NullAssumption
<1>5. CASE Preparing(p, x)
  <2>1. dir[x] = "prepare"
    BY <1>1, <1>5 DEF IInv, OwnerInv
  <2>2. StateOf(x) = "preparing" /\ StateOf(x)' = "failed"
    BY <1>3, <1>5, <2>1 DEF StateOf
  <2> QED
    BY <1>1, <1>4, <2>2, OneMove DEF Phases!Transitions
<1>6. CASE Running(p, x)
  <2>1. dir[x] = "run"
    BY <1>1, <1>6 DEF IInv, OwnerInv, Running
  <2>2. StateOf(x) = "running" /\ StateOf(x)' = "exited"
    BY <1>3, <1>6, <2>1 DEF StateOf
  <2> QED
    BY <1>1, <1>4, <2>2, OneMove DEF Phases!Transitions
<1> QED
  BY <1>1, <1>5, <1>6

-----------------------------------------------------------------------------
(* The steps of gc and rm.                                                   *)

\* gc or rm renames a pod that nobody prepares or runs.
LEMMA DiscardMoves ==
    ASSUME IInv, NEW p \in Procs, XToExitedGarbage(p) \/ XToGarbage(p), dir' # dir
    PROVE  Phases!Next
<1>0. PICK x \in Pods : x = pod[p]
  BY DEF IInv, LocalInv, XToExitedGarbage, XToGarbage
<1>1. /\ Alone(p) /\ pod[p] = x /\ pod'[p] \in {x, NoPod}
      /\ pc'[p] \in {"next", "sweepLock"}
  BY <1>0 DEF IInv, TypeOK, XToExitedGarbage, XToGarbage, Moved, DoneWith, Goto, Alone
<1>2. \A y \in Pods \ {x} : StateOf(y)' = StateOf(y)
  <2>1. \A y \in Pods \ {x} : dir'[y] = dir[y]
    BY <1>1 DEF IInv, TypeOK, XToExitedGarbage, XToGarbage, Rename, fsVars
  <2> QED
    BY <1>1, <2>1, OtherPods, NullAssumption
<1>3. CASE XToExitedGarbage(p)
  <2>1. /\ view[p] = "exited" /\ pc[p] = "mark"
        /\ dir[x] = "run" /\ dir'[x] = "exited-garbage"
    BY <1>1, <1>3 DEF IInv, TypeOK, XToExitedGarbage, Rename, fsVars
  <2>2. \A q \in Procs : ~Running(q, x)
    BY <1>1, <2>1 DEF IInv, IdleInv, ExitedViews
  <2>3. StateOf(x) = "exited" /\ StateOf(x)' = "marked"
    BY <2>1, <2>2 DEF StateOf
  <2> QED
    BY <1>2, <2>3, OneMove DEF Phases!Transitions
<1>4. CASE XToGarbage(p)
  <2>1. /\ view[p] \in {"abortedPrepare", "prepared"} /\ pc[p] = "toGarbage"
        /\ dir[x] = PathOf(view[p]) /\ dir'[x] = "garbage"
    BY <1>1, <1>4 DEF IInv, TypeOK, XToGarbage, Rename, fsVars
  <2>2. StateOf(x)' = "garbage"
    BY <2>1 DEF StateOf
  <2>3. CASE view[p] = "abortedPrepare"
    <3>1. dir[x] = "prepare"
      BY <2>1, <2>3 DEF PathOf, MarkedViews, GarbageViews
    <3>2. \A q \in Procs : ~Preparing(q, x)
      BY <1>1, <2>1, <2>3, <3>1 DEF IInv, IdleInv
    <3>3. StateOf(x) = "failed"
      BY <3>1, <3>2 DEF StateOf
    <3> QED
      BY <1>2, <2>2, <3>3, OneMove DEF Phases!Transitions
  <2>4. CASE view[p] = "prepared"
    <3>1. dir[x] = "prepared"
      BY <2>1, <2>4 DEF PathOf, MarkedViews, GarbageViews
    <3>2. StateOf(x) = "prepared"
      BY <3>1 DEF StateOf
    <3> QED
      BY <1>2, <2>2, <3>2, OneMove DEF Phases!Transitions
  <2> QED
    BY <2>1, <2>3, <2>4
<1> QED
  BY <1>3, <1>4

\* The directory of a marked or garbage pod is removed.
LEMMA RemoveDirMoves ==
    ASSUME IInv, NEW p \in Procs, RemoveDir(p), dir' # dir
    PROVE  Phases!Next
<1>0. PICK x \in Pods : x = pod[p]
  BY DEF IInv, LocalInv, RemoveDir
<1>1. Alone(p) /\ pod[p] = x /\ pod'[p] = NoPod
  BY <1>0 DEF IInv, TypeOK, RemoveDir, DoneWith, Alone
<1>2. dir[x] \in {"exited-garbage", "garbage"} /\ dir' = [dir EXCEPT ![x] = "gone"]
  BY <1>0, RemoveStep
<1>3. \A y \in Pods \ {x} : StateOf(y)' = StateOf(y)
  BY <1>1, <1>2, OtherPods, NullAssumption DEF IInv, TypeOK
<1>4. dir'[x] = "gone"
  BY <1>2 DEF IInv, TypeOK
<1>5. StateOf(x) \in {"marked", "garbage"} /\ StateOf(x)' = "deleted"
  BY <1>2, <1>4 DEF StateOf
<1> QED
  BY <1>3, <1>5, OneMove DEF Phases!Transitions

-----------------------------------------------------------------------------
(* Invisible steps.                                                          *)

\* A process that ends without owning a pod is not noticed.
LEMMA QuitQuiet ==
    ASSUME IInv, NEW p \in Procs, Quit(p), dir' = dir, NoOwner(p)
    PROVE  State' = State
<1>1. Alone(p) /\ NoOwner(p)'
  BY DEF IInv, TypeOK, Quit, Alone, NoOwner
<1> QED
  BY <1>1, Quiet

\* Commands start and go on, look pods up, probe and take locks, walk and wait: none of
\* this changes the state of a pod.
LEMMA LookupQuiet ==
    ASSUME IInv, NEW p \in Procs,
           \/ LockEmbryo(p) \/ Found(p) \/ NotHere(p) \/ RefreshGone(p)
           \/ ProbeFree(p) \/ ProbeLocked(p) \/ Unprobe(p)
           \/ WaitTest(p) \/ WaitLock(p) \/ WaitUnlock(p)
           \/ ListPods(p) \/ (\E x \in Pods : NextPod(p, x))
           \/ StartGC(p) \/ (\E S \in SUBSET Pods : StartRm(p, S))
           \/ (\E x \in Pods : \E c \in {"runPrepared", "status", "wait"} : GetPod(p, x, c))
           \/ SweepLock(p) \/ RemoveFiles(p)
    PROVE  State' = State
<1>1. dir' = dir /\ Alone(p)
  BY DEF IInv, TypeOK, LockEmbryo, Found, NotHere, RefreshGone, ProbeFree, ProbeLocked, Unprobe,
         WaitTest, WaitLock, WaitUnlock, ListPods, NextPod, StartGC, StartRm, GetPod, SweepLock,
         RemoveFiles, Goto, Alone, fsVars
<1>2. pc[p] \notin {"prepare", "toPrepared", "running", "lockRun", "toRun"}
  BY DEF LockEmbryo, Found, NotHere, RefreshGone, ProbeFree, ProbeLocked, Unprobe,
         WaitTest, WaitLock, WaitUnlock, ListPods, NextPod, StartGC, StartRm, GetPod, SweepLock,
         RemoveFiles
<1>3. pc'[p] \notin {"prepare", "toPrepared", "running", "lockRun", "toRun"}
  BY <1>2 DEF IInv, TypeOK, LockEmbryo, Found, NotHere, RefreshGone, ProbeFree, ProbeLocked, Unprobe,
         WaitTest, WaitLock, WaitUnlock, ListPods, NextPod, StartGC, StartRm, GetPod, SweepLock,
         RemoveFiles, Goto
<1> QED
  BY <1>1, <1>2, <1>3, Quiet DEF NoOwner

\* The steps of an owner between two renames.
LEMMA OwnerQuiet ==
    ASSUME IInv, NEW p \in Procs, Prepare(p) \/ LockRun(p) \/ Stage1Setup(p)
    PROVE  State' = State
<1>1. dir' = dir /\ Alone(p) /\ pod' = pod /\ cmd' = cmd
  BY DEF IInv, TypeOK, Prepare, LockRun, Stage1Setup, Goto, Alone, fsVars, procVars
<1>2. ASSUME NEW x \in Pods
      PROVE  (Preparing(p, x)' <=> Preparing(p, x)) /\ (Running(p, x)' <=> Running(p, x))
  <2>1. CASE Prepare(p)
    BY <1>1, <2>1 DEF IInv, TypeOK, CommandInv, Prepare, Goto, Preparing, Running
  <2>2. CASE LockRun(p)
    BY <1>1, <2>2 DEF IInv, TypeOK, LockRun, Goto, Preparing, Running
  <2>3. CASE Stage1Setup(p)
    BY <1>1, <2>3 DEF Stage1Setup, procVars, Preparing, Running
  <2> QED
    BY <2>1, <2>2, <2>3
<1>3. \A x \in Pods : StateOf(x)' = StateOf(x)
  BY <1>1, <1>2, SameState
<1> QED
  BY <1>3 DEF State

\* gc and rm look at a pod they got, or delete or give up one.
LEMMA VisitQuiet ==
    ASSUME IInv, NEW p \in Procs,
           \/ GCVisit(p) \/ RemovePod(p) \/ DeletePod(p) \/ RemoveDir(p) \/ RemoveFails(p)
           \/ XToExitedGarbage(p) \/ XToGarbage(p),
           dir' = dir
    PROVE  State' = State
<1>1. NoOwner(p)
  BY DEF GCVisit, RemovePod, DeletePod, RemoveDir, RemoveFails, XToExitedGarbage, XToGarbage,
         NoOwner
<1>2. Alone(p) /\ pc'[p] \notin {"prepare", "toPrepared", "running", "lockRun", "toRun"}
  <2>1. CASE GCVisit(p)
    BY <2>1 DEF IInv, TypeOK, GCVisit, PassStep, DoneWith, Goto, Alone
  <2>2. CASE RemovePod(p)
    BY <2>2 DEF IInv, TypeOK, RemovePod, DoneWith, Goto, Alone, ExitedViews
  <2>3. CASE DeletePod(p)
    BY <2>3 DEF IInv, TypeOK, DeletePod, DoneWith, Goto, Alone
  <2>4. CASE RemoveDir(p) \/ RemoveFails(p)
    BY <2>4 DEF IInv, TypeOK, RemoveDir, RemoveFails, DoneWith, Alone
  <2>5. CASE XToExitedGarbage(p) \/ XToGarbage(p)
    BY <2>5 DEF IInv, TypeOK, XToExitedGarbage, XToGarbage, Moved, DoneWith, Goto, Alone
  <2> QED
    BY <2>1, <2>2, <2>3, <2>4, <2>5
<1> QED
  BY <1>1, <1>2, Quiet DEF NoOwner

\* The ends of commands, and what they do otherwise.
LEMMA EndStep ==
    ASSUME IInv, NEW p \in Procs,
           \/ UnlockPrepared(p) \/ RenameLost(p) \/ NotFound(p) \/ RunPrepared(p) \/ Status(p)
           \/ WalkDone(p) \/ Reap(p) \/ Fail(p) \/ PodExit(p) \/ Kill(p)
    PROVE  Phases!Next \/ State' = State
<1>1. dir' = dir
  BY DEF UnlockPrepared, RenameLost, NotFound, RunPrepared, Status, WalkDone, Reap, Fail, PodExit,
         Kill, fsVars
<1>2. CASE Quit(p)
  BY <1>1, <1>2, OwnerEnds, QuitQuiet
<1>3. CASE ~Quit(p)
  <2>1. NotFound(p) \/ RunPrepared(p) \/ WalkDone(p)
    BY <1>3 DEF UnlockPrepared, RenameLost, Status, Reap, Fail, PodExit, Kill
  <2>2. NoOwner(p)
    BY <2>1 DEF NotFound, RunPrepared, WalkDone, NoOwner
  <2>3. Alone(p)
    BY <1>3, <2>1 DEF IInv, TypeOK, NotFound, RunPrepared, WalkDone, Goto, Alone
  <2>4. NoOwner(p)'
    BY <1>3, <2>1 DEF IInv, TypeOK, NotFound, RunPrepared, WalkDone, Goto, NoOwner
  <2> QED
    BY <1>1, <2>2, <2>3, <2>4, Quiet
<1> QED
  BY <1>2, <1>3

-----------------------------------------------------------------------------

\* Every step of every command, and every death of a process, takes one pod through one
\* transition of its documented life cycle, or is invisible.
THEOREM LifecycleFollowsPhases == Spec => FollowsPhases
<1>1. Init => Phases!Init
  BY DEF Init, Phases!Init, StateOf
<1>2. ASSUME IInv, [Next]_vars PROVE Phases!Next \/ State' = State
  <2>1. CASE UNCHANGED vars
    BY <2>1 DEF vars, fsVars, procVars, State, StateOf, Preparing, Running
  <2>2. ASSUME NEW x \in Pods, Age(x) PROVE State' = State
    BY <2>2 DEF Age, procVars, State, StateOf, Preparing, Running
  <2>3. ASSUME NEW p \in Procs, Start(p) PROVE Phases!Next \/ State' = State
    BY <1>2, <2>3, NewPodMoves, LookupQuiet DEF Start
  <2>4. ASSUME NEW p \in Procs, Step(p) PROVE Phases!Next \/ State' = State
    <3>1. CASE GCVisit(p) \/ RemovePod(p) \/ DeletePod(p)
      <4>1. dir' = dir
        BY <3>1 DEF GCVisit, RemovePod, DeletePod, fsVars
      <4> QED
        BY <1>2, <3>1, <4>1, VisitQuiet
    <3>2. CASE XToExitedGarbage(p) \/ XToGarbage(p) \/ RemoveDir(p)
      BY <1>2, <3>2, DiscardMoves, RemoveDirMoves, VisitQuiet, Zenon
    <3>3. CASE XToPreparing(p) \/ XToPrepared(p) \/ XToRun(p)
      BY <1>2, <3>3, XToPreparingMoves, PreparedMoves
    <3> QED
      BY <1>2, <2>4, <3>1, <3>2, <3>3, LookupQuiet, OwnerQuiet, EndStep, Zenon DEF Step
  <2>5. ASSUME NEW p \in Procs, Fail(p) \/ Stage1Setup(p) \/ PodExit(p) \/ Kill(p)
        PROVE  Phases!Next \/ State' = State
    BY <1>2, <2>5, OwnerQuiet, EndStep
  <2>6. ASSUME NEW p \in Procs, RemoveFails(p) PROVE State' = State
    <3>1. dir' = dir
      BY <2>6 DEF RemoveFails, fsVars
    <3> QED
      BY <1>2, <2>6, <3>1, VisitQuiet
  <2> QED
    BY <1>2, <2>1, <2>2, <2>3, <2>4, <2>5, <2>6 DEF Next
<1>3. IInv /\ [Next]_vars => [Phases!Next]_([x \in Pods |-> StateOf(x)])
  BY <1>2 DEF State
<1> QED
  BY <1>1, <1>3, Invariance, PTL DEF Spec, FollowsPhases, Phases!Spec

-----------------------------------------------------------------------------
(* The grace and expiration periods of gc. *)

\* A step of p that leaves the files alone and takes p to no place that PeriodInv is about.
Harmless(p) ==
    /\ UNCHANGED fsVars
    /\ \A q \in Procs \ {p} : /\ pc'[q] = pc[q] /\ cmd'[q] = cmd[q]
                              /\ pod'[q] = pod[q] /\ view'[q] = view[q]
    /\ pc'[p] \notin {"toGarbage", "sweepLock", "delete", "removeFiles"}

LEMMA HarmlessPeriod ==
    ASSUME PeriodInv, NEW p \in Procs, Harmless(p)
    PROVE  PeriodInv'
  BY DEF PeriodInv, Harmless, fsVars

LEMMA QuitHarmless ==
    ASSUME IInv, NEW p \in Procs, Quit(p), UNCHANGED fsVars
    PROVE  Harmless(p)
  BY DEF IInv, TypeOK, Quit, Harmless

LEMMA DoneHarmless ==
    ASSUME IInv, NEW p \in Procs, DoneWith(p), UNCHANGED fsVars
    PROVE  Harmless(p)
  BY DEF IInv, TypeOK, DoneWith, Harmless

\* Commands start, look pods up, lock, walk and wait.
LEMMA LookupHarmless ==
    ASSUME IInv, NEW p \in Procs,
           \/ LockEmbryo(p) \/ LockRun(p) \/ Found(p) \/ NotHere(p) \/ RefreshGone(p)
           \/ ProbeFree(p) \/ ProbeLocked(p) \/ Unprobe(p)
           \/ WaitTest(p) \/ WaitLock(p) \/ WaitUnlock(p)
           \/ ListPods(p) \/ (\E x \in Pods : NextPod(p, x))
           \/ StartGC(p) \/ (\E S \in SUBSET Pods : StartRm(p, S))
           \/ (\E x \in Pods : \E c \in {"runPrepared", "status", "wait"} : GetPod(p, x, c))
    PROVE  Harmless(p)
<1>1. UNCHANGED fsVars
  BY DEF LockEmbryo, LockRun, Found, NotHere, RefreshGone, ProbeFree, ProbeLocked, Unprobe,
         WaitTest, WaitLock, WaitUnlock, ListPods, NextPod, StartGC, StartRm, GetPod
<1>2. \A q \in Procs \ {p} : /\ pc'[q] = pc[q] /\ cmd'[q] = cmd[q]
                             /\ pod'[q] = pod[q] /\ view'[q] = view[q]
  BY DEF IInv, TypeOK, LockEmbryo, LockRun, Found, NotHere, RefreshGone, ProbeFree, ProbeLocked,
         Unprobe, WaitTest, WaitLock, WaitUnlock, ListPods, NextPod, StartGC, StartRm, GetPod, Goto
<1>3. pc'[p] \notin {"toGarbage", "sweepLock", "delete", "removeFiles"}
  BY DEF IInv, TypeOK, LockEmbryo, LockRun, Found, NotHere, RefreshGone, ProbeFree, ProbeLocked,
         Unprobe, WaitTest, WaitLock, WaitUnlock, ListPods, NextPod, StartGC, StartRm, GetPod, Goto
<1> QED
  BY <1>1, <1>2, <1>3 DEF Harmless

\* Commands end, or go on where they do not.
LEMMA EndHarmless ==
    ASSUME IInv, NEW p \in Procs,
           \/ UnlockPrepared(p) \/ RenameLost(p) \/ NotFound(p) \/ RunPrepared(p) \/ Status(p)
           \/ WalkDone(p) \/ Reap(p) \/ Fail(p) \/ PodExit(p) \/ Kill(p)
    PROVE  Harmless(p)
<1>1. UNCHANGED fsVars
  BY DEF UnlockPrepared, RenameLost, NotFound, RunPrepared, Status, WalkDone, Reap, Fail, PodExit,
         Kill
<1>2. CASE Quit(p)
  BY <1>1, <1>2, QuitHarmless
<1>3. CASE ~Quit(p)
  <2>1. NotFound(p) \/ RunPrepared(p) \/ WalkDone(p)
    BY <1>3 DEF UnlockPrepared, RenameLost, Status, Reap, Fail, PodExit, Kill
  <2> QED
    BY <1>1, <1>3, <2>1 DEF IInv, TypeOK, NotFound, RunPrepared, WalkDone, Goto, Harmless
<1> QED
  BY <1>2, <1>3

\* A new pod, a prepared one, the start of stage1 and time do not take a period back.
LEMMA FilesPeriod ==
    ASSUME IInv, PeriodInv, NEW p \in Procs,
           \/ \E x \in Pods : \E c \in {"prepare", "run"} : NewPod(p, x, c)
           \/ Prepare(p) \/ Stage1Setup(p) \/ \E x \in Pods : Age(x)
    PROVE  PeriodInv'
<1>1. ASSUME NEW x \in Pods, NEW c \in {"prepare", "run"}, NewPod(p, x, c) PROVE PeriodInv'
  BY <1>1 DEF IInv, TypeOK, LocalInv, PeriodInv, NewPod, Goto
<1>2. CASE Prepare(p)
  BY <1>2 DEF IInv, TypeOK, LocalInv, OwnerInv, Preparing, PeriodInv, Prepare, Goto
<1>3. CASE Stage1Setup(p)
  BY <1>3 DEF PeriodInv, Stage1Setup, procVars
<1>4. ASSUME NEW x \in Pods, Age(x) PROVE PeriodInv'
  BY <1>4 DEF IInv, TypeOK, PeriodInv, Age, procVars
<1> QED
  BY <1>1, <1>2, <1>3, <1>4

\* The creator and run-prepared rename pods that no gc has compared.
LEMMA OwnerPeriod ==
    ASSUME IInv, PeriodInv, NEW p \in Procs, XToPreparing(p) \/ XToPrepared(p) \/ XToRun(p)
    PROVE  PeriodInv'
<1>1. CASE XToPreparing(p)
  BY <1>1 DEF IInv, TypeOK, LocalInv, PeriodInv, XToPreparing, Rename, Goto
<1>2. CASE XToPrepared(p)
  <2>1. dir[pod[p]] = "prepare"
    BY <1>2 DEF IInv, OwnerInv, Preparing, XToPrepared
  <2> QED
    BY <1>2, <2>1 DEF IInv, TypeOK, LocalInv, ViewInv, PeriodInv, XToPrepared, Rename, Goto
<1>3. CASE XToRun(p)
  BY <1>3 DEF IInv, TypeOK, LocalInv, PeriodInv, XToRun, Rename, Goto
<1> QED
  BY <1>1, <1>2, <1>3

\* gc and rm look at a pod: gc goes on with a pod it wants, which for two of its passes is
\* one past its period.
LEMMA VisitPeriod ==
    ASSUME IInv, PeriodInv, NEW p \in Procs, GCVisit(p) \/ RemovePod(p)
    PROVE  PeriodInv'
<1>0. UNCHANGED fsVars /\ pc[p] = "got"
  BY DEF GCVisit, RemovePod
<1>1. CASE DoneWith(p)
  BY <1>0, <1>1, DoneHarmless, HarmlessPeriod
<1>2. CASE ~DoneWith(p)
  <2>1. /\ \A q \in Procs \ {p} : pc'[q] = pc[q]
        /\ UNCHANGED <<cmd, pod, view>>
    BY <1>2 DEF IInv, TypeOK, GCVisit, RemovePod, Goto
  <2>2. CASE GCVisit(p)
    <3>1. cmd[p] \in Passes /\ InMask(cmd[p], view[p]) /\ Wanted(p) /\ pc'[p] = PassStep(cmd[p])
      BY <1>2, <2>2 DEF IInv, TypeOK, GCVisit, Goto
    <3>2. CASE cmd[p] = "renameExited"
      BY <1>0, <2>1, <3>1, <3>2 DEF PeriodInv, PassStep, fsVars
    <3>3. CASE cmd[p] = "renameAborted"
      BY <1>0, <2>1, <3>1, <3>3 DEF PeriodInv, PassStep, fsVars, Wanted
    <3>4. CASE cmd[p] = "renameExpired"
      <4>1. view[p] \in {"prepared", "exited"}
        BY <3>1, <3>4 DEF IInv, TypeOK, Views, InMask, PassDir, PathOf, MarkedViews, GarbageViews
      <4>2. aged[pod[p]]
        BY <3>1, <3>4 DEF Wanted, Expired
      <4> QED
        BY <1>0, <2>1, <3>1, <3>4, <4>1, <4>2 DEF PeriodInv, PassStep, fsVars
    <3>5. CASE cmd[p] = "emptyExitedGarbage"
      <4>1. aged[pod[p]]
        BY <3>1, <3>5 DEF Wanted, Expired
      <4> QED
        BY <1>0, <2>1, <3>1, <3>5, <4>1 DEF PeriodInv, PassStep, fsVars
    <3>6. CASE cmd[p] = "emptyGarbage"
      BY <1>0, <2>1, <3>1, <3>6 DEF PeriodInv, PassStep, fsVars
    <3> QED
      BY <3>1, <3>2, <3>3, <3>4, <3>5, <3>6 DEF Passes
  <2>3. CASE RemovePod(p)
    <3>1. cmd[p] = "rm"
      BY <2>3 DEF RemovePod
    <3> QED
      BY <1>0, <2>1, <3>1 DEF PeriodInv, fsVars
  <2> QED
    BY <2>2, <2>3
<1> QED
  BY <1>1, <1>2

\* gc and rm rename pods that are not in the directories gc compares, or that leave them.
LEMMA DiscardPeriod ==
    ASSUME IInv, PeriodInv, NEW p \in Procs, XToExitedGarbage(p) \/ XToGarbage(p)
    PROVE  PeriodInv'
<1>1. CASE UNCHANGED fsVars /\ DoneWith(p)
  BY <1>1, DoneHarmless, HarmlessPeriod
<1>2. CASE ~(UNCHANGED fsVars /\ DoneWith(p))
  <2>1. pod[p] \in Pods
    BY DEF IInv, LocalInv, XToExitedGarbage, XToGarbage
  <2>2. /\ \A q \in Procs \ {p} : /\ pc'[q] = pc[q] /\ cmd'[q] = cmd[q]
                                  /\ pod'[q] = pod[q] /\ view'[q] = view[q]
        /\ cmd[p] = "rm" => cmd'[p] = "rm"
        /\ cmd[p] # "rm" => pc'[p] = "next"
        /\ pc'[p] \in {"next", "sweepLock"}
    BY <1>2 DEF IInv, TypeOK, XToExitedGarbage, XToGarbage, Moved, DoneWith, Goto
  <2>3. CASE XToExitedGarbage(p)
    <3>1. /\ dir[pod[p]] = "run" /\ dir' = [dir EXCEPT ![pod[p]] = "exited-garbage"]
          /\ aged' = [aged EXCEPT ![pod[p]] = FALSE] /\ content' = content
      BY <1>2, <2>3 DEF XToExitedGarbage, Rename
    <3>2. \A q \in Procs : cmd[q] = "emptyExitedGarbage" => pod[q] # pod[p]
      BY <2>1, <3>1, NullAssumption DEF IInv, SweepInv, PassDir
    <3> QED
      BY <2>1, <2>2, <3>1, <3>2 DEF IInv, TypeOK, LocalInv, PeriodInv
  <2>4. CASE XToGarbage(p)
    <3>1. /\ dir' = [dir EXCEPT ![pod[p]] = "garbage"]
          /\ aged' = [aged EXCEPT ![pod[p]] = FALSE] /\ content' = content
      BY <1>2, <2>4 DEF XToGarbage, Rename
    <3> QED
      BY <2>1, <2>2, <3>1 DEF IInv, TypeOK, LocalInv, PeriodInv
  <2> QED
    BY <2>3, <2>4
<1> QED
  BY <1>1, <1>2

\* The deletion of a pod resets the ctime of that pod, whose files are gone with it.
LEMMA DeletePeriod ==
    ASSUME IInv, PeriodInv, NEW p \in Procs,
           SweepLock(p) \/ DeletePod(p) \/ RemoveFiles(p) \/ RemoveDir(p)
    PROVE  PeriodInv'
<1>0. pod[p] \in Pods
  BY DEF IInv, LocalInv, SweepLock, DeletePod, RemoveFiles, RemoveDir
<1>1. CASE SweepLock(p)
  BY <1>1 DEF IInv, TypeOK, PeriodInv, SweepLock, Goto, fsVars
<1>2. CASE DeletePod(p)
  BY <1>2 DEF IInv, TypeOK, PeriodInv, DeletePod, DoneWith, Goto
<1>3. CASE RemoveFiles(p)
  <2>1. view[p] \in MarkedViews \cup GarbageViews
    BY <1>3 DEF IInv, SweepInv, RemoveFiles
  <2>2. PathOf(view[p]) \in {"exited-garbage", "garbage"}
    BY <2>1 DEF PathOf, MarkedViews, GarbageViews
  <2>3. CASE dir[pod[p]] = PathOf(view[p])
    <3>1. /\ content' = [content EXCEPT ![pod[p]] = "removed"]
          /\ aged' = [aged EXCEPT ![pod[p]] = FALSE]
          /\ dir' = dir /\ dir[pod[p]] # "prepared"
          /\ UNCHANGED <<cmd, pod, view>>
          /\ pc' = [pc EXCEPT ![p] = "removeDir"]
      BY <1>3, <2>2, <2>3 DEF RemoveFiles, Goto
    <3> QED
      BY <1>0, <3>1 DEF IInv, TypeOK, LocalInv, PeriodInv
  <2>4. CASE dir[pod[p]] # PathOf(view[p])
    BY <1>3, <2>4 DEF IInv, TypeOK, PeriodInv, RemoveFiles, Goto
  <2> QED
    BY <2>3, <2>4
<1>4. CASE RemoveDir(p)
  BY <1>0, <1>4 DEF IInv, TypeOK, LocalInv, PeriodInv, RemoveDir, DoneWith
<1> QED
  BY <1>1, <1>2, <1>3, <1>4

\* What gc found a pod's ctime to be holds until it acts on the pod.
LEMMA PeriodInvariance == Spec => []PeriodInv
<1>1. Init => PeriodInv
  BY DEF Init, PeriodInv
<1>2. ASSUME IInv, PeriodInv, [Next]_vars PROVE PeriodInv'
  <2>1. CASE UNCHANGED vars
    BY <1>2, <2>1 DEF vars, fsVars, procVars, PeriodInv
  <2>2. ASSUME NEW x \in Pods, Age(x) PROVE PeriodInv'
    BY <1>2, <2>2 DEF IInv, TypeOK, PeriodInv, Age, procVars
  <2>3. ASSUME NEW p \in Procs, Start(p) PROVE PeriodInv'
    BY <1>2, <2>3, FilesPeriod, LookupHarmless, HarmlessPeriod DEF Start
  <2>4. ASSUME NEW p \in Procs, Step(p) PROVE PeriodInv'
    BY <1>2, <2>4, FilesPeriod, OwnerPeriod, VisitPeriod, DiscardPeriod, DeletePeriod,
       LookupHarmless, EndHarmless, HarmlessPeriod, Zenon DEF Step
  <2>5. ASSUME NEW p \in Procs, Fail(p) \/ Stage1Setup(p) \/ PodExit(p) \/ Kill(p)
        PROVE  PeriodInv'
    BY <1>2, <2>5, FilesPeriod, EndHarmless, HarmlessPeriod
  <2>6. ASSUME NEW p \in Procs, RemoveFails(p) PROVE PeriodInv'
    BY <1>2, <2>6, DoneHarmless, HarmlessPeriod DEF RemoveFails
  <2> QED
    BY <1>2, <2>1, <2>2, <2>3, <2>4, <2>5, <2>6 DEF Next
<1> QED
  BY <1>1, <1>2, Invariance, PTL DEF Spec

\* Only RemoveAll of deletePod takes files away.
LEMMA ContentStep ==
    ASSUME IInv, [Next]_vars, NEW x \in Pods, content[x] # "removed", content'[x] = "removed"
    PROVE  \E p \in Procs : RemoveFiles(p)
<1>1. ASSUME NEW p \in Procs, Harmless(p) PROVE FALSE
  BY <1>1 DEF Harmless, fsVars
<1>2. CASE UNCHANGED vars
  BY <1>2 DEF vars, fsVars
<1>3. ASSUME NEW p \in Procs, Start(p) PROVE FALSE
  BY <1>3 DEF Start, NewPod, GetPod, StartGC, StartRm, fsVars
<1>4. ASSUME NEW p \in Procs,
             \/ XToPreparing(p) \/ XToPrepared(p) \/ XToRun(p) \/ XToExitedGarbage(p) \/ XToGarbage(p)
             \/ GCVisit(p) \/ RemovePod(p) \/ SweepLock(p) \/ DeletePod(p) \/ RemoveDir(p)
             \/ RemoveFails(p) \/ Stage1Setup(p)
      PROVE  FALSE
  BY <1>4 DEF XToPreparing, XToPrepared, XToRun, XToExitedGarbage, XToGarbage, Rename, GCVisit,
       RemovePod, SweepLock, DeletePod, RemoveDir, RemoveFails, Stage1Setup, fsVars
<1>5. ASSUME NEW p \in Procs, Prepare(p) PROVE FALSE
  BY <1>5 DEF IInv, TypeOK, Prepare
<1>6. ASSUME NEW y \in Pods, Age(y) PROVE FALSE
  BY <1>6 DEF Age
<1> QED
  BY <1>1, <1>2, <1>3, <1>4, <1>5, <1>6, LookupHarmless, EndHarmless, Zenon DEF Next, Step

\* Only xToGarbage moves a pod to the garbage directory.
LEMMA GarbageStep ==
    ASSUME IInv, [Next]_vars, NEW x \in Pods, dir[x] # "garbage", dir'[x] = "garbage"
    PROVE  \E p \in Procs : XToGarbage(p)
<1>1. ASSUME NEW p \in Procs, Harmless(p) PROVE FALSE
  BY <1>1 DEF Harmless, fsVars
<1>2. CASE UNCHANGED vars
  BY <1>2 DEF vars, fsVars
<1>3. ASSUME NEW p \in Procs, Start(p) PROVE FALSE
  BY <1>3 DEF IInv, TypeOK, Start, NewPod, GetPod, StartGC, StartRm, fsVars
<1>4. ASSUME NEW p \in Procs,
             XToPreparing(p) \/ XToPrepared(p) \/ XToRun(p) \/ XToExitedGarbage(p) \/ RemoveDir(p)
      PROVE  FALSE
  BY <1>4 DEF IInv, TypeOK, XToPreparing, XToPrepared, XToRun, XToExitedGarbage, Rename, RemoveDir,
       fsVars
<1>5. ASSUME NEW p \in Procs,
             \/ Prepare(p) \/ GCVisit(p) \/ RemovePod(p) \/ SweepLock(p) \/ DeletePod(p)
             \/ RemoveFiles(p) \/ RemoveFails(p) \/ Stage1Setup(p)
      PROVE  FALSE
  BY <1>5 DEF Prepare, GCVisit, RemovePod, SweepLock, DeletePod, RemoveFiles, RemoveFails,
       Stage1Setup, fsVars
<1>6. ASSUME NEW y \in Pods, Age(y) PROVE FALSE
  BY <1>6 DEF Age
<1> QED
  BY <1>1, <1>2, <1>3, <1>4, <1>5, <1>6, LookupHarmless, EndHarmless, Zenon DEF Next, Step

\* gc removes the files of a marked pod only if its grace period has passed since it was marked,
\* although it waits for a lock between the comparison and the removal.
THEOREM GraceIsHonoured == Spec => GraceHonoured
<1>1. ASSUME IInv, PeriodInv, [Next]_vars
      PROVE  [\A x \in Pods :
                dir[x] = "exited-garbage" /\ content[x] = "full" /\ content'[x] = "removed" =>
                    aged[x] \/ \E p \in Procs : Deleting(p, x) /\ cmd[p] = "rm"]_content
  <2> SUFFICES ASSUME NEW x \in Pods, dir[x] = "exited-garbage", content[x] = "full",
                      content'[x] = "removed"
               PROVE  aged[x] \/ \E p \in Procs : Deleting(p, x) /\ cmd[p] = "rm"
    OBVIOUS
  <2>1. PICK p \in Procs : RemoveFiles(p)
    BY <1>1, ContentStep
  <2>2. pod[p] = x
    BY <1>1, <2>1 DEF IInv, TypeOK, RemoveFiles
  <2>3. pc[p] = "removeFiles"
    BY <2>1 DEF RemoveFiles
  <2>4. cmd[p] # "emptyGarbage"
    BY <1>1, <2>2, NullAssumption DEF IInv, SweepInv, PassDir
  <2> QED
    BY <1>1, <2>2, <2>3, <2>4 DEF PeriodInv, Deleting
<1> QED
  BY <1>1, Invariance, PeriodInvariance, PTL DEF Spec, GraceHonoured

\* gc discards a prepared pod only after its expiration.
THEOREM ExpirationIsHonoured == Spec => ExpirationHonoured
<1>1. ASSUME IInv, PeriodInv, [Next]_vars
      PROVE  [\A x \in Pods :
                dir[x] = "prepared" /\ dir'[x] = "garbage" =>
                    aged[x] \/ \E p \in Procs : pod[p] = x /\ cmd[p] = "rm"]_dir
  <2> SUFFICES ASSUME NEW x \in Pods, dir[x] = "prepared", dir'[x] = "garbage"
               PROVE  aged[x] \/ \E p \in Procs : pod[p] = x /\ cmd[p] = "rm"
    OBVIOUS
  <2>1. PICK p \in Procs : XToGarbage(p)
    BY <1>1, GarbageStep
  <2>2. pod[p] = x /\ view[p] \in {"abortedPrepare", "prepared"} /\ dir[x] = PathOf(view[p])
    BY <1>1, <2>1 DEF IInv, TypeOK, XToGarbage, Rename, fsVars
  <2>3. pc[p] = "toGarbage" /\ view[p] # "abortedPrepare"
    BY <2>1, <2>2 DEF XToGarbage, PathOf, MarkedViews, GarbageViews
  <2> QED
    BY <1>1, <2>2, <2>3 DEF PeriodInv
<1> QED
  BY <1>1, Invariance, PeriodInvariance, PTL DEF Spec, ExpirationHonoured
====
