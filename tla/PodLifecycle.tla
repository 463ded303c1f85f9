----------------------------- MODULE PodLifecycle -----------------------------
(***************************************************************************)
(* The life of rkt pods on disk (rkt/pods.go, rkt/gc.go, rkt/rm.go and the  *)
(* commands that drive them).  rkt has no daemon: a pod is a directory that  *)
(* is renamed from one parent directory to the next, and an flock(2) on it   *)
(* says whether the process of its current phase is alive.  Every rkt        *)
(* command is a process here, and every system call that another process can *)
(* see is one action: an open(2) of one parent directory, a flock, a rename, *)
(* a removal.  A process may be killed between any two of them.              *)
(*                                                                           *)
(* A pod's UUID is never reused, so a pod and its directory's inode are the  *)
(* same thing and a file descriptor is the pod it was opened on.             *)
(***************************************************************************)
EXTENDS Naturals, FiniteSets

CONSTANTS
    Pods,        \* UUIDs that newPod may draw
    Procs,       \* rkt processes
    NoPod,       \* "no pod"
    NoProc,      \* "no process"
    UserCommands, \* the commands users and timers enter
    MaxKills     \* bound on processes killed before they end by themselves and removals that fail

ASSUME NullAssumption == NoPod \notin Pods /\ NoProc \notin Procs
ASSUME KillAssumption == MaxKills \in Nat
ASSUME UserCommandsAssumption ==
    UserCommands \subseteq {"prepare", "run", "runPrepared", "status", "wait", "gc", "rm"}

VARIABLES
    dir,         \* dir[x]: the parent directory pod x is in
    content,     \* content[x]: "none" until prepared; "full"; "removed" once stage1ID is unlinked
    aged,        \* aged[x]: x's ctime is older than the period gc compares it with
    uncollected, \* uncollected[x]: stage1 ran in x and its gc entrypoint has not succeeded since
    ex,          \* ex[x]: the process with the exclusive flock on x
    sh,          \* sh[x]: the processes with a shared flock on x
    pc,          \* pc[p]: where process p is
    cmd,         \* cmd[p]: the command p executes; for gc, the pass it is in
    pod,         \* pod[p]: the pod p works on, on which it has a descriptor
    view,        \* view[p]: the cached is* flags of p's pod struct
    scan,        \* scan[p]: the directory getPod or refreshState looks into next
    todo,        \* todo[p]: pods a walk or rm has still to visit
    kills        \* processes killed and removals failed so far

fsVars   == <<dir, content, aged, uncollected>>
lockVars == <<ex, sh>>
procVars == <<pc, cmd, pod, view, scan, todo>>
vars     == <<fsVars, lockVars, procVars, kills>>

-----------------------------------------------------------------------------
(* Phases, cached views and commands.                                       *)

\* Mutant: "prepared" is looked into before "prepare".
DirOrderSwapped == <<"embryo", "prepared", "prepare", "run", "exited-garbage", "garbage">>

\* Parent directories in the order getPod and refreshState look into them.
DirOrder == <<"embryo", "prepare", "prepared", "run", "exited-garbage", "garbage">>

Dirs == {"embryo", "prepare", "prepared", "run", "exited-garbage", "garbage"}

\* The position of a directory in a pod's life; "none" and "gone" are outside the disk.
Rank(d) == CASE d = "none" -> 0
             [] d = "embryo" -> 1
             [] d = "prepare" -> 2
             [] d = "prepared" -> 3
             [] d = "run" -> 4
             [] d = "exited-garbage" -> 5
             [] d = "garbage" -> 6
             [] d = "gone" -> 7

\* What the is* flags of a pod struct say together.
Views == {"none", "embryo", "preparing", "abortedPrepare", "prepared", "running", "exited",
          "exitedGarbage", "exitedDeleting", "garbage", "deleting", "gone"}

ExitedViews  == {"exited", "exitedGarbage", "exitedDeleting"}      \* isExited
MarkedViews  == {"exitedGarbage", "exitedDeleting"}                \* isExitedGarbage
GarbageViews == {"garbage", "deleting"}                            \* isGarbage

\* The directory p.path() names for a view.
PathOf(v) == CASE v = "embryo" -> "embryo"
               [] v \in {"preparing", "abortedPrepare"} -> "prepare"
               [] v = "prepared" -> "prepared"
               [] v \in {"running", "exited"} -> "run"
               [] v \in MarkedViews -> "exited-garbage"
               [] v \in GarbageViews -> "garbage"
               [] v \in {"none", "gone"} -> "nowhere"

\* The view of a pod found in directory d when its exclusive lock is free, and when it is taken.
UnlockedView(d) == CASE d = "embryo" -> "embryo"
                     [] d = "prepare" -> "abortedPrepare"
                     [] d = "prepared" -> "prepared"
                     [] d = "run" -> "exited"
                     [] d = "exited-garbage" -> "exitedGarbage"
                     [] d = "garbage" -> "garbage"

\* Mutant: a locked pod in the run directory still counts as exited.
LockedViewExited(v) == CASE v \in MarkedViews -> "exitedDeleting"
                         [] v = "abortedPrepare" -> "preparing"
                         [] v \in GarbageViews -> "deleting"
                         [] OTHER -> v

\* Mutant: a locked pod in the prepare directory still counts as aborted.
LockedViewAborted(v) == CASE v \in MarkedViews -> "exitedDeleting"
                          [] v = "exited" -> "running"
                          [] v \in GarbageViews -> "deleting"
                          [] OTHER -> v

LockedView(v) == CASE v \in MarkedViews -> "exitedDeleting"
                   [] v = "exited" -> "running"
                   [] v = "abortedPrepare" -> "preparing"
                   [] v \in GarbageViews -> "deleting"
                   [] OTHER -> v

\* The passes of runGC, in order, the directory each walks and what it does with a wanted pod.
Passes == {"renameExited", "renameAborted", "renameExpired", "emptyExitedGarbage", "emptyGarbage"}

\* Mutant: gc ends without emptyGarbage.
NextPassShort(c) == CASE c = "renameExited" -> "renameAborted"
                      [] c = "renameAborted" -> "renameExpired"
                      [] c = "renameExpired" -> "emptyExitedGarbage"
                      [] OTHER -> "none"

NextPass(c) == CASE c = "renameExited" -> "renameAborted"
                 [] c = "renameAborted" -> "renameExpired"
                 [] c = "renameExpired" -> "emptyExitedGarbage"
                 [] c = "emptyExitedGarbage" -> "emptyGarbage"
                 [] OTHER -> "none"

PassDir(c) == CASE c = "renameExited" -> "run"
                [] c = "renameAborted" -> "prepare"
                [] c = "renameExpired" -> "prepared"
                [] c = "emptyExitedGarbage" -> "exited-garbage"
                [] OTHER -> "garbage"

PassStep(c) == CASE c = "renameExited" -> "mark"
                 [] c \in {"renameAborted", "renameExpired"} -> "toGarbage"
                 [] OTHER -> "sweepLock"

Commands == {"none", "prepare", "run", "runPrepared", "status", "wait", "rm"} \cup Passes

Control == {"idle", "lockEmbryo", "toPreparing", "prepare", "toPrepared", "unlockPrepared",
            "lockRun", "toRun", "running", "open", "refresh", "probe", "unprobe", "got",
            "list", "next", "toGarbage", "mark", "sweepLock", "delete", "removeFiles",
            "removeDir", "waitLock", "waitUnlock", "waited", "panicked"}

TypeOK ==
    /\ dir \in [Pods -> Dirs \cup {"none", "gone"}]
    /\ content \in [Pods -> {"none", "full", "removed"}]
    /\ aged \in [Pods -> BOOLEAN]
    /\ uncollected \in [Pods -> BOOLEAN]
    /\ ex \in [Pods -> Procs \cup {NoProc}]
    /\ sh \in [Pods -> SUBSET Procs]
    /\ pc \in [Procs -> Control]
    /\ cmd \in [Procs -> Commands]
    /\ pod \in [Procs -> Pods \cup {NoPod}]
    /\ view \in [Procs -> Views]
    /\ scan \in [Procs -> 1..6]
    /\ todo \in [Procs -> SUBSET Pods]
    /\ kills \in 0..MaxKills

Init ==
    /\ dir = [x \in Pods |-> "none"]
    /\ content = [x \in Pods |-> "none"]
    /\ aged = [x \in Pods |-> FALSE]
    /\ uncollected = [x \in Pods |-> FALSE]
    /\ ex = [x \in Pods |-> NoProc]
    /\ sh = [x \in Pods |-> {}]
    /\ pc = [p \in Procs |-> "idle"]
    /\ cmd = [p \in Procs |-> "none"]
    /\ pod = [p \in Procs |-> NoPod]
    /\ view = [p \in Procs |-> "none"]
    /\ scan = [p \in Procs |-> 1]
    /\ todo = [p \in Procs |-> {}]
    /\ kills = 0

-----------------------------------------------------------------------------
(* flock(2), rename(2), exit(2).                                             *)

\* A blocking LOCK_EX returns once no other process has the pod locked.
CanLockExclusive(p, x) == ex[x] \in {NoProc, p} /\ sh[x] \subseteq {p}

CanLockShared(p, x) == ex[x] \in {NoProc, p}

\* A rename(2) that succeeds: pod x is where the caller's path says, and its ctime is set.
Rename(x, from, to) ==
    /\ dir[x] = from
    /\ dir' = [dir EXCEPT ![x] = to]
    /\ aged' = [aged EXCEPT ![x] = FALSE]
    /\ UNCHANGED <<content, uncollected>>

\* The process ends: the kernel closes its descriptors and with them its flocks.
Quit(p) ==
    /\ pc' = [pc EXCEPT ![p] = "idle"]
    /\ cmd' = [cmd EXCEPT ![p] = "none"]
    /\ pod' = [pod EXCEPT ![p] = NoPod]
    /\ view' = [view EXCEPT ![p] = "none"]
    /\ scan' = [scan EXCEPT ![p] = 1]
    /\ todo' = [todo EXCEPT ![p] = {}]
    /\ ex' = [x \in Pods |-> IF ex[x] = p THEN NoProc ELSE ex[x]]
    /\ sh' = [x \in Pods |-> sh[x] \ {p}]

Goto(p, l) == pc' = [pc EXCEPT ![p] = l]

-----------------------------------------------------------------------------
(* newPod and the pod's creator: rkt prepare and rkt run.                    *)

\* newPod: mkdir in the embryo directory and open the new directory.
NewPod(p, x, c) ==
    /\ pc[p] = "idle"
    /\ dir[x] = "none"
    /\ dir' = [dir EXCEPT ![x] = "embryo"]
    /\ cmd' = [cmd EXCEPT ![p] = c]
    /\ pod' = [pod EXCEPT ![p] = x]
    /\ view' = [view EXCEPT ![p] = "embryo"]
    /\ Goto(p, "lockEmbryo")
    /\ UNCHANGED <<content, aged, uncollected, lockVars, scan, todo, kills>>

\* xToPreparing, first half: ExclusiveLock on the embryo.
LockEmbryo(p) ==
    /\ pc[p] = "lockEmbryo"
    /\ CanLockExclusive(p, pod[p])
    /\ ex' = [ex EXCEPT ![pod[p]] = p]
    /\ Goto(p, "toPreparing")
    /\ UNCHANGED <<fsVars, sh, cmd, pod, view, scan, todo, kills>>

\* xToPreparing, second half: rename embryo -> prepare.
XToPreparing(p) ==
    /\ pc[p] = "toPreparing"
    /\ Rename(pod[p], "embryo", "prepare")
    /\ view' = [view EXCEPT ![p] = "preparing"]
    /\ Goto(p, "prepare")
    /\ UNCHANGED <<lockVars, cmd, pod, scan, todo, kills>>

\* stage0.Prepare succeeds: the pod's files, stage1ID among them, are in place.
\* (A failure ends the command: see Fail.)
Prepare(p) ==
    /\ pc[p] = "prepare"
    /\ content' = [content EXCEPT ![pod[p]] = "full"]
    /\ Goto(p, IF cmd[p] = "prepare" THEN "toPrepared" ELSE "lockRun")
    /\ UNCHANGED <<dir, aged, uncollected, lockVars, cmd, pod, view, scan, todo, kills>>

\* xToPrepared renames first ...
XToPrepared(p) ==
    /\ pc[p] = "toPrepared"
    /\ Rename(pod[p], PathOf(view[p]), "prepared")
    /\ Goto(p, "unlockPrepared")
    /\ UNCHANGED <<lockVars, cmd, pod, view, scan, todo, kills>>

\* ... and unlocks then; the command prints the UUID and ends.
UnlockPrepared(p) ==
    /\ pc[p] = "unlockPrepared"
    /\ Quit(p)
    /\ UNCHANGED <<fsVars, kills>>

\* An error return before the pod is prepared: stage0.Prepare, or the sync after it, fails.
Fail(p) ==
    /\ pc[p] \in {"prepare", "toPrepared"}
    /\ Quit(p)
    /\ UNCHANGED <<fsVars, kills>>

-----------------------------------------------------------------------------
(* xToRun, for the creator of the pod (rkt run) and for rkt run-prepared.    *)

\* Mutant: xToRun renames without the lock.
LockRunForgotten(p) ==
    /\ pc[p] = "lockRun"
    /\ Goto(p, "toRun")
    /\ UNCHANGED <<fsVars, lockVars, cmd, pod, view, scan, todo, kills>>

\* xToRun, first half: a blocking ExclusiveLock, idempotent for the creator.
LockRun(p) ==
    /\ pc[p] = "lockRun"
    /\ CanLockExclusive(p, pod[p])
    /\ ex' = [ex EXCEPT ![pod[p]] = p]
    /\ Goto(p, "toRun")
    /\ UNCHANGED <<fsVars, sh, cmd, pod, view, scan, todo, kills>>

\* Mutant: the pod is taken from where it is now.
XToRunAnyhow(p) ==
    /\ pc[p] = "toRun"
    /\ Rename(pod[p], dir[pod[p]], "run")
    /\ view' = [view EXCEPT ![p] = "running"]
    /\ Goto(p, "running")
    /\ UNCHANGED <<lockVars, cmd, pod, scan, todo, kills>>

\* xToRun, second half: rename p.path() -> run, and stage0.Run execs stage1 with the lock's descriptor.
XToRun(p) ==
    /\ pc[p] = "toRun"
    /\ Rename(pod[p], PathOf(view[p]), "run")
    /\ view' = [view EXCEPT ![p] = "running"]
    /\ Goto(p, "running")
    /\ UNCHANGED <<lockVars, cmd, pod, scan, todo, kills>>

\* A rename of prepare, run or run-prepared fails because the pod is not at p.path() any more:
\* the command ends.
RenameLost(p) ==
    /\ pc[p] \in {"toPreparing", "toPrepared", "toRun"}
    /\ dir[pod[p]] # PathOf(view[p])
    /\ Quit(p)
    /\ UNCHANGED <<fsVars, kills>>

\* stage1's init begins in the pod: from now on its gc entrypoint has something to collect.
Stage1Setup(p) ==
    /\ pc[p] = "running"
    /\ ~uncollected[pod[p]]
    /\ uncollected' = [uncollected EXCEPT ![pod[p]] = TRUE]
    /\ UNCHANGED <<dir, content, aged, lockVars, procVars, kills>>

\* The pod's process ends.
PodExit(p) ==
    /\ pc[p] = "running"
    /\ Quit(p)
    /\ UNCHANGED <<fsVars, kills>>

-----------------------------------------------------------------------------
(* getPod and refreshState.                                                  *)

Listed == {x \in Pods : dir[x] \in {"prepare", "prepared", "run", "exited-garbage"}}

\* runRunPrepared, runStatus: resolveUUID finds the pod, getPod starts.
GetPod(p, x, c) ==
    /\ pc[p] = "idle"
    /\ x \in Listed
    /\ cmd' = [cmd EXCEPT ![p] = c]
    /\ pod' = [pod EXCEPT ![p] = x]
    /\ Goto(p, "open")
    /\ UNCHANGED <<fsVars, lockVars, view, scan, todo, kills>>

\* One open (getPod) or stat (refreshState) finds the pod in directory scan[p].
\* Locks mean nothing in embryo and prepared: only elsewhere is the lock probed.
Found(p) ==
    /\ pc[p] \in {"open", "refresh"}
    /\ dir[pod[p]] = DirOrder[scan[p]]
    /\ view' = [view EXCEPT ![p] = UnlockedView(dir[pod[p]])]
    /\ scan' = [scan EXCEPT ![p] = 1]
    /\ Goto(p, IF dir[pod[p]] \in {"embryo", "prepared"} THEN "got" ELSE "probe")
    /\ UNCHANGED <<fsVars, lockVars, cmd, pod, todo, kills>>

\* ... or does not, and the next directory is tried.
NotHere(p) ==
    /\ pc[p] \in {"open", "refresh"}
    /\ dir[pod[p]] # DirOrder[scan[p]]
    /\ scan[p] < 6
    /\ scan' = [scan EXCEPT ![p] = scan[p] + 1]
    /\ UNCHANGED <<fsVars, lockVars, pc, cmd, pod, view, todo, kills>>

\* Not found anywhere.  getPod fails: a walk skips the pod, run-prepared and status end,
\* and runRm goes on to removePod with a nil pod.
NotFound(p) ==
    /\ pc[p] = "open"
    /\ dir[pod[p]] # DirOrder[scan[p]]
    /\ scan[p] = 6
    /\ \/ /\ cmd[p] \in {"runPrepared", "status", "wait"}
          /\ Quit(p)
       \/ /\ cmd[p] \in Passes \cup {"rm"}
          /\ scan' = [scan EXCEPT ![p] = 1]
          /\ pod' = [pod EXCEPT ![p] = NoPod]
          /\ Goto(p, IF cmd[p] = "rm" THEN "panicked" ELSE "next")
          /\ UNCHANGED <<lockVars, cmd, view, todo>>
    /\ UNCHANGED <<fsVars, kills>>

\* Mutant: refreshState leaves all flags of a missing pod clear.
RefreshForgetsGone(p) ==
    /\ pc[p] = "refresh"
    /\ dir[pod[p]] # DirOrder[scan[p]]
    /\ scan[p] = 6
    /\ scan' = [scan EXCEPT ![p] = 1]
    /\ Goto(p, "got")
    /\ UNCHANGED <<fsVars, lockVars, cmd, pod, view, todo, kills>>

\* refreshState records a pod it finds nowhere as gone.
RefreshGone(p) ==
    /\ pc[p] = "refresh"
    /\ dir[pod[p]] # DirOrder[scan[p]]
    /\ scan[p] = 6
    /\ scan' = [scan EXCEPT ![p] = 1]
    /\ view' = [view EXCEPT ![p] = "gone"]
    /\ Goto(p, "got")
    /\ UNCHANGED <<fsVars, lockVars, cmd, pod, todo, kills>>

\* TrySharedLock succeeds: the pod is not busy, and is locked shared until Unprobe.
ProbeFree(p) ==
    /\ pc[p] = "probe"
    /\ CanLockShared(p, pod[p])
    /\ sh' = [sh EXCEPT ![pod[p]] = @ \cup {p}]
    /\ Goto(p, "unprobe")
    /\ UNCHANGED <<fsVars, ex, cmd, pod, view, scan, todo, kills>>

\* TrySharedLock returns ErrLocked: a process is at work on the pod.
ProbeLocked(p) ==
    /\ pc[p] = "probe"
    /\ ~CanLockShared(p, pod[p])
    /\ view' = [view EXCEPT ![p] = LockedView(view[p])]
    /\ Goto(p, "got")
    /\ UNCHANGED <<fsVars, lockVars, cmd, pod, scan, todo, kills>>

Unprobe(p) ==
    /\ pc[p] = "unprobe"
    /\ sh' = [sh EXCEPT ![pod[p]] = @ \ {p}]
    /\ Goto(p, "got")
    /\ UNCHANGED <<fsVars, ex, cmd, pod, view, scan, todo, kills>>

-----------------------------------------------------------------------------
(* What run-prepared and status do with the pod they got.                    *)

\* runRunPrepared refuses a pod that is not prepared (and, with --interactive, one of several
\* apps), and calls xToRun otherwise.
RunPrepared(p) ==
    /\ pc[p] = "got"
    /\ cmd[p] = "runPrepared"
    /\ \/ Quit(p)
       \/ /\ view[p] = "prepared"
          /\ Goto(p, "lockRun")
          /\ UNCHANGED <<lockVars, cmd, pod, view, scan, todo>>
    /\ UNCHANGED <<fsVars, kills>>

\* runStatus prints the state and ends; with --wait, once waitExited has returned.
Status(p) ==
    /\ \/ pc[p] = "got" /\ cmd[p] = "status"
       \/ pc[p] = "waited"
    /\ Quit(p)
    /\ UNCHANGED <<fsVars, kills>>

\* waitExited's loop condition.
WaitTest(p) ==
    /\ pc[p] = "got"
    /\ cmd[p] = "wait"
    /\ Goto(p, IF view[p] \in ExitedViews \cup GarbageViews \cup {"abortedPrepare", "gone"}
               THEN "waited" ELSE "waitLock")
    /\ UNCHANGED <<fsVars, lockVars, cmd, pod, view, scan, todo, kills>>

\* SharedLock blocks while the pod is being prepared, run or deleted.
WaitLock(p) ==
    /\ pc[p] = "waitLock"
    /\ CanLockShared(p, pod[p])
    /\ sh' = [sh EXCEPT ![pod[p]] = @ \cup {p}]
    /\ Goto(p, "waitUnlock")
    /\ UNCHANGED <<fsVars, ex, cmd, pod, view, scan, todo, kills>>

\* Unlock, and refreshState clears the flags before it looks for the pod again.
WaitUnlock(p) ==
    /\ pc[p] = "waitUnlock"
    /\ sh' = [sh EXCEPT ![pod[p]] = @ \ {p}]
    /\ view' = [view EXCEPT ![p] = "none"]
    /\ Goto(p, "refresh")
    /\ UNCHANGED <<fsVars, ex, cmd, pod, scan, todo, kills>>

-----------------------------------------------------------------------------
(* rkt gc: five passes, each a walkPods over one directory.                  *)

StartGC(p) ==
    /\ pc[p] = "idle"
    /\ cmd' = [cmd EXCEPT ![p] = "renameExited"]
    /\ Goto(p, "list")
    /\ UNCHANGED <<fsVars, lockVars, pod, view, scan, todo, kills>>

\* listPods: the UUIDs in the pass's directory.
ListPods(p) ==
    /\ pc[p] = "list"
    /\ todo' = [todo EXCEPT ![p] = {x \in Pods : dir[x] = PassDir(cmd[p])}]
    /\ Goto(p, "next")
    /\ UNCHANGED <<fsVars, lockVars, cmd, pod, view, scan, kills>>

\* The loop of walkPods and of runRm: getPod on the next UUID.
NextPod(p, x) ==
    /\ pc[p] = "next"
    /\ x \in todo[p]
    /\ todo' = [todo EXCEPT ![p] = @ \ {x}]
    /\ pod' = [pod EXCEPT ![p] = x]
    /\ Goto(p, "open")
    /\ UNCHANGED <<fsVars, lockVars, cmd, view, scan, kills>>

\* The loop ends: gc starts its next pass, gc's last pass and rm end the process.
WalkDone(p) ==
    /\ pc[p] = "next"
    /\ todo[p] = {}
    /\ \/ /\ NextPass(cmd[p]) # "none"
          /\ cmd' = [cmd EXCEPT ![p] = NextPass(cmd[p])]
          /\ Goto(p, "list")
          /\ UNCHANGED <<lockVars, pod, view, scan, todo>>
       \/ /\ NextPass(cmd[p]) = "none"
          /\ Quit(p)
    /\ UNCHANGED <<fsVars, kills>>

\* walkPods calls f unless the pod is in an unrequested state by now.  Its test knows no
\* flag for a pod that is in the run directory and has exited: such a pod always passes.
InMask(c, v) == PathOf(v) = PassDir(c) \/ v = "exited"

\* Mutant: the ctime is not compared.
ExpiredAtOnce(p) == dir[pod[p]] = PathOf(view[p])

\* Lstat of p.path() and the comparison of its ctime with the period.
Expired(p) == dir[pod[p]] = PathOf(view[p]) /\ aged[pod[p]]

\* The test each pass makes before it acts on a pod.
Wanted(p) == CASE cmd[p] = "renameExited" -> view[p] \in ExitedViews
               [] cmd[p] = "renameAborted" -> view[p] = "abortedPrepare"
               [] cmd[p] \in {"renameExpired", "emptyExitedGarbage"} -> Expired(p)
               [] OTHER -> TRUE

\* Back to the loop: walkPods closes the pod, which unlocks it; runRm never closes one,
\* and keeps the lock of a pod it deleted until the process ends.
DoneWith(p) ==
    /\ pc' = [pc EXCEPT ![p] = "next"]
    /\ pod' = [pod EXCEPT ![p] = NoPod]
    /\ view' = [view EXCEPT ![p] = "none"]
    /\ ex' = IF cmd[p] \in Passes /\ ex[pod[p]] = p THEN [ex EXCEPT ![pod[p]] = NoProc] ELSE ex
    /\ UNCHANGED <<sh, cmd, scan, todo>>

GCVisit(p) ==
    /\ pc[p] = "got"
    /\ cmd[p] \in Passes
    /\ IF InMask(cmd[p], view[p]) /\ Wanted(p)
       THEN Goto(p, PassStep(cmd[p])) /\ UNCHANGED <<lockVars, cmd, pod, view, scan, todo>>
       ELSE DoneWith(p)
    /\ UNCHANGED <<fsVars, kills>>

-----------------------------------------------------------------------------
(* rkt rm.                                                                   *)

\* runRm: its arguments are resolved against the listed pods; --uuid-file names one pod,
\* in whatever state it is since newPod returned it.
StartRm(p, S) ==
    /\ pc[p] = "idle"
    /\ S # {}
    /\ \/ S \subseteq Listed
       \/ \E x \in Pods : S = {x} /\ dir[x] \in {"garbage", "gone"}
    /\ cmd' = [cmd EXCEPT ![p] = "rm"]
    /\ todo' = [todo EXCEPT ![p] = S]
    /\ Goto(p, "next")
    /\ UNCHANGED <<fsVars, lockVars, pod, view, scan, kills>>

\* Mutant: removePod does not refuse a pod that is being deleted.
RemoveBusyPod(p) ==
    /\ pc[p] = "got"
    /\ cmd[p] = "rm"
    /\ \/ view[p] \in {"running", "embryo", "preparing"} /\ DoneWith(p)
       \/ /\ view[p] \notin {"running", "embryo", "preparing"}
          /\ Goto(p, CASE view[p] \in {"abortedPrepare", "prepared"} -> "toGarbage"
                       [] view[p] = "exited" -> "mark"
                       [] OTHER -> "sweepLock")
          /\ UNCHANGED <<lockVars, cmd, pod, view, scan, todo>>
    /\ UNCHANGED <<fsVars, kills>>

\* removePod's switch.  isExited holds of a marked pod too, and its case comes first.
RemovePod(p) ==
    /\ pc[p] = "got"
    /\ cmd[p] = "rm"
    /\ \/ /\ view[p] \in {"running", "embryo", "preparing", "exitedDeleting", "deleting"}
          /\ DoneWith(p)
       \/ /\ view[p] \in {"abortedPrepare", "prepared", "exited", "exitedGarbage", "garbage"}
          /\ Goto(p, CASE view[p] \in {"abortedPrepare", "prepared"} -> "toGarbage"
                       [] view[p] \in ExitedViews -> "mark"
                       [] OTHER -> "sweepLock")
          /\ UNCHANGED <<lockVars, cmd, pod, view, scan, todo>>
    /\ UNCHANGED <<fsVars, kills>>

-----------------------------------------------------------------------------
(* The transitions and the deletion gc and rm share.                         *)

\* Mutant: the flags are not updated after the rename.
MovedSameFlags(p, v) ==
    IF cmd[p] = "rm"
    THEN Goto(p, "sweepLock") /\ UNCHANGED <<lockVars, cmd, pod, view, scan, todo>>
    ELSE DoneWith(p)

\* After a transition gc is done with the pod and rm locks it for deletion.
Moved(p, v) ==
    IF cmd[p] = "rm"
    THEN /\ view' = [view EXCEPT ![p] = v]
         /\ Goto(p, "sweepLock")
         /\ UNCHANGED <<lockVars, cmd, pod, scan, todo>>
    ELSE DoneWith(p)

\* xToExitedGarbage: rename run -> exited-garbage of an exited, unmarked pod, without its lock.
XToExitedGarbage(p) ==
    /\ pc[p] = "mark"
    /\ IF view[p] = "exited" /\ dir[pod[p]] = "run"
       THEN Rename(pod[p], "run", "exited-garbage") /\ Moved(p, "exitedGarbage")
       ELSE DoneWith(p) /\ UNCHANGED fsVars
    /\ UNCHANGED kills

\* xToGarbage: rename p.path() -> garbage of an aborted or prepared pod, without its lock.
XToGarbage(p) ==
    /\ pc[p] = "toGarbage"
    /\ IF view[p] \in {"abortedPrepare", "prepared"} /\ dir[pod[p]] = PathOf(view[p])
       THEN Rename(pod[p], PathOf(view[p]), "garbage") /\ Moved(p, "garbage")
       ELSE DoneWith(p) /\ UNCHANGED fsVars
    /\ UNCHANGED kills

\* Mutant: the lock is not waited for.
SweepLockIgnored(p) ==
    /\ pc[p] = "sweepLock"
    /\ Goto(p, "delete")
    /\ UNCHANGED <<fsVars, lockVars, cmd, pod, view, scan, todo, kills>>

\* The blocking ExclusiveLock in front of deletePod.
SweepLock(p) ==
    /\ pc[p] = "sweepLock"
    /\ CanLockExclusive(p, pod[p])
    /\ ex' = [ex EXCEPT ![pod[p]] = p]
    /\ Goto(p, "delete")
    /\ UNCHANGED <<fsVars, sh, cmd, pod, view, scan, todo, kills>>

\* Mutant: stage1's gc entrypoint is not run.
DeletePodWithoutGC(p) ==
    /\ pc[p] = "delete"
    /\ Goto(p, "removeFiles")
    /\ UNCHANGED <<fsVars, lockVars, cmd, pod, view, scan, todo, kills>>

\* deletePod up to RemoveAll.  It panics on a pod that is not garbage.  For a pod that ran,
\* it reads stage1ID through the lock's descriptor, runs stage1's gc entrypoint and unmounts the
\* overlays, and gives up if one of them fails.
DeletePod(p) ==
    /\ pc[p] = "delete"
    /\ \/ /\ view[p] \in MarkedViews
          /\ content[pod[p]] = "full"
          /\ uncollected' = [uncollected EXCEPT ![pod[p]] = FALSE]
          /\ Goto(p, "removeFiles")
          /\ UNCHANGED <<lockVars, cmd, pod, view, scan, todo>>
       \/ /\ view[p] \in MarkedViews
          /\ DoneWith(p)
          /\ \/ UNCHANGED uncollected
             \/ /\ content[pod[p]] = "full"
                /\ uncollected' = [uncollected EXCEPT ![pod[p]] = FALSE]
       \/ /\ view[p] \notin MarkedViews
          /\ Goto(p, IF view[p] \in GarbageViews THEN "removeFiles" ELSE "panicked")
          /\ UNCHANGED <<uncollected, lockVars, cmd, pod, view, scan, todo>>
    /\ UNCHANGED <<dir, content, aged, kills>>

\* os.RemoveAll, if the path still exists: first the files in it, which changes the ctime ...
RemoveFiles(p) ==
    /\ pc[p] = "removeFiles"
    /\ LET here == dir[pod[p]] = PathOf(view[p])
       IN /\ content' = IF here THEN [content EXCEPT ![pod[p]] = "removed"] ELSE content
          /\ aged' = IF here THEN [aged EXCEPT ![pod[p]] = FALSE] ELSE aged
    /\ Goto(p, "removeDir")
    /\ UNCHANGED <<dir, uncollected, lockVars, cmd, pod, view, scan, todo, kills>>

\* ... then the directory itself.
RemoveDir(p) ==
    /\ pc[p] = "removeDir"
    /\ dir' = IF dir[pod[p]] = PathOf(view[p]) THEN [dir EXCEPT ![pod[p]] = "gone"] ELSE dir
    /\ DoneWith(p)
    /\ UNCHANGED <<content, aged, uncollected, kills>>

\* RemoveAll fails with some, all or none of the files removed: the error is logged, and the
\* command goes on as after a removal.
RemoveFails(p) ==
    /\ pc[p] \in {"removeFiles", "removeDir"}
    /\ dir[pod[p]] = PathOf(view[p])
    /\ kills < MaxKills
    /\ kills' = kills + 1
    /\ DoneWith(p)
    /\ UNCHANGED fsVars

-----------------------------------------------------------------------------
(* The environment.                                                          *)

\* Time passes: the directory's ctime becomes older than the period gc compares it with
\* (the ctimes of other directories are never read).
Age(x) ==
    /\ dir[x] \in {"prepared", "run", "exited-garbage"}
    /\ ~aged[x]
    /\ aged' = [aged EXCEPT ![x] = TRUE]
    /\ UNCHANGED <<dir, content, uncollected, lockVars, procVars, kills>>

\* A panicked process is gone.
Reap(p) ==
    /\ pc[p] = "panicked"
    /\ Quit(p)
    /\ UNCHANGED <<fsVars, kills>>

\* A process is killed, at any point.
Kill(p) ==
    /\ pc[p] \notin {"idle", "running", "panicked"}
    /\ kills < MaxKills
    /\ kills' = kills + 1
    /\ Quit(p)
    /\ UNCHANGED fsVars

\* The steps a process takes by itself once its command is started.
Step(p) ==
    \/ LockEmbryo(p) \/ XToPreparing(p) \/ Prepare(p) \/ XToPrepared(p) \/ UnlockPrepared(p)
    \/ LockRun(p) \/ XToRun(p) \/ RenameLost(p)
    \/ Found(p) \/ NotHere(p) \/ NotFound(p) \/ RefreshGone(p)
    \/ ProbeFree(p) \/ ProbeLocked(p) \/ Unprobe(p)
    \/ RunPrepared(p) \/ Status(p) \/ WaitTest(p) \/ WaitLock(p) \/ WaitUnlock(p)
    \/ ListPods(p) \/ (\E x \in Pods : NextPod(p, x)) \/ WalkDone(p) \/ GCVisit(p)
    \/ RemovePod(p) \/ XToExitedGarbage(p) \/ XToGarbage(p)
    \/ SweepLock(p) \/ DeletePod(p) \/ RemoveFiles(p) \/ RemoveDir(p) \/ Reap(p)

\* A command line is entered.
Start(p) ==
    \/ \E x \in Pods, c \in UserCommands \cap {"prepare", "run"} : NewPod(p, x, c)
    \/ \E x \in Pods, c \in UserCommands \cap {"runPrepared", "status", "wait"} : GetPod(p, x, c)
    \/ "gc" \in UserCommands /\ StartGC(p)
    \/ "rm" \in UserCommands /\ \E S \in SUBSET Pods : StartRm(p, S)

Next ==
    \/ \E p \in Procs : Start(p) \/ Step(p) \/ Fail(p) \/ RemoveFails(p) \/ Stage1Setup(p)
                        \/ PodExit(p) \/ Kill(p)
    \/ \E x \in Pods : Age(x)

Spec == Init /\ [][Next]_vars

-----------------------------------------------------------------------------
(* Safety.                                                                   *)

\* p creates x, from the exclusive lock on the embryo to the rename that ends preparation.
Preparing(p, x) == pod[p] = x /\ (\/ pc[p] \in {"prepare", "toPrepared"}
                                  \/ pc[p] \in {"lockRun", "toRun"} /\ cmd[p] = "run")

\* p is the pod process of x.
Running(p, x) == pod[p] = x /\ pc[p] = "running"

\* p has x's lock for deletion and is in deletePod.
Deleting(p, x) == pod[p] = x /\ pc[p] \in {"delete", "removeFiles", "removeDir"}

\* Nobody moves, deletes or locks a pod under the process that prepares or runs it: as long as
\* that process lives the pod is in its directory, complete if it runs, and exclusively locked.
\* gc, rm and run-prepared act on cached flags and rename without a lock; only the order of
\* lock and rename in xToPreparing and xToRun and the probe in getPod keep them off.
OwnerKeepsPod ==
    \A p \in Procs, x \in Pods :
        /\ Preparing(p, x) => dir[x] = "prepare" /\ ex[x] = p
        /\ Running(p, x) => dir[x] = "run" /\ ex[x] = p /\ content[x] = "full"

\* deletePod never meets its "logic error" panic, and works on garbage only: whatever became of
\* the pod between getPod, the blocking lock and the removal, it is marked, garbage or deleted.
DeleteOnlyGarbage ==
    \A p \in Procs, x \in Pods :
        Deleting(p, x) => /\ view[p] \in MarkedViews \cup GarbageViews
                          /\ dir[x] \in {PathOf(view[p]), "gone"}

\* Concurrent gc and rm never delete the same pod at the same time.
OneDeleter ==
    \A p, q \in Procs, x \in Pods : Deleting(p, x) /\ Deleting(q, x) => p = q

\* A pod that getPod or refreshState looks for is never missed: if it still exists, it is in
\* a directory not looked into yet, although it may be renamed between any two looks.
LookupComplete ==
    \A p \in Procs :
        pc[p] \in {"open", "refresh"} =>
            Rank(dir[pod[p]]) >= scan[p]

\* Cached knowledge that a pod has exited stays true: while some process believes it, the pod
\* is not being prepared or run, and can never be again.
ExitedIsFinal ==
    \A p \in Procs :
        view[p] \in ExitedViews /\ pc[p] # "probe" =>
            /\ dir[pod[p]] \in {"run", "exited-garbage", "gone"}
            /\ \A q \in Procs : ~Running(q, pod[p])

\* The directory of a pod in which stage1 began disappears only after stage1's gc entrypoint has
\* succeeded: no such pod reaches the garbage directory, where deletePod skips the entrypoint, and
\* RemoveAll does not go before it.  (What the entrypoint gives back is PodServices' subject.)
CollectedFirst ==
    \A x \in Pods : dir[x] \in {"garbage", "gone"} => ~uncollected[x]

\* p waits for a lock that q has.
WaitsFor(p, q) ==
    /\ p # q
    /\ \/ /\ pc[p] \in {"lockEmbryo", "lockRun", "sweepLock"}
          /\ ex[pod[p]] = q \/ q \in sh[pod[p]]
       \/ pc[p] = "waitLock" /\ ex[pod[p]] = q

\* No set of processes waits only for each other, although gc and rm block on pod locks and rm
\* keeps the lock of every pod it has been through while it waits for the next one.
NoDeadlock ==
    \A S \in SUBSET Procs : S # {} => \E p \in S : \A q \in S : ~WaitsFor(p, q)

\* A pod only moves forward through its directories.
ForwardOnly == [][\A x \in Pods : Rank(dir'[x]) >= Rank(dir[x])]_dir

\* gc removes files of a marked pod only once the grace period has passed since it was marked;
\* only rm may do so earlier.
GraceHonoured ==
    [][\A x \in Pods :
          dir[x] = "exited-garbage" /\ content[x] = "full" /\ content'[x] = "removed" =>
              aged[x] \/ \E p \in Procs : Deleting(p, x) /\ cmd[p] = "rm"]_content

\* gc discards a prepared pod only after its expiration; only rm may do so earlier.
ExpirationHonoured ==
    [][\A x \in Pods :
          dir[x] = "prepared" /\ dir'[x] = "garbage" =>
              aged[x] \/ \E p \in Procs : pod[p] = x /\ cmd[p] = "rm"]_dir

-----------------------------------------------------------------------------
(* Refinement: the directory and the live processes determine the abstract state of a pod. *)

StateOf(x) ==
    CASE dir[x] = "none" -> "unborn"
      [] dir[x] = "prepare" -> IF \E p \in Procs : Preparing(p, x) THEN "preparing" ELSE "failed"
      [] dir[x] = "run" -> IF \E p \in Procs : Running(p, x) THEN "running" ELSE "exited"
      [] dir[x] = "exited-garbage" -> "marked"
      [] dir[x] = "gone" -> "deleted"
      [] OTHER -> dir[x]

Phases == INSTANCE PodPhases WITH state <- [x \in Pods |-> StateOf(x)]

\* Whatever the commands, their interleaving and the processes killed, each pod goes through the
\* documented states in the documented order, one pod and one transition per step: a failed
\* prepare is never resumed, an exited pod never runs again, a running pod is never discarded.
FollowsPhases == Phases!Spec

-----------------------------------------------------------------------------
(* What the documents say of the code (checked by the runs that expect a violation).  *)

\* pods.go: "waitExited waits for a pod to (run and) exit".
WaitedForExit ==
    \A p \in Procs : pc[p] = "waited" =>
        /\ dir[pod[p]] # "prepared"
        /\ \A q \in Procs : ~Preparing(q, pod[p]) /\ ~Running(q, pod[p])

-----------------------------------------------------------------------------
(* The inductive invariant behind the safety properties.                     *)

\* A process past its first lookup has a descriptor of a pod that was created; a process that
\* looks for one has no flags yet; the local variables a command does not use are at rest.
LocalInv ==
    \A p \in Procs :
        /\ pc[p] \notin {"idle", "list", "next", "panicked"} => pod[p] \in Pods
        /\ view[p] # "none" => pod[p] \in Pods
        /\ pc[p] \in {"idle", "list", "next", "open", "refresh"} => view[p] = "none"
        /\ pc[p] \notin {"open", "refresh"} => scan[p] = 1
        /\ pc[p] \in {"idle", "list", "next"} => pod[p] = NoPod
        /\ pod[p] # NoPod => dir[pod[p]] # "none"
        /\ \A x \in todo[p] : dir[x] \notin {"none", "embryo"}

\* The command each control point belongs to.
CommandInv ==
    \A p \in Procs :
        /\ pc[p] \in {"lockEmbryo", "toPreparing", "prepare", "toPrepared", "unlockPrepared"}
               => cmd[p] \in {"prepare", "run"}
        /\ pc[p] \in {"lockRun", "toRun"} => cmd[p] \in {"run", "runPrepared"}
        /\ pc[p] \in {"open", "probe", "unprobe", "got"}
               => cmd[p] \in {"runPrepared", "status", "wait", "rm"} \cup Passes
        /\ pc[p] \in {"refresh", "waitLock", "waitUnlock", "waited"} => cmd[p] = "wait"
        /\ pc[p] \in {"list", "next", "toGarbage", "mark", "sweepLock", "delete", "removeFiles",
                      "removeDir"} => cmd[p] \in {"rm"} \cup Passes

\* The lock a process has, and where the pod is, while it creates or runs the pod.
OwnerInv ==
    \A p \in Procs :
        /\ pc[p] \in {"lockEmbryo", "toPreparing"} => view[p] = "embryo" /\ dir[pod[p]] = "embryo"
        /\ pc[p] \in {"toPreparing", "toRun", "running", "delete", "removeFiles", "removeDir"}
               => ex[pod[p]] = p
        /\ Preparing(p, pod[p]) => view[p] = "preparing" /\ dir[pod[p]] = "prepare" /\ ex[pod[p]] = p
        /\ pc[p] = "toPrepared" => content[pod[p]] = "full"
        /\ pc[p] \in {"lockRun", "toRun"} /\ cmd[p] = "run" => content[pod[p]] = "full"
        /\ pc[p] \in {"lockRun", "toRun"} /\ cmd[p] = "runPrepared" => view[p] = "prepared"
        /\ pc[p] = "running" => dir[pod[p]] = "run"

\* A pod in the embryo directory has one creator.
OneCreator ==
    \A p, q \in Procs :
        pc[p] = "lockEmbryo" /\ pc[q] \in {"lockEmbryo", "toPreparing"} /\ pod[p] = pod[q] => p = q

\* A pod is where its flags say or further on, never behind.
ViewInv ==
    \A p \in Procs :
        /\ view[p] \in {"preparing", "abortedPrepare"} =>
               dir[pod[p]] \in {"prepare", "prepared", "run", "exited-garbage", "garbage", "gone"}
        /\ view[p] = "prepared" =>
               dir[pod[p]] \in {"prepared", "run", "exited-garbage", "garbage", "gone"}
        /\ view[p] \in {"running", "exited"} => dir[pod[p]] \in {"run", "exited-garbage", "gone"}
        /\ view[p] \in MarkedViews => dir[pod[p]] \in {"exited-garbage", "gone"}
        /\ view[p] \in GarbageViews => dir[pod[p]] \in {"garbage", "gone"}

\* Once the probe has succeeded, a pod believed to have exited has no pod process, and one
\* believed to be aborted, if it has not moved on, has no creator.
IdleInv ==
    \A p, q \in Procs :
        /\ view[p] \in ExitedViews /\ pc[p] # "probe" => ~Running(q, pod[p])
        /\ view[p] = "abortedPrepare" /\ pc[p] # "probe" /\ dir[pod[p]] = "prepare"
               => ~Preparing(q, pod[p])

\* The sweeping passes hold pods of their directory only, and a pod about to be deleted is garbage.
SweepInv ==
    \A p \in Procs :
        /\ cmd[p] \in {"emptyExitedGarbage", "emptyGarbage"} =>
               /\ \A x \in todo[p] : dir[x] \in {PassDir(cmd[p]), "gone"}
               /\ pod[p] # NoPod => dir[pod[p]] \in {PassDir(cmd[p]), "gone"}
               /\ view[p] \in {"none"} \cup (IF cmd[p] = "emptyGarbage" THEN GarbageViews ELSE MarkedViews)
        /\ pc[p] \in {"sweepLock", "delete", "removeFiles", "removeDir"} =>
               view[p] \in MarkedViews \cup GarbageViews
        /\ pc[p] \in {"removeFiles", "removeDir"} => ~uncollected[pod[p]]

\* A pod can run as soon as it is prepared, and stage1 began only in a pod that was run.
PodInv ==
    \A x \in Pods :
        /\ dir[x] \in {"prepared", "run"} => content[x] = "full"
        /\ uncollected[x] => dir[x] \in {"run", "exited-garbage"}

\* The conjunction that every step of Next preserves.
IInv ==
    /\ TypeOK
    /\ LocalInv
    /\ CommandInv
    /\ OwnerInv
    /\ OneCreator
    /\ ViewInv
    /\ IdleInv
    /\ SweepInv
    /\ PodInv
    /\ LookupComplete

\* What gc compared a ctime with stays true until it acts: a pod it is about to discard or to
\* delete is still past its period, unless it has moved on or another process has begun to delete it.
PeriodInv ==
    \A p \in Procs :
        /\ pc[p] = "toGarbage" =>
               \/ cmd[p] = "rm"
               \/ cmd[p] = "renameAborted" /\ view[p] = "abortedPrepare"
               \/ /\ cmd[p] = "renameExpired" /\ view[p] \in {"prepared", "exited"}
                  /\ dir[pod[p]] = "prepared" => aged[pod[p]]
        /\ pc[p] \in {"sweepLock", "delete", "removeFiles"} =>
               \/ cmd[p] \in {"rm", "emptyGarbage"}
               \/ /\ cmd[p] = "emptyExitedGarbage"
                  /\ dir[pod[p]] = "exited-garbage" /\ content[pod[p]] = "full" => aged[pod[p]]

\* The locks rm keeps are of pods it has been through, which are garbage.
KeptLocks ==
    \A q \in Procs, x \in Pods :
        ex[x] = q /\ cmd[q] = "rm" =>
            pc[q] # "idle" /\ dir[x] \in {"exited-garbage", "garbage", "gone"}

\* Any other exclusive lock belongs to the process at work on the pod.
WorkLocks ==
    \A q \in Procs, x \in Pods :
        ex[x] = q /\ cmd[q] # "rm" =>
            /\ pod[q] = x
            /\ \/ pc[q] \in {"toPreparing", "prepare", "toPrepared", "unlockPrepared", "toRun",
                             "running", "delete", "removeFiles", "removeDir"}
               \/ pc[q] = "lockRun" /\ cmd[q] = "run"

\* Nobody waits with a shared lock.
SharedLocks ==
    \A q \in Procs, x \in Pods :
        q \in sh[x] => pod[q] = x /\ pc[q] \in {"unprobe", "waitUnlock"}

\* rm goes on only with a pod it found unlocked.
FreeViews == {"abortedPrepare", "prepared", "exited", "exitedGarbage", "garbage"}

ProbedViews ==
    \A p \in Procs :
        /\ pc[p] = "probe" => view[p] \in FreeViews \ {"prepared"}
        /\ cmd[p] = "rm" /\ pc[p] \in {"toGarbage", "mark", "sweepLock"} => view[p] \in FreeViews

LockInv == KeptLocks /\ WorkLocks /\ SharedLocks /\ ProbedViews

\* The rm p found its pod unlocked, and the rm q has locked the pod since.
Overtaken(p, q) ==
    /\ p # q
    /\ cmd[p] = "rm" /\ cmd[q] = "rm"
    /\ pc[p] \in {"unprobe", "got", "toGarbage", "mark", "sweepLock"}
    /\ view[p] \in FreeViews
    /\ ex[pod[p]] = q

\* No rm is overtaken in a circle: a process that takes a lock waits for nobody at that moment.
Acyclic ==
    \A S \in SUBSET Procs : S # {} => \E p \in S : \A q \in S : ~Overtaken(p, q)

-----------------------------------------------------------------------------
(* Liveness.                                                                 *)

\* Processes run; a descriptor waiting for a lock that is free again and again gets it; stage1's
\* gc entrypoint does not fail for ever; rkt gc is started again and again (a timer); time passes.
Fairness ==
    /\ \A p \in Procs : /\ WF_vars(Step(p))
                        /\ SF_vars(SweepLock(p) \/ LockRun(p) \/ WaitLock(p))
                        /\ SF_vars(DeletePod(p) /\ pc'[p] = "removeFiles")
    /\ SF_vars(\E p \in Procs : StartGC(p))
    /\ \A x \in Pods : WF_vars(Age(x))

FairSpec == Spec /\ Fairness

\* No process prepares or runs x any more, and x was not left prepared.
Abandoned(x) ==
    \/ dir[x] \in {"prepare", "run"} /\ \A p \in Procs : ~Preparing(p, x) /\ ~Running(p, x)
    \/ dir[x] \in {"exited-garbage", "garbage"}

\* commands.md: "Stopped pods are moved to the garbage and cleaned up during a subsequent
\* garbage collection pass": gc invoked periodically deletes every failed or exited pod.
AbandonedIsDeleted == \A x \in Pods : Abandoned(x) ~> dir[x] = "gone"

\* A removal of a marked pod was cut short or failed after stage1ID was gone: deletePod returns
\* before RemoveAll ever after.
Stranded(x) == dir[x] = "exited-garbage" /\ content[x] = "removed"

\* Whatever is killed or fails, gc invoked periodically deletes every failed or exited pod, but the
\* ones a removal of which was cut short.
AbandonedIsCollected == \A x \in Pods : Abandoned(x) ~> dir[x] = "gone" \/ Stranded(x)

\* status --wait returns once the pod has left the directories it could be run from.
WaitReturns ==
    \A p \in Procs : cmd[p] = "wait" /\ dir[pod[p]] \in {"exited-garbage", "garbage", "gone"}
                     ~> cmd[p] # "wait"
=============================================================================
