-------------------------------- MODULE KeyLock --------------------------------
(***************************************************************************)
(* Key locks (pkg/lock/keylock.go): a lock on a name, made of an flock(2) on *)
(* a file of that name which is created on demand and removed by             *)
(* CleanKeyLocks when nobody has it locked.  A process may end up with the   *)
(* flock of a file that was removed under it: lock() compares the inode it   *)
(* has locked with the one the path names now.                               *)
(*                                                                           *)
(* Locks of different keys do not interact: the module is about one key.     *)
(***************************************************************************)
EXTENDS Naturals, FiniteSets

CONSTANTS
    Procs,       \* processes that use the key
    Inodes,      \* inodes of the file system
    NoProc,
    NoFile,      \* "no inode": the path does not exist, no descriptor
    MaxRetries   \* defaultLockRetries

ASSUME KeyLockAssumption == /\ NoFile \notin Inodes
                            /\ NoProc \notin Procs
                            /\ MaxRetries \in Nat

VARIABLES
    path,        \* the inode the key's path names
    ex,          \* ex[i]: the process with the exclusive flock on inode i
    sh,          \* sh[i]: the processes with a shared flock on i
    pc,          \* pc[p]: where p is in lock() or CleanKeyLocks
    op,          \* op[p]: the call p makes
    fd,          \* fd[p]: the inode of p's descriptor
    retries      \* retries[p] of lock()

vars == <<path, ex, sh, pc, op, fd, retries>>

Ops == {"none", "exclusive", "shared", "tryExclusive", "tryShared", "clean"}

ExclusiveOps == {"exclusive", "tryExclusive", "clean"}
BlockingOps  == {"exclusive", "shared"}

TypeOK ==
    /\ path \in Inodes \cup {NoFile}
    /\ ex \in [Inodes -> Procs \cup {NoProc}]
    /\ sh \in [Inodes -> SUBSET Procs]
    /\ pc \in [Procs -> {"idle", "create", "open", "flock", "check", "locked", "remove", "close"}]
    /\ op \in [Procs -> Ops]
    /\ fd \in [Procs -> Inodes \cup {NoFile}]
    /\ retries \in [Procs -> 0..MaxRetries]

Init ==
    /\ path = NoFile
    /\ ex = [i \in Inodes |-> NoProc]
    /\ sh = [i \in Inodes |-> {}]
    /\ pc = [p \in Procs |-> "idle"]
    /\ op = [p \in Procs |-> "none"]
    /\ fd = [p \in Procs |-> NoFile]
    /\ retries = [p \in Procs |-> 0]

Goto(p, l) == pc' = [pc EXCEPT ![p] = l]

\* Close of the descriptor releases its flock.
CloseFd(p) ==
    /\ fd' = [fd EXCEPT ![p] = NoFile]
    /\ ex' = [i \in Inodes |-> IF ex[i] = p THEN NoProc ELSE ex[i]]
    /\ sh' = [i \in Inodes |-> sh[i] \ {p}]

\* The call returns without the lock, or its holder closes it, or the process dies.
Done(p) ==
    /\ CloseFd(p)
    /\ Goto(p, "idle")
    /\ op' = [op EXCEPT ![p] = "none"]
    /\ retries' = [retries EXCEPT ![p] = 0]

-----------------------------------------------------------------------------
(* createAndLock.                                                            *)

\* ExclusiveKeyLock, SharedKeyLock, TryExclusiveKeyLock, TrySharedKeyLock are called; CleanKeyLocks
\* calls TryExclusiveKeyLock for a file it found in the directory.
Call(p, o) ==
    /\ pc[p] = "idle"
    /\ o = "clean" => path # NoFile
    /\ op' = [op EXCEPT ![p] = o]
    /\ Goto(p, "create")
    /\ UNCHANGED <<path, ex, sh, fd, retries>>

\* An inode that neither a name nor a descriptor refers to may be used for a new file.
Free == {i \in Inodes : i # path /\ \A p \in Procs : fd[p] # i}

\* NewKeyLock: open with O_CREATE, and close.
Create(p) ==
    /\ pc[p] = "create"
    /\ \/ path # NoFile /\ UNCHANGED path
       \/ path = NoFile /\ \E i \in Free : path' = i
    /\ Goto(p, "open")
    /\ UNCHANGED <<ex, sh, op, fd, retries>>

\* NewKeyLock: NewLock opens the file again, if it is still there.
Open(p) ==
    /\ pc[p] = "open"
    /\ path # NoFile
    /\ fd' = [fd EXCEPT ![p] = path]
    /\ Goto(p, "flock")
    /\ UNCHANGED <<path, ex, sh, op, retries>>

\* The file was removed between two system calls: NewLock, or the open of the path in lock(), fails.
FileMissing(p) ==
    /\ pc[p] \in {"open", "check"}
    /\ path = NoFile
    /\ Done(p)
    /\ UNCHANGED path

-----------------------------------------------------------------------------
(* lock().                                                                   *)

\* The flock the call asks for can be granted on the inode of p's descriptor.
Grantable(p) ==
    /\ ex[fd[p]] \in {NoProc, p}
    /\ op[p] \in ExclusiveOps => sh[fd[p]] \subseteq {p}

Flock(p) ==
    /\ pc[p] = "flock"
    /\ Grantable(p)
    /\ IF op[p] \in ExclusiveOps
       THEN ex' = [ex EXCEPT ![fd[p]] = p] /\ UNCHANGED sh
       ELSE sh' = [sh EXCEPT ![fd[p]] = @ \cup {p}] /\ UNCHANGED ex
    /\ Goto(p, "check")
    /\ UNCHANGED <<path, op, fd, retries>>

\* Mutant: CleanKeyLocks removes the file of a key that is locked.
FlockBusyRemoved(p) ==
    /\ pc[p] = "flock"
    /\ op[p] \notin BlockingOps
    /\ ~Grantable(p)
    /\ Done(p)
    /\ path' = IF op[p] = "clean" THEN NoFile ELSE path

\* ErrLocked.
FlockBusy(p) ==
    /\ pc[p] = "flock"
    /\ op[p] \notin BlockingOps
    /\ ~Grantable(p)
    /\ Done(p)
    /\ UNCHANGED path

\* Mutant: lock() does not detect that the file has changed.
CheckNothing(p) ==
    /\ pc[p] = "check"
    /\ Goto(p, IF op[p] = "clean" THEN "remove" ELSE "locked")
    /\ UNCHANGED <<path, ex, sh, op, fd, retries>>

\* The inode under the path is the one p has locked: the call returns with the lock.
CheckSame(p) ==
    /\ pc[p] = "check"
    /\ path = fd[p]
    /\ Goto(p, IF op[p] = "clean" THEN "remove" ELSE "locked")
    /\ UNCHANGED <<path, ex, sh, op, fd, retries>>

\* Mutant: the retries are not counted.
CheckForEver(p) ==
    /\ pc[p] = "check"
    /\ path \notin {fd[p], NoFile}
    /\ CloseFd(p)
    /\ Goto(p, "create")
    /\ UNCHANGED <<path, op, retries>>

\* The file has changed: discard the lock and start again, maxRetries times.
CheckChanged(p) ==
    /\ pc[p] = "check"
    /\ path \notin {fd[p], NoFile}
    /\ \/ /\ retries[p] < MaxRetries
          /\ retries' = [retries EXCEPT ![p] = @ + 1]
          /\ CloseFd(p)
          /\ Goto(p, "create")
          /\ UNCHANGED op
       \/ /\ retries[p] >= MaxRetries
          /\ Done(p)
    /\ UNCHANGED path

-----------------------------------------------------------------------------
(* The holder, CleanKeyLocks and crashes.                                    *)

\* Close of a lock held.
Close(p) ==
    /\ pc[p] \in {"locked", "close"}
    /\ Done(p)
    /\ UNCHANGED path

\* CleanKeyLocks: os.Remove of the path, by name; whatever it returns, the lock is closed next.
Remove(p) ==
    /\ pc[p] = "remove"
    /\ path' = NoFile
    /\ Goto(p, "close")
    /\ UNCHANGED <<ex, sh, op, fd, retries>>

\* The process dies anywhere.
Kill(p) ==
    /\ pc[p] # "idle"
    /\ Done(p)
    /\ UNCHANGED path

Step(p) ==
    \/ Create(p) \/ Open(p) \/ FileMissing(p) \/ Flock(p) \/ FlockBusy(p)
    \/ CheckSame(p) \/ CheckChanged(p) \/ Remove(p)

Next == \E p \in Procs : (\E o \in Ops \ {"none"} : Call(p, o)) \/ Step(p) \/ Close(p) \/ Kill(p)

Spec == Init /\ [][Next]_vars

-----------------------------------------------------------------------------
(* Properties.                                                               *)

\* p believes it has the key: lock() returned nil, or CleanKeyLocks is about to remove the file.
HoldsExclusive(p) == pc[p] = "remove" \/ (pc[p] = "locked" /\ op[p] \in ExclusiveOps)
HoldsShared(p)    == pc[p] = "locked" /\ op[p] \notin ExclusiveOps

\* An exclusive holder of the key is alone, although the lock file may have been removed and created
\* again between any two steps of the processes that wait for it.
MutualExclusion ==
    \A p, q \in Procs : HoldsExclusive(p) /\ (HoldsExclusive(q) \/ HoldsShared(q)) => p = q

\* The file under the path is the one every holder has locked: it is not removed, and not
\* replaced, while the key is held.
HeldFileStays ==
    \A p \in Procs : HoldsExclusive(p) \/ HoldsShared(p) => path = fd[p]

\* The processes that hold the key.
Writer  == IF \E p \in Procs : HoldsExclusive(p)
           THEN CHOOSE p \in Procs : HoldsExclusive(p) ELSE NoProc
Readers == {p \in Procs : HoldsShared(p)}

Lock == INSTANCE RWLock WITH writer <- Writer, readers <- Readers

\* Every step of the key lock is a step of a readers/writer lock or invisible.
ImplementsRWLock == Lock!Spec

\* Processes run, and a blocked flock that is free again and again is granted.
Fairness == \A p \in Procs : WF_vars(Step(p)) /\ SF_vars(Flock(p)) /\ WF_vars(Close(p))

FairSpec == Spec /\ Fairness

\* Every call returns: lock() does not chase a file that keeps changing for ever.
CallReturns == \A p \in Procs : pc[p] # "idle" ~> pc[p] \in {"idle", "locked"}

-----------------------------------------------------------------------------
(* The inductive invariant behind MutualExclusion and HeldFileStays.         *)

\* A descriptor is open where the code uses one, and an flock belongs to a descriptor.
DescriptorInv ==
    \A p \in Procs :
        /\ pc[p] \in {"flock", "check", "locked", "remove", "close"} => fd[p] \in Inodes
        /\ pc[p] \in {"idle", "create", "open"} => fd[p] = NoFile
        /\ pc[p] \in {"check", "locked", "remove", "close"} =>
               IF op[p] \in ExclusiveOps THEN ex[fd[p]] = p ELSE p \in sh[fd[p]]
        /\ pc[p] \in {"remove", "close"} => op[p] = "clean"

\* flock itself excludes: an inode with an exclusive flock has no shared one of another process.
FlockInv == \A i \in Inodes : ex[i] # NoProc => sh[i] \subseteq {ex[i]}

IInv == TypeOK /\ DescriptorInv /\ FlockInv /\ HeldFileStays
=============================================================================
