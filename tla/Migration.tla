------------------------------- MODULE Migration -------------------------------
(***************************************************************************)
(* Opening the store (store/store.go NewStore): the version check, and for  *)
(* a database of an earlier rkt the exclusive store lock, the backup of the  *)
(* database (store/backup.go) and the migration (store/migrate.go).          *)
(*                                                                           *)
(* Processes of several releases of rkt may use one store; each brings the   *)
(* database version its code was written for.  A transaction runs under the  *)
(* lock on the database directory and is one step; the copy of the database  *)
(* takes no lock and is two.  A file system operation may fail, a commit may *)
(* be lost without an error, the version of the database may not be updated  *)
(* without an error, and a process may be killed between any two steps.      *)
(***************************************************************************)
EXTENDS Naturals, FiniteSets

CONSTANTS
    Procs,          \* rkt processes
    NoProc,
    Release,        \* Release[p]: dbVersion of the rkt that p runs, plus one
    FirstVersions,  \* values of version at first
    Alters,         \* the versions whose migration fails on tables that have it already
    BackupsNumber,  \* backupsNumber
    MaxWrites,      \* bound on the writes of running commands
    MaxCopies,      \* bound on the copies of the database, after which Mkdir fails
    MaxFaults,      \* bound on failing operations
    MaxKills        \* bound on killed processes

ASSUME MigrationAssumption ==
    /\ NoProc \notin Procs
    /\ Release \in [Procs -> Nat \ {0}]
    /\ FirstVersions \subseteq Nat
    /\ Alters \subseteq Nat
    /\ BackupsNumber \in Nat \ {0}
    /\ MaxWrites \in Nat /\ MaxCopies \in Nat /\ MaxFaults \in Nat /\ MaxKills \in Nat

VARIABLES
    version,        \* the version of the tables plus one; 0: there are none
    row,            \* what the table version says, plus one; 0: it is not there or empty
    writes,         \* number of writes of commands to the database so far
    storeLock,      \* the process with the exclusive store lock
    tmp,            \* the directory tmp of the backups, or NoBackup
    backups,        \* backups[i]: the directory of name i, or NoBackup
    pc,             \* pc[p]: where p is in NewStore
    index,          \* index[p]: i of shiftBackups
    taken,          \* number of copies begun so far
    first,          \* the version of the store at first
    lost,           \* some commit was lost
    botched,        \* some migration did not update the table version
    faults, kills

vars == <<version, row, writes, storeLock, tmp, backups, pc, index, taken, first,
          lost, botched, faults, kills>>

-----------------------------------------------------------------------------
\* A backup: the number of its copy, the version and the writes it shows, and
\* whether it is the database of one moment.
Backup == [n : Nat \ {0}, v : Nat, w : Nat, whole : BOOLEAN]

NoBackup == [n |-> 0, v |-> 0, w |-> 0, whole |-> FALSE]

Names == 0..BackupsNumber - 1

Present == {i \in Names : backups[i] # NoBackup}

\* The steps of NewStore before the store is open, and the ones that hold the store lock.
BackupSteps == {"copying", "prune", "shift", "install"}
LockedSteps == BackupSteps \cup {"copy", "cleanup", "migrate"}
OpenSteps   == {"check", "lock", "failed"} \cup LockedSteps

TypeOK ==
    /\ version \in Nat
    /\ row \in Nat
    /\ writes \in 0..MaxWrites
    /\ storeLock \in Procs \cup {NoProc}
    /\ tmp \in Backup \cup {NoBackup}
    /\ backups \in [Names -> Backup \cup {NoBackup}]
    /\ pc \in [Procs -> {"idle", "open"} \cup OpenSteps]
    /\ index \in [Procs -> Names]
    /\ taken \in Nat
    /\ first \in FirstVersions
    /\ lost \in BOOLEAN
    /\ botched \in BOOLEAN
    /\ faults \in 0..MaxFaults
    /\ kills \in 0..MaxKills

Init ==
    /\ first \in FirstVersions
    /\ version = first
    /\ row = first
    /\ writes = 0
    /\ storeLock = NoProc
    /\ tmp = NoBackup
    /\ backups = [i \in Names |-> NoBackup]
    /\ pc = [p \in Procs |-> "idle"]
    /\ index = [p \in Procs |-> 0]
    /\ taken = 0
    /\ lost = FALSE
    /\ botched = FALSE
    /\ faults = 0
    /\ kills = 0

Goto(p, l) == pc' = [pc EXCEPT ![p] = l]

Fault == faults < MaxFaults /\ faults' = faults + 1

\* A transaction that brings tables and row to version v: DoTx ignores the error of
\* Commit.
CommitVersion(v) ==
    \/ version' = v /\ row' = v /\ UNCHANGED <<faults, lost>>
    \/ <<v, v>> # <<version, row>> /\ Fault /\ lost' = TRUE /\ UNCHANGED <<version, row>>

\* A command starts and calls NewStore.
Start(p) ==
    /\ pc[p] = "idle"
    /\ Goto(p, "check")
    /\ UNCHANGED <<version, row, writes, storeLock, tmp, backups, index, taken, first, lost, botched, faults, kills>>

\* Mutant: a populated database is taken as it is.
CheckEqual(p) ==
    /\ pc[p] = "check"
    /\ IF version = 0 THEN CommitVersion(Release[p]) ELSE UNCHANGED <<version, row, lost, faults>>
    /\ Goto(p, "open")
    /\ UNCHANGED <<writes, storeLock, tmp, backups, index, taken, first, botched, kills>>

\* Mutant: a database of any other version is refused.
CheckRefusesOld(p) ==
    /\ pc[p] = "check"
    /\ IF version = 0 THEN CommitVersion(Release[p]) ELSE UNCHANGED <<version, row, lost, faults>>
    /\ Goto(p, IF version = 0 \/ row = Release[p] THEN "open" ELSE "failed")
    /\ UNCHANGED <<writes, storeLock, tmp, backups, index, taken, first, botched, kills>>

\* The first transaction of NewStore: an empty database is populated, one of a
\* later version or without a row is refused, one of an earlier version is to be
\* migrated; an error rolls it back.
Check(p) ==
    /\ pc[p] = "check"
    /\ \/ /\ version = 0
          /\ CommitVersion(Release[p])
          /\ Goto(p, "open")
       \/ /\ version # 0
          /\ Goto(p, IF row = 0 \/ row > Release[p] THEN "failed"
                     ELSE IF row < Release[p] THEN "lock" ELSE "open")
          /\ UNCHANGED <<version, row, lost, faults>>
       \/ /\ Fault
          /\ Goto(p, "failed")
          /\ UNCHANGED <<version, row, lost>>
    /\ UNCHANGED <<writes, storeLock, tmp, backups, index, taken, first, botched, kills>>

\* Mutant: the store lock is not waited for.
LockStoreShared(p) ==
    /\ pc[p] = "lock"
    /\ storeLock' = p
    /\ Goto(p, "copy")
    /\ UNCHANGED <<version, row, writes, tmp, backups, index, taken, first, lost, botched, faults, kills>>

\* storeLock.ExclusiveLock waits; the lock is kept until the process ends.
LockStore(p) ==
    /\ pc[p] = "lock"
    /\ storeLock = NoProc
    /\ storeLock' = p
    /\ Goto(p, "copy")
    /\ UNCHANGED <<version, row, writes, tmp, backups, index, taken, first, lost, botched, faults, kills>>

\* CopyTree begins with a Mkdir of its target, which must not exist.
CopyBegin(p) ==
    /\ pc[p] = "copy"
    /\ \/ /\ tmp = NoBackup /\ taken < MaxCopies
          /\ taken' = taken + 1
          /\ tmp' = [n |-> taken + 1, v |-> version, w |-> writes, whole |-> FALSE]
          /\ Goto(p, "copying")
       \/ /\ tmp # NoBackup \/ taken >= MaxCopies
          /\ Goto(p, "failed")
          /\ UNCHANGED <<tmp, taken>>
    /\ UNCHANGED <<version, row, writes, storeLock, backups, index, first, lost, botched, faults, kills>>

\* The copy ends: it is whole if nobody wrote meanwhile.  If it fails, createBackup
\* returns before it has deferred the removal of tmp.
CopyEnd(p) ==
    /\ pc[p] = "copying"
    /\ \/ /\ tmp' = [tmp EXCEPT !.whole = (tmp.v = version /\ tmp.w = writes)]
          /\ Goto(p, "prune")
          /\ UNCHANGED faults
       \/ /\ Fault
          /\ Goto(p, "failed")
          /\ UNCHANGED tmp
    /\ UNCHANGED <<version, row, writes, storeLock, backups, index, taken, first, lost, botched, kills>>

\* Mutant: the oldest backup that shiftBackups is going to move is pruned too.
PruneOneMore(p) ==
    /\ pc[p] = "prune"
    /\ backups' = [i \in Names |-> IF i >= BackupsNumber - 2 THEN NoBackup ELSE backups[i]]
    /\ index' = [index EXCEPT ![p] = BackupsNumber - 2]
    /\ Goto(p, "shift")
    /\ UNCHANGED <<version, row, writes, storeLock, tmp, taken, first, lost, botched, faults, kills>>

\* pruneOldBackups(limit-1), then shiftBackups(limit-2) which does nothing below 0.
\* A removal that fails may have removed a part of the backup.
Prune(p) ==
    /\ pc[p] = "prune"
    /\ \/ /\ backups' = [i \in Names |-> IF i >= BackupsNumber - 1 THEN NoBackup ELSE backups[i]]
          /\ IF BackupsNumber >= 2
             THEN /\ index' = [index EXCEPT ![p] = BackupsNumber - 2]
                  /\ Goto(p, "shift")
             ELSE /\ Goto(p, "install")
                  /\ UNCHANGED index
          /\ UNCHANGED faults
       \/ /\ Fault
          /\ backups' = [i \in Names |-> IF i >= BackupsNumber - 1 /\ backups[i] # NoBackup
                                         THEN [backups[i] EXCEPT !.whole = FALSE] ELSE backups[i]]
          /\ Goto(p, "cleanup")
          /\ UNCHANGED index
    /\ UNCHANGED <<version, row, writes, storeLock, tmp, taken, first, lost, botched, kills>>

\* A rename of shiftBackups: the error of a missing backup is ignored; a rename
\* onto a directory that is not empty fails.
ShiftOne(p) ==
    LET i == index[p]
    IN  /\ pc[p] = "shift"
        /\ \/ /\ backups[i] = NoBackup \/ backups[i + 1] = NoBackup
              /\ backups' = IF backups[i] = NoBackup THEN backups
                            ELSE [backups EXCEPT ![i + 1] = backups[i], ![i] = NoBackup]
              /\ IF i = 0 THEN Goto(p, "install") /\ UNCHANGED index
                          ELSE index' = [index EXCEPT ![p] = i - 1] /\ UNCHANGED pc
              /\ UNCHANGED faults
           \/ /\ IF backups[i] # NoBackup /\ backups[i + 1] # NoBackup THEN UNCHANGED faults ELSE Fault
              /\ Goto(p, "cleanup")
              /\ UNCHANGED <<backups, index>>
        /\ UNCHANGED <<version, row, writes, storeLock, tmp, taken, first, lost, botched, kills>>

\* Mutant: the new backup gets the first name that is free.
InstallLast(p) ==
    /\ pc[p] = "install"
    /\ \E i \in Names : /\ backups[i] = NoBackup /\ \A j \in Present : j < i
                        /\ backups' = [backups EXCEPT ![i] = tmp]
    /\ tmp' = NoBackup
    /\ Goto(p, "migrate")
    /\ UNCHANGED <<version, row, writes, storeLock, index, taken, first, lost, botched, faults, kills>>

\* Mutant: the new backup replaces the others.
InstallDropsOthers(p) ==
    /\ pc[p] = "install"
    /\ backups' = [i \in Names |-> IF i = 0 THEN tmp ELSE NoBackup]
    /\ tmp' = NoBackup
    /\ Goto(p, "migrate")
    /\ UNCHANGED <<version, row, writes, storeLock, index, taken, first, lost, botched, faults, kills>>

\* The rename of tmp to 0.
Install(p) ==
    /\ pc[p] = "install"
    /\ \/ /\ backups[0] = NoBackup
          /\ backups' = [backups EXCEPT ![0] = tmp]
          /\ tmp' = NoBackup
          /\ Goto(p, "migrate")
          /\ UNCHANGED faults
       \/ /\ IF backups[0] # NoBackup THEN UNCHANGED faults ELSE Fault
          /\ Goto(p, "cleanup")
          /\ UNCHANGED <<backups, tmp>>
    /\ UNCHANGED <<version, row, writes, storeLock, index, taken, first, lost, botched, kills>>

\* The deferred RemoveAll of tmp, on the way out of a backup that failed; its
\* own error is ignored.
Cleanup(p) ==
    /\ pc[p] = "cleanup"
    /\ \/ tmp' = NoBackup /\ UNCHANGED faults
       \/ Fault /\ UNCHANGED tmp
    /\ Goto(p, "failed")
    /\ UNCHANGED <<version, row, writes, storeLock, backups, index, taken, first, lost, botched, kills>>

\* A migration between row and p's version has been done already and cannot be again.
Blocked(p) == \E v \in Alters : row < v /\ v <= Release[p] /\ v <= version

\* migrate, in a transaction of its own, starts from the row it finds, and does
\* nothing if that is not below the release's; an error rolls it back, but the one
\* of updateDBVersion, which removes the row and inserts the new one, is dropped:
\* the row of the last update that worked stays, or none.
Migrate(p) ==
    /\ pc[p] = "migrate"
    /\ \/ /\ row >= Release[p]
          /\ Goto(p, "open")
          /\ UNCHANGED <<version, row, lost, botched, faults>>
       \/ /\ row # 0 /\ row < Release[p] /\ ~Blocked(p)
          /\ Goto(p, "open")
          /\ \/ CommitVersion(Release[p]) /\ UNCHANGED botched
             \/ /\ Fault
                /\ version' = Release[p]
                /\ row' \in {0} \cup row..Release[p] - 1
                /\ botched' = TRUE
                /\ UNCHANGED lost
       \/ /\ IF row = 0 \/ (row < Release[p] /\ Blocked(p)) THEN UNCHANGED faults ELSE Fault
          /\ Goto(p, "failed")
          /\ UNCHANGED <<version, row, lost, botched>>
    /\ UNCHANGED <<writes, storeLock, tmp, backups, index, taken, first, kills>>

\* A command writes to the store it has open.
Write(p) ==
    /\ pc[p] = "open"
    /\ writes < MaxWrites
    /\ writes' = writes + 1
    /\ UNCHANGED <<version, row, storeLock, tmp, backups, pc, index, taken, first, lost, botched, faults, kills>>

\* The process ends, and with it its lock.
End(p) ==
    /\ Goto(p, "idle")
    /\ storeLock' = IF storeLock = p THEN NoProc ELSE storeLock

Exit(p) ==
    /\ pc[p] \in {"open", "failed"}
    /\ End(p)
    /\ UNCHANGED <<version, row, writes, tmp, backups, index, taken, first, lost, botched, faults, kills>>

\* A process is killed; in pruneOldBackups it may have removed a part of a backup.
Kill(p) ==
    /\ pc[p] # "idle"
    /\ kills < MaxKills
    /\ kills' = kills + 1
    /\ End(p)
    /\ \/ UNCHANGED backups
       \/ /\ pc[p] = "prune"
          /\ backups' = [i \in Names |-> IF i >= BackupsNumber - 1 /\ backups[i] # NoBackup
                                         THEN [backups[i] EXCEPT !.whole = FALSE] ELSE backups[i]]
    /\ UNCHANGED <<version, row, writes, tmp, index, taken, first, lost, botched, faults>>

\* The steps of a call of NewStore.
Step(p) == \/ Check(p) \/ LockStore(p)
           \/ CopyBegin(p) \/ CopyEnd(p) \/ Prune(p) \/ ShiftOne(p) \/ Install(p) \/ Cleanup(p)
           \/ Migrate(p)

Next == \E p \in Procs : Start(p) \/ Step(p) \/ Write(p) \/ Exit(p) \/ Kill(p)

Spec == Init /\ [][Next]_vars

\* Calls make progress, commands end, and somebody uses rkt again and again.
FairSpec == Spec /\ \A p \in Procs : WF_vars(Step(p)) /\ WF_vars(Exit(p)) /\ WF_vars(Start(p))

-----------------------------------------------------------------------------
(* Properties. *)

\* Of two backups the one with the smaller name is the newer, whatever failed or
\* was killed in a rotation (backup.go: "0" is the most recent).
NewestFirst == \A i, j \in Present : i < j => backups[i].n > backups[j].n

\* Once the database has been migrated there is a whole copy of it as it was
\* before, although the processes that waited for the store lock back the
\* migrated database up again, and although the copy takes no lock on the
\* database.  (As long as there are no more processes than backups.)  A migration
\* that did not update the row is excepted: every command after it makes one more
\* backup before its own migration fails, and the good copy is pushed out.
MigratedIsBackedUp ==
    ~botched /\ version # first /\ first # 0 => \E i \in Present : backups[i].v = first /\ backups[i].whole

\* A command works on tables of its own version, whatever the row says, unless a
\* commit was lost: NewStore migrates, waits or refuses, and nobody migrates a
\* store in use.
OpenedIsCurrent == ~lost => \A p \in Procs : pc[p] = "open" => version = Release[p]

\* Rotation with its renames, failures and crashes implements the log of backups.
Log == INSTANCE BackupLog WITH kept <- {backups[i].n : i \in Present}
ImplementsBackupLog == Log!Spec

\* The store is migrated in the end, tables and row, whatever fails, with two
\* exceptions.  A tmp of an interrupted or failed copy is left behind: CopyTree
\* refuses it for ever.  The row was not updated: every later NewStore finds no row,
\* or repeats the migration of tables that have it, and fails for ever.
MigratedInTheEnd == <>[](tmp # NoBackup \/ row # version \/ \A p \in Procs : row >= Release[p])

-----------------------------------------------------------------------------
(* The inductive invariant. *)

\* The process between its copy and the end of its backup holds the store lock.
LockHeld == \A p \in Procs : pc[p] \in LockedSteps => storeLock = p

\* tmp is there during a backup, and is newer than the backups.
TmpNewest ==
    /\ \A p \in Procs : pc[p] \in BackupSteps => tmp # NoBackup
    /\ tmp # NoBackup => tmp.n <= taken /\ \A i \in Present : backups[i].n < tmp.n
    /\ \A i \in Present : backups[i].n <= taken

\* The rotation has made room where it is going to rename to.
RoomMade ==
    \A p \in Procs :
        /\ pc[p] = "shift" => /\ index[p] + 1 \in Names
                              /\ backups[index[p] + 1] = NoBackup
        /\ pc[p] = "install" => backups[0] = NoBackup

IInv == TypeOK /\ LockHeld /\ TmpNewest /\ RoomMade /\ NewestFirst
=============================================================================
