---------------------------- MODULE MigrationProofs ----------------------------
(***************************************************************************)
(* Proofs about Migration: the order of the backups, the log of backups that *)
(* the rotation implements, and the version of an open database, for any     *)
(* number of processes, releases, backups, failures and crashes.             *)
(***************************************************************************)
EXTENDS Migration, FiniteSetTheorems, TLAPS

\* A copy is told from no copy by its number, which the loss of its wholeness keeps.
LEMMA BackupFacts ==
    /\ NoBackup \notin Backup
    /\ \A b \in Backup : /\ b.n \in Nat \ {0} /\ b.v \in Nat /\ b.w \in Nat
                         /\ \A x \in BOOLEAN : /\ [b EXCEPT !.whole = x] \in Backup
                                               /\ [b EXCEPT !.whole = x].n = b.n
  BY DEF Backup, NoBackup

\* Names are numbers.
LEMMA NamesFacts ==
    /\ Names \subseteq Nat /\ 0 \in Names /\ BackupsNumber - 1 \in Names
    /\ \A i \in Names : i < BackupsNumber
    /\ BackupsNumber >= 2 => BackupsNumber - 2 \in Names
    /\ \A i \in Names : i # 0 => i - 1 \in Names
  BY MigrationAssumption DEF Names

-----------------------------------------------------------------------------
(* Type correctness. *)

LEMMA TypeCheck == ASSUME TypeOK, NEW p \in Procs, Check(p) PROVE TypeOK'
  <1>1. version' \in Nat /\ row' \in Nat /\ faults' \in 0..MaxFaults
    BY MigrationAssumption DEF TypeOK, Check, CommitVersion, Fault
  <1>2. pc' \in [Procs -> {"idle", "open"} \cup OpenSteps]
    BY DEF TypeOK, Check, Goto, OpenSteps
  <1>3. lost' \in BOOLEAN
    BY Zenon DEF TypeOK, Check, CommitVersion
  <1> QED BY <1>1, <1>2, <1>3 DEF TypeOK, Check

LEMMA TypeCopyBegin == ASSUME TypeOK, NEW p \in Procs, CopyBegin(p) PROVE TypeOK'
  <1>1. pc' \in [Procs -> {"idle", "open"} \cup OpenSteps]
    BY DEF TypeOK, CopyBegin, Goto, OpenSteps, LockedSteps, BackupSteps
  <1>2. tmp' \in Backup \cup {NoBackup} /\ taken' \in Nat
    <2>1. taken + 1 \in Nat \ {0} /\ version \in Nat /\ writes \in Nat
      BY DEF TypeOK
    <2>2. [n |-> taken + 1, v |-> version, w |-> writes, whole |-> FALSE] \in Backup
      BY <2>1 DEF Backup
    <2> QED BY <2>1, <2>2 DEF TypeOK, CopyBegin
  <1> QED BY <1>1, <1>2 DEF TypeOK, CopyBegin

LEMMA TypeCopyEnd == ASSUME TypeOK, TmpNewest, NEW p \in Procs, CopyEnd(p) PROVE TypeOK'
  <1>1. pc' \in [Procs -> {"idle", "open"} \cup OpenSteps]
    BY DEF TypeOK, CopyEnd, Goto, OpenSteps, LockedSteps, BackupSteps
  <1>2. tmp' \in Backup \cup {NoBackup}
    <2>1. tmp \in Backup
      BY DEF TypeOK, CopyEnd, TmpNewest, BackupSteps
    <2>2. (tmp.v = version /\ tmp.w = writes) \in BOOLEAN
      OBVIOUS
    <2> QED BY <2>1, <2>2, BackupFacts DEF CopyEnd
  <1>3. faults' \in 0..MaxFaults
    BY MigrationAssumption DEF TypeOK, CopyEnd, Fault
  <1> QED BY <1>1, <1>2, <1>3 DEF TypeOK, CopyEnd

\* What an interrupted removal leaves of the last backup.
Damaged == [i \in Names |-> IF i >= BackupsNumber - 1 /\ backups[i] # NoBackup
                            THEN [backups[i] EXCEPT !.whole = FALSE] ELSE backups[i]]

LEMMA DamagedFacts ==
    ASSUME TypeOK
    PROVE  /\ Damaged \in [Names -> Backup \cup {NoBackup}]
           /\ \A i \in Names : /\ Damaged[i].n = backups[i].n
                               /\ Damaged[i] = NoBackup <=> backups[i] = NoBackup
  <1>1. ASSUME NEW i \in Names
        PROVE  /\ Damaged[i] \in Backup \cup {NoBackup}
               /\ Damaged[i].n = backups[i].n
               /\ Damaged[i] = NoBackup <=> backups[i] = NoBackup
    <2>1. CASE i >= BackupsNumber - 1 /\ backups[i] # NoBackup
      <3>1. backups[i] \in Backup
        BY <2>1 DEF TypeOK
      <3>2. Damaged[i] = [backups[i] EXCEPT !.whole = FALSE]
        BY <2>1 DEF Damaged
      <3>3. Damaged[i] \in Backup /\ Damaged[i].n = backups[i].n
        BY <3>1, <3>2, BackupFacts
      <3> QED BY <2>1, <3>3, BackupFacts
    <2>2. CASE ~(i >= BackupsNumber - 1 /\ backups[i] # NoBackup)
      <3>1. Damaged[i] = backups[i]
        BY <2>2 DEF Damaged
      <3> QED BY <3>1 DEF TypeOK
    <2> QED BY <2>1, <2>2
  <1> QED BY <1>1 DEF Damaged

LEMMA TypePrune == ASSUME TypeOK, NEW p \in Procs, Prune(p) PROVE TypeOK'
  <1>1. pc' \in [Procs -> {"idle", "open"} \cup OpenSteps]
    BY DEF TypeOK, Prune, Goto, OpenSteps, LockedSteps, BackupSteps
  <1>2. backups' \in [Names -> Backup \cup {NoBackup}]
    <2>1. CASE backups' = [i \in Names |-> IF i >= BackupsNumber - 1 THEN NoBackup ELSE backups[i]]
      BY <2>1 DEF TypeOK
    <2>2. CASE backups' = Damaged
      BY <2>2, DamagedFacts
    <2> QED BY <2>1, <2>2 DEF Prune, Damaged
  <1>3. index' \in [Procs -> Names] /\ faults' \in 0..MaxFaults
    BY MigrationAssumption, NamesFacts DEF TypeOK, Prune, Fault
  <1> QED BY <1>1, <1>2, <1>3 DEF TypeOK, Prune

LEMMA TypeShiftOne ==
    ASSUME TypeOK, RoomMade, NEW p \in Procs, ShiftOne(p) PROVE TypeOK'
  <1>0. index[p] \in Names /\ index[p] + 1 \in Names
    BY DEF TypeOK, RoomMade, ShiftOne
  <1>1. pc' \in [Procs -> {"idle", "open"} \cup OpenSteps]
    BY DEF TypeOK, ShiftOne, Goto, OpenSteps, LockedSteps, BackupSteps
  <1>2. backups' \in [Names -> Backup \cup {NoBackup}]
    BY <1>0 DEF TypeOK, ShiftOne
  <1>3. index' \in [Procs -> Names]
    <2>1. index[p] # 0 => index[p] - 1 \in Names
      BY <1>0, NamesFacts
    <2>2. index' = index \/ (index[p] # 0 /\ index' = [index EXCEPT ![p] = index[p] - 1])
      BY DEF ShiftOne
    <2> QED BY <2>1, <2>2 DEF TypeOK
  <1>4. faults' \in 0..MaxFaults
    BY MigrationAssumption DEF TypeOK, ShiftOne, Fault
  <1> QED BY <1>1, <1>2, <1>3, <1>4 DEF TypeOK, ShiftOne

LEMMA TypeInstall == ASSUME TypeOK, NEW p \in Procs, Install(p) PROVE TypeOK'
  <1>1. pc' \in [Procs -> {"idle", "open"} \cup OpenSteps]
    BY DEF TypeOK, Install, Goto, OpenSteps, LockedSteps
  <1>2. backups' \in [Names -> Backup \cup {NoBackup}] /\ tmp' \in Backup \cup {NoBackup}
    BY NamesFacts DEF TypeOK, Install
  <1>3. faults' \in 0..MaxFaults
    BY MigrationAssumption DEF TypeOK, Install, Fault
  <1> QED BY <1>1, <1>2, <1>3 DEF TypeOK, Install

LEMMA TypeCleanup == ASSUME TypeOK, NEW p \in Procs, Cleanup(p) PROVE TypeOK'
  <1>1. pc' \in [Procs -> {"idle", "open"} \cup OpenSteps] /\ tmp' \in Backup \cup {NoBackup}
    BY DEF TypeOK, Cleanup, Goto, OpenSteps
  <1>2. faults' \in 0..MaxFaults
    BY MigrationAssumption DEF TypeOK, Cleanup, Fault
  <1> QED BY <1>1, <1>2 DEF TypeOK, Cleanup

LEMMA TypeMigrate == ASSUME TypeOK, NEW p \in Procs, Migrate(p) PROVE TypeOK'
  <1>1. pc' \in [Procs -> {"idle", "open"} \cup OpenSteps]
    BY DEF TypeOK, Migrate, Goto, OpenSteps
  <1>2. version' \in Nat /\ row' \in Nat /\ faults' \in 0..MaxFaults
    BY MigrationAssumption DEF TypeOK, Migrate, CommitVersion, Fault
  <1>3. lost' \in BOOLEAN /\ botched' \in BOOLEAN
    BY Zenon DEF TypeOK, Migrate, CommitVersion
  <1> QED BY <1>1, <1>2, <1>3 DEF TypeOK, Migrate

LEMMA TypeKill == ASSUME TypeOK, NEW p \in Procs, Kill(p) PROVE TypeOK'
  <1>1. pc' \in [Procs -> {"idle", "open"} \cup OpenSteps] /\ storeLock' \in Procs \cup {NoProc}
    BY DEF TypeOK, Kill, End, Goto
  <1>2. backups' \in [Names -> Backup \cup {NoBackup}]
    BY DamagedFacts DEF Damaged, Kill, TypeOK
  <1>3. kills' \in 0..MaxKills
    BY MigrationAssumption DEF TypeOK, Kill
  <1> QED BY <1>1, <1>2, <1>3 DEF TypeOK, Kill

LEMMA TypePreserved ==
    ASSUME TypeOK, TmpNewest, RoomMade, [Next]_vars PROVE TypeOK'
  <1>1. CASE UNCHANGED vars
    BY <1>1 DEF TypeOK, vars
  <1>2. CASE Next
    <2> PICK p \in Procs : Start(p) \/ Step(p) \/ Write(p) \/ Exit(p) \/ Kill(p)
      BY <1>2 DEF Next
    <2>1. CASE Start(p)
      BY <2>1 DEF TypeOK, Start, Goto, OpenSteps
    <2>2. CASE LockStore(p)
      BY <2>2 DEF TypeOK, LockStore, Goto, OpenSteps, LockedSteps
    <2>3. CASE Write(p)
      BY <2>3, MigrationAssumption DEF TypeOK, Write
    <2>4. CASE Exit(p)
      BY <2>4 DEF TypeOK, Exit, End, Goto
    <2> QED
      BY <2>1, <2>2, <2>3, <2>4, TypeCheck, TypeCopyBegin, TypeCopyEnd, TypePrune,
         TypeShiftOne, TypeInstall, TypeCleanup, TypeMigrate, TypeKill DEF Step
  <1> QED BY <1>1, <1>2

-----------------------------------------------------------------------------
(* The store lock. *)

LEMMA LockPreserved == ASSUME TypeOK, LockHeld, [Next]_vars PROVE LockHeld'
  <1>1. CASE UNCHANGED vars
    BY <1>1 DEF LockHeld, vars
  <1>2. CASE Next
    <2> PICK p \in Procs : Start(p) \/ Step(p) \/ Write(p) \/ Exit(p) \/ Kill(p)
      BY <1>2 DEF Next
    <2> SUFFICES ASSUME NEW q \in Procs, pc'[q] \in LockedSteps PROVE storeLock' = q
      BY DEF LockHeld
    <2>1. CASE LockStore(p)
      <3>1. \A r \in Procs : pc[r] \notin LockedSteps
        BY <2>1, MigrationAssumption DEF LockHeld, LockStore
      <3> QED BY <2>1, <3>1 DEF LockStore, Goto, TypeOK
    <2>2. CASE Exit(p) \/ Kill(p)
      <3>1. q # p /\ pc[q] \in LockedSteps
        BY <2>2 DEF Exit, Kill, End, Goto, TypeOK, LockedSteps, BackupSteps
      <3> QED BY <2>2, <3>1 DEF LockHeld, Exit, Kill, End
    <2>3. CASE Start(p) \/ Check(p)
      <3>1. pc[q] \in LockedSteps
        BY <2>3 DEF Start, Check, Goto, TypeOK, LockedSteps, BackupSteps
      <3> QED BY <2>3, <3>1 DEF LockHeld, Start, Check
    <2>4. CASE CopyBegin(p) \/ CopyEnd(p) \/ Prune(p) \/ ShiftOne(p) \/ Install(p)
               \/ Cleanup(p) \/ Migrate(p) \/ Write(p)
      <3>1. UNCHANGED storeLock
        BY <2>4 DEF CopyBegin, CopyEnd, Prune, ShiftOne, Install, Cleanup, Migrate, Write
      <3>2. pc[q] \in LockedSteps
        BY <2>4 DEF CopyBegin, CopyEnd, Prune, ShiftOne, Install, Cleanup, Migrate, Write,
                    Goto, TypeOK, LockedSteps, BackupSteps
      <3> QED BY <3>1, <3>2 DEF LockHeld
    <2> QED BY <2>1, <2>2, <2>3, <2>4 DEF Step
  <1> QED BY <1>1, <1>2

-----------------------------------------------------------------------------
(* The rotation. *)

\* The part of the invariant that is about the backups.
Rotation == TmpNewest /\ RoomMade /\ NewestFirst

\* While one process is between its copy and the end of its migration, no other is.
LEMMA Alone ==
    ASSUME LockHeld, NEW p \in Procs, NEW q \in Procs,
           pc[p] \in LockedSteps, pc[q] \in LockedSteps
    PROVE  p = q
  BY DEF LockHeld

\* Steps that do not touch the backups and bring nobody into a backup.
LEMMA QuietStep ==
    ASSUME Rotation, UNCHANGED <<tmp, backups, taken, index>>,
           \A q \in Procs : pc'[q] \in BackupSteps => pc'[q] = pc[q]
    PROVE  Rotation'
  <1>1. Present' = Present
    BY DEF Present
  <1>2. TmpNewest' /\ NewestFirst'
    BY <1>1 DEF Rotation, TmpNewest, NewestFirst
  <1>3. RoomMade'
    BY DEF Rotation, RoomMade, BackupSteps
  <1> QED BY <1>2, <1>3 DEF Rotation

\* A step that damages the last backup and moves the process out of its backup.
LEMMA DamagingStep ==
    ASSUME TypeOK, Rotation, backups' = Damaged, UNCHANGED <<tmp, taken, index>>,
           \A q \in Procs : pc'[q] \in BackupSteps => pc'[q] = pc[q]
    PROVE  Rotation'
  <1>1. Present' = Present /\ \A i \in Names : backups'[i].n = backups[i].n
    BY DamagedFacts DEF Present
  <1>2. Present \subseteq Names
    BY DEF Present
  <1>3. TmpNewest' /\ NewestFirst'
    BY <1>1, <1>2 DEF Rotation, TmpNewest, NewestFirst
  <1>4. RoomMade'
    <2> SUFFICES ASSUME NEW q \in Procs
                 PROVE  /\ pc'[q] = "shift" => /\ index'[q] + 1 \in Names
                                               /\ backups'[index'[q] + 1] = NoBackup
                        /\ pc'[q] = "install" => backups'[0] = NoBackup
      BY DEF RoomMade
    <2>1. CASE pc'[q] = "shift"
      <3>1. index[q] + 1 \in Names /\ backups[index[q] + 1] = NoBackup
        BY <2>1 DEF Rotation, RoomMade, BackupSteps
      <3> QED BY <2>1, <3>1, DamagedFacts
    <2>2. CASE pc'[q] = "install"
      <3>1. backups[0] = NoBackup
        BY <2>2 DEF Rotation, RoomMade, BackupSteps
      <3> QED BY <2>2, <3>1, DamagedFacts, NamesFacts
    <2> QED BY <2>1, <2>2
  <1> QED BY <1>3, <1>4 DEF Rotation

LEMMA RotationCopyBegin ==
    ASSUME TypeOK, LockHeld, Rotation, NEW p \in Procs, CopyBegin(p) PROVE Rotation'
  <1>1. CASE Goto(p, "failed") /\ UNCHANGED <<tmp, taken>>
    <2>1. UNCHANGED <<tmp, backups, taken, index>>
      BY <1>1 DEF CopyBegin
    <2>2. \A q \in Procs : pc'[q] \in BackupSteps => pc'[q] = pc[q]
      BY <1>1 DEF CopyBegin, Goto, TypeOK, BackupSteps
    <2> QED BY <2>1, <2>2, QuietStep
  <1>2. CASE /\ taken' = taken + 1
             /\ tmp' = [n |-> taken + 1, v |-> version, w |-> writes, whole |-> FALSE]
             /\ Goto(p, "copying")
    <2>1. /\ tmp' = [n |-> taken + 1, v |-> version, w |-> writes, whole |-> FALSE]
          /\ taken' = taken + 1
          /\ UNCHANGED <<backups, index>>
          /\ pc' = [pc EXCEPT ![p] = "copying"]
      BY <1>2 DEF CopyBegin, Goto
    <2>2. Present' = Present /\ Present \subseteq Names
      BY <2>1 DEF Present
    <2>3. tmp'.n = taken + 1 /\ taken \in Nat /\ tmp' # NoBackup
      BY <2>1 DEF TypeOK, NoBackup
    <2>4. \A i \in Present : backups[i].n \in Nat /\ backups[i].n <= taken
      BY <2>2, BackupFacts DEF Rotation, TmpNewest, Present, TypeOK
    <2>5. TmpNewest'
      BY <2>1, <2>2, <2>3, <2>4 DEF TmpNewest
    <2>6. NewestFirst'
      BY <2>1, <2>2 DEF Rotation, NewestFirst
    <2>7. RoomMade'
      BY <2>1 DEF Rotation, RoomMade, TypeOK
    <2> QED BY <2>5, <2>6, <2>7 DEF Rotation
  <1> QED BY <1>1, <1>2 DEF CopyBegin

LEMMA RotationCopyEnd ==
    ASSUME TypeOK, LockHeld, Rotation, NEW p \in Procs, CopyEnd(p) PROVE Rotation'
  <1>0. UNCHANGED <<backups, taken, index>> /\ pc' \in {[pc EXCEPT ![p] = "prune"], [pc EXCEPT ![p] = "failed"]}
    BY DEF CopyEnd, Goto
  <1>1. tmp \in Backup
    BY DEF TypeOK, CopyEnd, Rotation, TmpNewest, BackupSteps
  <1>2. tmp' \in Backup /\ tmp'.n = tmp.n
    <2>1. (tmp.v = version /\ tmp.w = writes) \in BOOLEAN
      OBVIOUS
    <2> QED BY <1>1, <2>1, BackupFacts DEF CopyEnd
  <1>3. Present' = Present
    BY <1>0 DEF Present
  <1>4. tmp # NoBackup /\ tmp' # NoBackup
    BY <1>1, <1>2, BackupFacts
  <1>5. TmpNewest'
    BY <1>0, <1>2, <1>3, <1>4 DEF Rotation, TmpNewest
  <1>6. NewestFirst'
    BY <1>0, <1>3 DEF Rotation, NewestFirst
  <1>7. RoomMade'
    BY <1>0 DEF Rotation, RoomMade, TypeOK
  <1> QED BY <1>5, <1>6, <1>7 DEF Rotation

LEMMA RotationPrune ==
    ASSUME TypeOK, LockHeld, Rotation, NEW p \in Procs, Prune(p) PROVE Rotation'
  <1>0. pc[p] = "prune" /\ pc[p] \in LockedSteps /\ pc[p] \in BackupSteps
    BY DEF Prune, LockedSteps, BackupSteps
  <1>1. CASE pc' = [pc EXCEPT ![p] = "cleanup"] /\ backups' = Damaged /\ UNCHANGED index
    <2>1. \A q \in Procs : pc'[q] \in BackupSteps => pc'[q] = pc[q]
      BY <1>1 DEF TypeOK, BackupSteps
    <2>2. UNCHANGED <<tmp, taken, index>>
      BY <1>1 DEF Prune
    <2> QED BY <1>1, <2>1, <2>2, DamagingStep
  <1>2. CASE /\ backups' = [i \in Names |-> IF i >= BackupsNumber - 1 THEN NoBackup ELSE backups[i]]
             /\ \/ /\ BackupsNumber >= 2
                   /\ index' = [index EXCEPT ![p] = BackupsNumber - 2]
                   /\ pc' = [pc EXCEPT ![p] = "shift"]
                \/ /\ ~(BackupsNumber >= 2)
                   /\ pc' = [pc EXCEPT ![p] = "install"]
                   /\ UNCHANGED index
    <2>1. UNCHANGED <<tmp, taken>> /\ tmp # NoBackup
      BY <1>0 DEF Prune, Rotation, TmpNewest
    <2>2. \A i \in Present' : i \in Present /\ backups'[i] = backups[i]
      BY <1>2 DEF Present
    <2>3. TmpNewest'
      BY <1>2, <2>1, <2>2 DEF Rotation, TmpNewest
    <2>4. NewestFirst'
      BY <2>2 DEF Rotation, NewestFirst
    <2>5. RoomMade'
      <3> SUFFICES ASSUME NEW q \in Procs
                   PROVE  /\ pc'[q] = "shift" => /\ index'[q] + 1 \in Names
                                                 /\ backups'[index'[q] + 1] = NoBackup
                          /\ pc'[q] = "install" => backups'[0] = NoBackup
        BY DEF RoomMade
      <3>1. CASE q # p
        <4>1. pc'[q] = pc[q] /\ pc[q] \notin LockedSteps
          BY <1>0, <1>2, <3>1, Alone DEF TypeOK
        <4> QED BY <4>1 DEF LockedSteps, BackupSteps
      <3>2. CASE q = p /\ BackupsNumber >= 2
        <4>1. index'[p] = BackupsNumber - 2 /\ pc'[p] = "shift"
          BY <1>2, <3>2 DEF TypeOK
        <4>2. index'[p] + 1 = BackupsNumber - 1
          BY <4>1, MigrationAssumption
        <4> QED BY <1>2, <3>2, <4>1, <4>2, NamesFacts, MigrationAssumption
      <3>3. CASE q = p /\ ~(BackupsNumber >= 2)
        <4>1. pc'[p] = "install" /\ BackupsNumber = 1
          BY <1>2, <3>3, MigrationAssumption DEF TypeOK
        <4> QED BY <1>2, <3>3, <4>1, NamesFacts
      <3> QED BY <3>1, <3>2, <3>3
    <2> QED BY <2>3, <2>4, <2>5 DEF Rotation
  <1> QED BY <1>1, <1>2 DEF Prune, Damaged, Goto

LEMMA RotationShiftOne ==
    ASSUME TypeOK, LockHeld, Rotation, NEW p \in Procs, ShiftOne(p) PROVE Rotation'
  <1> DEFINE i == index[p]
  <1>0. /\ pc[p] = "shift" /\ pc[p] \in LockedSteps /\ pc[p] \in BackupSteps
        /\ i \in Names /\ i + 1 \in Names /\ backups[i + 1] = NoBackup
        /\ i \in Nat
    BY NamesFacts DEF ShiftOne, LockedSteps, BackupSteps, Rotation, RoomMade, TypeOK
  <1>1. CASE pc' = [pc EXCEPT ![p] = "cleanup"] /\ UNCHANGED <<backups, index>>
    <2>1. \A q \in Procs : pc'[q] \in BackupSteps => pc'[q] = pc[q]
      BY <1>1 DEF TypeOK, BackupSteps
    <2>2. UNCHANGED <<tmp, backups, taken, index>>
      BY <1>1 DEF ShiftOne
    <2> QED BY <2>1, <2>2, QuietStep
  <1>2. CASE /\ backups' = IF backups[i] = NoBackup THEN backups
                           ELSE [backups EXCEPT ![i + 1] = backups[i], ![i] = NoBackup]
             /\ IF i = 0 THEN pc' = [pc EXCEPT ![p] = "install"] /\ UNCHANGED index
                         ELSE index' = [index EXCEPT ![p] = i - 1] /\ UNCHANGED pc
    <2>1. UNCHANGED <<tmp, taken>> /\ tmp # NoBackup
      BY <1>0 DEF ShiftOne, Rotation, TmpNewest
    <2>2. backups'[i] = NoBackup
      BY <1>0, <1>2 DEF TypeOK
    <2>3. \A j \in Names \ {i, i + 1} : backups'[j] = backups[j]
      BY <1>0, <1>2 DEF TypeOK
    <2>4. backups'[i + 1] = backups[i]
      BY <1>0, <1>2 DEF TypeOK
    <2>5. \A j \in Present' : j \in Names /\ j # i /\ (j = i + 1 => i \in Present)
      BY <1>0, <2>2, <2>4 DEF Present
    <2>6. \A j \in Present' : j # i + 1 => j \in Present /\ backups'[j] = backups[j]
      BY <2>3, <2>5 DEF Present
    <2>7. TmpNewest'
      <3>1. \A j \in Present' : backups'[j].n <= taken /\ backups'[j].n < tmp.n
        BY <2>1, <2>4, <2>5, <2>6 DEF Rotation, TmpNewest
      <3> QED BY <2>1, <3>1 DEF Rotation, TmpNewest
    <2>8. NewestFirst'
      <3> SUFFICES ASSUME NEW j \in Present', NEW k \in Present', j < k
                   PROVE  backups'[j].n > backups'[k].n
        BY DEF NewestFirst
      <3>0. j \in Nat /\ k \in Nat
        BY <2>5, NamesFacts
      <3>1. CASE j = i + 1
        <4>1. k # i + 1 /\ i < k
          BY <1>0, <3>0, <3>1
        <4> QED BY <2>4, <2>5, <2>6, <3>1, <4>1 DEF Rotation, NewestFirst
      <3>2. CASE k = i + 1
        <4>1. j # i + 1 /\ j < i
          BY <1>0, <2>5, <3>0, <3>2
        <4> QED BY <2>4, <2>5, <2>6, <3>2, <4>1 DEF Rotation, NewestFirst
      <3>3. CASE j # i + 1 /\ k # i + 1
        BY <2>6, <3>3 DEF Rotation, NewestFirst
      <3> QED BY <3>1, <3>2, <3>3
    <2>9. RoomMade'
      <3> SUFFICES ASSUME NEW q \in Procs
                   PROVE  /\ pc'[q] = "shift" => /\ index'[q] + 1 \in Names
                                                 /\ backups'[index'[q] + 1] = NoBackup
                          /\ pc'[q] = "install" => backups'[0] = NoBackup
        BY DEF RoomMade
      <3>1. CASE q # p
        <4>1. pc'[q] = pc[q] /\ pc[q] \notin LockedSteps
          BY <1>0, <1>2, <3>1, Alone DEF TypeOK
        <4> QED BY <4>1 DEF LockedSteps, BackupSteps
      <3>2. CASE q = p /\ i = 0
        <4>1. pc'[p] = "install"
          BY <1>2, <3>2 DEF TypeOK
        <4> QED BY <2>2, <3>2, <4>1
      <3>3. CASE q = p /\ i # 0
        <4>1. index'[p] = i - 1 /\ pc'[p] = "shift"
          BY <1>0, <1>2, <3>3 DEF TypeOK
        <4>2. index'[p] + 1 = i
          BY <1>0, <4>1
        <4> QED BY <1>0, <2>2, <3>3, <4>1, <4>2
      <3> QED BY <3>1, <3>2, <3>3
    <2> QED BY <2>7, <2>8, <2>9 DEF Rotation
  <1> QED BY <1>1, <1>2 DEF ShiftOne, Goto

LEMMA RotationInstall ==
    ASSUME TypeOK, LockHeld, Rotation, NEW p \in Procs, Install(p) PROVE Rotation'
  <1>0. pc[p] = "install" /\ pc[p] \in LockedSteps /\ pc[p] \in BackupSteps /\ backups[0] = NoBackup
    BY DEF Install, LockedSteps, BackupSteps, Rotation, RoomMade
  <1>1. CASE pc' = [pc EXCEPT ![p] = "cleanup"] /\ UNCHANGED <<backups, tmp>>
    <2>1. \A q \in Procs : pc'[q] \in BackupSteps => pc'[q] = pc[q]
      BY <1>1 DEF TypeOK, BackupSteps
    <2>2. UNCHANGED <<tmp, backups, taken, index>>
      BY <1>1 DEF Install
    <2> QED BY <2>1, <2>2, QuietStep
  <1>2. CASE /\ backups' = [backups EXCEPT ![0] = tmp] /\ tmp' = NoBackup
             /\ pc' = [pc EXCEPT ![p] = "migrate"]
    <2>1. UNCHANGED <<taken, index>> /\ tmp # NoBackup
      BY <1>0 DEF Install, Rotation, TmpNewest
    <2>2. backups'[0] = tmp /\ \A j \in Names \ {0} : backups'[j] = backups[j]
      BY <1>2, NamesFacts DEF TypeOK
    <2>3. \A j \in Present' : j # 0 => j \in Present /\ backups'[j] = backups[j]
      BY <2>2 DEF Present
    <2>4. \A q \in Procs : pc'[q] \notin BackupSteps
      <3> TAKE q \in Procs
      <3>1. CASE q = p
        BY <1>2, <3>1 DEF TypeOK, BackupSteps
      <3>2. CASE q # p
        BY <1>0, <1>2, <3>2, Alone DEF TypeOK, LockedSteps
      <3> QED BY <3>1, <3>2
    <2>5. TmpNewest'
      <3>1. \A j \in Present' : backups'[j].n <= taken
        BY <2>1, <2>2, <2>3 DEF Rotation, TmpNewest
      <3> QED BY <1>2, <2>1, <2>4, <3>1 DEF TmpNewest
    <2>6. NewestFirst'
      <3> SUFFICES ASSUME NEW j \in Present', NEW k \in Present', j < k
                   PROVE  backups'[j].n > backups'[k].n
        BY DEF NewestFirst
      <3>0. j \in Nat /\ k \in Nat
        BY NamesFacts DEF Present
      <3>1. k # 0 /\ k \in Present /\ backups'[k] = backups[k]
        BY <2>3, <3>0
      <3>2. backups[k] \in Backup /\ tmp \in Backup
        BY <2>1, <3>1 DEF Present, TypeOK
      <3>3. CASE j = 0
        BY <2>1, <2>2, <3>1, <3>2, <3>3, BackupFacts DEF Rotation, TmpNewest
      <3>4. CASE j # 0
        BY <2>3, <3>1, <3>4 DEF Rotation, NewestFirst
      <3> QED BY <3>3, <3>4
    <2>7. RoomMade'
      BY <2>4 DEF RoomMade, BackupSteps
    <2> QED BY <2>5, <2>6, <2>7 DEF Rotation
  <1> QED BY <1>1, <1>2 DEF Install, Goto

LEMMA RotationCleanup ==
    ASSUME TypeOK, LockHeld, Rotation, NEW p \in Procs, Cleanup(p) PROVE Rotation'
  <1>0. pc[p] \in LockedSteps /\ UNCHANGED <<backups, taken, index>>
        /\ pc' = [pc EXCEPT ![p] = "failed"]
    BY DEF Cleanup, Goto, LockedSteps
  <1>1. \A q \in Procs : pc'[q] \notin BackupSteps
    <2> TAKE q \in Procs
    <2>1. CASE q = p
      BY <1>0, <2>1 DEF TypeOK, BackupSteps
    <2>2. CASE q # p
      BY <1>0, <2>2, Alone DEF TypeOK, LockedSteps
    <2> QED BY <2>1, <2>2
  <1>2. Present' = Present
    BY <1>0 DEF Present
  <1>3. tmp' = NoBackup \/ tmp' = tmp
    BY DEF Cleanup
  <1>4. TmpNewest'
    BY <1>0, <1>1, <1>2, <1>3 DEF Rotation, TmpNewest
  <1>5. NewestFirst'
    BY <1>0, <1>2 DEF Rotation, NewestFirst
  <1>6. RoomMade'
    BY <1>1 DEF RoomMade, BackupSteps
  <1> QED BY <1>4, <1>5, <1>6 DEF Rotation

LEMMA RotationKill ==
    ASSUME TypeOK, LockHeld, Rotation, NEW p \in Procs, Kill(p) PROVE Rotation'
  <1>1. \A q \in Procs : pc'[q] \in BackupSteps => pc'[q] = pc[q]
    BY DEF Kill, End, Goto, TypeOK, BackupSteps
  <1>2. UNCHANGED <<tmp, taken, index>>
    BY DEF Kill
  <1>3. backups' = Damaged \/ UNCHANGED backups
    BY DEF Kill, Damaged
  <1>4. CASE backups' = Damaged
    BY <1>1, <1>2, <1>4, DamagingStep
  <1>5. CASE UNCHANGED backups
    BY <1>1, <1>2, <1>5, QuietStep
  <1> QED BY <1>3, <1>4, <1>5

LEMMA RotationPreserved ==
    ASSUME TypeOK, LockHeld, Rotation, [Next]_vars PROVE Rotation'
  <1>1. CASE UNCHANGED vars
    BY <1>1, QuietStep DEF vars
  <1>2. CASE Next
    <2> PICK p \in Procs : Start(p) \/ Step(p) \/ Write(p) \/ Exit(p) \/ Kill(p)
      BY <1>2 DEF Next
    <2>1. CASE Start(p) \/ Check(p) \/ LockStore(p) \/ Migrate(p) \/ Write(p) \/ Exit(p)
      <3>1. UNCHANGED <<tmp, backups, taken, index>>
        BY <2>1 DEF Start, Check, LockStore, Migrate, Write, Exit
      <3>2. \A q \in Procs : pc'[q] \in BackupSteps => pc'[q] = pc[q]
        BY <2>1 DEF Start, Check, LockStore, Migrate, Write, Exit, End, Goto, TypeOK, BackupSteps
      <3> QED BY <3>1, <3>2, QuietStep
    <2> QED
      BY <2>1, RotationCopyBegin, RotationCopyEnd, RotationPrune, RotationShiftOne,
         RotationInstall, RotationCleanup, RotationKill DEF Step
  <1> QED BY <1>1, <1>2

-----------------------------------------------------------------------------
(* The theorems. *)

LEMMA InitHolds == Init => IInv
  <1> SUFFICES ASSUME Init PROVE IInv
    OBVIOUS
  <1>1. TypeOK
    <2>1. version \in Nat /\ row \in Nat /\ first \in FirstVersions
      BY MigrationAssumption DEF Init
    <2>2. index \in [Procs -> Names]
      BY NamesFacts DEF Init
    <2>3. pc \in [Procs -> {"idle", "open"} \cup OpenSteps]
      BY DEF Init
    <2>4. /\ writes \in 0..MaxWrites /\ taken \in Nat
          /\ faults \in 0..MaxFaults /\ kills \in 0..MaxKills
      BY MigrationAssumption DEF Init
    <2>5. lost \in BOOLEAN /\ botched \in BOOLEAN
      BY DEF Init
    <2>6. /\ storeLock \in Procs \cup {NoProc} /\ tmp \in Backup \cup {NoBackup}
          /\ backups \in [Names -> Backup \cup {NoBackup}]
      BY DEF Init
    <2> QED BY <2>1, <2>2, <2>3, <2>4, <2>5, <2>6 DEF TypeOK
  <1>2. LockHeld /\ RoomMade
    BY DEF Init, LockHeld, RoomMade, LockedSteps, BackupSteps
  <1>3. TmpNewest /\ NewestFirst
    BY DEF Init, TmpNewest, NewestFirst, Present, BackupSteps
  <1> QED BY <1>1, <1>2, <1>3 DEF IInv

\* The inductive invariant holds: types, the owner of the store lock, the age of
\* the copy in tmp, the room made by the rotation and the order of the backups.
THEOREM MigrationInvariance == Spec => []IInv
  <1>1. Init => IInv
    BY InitHolds
  <1>2. IInv /\ [Next]_vars => IInv'
    BY TypePreserved, LockPreserved, RotationPreserved DEF IInv, Rotation
  <1> QED BY <1>1, <1>2, PTL DEF Spec

\* Whatever fails or is killed in the rotation of createBackup, and however many
\* backups are kept, the backup with the smaller name is the newer one.
THEOREM BackupsNewestFirst == Spec => []NewestFirst
  <1>1. IInv => NewestFirst
    BY DEF IInv
  <1> QED BY <1>1, MigrationInvariance, PTL

\* One step of the rotation, seen as a step of the log of backups.
LEMMA LogStep ==
    ASSUME IInv, [Next]_vars
    PROVE  [Log!Take \/ Log!Forget]_{backups[i].n : i \in Present}
  <1> DEFINE kept == {backups[i].n : i \in Present}
  <1>0. TypeOK /\ LockHeld /\ TmpNewest /\ RoomMade /\ NewestFirst
    BY DEF IInv
  <1>1. ASSUME UNCHANGED backups PROVE kept' = kept
    BY <1>1 DEF Present
  <1>2. ASSUME backups' = Damaged PROVE kept' = kept
    <2>1. Present' = Present /\ \A i \in Present : backups'[i].n = backups[i].n
      BY <1>0, <1>2, DamagedFacts DEF Present
    <2> QED BY <2>1
  <1>3. ASSUME NEW p \in Procs, Prune(p) PROVE kept' = kept \/ Log!Forget
    <2>1. CASE backups' = Damaged
      BY <1>2, <2>1
    <2>2. CASE backups' = [i \in Names |-> IF i >= BackupsNumber - 1 THEN NoBackup ELSE backups[i]]
      <3> DEFINE l == BackupsNumber - 1
      <3>1. l \in Names /\ \A i \in Names : i \in Nat /\ (i >= l <=> i = l) /\ (i # l => i < l)
        BY NamesFacts, MigrationAssumption DEF Names
      <3>2. /\ Present' = Present \ {l}
            /\ \A i \in Present' : backups'[i] = backups[i]
        BY <2>2, <3>1 DEF Present
      <3>3. CASE l \notin Present
        BY <3>2, <3>3
      <3>4. CASE l \in Present
        <4>1. \A i \in Present : backups[i].n \in Nat
          BY <1>0, BackupFacts DEF Present, TypeOK
        <4>2. \A i \in Present : i # l => backups[i].n > backups[l].n
          BY <1>0, <3>1, <3>4 DEF NewestFirst, Present
        <4>3. kept' = kept \ {backups[l].n}
          BY <3>2, <4>1, <4>2
        <4>4. \A m \in kept : backups[l].n <= m
          BY <4>1, <4>2, <3>4
        <4> QED BY <3>4, <4>3, <4>4 DEF Log!Forget
      <3> QED BY <3>3, <3>4
    <2> QED BY <1>3, <2>1, <2>2 DEF Prune, Damaged
  <1>4. ASSUME NEW p \in Procs, ShiftOne(p) PROVE kept' = kept
    <2> DEFINE i == index[p]
    <2>1. /\ i \in Names /\ i + 1 \in Names /\ i \in Nat /\ backups[i + 1] = NoBackup
      BY <1>0, <1>4, NamesFacts DEF ShiftOne, RoomMade, TypeOK
    <2>2. CASE UNCHANGED backups
      BY <1>1, <2>2
    <2>3. CASE /\ backups[i] # NoBackup
               /\ backups' = [backups EXCEPT ![i + 1] = backups[i], ![i] = NoBackup]
      <3>1. /\ backups'[i] = NoBackup /\ backups'[i + 1] = backups[i]
            /\ \A j \in Names \ {i, i + 1} : backups'[j] = backups[j]
        BY <1>0, <2>1, <2>3 DEF TypeOK
      <3>2. Present' = (Present \ {i}) \cup {i + 1} /\ i \in Present
        BY <2>1, <2>3, <3>1 DEF Present
      <3>3. kept' \subseteq kept
        BY <2>1, <3>1, <3>2 DEF Present
      <3>4. ASSUME NEW j \in Present PROVE backups[j].n \in kept'
        <4>1. CASE j = i
          BY <3>1, <3>2, <4>1
        <4>2. CASE j # i
          <5>1. j # i + 1 /\ j \in Present' /\ backups'[j] = backups[j]
            BY <2>1, <3>1, <3>2, <4>2 DEF Present
          <5> QED BY <5>1
        <4> QED BY <4>1, <4>2
      <3> QED BY <3>3, <3>4
    <2> QED BY <1>4, <2>2, <2>3 DEF ShiftOne
  <1>5. ASSUME NEW p \in Procs, Install(p) PROVE kept' = kept \/ Log!Take
    <2>0. backups[0] = NoBackup /\ tmp # NoBackup
      BY <1>0, <1>5 DEF Install, RoomMade, TmpNewest, BackupSteps
    <2>1. CASE UNCHANGED backups
      BY <1>1, <2>1
    <2>2. CASE backups' = [backups EXCEPT ![0] = tmp]
      <3>1. backups'[0] = tmp /\ \A j \in Names \ {0} : backups'[j] = backups[j]
        BY <1>0, <2>2, NamesFacts DEF TypeOK
      <3>0. 0 \in Names
        BY NamesFacts
      <3>2. Present' = Present \cup {0} /\ 0 \notin Present
        <4>1. \A j \in Names : j \in Present' <=> j = 0 \/ j \in Present
          BY <2>0, <3>0, <3>1 DEF Present
        <4>2. Present \subseteq Names /\ Present' \subseteq Names /\ 0 \notin Present
          BY <2>0 DEF Present
        <4> QED BY <3>0, <4>1, <4>2
      <3>3. kept' = kept \cup {tmp.n}
        <4>1. \A j \in Present : j \in Present' /\ backups'[j].n = backups[j].n
          BY <3>1, <3>2 DEF Present
        <4>2. \A j \in Present' : j = 0 \/ j \in Present
          BY <3>2
        <4> QED BY <3>1, <3>2, <4>1, <4>2
      <3>4. \A m \in kept : m < tmp.n
        BY <1>0, <2>0 DEF TmpNewest
      <3> QED BY <3>3, <3>4 DEF Log!Take
    <2> QED BY <1>5, <2>1, <2>2 DEF Install
  <1>6. CASE UNCHANGED vars
    BY <1>1, <1>6 DEF vars
  <1>7. CASE Next
    <2> PICK p \in Procs : Start(p) \/ Step(p) \/ Write(p) \/ Exit(p) \/ Kill(p)
      BY <1>7 DEF Next
    <2>1. CASE \/ Start(p) \/ Check(p) \/ LockStore(p) \/ CopyBegin(p) \/ CopyEnd(p)
               \/ Cleanup(p) \/ Migrate(p) \/ Write(p) \/ Exit(p)
      <3>1. UNCHANGED backups
        BY <2>1 DEF Start, Check, LockStore, CopyBegin, CopyEnd, Cleanup, Migrate, Write, Exit
      <3> QED BY <1>1, <3>1
    <2>2. CASE Kill(p)
      <3>1. backups' = Damaged \/ UNCHANGED backups
        BY <2>2 DEF Kill, Damaged
      <3> QED BY <1>1, <1>2, <3>1
    <2> QED BY <1>3, <1>4, <1>5, <2>1, <2>2 DEF Step
  <1> QED BY <1>6, <1>7

\* The rotation implements the log of backups: a step adds a newer backup, forgets
\* the oldest one, or does not show.
THEOREM RotationRefines == Spec => ImplementsBackupLog
  <1>1. Init => Log!Init
    BY DEF Init, Log!Init, Present
  <1>2. IInv /\ [Next]_vars => [Log!Take \/ Log!Forget]_{backups[i].n : i \in Present}
    BY LogStep
  <1> QED BY <1>1, <1>2, MigrationInvariance, PTL DEF Spec, ImplementsBackupLog, Log!Spec

-----------------------------------------------------------------------------
(* The version of an open database. *)

\* All processes run one release of rkt.
OneRelease == \A p, q \in Procs : Release[p] = Release[q]

\* While nothing was lost, nobody who is to migrate the database, or does, finds
\* it newer than its own version.
NotNewer ==
    ~lost => \A p \in Procs : pc[p] \in {"lock"} \cup LockedSteps => version <= Release[p]

\* A row that is not the version of the tables is what a migration left.
RowLags == \A p \in Procs : row # version => version = Release[p]

VersionInv == OneRelease => OpenedIsCurrent /\ NotNewer /\ RowLags

LEMMA RowPreserved == ASSUME OneRelease, RowLags, [Next]_vars PROVE RowLags'
  <1>1. CASE UNCHANGED <<row, version>>
    BY <1>1 DEF RowLags
  <1>2. CASE ~UNCHANGED <<row, version>>
    <2> PICK p \in Procs : Start(p) \/ Step(p) \/ Write(p) \/ Exit(p) \/ Kill(p)
      BY <1>2 DEF Next, vars
    <2>1. Check(p) \/ Migrate(p)
      BY <1>2 DEF Start, Step, LockStore, CopyBegin, CopyEnd, Prune, ShiftOne, Install,
                  Cleanup, Write, Exit, Kill
    <2>2. version' = Release[p]
      BY <1>2, <2>1 DEF Check, Migrate, CommitVersion
    <2> QED BY <2>2 DEF RowLags, OneRelease
  <1> QED BY <1>1, <1>2

LEMMA VersionPreserved == ASSUME TypeOK, VersionInv, [Next]_vars PROVE VersionInv'
  <1> SUFFICES ASSUME OneRelease PROVE OpenedIsCurrent' /\ NotNewer'
    BY RowPreserved DEF VersionInv, OneRelease
  <1>0. OpenedIsCurrent /\ NotNewer /\ RowLags
    BY DEF VersionInv
  <1>1. CASE UNCHANGED vars
    BY <1>0, <1>1 DEF OpenedIsCurrent, NotNewer, vars
  <1>2. CASE Next
    <2> PICK p \in Procs : Start(p) \/ Step(p) \/ Write(p) \/ Exit(p) \/ Kill(p)
      BY <1>2 DEF Next
    <2> SUFFICES ASSUME ~lost', NEW q \in Procs
                 PROVE  /\ pc'[q] = "open" => version' = Release[q]
                        /\ pc'[q] \in {"lock"} \cup LockedSteps => version' <= Release[q]
      BY DEF OpenedIsCurrent, NotNewer
    <2>0. ~lost /\ Release[p] = Release[q] /\ Release[q] \in Nat \ {0} /\ version \in Nat /\ row \in Nat
      <3>1. ~lost
        BY DEF Start, Step, Check, LockStore, CopyBegin, CopyEnd, Prune, ShiftOne, Install,
               Cleanup, Migrate, Write, Exit, Kill, CommitVersion
      <3> QED BY <3>1, MigrationAssumption DEF OneRelease, TypeOK
    <2>1. /\ pc[q] = "open" => version = Release[q]
          /\ pc[q] \in {"lock"} \cup LockedSteps => version <= Release[q]
      BY <1>0, <2>0 DEF OpenedIsCurrent, NotNewer
    <2>2. CASE Check(p)
      <3>1. CASE q = p
        <4>1. version' = version \/ (version = 0 /\ version' = Release[p])
          BY <2>2 DEF Check, CommitVersion
        <4>2. CASE version = 0 /\ CommitVersion(Release[p]) /\ Goto(p, "open")
          BY <2>0, <3>1, <4>2 DEF CommitVersion, Goto, TypeOK, LockedSteps, BackupSteps
        <4>3. CASE /\ version # 0 /\ UNCHANGED version
                   /\ Goto(p, IF row = 0 \/ row > Release[p] THEN "failed"
                              ELSE IF row < Release[p] THEN "lock" ELSE "open")
          BY <1>0, <2>0, <3>1, <4>3 DEF Goto, TypeOK, LockedSteps, BackupSteps, RowLags
        <4>4. CASE Goto(p, "failed")
          BY <3>1, <4>4 DEF Goto, TypeOK, LockedSteps, BackupSteps
        <4> QED BY <2>2, <4>2, <4>3, <4>4 DEF Check
      <3>2. CASE q # p
        <4>1. pc'[q] = pc[q]
          BY <2>2, <3>2 DEF Check, Goto, TypeOK
        <4>2. version' = version \/ (version = 0 /\ version' = Release[p])
          BY <2>2 DEF Check, CommitVersion
        <4> QED BY <2>0, <2>1, <4>1, <4>2
      <3> QED BY <3>1, <3>2
    <2>3. CASE Migrate(p)
      <3>1. version <= Release[q]
        BY <1>0, <2>0, <2>3 DEF NotNewer, Migrate, LockedSteps
      <3>2. version' = version \/ version' = Release[p]
        BY <2>3 DEF Migrate, CommitVersion
      <3>3. CASE q = p
        <4>1. CASE pc'[p] = "open"
          <5>1. version' = Release[p]
            BY <1>0, <2>0, <2>3, <3>1, <4>1 DEF Migrate, CommitVersion, Goto, TypeOK, RowLags
          <5> QED BY <2>0, <3>3, <4>1, <5>1 DEF LockedSteps, BackupSteps
        <4>2. CASE pc'[p] = "failed"
          BY <3>3, <4>2 DEF LockedSteps, BackupSteps
        <4> QED BY <2>3, <4>1, <4>2 DEF Migrate, Goto, TypeOK
      <3>4. CASE q # p
        <4>1. pc'[q] = pc[q]
          BY <2>3, <3>4 DEF Migrate, Goto, TypeOK
        <4> QED BY <2>0, <2>1, <3>1, <3>2, <4>1
      <3> QED BY <3>3, <3>4
    <2>4. CASE \/ Start(p) \/ LockStore(p) \/ CopyBegin(p) \/ CopyEnd(p) \/ Prune(p)
               \/ ShiftOne(p) \/ Install(p) \/ Cleanup(p) \/ Write(p) \/ Exit(p) \/ Kill(p)
      <3>1. UNCHANGED version
        BY <2>4 DEF Start, LockStore, CopyBegin, CopyEnd, Prune, ShiftOne, Install, Cleanup,
                    Write, Exit, Kill
      <3>2. pc'[q] = "open" => pc[q] = "open"
        BY <2>4 DEF Start, LockStore, CopyBegin, CopyEnd, Prune, ShiftOne, Install, Cleanup,
                    Write, Exit, Kill, End, Goto, TypeOK
      <3>3. pc'[q] \in {"lock"} \cup LockedSteps => pc[q] \in {"lock"} \cup LockedSteps
        BY <2>4 DEF Start, LockStore, CopyBegin, CopyEnd, Prune, ShiftOne, Install, Cleanup,
                    Write, Exit, Kill, End, Goto, TypeOK, LockedSteps, BackupSteps
      <3> QED BY <2>1, <3>1, <3>2, <3>3
    <2> QED BY <2>2, <2>3, <2>4 DEF Step
  <1> QED BY <1>1, <1>2

\* If all processes run one release of rkt, a command that has the store open
\* works on tables of its own version, unless a commit was lost, even after a
\* migration that did not update the row.
THEOREM OpenedStaysCurrent == Spec => [](OneRelease => OpenedIsCurrent)
  <1>1. Init => VersionInv
    BY DEF Init, VersionInv, OpenedIsCurrent, NotNewer, RowLags, LockedSteps, BackupSteps
  <1>2. IInv /\ VersionInv /\ [Next]_vars => VersionInv'
    BY VersionPreserved DEF IInv
  <1>3. VersionInv => (OneRelease => OpenedIsCurrent)
    BY DEF VersionInv
  <1> QED BY <1>1, <1>2, <1>3, MigrationInvariance, PTL DEF Spec

-----------------------------------------------------------------------------
(* The backup of the database as it was before the migration. *)

\* There are no more processes than backups.
FewProcesses == IsFiniteSet(Procs) /\ Cardinality(Procs) <= BackupsNumber

\* The version changes only once, to the one of the release.
OnlyMigrated == \A p \in Procs : version # first => version = Release[p] /\ first < Release[p]

\* Until then nobody writes who does not hold the store lock (a process has the
\* database open if the commit of its migration was lost), so that the copy of the
\* process that backs up is whole.
Copied ==
    version = first => \A p \in Procs : first < Release[p] =>
        /\ pc[p] = "open" => storeLock = p
        /\ pc[p] = "copying" => tmp.v = version /\ tmp.w = writes
        /\ pc[p] \in {"prune", "shift", "install"} => tmp.v = first /\ tmp.whole
        /\ pc[p] = "migrate" => /\ backups[0] # NoBackup
                                /\ backups[0].v = first /\ backups[0].whole

\* The processes that may still move the backup of name i to name i + 1.
Movers(i) == {p \in Procs : \/ pc[p] \in {"lock", "copy", "copying", "prune"}
                            \/ pc[p] = "shift" /\ index[p] >= i}

\* A backup of the database as it was, which is not pruned even if all who may
\* move it do.
SafeAt(i) ==
    /\ backups[i].v = first /\ backups[i].whole
    /\ i + Cardinality(Movers(i)) < BackupsNumber

Kept == version # first => \E i \in Present : SafeAt(i)

RowRead == row = version

BackupInv == RowRead /\ OnlyMigrated /\ Copied /\ Kept

\* The hypotheses of this section.
Assumed == OneRelease /\ FewProcesses /\ first # 0 /\ ~botched

LEMMA RowReadPreserved == ASSUME RowRead, [Next]_vars, ~botched' PROVE RowRead'
  BY DEF RowRead, Next, vars, Start, Step, Check, LockStore, CopyBegin, CopyEnd, Prune, ShiftOne,
         Install, Cleanup, Migrate, Write, Exit, Kill, CommitVersion

LEMMA BotchedStays == ASSUME [Next]_vars, ~botched' PROVE ~botched
  BY DEF Next, vars, Start, Step, Check, LockStore, CopyBegin, CopyEnd, Prune, ShiftOne,
         Install, Cleanup, Migrate, Write, Exit, Kill

\* Fewer processes are fewer movers.
LEMMA FewerMovers ==
    ASSUME FewProcesses, NEW M \in SUBSET Procs, NEW N \in SUBSET M
    PROVE  /\ Cardinality(M) \in Nat /\ Cardinality(N) \in Nat
           /\ Cardinality(N) <= Cardinality(M)
           /\ \A p \in M \ N : Cardinality(N) < Cardinality(M)
  <1>1. IsFiniteSet(M)
    BY FS_Subset DEF FewProcesses
  <1>2. IsFiniteSet(N) /\ Cardinality(N) <= Cardinality(M) /\ (Cardinality(M) = Cardinality(N) => M = N)
    BY <1>1, FS_Subset
  <1>3. Cardinality(M) \in Nat /\ Cardinality(N) \in Nat
    BY <1>1, <1>2, FS_CardinalityType
  <1> QED BY <1>2, <1>3

LEMMA MoversAreProcs == \A i : Movers(i) \subseteq Procs /\ Movers(i)' \subseteq Procs
  BY DEF Movers

\* The backup is safe after a step that leaves it where it is, or moves it on by
\* one of those who may.
LEMMA StillSafe ==
    ASSUME FewProcesses, NEW i \in Present, SafeAt(i), NEW j \in Names,
           backups'[j] = backups[i], UNCHANGED first, Movers(j)' \subseteq Movers(i),
           j = i \/ (j = i + 1 /\ \E p \in Movers(i) : p \notin Movers(j)')
    PROVE  \E k \in Present' : SafeAt(k)'
  <1> DEFINE M == Movers(i)
             N == Movers(j)'
  <1>1. /\ Cardinality(M) \in Nat /\ Cardinality(N) \in Nat
        /\ Cardinality(N) <= Cardinality(M)
        /\ \A p \in M \ N : Cardinality(N) < Cardinality(M)
    <2>1. M \in SUBSET Procs /\ N \in SUBSET M
      BY MoversAreProcs
    <2> HIDE DEF M, N
    <2> QED BY <2>1, FewerMovers
  <1>2. i \in Nat /\ j \in Nat /\ BackupsNumber \in Nat
    BY NamesFacts, MigrationAssumption DEF Present
  <1>3. i + Cardinality(M) < BackupsNumber
    BY DEF SafeAt
  <1>4. j + Cardinality(N) < BackupsNumber
    <2>1. CASE j = i
      <3> HIDE DEF M, N
      <3> QED BY <1>1, <1>2, <1>3, <2>1
    <2>2. CASE j = i + 1 /\ \E p \in M : p \notin N
      <3> HIDE DEF M, N
      <3> QED BY <1>1, <1>2, <1>3, <2>2
    <2> QED BY <2>1, <2>2
  <1>5. j \in Present'
    BY DEF Present
  <1>6. SafeAt(j)'
    BY <1>4 DEF SafeAt
  <1> QED BY <1>5, <1>6

\* Nobody joins the movers of a migrated database.
LEMMA NoNewMover ==
    ASSUME TypeOK, Assumed, RowRead, OnlyMigrated, version # first, NEW p \in Procs, NEW i,
           \/ Start(p) \/ Check(p) \/ LockStore(p) \/ CopyBegin(p) \/ CopyEnd(p)
           \/ Install(p) \/ Cleanup(p) \/ Migrate(p) \/ Write(p) \/ Exit(p) \/ Kill(p)
    PROVE  Movers(i)' \subseteq Movers(i)
  <1>1. version = Release[p] /\ version \in Nat \ {0}
    BY MigrationAssumption DEF OnlyMigrated
  <1>2. UNCHANGED index
    BY DEF Start, Check, LockStore, CopyBegin, CopyEnd, Install, Cleanup, Migrate, Write, Exit, Kill
  <1>3. ASSUME NEW q \in Procs
        PROVE  /\ pc'[q] \in {"lock", "copy", "copying", "prune"} =>
                        pc[q] \in {"lock", "copy", "copying", "prune"}
               /\ pc'[q] = "shift" => pc[q] = "shift"
    <2>1. CASE Check(p)
      BY <1>1, <2>1 DEF Check, Goto, TypeOK, RowRead
    <2>2. CASE Start(p) \/ LockStore(p) \/ CopyBegin(p) \/ CopyEnd(p)
      BY <2>2 DEF Start, LockStore, CopyBegin, CopyEnd, Goto, TypeOK
    <2>3. CASE Install(p) \/ Cleanup(p) \/ Migrate(p) \/ Write(p) \/ Exit(p) \/ Kill(p)
      BY <2>3 DEF Install, Cleanup, Migrate, Write, Exit, Kill, End, Goto, TypeOK
    <2> QED BY <2>1, <2>2, <2>3
  <1> QED BY <1>2, <1>3 DEF Movers

\* The backup that is safe is not the one that a mover prunes.
LEMMA NotPruned ==
    ASSUME FewProcesses, NEW i \in Present, SafeAt(i), NEW p \in Movers(i)
    PROVE  ~(i >= BackupsNumber - 1)
  <1>1. {} \in SUBSET Movers(i) /\ Movers(i) \in SUBSET Procs
    BY MoversAreProcs
  <1>2. Cardinality({}) = 0
    BY FS_EmptySet
  <1>3. Cardinality(Movers(i)) \in Nat /\ Cardinality(Movers(i)) > 0
    BY <1>1, <1>2, FewerMovers
  <1> QED BY <1>3, NamesFacts, MigrationAssumption DEF SafeAt, Present

LEMMA KeptPrune ==
    ASSUME IInv, Assumed, BackupInv, version # first, NEW p \in Procs, Prune(p)
    PROVE  \E k \in Present' : SafeAt(k)'
  <1> PICK i \in Present : SafeAt(i)
    BY DEF BackupInv, Kept
  <1>0. TypeOK /\ LockHeld /\ FewProcesses /\ i \in Names /\ i \in Nat
    BY NamesFacts DEF IInv, Assumed, Present
  <1>1. p \in Movers(i) /\ pc[p] = "prune" /\ pc[p] \in LockedSteps
    BY DEF Prune, Movers, LockedSteps, BackupSteps
  <1>2. ~(i >= BackupsNumber - 1)
    BY <1>0, <1>1, NotPruned
  <1>3. backups'[i] = backups[i] /\ UNCHANGED first
    BY <1>0, <1>2 DEF Prune
  <1>4. Movers(i)' \subseteq Movers(i)
    <2>1. ASSUME NEW q \in Procs, q # p PROVE pc'[q] = pc[q] /\ index'[q] = index[q]
      BY <1>0, <2>1 DEF Prune, Goto, TypeOK
    <2> QED BY <1>1, <2>1 DEF Movers
  <1> QED BY <1>0, <1>3, <1>4, StillSafe

LEMMA KeptShiftOne ==
    ASSUME IInv, Assumed, BackupInv, version # first, NEW p \in Procs, ShiftOne(p)
    PROVE  \E k \in Present' : SafeAt(k)'
  <1> PICK i \in Present : SafeAt(i)
    BY DEF BackupInv, Kept
  <1> DEFINE j == index[p]
  <1>0. TypeOK /\ LockHeld /\ RoomMade /\ FewProcesses /\ i \in Names /\ i \in Nat /\ UNCHANGED first
    BY NamesFacts DEF IInv, Assumed, Present, ShiftOne
  <1>1. /\ pc[p] = "shift" /\ j \in Names /\ j \in Nat /\ j + 1 \in Names /\ backups[j + 1] = NoBackup
        /\ backups[i] # NoBackup /\ i # j + 1
    BY <1>0, NamesFacts DEF ShiftOne, RoomMade, TypeOK, Present
  <1>2. ASSUME NEW q \in Procs, q # p PROVE pc'[q] = pc[q] /\ index'[q] = index[q]
    BY <1>0, <1>2 DEF ShiftOne, Goto, TypeOK
  <1>3. \/ pc'[p] \in {"install", "cleanup"}
        \/ pc'[p] = "shift" /\ j # 0 /\ index'[p] = j - 1
    BY <1>0, <1>1 DEF ShiftOne, Goto, TypeOK
  <1>4. CASE UNCHANGED backups
    <2>1. Movers(i)' \subseteq Movers(i)
      BY <1>0, <1>1, <1>2, <1>3 DEF Movers
    <2> QED BY <1>0, <1>4, <2>1, StillSafe
  <1>5. CASE /\ backups' = [backups EXCEPT ![j + 1] = backups[j], ![j] = NoBackup]
             /\ i = j
    <2>1. backups'[i + 1] = backups[i]
      BY <1>0, <1>1, <1>5 DEF TypeOK
    <2>2. p \in Movers(i) /\ p \notin Movers(i + 1)'
      BY <1>0, <1>1, <1>3, <1>5 DEF Movers
    <2>3. Movers(i + 1)' \subseteq Movers(i)
      <3>1. ASSUME NEW q \in Procs, q # p, q \in Movers(i + 1)' PROVE q \in Movers(i)
        <4>1. ~(pc[q] = "shift")
          BY <1>0, <1>1, <3>1 DEF LockHeld, LockedSteps, BackupSteps
        <4> QED BY <1>2, <3>1, <4>1 DEF Movers
      <3>2. Movers(i + 1)' \subseteq Procs
        BY MoversAreProcs
      <3> QED BY <2>2, <3>1, <3>2
    <2>4. i + 1 \in Names
      BY <1>1, <1>5
    <2> QED BY <1>0, <2>1, <2>2, <2>3, <2>4, StillSafe
  <1>6. CASE /\ backups' = [backups EXCEPT ![j + 1] = backups[j], ![j] = NoBackup]
             /\ i # j
    <2>1. backups'[i] = backups[i]
      BY <1>0, <1>1, <1>6 DEF TypeOK
    <2>2. Movers(i)' \subseteq Movers(i)
      BY <1>0, <1>1, <1>2, <1>3 DEF Movers
    <2> QED BY <1>0, <2>1, <2>2, StillSafe
  <1> QED BY <1>4, <1>5, <1>6 DEF ShiftOne

LEMMA KeptOther ==
    ASSUME IInv, Assumed, BackupInv, version # first, NEW p \in Procs,
           \/ Start(p) \/ Check(p) \/ LockStore(p) \/ CopyBegin(p) \/ CopyEnd(p)
           \/ Install(p) \/ Cleanup(p) \/ Migrate(p) \/ Write(p) \/ Exit(p) \/ Kill(p)
    PROVE  \E k \in Present' : SafeAt(k)'
  <1> PICK i \in Present : SafeAt(i)
    BY DEF BackupInv, Kept
  <1>0. TypeOK /\ RoomMade /\ FewProcesses /\ i \in Names /\ backups[i] # NoBackup
    BY DEF IInv, Assumed, Present
  <1>1. Movers(i)' \subseteq Movers(i)
    BY <1>0, NoNewMover DEF BackupInv
  <1>2. UNCHANGED first
    BY DEF Start, Check, LockStore, CopyBegin, CopyEnd, Install, Cleanup, Migrate, Write, Exit, Kill
  <1>3. backups'[i] = backups[i]
    <2>1. CASE Install(p)
      <3>1. backups[0] = NoBackup
        BY <1>0, <2>1 DEF Install, RoomMade
      <3> QED BY <1>0, <2>1, <3>1 DEF Install, TypeOK
    <2>2. CASE Kill(p) /\ pc[p] = "prune"
      <3>1. p \in Movers(i)
        BY <2>2 DEF Movers
      <3>2. ~(i >= BackupsNumber - 1)
        BY <1>0, <3>1, NotPruned
      <3> QED BY <1>0, <2>2, <3>2 DEF Kill
    <2>3. CASE UNCHANGED backups
      BY <2>3
    <2> QED BY <2>1, <2>2, <2>3
      DEF Start, Check, LockStore, CopyBegin, CopyEnd, Cleanup, Migrate, Write, Exit, Kill
  <1> QED BY <1>0, <1>1, <1>2, <1>3, StillSafe

\* The first migration leaves the backup that its process has just installed.
LEMMA KeptMigrate ==
    ASSUME IInv, Assumed, BackupInv, version = first, NEW p \in Procs, Migrate(p), version' # version
    PROVE  \E k \in Present' : SafeAt(k)'
  <1>0. TypeOK /\ FewProcesses /\ 0 \in Names /\ BackupsNumber \in Nat
    BY NamesFacts, MigrationAssumption DEF IInv, Assumed
  <1>1. version < Release[p] /\ UNCHANGED <<backups, first>>
    BY DEF Migrate, CommitVersion, BackupInv, RowRead
  <1>2. backups[0] # NoBackup /\ backups[0].v = first /\ backups[0].whole
    BY <1>1 DEF BackupInv, Copied, Migrate
  <1>3. p \notin Movers(0)'
    BY <1>0 DEF Movers, Migrate, Goto, TypeOK
  <1>4. Movers(0)' \in SUBSET Procs
    BY MoversAreProcs
  <1>5. Procs \in SUBSET Procs /\ \A M \in SUBSET Procs : p \notin M => Cardinality(M) < BackupsNumber
    <2>1. ASSUME NEW M \in SUBSET Procs, p \notin M PROVE Cardinality(M) < BackupsNumber
      <3>1. /\ Cardinality(Procs) \in Nat /\ Cardinality(M) \in Nat
            /\ Cardinality(M) < Cardinality(Procs)
        BY <1>0, <2>1, FewerMovers
      <3> QED BY <1>0, <3>1 DEF FewProcesses
    <2> QED BY <2>1
  <1>6. Cardinality(Movers(0)') \in Nat /\ Cardinality(Movers(0)') < BackupsNumber
    BY <1>0, <1>3, <1>4, <1>5, FewerMovers
  <1>7. 0 \in Present'
    BY <1>0, <1>1, <1>2 DEF Present
  <1>8. SafeAt(0)'
    BY <1>1, <1>2, <1>6 DEF SafeAt
  <1> QED BY <1>7, <1>8

LEMMA FirstUnchanged == ASSUME [Next]_vars PROVE UNCHANGED first
  BY DEF Next, vars, Start, Step, Check, LockStore, CopyBegin, CopyEnd, Prune, ShiftOne, Install,
         Cleanup, Migrate, Write, Exit, Kill

LEMMA KeptPreserved == ASSUME IInv, Assumed, BackupInv, [Next]_vars PROVE Kept'
  <1> SUFFICES ASSUME version' # first' PROVE \E k \in Present' : SafeAt(k)'
    BY DEF Kept
  <1>0. UNCHANGED first
    BY FirstUnchanged
  <1>1. CASE UNCHANGED vars
    <2>1. PICK i \in Present : SafeAt(i)
      BY <1>1 DEF BackupInv, Kept, vars
    <2>2. i \in Names /\ backups'[i] = backups[i] /\ FewProcesses
      BY <1>1 DEF Present, vars, Assumed
    <2>3. Movers(i)' \subseteq Movers(i)
      BY <1>1 DEF Movers, vars
    <2> QED BY <1>0, <2>1, <2>2, <2>3, StillSafe
  <1>2. CASE Next
    <2> PICK p \in Procs : Start(p) \/ Step(p) \/ Write(p) \/ Exit(p) \/ Kill(p)
      BY <1>2 DEF Next
    <2>1. CASE version # first
      BY <2>1, KeptPrune, KeptShiftOne, KeptOther DEF Step
    <2>2. CASE version = first
      <3>1. Migrate(p)
        BY <1>0, <2>2 DEF Assumed, Start, Step, Check, LockStore, CopyBegin, CopyEnd, Prune, ShiftOne,
                          Install, Cleanup, Write, Exit, Kill
      <3> QED BY <1>0, <2>2, <3>1, KeptMigrate
    <2> QED BY <2>1, <2>2
  <1> QED BY <1>1, <1>2

LEMMA OnlyMigratedPreserved ==
    ASSUME IInv, Assumed, BackupInv, [Next]_vars PROVE OnlyMigrated'
  <1>0. UNCHANGED first /\ OneRelease /\ first # 0 /\ OnlyMigrated
    BY FirstUnchanged DEF Assumed, BackupInv
  <1>1. CASE UNCHANGED version
    BY <1>0, <1>1 DEF OnlyMigrated
  <1>2. CASE version' # version
    <2>1. Next
      BY <1>2 DEF vars
    <2> PICK p \in Procs : Start(p) \/ Step(p) \/ Write(p) \/ Exit(p) \/ Kill(p)
      BY <2>1 DEF Next
    <2>2. version # 0
      BY <1>0, MigrationAssumption DEF OnlyMigrated
    <2>3. Migrate(p)
      BY <1>2, <2>2 DEF Start, Step, Check, LockStore, CopyBegin, CopyEnd, Prune, ShiftOne,
                        Install, Cleanup, Write, Exit, Kill
    <2>4. version < Release[p] /\ version' = Release[p]
      BY <1>2, <2>3 DEF Migrate, CommitVersion, BackupInv, RowRead
    <2>5. version = first
      BY <1>0, <2>4, MigrationAssumption DEF OnlyMigrated
    <2> QED BY <1>0, <2>4, <2>5 DEF OnlyMigrated, OneRelease
  <1> QED BY <1>1, <1>2

LEMMA CopiedPreserved ==
    ASSUME IInv, Assumed, BackupInv, [Next]_vars PROVE Copied'
  <1>0. /\ UNCHANGED first /\ OneRelease /\ first # 0 /\ OnlyMigrated /\ Copied
        /\ TypeOK /\ LockHeld /\ TmpNewest
    BY FirstUnchanged DEF Assumed, BackupInv, IInv
  <1> SUFFICES ASSUME version' = first', NEW q \in Procs, first' < Release[q]
               PROVE  /\ pc'[q] = "open" => storeLock' = q
                      /\ pc'[q] = "copying" => tmp'.v = version' /\ tmp'.w = writes'
                      /\ pc'[q] \in {"prune", "shift", "install"} => tmp'.v = first' /\ tmp'.whole
                      /\ pc'[q] = "migrate" => /\ backups'[0] # NoBackup
                                               /\ backups'[0].v = first' /\ backups'[0].whole
    BY DEF Copied
  <1>1. CASE UNCHANGED vars
    BY <1>0, <1>1 DEF Copied, vars
  <1>2. CASE Next
    <2> PICK p \in Procs : Start(p) \/ Step(p) \/ Write(p) \/ Exit(p) \/ Kill(p)
      BY <1>2 DEF Next
    <2>0. /\ first < Release[p] /\ Release[p] = Release[q] /\ Release[p] \in Nat \ {0}
          /\ first \in Nat /\ version \in Nat /\ version' = first
      BY <1>0, MigrationAssumption DEF OneRelease, TypeOK
    <2>1. version = first /\ UNCHANGED version
      <3>1. version # first => version = Release[p]
        BY <1>0 DEF OnlyMigrated
      <3>2. version # first => UNCHANGED version
        BY <2>0, <3>1 DEF Start, Step, Check, LockStore, CopyBegin, CopyEnd, Prune, ShiftOne,
                          Install, Cleanup, Migrate, Write, Exit, Kill, CommitVersion
      <3> QED BY <2>0, <3>2
    <2>2. /\ pc[q] = "open" => storeLock = q
          /\ pc[q] = "copying" => tmp.v = version /\ tmp.w = writes
          /\ pc[q] \in {"prune", "shift", "install"} => tmp.v = first /\ tmp.whole
          /\ pc[q] = "migrate" => /\ backups[0] # NoBackup
                                  /\ backups[0].v = first /\ backups[0].whole
      BY <1>0, <2>0, <2>1 DEF Copied
    <2>3. ASSUME q # p, pc[p] \in LockedSteps PROVE pc[q] \notin LockedSteps /\ pc[q] # "open"
      BY <1>0, <2>2, <2>3 DEF LockHeld
    <2>4. CASE Start(p) \/ LockStore(p) \/ Cleanup(p)
      BY <1>0, <2>1, <2>2, <2>3, <2>4, MigrationAssumption
         DEF Start, LockStore, Cleanup, Goto, TypeOK, LockedSteps, BackupSteps, LockHeld
    <2>5. CASE Check(p)
      BY <1>0, <2>0, <2>1, <2>2, <2>5 DEF Check, Goto, TypeOK, BackupInv, RowRead
    <2>6. CASE CopyBegin(p)
      BY <1>0, <2>1, <2>2, <2>3, <2>6 DEF CopyBegin, Goto, TypeOK, LockedSteps, BackupSteps
    <2>7. CASE CopyEnd(p)
      <3>1. CASE q # p
        BY <1>0, <2>1, <2>2, <2>3, <2>7, <3>1 DEF CopyEnd, Goto, TypeOK, LockedSteps, BackupSteps
      <3>2. CASE q = p /\ pc' = [pc EXCEPT ![p] = "failed"]
        BY <1>0, <3>2 DEF TypeOK
      <3>3. CASE /\ q = p /\ pc' = [pc EXCEPT ![p] = "prune"]
                 /\ tmp' = [tmp EXCEPT !.whole = (tmp.v = version /\ tmp.w = writes)]
        <4>1. tmp \in Backup /\ pc'[p] = "prune"
          BY <1>0, <2>7, <3>3 DEF CopyEnd, TypeOK, TmpNewest, BackupSteps
        <4>2. tmp.v = version /\ tmp.w = writes
          BY <2>2, <2>7, <3>3 DEF CopyEnd
        <4>3. tmp'.v = tmp.v /\ tmp'.whole
          BY <3>3, <4>1, <4>2 DEF Backup
        <4> QED BY <1>0, <2>1, <3>3, <4>1, <4>2, <4>3
      <3> QED BY <2>7, <3>1, <3>2, <3>3 DEF CopyEnd, Goto
    <2>8. CASE Prune(p) \/ ShiftOne(p)
      BY <1>0, <2>1, <2>2, <2>3, <2>8 DEF Prune, ShiftOne, Goto, TypeOK, LockedSteps, BackupSteps
    <2>9. CASE Install(p)
      BY <1>0, <2>1, <2>2, <2>3, <2>9, NamesFacts
         DEF Install, Goto, TypeOK, TmpNewest, LockedSteps, BackupSteps
    <2>10. CASE Migrate(p)
      BY <1>0, <2>1, <2>2, <2>3, <2>10 DEF Migrate, Goto, TypeOK, LockedSteps, BackupSteps, LockHeld
    <2>11. CASE Write(p)
      <3>1. storeLock = p /\ pc[p] = "open"
        BY <1>0, <2>0, <2>1, <2>11 DEF Write, Copied
      <3>2. pc[q] # "copying"
        BY <1>0, <3>1 DEF LockHeld, LockedSteps, BackupSteps
      <3> QED BY <1>0, <2>1, <2>2, <2>11, <3>2 DEF Write
    <2>12. CASE Exit(p) \/ Kill(p)
      <3>1. CASE q = p
        BY <1>0, <2>12, <3>1 DEF Exit, Kill, End, Goto, TypeOK
      <3>2. CASE q # p
        <4>1. /\ pc'[q] = pc[q] /\ UNCHANGED <<tmp, writes>>
              /\ storeLock = q => storeLock' = q
          BY <1>0, <2>12, <3>2 DEF Exit, Kill, End, Goto, TypeOK
        <4>2. pc[q] = "migrate" => UNCHANGED backups
          BY <2>3, <2>12, <3>2 DEF Exit, Kill, LockedSteps, BackupSteps
        <4> QED BY <1>0, <2>1, <2>2, <4>1, <4>2
      <3> QED BY <3>1, <3>2
    <2> QED BY <2>4, <2>5, <2>6, <2>7, <2>8, <2>9, <2>10, <2>11, <2>12 DEF Step
  <1> QED BY <1>1, <1>2

\* If all processes run one release of rkt and there are no more of them than
\* backups, a migrated store has a whole backup of the database as it was before:
\* the processes that waited for the store lock rotate it (each by one name), and
\* nobody prunes it, whatever fails or is killed; a migration that did not update
\* the row is excepted, as in the property.
THEOREM MigratedStaysBackedUp ==
    Spec => [](OneRelease /\ FewProcesses => MigratedIsBackedUp)
  <1> DEFINE I == Assumed => BackupInv
  <1>1. Init => I
    BY DEF Init, BackupInv, RowRead, OnlyMigrated, Copied, Kept
  <1>2. IInv /\ I /\ [Next]_vars => I'
    <2> SUFFICES ASSUME IInv, I, [Next]_vars, Assumed' PROVE BackupInv'
      OBVIOUS
    <2>1. Assumed
      BY FirstUnchanged, BotchedStays DEF Assumed, OneRelease, FewProcesses
    <2>2. RowRead'
      BY <2>1, RowReadPreserved DEF Assumed, BackupInv
    <2> QED BY <2>1, <2>2, OnlyMigratedPreserved, CopiedPreserved, KeptPreserved DEF BackupInv
  <1>3. I => (OneRelease /\ FewProcesses => MigratedIsBackedUp)
    BY DEF Assumed, BackupInv, Kept, SafeAt, MigratedIsBackedUp
  <1> HIDE DEF I
  <1> QED BY <1>1, <1>2, <1>3, MigrationInvariance, PTL DEF Spec
=============================================================================
