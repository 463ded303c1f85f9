------------------------------- MODULE BackupLog -------------------------------
(***************************************************************************)
(* What createBackup promises (store/backup.go:27): a log of backups to     *)
(* which ever newer ones are added and which forgets nothing but its oldest. *)
(* A backup is known by the number its copy was begun under.                 *)
(***************************************************************************)
EXTENDS Naturals

VARIABLE kept       \* the numbers of the backups in the log

Init == kept = {}

Take == \E n \in kept' : /\ \A m \in kept : m < n
                         /\ kept' = kept \cup {n}

Forget == \E n \in kept : /\ \A m \in kept : n <= m
                          /\ kept' = kept \ {n}

Spec == Init /\ [][Take \/ Forget]_kept
=============================================================================
