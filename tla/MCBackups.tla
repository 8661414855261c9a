----------------------------- MODULE MCBackups -----------------------------
(* Small instances of Backups for TLC. *)
EXTENDS Backups, TLC

CONSTANTS f1, f2, t1, g1, g2, seg

\* Two full backups, one of a tenant; two rows for one WAL segment.
Kinds == f1 :> "full" @@ f2 :> "full" @@ t1 :> "tenant" @@ g1 :> "wal" @@ g2 :> "wal"
Files == f1 :> f1 @@ f2 :> f2 @@ t1 :> t1 @@ g1 :> seg @@ g2 :> seg

MCKind == [b \in Backup |-> Kinds[b]]
MCFile == [b \in Backup |-> Files[b]]

Workers == Permutations(Worker)
=============================================================================
