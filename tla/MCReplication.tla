--------------------------- MODULE MCReplication ---------------------------
(* Replication for TLC: a primary and a backup, two request slots.         *)
EXTENDS Replication, TLC

CONSTANTS r1, r2, b1

OneBackup == <<b1>>

\* One client overwrites the object while another repairs it.
OverwriteAndRepair == r1 :> {"upload"} @@ r2 :> {"repair"}

\* One client uploads and deletes the object while another maintains it.
Lifecycle == r1 :> {"upload", "delete"} @@ r2 :> {"refresh", "switch", "repair", "delete"}

\* One client uploads while another repairs or switches.
Maintained == r1 :> {"upload"} @@ r2 :> {"repair", "switch"}

\* One client overwrites the object.
OnlyUploads == r1 :> {"upload"} @@ r2 :> {}

OneEach == r1 :> 1 @@ r2 :> 1

TwoAndOne == r1 :> 2 @@ r2 :> 1

\* Contents are interchangeable.
AlikeContents == Permutations(Contents)
=============================================================================
