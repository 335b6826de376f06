---------------------------- MODULE MCSftpExport ----------------------------
(* SftpExport on small instances: two versions of one node.                *)
EXTENDS SftpExport, TLC

CONSTANTS n1, a1, a2, k1, k2

MCOwner == [b \in Backups |-> n1]

(* The server at a1 is set up anew and offers another key than before.    *)
MCPresents == a1 :> {k1, k2} @@ a2 :> {k2}
=============================================================================
