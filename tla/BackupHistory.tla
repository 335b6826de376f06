--------------------------- MODULE BackupHistory ---------------------------
(* What the backup engine promises about the version history of a device,  *)
(* with no word about goroutines, locks or the database: the history is an *)
(* in-order selection of the configurations the device really had, never   *)
(* with two equal neighbours, numbered 1, 2, 3, ... with no gap.           *)
(* Scheduler implements it (SchedulerProofs!RefinesBackupHistory).         *)
EXTENDS Integers, Sequences

CONSTANTS Nodes,        \* the network devices
          Hashes,       \* the configurations a device can have, by SHA-256
          MaxRevision   \* bound: changes of one device's configuration

VARIABLES device,       \* device[n]: every configuration n has had, in order
          versions      \* versions[n]: the successful node_backups rows of n

historyVars == <<device, versions>>

Init == /\ \E h \in [Nodes -> Hashes] : device = [n \in Nodes |-> <<h[n]>>]
        /\ versions = [n \in Nodes |-> {}]

Reconfigure(n) ==
  /\ Len(device[n]) < MaxRevision
  /\ \E h \in Hashes \ {device[n][Len(device[n])]} :
        device' = [device EXCEPT ![n] = Append(@, h)]
  /\ UNCHANGED versions

(* A new version: a revision later than every recorded one, under the      *)
(* number after the newest, whose configuration it does not repeat.        *)
Record(n) ==
  /\ \E i \in 1..Len(device[n]), v \in {0} \cup {r.version : r \in versions[n]} :
        /\ \A r \in versions[n] : r.rev < i /\ r.version <= v
        /\ \A r \in versions[n] : r.version = v => r.hash # device[n][i]
        /\ versions' = [versions EXCEPT ![n] = @ \cup
                          {[version |-> v + 1, hash |-> device[n][i], rev |-> i]}]
  /\ UNCHANGED device

Next == \E n \in Nodes : Reconfigure(n) \/ Record(n)

Spec == Init /\ [][Next]_historyVars
=============================================================================
