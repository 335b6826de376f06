------------------------------ MODULE Alerting ------------------------------
(* Scheduler and AlertDispatch together: a backup that has something to    *)
(* tell calls Dispatch in the same step, and the process takes the         *)
(* goroutines that are still sending with it when it ends.                 *)
EXTENDS Scheduler, AlertDispatch

alertingVars == <<vars, dispatchVars>>

AlertingInit == Init /\ DispatchInit

NewsAbout(n, news) == IF n \in Watched THEN <<n, news, 0>> ELSE Other
DriftOf(n, v) == IF <<n, "drift", v>> \in Drifts THEN <<n, "drift", v>> ELSE Other

Calls(sent, m) == IF sent THEN Dispatch(m) ELSE UNCHANGED dispatchVars

(* The alert loops of runBackup.                                           *)
Tell(c, n) == \E muted \in Muted(c, n) :
  \/ AlertDrift(c, n) /\ Calls(~muted, DriftOf(n, last[c][n].version + 1))
  \/ /\ TellRecovery(c, n, muted)
     /\ Calls(~muted /\ RecoveryIsNews(c, n), NewsAbout(n, "recovered"))
  \/ /\ TellFailure(c, n, muted)
     /\ Calls(~muted /\ FailureIsNews(c, n), NewsAbout(n, "failed"))

Telling == \E c \in Callers, n \in Nodes :
  /\ pc[c][n] \in {"drift", "recover", "alert"}
  /\ pc'[c][n] # pc[c][n]

(* Every other step of the scheduler and of what surrounds it.             *)
Elapse ==
  /\ Next
  /\ server' = "down" \/ ~Telling
  /\ IF server # "down" /\ server' = "down" THEN LoseAll
     ELSE UNCHANGED dispatchVars

Destination ==
  /\ \E m \in Messages : Sent(m) \/ SendFails(m)
  /\ UNCHANGED vars

AlertingNext == \/ \E c \in Callers, n \in Nodes : Tell(c, n)
                \/ Elapse
                \/ Destination

AlertingSpec == AlertingInit /\ [][AlertingNext]_alertingVars

-----------------------------------------------------------------------------
(* What the destination heard last of a node agrees with its row - even    *)
(* though an alert is sent before the UPDATE it belongs to, by a goroutine *)
(* that a full queue, a failing send or the end of the process may lose    *)
(* and that a slower one may overtake -, unless just that happened to the  *)
(* newest alert of the node, or it is on its way.                          *)
DestinationInformed ==
  \A n \in Watched :
    \/ told[n] \in {"pending", "unsure"}
    \/ \E c \in Callers : pc[c][n] \in {"saveSuccess", "saveError"}
    \/ told[n] = "failed" <=> lastStatus[n] = "error"

(* Every version after the first is told to the destination, and only      *)
(* once, by the backup that recorded it, also in the middle of an outage:  *)
(* its alert was heard or is on its way, unless a full queue, a failing    *)
(* send or the end of the process has lost it, or that backup is just      *)
(* about to hand it over.                                                  *)
DriftAnnounced ==
  \A n \in Watched, v \in Followed \ {0, 1} :
    /\ fate[<<n, "drift", v>>] # "repeated"
    /\ fate[<<n, "drift", v>>] = "untold" =>
         \A r \in versions[n] : r.version = v =>
           \E c \in Callers : pc[c][n] = "drift" /\ last[c][n].version + 1 = v
=============================================================================
