--------------------------- MODULE AlertDispatch ---------------------------
(* internal/services/alert/alert.go: Dispatch and the goroutines it starts *)
(* to send one message each. One alert rule, enabled throughout, and its   *)
(* destination are followed: what it is told of the nodes of its group,    *)
(* that backups fail, that they succeed again, and that there is a new     *)
(* version. All other messages only take slots.                            *)
EXTENDS Integers

CONSTANTS Watched,    \* the nodes in the target group of the rule
          Elsewhere,  \* stands for the nodes of the other messages
          Slots,      \* capacity of dispatchSlots (20 in the code)
          Followed    \* bound: the version numbers whose alerts are followed

ASSUME AlertDispatchAssumption ==
  Slots \in Nat \ {0} /\ Elsewhere \notin Watched /\ Followed \subseteq Nat

VARIABLES taken,      \* slots of the channel dispatchSlots that are taken
          sending,    \* how many goroutines are sending each message
          told,       \* the outside: what the destination has been told of
                      \* a node last, or "pending" while that is on its way,
                      \* or "unsure" when it was lost or may be overtaken
          fate        \* the outside: what became of an alert about a version

dispatchVars == <<taken, sending, told, fate>>

News     == {"failed", "recovered"}
Drifts   == Watched \X {"drift"} \X Followed
Other    == <<Elsewhere, "other", 0>>
Messages == (Watched \X News \X {0}) \cup Drifts \cup {Other}

DispatchInit == /\ taken = 0
                /\ sending = [m \in Messages |-> 0]
                /\ told = [n \in Watched |-> "recovered"]
                /\ fate = [m \in Drifts |-> "untold"]

About(m)    == {n \in Watched : n = m[1] /\ m[2] \in News}
InFlight(n) == \E m \in Messages : n \in About(m) /\ sending[m] > 0
Tells(m, v) == told' = [n \in Watched |-> IF n \in About(m) THEN v ELSE told[n]]

(* What becomes of a message that was handed over now, and of one that was *)
(* on its way.                                                             *)
Begins(m, v) == fate' = [d \in Drifts |->
  IF d # m THEN fate[d] ELSE IF fate[d] = "untold" THEN v ELSE "repeated"]
Ends(m, v) == fate' = [d \in Drifts |->
  IF d = m /\ fate[d] = "pending" THEN v ELSE fate[d]]

-----------------------------------------------------------------------------
(* Dispatch, called inside a backup: nothing waits. A message may overtake *)
(* the ones about the same node that are still being sent.                 *)
Sends(m) ==
  /\ taken < Slots
  /\ taken' = taken + 1
  /\ sending' = [sending EXCEPT ![m] = @ + 1]
  /\ Tells(m, IF InFlight(m[1]) THEN "unsure" ELSE "pending")
  /\ Begins(m, "pending")

(* The queue is full: the message is dropped.                              *)
Skips(m) ==
  /\ taken = Slots
  /\ Tells(m, "unsure") /\ Begins(m, "lost")
  /\ UNCHANGED <<taken, sending>>

Dispatch(m) == Sends(m) \/ Skips(m)

(* The goroutine returns, and gives back its slot whatever it met.         *)
Gone(m) == /\ sending[m] > 0
           /\ sending' = [sending EXCEPT ![m] = @ - 1]
           /\ taken' = taken - 1

Sent(m) ==
  /\ Gone(m)
  /\ told' = [n \in Watched |-> IF n \in About(m) /\ told[n] = "pending"
                                THEN m[2] ELSE told[n]]
  /\ Ends(m, "heard")

(* An answer of 400 or more, no answer in time - and the message may have  *)
(* arrived all the same -, a refused address, or a setting that cannot be  *)
(* decrypted.                                                              *)
SendFails(m) == Gone(m) /\ Tells(m, "unsure") /\ Ends(m, "lost")

(* The process ends: nobody waits for the goroutines.                      *)
LoseAll ==
  /\ taken' = 0
  /\ sending' = [m \in Messages |-> 0]
  /\ told' = [n \in Watched |-> IF InFlight(n) THEN "unsure" ELSE told[n]]
  /\ fate' = [d \in Drifts |-> IF fate[d] = "pending" THEN "lost" ELSE fate[d]]
=============================================================================
