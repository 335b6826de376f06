------------------------------ MODULE NextRun ------------------------------
(* When a node is backed up next: nextRunAfter (scheduler.go) and its use   *)
(* at the end of runBackup, over a clock that counts units from a Monday at *)
(* 00:00. The text of a frequency, an hour and a day is parsed to a number; *)
(* a day is 24 hours long (the zone of the service has no summer time).     *)
EXTENDS Integers

CONSTANTS Unit,         \* units of time in one hour (60, for minutes)
          BackupHours,  \* times of day that users choose
          Delays,       \* how late after its time a run may finish
          QueryFails,   \* whether the query for the routine may fail
          Horizon       \* bound: runs that finish later are not followed

Day  == 24 * Unit
Week == 7 * Day

ASSUME NextRunAssumption ==
  /\ Unit \in Nat \ {0}
  /\ BackupHours \subseteq 0 .. Day - 1
  /\ Delays \subseteq Nat
  /\ QueryFails \in BOOLEAN
  /\ Horizon \in Nat

None == -1    \* the empty string: no preferred hour, no preferred day

(* supportedNodeFrequencies, in hours.                                      *)
Frequencies == {1, 6, 12, 24, 168}

(* SaveRoutine keeps a weekday for weekly routines only.                    *)
Routines == {s \in [freq : Frequencies, hour : BackupHours \cup {None},
                    day : 0 .. 6 \cup {None}] :
                s.freq # 168 => s.day = None}

VARIABLES routine,    \* the cadence of the node
          lost,       \* whether its last run did not find the routine
          finished,   \* when that run finished
          next        \* next_backup_at, which that run has set

vars == <<routine, lost, finished, next>>

Midnight(t) == t - (t % Day)

(* time.Weekday counts from Sunday.                                         *)
Weekday(t) == (t \div Day + 1) % 7

(* The loops that move a candidate on in steps until it lies after t.       *)
AdvanceMutant(candidate, step, t) ==             \* !Before instead of After
  IF candidate >= t THEN candidate
  ELSE candidate + step * ((t - candidate + step - 1) \div step)
Advance(candidate, step, t) ==
  IF candidate > t THEN candidate
  ELSE candidate + step * ((t - candidate) \div step + 1)

(* Stored as 0 = Monday .. 6 = Sunday; without a day it stays the same.     *)
PreferredMutant(s, t) == IF s.day = None THEN Weekday(t) ELSE s.day
Preferred(s, t) == IF s.day = None THEN Weekday(t) ELSE (s.day + 1) % 7

NextWeeklyMutant(s, t) ==                        \* never on the same day
  LET wait == (Preferred(s, t) - Weekday(t)) % 7
  IN  Midnight(t) + s.hour + (IF wait = 0 THEN 7 ELSE wait) * Day
NextWeekly(s, t) ==
  LET today  == Midnight(t) + s.hour
      wait   == (Preferred(s, t) - Weekday(t)) % 7
  IN  Advance(today + wait * Day, Week, t)

NextDailyMutant(s, t) == Midnight(t) + s.hour + Day    \* always tomorrow
NextDaily(s, t) == Advance(Midnight(t) + s.hour, Day, t)

NextSubDaily(s, t) == Advance(Midnight(t) + s.hour, s.freq * Unit, t)

NextRunAfter(s, t) ==
  IF s.hour = None        THEN t + s.freq * Unit
  ELSE IF s.freq % 168 = 0 THEN NextWeekly(s, t)
  ELSE IF s.freq % 24 = 0  THEN NextDaily(s, t)
  ELSE NextSubDaily(s, t)

(* runBackup ignores the error of the query for the routine: the zero row   *)
(* has no frequency, which counts as 24 hours, no hour and no day.          *)
Fallback   == [freq |-> 24, hour |-> None, day |-> None]
Found(gap) == IF gap THEN Fallback ELSE routine
Gaps       == IF QueryFails THEN BOOLEAN ELSE {FALSE}

Init ==
  /\ routine \in Routines
  /\ finished \in 0 .. Week - 1
  /\ lost \in Gaps
  /\ next = NextRunAfter(Found(lost), finished)

(* The end of a backup at time t.                                           *)
Finish(t) ==
  /\ t <= Horizon
  /\ finished' = t
  /\ lost' \in Gaps
  /\ next' = NextRunAfter(Found(lost'), t)
  /\ UNCHANGED routine

(* CheckBackups finds the node pending once its time has come; the backup   *)
(* ends a little later, or much later when the service was down.            *)
Run == \E d \in Delays : Finish(next + d)

(* A user runs the backup by hand before its time.                          *)
RunByHand == \E t \in finished .. next : Finish(t)

Next == Run \/ RunByHand

Spec == Init /\ [][Next]_vars

-----------------------------------------------------------------------------
Interval == routine.freq * Unit
Weekly   == routine.freq = 168
SubDaily == routine.freq < 24
Anchored == routine.hour # None

(* Times at which an anchored cadence may run, of which the daily and the   *)
(* weekly ones must miss none.                                              *)
IsSlot(s, t) ==
  /\ t % Unit = s.hour % Unit
  /\ IF s.freq < 24 THEN (t - s.hour) % (s.freq * Unit) = 0
                    ELSE t % Day = s.hour
  /\ (s.freq = 168 /\ s.day # None) => (t \div Day) % 7 = s.day

TypeOK ==
  /\ routine \in Routines
  /\ lost \in Gaps
  /\ finished \in 0 .. Horizon + Week
  /\ next \in 1 .. Horizon + 2 * Week

(* A run never leaves the node pending: the next cycle would start it again *)
(* at once, and every cycle after it.                                       *)
NextIsLater == next > finished

(* "anchored to that time of day ... instead of drifting from whenever the  *)
(* last backup happened to finish": every run of an anchored cadence is on  *)
(* a slot, whenever the one before it finished and whoever started it. The  *)
(* exception is a run after one that did not find its routine: it is 24     *)
(* hours later, and the one after it is on a slot again.                    *)
RunsOnSlots == (Anchored /\ ~lost) => IsSlot(routine, next)

(* A daily node and a node with a weekday run at the first slot there is,   *)
(* unless the last run did not find the routine: then a slot less than 24   *)
(* hours away is passed over.                                               *)
NoSlotSkipped ==
  (Anchored /\ ~lost /\ ~SubDaily /\ (Weekly => routine.day # None))
     => \A t \in finished + 1 .. next - 1 : ~IsSlot(routine, t)

(* No cadence waits longer than its interval, a sub-daily one that has to   *)
(* wait for its hour no longer than a day, and one whose routine was not    *)
(* found just a day, however short or long its interval is.                 *)
WaitBounded ==
  next - finished <= IF lost \/ (SubDaily /\ Anchored) THEN Day ELSE Interval

(* "fixed slots starting at backupHour and repeating every freqHours": a    *)
(* run on time is followed by one freqHours later.                          *)
SlotsRepeat ==
  [][(SubDaily /\ Anchored /\ finished' = next) => next' - next = Interval]_vars
=============================================================================
