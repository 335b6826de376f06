--------------------------- MODULE NextRunProofs ---------------------------
(* NextRun for every unit of time, every hour of the day and every delay.   *)
EXTENDS NextRun, TLAPS

LEMMA Euclid ==
  ASSUME NEW a \in Int, NEW s \in Int, s > 0
  PROVE  /\ a \div s \in Int /\ a % s \in Int
         /\ a % s >= 0 /\ a % s < s
         /\ a = s * (a \div s) + (a % s)
<1>1. a \div s \in Int /\ a % s \in Int
  OBVIOUS
<1>2. a % s >= 0 /\ a % s < s
  OBVIOUS
<1>3. a = s * (a \div s) + (a % s)
  OBVIOUS
<1> QED BY <1>1, <1>2, <1>3

LEMMA Successor ==
  ASSUME NEW s \in Int, NEW q \in Int
  PROVE  s * q \in Int /\ s * (q + 1) = s * q + s
OBVIOUS

(* The loops end at the first step after t: never more than one step later, *)
(* unless the candidate was after t from the start.                         *)
LEMMA AdvanceStep ==
  ASSUME NEW c \in Int, NEW s \in Int, s > 0, NEW t \in Int
  PROVE  /\ Advance(c, s, t) \in Int
         /\ Advance(c, s, t) > t
         /\ Advance(c, s, t) <= t + s \/ Advance(c, s, t) = c
<1>1. CASE c > t
  BY <1>1 DEF Advance
<1>2. CASE ~(c > t)
  <2>1. PICK q \in Int, r \in Int :
           /\ q = (t - c) \div s
           /\ r >= 0 /\ r < s /\ t - c = s * q + r
    BY Euclid
  <2>2. Advance(c, s, t) = c + s * (q + 1)
    BY <1>2, <2>1 DEF Advance
  <2>3. s * q \in Int /\ s * (q + 1) = s * q + s
    BY Successor
  <2> QED BY <2>1, <2>2, <2>3
<1> QED BY <1>1, <1>2

-----------------------------------------------------------------------------
(* Quotient and remainder are the only ones.                                *)
LEMMA NoMultiple ==
  ASSUME NEW s \in Int, s > 0, NEW d \in Int, s * d < s, s * d > -s
  PROVE  d = 0
<1>1. ASSUME d >= 1 PROVE FALSE
  <2>1. s * d >= s
    BY <1>1
  <2> QED BY <2>1
<1>2. ASSUME d <= -1 PROVE FALSE
  <2>1. s * d <= -s
    BY <1>2
  <2> QED BY <2>1
<1> QED BY <1>1, <1>2

LEMMA Quotient ==
  ASSUME NEW s \in Int, s > 0, NEW q \in Int, NEW r \in 0 .. s - 1,
         NEW a \in Int, a = s * q + r
  PROVE  a \div s = q /\ a % s = r
<1>1. PICK p \in Int, m \in Int :
         p = a \div s /\ m = a % s /\ m >= 0 /\ m < s /\ a = s * p + m
  BY Euclid
<1>2. s * (p - q) = s * p - s * q /\ s * p \in Int /\ s * q \in Int
  OBVIOUS
<1>3. p - q = 0
  <2>1. s * (p - q) < s /\ s * (p - q) > -s
    BY <1>1, <1>2
  <2> QED BY <2>1, NoMultiple
<1>4. p = q
  BY <1>3
<1> QED BY <1>1, <1>4, <1>2

LEMMA Remainder ==
  ASSUME NEW s \in Int, s > 0, NEW q \in Int, NEW r \in 0 .. s - 1
  PROVE  (s * q + r) % s = r
<1> DEFINE a == s * q + r
<1>1. a \in Int
  OBVIOUS
<1> QED BY <1>1, Quotient

LEMMA DayFacts ==
  /\ Unit \in Int /\ Unit > 0
  /\ Day \in Int /\ Day > 0 /\ Day = 24 * Unit
  /\ Week \in Int /\ Week = 7 * Day
BY NextRunAssumption DEF Day, Week

LEMMA MidnightFacts ==
  ASSUME NEW t \in Int
  PROVE  /\ t \div Day \in Int
         /\ Midnight(t) = Day * (t \div Day)
         /\ Midnight(t) \in Int /\ Midnight(t) <= t /\ t < Midnight(t) + Day
<1>1. /\ t \div Day \in Int /\ t % Day \in Int
      /\ t % Day >= 0 /\ t % Day < Day
      /\ t = Day * (t \div Day) + (t % Day)
  BY DayFacts, Euclid
<1>2. Day * (t \div Day) \in Int
  BY <1>1, DayFacts
<1> QED BY <1>1, <1>2, DayFacts DEF Midnight

LEMMA RoutineFacts ==
  ASSUME NEW s \in Routines
  PROVE  /\ s.freq \in {1, 6, 12, 24, 168}
         /\ s.hour = None \/ s.hour \in 0 .. Day - 1
         /\ s.day = None \/ s.day \in 0 .. 6
BY NextRunAssumption DEF Routines, Frequencies

(* The loops add a whole number of steps.                                   *)
LEMMA AdvanceSteps ==
  ASSUME NEW c \in Int, NEW s \in Int, s > 0, NEW t \in Int
  PROVE  \E k \in Int : Advance(c, s, t) = c + s * k
<1>1. CASE c > t
  <2>1. s * 0 = 0
    OBVIOUS
  <2> QED BY <1>1, <2>1 DEF Advance
<1>2. CASE ~(c > t)
  <2>1. (t - c) \div s + 1 \in Int
    BY Euclid
  <2> QED BY <1>2, <2>1 DEF Advance
<1> QED BY <1>1, <1>2

-----------------------------------------------------------------------------
(* The longest wait of a cadence, as in WaitBounded.                        *)
Longest(s) == IF s.freq < 24 /\ s.hour # None THEN Day ELSE s.freq * Unit

LEMMA HourFacts ==
  ASSUME NEW s \in Routines
  PROVE  /\ s.freq * Unit \in Int /\ s.freq * Unit > 0 /\ s.freq * Unit <= Week
         /\ s.freq < 24 => s.freq * Unit <= Day
         /\ s.freq = 24 => s.freq * Unit = Day
         /\ s.freq = 168 => s.freq * Unit = Week
         /\ Longest(s) \in Int /\ Longest(s) <= Week
BY RoutineFacts, DayFacts DEF Longest

(* Arithmetic of weekdays, stored from Monday and counted from Sunday.      *)
LEMMA WeekdayWait ==
  ASSUME NEW day \in 0 .. 6, NEW d \in Int
  PROVE  (d + ((((day + 1) % 7) - ((d + 1) % 7)) % 7)) % 7 = day
BY Z3

LEMMA WaitRange ==
  ASSUME NEW x \in Int, NEW y \in Int
  PROVE  (x - y) % 7 \in 0 .. 6
OBVIOUS

(* The candidate of a weekly cadence: the right weekday, this week.         *)
LEMMA WeeklyCandidate ==
  ASSUME NEW s \in Routines, s.hour # None, NEW t \in Int
  PROVE  \E wait \in 0 .. 6 :
            /\ wait = (Preferred(s, t) - Weekday(t)) % 7
            /\ s.day # None => (t \div Day + wait) % 7 = s.day
            /\ NextWeekly(s, t) = Advance(Midnight(t) + s.hour + wait * Day, Week, t)
<1> DEFINE d == t \div Day
<1>1. d \in Int /\ Weekday(t) = (d + 1) % 7 /\ Weekday(t) \in Int
  BY MidnightFacts DEF Weekday
<1>2. Preferred(s, t) \in Int
  BY <1>1, RoutineFacts DEF Preferred
<1> DEFINE wait == (Preferred(s, t) - Weekday(t)) % 7
<1>3. wait \in 0 .. 6
  BY <1>1, <1>2, WaitRange
<1>4. ASSUME s.day # None PROVE (d + wait) % 7 = s.day
  <2>1. s.day \in 0 .. 6 /\ Preferred(s, t) = (s.day + 1) % 7
    BY <1>4, RoutineFacts DEF Preferred
  <2> HIDE DEF d
  <2> QED BY <1>1, <2>1, WeekdayWait
<1> QED BY <1>3, <1>4 DEF NextWeekly

LEMMA NextRunRange ==
  ASSUME NEW s \in Routines, NEW t \in Int
  PROVE  /\ NextRunAfter(s, t) \in Int
         /\ NextRunAfter(s, t) > t
         /\ NextRunAfter(s, t) <= t + Longest(s)
<1> DEFINE today == Midnight(t) + s.hour
<1>1. CASE s.hour = None
  BY <1>1, HourFacts, DayFacts DEF NextRunAfter, Longest
<1>2. ASSUME s.hour # None
      PROVE  today \in Int /\ today < t + Day
  <2>1. s.hour \in 0 .. Day - 1 /\ Day \in Int
    BY <1>2, RoutineFacts, DayFacts
  <2>2. Midnight(t) \in Int /\ Midnight(t) <= t
    BY MidnightFacts
  <2> QED BY <2>1, <2>2
<1>3. CASE s.hour # None /\ s.freq = 168
  <2>1. PICK wait \in 0 .. 6 :
           NextWeekly(s, t) = Advance(today + wait * Day, Week, t)
    BY <1>3, WeeklyCandidate
  <2>2. wait * Day \in Int /\ wait * Day <= 6 * Day
    BY DayFacts
  <2>3. today + wait * Day \in Int /\ today + wait * Day <= t + Week
    BY <1>2, <1>3, <2>2, DayFacts
  <2>4. NextRunAfter(s, t) = NextWeekly(s, t) /\ Longest(s) = Week
    BY <1>3, HourFacts DEF NextRunAfter, Longest
  <2> DEFINE first == today + wait * Day
  <2>5. first \in Int /\ first <= t + Week /\ Week \in Int /\ Week > 0
    BY <2>3, DayFacts
  <2>6. NextRunAfter(s, t) = Advance(first, Week, t)
    BY <2>1, <2>4
  <2> HIDE DEF first
  <2>7. /\ Advance(first, Week, t) \in Int /\ Advance(first, Week, t) > t
        /\ Advance(first, Week, t) <= t + Week \/ Advance(first, Week, t) = first
    BY <2>5, AdvanceStep
  <2> QED BY <2>4, <2>5, <2>6, <2>7
<1>4. CASE s.hour # None /\ s.freq = 24
  <2>1. NextRunAfter(s, t) = Advance(today, Day, t) /\ Longest(s) = Day
    BY <1>4, HourFacts DEF NextRunAfter, NextDaily, Longest
  <2>2. today \in Int /\ today < t + Day /\ Day \in Int /\ Day > 0
    BY <1>2, <1>4, DayFacts
  <2> HIDE DEF today
  <2>3. /\ Advance(today, Day, t) \in Int /\ Advance(today, Day, t) > t
        /\ Advance(today, Day, t) <= t + Day \/ Advance(today, Day, t) = today
    BY <2>2, AdvanceStep
  <2> QED BY <2>1, <2>2, <2>3
<1>5. CASE s.hour # None /\ s.freq \in {1, 6, 12}
  <2>1. NextRunAfter(s, t) = Advance(today, s.freq * Unit, t) /\ Longest(s) = Day
    BY <1>5 DEF NextRunAfter, NextSubDaily, Longest
  <2>2. s.freq * Unit \in Int /\ s.freq * Unit > 0 /\ s.freq * Unit <= Day
    BY <1>5, HourFacts
  <2>3. today \in Int /\ today < t + Day /\ Day \in Int
    BY <1>2, <1>5, DayFacts
  <2> DEFINE step == s.freq * Unit
  <2> HIDE DEF today, step
  <2>4. /\ Advance(today, step, t) \in Int /\ Advance(today, step, t) > t
        /\ Advance(today, step, t) <= t + step \/ Advance(today, step, t) = today
    BY <2>2, <2>3, AdvanceStep DEF step
  <2> QED BY <2>1, <2>2, <2>3, <2>4 DEF step
<1> QED BY <1>1, <1>3, <1>4, <1>5, RoutineFacts

-----------------------------------------------------------------------------
(* The inductive invariant: bounds on the wait imply those of TypeOK.       *)
IInv == TypeOK /\ NextIsLater /\ WaitBounded

(* What a run finds is a cadence, and waits as WaitBounded says.            *)
LEMMA FoundFacts ==
  ASSUME NEW gap \in BOOLEAN, routine \in Routines
  PROVE  /\ Found(gap) \in Routines
         /\ Longest(Found(gap)) <= IF gap \/ (SubDaily /\ Anchored) THEN Day
                                   ELSE Interval
<1>1. Fallback \in Routines
  BY DEF Fallback, Routines, Frequencies, None
<1>2. Longest(Fallback) = Day
  BY DayFacts DEF Fallback, Longest
<1>3. Longest(routine) = IF SubDaily /\ Anchored THEN Day ELSE Interval
  BY DEF Longest, SubDaily, Anchored, Interval
<1>4. Longest(routine) \in Int /\ Longest(Fallback) \in Int
  BY <1>1, HourFacts
<1> QED BY <1>1, <1>2, <1>3, <1>4 DEF Found

(* next_backup_at was set by the last run; the rest follows from that.      *)
Planned == /\ routine \in Routines /\ lost \in Gaps
           /\ finished \in 0 .. Horizon + Week
           /\ next = NextRunAfter(Found(lost), finished)

LEMMA PlannedFacts == Planned => IInv
<1> SUFFICES ASSUME Planned PROVE IInv
  OBVIOUS
<1>0. /\ lost \in Gaps /\ routine \in Routines
      /\ finished \in 0 .. Horizon + Week
  BY DEF Planned
<1>1. /\ lost \in BOOLEAN /\ finished \in Nat /\ routine \in Routines
      /\ finished <= Horizon + Week
  <2>1. lost \in BOOLEAN
    BY <1>0 DEF Gaps
  <2> QED BY <1>0, <2>1, DayFacts, NextRunAssumption
<1>2. /\ Found(lost) \in Routines
      /\ Longest(Found(lost)) <= IF lost \/ (SubDaily /\ Anchored) THEN Day
                                 ELSE Interval
  BY <1>1, FoundFacts
<1>3. /\ next \in Int /\ next > finished
      /\ next <= finished + Longest(Found(lost))
      /\ Longest(Found(lost)) \in Int /\ Longest(Found(lost)) <= Week
  BY <1>1, <1>2, NextRunRange, HourFacts DEF Planned
<1>4. Day \in Int /\ Interval \in Int
  BY <1>1, HourFacts, DayFacts DEF Interval
<1>5. WaitBounded
  BY <1>1, <1>2, <1>3, <1>4 DEF WaitBounded
<1> QED BY <1>1, <1>3, <1>5, DayFacts, NextRunAssumption
        DEF IInv, TypeOK, NextIsLater, Planned

LEMMA PlannedInvariant == Spec => []Planned
<1>1. Init => Planned
  BY DayFacts, NextRunAssumption DEF Init, Planned
<1>2. Planned /\ [Next]_vars => Planned'
  <2> SUFFICES ASSUME Planned, [Next]_vars PROVE Planned'
    OBVIOUS
  <2>1. CASE UNCHANGED vars
    BY <2>1 DEF vars, Planned, Found, Gaps
  <2>2. CASE Next
    <3>1. PICK t \in Nat : Finish(t)
      <4>1. /\ finished \in Nat /\ next \in Nat
            /\ \A d \in Delays : d \in Nat
        BY PlannedFacts, DayFacts, NextRunAssumption DEF IInv, TypeOK
      <4> QED BY <2>2, <4>1 DEF Next, Run, RunByHand
    <3>2. /\ routine' = routine /\ lost' \in Gaps' /\ finished' = t
          /\ next' = NextRunAfter(Found(lost'), t) /\ t <= Horizon
      BY <3>1 DEF Finish, Gaps
    <3>3. finished' \in 0 .. Horizon + Week
      BY <3>2, NextRunAssumption, DayFacts
    <3>4. Found(lost)' = Found(lost')
      BY <3>2 DEF Found
    <3> QED BY <3>2, <3>3, <3>4 DEF Planned
  <2> QED BY <2>1, <2>2
<1> QED BY <1>1, <1>2, PTL DEF Spec

THEOREM Invariant == Spec => []IInv
BY PlannedInvariant, PlannedFacts, PTL

(* Times stay what the clock shows.                                         *)
THEOREM TypeCorrect == Spec => []TypeOK
<1>1. IInv => TypeOK
  BY DEF IInv
<1> QED BY <1>1, Invariant, PTL

(* After a run the node is no longer pending: no cycle can start it again   *)
(* before its next time (nextRunAfter, checkBackupsLocked).                 *)
THEOREM NeverPendingAgain == Spec => []NextIsLater
<1>1. IInv => NextIsLater
  BY DEF IInv
<1> QED BY <1>1, Invariant, PTL

(* A node waits at most its interval, or a day for its preferred hour or    *)
(* after a run that did not find its routine.                               *)
THEOREM WaitIsBounded == Spec => []WaitBounded
<1>1. IInv => WaitBounded
  BY DEF IInv
<1> QED BY <1>1, Invariant, PTL

-----------------------------------------------------------------------------
(* A whole number of days and the preferred hour.                           *)
LEMMA DaySlot ==
  ASSUME NEW m \in Int, NEW h \in 0 .. Day - 1, NEW n \in Int, n = Day * m + h
  PROVE  n % Day = h /\ n \div Day = m /\ n % Unit = h % Unit
<1>1. n % Day = h /\ n \div Day = m
  BY DayFacts, Quotient
<1>2. PICK q \in Int, r \in Int :
         r = h % Unit /\ r >= 0 /\ r < Unit /\ h = Unit * q + r
  BY DayFacts, Euclid
<1>3. n = Unit * (24 * m + q) + r
  <2>1. Day * m = Unit * (24 * m) /\ Unit * (24 * m) \in Int
    BY DayFacts
  <2>2. Unit * (24 * m + q) = Unit * (24 * m) + Unit * q /\ Unit * q \in Int
    BY DayFacts
  <2> QED BY <1>2, <2>1, <2>2
<1>4. 24 * m + q \in Int /\ r \in 0 .. Unit - 1 /\ Unit > 0 /\ Unit \in Int
  BY <1>2, DayFacts
<1>5. n % Unit = r
  <2> DEFINE p == 24 * m + q
  <2>1. n = Unit * p + r /\ p \in Int
    BY <1>3, <1>4
  <2> HIDE DEF p
  <2>2. (Unit * p + r) % Unit = r
    BY <1>4, <2>1, Remainder, Zenon
  <2> QED BY <2>1, <2>2, Zenon
<1> QED BY <1>1, <1>2, <1>5

LEMMA SubDailySlot ==
  ASSUME NEW f \in {1, 6, 12}, NEW d \in Int, NEW k \in Int,
         NEW h \in 0 .. Day - 1, NEW n \in Int, n = (Day * d + h) + (f * Unit) * k
  PROVE  n % Unit = h % Unit /\ (n - h) % (f * Unit) = 0
<1>1. PICK p \in {24, 4, 2} : f * p = 24
  OBVIOUS
<1>2. Day * d = (f * Unit) * (p * d)
  BY <1>1, DayFacts
<1>3. /\ (f * Unit) * (p * d + k) = (f * Unit) * (p * d) + (f * Unit) * k
      /\ (f * Unit) * (p * d) \in Int /\ (f * Unit) * k \in Int
      /\ f * Unit \in Int /\ f * Unit > 0 /\ p * d + k \in Int
  BY <1>1, DayFacts
<1>4. n - h = (f * Unit) * (p * d + k) + 0
  BY <1>2, <1>3
<1>5. (n - h) % (f * Unit) = 0
  BY <1>3, <1>4, Quotient
<1>6. PICK q \in Int, r \in Int :
         r = h % Unit /\ r >= 0 /\ r < Unit /\ h = Unit * q + r
  BY DayFacts, Euclid
<1> DEFINE w == f * (p * d + k)
<1>7. w \in Int /\ (f * Unit) * (p * d + k) = Unit * w
  BY <1>1, DayFacts
<1>8. Unit * (w + q) = Unit * w + Unit * q /\ Unit * w \in Int /\ Unit * q \in Int
  BY <1>6, <1>7, DayFacts
<1>9. n = Unit * (w + q) + r /\ w + q \in Int /\ r \in 0 .. Unit - 1
  BY <1>4, <1>6, <1>7, <1>8, DayFacts
<1>10. n % Unit = r
  BY <1>9, DayFacts, Quotient
<1> QED BY <1>5, <1>6, <1>10

LEMMA WeekSteps ==
  ASSUME NEW c \in Int, NEW t \in Int
  PROVE  \E k \in Int : Advance(c, Week, t) = c + Week * k
<1>1. Week \in Int /\ Week > 0
  BY DayFacts
<1> QED BY <1>1, AdvanceSteps, Zenon

LEMMA WeeklySlot ==
  ASSUME NEW h \in 0 .. Day - 1, NEW d \in Int, NEW wait \in 0 .. 6,
         NEW t \in Int, NEW c \in Int, c = Day * d + h + wait * Day,
         NEW n \in Int, n = Advance(c, Week, t)
  PROVE  /\ n % Day = h /\ n % Unit = h % Unit
         /\ (n \div Day) % 7 = (d + wait) % 7
<1>1. Day * d \in Int /\ wait * Day \in Int
  BY DayFacts
<1>2. PICK k \in Int : n = c + Week * k
  BY WeekSteps
<1> DEFINE m == d + wait + 7 * k
<1>3. Day * m = Day * d + wait * Day + Week * k /\ Week * k \in Int /\ m \in Int
  BY DayFacts
<1>4. n = Day * m + h
  BY <1>1, <1>2, <1>3, DayFacts
<1>5. m % 7 = (d + wait) % 7
  OBVIOUS
<1> HIDE DEF m
<1>6. n % Day = h /\ n \div Day = m /\ n % Unit = h % Unit
  BY <1>3, <1>4, DaySlot
<1> QED BY <1>5, <1>6

LEMMA DailySlot ==
  ASSUME NEW h \in 0 .. Day - 1, NEW d \in Int, NEW t \in Int, NEW n \in Int,
         n = Advance(Day * d + h, Day, t)
  PROVE  n % Day = h /\ n % Unit = h % Unit
<1> DEFINE c == Day * d + h
<1>1. c \in Int /\ Day * d \in Int
  BY DayFacts
<1>2. PICK k \in Int : n = c + Day * k
  <2> HIDE DEF c
  <2>1. n = Advance(c, Day, t)
    BY DEF c
  <2>2. Day \in Int /\ Day > 0
    BY DayFacts
  <2>3. \E k \in Int : Advance(c, Day, t) = c + Day * k
    BY <1>1, <2>2, AdvanceSteps, Zenon
  <2> QED BY <2>1, <2>3, Zenon
<1> DEFINE m == d + k
<1>3. Day * m = Day * d + Day * k /\ Day * k \in Int /\ m \in Int
  BY DayFacts
<1>4. n = Day * m + h
  BY <1>1, <1>2, <1>3, DayFacts
<1> HIDE DEF m
<1> QED BY <1>3, <1>4, DaySlot

LEMMA HourSlot ==
  ASSUME NEW f \in {1, 6, 12}, NEW h \in 0 .. Day - 1, NEW d \in Int,
         NEW t \in Int, NEW n \in Int, n = Advance(Day * d + h, f * Unit, t)
  PROVE  n % Unit = h % Unit /\ (n - h) % (f * Unit) = 0
<1> DEFINE c == Day * d + h
           step == f * Unit
<1>1. c \in Int /\ step \in Int /\ step > 0
  BY DayFacts
<1>2. PICK k \in Int : n = c + step * k
  <2> HIDE DEF c, step
  <2>1. n = Advance(c, step, t)
    BY DEF c, step
  <2>2. step \in Int /\ step > 0
    BY <1>1
  <2>3. \E k \in Int : Advance(c, step, t) = c + step * k
    BY <1>1, <2>2, AdvanceSteps, Zenon
  <2> QED BY <2>1, <2>3, Zenon
<1>3. n = (Day * d + h) + (f * Unit) * k
  BY <1>2
<1> QED BY <1>3, SubDailySlot

LEMMA NextOnSlot ==
  ASSUME NEW s \in Routines, s.hour # None, NEW t \in Int
  PROVE  IsSlot(s, NextRunAfter(s, t))
<1> DEFINE n == NextRunAfter(s, t)
           d == t \div Day
<1>1. n \in Int
  BY NextRunRange
<1>2. d \in Int /\ Midnight(t) = Day * d
  BY MidnightFacts
<1>3. s.hour \in 0 .. Day - 1
  BY RoutineFacts
<1>4. CASE s.freq = 168
  <2>1. PICK wait \in 0 .. 6 :
           /\ s.day # None => (d + wait) % 7 = s.day
           /\ n = Advance(Midnight(t) + s.hour + wait * Day, Week, t)
    BY <1>4, WeeklyCandidate DEF NextRunAfter
  <2>2. /\ n % Day = s.hour /\ n % Unit = s.hour % Unit
        /\ (n \div Day) % 7 = (d + wait) % 7
    <3> HIDE DEF n, d
    <3> DEFINE h == s.hour
               c == Midnight(t) + s.hour + wait * Day
    <3>2. h \in 0 .. Day - 1 /\ c = Day * d + h + wait * Day
      BY <1>2, <1>3
    <3>3. c \in Int
      BY <1>2, <1>3, <3>2, DayFacts
    <3>4. n = Advance(c, Week, t)
      BY <2>1
    <3> HIDE DEF h, c
    <3>5. /\ n % Day = h /\ n % Unit = h % Unit
          /\ (n \div Day) % 7 = (d + wait) % 7
      BY <1>1, <1>2, <3>2, <3>3, <3>4, WeeklySlot
    <3> QED BY <3>5 DEF h
  <2> QED BY <1>4, <2>1, <2>2 DEF IsSlot
<1>5. CASE s.freq = 24
  <2>1. n = Advance(Midnight(t) + s.hour, Day, t)
    BY <1>5 DEF NextRunAfter, NextDaily
  <2>2. n % Day = s.hour /\ n % Unit = s.hour % Unit
    <3> HIDE DEF n, d
    <3> QED BY <1>1, <1>2, <1>3, <2>1, DailySlot
  <2> QED BY <1>5, <2>2 DEF IsSlot
<1>6. CASE s.freq \in {1, 6, 12}
  <2>1. n = Advance(Midnight(t) + s.hour, s.freq * Unit, t)
    BY <1>6 DEF NextRunAfter, NextSubDaily
  <2>2. n % Unit = s.hour % Unit /\ (n - s.hour) % (s.freq * Unit) = 0
    <3> HIDE DEF n, d
    <3> QED BY <1>1, <1>2, <1>3, <1>6, <2>1, HourSlot
  <2> QED BY <1>6, <2>2 DEF IsSlot
<1> QED BY <1>4, <1>5, <1>6, RoutineFacts

LEMMA PlannedOnSlots == Spec => [](IInv /\ RunsOnSlots)
<1>1. Planned => IInv /\ RunsOnSlots
  BY PlannedFacts, NextOnSlot, NextRunAssumption, DayFacts
     DEF Planned, IInv, TypeOK, RunsOnSlots, Anchored, Found
<1> QED BY <1>1, PlannedInvariant, PTL

(* Every run of an anchored cadence is planned for its hour, its weekday or *)
(* one of its slots, whenever the run before it finished: nothing drifts,   *)
(* but for the run after one whose query for the routine failed.            *)
THEOREM NoDrift == Spec => []RunsOnSlots
BY PlannedOnSlots, PTL

(* Two slots of a daily or a weekly cadence are a day or a week apart.      *)
LEMMA DaysApart ==
  ASSUME NEW t \in Int, NEW u \in Int, t < u, NEW h \in Int,
         t % Day = h, u % Day = h
  PROVE  u - t >= Day
<1>1. /\ t \div Day \in Int /\ u \div Day \in Int
      /\ t = Day * (t \div Day) + h /\ u = Day * (u \div Day) + h
  BY DayFacts, Euclid
<1> DEFINE d == u \div Day - t \div Day
<1>2. d \in Int /\ Day * d = u - t
  BY <1>1, DayFacts
<1> HIDE DEF d
<1>3. Day * d > -Day
  BY <1>2, DayFacts
<1>4. Day * d < Day => d = 0
  BY <1>2, <1>3, DayFacts, NoMultiple
<1>5. d = 0 => Day * d = 0
  BY DayFacts
<1> QED BY <1>2, <1>4, <1>5, DayFacts

LEMMA WeeksApart ==
  ASSUME NEW t \in Int, NEW u \in Int, t < u, NEW h \in Int,
         t % Day = h, u % Day = h, (t \div Day) % 7 = (u \div Day) % 7
  PROVE  u - t >= Week
<1> DEFINE p == (u \div Day) \div 7
           q == (t \div Day) \div 7
           r == (t \div Day) % 7
<1>1. /\ t \div Day \in Int /\ u \div Day \in Int
      /\ t = Day * (t \div Day) + h /\ u = Day * (u \div Day) + h
  BY DayFacts, Euclid
<1>2. /\ p \in Int /\ q \in Int /\ r \in Int
      /\ u \div Day = 7 * p + r /\ t \div Day = 7 * q + r
  BY <1>1
<1> HIDE DEF p, q, r
<1> DEFINE d == p - q
<1>3. u \div Day - t \div Day = 7 * d /\ d \in Int
  BY <1>2
<1>4. Day * (u \div Day) - Day * (t \div Day) = Day * (7 * d)
  BY <1>1, <1>3, DayFacts
<1>5. Day * (7 * d) = Week * d
  BY <1>3, DayFacts
<1>6. Week * d = u - t
  BY <1>1, <1>4, <1>5, DayFacts
<1> HIDE DEF d
<1>7. Week * d < Week => d = 0
  BY <1>3, <1>6, DayFacts, NoMultiple
<1>8. d = 0 => Week * d = 0
  BY DayFacts
<1> QED BY <1>3, <1>6, <1>7, <1>8, DayFacts

(* Whatever run or manual backup came before, a daily node and a node with  *)
(* a weekday run at the first slot there is, as long as the run before it   *)
(* found the routine.                                                       *)
THEOREM FirstSlot == Spec => []NoSlotSkipped
<1>1. ASSUME IInv, RunsOnSlots PROVE NoSlotSkipped
  <2> SUFFICES ASSUME Anchored, ~lost, ~SubDaily, Weekly => routine.day # None,
                      NEW t \in finished + 1 .. next - 1, IsSlot(routine, t)
               PROVE  FALSE
    BY DEF NoSlotSkipped
  <2>1. /\ routine \in Routines /\ finished \in Int /\ next \in Int
        /\ t \in Int /\ t < next /\ finished < t
    BY <1>1, DayFacts, NextRunAssumption DEF IInv, TypeOK
  <2>2. /\ routine.hour \in Int /\ routine.freq \in {24, 168}
        /\ t % Day = routine.hour /\ next % Day = routine.hour
    BY <1>1, <2>1, RoutineFacts, DayFacts
       DEF IsSlot, SubDaily, RunsOnSlots, Anchored
  <2>3. next - finished <= routine.freq * Unit
    BY <1>1 DEF IInv, WaitBounded, Interval
  <2>4. CASE routine.freq = 24
    <3>1. next - finished <= Day
      BY <2>1, <2>3, <2>4, HourFacts
    <3> QED BY <2>1, <2>2, <3>1, DaysApart, DayFacts
  <2>5. CASE routine.freq = 168
    <3>1. next - finished <= Week
      BY <2>1, <2>3, <2>5, HourFacts
    <3>2. (t \div Day) % 7 = (next \div Day) % 7
      BY <1>1, <2>5 DEF Weekly, IsSlot, RunsOnSlots
    <3>3. next - t >= Week
      BY <2>1, <2>2, <3>2, WeeksApart
    <3> QED BY <2>1, <3>1, <3>3, DayFacts
  <2> QED BY <2>2, <2>4, <2>5
<1> QED BY <1>1, PlannedOnSlots, PTL
=============================================================================
