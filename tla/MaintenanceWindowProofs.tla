---------------------- MODULE MaintenanceWindowProofs ----------------------
(***************************************************************************)
(* Theorems of MaintenanceWindow for all windows and zones: comparing the  *)
(* fields of a UTC day is comparing seconds on a circle.                   *)
(***************************************************************************)
EXTENDS MaintenanceWindow, TLAPS

-----------------------------------------------------------------------------
(* Times of day and seconds.                                               *)

\* An interval, for bounds of any size.
LEMMA InRange ==
    ASSUME NEW r \in Int, NEW n \in Int, 0 <= r, r < n
    PROVE  r \in 0..(n - 1)
OBVIOUS

\* The day as a number is kept apart from the ranges that end with it, which
\* would be spelled out second by second.
LEMMA DayInSeconds == Day \in Int /\ Day = 86400
BY DEF Day

LEMMA DayInt == Day \in Int
BY DayInSeconds

LEMMA BelowDay == \A i \in Int : i < Day <=> i < 86400
BY DayInSeconds

LEMMA InDay ==
    \A i \in 0..(Day - 1) : i \in Int /\ 0 <= i /\ i < 86400
<1>1. \A i \in 0..(Day - 1) : i \in Int /\ 0 <= i /\ i < Day
  BY DayInt
<1>2. QED
  BY <1>1, BelowDay

\* The second of a time of day is one of the day.
LEMMA SecondInDay ==
    ASSUME NEW t \in Time
    PROVE  SecondOf(t) \in 0..(Day - 1)
<1>1. PICK h \in 0..23, m \in 0..59, s \in 0..59 : t = [hour |-> h, minute |-> m, second |-> s]
  BY DEF Time
<1> PICK r \in Int : r = 3600 * h + 60 * m + s
  OBVIOUS
<1>2. SecondOf(t) = r
  BY <1>1 DEF SecondOf
<1>3. r < Day /\ Day \in Int
  BY DEF Day
<1>4. 0 <= r
  OBVIOUS
<1>5. r \in 0..(Day - 1)
  BY <1>3, <1>4, InRange
<1>6. QED
  BY <1>2, <1>5

\* The second "r" of the day "d", and what is left of it without the day.
On(d, r) == 86400 * d + r

LEMMA SameSecond ==
    ASSUME NEW d \in Int, NEW r \in 0..(Day - 1)
    PROVE  On(d, r) % Day = r
<1>1. r \in Int /\ 0 <= r /\ r < 86400
  BY InDay
<1>2. r % 86400 = r
  BY <1>1
<1>3. (86400 * d + r) % 86400 = r
  BY <1>1, <1>2
<1>4. QED
  BY ONLY <1>3, DayInSeconds DEF On

\* The fields of a time are those of its second of the day.
LEMMA Fields ==
    ASSUME NEW instant \in Int
    PROVE  /\ TimeToMaintenanceTime(instant) \in Time
           /\ SecondOf(TimeToMaintenanceTime(instant)) = instant % Day
           /\ instant % Day \in 0..(Day - 1)
<1>1. PICK q \in Int, s \in 0..59 : q = instant \div 60 /\ s = instant % 60
  OBVIOUS
<1>2. PICK p \in Int, m \in 0..59 : p = q \div 60 /\ m = q % 60
  OBVIOUS
<1>3. PICK d \in Int, h \in 0..23 : d = p \div 24 /\ h = p % 24
  OBVIOUS
<1>4. instant = 60 * q + s /\ q = 60 * p + m /\ p = 24 * d + h
  BY <1>1, <1>2, <1>3
<1>5. instant \div 3600 = p
  <2>1. PICK k \in Int : k = instant \div 3600
    OBVIOUS
  <2>2. 3600 * k <= instant /\ instant < 3600 * k + 3600
    BY <2>1
  <2>3. 3600 * p <= instant /\ instant < 3600 * p + 3600
    BY <1>4
  <2>4. k = p
    BY <2>2, <2>3
  <2>5. QED
    BY <2>1, <2>4
<1>6. TimeToMaintenanceTime(instant) = [hour |-> h, minute |-> m, second |-> s]
  BY <1>1, <1>2, <1>3, <1>5 DEF TimeToMaintenanceTime, NewMaintenanceTime
<1>7. SecondOf(TimeToMaintenanceTime(instant)) = 3600 * h + 60 * m + s
  BY <1>6 DEF SecondOf
<1>8. TimeToMaintenanceTime(instant) \in Time
  BY <1>6 DEF Time
<1>9. PICK r \in 0..(Day - 1) : r = SecondOf(TimeToMaintenanceTime(instant))
  BY <1>8, SecondInDay
<1>10. instant = On(d, r)
  BY <1>4, <1>7, <1>9 DEF On
<1>11. QED
  BY <1>8, <1>9, <1>10, SameSecond

\* Compare has the sign of the difference in seconds.
LEMMA CompareSeconds ==
    ASSUME NEW t \in Time, NEW other \in Time
    PROVE  /\ SecondOf(t) \in 0..(Day - 1)
           /\ Compare(t, other) < 0 <=> SecondOf(t) < SecondOf(other)
           /\ Compare(t, other) > 0 <=> SecondOf(t) > SecondOf(other)
           /\ Compare(t, other) <= 0 <=> SecondOf(t) <= SecondOf(other)
           /\ Compare(t, other) >= 0 <=> SecondOf(t) >= SecondOf(other)
           /\ t = other <=> SecondOf(t) = SecondOf(other)
<1>1. PICK h \in 0..23, m \in 0..59, s \in 0..59 : t = [hour |-> h, minute |-> m, second |-> s]
  BY DEF Time
<1>2. PICK i \in 0..23, n \in 0..59, u \in 0..59 :
        other = [hour |-> i, minute |-> n, second |-> u]
  BY DEF Time
<1>3. SecondOf(t) = 3600 * h + 60 * m + s /\ SecondOf(other) = 3600 * i + 60 * n + u
  BY <1>1, <1>2 DEF SecondOf
<1>4. t = other <=> h = i /\ m = n /\ s = u
  BY <1>1, <1>2
<1>5. SecondOf(t) = SecondOf(other) <=> h = i /\ m = n /\ s = u
  BY <1>3
<1>6. SecondOf(t) \in 0..(Day - 1)
  BY SecondInDay
<1>7. CASE h # i
  <2>1. Compare(t, other) = h - i
    BY <1>1, <1>2, <1>7 DEF Compare
  <2>2. QED
    BY <1>3, <1>4, <1>5, <1>6, <1>7, <2>1
<1>8. CASE h = i /\ m # n
  <2>1. Compare(t, other) = m - n
    BY <1>1, <1>2, <1>8 DEF Compare
  <2>2. QED
    BY <1>3, <1>4, <1>5, <1>6, <1>8, <2>1
<1>9. CASE h = i /\ m = n
  <2>1. Compare(t, other) = s - u
    BY <1>1, <1>2, <1>9 DEF Compare
  <2>2. QED
    BY <1>3, <1>4, <1>5, <1>6, <1>9, <2>1
<1>10. QED
  BY <1>7, <1>8, <1>9

-----------------------------------------------------------------------------
(* Windows on the circle of a day.                                         *)

Times == [begin : Time, end : Time]

B(w) == SecondOf(w.begin)
E(w) == SecondOf(w.end)

\* Contains, on seconds.
Holds(b, e, i) == IF e < b THEN i <= e \/ b <= i ELSE b <= i /\ i <= e

LEMMA ContainsSeconds ==
    ASSUME NEW w \in Times, NEW i \in 0..(Day - 1)
    PROVE  /\ B(w) \in 0..(Day - 1) /\ E(w) \in 0..(Day - 1)
           /\ w.begin = w.end <=> B(w) = E(w)
           /\ Contains(w, i) <=> Holds(B(w), E(w), i)
           /\ Duration(w) = E(w) - B(w) + IF E(w) <= B(w) THEN Day ELSE 0
<1>0. i \in Int
  BY InDay
<1>1. PICK t \in Time : t = TimeToMaintenanceTime(i) /\ SecondOf(t) = i % Day
  BY <1>0, Fields
<1>2. SecondOf(t) = i
  <2>1. i \in Int /\ 0 <= i /\ i < 86400
    BY InDay
  <2>2. i % 86400 = i
    BY <2>1
  <2>3. i % Day = i
    BY ONLY <2>2, DayInSeconds
  <2>4. QED
    BY <1>1, <2>3
<1>3. w.begin \in Time /\ w.end \in Time
  BY DEF Times
<1>4. B(w) \in 0..(Day - 1) /\ E(w) \in 0..(Day - 1) /\ (w.begin = w.end <=> B(w) = E(w))
  BY <1>3, CompareSeconds DEF B, E
<1>5. /\ Compare(w.end, w.begin) < 0 <=> E(w) < B(w)
      /\ Compare(w.end, w.begin) <= 0 <=> E(w) <= B(w)
  BY <1>3, CompareSeconds DEF B, E
<1>6. /\ Compare(t, w.end) > 0 <=> i > E(w)
      /\ Compare(t, w.end) <= 0 <=> i <= E(w)
      /\ Compare(t, w.begin) < 0 <=> i < B(w)
      /\ Compare(t, w.begin) >= 0 <=> i >= B(w)
  BY <1>2, <1>3, CompareSeconds DEF B, E
<1>7. B(w) \in Int /\ E(w) \in Int
  BY ONLY <1>4
<1>8. Contains(w, i) <=> Holds(B(w), E(w), i)
  <2>1. Contains(w, i) <=> IF E(w) < B(w) THEN ~(i > E(w) /\ i < B(w))
                                          ELSE i >= B(w) /\ i <= E(w)
    BY <1>1, <1>5, <1>6 DEF Contains, SpansDifferentDays
  <2>2. QED
    BY <1>0, <1>7, <2>1 DEF Holds
<1>9. Duration(w) = E(w) - B(w) + IF E(w) <= B(w) THEN Day ELSE 0
  <2>1. Duration(w) = AdjustedEnd(w) - B(w)
    BY DEF Duration, B
  <2>2. AdjustedEnd(w) = E(w) + IF E(w) <= B(w) THEN Day ELSE 0
    BY <1>5 DEF AdjustedEnd, E
  <2>3. QED
    BY <1>7, <2>1, <2>2, DayInt
<1>10. QED
  BY <1>4, <1>8, <1>9

\* A written time is a time of day and a zone.
LEMMA ClockFields ==
    ASSUME NEW c \in Clock
    PROVE  /\ c.hour \in 0..23 /\ c.minute \in 0..59 /\ c.second \in 0..59
           /\ c.hour \in Int /\ c.minute \in Int /\ c.second \in Int /\ c.zone \in Int
<1>1. /\ c.hour \in 0..23 /\ c.minute \in 0..59 /\ c.second \in 0..59
      /\ c.zone \in (-MaxZone)..MaxZone
  BY DEF Clock
<1>2. MaxZone \in Int
  BY DEF MaxZone
<1>3. c.zone \in Int
  BY ONLY <1>1, <1>2
<1>4. c.hour \in Int /\ c.minute \in Int /\ c.second \in Int
  BY ONLY <1>1
<1>5. QED
  BY <1>1, <1>3, <1>4

\* What a user writes is parsed to times of a UTC day.
LEMMA Parses ==
    ASSUME NEW w \in Written
    PROVE  ParseMaintenanceTimeWindow(w) \in Times
<1>1. w.begin \in Clock /\ w.end \in Clock
  BY WindowAssumption
<1>2. ASSUME NEW c \in Clock
      PROVE  ParseMaintenanceTime(c) \in Time
  <2>1. c.hour \in Int /\ c.minute \in Int /\ c.second \in Int /\ c.zone \in Int
    BY ClockFields
  <2>2. \A h, m, s, z \in Int : (3600 * h + 60 * m + s) - 60 * z \in Int
    OBVIOUS
  <2>3. SecondOf(c) - 60 * c.zone \in Int
    BY ONLY <2>1, <2>2 DEF SecondOf
  <2>4. QED
    BY <2>3, Fields DEF ParseMaintenanceTime
<1>3. QED
  BY <1>1, <1>2 DEF ParseMaintenanceTimeWindow, Times

\* The clock comes round.
LEMMA NextSecond ==
    ASSUME NEW i \in 0..(Day - 1)
    PROVE  /\ (i + 1) % Day = IF i = Day - 1 THEN 0 ELSE i + 1
           /\ (i + 1) % Day \in 0..(Day - 1)
<1>1. i \in Int /\ 0 <= i /\ i < 86400
  BY InDay
<1>2. PICK j \in Int : j = (i + 1) % 86400
  BY <1>1
<1>3. j = IF i = 86399 THEN 0 ELSE i + 1
  BY <1>1, <1>2
<1>4. 0 <= j /\ j < 86400
  BY <1>1, <1>3
<1>5. j \in 0..(Day - 1)
  <2>1. j < Day
    BY <1>4, BelowDay
  <2>2. QED
    BY <1>4, <2>1, DayInt, InRange
<1>6. (i + 1) % Day = j
  BY ONLY <1>2, DayInSeconds
<1>7. i = Day - 1 <=> i = 86399
  BY ONLY <1>1, DayInSeconds
<1>8. QED
  BY <1>3, <1>5, <1>6, <1>7

-----------------------------------------------------------------------------
(* Types, and how long the window has been open.                           *)

\* The second before the begin is not of the window: else it never closes.
Closes(b, e) == ~Holds(b, e, IF b = 0 THEN 86399 ELSE b - 1)

AgeInv ==
    age # Unknown =>
      /\ Open /\ Closes(B(Window), E(Window))
      /\ age = now - B(Window) + IF now < B(Window) THEN Day ELSE 0

IInv == TypeOK /\ AgeInv

\* A window that is open in one second and not in the next is at its end; one
\* that is not open and then is has reached its begin.
LEMMA Borders ==
    ASSUME NEW b \in Int, 0 <= b, b < 86400, NEW e \in Int, 0 <= e, e < 86400,
           NEW i \in Int, 0 <= i, i < 86400,
           NEW j \in Int, j = IF i = 86399 THEN 0 ELSE i + 1
    PROVE  /\ Holds(b, e, i) /\ ~Holds(b, e, j) => i = e
           /\ ~Holds(b, e, i) /\ Holds(b, e, j) => j = b
BY DEF Holds

\* The variables, and what a tick makes of them, in seconds.
LEMMA Seconds ==
    ASSUME TypeOK
    PROVE  /\ now \in Int /\ 0 <= now /\ now < 86400
           /\ B(Window) \in Int /\ 0 <= B(Window) /\ B(Window) < 86400
           /\ E(Window) \in Int /\ 0 <= E(Window) /\ E(Window) < 86400
           /\ Open <=> Holds(B(Window), E(Window), now)
           /\ Window.begin = Window.end <=> B(Window) = E(Window)
           /\ Duration(Window) = E(Window) - B(Window) + IF E(Window) <= B(Window) THEN 86400 ELSE 0
<1>1. now \in 0..(Day - 1) /\ Window \in Times
  BY DEF TypeOK, Times
<1>2. now \in Int /\ 0 <= now /\ now < 86400
  BY <1>1, InDay
<1>3. B(Window) \in 0..(Day - 1) /\ E(Window) \in 0..(Day - 1)
  BY <1>1, ContainsSeconds
<1>4. B(Window) \in Int /\ 0 <= B(Window) /\ B(Window) < 86400
  <2>1. PICK b \in 0..(Day - 1) : b = B(Window)
    BY <1>3
  <2>2. b \in Int /\ 0 <= b /\ b < 86400
    BY InDay
  <2>3. QED
    BY <2>1, <2>2
<1>5. E(Window) \in Int /\ 0 <= E(Window) /\ E(Window) < 86400
  <2>1. PICK e \in 0..(Day - 1) : e = E(Window)
    BY <1>3
  <2>2. e \in Int /\ 0 <= e /\ e < 86400
    BY InDay
  <2>3. QED
    BY <2>1, <2>2
<1>6. Open <=> Holds(B(Window), E(Window), now)
  BY <1>1, ContainsSeconds DEF Open
<1>7. Window.begin = Window.end <=> B(Window) = E(Window)
  BY <1>1, ContainsSeconds
<1>8. Duration(Window) = E(Window) - B(Window) + IF E(Window) <= B(Window) THEN Day ELSE 0
  BY <1>1, ContainsSeconds
<1>9. QED
  BY <1>2, <1>4, <1>5, <1>6, <1>7, <1>8, DayInSeconds

LEMMA TickTypes ==
    ASSUME TypeOK, Tick
    PROVE  /\ now' \in 0..(Day - 1) /\ now' \in Int
           /\ now' = IF now = 86399 THEN 0 ELSE now + 1
           /\ written' = written /\ Window' = Window
           /\ Open' <=> Contains(Window, now')
           /\ Open' <=> Holds(B(Window), E(Window), now')
<1>1. now \in 0..(Day - 1) /\ Window \in Times
  BY DEF TypeOK, Times
<1>2. now' = (now + 1) % Day /\ written' = written
  BY DEF Tick
<1>3. now' \in 0..(Day - 1) /\ now' = IF now = Day - 1 THEN 0 ELSE now + 1
  BY <1>1, <1>2, NextSecond
<1>4. now' \in Int
  BY <1>3, InDay
<1>5. Window' = Window
  BY <1>2 DEF Window
<1>6. Open' <=> Contains(Window, now')
  BY <1>5 DEF Open
<1>7. Contains(Window, now') <=> Holds(B(Window), E(Window), now')
  BY <1>1, <1>3, ContainsSeconds
<1>8. now = Day - 1 <=> now = 86399
  BY DEF Day
<1>9. QED
  BY <1>2, <1>3, <1>4, <1>5, <1>6, <1>7, <1>8

LEMMA TickKeeps ==
    ASSUME IInv, Tick
    PROVE  IInv'
<1> DEFINE b == B(Window)
           e == E(Window)
<1>1. TypeOK /\ AgeInv
  BY DEF IInv
<1>2. /\ b \in Int /\ 0 <= b /\ b < 86400 /\ e \in Int /\ 0 <= e /\ e < 86400
      /\ now \in Int /\ 0 <= now /\ now < 86400 /\ (Open <=> Holds(b, e, now))
  BY <1>1, Seconds
<1>3. /\ now' \in 0..(Day - 1) /\ now' \in Int /\ now' = IF now = 86399 THEN 0 ELSE now + 1
      /\ written' = written /\ Window' = Window
      /\ Open' <=> Holds(b, e, now')
  BY <1>1, TickTypes
<1>4. b' = b
  BY <1>3 DEF B
<1>5. e' = e
  BY <1>3 DEF E
<1>6. CASE ~Open'
  <2>1. age' = Unknown
    BY <1>6 DEF Tick
  <2>2. QED
    BY <1>1, <1>3, <2>1 DEF IInv, TypeOK, AgeInv
<1>7. CASE Open' /\ ~Open
  <2>1. age' = 0
    BY <1>7 DEF Tick
  <2>2. now' = b
    BY <1>2, <1>3, <1>7, Borders
  <2>3. Closes(b, e)
    BY <1>2, <1>3, <1>7, <2>2 DEF Closes
  <2>4. AgeInv'
    BY <1>2, <1>4, <1>5, <1>7, <2>1, <2>2, <2>3 DEF AgeInv
  <2>5. 0 \in 0..(Day - 1)
    BY DEF Day
  <2>6. TypeOK'
    BY <1>1, <1>3, <2>1, <2>5 DEF TypeOK
  <2>7. QED
    BY <2>4, <2>6 DEF IInv
<1>8. CASE Open' /\ Open
  <2>1. CASE age = Unknown
    <3>1. age' = Unknown
      BY <1>8, <2>1 DEF Tick
    <3>2. QED
      BY <1>1, <1>3, <3>1 DEF IInv, TypeOK, AgeInv
  <2>2. CASE age # Unknown
    <3>1. age' = age + 1
      BY <1>8, <2>2 DEF Tick
    <3>2. age = now - b + IF now < b THEN 86400 ELSE 0
      BY <1>1, <2>2 DEF AgeInv, Day
    <3>3. Closes(b, e) /\ Holds(b, e, now)
      BY <1>1, <1>2, <1>8, <2>2 DEF AgeInv
    <3>4. PICK a \in Int : a = now' - b + IF now' < b THEN 86400 ELSE 0
      BY <1>2, <1>3
    <3>5. age' = a
      BY ONLY <1>2, <1>3, <3>1, <3>2, <3>3, <3>4 DEF Holds, Closes
    <3>6. AgeInv'
      BY <1>4, <1>5, <1>8, <3>3, <3>4, <3>5 DEF AgeInv, Day
    <3>7. age' \in 0..(Day - 1)
      <4>1. 0 <= a /\ a < 86400
        BY <1>2, <1>3, <3>4, InDay
      <4>2. a < Day
        BY <4>1, BelowDay
      <4>3. a \in 0..(Day - 1)
        BY <4>1, <4>2, DayInt, InRange
      <4>4. QED
        BY <3>5, <4>3
    <3>8. TypeOK'
      BY <1>1, <1>3, <3>7 DEF TypeOK
    <3>9. QED
      BY <3>6, <3>8 DEF IInv
  <2>3. QED
    BY <2>1, <2>2
<1>9. QED
  BY <1>6, <1>7, <1>8

THEOREM Invariance == Spec => []IInv
<1>1. Init => IInv
  <2> SUFFICES ASSUME Init PROVE IInv
    OBVIOUS
  <2>1. now \in 0..(Day - 1) /\ written \in Written /\ age = Unknown
    BY DEF Init
  <2>2. Window \in Times
    BY <2>1, Parses DEF Window
  <2>3. QED
    BY <2>1, <2>2 DEF IInv, TypeOK, AgeInv, Times
<1>2. IInv /\ [Next]_vars => IInv'
  <2> SUFFICES ASSUME IInv, [Next]_vars PROVE IInv'
    OBVIOUS
  <2>1. CASE UserEdits
    <3>1. written' \in Written /\ age' = Unknown /\ now' = now
      BY <2>1 DEF UserEdits
    <3>2. Window' \in Times
      BY <3>1, Parses DEF Window
    <3>3. QED
      BY <3>1, <3>2 DEF IInv, TypeOK, AgeInv, Times
  <2>2. CASE UNCHANGED vars
    BY <2>2 DEF vars, IInv, TypeOK, AgeInv, Open, Window, B, E
  <2>3. QED
    BY <2>1, <2>2, TickKeeps DEF Next
<1>3. QED
  BY <1>1, <1>2, PTL DEF Spec

\* The parsed window is one of times of a day, and its age is less than a day.
THEOREM TypeCorrect == Spec => []TypeOK
BY Invariance, PTL DEF IInv

\* A window is open for as long as Duration says, and for the second of its end,
\* whatever the zones and the sides of midnight.
THEOREM OpensForDuration == Spec => OpenForDuration
<1> DEFINE b == B(Window)
           e == E(Window)
<1>1. ASSUME IInv, Tick, Open, ~Open', age # Unknown
      PROVE  age = IF Window.begin = Window.end THEN 0 ELSE Duration(Window)
  <2>1. TypeOK /\ AgeInv
    BY <1>1 DEF IInv
  <2>2. /\ b \in Int /\ 0 <= b /\ b < 86400 /\ e \in Int /\ 0 <= e /\ e < 86400
        /\ now \in Int /\ 0 <= now /\ now < 86400 /\ Holds(b, e, now)
        /\ (Window.begin = Window.end <=> b = e)
        /\ Duration(Window) = e - b + IF e <= b THEN 86400 ELSE 0
    BY <1>1, <2>1, Seconds
  <2>3. /\ now' \in Int /\ now' = IF now = 86399 THEN 0 ELSE now + 1
        /\ ~Holds(b, e, now')
    BY <1>1, <2>1, TickTypes
  <2>4. now = e
    BY <2>2, <2>3, Borders
  <2>5. age = now - b + IF now < b THEN 86400 ELSE 0
    BY <1>1, <2>1 DEF AgeInv, Day
  <2> HIDE DEF b, e
  <2>6. QED
    BY <2>2, <2>4, <2>5
<1>2. IInv => [Tick /\ Open /\ ~Open' /\ age # Unknown
               => age = IF Window.begin = Window.end THEN 0 ELSE Duration(Window)]_vars
  BY <1>1
<1>3. QED
  BY <1>2, Invariance, PTL DEF OpenForDuration

-----------------------------------------------------------------------------
(* Zones.                                                                  *)

LEMMA Days ==
    ASSUME NEW n \in Int
    PROVE  \E k \in Int, r \in Int : /\ r = n % Day /\ n = 86400 * k + r
                                   /\ 0 <= r /\ r < 86400
<1>1. PICK k \in Int, r \in Int : k = n \div 86400 /\ r = n % 86400
  OBVIOUS
<1>2. n = 86400 * k + r /\ 0 <= r /\ r < 86400
  BY <1>1
<1>3. QED
  BY <1>1, <1>2 DEF Day

\* The parsed time is the written one, turned by the zone.
LEMMA ParsedSecond ==
    ASSUME NEW c \in Clock
    PROVE  /\ SecondOf(c) \in Int /\ 0 <= SecondOf(c) /\ SecondOf(c) < 86400
           /\ c.zone \in Int /\ SecondOf(c) - 60 * c.zone \in Int
           /\ SecondOf(ParseMaintenanceTime(c)) = (SecondOf(c) - 60 * c.zone) % Day
<1>0. c.hour \in 0..23 /\ c.minute \in 0..59 /\ c.second \in 0..59
  BY ClockFields
<1>1. PICK t \in Time : t = [hour |-> c.hour, minute |-> c.minute, second |-> c.second]
  BY <1>0 DEF Time
<1>2. SecondOf(c) = SecondOf(t)
  BY <1>1 DEF SecondOf
<1>3. PICK s \in 0..(Day - 1) : s = SecondOf(t)
  BY SecondInDay
<1>4. s \in Int /\ 0 <= s /\ s < 86400
  BY ONLY s \in 0..(Day - 1), InDay
<1>5. c.zone \in Int
  BY ClockFields
<1>6. SecondOf(c) - 60 * c.zone \in Int
  BY <1>2, <1>3, <1>4, <1>5
<1>7. QED
  BY <1>2, <1>3, <1>4, <1>5, <1>6, Fields DEF ParseMaintenanceTime

\* A window means the same on the clock of its zone as on the UTC clock.
THEOREM InItsZone == Spec => []OpenInItsZone
<1>1. ASSUME TypeOK
      PROVE  OpenInItsZone
  <2> SUFFICES ASSUME written.begin.zone = written.end.zone
               PROVE  Open <=> Holds(SecondOf(written.begin), SecondOf(written.end),
                                     LocalTime(written.begin.zone))
    <3>1. written.begin \in Clock /\ written.end \in Clock
      BY <1>1, WindowAssumption DEF TypeOK
    <3>2. PICK wb \in Int, we \in Int : wb = SecondOf(written.begin) /\ we = SecondOf(written.end)
      BY <3>1, ParsedSecond
    <3>3. QED
      BY <3>2 DEF OpenInItsZone, Holds
  <2>1. written.begin \in Clock /\ written.end \in Clock
    BY <1>1, WindowAssumption DEF TypeOK
  <2>2. PICK z \in Int, wb \in Int, we \in Int :
          /\ z = written.begin.zone /\ z = written.end.zone
          /\ wb = SecondOf(written.begin) /\ we = SecondOf(written.end)
    BY <2>1, ParsedSecond
  <2>3. 0 <= wb /\ wb < 86400 /\ 0 <= we /\ we < 86400
    BY <2>1, <2>2, ParsedSecond
  <2>4. B(Window) = (wb - 60 * z) % Day /\ E(Window) = (we - 60 * z) % Day
    BY <2>1, <2>2, ParsedSecond DEF Window, ParseMaintenanceTimeWindow, B, E
  <2>5. PICK u \in Int : u = 60 * z
    OBVIOUS
  <2>6. /\ now \in Int /\ 0 <= now /\ now < 86400
        /\ Open <=> Holds(B(Window), E(Window), now)
    BY <1>1, Seconds
  <2>7. PICK x \in Int, y \in Int, v \in Int : x = wb - u /\ y = we - u /\ v = now + u
    BY <2>6
  <2>8. PICK kb \in Int, b \in Int : b = x % Day /\ x = 86400 * kb + b /\ 0 <= b /\ b < 86400
    BY ONLY x \in Int, Days
  <2>9. PICK ke \in Int, e \in Int : e = y % Day /\ y = 86400 * ke + e /\ 0 <= e /\ e < 86400
    BY ONLY y \in Int, Days
  <2>10. PICK kl \in Int, l \in Int : l = v % Day /\ v = 86400 * kl + l /\ 0 <= l /\ l < 86400
    BY ONLY v \in Int, Days
  <2>11. l = now - b + wb \/ l = now - b + wb + 86400 \/ l = now - b + wb - 86400
    BY ONLY <2>3, <2>6, <2>7, <2>8, <2>10
  <2>12. we - wb = e - b \/ we - wb = e - b + 86400 \/ we - wb = e - b - 86400
    <3>1. PICK d \in Int : d = ke - kb
      OBVIOUS
    <3>2. we - wb = 86400 * d + e - b
      BY ONLY <2>7, <2>8, <2>9, <3>1
    <3>3. d < 2 /\ d > -2
      BY ONLY <2>3, <2>8, <2>9, <3>2
    <3>4. d = 0 \/ d = 1 \/ d = -1
      BY ONLY <3>3
    <3>5. QED
      BY ONLY <3>2, <3>4
  <2>13. Holds(b, e, now) <=> Holds(wb, we, l)
    BY ONLY <2>3, <2>6, <2>8, <2>9, <2>10, <2>11, <2>12 DEF Holds
  <2>14. B(Window) = b /\ E(Window) = e /\ LocalTime(written.begin.zone) = l
    BY <2>2, <2>4, <2>5, <2>7, <2>8, <2>9, <2>10 DEF LocalTime
  <2>15. QED
    BY <2>2, <2>6, <2>13, <2>14
<1>2. QED
  BY <1>1, TypeCorrect, PTL
=============================================================================
