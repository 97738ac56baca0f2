--------------------------- MODULE CalendarProofs ---------------------------
(***************************************************************************)
(* Proofs about the calendar, for every year: the numbers of dates, the    *)
(* carrying of days over months, the walk of a recurring schedule and the  *)
(* reconciliation periods of an account.                                   *)
(***************************************************************************)
EXTENDS Schedule, Periods, Sums

Dates == {d \in [month : Int, day : Int] : d.day \in 1 .. MonthLength(d.month)}

\* The number of the first day of a month.
First(m) == DayNumber([month |-> m, day |-> 1])

-----------------------------------------------------------------------------
(***************************************************************************)
(* The lengths of months.                                                  *)
(***************************************************************************)

\* One year more has a multiple of n more exactly when it is one.
LEMMA Multiples ==
    ASSUME NEW y \in Int
    PROVE  /\ (y \div 4) - ((y - 1) \div 4) = IF y % 4 = 0 THEN 1 ELSE 0
           /\ (y \div 100) - ((y - 1) \div 100) = IF y % 100 = 0 THEN 1 ELSE 0
           /\ (y \div 400) - ((y - 1) \div 400) = IF y % 400 = 0 THEN 1 ELSE 0
           /\ y % 400 = 0 => y % 100 = 0
           /\ y % 100 = 0 => y % 4 = 0
    OBVIOUS

\* The years up to and including y that have a leap day.
LeapDays(y) == (y \div 4) - (y \div 100) + (y \div 400)

LEMMA LeapDayOf ==
    ASSUME NEW y \in Int
    PROVE  /\ LeapDays(y) \in Int
           /\ LeapDays(y) = LeapDays(y - 1) + IF IsLeap(y) THEN 1 ELSE 0
<1>1. /\ (y \div 4) - ((y - 1) \div 4) = IF y % 4 = 0 THEN 1 ELSE 0
      /\ (y \div 100) - ((y - 1) \div 100) = IF y % 100 = 0 THEN 1 ELSE 0
      /\ (y \div 400) - ((y - 1) \div 400) = IF y % 400 = 0 THEN 1 ELSE 0
      /\ y % 400 = 0 => y % 100 = 0
      /\ y % 100 = 0 => y % 4 = 0
    BY Multiples
<1>2. /\ y \div 4 \in Int /\ y \div 100 \in Int /\ y \div 400 \in Int
      /\ (y - 1) \div 4 \in Int /\ (y - 1) \div 100 \in Int /\ (y - 1) \div 400 \in Int
    OBVIOUS
<1>3. IsLeap(y) <=> y % 4 = 0 /\ (y % 100 # 0 \/ y % 400 = 0)
    BY DEF IsLeap
<1> QED BY <1>1, <1>2, <1>3 DEF LeapDays

\* The month after a month, in the same year or the next.
LEMMA MonthOfYear ==
    ASSUME NEW m \in Int
    PROVE  /\ m \div 12 \in Int /\ m % 12 \in 0 .. 11
           /\ m % 12 < 11 => (m + 1) \div 12 = m \div 12 /\ (m + 1) % 12 = (m % 12) + 1
           /\ m % 12 = 11 => (m + 1) \div 12 = (m \div 12) + 1 /\ (m + 1) % 12 = 0
    OBVIOUS

\* The number of the first of January, and the days of the year before a month.
YearStart(y) == 365 * y + LeapDays(y - 1) + 1

MonthStart(y, r) == DaysBeforeMonth[r + 1] + (IF r > 1 /\ IsLeap(y) THEN 1 ELSE 0)

LEMMA MonthStarts ==
    ASSUME NEW y
    PROVE  LET leap == IF IsLeap(y) THEN 1 ELSE 0
           IN  /\ MonthStart(y, 0) = 0
               /\ MonthStart(y, 1) = 31
               /\ MonthStart(y, 2) = 59 + leap
               /\ MonthStart(y, 3) = 90 + leap
               /\ MonthStart(y, 4) = 120 + leap
               /\ MonthStart(y, 5) = 151 + leap
               /\ MonthStart(y, 6) = 181 + leap
               /\ MonthStart(y, 7) = 212 + leap
               /\ MonthStart(y, 8) = 243 + leap
               /\ MonthStart(y, 9) = 273 + leap
               /\ MonthStart(y, 10) = 304 + leap
               /\ MonthStart(y, 11) = 334 + leap
BY DEF MonthStart, DaysBeforeMonth

\* A year has 365 days, or 366.
LEMMA YearStep ==
    ASSUME NEW y \in Int
    PROVE  /\ YearStart(y) \in Int
           /\ YearStart(y + 1) = YearStart(y) + 365 + IF IsLeap(y) THEN 1 ELSE 0
<1>1. y - 1 \in Int /\ LeapDays(y - 1) \in Int /\ (y + 1) - 1 = y
    BY LeapDayOf
<1>2. LeapDays(y) = LeapDays(y - 1) + IF IsLeap(y) THEN 1 ELSE 0
    BY LeapDayOf
<1> QED BY <1>1, <1>2 DEF YearStart

\* The number of a date is that of the first of its month, and its day.
LEMMA NumberOf ==
    ASSUME NEW m \in Int, NEW day \in Int
    PROVE  /\ First(m) = YearStart(m \div 12) + MonthStart(m \div 12, m % 12)
           /\ First(m) \in Int
           /\ DayNumber([month |-> m, day |-> day]) = First(m) + day - 1
<1> DEFINE y == m \div 12
           r == m % 12
           number(d) == DayNumber([month |-> m, day |-> d])
<1>1. y \in Int /\ r \in 0 .. 11
    BY MonthOfYear
<1>2. /\ (y - 1) \div 4 \in Int /\ (y - 1) \div 100 \in Int /\ (y - 1) \div 400 \in Int
      /\ LeapDays(y - 1) = ((y - 1) \div 4) - ((y - 1) \div 100) + ((y - 1) \div 400)
    BY <1>1 DEF LeapDays
<1>3. MonthStart(y, r) \in Int
    BY <1>1, MonthStarts
<1>4. ASSUME NEW d \in Int
      PROVE  number(d) = YearStart(y) + MonthStart(y, r) + d - 1
  <2>1. number(d) = 365 * y + ((y - 1) \div 4) - ((y - 1) \div 100) + ((y - 1) \div 400)
            + DaysBeforeMonth[r + 1] + (IF r + 1 > 2 /\ IsLeap(y) THEN 1 ELSE 0) + d
      BY DEF DayNumber
  <2>2. /\ DaysBeforeMonth[r + 1] \in Int
        /\ MonthStart(y, r) = DaysBeforeMonth[r + 1]
                              + (IF r + 1 > 2 /\ IsLeap(y) THEN 1 ELSE 0)
      BY <1>1 DEF MonthStart, DaysBeforeMonth
  <2> HIDE DEF y, r, number
  <2> QED BY <1>1, <1>2, <2>1, <2>2 DEF YearStart
<1>5. YearStart(y) \in Int
    BY <1>1, YearStep
<1>6. First(m) = number(1)
    BY DEF First
<1> HIDE DEF y, r, number
<1>7. number(1) = YearStart(y) + MonthStart(y, r) /\ number(day) = number(1) + day - 1
    BY <1>3, <1>4, <1>5
<1> QED BY <1>3, <1>5, <1>6, <1>7 DEF y, r, number

\* A month has 28 to 31 days, and the next one begins after its last.
LEMMA MonthStep ==
    ASSUME NEW m \in Int
    PROVE  /\ MonthLength(m) \in 28 .. 31
           /\ First(m + 1) = First(m) + MonthLength(m)
<1> DEFINE y == m \div 12
           r == m % 12
           leap == IF IsLeap(y) THEN 1 ELSE 0
<1>1. y \in Int /\ r \in 0 .. 11 /\ m + 1 \in Int /\ YearStart(y) \in Int
    BY MonthOfYear, YearStep
<1>2. /\ First(m) = YearStart(y) + MonthStart(y, r)
      /\ First(m + 1) = YearStart((m + 1) \div 12)
                        + MonthStart((m + 1) \div 12, (m + 1) % 12)
  <2>1. 1 \in Int
      OBVIOUS
  <2> QED BY <1>1, <2>1, NumberOf
<1>3. MonthLength(m) = IF r = 1 THEN 28 + leap
                       ELSE IF r \in {3, 5, 8, 10} THEN 30 ELSE 31
    BY <1>1 DEF MonthLength
<1>4. /\ r < 11 => (m + 1) \div 12 = y /\ (m + 1) % 12 = r + 1
      /\ r = 11 => (m + 1) \div 12 = y + 1 /\ (m + 1) % 12 = 0
    BY MonthOfYear
<1>5. YearStart(y + 1) = YearStart(y) + 365 + leap /\ MonthStart(y + 1, 0) = 0
    BY <1>1, YearStep, MonthStarts
<1>6. MonthStart(y, 11) = 334 + leap
    BY MonthStarts
<1>7. leap \in 0 .. 1
    OBVIOUS
<1>8. ASSUME r < 11
      PROVE  MonthStart(y, r + 1) = MonthStart(y, r) + MonthLength(m)
             /\ MonthStart(y, r) \in Int
  <2> HIDE DEF y, r, leap
  <2>1. \/ r = 0 \/ r = 1 \/ r = 2 \/ r = 3 \/ r = 4 \/ r = 5
        \/ r = 6 \/ r = 7 \/ r = 8 \/ r = 9 \/ r = 10
      BY <1>1, <1>8
  <2> QED BY <1>3, <1>7, <2>1, MonthStarts DEF leap
<1> HIDE DEF y, r, leap
<1>9. MonthLength(m) \in 28 .. 31
    BY <1>3, <1>7
<1>10. CASE r < 11
    BY <1>1, <1>2, <1>4, <1>8, <1>9, <1>10
<1>11. CASE r = 11
    BY <1>1, <1>2, <1>3, <1>4, <1>5, <1>6, <1>7, <1>11
<1> QED BY <1>1, <1>9, <1>10, <1>11

\* Over n months there are 28 to 31 days a month.
LEMMA MonthsApart ==
    ASSUME NEW m \in Int, NEW n \in Nat
    PROVE  /\ First(m) \in Int /\ First(m + n) \in Int
           /\ First(m) + 28 * n <= First(m + n)
           /\ First(m + n) <= First(m) + 31 * n
<1> DEFINE Bounded(i) == /\ First(m + i) \in Int
                         /\ First(m) + 28 * i <= First(m + i)
                         /\ First(m + i) <= First(m) + 31 * i
           T == {i \in Nat : ~Bounded(i)}
<1>1. \A i \in Nat : First(m + i) \in Int
  <2>1. 1 \in Int /\ \A i \in Nat : m + i \in Int
      OBVIOUS
  <2> QED BY <2>1, NumberOf
<1>2. First(m) \in Int /\ m + 0 = m
    BY <1>1
<1>3. Bounded(0)
    BY <1>2
<1>4. ASSUME NEW i \in Nat, Bounded(i) PROVE Bounded(i + 1)
  <2>1. /\ MonthLength(m + i) \in 28 .. 31
        /\ First((m + i) + 1) = First(m + i) + MonthLength(m + i)
      BY MonthStep
  <2>2. (m + i) + 1 = m + (i + 1)
      OBVIOUS
  <2> QED BY <1>2, <1>4, <2>1, <2>2
<1> HIDE DEF Bounded
<1>5. ASSUME T # {} PROVE FALSE
  <2>1. PICK i \in T : \A k \in T : i <= k
      BY <1>5, LeastNatural
  <2>2. i \in Nat /\ i # 0 /\ ~Bounded(i)
      BY <1>3, <2>1
  <2>3. i - 1 \in Nat /\ i - 1 \notin T /\ (i - 1) + 1 = i
      BY <2>1, <2>2
  <2> QED BY <1>4, <2>2, <2>3
<1> QED BY <1>2, <1>5 DEF Bounded

\* A later month begins at least 28 days later.
LEMMA LaterMonth ==
    ASSUME NEW m \in Int, NEW k \in Int, m < k
    PROVE  First(m) \in Int /\ First(k) \in Int /\ First(m) + 28 <= First(k)
<1> DEFINE n == k - m
<1>1. n \in Nat /\ n >= 1 /\ m + n = k
    OBVIOUS
<1> HIDE DEF n
<1>2. First(m) \in Int /\ First(m + n) \in Int /\ First(m) + 28 * n <= First(m + n)
    BY <1>1, MonthsApart
<1> QED BY <1>1, <1>2

\* Only one month has the day of a number.
LEMMA MonthUnique ==
    ASSUME NEW m \in Int, NEW k \in Int, NEW number \in Int,
           First(m) <= number, number < First(m + 1),
           First(k) <= number, number < First(k + 1)
    PROVE  m = k
<1>1. ASSUME NEW a \in Int, NEW b \in Int, a < b PROVE First(a + 1) <= First(b)
  <2>1. First(a) \in Int /\ a + 1 \in Int
      BY <1>1, LaterMonth
  <2>2. CASE a + 1 = b
      BY <1>1, <2>2, LaterMonth
  <2>3. CASE a + 1 < b
      BY <2>1, <2>3, LaterMonth
  <2> QED BY <1>1, <2>2, <2>3
<1>2. /\ First(m) \in Int /\ First(k) \in Int
      /\ First(m + 1) \in Int /\ First(k + 1) \in Int
  <2>1. m < m + 1 /\ k < k + 1 /\ m + 1 \in Int /\ k + 1 \in Int
      OBVIOUS
  <2> QED BY <2>1, LaterMonth
<1>3. ~(m < k)
    BY <1>1, <1>2
<1>4. ~(k < m)
    BY <1>1, <1>2
<1> QED BY <1>3, <1>4

\* Between the firsts of two months every number is a day of some month.
LEMMA MonthOfNumber ==
    ASSUME NEW low \in Int, NEW high \in Int, NEW number \in Int,
           First(low) <= number, number < First(high + 1)
    PROVE  \E m \in low .. high : First(m) <= number /\ number < First(m + 1)
<1> DEFINE T == {i \in Nat : number < First(low + i + 1)}
<1>1. low <= high
  <2>1. First(low) \in Int /\ First(high + 1) \in Int /\ high + 1 \in Int
    <3>1. high < high + 1 /\ low < low + 1 /\ high + 1 \in Int /\ low + 1 \in Int
        OBVIOUS
    <3> QED BY <3>1, LaterMonth
  <2>2. high + 1 # low
      BY <2>1
  <2>3. ~(high + 1 < low)
      BY <2>1, LaterMonth
  <2> QED BY <2>1, <2>2, <2>3
<1>2. high - low \in T
  <2>1. low + (high - low) + 1 = high + 1 /\ high - low \in Nat
      BY <1>1
  <2> QED BY <2>1
<1>3. PICK i \in T : \A k \in T : i <= k
    BY <1>2, LeastNatural
<1>4. i \in Nat /\ low + i \in low .. high /\ number < First(low + i + 1)
  <2>1. i \in Nat /\ number < First(low + i + 1)
      BY <1>3
  <2>2. i <= high - low
      BY <1>2, <1>3
  <2> HIDE DEF T
  <2> QED BY <1>1, <2>1, <2>2
<1>5. First(low + i) <= number
  <2>1. CASE i = 0
    <3>1. low + i = low
        BY <2>1
    <3> QED BY <3>1
  <2>2. CASE i # 0
    <3>1. i - 1 \in Nat /\ i - 1 \notin T
        BY <1>3, <1>4, <2>2
    <3>2. low + (i - 1) + 1 = low + i
        BY <1>4
    <3>3. First(low + i) \in Int
      <4>1. low + i \in Int /\ low + i < low + i + 1 /\ low + i + 1 \in Int
          BY <1>4
      <4> QED BY <4>1, LaterMonth
    <3> QED BY <3>1, <3>2, <3>3
  <2> QED BY <2>1, <2>2
<1> QED BY <1>4, <1>5

-----------------------------------------------------------------------------
(***************************************************************************)
(* time.Date and AddDate.                                                  *)
(***************************************************************************)

\* A date with the number the day would have, whatever the day is carried over:
\* up to a month back, and any number of days forward.
LEMMA GoDateIs ==
    ASSUME NEW month \in Int, NEW day \in Int, day >= -31
    PROVE  /\ GoDate(month, day) \in Dates
           /\ DayNumber(GoDate(month, day)) = First(month) + day - 1
<1> DEFINE number == First(month) + day - 1
           low == month + (day \div 31) - 1
           high == month + (day \div 28) + 1
           InMonth(m) == First(m) <= number /\ number < First(m + 1)
           m0 == CHOOSE m \in low .. high : InMonth(m)
<1>1. First(month) \in Int
    BY NumberOf
<1>2. /\ day \div 31 \in Int /\ day \div 28 \in Int
      /\ 31 * (day \div 31) <= day /\ day < 31 * (day \div 31) + 31
      /\ 28 * (day \div 28) <= day /\ day < 28 * (day \div 28) + 28
    OBVIOUS
<1>3. number \in Int /\ low \in Int /\ high \in Int
    BY <1>1, <1>2
<1>4. First(low) <= number
  <2> DEFINE q == day \div 31
  <2>1. CASE q >= 1
    <3>1. q - 1 \in Nat /\ month + (q - 1) = low
        BY <1>2, <2>1
    <3>2. First(low) <= First(month) + 31 * (q - 1) /\ First(low) \in Int
        BY <3>1, MonthsApart
    <3> HIDE DEF q, low
    <3> QED BY <1>1, <1>2, <3>1, <3>2 DEF q
  <2>2. CASE q < 1
    <3>1. 1 - q \in Nat /\ low + (1 - q) = month
        BY <1>2, <2>2
    <3>2. First(low) + 28 * (1 - q) <= First(month) /\ First(low) \in Int
        BY <1>3, <3>1, MonthsApart
    <3>3. q >= -1
        BY <1>2
    <3> HIDE DEF q, low
    <3> QED BY <1>1, <1>2, <3>1, <3>2, <3>3 DEF q
  <2> QED BY <1>2, <2>1, <2>2
<1>5. number < First(high + 1)
  <2> DEFINE q == day \div 28
  <2>1. q >= -2
      BY <1>2
  <2>2. q + 2 \in Nat /\ month + (q + 2) = high + 1
      BY <1>2, <2>1
  <2>3. First(month) + 28 * (q + 2) <= First(high + 1) /\ First(high + 1) \in Int
      BY <2>2, MonthsApart
  <2> HIDE DEF q, high
  <2> QED BY <1>1, <1>2, <2>2, <2>3 DEF q
<1>6. GoDate(month, day) = [month |-> m0, day |-> number - First(m0) + 1]
    BY DEF GoDate, First
<1> HIDE DEF number, low, high
<1>7. m0 \in low .. high /\ InMonth(m0)
    BY <1>3, <1>4, <1>5, MonthOfNumber
<1> HIDE DEF m0
<1>8. m0 \in Int /\ First(m0) \in Int /\ First(m0 + 1) = First(m0) + MonthLength(m0)
      /\ MonthLength(m0) \in 28 .. 31
  <2>1. m0 \in Int
      BY <1>3, <1>7
  <2> QED BY <1>3, <2>1, NumberOf, MonthStep
<1> DEFINE d == number - First(m0) + 1
<1>9. d \in Int /\ d \in 1 .. MonthLength(m0)
    BY <1>3, <1>7, <1>8
<1>10. First(m0) + d - 1 = number
    BY <1>3, <1>8
<1>11. DayNumber([month |-> m0, day |-> d]) = First(m0) + d - 1
  <2> HIDE DEF d
  <2> QED BY <1>8, <1>9, NumberOf
<1> HIDE DEF d
<1> QED BY <1>6, <1>8, <1>9, <1>10, <1>11 DEF Dates, d, number

\* No other date has that number.
LEMMA GoDateFinds ==
    ASSUME NEW month \in Int, NEW day \in Int, day >= -31,
           NEW m \in Int, NEW e \in 1 .. MonthLength(m),
           First(month) + day - 1 = First(m) + e - 1
    PROVE  GoDate(month, day) = [month |-> m, day |-> e]
<1> DEFINE date == GoDate(month, day)
           number == First(month) + day - 1
<1>1. /\ MonthLength(m) \in 28 .. 31 /\ e \in Int /\ e >= 1 /\ e <= MonthLength(m)
      /\ First(month) \in Int
      /\ First(m) \in Int /\ First(m + 1) = First(m) + MonthLength(m)
  <2>1. MonthLength(m) \in 28 .. 31
      BY MonthStep
  <2>2. e \in Int /\ e >= 1 /\ e <= MonthLength(m)
      BY <2>1
  <2> QED BY <2>1, <2>2, MonthStep, NumberOf
<1>2. date \in Dates /\ DayNumber(date) = number
    BY GoDateIs
<1> HIDE DEF date
<1> DEFINE k == date.month
           d == date.day
<1>3. k \in Int /\ MonthLength(k) \in 28 .. 31 /\ d \in 1 .. MonthLength(k)
      /\ date = [month |-> k, day |-> d]
    BY <1>2, MonthStep DEF Dates
<1>4. d \in Int
    BY <1>3
<1> HIDE DEF k, d
<1>5. /\ DayNumber([month |-> k, day |-> d]) = First(k) + d - 1
      /\ First(k) \in Int /\ First(k + 1) = First(k) + MonthLength(k)
    BY <1>3, <1>4, NumberOf, MonthStep
<1>6. /\ number \in Int
      /\ First(k) <= number /\ number < First(k + 1)
    BY <1>1, <1>2, <1>3, <1>4, <1>5
<1>7. First(m) <= number /\ number < First(m + 1)
    BY <1>1, <1>6
<1>8. number = First(k) + d - 1 /\ number = First(m) + e - 1
    BY <1>2, <1>3, <1>5
<1> HIDE DEF number
<1>9. k = m
    BY <1>3, <1>6, <1>7, MonthUnique
<1>10. d = e
    BY <1>1, <1>4, <1>5, <1>8, <1>9
<1> QED BY <1>3, <1>9, <1>10 DEF date

\* A day that the month has is not carried.
LEMMA GoDateStays ==
    ASSUME NEW month \in Int, NEW day \in 1 .. MonthLength(month)
    PROVE  GoDate(month, day) = [month |-> month, day |-> day]
<1>1. day \in Int /\ day >= -31
    BY MonthStep
<1>2. First(month) + day - 1 = First(month) + day - 1
    OBVIOUS
<1> QED BY ONLY <1>1, <1>2, GoDateFinds, month \in Int, day \in 1 .. MonthLength(month)

\* Day 0 of the next month is the last day of this one.
LEMMA GoDateBack ==
    ASSUME NEW month \in Int
    PROVE  GoDate(month + 1, 0) = [month |-> month, day |-> MonthLength(month)]
<1> DEFINE next1 == month + 1
           day == 0
           e == MonthLength(month)
<1>1. /\ next1 \in Int /\ day \in Int /\ day >= -31
      /\ First(month) \in Int /\ e \in 28 .. 31 /\ First(next1) = First(month) + e
  <2>1. e \in 28 .. 31 /\ First(month + 1) = First(month) + e
      BY MonthStep
  <2>2. First(month) \in Int
      BY NumberOf
  <2> QED BY <2>1, <2>2
<1>2. First(next1) + day - 1 = First(month) + e - 1
    BY <1>1
<1>3. e \in 1 .. e
    BY <1>1
<1> HIDE DEF next1, day
<1> HIDE DEF e
<1>4. \A n \in 1 .. MonthLength(month) :
          First(next1) + day - 1 = First(month) + n - 1
              => GoDate(next1, day) = [month |-> month, day |-> n]
    BY ONLY <1>1, GoDateFinds, month \in Int
<1>5. e = MonthLength(month)
    BY DEF e
<1>6. GoDate(next1, day) = [month |-> month, day |-> e]
    BY ONLY <1>2, <1>3, <1>4, <1>5
<1> QED BY <1>5, <1>6 DEF next1, day

\* What a date is made of, and its number.
LEMMA DateParts ==
    ASSUME NEW date \in Dates
    PROVE  /\ date = [month |-> date.month, day |-> date.day]
           /\ date.month \in Int /\ date.day \in Int
           /\ date.day >= 1 /\ date.day <= MonthLength(date.month)
           /\ MonthLength(date.month) \in 28 .. 31
           /\ First(date.month) \in Int
           /\ First(date.month + 1) = First(date.month) + MonthLength(date.month)
           /\ DayNumber(date) = First(date.month) + date.day - 1
<1>1. /\ date = [month |-> date.month, day |-> date.day]
      /\ date.month \in Int /\ date.day \in Int /\ date.day \in 1 .. MonthLength(date.month)
    BY DEF Dates
<1>2. /\ MonthLength(date.month) \in 28 .. 31
      /\ First(date.month) \in Int
      /\ First(date.month + 1) = First(date.month) + MonthLength(date.month)
      /\ DayNumber([month |-> date.month, day |-> date.day])
             = First(date.month) + date.day - 1
    BY <1>1, MonthStep, NumberOf
<1> QED BY <1>1, <1>2

\* A date of a later month is later.
LEMMA LaterMonthIsLater ==
    ASSUME NEW d \in Dates, NEW e \in Dates, d.month < e.month
    PROVE  Before(d, e)
<1> DEFINE m == d.month
           k == e.month
<1>1. /\ m \in Int /\ k \in Int /\ m < k
      /\ First(m) \in Int /\ First(k) \in Int
      /\ First(m + 1) = First(m) + MonthLength(m) /\ MonthLength(m) \in 28 .. 31
      /\ d.day \in Int /\ d.day <= MonthLength(m) /\ e.day \in Int /\ e.day >= 1
      /\ DayNumber(d) = First(m) + d.day - 1
      /\ DayNumber(e) = First(k) + e.day - 1
    BY DateParts
<1> HIDE DEF m, k
<1>2. First(m + 1) <= First(k)
  <2>1. CASE m + 1 = k
      BY <1>1, <2>1
  <2>2. CASE m + 1 < k
    <3>1. m + 1 \in Int
        BY <1>1
    <3> QED BY <1>1, <2>2, <3>1, LaterMonth
  <2> QED BY <1>1, <2>1, <2>2
<1> QED BY <1>1, <1>2 DEF Before

\* addMonthsClamped: the day of the anchor, or the last of a shorter month.
LEMMA Clamped ==
    ASSUME NEW anchor0 \in Dates, NEW months \in Int
    PROVE  LET m == anchor0.month + months
           IN  /\ AddMonthsClamped(anchor0, months) \in Dates
               /\ AddMonthsClamped(anchor0, months) =
                    [month |-> m,
                     day   |-> IF anchor0.day > MonthLength(m) THEN MonthLength(m)
                               ELSE anchor0.day]
<1> DEFINE m == anchor0.month + months
           day == IF anchor0.day > MonthLength(m) THEN MonthLength(m) ELSE anchor0.day
           one == 1
<1>1. /\ anchor0.month \in Int /\ anchor0.day \in Int /\ anchor0.day >= 1
      /\ m \in Int
    BY DateParts
<1>2. MonthLength(m) \in 28 .. 31 /\ one \in 1 .. MonthLength(m)
    BY <1>1, MonthStep
<1>3. AddDate([anchor0 EXCEPT !.day = 1], months, 0) = GoDate(m, one)
    BY DEF AddDate, Dates
<1> HIDE DEF m
<1>4. day \in 1 .. MonthLength(m)
    BY <1>1, <1>2
<1> HIDE DEF one, day
<1>5. /\ GoDate(m, one) = [month |-> m, day |-> one]
      /\ GoDate(m, day) = [month |-> m, day |-> day]
      /\ GoDate(m + 1, 0) = [month |-> m, day |-> MonthLength(m)]
    BY <1>1, <1>2, <1>4, GoDateStays, GoDateBack
<1>6. AddMonthsClamped(anchor0, months) = [month |-> m, day |-> day]
    BY <1>3, <1>5 DEF AddMonthsClamped, day
<1>7. day \in Int
    BY <1>2, <1>4
<1> QED BY <1>1, <1>4, <1>6, <1>7 DEF Dates, m, day

-----------------------------------------------------------------------------
(***************************************************************************)
(* The walk of a schedule.                                                 *)
(***************************************************************************)

\* Months from one date of a monthly or yearly schedule to the next.
MonthsPerStep(unit, count) == IF unit = "YEARS" THEN 12 * count ELSE count

\* Days from one date of a daily or weekly schedule to the next.
DaysPerStep(unit, count) == IF unit = "WEEKS" THEN 7 * count ELSE count

\* nextRecurringDate counts days from the current date.
LEMMA NextByDays ==
    ASSUME NEW start \in Dates, NEW current \in Dates, NEW unit \in {"DAYS", "WEEKS"},
           NEW count \in Nat \ {0}
    PROVE  LET date == NextRecurringDate(start, current, unit, count)
           IN  /\ date \in Dates
               /\ DayNumber(date) = DayNumber(current) + DaysPerStep(unit, count)
<1> DEFINE n == DaysPerStep(unit, count)
           day == current.day + n
           month == current.month
<1>1. n \in Nat /\ current.day \in Int /\ current.day >= 1 /\ month \in Int
      /\ First(month) \in Int /\ DayNumber(current) = First(month) + current.day - 1
    BY DateParts DEF DaysPerStep
<1>2. NextRecurringDate(start, current, unit, count) = GoDate(month + 0, day)
    BY DEF NextRecurringDate, AddDate, DaysPerStep
<1> HIDE DEF n, month
<1>3. day \in Int /\ day >= -31 /\ month + 0 = month
    BY <1>1
<1> HIDE DEF day
<1>4. /\ GoDate(month, day) \in Dates
      /\ DayNumber(GoDate(month, day)) = First(month) + day - 1
    BY <1>1, <1>3, GoDateIs
<1>5. First(month) + day - 1 = DayNumber(current) + n
    BY <1>1 DEF day
<1> QED BY <1>2, <1>3, <1>4, <1>5 DEF n

\* nextRecurringDate counts months from the start, so that the day of the month
\* comes back after a month that lacks it.
LEMMA NextByMonths ==
    ASSUME NEW start \in Dates, NEW current \in Dates, NEW unit \in {"MONTHS", "YEARS"},
           NEW count \in Nat \ {0}, NEW n \in Nat,
           current.month = start.month + n * MonthsPerStep(unit, count)
    PROVE  NextRecurringDate(start, current, unit, count) =
               AddMonthsClamped(start, (n + 1) * MonthsPerStep(unit, count))
<1> DEFINE step == MonthsPerStep(unit, count)
           index == ((current.month - start.month) \div step) + 1
           candidate(i) == AddMonthsClamped(start, i * step)
           T == {i \in {index, index + 1} : Before(current, candidate(i))}
<1>1. step \in Nat /\ step >= 1 /\ start.month \in Int /\ n * step \in Int
    BY DateParts DEF MonthsPerStep
<1>2. index = n + 1
  <2>1. current.month - start.month = n * step
      BY <1>1
  <2>2. (n * step) \div step = n
    <3> HIDE DEF step
    <3> QED BY <1>1
  <2> QED BY <2>1, <2>2
<1>3. Before(current, candidate(n + 1))
  <2>1. (n + 1) * step = n * step + step /\ (n + 1) * step \in Int
    <3> HIDE DEF step
    <3> QED BY <1>1
  <2>2. /\ candidate(n + 1) \in Dates
        /\ candidate(n + 1).month = start.month + (n + 1) * step
    <3> DEFINE months == (n + 1) * step
    <3>1. months \in Int
        BY <2>1
    <3> HIDE DEF months
    <3>2. /\ AddMonthsClamped(start, months) \in Dates
          /\ AddMonthsClamped(start, months).month = start.month + months
        BY <3>1, Clamped
    <3> QED BY <3>2 DEF months
  <2>3. current.month < candidate(n + 1).month
    <3> HIDE DEF step, candidate
    <3> QED BY <1>1, <2>1, <2>2 DEF step
  <2> HIDE DEF candidate
  <2> QED BY <2>2, <2>3, LaterMonthIsLater
<1>4. NextRecurringDate(start, current, unit, count) = candidate(Min(T))
    BY DEF NextRecurringDate, MonthsPerStep
<1> HIDE DEF candidate
<1>5. Min(T) = n + 1
  <2>1. n + 1 \in T /\ \A i \in T : i = n + 1 \/ i = n + 2
      BY <1>2, <1>3
  <2> HIDE DEF T
  <2> QED BY <2>1 DEF Min
<1> QED BY <1>4, <1>5 DEF candidate

\* The interval of a template is one that normalizeRecurringSchedule accepts.
LEMMA FrequencyParts ==
    ASSUME frequency \in Frequencies
    PROVE  /\ frequency[1] \in {"DAYS", "WEEKS", "MONTHS", "YEARS"}
           /\ frequency[2] \in Nat \ {0}
<1>1. CASE frequency \in CustomUnits \X CustomCounts
  <2>1. frequency[1] \in CustomUnits /\ frequency[2] \in CustomCounts
      BY <1>1
  <2> QED BY <2>1, ScheduleConstants
<1>2. CASE frequency = <<"WEEKS", 1>>
    BY <1>2
<1>3. CASE frequency = <<"MONTHS", 1>> \/ frequency = <<"MONTHS", 3>>
    BY <1>3
<1>4. CASE frequency = <<"YEARS", 1>>
    BY <1>4
<1> QED BY <1>1, <1>2, <1>3, <1>4 DEF Frequencies

\* After the template's dates, so far, comes its n-th.
LEMMA NthDate ==
    ASSUME NEW date \in Dates, NEW n \in Nat, anchor \in Dates,
           frequency \in Frequencies
    PROVE  /\ frequency[1] \in {"DAYS", "WEEKS"} =>
                 (IsNthDate(date, n) <=>
                     DayNumber(date) = DayNumber(anchor)
                                       + n * DaysPerStep(frequency[1], frequency[2]))
           /\ frequency[1] \in {"MONTHS", "YEARS"} =>
                 (IsNthDate(date, n) <=>
                     date = AddMonthsClamped(anchor,
                                n * MonthsPerStep(frequency[1], frequency[2])))
<1> DEFINE unit == frequency[1]
           count == frequency[2]
           months == n * MonthsPerStep(unit, count)
<1>1. unit \in {"DAYS", "WEEKS", "MONTHS", "YEARS"} /\ count \in Nat \ {0}
    BY FrequencyParts
<1>2. n * count \in Nat /\ 7 * n * count = n * (7 * count) /\ n * (12 * count) = n * count * 12
  <2> HIDE DEF unit, count
  <2> QED BY <1>1
<1>3. CASE unit \in {"DAYS", "WEEKS"}
    BY <1>2, <1>3 DEF IsNthDate, DaysPerStep
<1>4. CASE unit \in {"MONTHS", "YEARS"}
  <2>1. months = n * count * (IF unit = "YEARS" THEN 12 ELSE 1) /\ months \in Int
    <3> HIDE DEF unit, count
    <3> QED BY <1>1, <1>2 DEF MonthsPerStep
  <2>2. IsNthDate(date, n) <=> /\ date.month = anchor.month + months
                               /\ date.day = Min({anchor.day, MonthLength(date.month)})
    <3>1. IsNthDate(date, n) <=>
              /\ date.month = anchor.month + n * count * (IF unit = "YEARS" THEN 12 ELSE 1)
              /\ date.day = Min({anchor.day, MonthLength(date.month)})
        BY <1>4 DEF IsNthDate
    <3> HIDE DEF unit, count, months
    <3> QED BY <2>1, <3>1
  <2> HIDE DEF months
  <2>3. AddMonthsClamped(anchor, months) =
            [month |-> anchor.month + months,
             day   |-> IF anchor.day > MonthLength(anchor.month + months)
                       THEN MonthLength(anchor.month + months) ELSE anchor.day]
      BY <2>1, Clamped
  <2>4. /\ date = [month |-> date.month, day |-> date.day]
        /\ anchor.day \in Int /\ MonthLength(date.month) \in Int
      BY DateParts
  <2>5. \A x, y \in Int : Min({x, y}) = IF x > y THEN y ELSE x
    <3>1. ASSUME NEW x \in Int, NEW y \in Int
          PROVE  Min({x, y}) = IF x > y THEN y ELSE x
      <4> DEFINE low == IF x > y THEN y ELSE x
      <4>1. low \in {x, y} /\ \A z \in {x, y} : low <= z
          OBVIOUS
      <4>2. \A z \in {x, y} : (\A w \in {x, y} : z <= w) => z = low
          OBVIOUS
      <4> HIDE DEF low
      <4>3. Min({x, y}) = low
          BY <4>1, <4>2 DEF Min
      <4> QED BY <4>3 DEF low
    <3> QED BY <3>1
  <2>6. Min({anchor.day, MonthLength(date.month)}) =
            IF anchor.day > MonthLength(date.month) THEN MonthLength(date.month)
            ELSE anchor.day
      BY <2>4, <2>5
  <2>7. IsNthDate(date, n) <=> date = AddMonthsClamped(anchor, months)
      BY <2>2, <2>3, <2>4, <2>6
  <2> QED BY <1>4, <2>7 DEF months
<1> QED BY <1>1, <1>3, <1>4

\* The inductive invariant of the walk.
ScheduleInv ==
    /\ anchor \in Dates
    /\ frequency \in Frequencies
    /\ next \in Dates
    /\ generated \in Nat
    /\ OnSchedule

LEMMA ScheduleStarts == ScheduleInit => ScheduleInv
<1> SUFFICES ASSUME ScheduleInit PROVE ScheduleInv
    OBVIOUS
<1>1. PICK m \in AnchorMonths : \E d \in 1 .. MonthLength(m) :
          anchor = [month |-> m, day |-> d]
    BY DEF ScheduleInit
<1>2. PICK d \in 1 .. MonthLength(m) : anchor = [month |-> m, day |-> d]
    BY <1>1
<1>3. m \in Int /\ d \in Int
  <2>1. m \in Int
      BY ScheduleConstants
  <2>2. MonthLength(m) \in 28 .. 31
      BY <2>1, MonthStep
  <2> QED BY <2>1, <2>2
<1>4. anchor \in Dates
    BY <1>2, <1>3 DEF Dates
<1>5. frequency \in Frequencies /\ next = anchor /\ generated = 0
    BY DEF ScheduleInit
<1>6. OnSchedule
  <2> DEFINE n == 0
             unit == frequency[1]
             count == frequency[2]
  <2>1. n \in Nat /\ n * DaysPerStep(unit, count) = 0 /\ n * MonthsPerStep(unit, count) = 0
        /\ unit \in {"DAYS", "WEEKS", "MONTHS", "YEARS"}
    <3>1. unit \in {"DAYS", "WEEKS", "MONTHS", "YEARS"} /\ count \in Nat
        BY <1>5, FrequencyParts
    <3>2. DaysPerStep(unit, count) \in Nat /\ MonthsPerStep(unit, count) \in Nat
      <4> HIDE DEF unit, count
      <4> QED BY <3>1 DEF DaysPerStep, MonthsPerStep
    <3> QED BY <3>1, <3>2
  <2>2. DayNumber(anchor) \in Int /\ DayNumber(anchor) = DayNumber(anchor) + 0
      BY <1>4, DateParts
  <2>3. anchor = AddMonthsClamped(anchor, 0)
    <3> DEFINE months == 0
    <3>1. months \in Int /\ anchor.month + months = anchor.month
        BY <1>4, DateParts
    <3> HIDE DEF months
    <3>2. AddMonthsClamped(anchor, months) =
              [month |-> anchor.month + months,
               day   |-> IF anchor.day > MonthLength(anchor.month + months)
                         THEN MonthLength(anchor.month + months) ELSE anchor.day]
        BY <1>4, <3>1, Clamped
    <3>3. AddMonthsClamped(anchor, months) = anchor
        BY <1>4, <3>1, <3>2, DateParts
    <3> QED BY <3>3 DEF months
  <2> HIDE DEF n
  <2>4. IsNthDate(anchor, n)
      BY <1>4, <1>5, <2>1, <2>2, <2>3, NthDate
  <2> QED BY <1>5, <2>4 DEF OnSchedule, n
<1> QED BY <1>4, <1>5, <1>6 DEF ScheduleInv

\* An occurrence keeps the invariant and moves the schedule on.
LEMMA OccurrenceKeeps ==
    ASSUME ScheduleInv, NextOccurrence
    PROVE  ScheduleInv' /\ Before(next, next')
<1> DEFINE unit == frequency[1]
           count == frequency[2]
<1>1. /\ anchor \in Dates /\ next \in Dates /\ generated \in Nat
      /\ frequency \in Frequencies /\ IsNthDate(next, generated)
      /\ unit \in {"DAYS", "WEEKS", "MONTHS", "YEARS"} /\ count \in Nat \ {0}
    BY FrequencyParts DEF ScheduleInv, OnSchedule
<1>2. /\ next' = NextRecurringDate(anchor, next, unit, count)
      /\ generated' = generated + 1 /\ anchor' = anchor /\ frequency' = frequency
    BY DEF NextOccurrence
<1>3. next' \in Dates /\ IsNthDate(next', generated + 1) /\ Before(next, next')
  <2> DEFINE n == generated + 1
  <2>0. n \in Nat
      BY <1>1
  <2>1. CASE unit \in {"DAYS", "WEEKS"}
    <3> DEFINE step == DaysPerStep(unit, count)
    <3>1. step \in Nat /\ step >= 1
        BY <1>1 DEF DaysPerStep
    <3>2. next' \in Dates /\ DayNumber(next') = DayNumber(next) + step
        BY <1>1, <1>2, <2>1, NextByDays
    <3>3. DayNumber(next) = DayNumber(anchor) + generated * step
        BY <1>1, <2>1, NthDate
    <3>4. DayNumber(anchor) \in Int /\ DayNumber(next) \in Int
        BY <1>1, DateParts
    <3> HIDE DEF step
    <3>5. DayNumber(next') = DayNumber(anchor) + n * step
      <4>1. n * step = generated * step + step /\ generated * step \in Int
          BY <1>1, <3>1
      <4> HIDE DEF n
      <4> QED BY <3>1, <3>2, <3>3, <3>4, <4>1
    <3>6. Before(next, next')
        BY <3>1, <3>2, <3>4 DEF Before
    <3> HIDE DEF n
    <3>7. IsNthDate(next', n)
        BY <1>1, <2>0, <2>1, <3>2, <3>5, NthDate DEF step
    <3> QED BY <3>2, <3>6, <3>7 DEF n
  <2>2. CASE unit \in {"MONTHS", "YEARS"}
    <3> DEFINE step == MonthsPerStep(unit, count)
    <3>1. step \in Nat /\ step >= 1
        BY <1>1 DEF MonthsPerStep
    <3>2. next = AddMonthsClamped(anchor, generated * step)
        BY <1>1, <2>2, NthDate
    <3>3. generated * step \in Int /\ n * step \in Int
          /\ n * step = generated * step + step
      <4> HIDE DEF step
      <4> QED BY <1>1, <3>1
    <3>4. next.month = anchor.month + generated * step
      <4> DEFINE months == generated * step
      <4> HIDE DEF months
      <4>1. months \in Int
          BY <3>3 DEF months
      <4>2. AddMonthsClamped(anchor, months).month = anchor.month + months
        <5>1. anchor \in Dates
            BY <1>1
        <5> QED BY ONLY <4>1, <5>1, Clamped
      <4> QED BY <3>2, <4>2 DEF months
    <3>5. next' = AddMonthsClamped(anchor, n * step)
        BY <1>1, <1>2, <2>2, <3>4, NextByMonths
    <3>6. next' \in Dates /\ next'.month = anchor.month + n * step
      <4> DEFINE months == n * step
      <4> HIDE DEF months
      <4>1. months \in Int
          BY <3>3 DEF months
      <4>2. /\ AddMonthsClamped(anchor, months) \in Dates
            /\ AddMonthsClamped(anchor, months).month = anchor.month + months
        <5>1. anchor \in Dates
            BY <1>1
        <5> QED BY ONLY <4>1, <5>1, Clamped
      <4> QED BY <3>5, <4>2 DEF months
    <3>7. next.month < next'.month
      <4>1. anchor.month \in Int
          BY <1>1, DateParts
      <4> HIDE DEF step, n
      <4> QED BY <3>1, <3>3, <3>4, <3>6, <4>1
    <3>8. Before(next, next')
        BY <1>1, <3>6, <3>7, LaterMonthIsLater
    <3> HIDE DEF n
    <3>9. IsNthDate(next', n)
        BY <1>1, <2>0, <2>2, <3>5, <3>6, NthDate
    <3> QED BY <3>6, <3>8, <3>9 DEF n
  <2> QED BY <1>1, <2>1, <2>2
<1>4. IsNthDate(next, generated)' <=> IsNthDate(next', generated + 1)
    BY <1>2 DEF IsNthDate
<1> QED BY <1>1, <1>2, <1>3, <1>4 DEF ScheduleInv, OnSchedule

\* Every template is at the date of its schedule that its occurrences have
\* brought it to, for any start, interval and number of occurrences: a short
\* month moves one date and none after it (nextRecurringDate, addMonthsClamped).
THEOREM SchedulesStayOnCourse == ScheduleSpec => []OnSchedule
<1>1. ScheduleInv /\ [NextOccurrence]_scheduleVars => ScheduleInv'
  <2>1. ASSUME ScheduleInv, UNCHANGED scheduleVars PROVE ScheduleInv'
      BY <2>1 DEF ScheduleInv, OnSchedule, IsNthDate, scheduleVars
  <2> QED BY <2>1, OccurrenceKeeps
<1>2. ScheduleInv => OnSchedule
    BY DEF ScheduleInv
<1> QED BY <1>1, <1>2, ScheduleStarts, PTL DEF ScheduleSpec

\* Every occurrence moves the schedule to a later date, so that a run which
\* catches up with today ends (the loop of GenerateRecurring).
THEOREM SchedulesAdvance == ScheduleSpec => MovesForward
<1>1. ScheduleInv /\ [NextOccurrence]_scheduleVars => ScheduleInv'
  <2>1. ASSUME ScheduleInv, UNCHANGED scheduleVars PROVE ScheduleInv'
      BY <2>1 DEF ScheduleInv, OnSchedule, IsNthDate, scheduleVars
  <2> QED BY <2>1, OccurrenceKeeps
<1>2. ScheduleInv /\ [NextOccurrence]_scheduleVars => [Before(next, next')]_scheduleVars
    BY OccurrenceKeeps
<1> QED BY <1>1, <1>2, ScheduleStarts, PTL DEF ScheduleSpec, MovesForward

-----------------------------------------------------------------------------
(***************************************************************************)
(* The periods of an account.                                              *)
(***************************************************************************)

\* The last day of month m.
LastDayOf(m) == [month |-> m, day |-> MonthLength(m)]

\* Within a month dates compare as their days do.
LEMMA SameMonth ==
    ASSUME NEW m \in Int, NEW d \in Int, NEW e \in Int
    PROVE  Before([month |-> m, day |-> d], [month |-> m, day |-> e]) <=> d < e
<1>1. /\ DayNumber([month |-> m, day |-> d]) = First(m) + d - 1
      /\ DayNumber([month |-> m, day |-> e]) = First(m) + e - 1
      /\ First(m) \in Int
    BY NumberOf
<1> QED BY <1>1 DEF Before

\* An earlier date is not a later one.
LEMMA BeforeIsStrict ==
    ASSUME NEW d \in Dates, NEW e \in Dates, Before(d, e)
    PROVE  ~Before(e, d)
<1>1. DayNumber(d) \in Int /\ DayNumber(e) \in Int
    BY DateParts
<1> QED BY <1>1 DEF Before

\* monthEnd.
LEMMA EndOfMonth ==
    ASSUME NEW date \in Dates
    PROVE  /\ MonthEnd(date) = LastDayOf(date.month)
           /\ date.month \in Int /\ LastDayOf(date.month) \in Dates
<1>1. date.month \in Int /\ MonthLength(date.month) \in 28 .. 31
    BY DateParts
<1>2. MonthEnd(date) = LastDayOf(date.month)
    BY <1>1, GoDateBack DEF MonthEnd, LastDayOf
<1>3. LastDayOf(date.month) \in Dates
    BY <1>1 DEF Dates, LastDayOf
<1> QED BY <1>1, <1>2, <1>3

LEMMA LastDays ==
    ASSUME NEW m \in Int
    PROVE  /\ LastDayOf(m) \in Dates
           /\ MonthEnd(LastDayOf(m)) = LastDayOf(m)
           /\ LastDayOf(m).month = m
<1>1. LastDayOf(m) \in Dates /\ LastDayOf(m).month = m
  <2>1. MonthLength(m) \in 28 .. 31
      BY MonthStep
  <2> QED BY <2>1 DEF Dates, LastDayOf
<1> QED BY <1>1, EndOfMonth

\* Five days before the end of a month, and the fifth of the next.
LEMMA PromptDays ==
    ASSUME NEW m \in Int
    PROVE  /\ PromptStart(LastDayOf(m)) = [month |-> m, day |-> MonthLength(m) - 5]
           /\ PromptEnd(LastDayOf(m)) = [month |-> m + 1, day |-> 5]
<1> DEFINE e == MonthLength(m)
           start == e - 5
           after == e + 1
           next1 == m + 1
           one == 1
           five == 5
<1>1. /\ e \in 28 .. 31 /\ start \in 1 .. e /\ next1 \in Int
      /\ First(m) \in Int /\ First(next1) = First(m) + e
      /\ after \in Int /\ after >= -31 /\ m + 0 = m
  <2>1. e \in 28 .. 31 /\ First(m + 1) = First(m) + e
      BY MonthStep
  <2>2. First(m) \in Int
      BY <2>1, NumberOf
  <2> QED BY <2>1, <2>2
<1>2. MonthLength(next1) \in 28 .. 31
    BY <1>1, MonthStep
<1>3. one \in 1 .. MonthLength(next1) /\ five \in 1 .. MonthLength(next1)
    BY <1>2
<1>4. First(m) + after - 1 = First(next1) + one - 1
    BY <1>1
<1>5. /\ MonthEnd(LastDayOf(m)) = LastDayOf(m)
      /\ LastDayOf(m).month = m /\ LastDayOf(m).day = e
    BY LastDays DEF LastDayOf
<1>6. e + (-5) = start
    BY <1>1
<1> HIDE DEF e, start, after, next1, one, five
<1>7. GoDate(m, start) = [month |-> m, day |-> start]
    BY <1>1, GoDateStays DEF e
<1>8. GoDate(m, after) = [month |-> next1, day |-> one]
  <2>1. m \in Int /\ after \in Int /\ after >= -31 /\ next1 \in Int
      BY <1>1
  <2>2. one \in 1 .. MonthLength(next1)
      BY <1>3
  <2> QED BY ONLY <1>4, <2>1, <2>2, GoDateFinds
<1>9. GoDate(next1, five) = [month |-> next1, day |-> five]
    BY <1>1, <1>3, GoDateStays
<1>10. PromptStart(LastDayOf(m)) = GoDate(m, start)
    BY <1>1, <1>5, <1>6 DEF PromptStart, AddDate
<1>11. PromptEnd(LastDayOf(m)) = GoDate(next1, five)
    BY <1>1, <1>5, <1>8 DEF PromptEnd, AddDate, after, five
<1> QED BY <1>7, <1>9, <1>10, <1>11 DEF e, start, next1, five

\* The month that has ended, or the one that ends within five days.
LEMMA SuggestedIs ==
    ASSUME NEW date \in Dates
    PROVE  SuggestedPeriod(date) =
               IF MonthLength(date.month) - date.day <= 5 THEN LastDayOf(date.month)
               ELSE LastDayOf(date.month - 1)
<1> DEFINE m == date.month
           day == date.day
           e == MonthLength(m)
           start == e - 5
           prev == m - 1
<1>1. /\ m \in Int /\ day \in Int /\ day >= 1 /\ day <= e /\ e \in 28 .. 31
      /\ date = [month |-> m, day |-> day] /\ prev \in Int /\ start \in Int
  <2>1. /\ m \in Int /\ day \in Int /\ day >= 1 /\ day <= e /\ e \in 28 .. 31
        /\ date = [month |-> m, day |-> day]
      BY DateParts
  <2> QED BY <2>1
<1>2. MonthEnd(date) = LastDayOf(m)
    BY EndOfMonth
<1>3. AddDate(MonthEnd(date), 0, -5) = [month |-> m, day |-> start]
  <2>1. PromptStart(LastDayOf(m)) = [month |-> m, day |-> start]
      BY <1>1, PromptDays
  <2>2. MonthEnd(LastDayOf(m)) = LastDayOf(m)
      BY <1>1, LastDays
  <2> QED BY <1>2, <2>1, <2>2 DEF PromptStart
<1>4. MonthLength(prev) \in 28 .. 31
    BY <1>1, MonthStep
<1> HIDE DEF m, day, e, start, prev
<1>5. Before(date, AddDate(MonthEnd(date), 0, -5)) <=> day < start
    BY <1>1, <1>3, SameMonth
<1>6. CASE e - day <= 5
  <2>1. day > 5 /\ ~(day < start)
      BY <1>1, <1>6 DEF start
  <2> QED BY <1>2, <1>5, <1>6, <2>1 DEF SuggestedPeriod, e, day, m
<1>7. CASE ~(e - day <= 5)
  <2>1. day < start /\ day \in 1 .. MonthLength(prev)
      BY <1>1, <1>4, <1>7 DEF start
  <2>2. AddDate(date, -1, 0) = [month |-> prev, day |-> day]
    <3>1. GoDate(prev, day) = [month |-> prev, day |-> day]
        BY <1>1, <2>1, GoDateStays
    <3>2. AddDate(date, -1, 0) = GoDate(prev, day)
      <4>1. m + (-1) = prev /\ day + 0 = day
          BY <1>1 DEF prev
      <4> QED BY <4>1 DEF AddDate, m, day
    <3> QED BY <3>1, <3>2
  <2>3. [month |-> prev, day |-> day] \in Dates
      BY <1>1, <2>1 DEF Dates
  <2>4. MonthEnd([month |-> prev, day |-> day]) = LastDayOf(prev)
      BY <2>3, EndOfMonth
  <2> QED BY <1>5, <1>7, <2>1, <2>2, <2>4 DEF SuggestedPeriod, e, day, m, prev
<1> QED BY <1>6, <1>7

\* What the status shows on any day.
LEMMA WindowOn ==
    ASSUME today \in Dates
    PROVE  ReminderWindow
<1> DEFINE m == today.month
           day == today.day
           e == MonthLength(m)
           prev == m - 1
           suggested == SuggestedPeriod(today)
<1>1. /\ m \in Int /\ day \in Int /\ day >= 1 /\ day <= e /\ e \in 28 .. 31
      /\ today = [month |-> m, day |-> day] /\ prev \in Int
  <2>1. /\ m \in Int /\ day \in Int /\ day >= 1 /\ day <= e /\ e \in 28 .. 31
        /\ today = [month |-> m, day |-> day]
      BY DateParts
  <2> QED BY <2>1
<1>2. suggested = IF e - day <= 5 THEN LastDayOf(m) ELSE LastDayOf(prev)
    BY SuggestedIs
<1>3. MonthEnd(today) = LastDayOf(m) /\ LastDayOf(m) \in Dates /\ LastDayOf(m).month = m
    BY <1>1, EndOfMonth, LastDays
<1>4. LastDayOf(prev) \in Dates /\ LastDayOf(prev).month = prev
    BY <1>1, LastDays
<1>5. MonthEnd(suggested) = suggested
    BY <1>1, <1>2, LastDays
<1> HIDE DEF suggested
<1>6. ~Before(MonthEnd(today), suggested)
  <2>1. ~Before(LastDayOf(m), LastDayOf(m))
    <3>1. DayNumber(LastDayOf(m)) \in Int
        BY <1>3, DateParts
    <3> QED BY <3>1 DEF Before
  <2>2. Before(LastDayOf(prev), LastDayOf(m))
      BY <1>1, <1>3, <1>4, LaterMonthIsLater
  <2> QED BY <1>2, <1>3, <1>4, <2>1, <2>2, BeforeIsStrict
<1>7. ValidReconciliationPeriod(today, suggested)
    BY <1>5, <1>6 DEF ValidReconciliationPeriod
<1>8. PromptOpen(today, suggested) <=> (day <= 5 \/ e - day <= 5)
  <2>1. CASE e - day <= 5
    <3>1. suggested = LastDayOf(m)
        BY <1>2, <2>1
    <3> DEFINE start == e - 5
               next1 == m + 1
               five == 5
               end == [month |-> next1, day |-> five]
    <3>2. /\ PromptStart(suggested) = [month |-> m, day |-> start]
          /\ PromptEnd(suggested) = end
        BY <1>1, <3>1, PromptDays
    <3>3. start \in Int /\ ~(day < start)
        BY <1>1, <2>1
    <3>4. end \in Dates
      <4>1. next1 \in Int /\ MonthLength(next1) \in 28 .. 31
          BY <1>1, MonthStep
      <4> QED BY <4>1 DEF Dates
    <3>5. today.month < end.month
        BY <1>1
    <3> HIDE DEF start, end
    <3>6. ~Before(today, PromptStart(suggested))
      <4> HIDE DEF m, day
      <4> QED BY <1>1, <3>2, <3>3, SameMonth
    <3>7. ~Before(end, today)
        BY <3>4, <3>5, LaterMonthIsLater, BeforeIsStrict
    <3> QED BY <2>1, <3>2, <3>6, <3>7 DEF PromptOpen
  <2>2. CASE ~(e - day <= 5)
    <3>1. suggested = LastDayOf(prev)
        BY <1>2, <2>2
    <3> DEFINE start == MonthLength(prev) - 5
               five == 5
               begin == [month |-> prev, day |-> start]
    <3>2. PromptStart(suggested) = begin
        BY <1>1, <3>1, PromptDays
    <3>3. PromptEnd(suggested) = [month |-> m, day |-> five]
      <4>1. PromptEnd(LastDayOf(prev)) = [month |-> prev + 1, day |-> 5]
          BY <1>1, PromptDays
      <4>2. prev + 1 = m
          BY <1>1
      <4> QED BY <3>1, <4>1, <4>2
    <3>4. begin \in Dates
      <4>1. MonthLength(prev) \in 28 .. 31
          BY <1>1, MonthStep
      <4> QED BY <1>1, <4>1 DEF Dates
    <3>5. begin.month < today.month /\ five \in Int
        BY <1>1
    <3> HIDE DEF begin
    <3>6. ~Before(today, begin)
        BY <3>4, <3>5, LaterMonthIsLater, BeforeIsStrict
    <3> HIDE DEF five
    <3>7. Before(PromptEnd(suggested), today) <=> five < day
      <4> HIDE DEF m, day
      <4> QED BY <1>1, <3>3, <3>5, SameMonth
    <3>8. ~(five < day) <=> day <= 5
        BY <1>1 DEF five
    <3> QED BY <2>2, <3>2, <3>6, <3>7, <3>8 DEF PromptOpen
  <2> QED BY <2>1, <2>2
<1>9. suggested = [month |-> IF e - day <= 5 THEN m ELSE prev,
                   day   |-> MonthLength(suggested.month)]
    BY <1>2, <1>3, <1>4 DEF LastDayOf
<1> QED BY <1>7, <1>8, <1>9 DEF ReminderWindow, suggested

\* The days that a period may end on.
PeriodEnds == {LastDayOf(m) : m \in Int}

\* The inductive invariant of the calendar of an account.
PeriodsInv ==
    /\ today \in Dates
    /\ latest \in PeriodEnds
    /\ previous \in PeriodEnds
    /\ mode \in {"AUTO", "CONFIRM"}
    /\ GapCovered

\* Later periods are those of later months.
LEMMA LaterPeriod ==
    ASSUME NEW d \in PeriodEnds, NEW e \in PeriodEnds, Before(d, e)
    PROVE  d.month \in Int /\ e.month \in Int /\ d.month < e.month
<1>1. PICK m \in Int : d = LastDayOf(m)
    BY DEF PeriodEnds
<1>2. PICK k \in Int : e = LastDayOf(k)
    BY DEF PeriodEnds
<1>3. /\ d \in Dates /\ d.month = m /\ e \in Dates /\ e.month = k
    BY <1>1, <1>2, LastDays
<1>4. m # k
  <2>1. ~Before(e, d)
      BY <1>3, BeforeIsStrict
  <2> QED BY <1>1, <1>2, <2>1
<1>5. ~(k < m)
    BY <1>3, LaterMonthIsLater, BeforeIsStrict
<1> QED BY <1>3, <1>4, <1>5

\* A reconciliation that is made covers the months since the one before it.
LEMMA ReconcileLabels ==
    ASSUME PeriodsInv, NEW month \in Int, NEW day \in Int, NEW m \in {"AUTO", "CONFIRM"},
           Reconcile([month |-> month, day |-> day], m)
    PROVE  PeriodsInv'
<1> DEFINE period == [month |-> month, day |-> day]
           covered == period.month - latest.month
           lost == IF m = "CONFIRM" /\ period.day < latest.day THEN 1 ELSE 0
           gap == IF covered = 1 THEN 1 ELSE covered - lost
<1>1. /\ Before(latest, period) /\ period = MonthEnd(period)
      /\ latest' = period /\ previous' = latest
      /\ gapMonths' = GapMonths(m, latest, period) /\ mode' = m /\ today' = today
    BY DEF Reconcile, ValidReconciliationPeriod
<1>2. period = LastDayOf(month) /\ period.month = month
    BY <1>1, GoDateBack DEF MonthEnd, LastDayOf
<1>3. latest \in PeriodEnds /\ period \in PeriodEnds /\ today \in Dates
    BY <1>2 DEF PeriodsInv, PeriodEnds
<1> HIDE DEF period
<1>4. latest.month \in Int /\ latest.month < period.month
    BY <1>1, <1>3, LaterPeriod
<1>5. covered \in Int /\ covered >= 1 /\ lost \in {0, 1} /\ gap \in Int
    BY <1>2, <1>4
<1>6. GapMonths(m, latest, period) = gap
    BY <1>2, <1>4, <1>5
    DEF GapMonths, ReconciliationGapMonths, PreviewGapMonths
<1>7. GapStart(period, gap).month = period.month - gap + 1
  <2> DEFINE months == -(gap - 1)
  <2>1. months \in Int /\ period \in Dates /\ period.month + months = period.month - gap + 1
      BY <1>2, <1>5, LastDays
  <2> HIDE DEF months, gap, covered, lost
  <2>2. AddMonthsClamped(period, months).month = period.month + months
    <3>1. AddMonthsClamped(period, months) =
              [month |-> period.month + months,
               day   |-> IF period.day > MonthLength(period.month + months)
                         THEN MonthLength(period.month + months) ELSE period.day]
        BY <2>1, Clamped
    <3> QED BY <3>1
  <2> QED BY <2>1, <2>2 DEF GapStart, months
<1>8. gap <= covered /\ (m = "AUTO" => gap = covered)
    BY <1>5
<1>9. GapCovered'
  <2> HIDE DEF gap
  <2>1. /\ period.month - gap + 1 > latest.month
        /\ m = "AUTO" => period.month - gap + 1 = latest.month + 1
      BY <1>2, <1>4, <1>5, <1>8
  <2> QED BY <1>1, <1>6, <1>7, <2>1 DEF GapCovered
<1> QED BY <1>1, <1>3, <1>9 DEF PeriodsInv

\* A day that passes keeps the periods, and leads to the next date.
LEMMA DayPassesKeeps ==
    ASSUME PeriodsInv, DayPasses
    PROVE  PeriodsInv'
<1> DEFINE day == today.day + 1
<1>1. /\ today' = GoDate(today.month + 0, day)
      /\ latest' = latest /\ previous' = previous /\ gapMonths' = gapMonths /\ mode' = mode
    BY DEF DayPasses, AddDate
<1>2. /\ today.month \in Int /\ today.month + 0 = today.month
      /\ day \in Int /\ day >= -31
    BY DateParts DEF PeriodsInv
<1> HIDE DEF day
<1>3. today' \in Dates
    BY <1>1, <1>2, GoDateIs
<1> QED BY <1>1, <1>3 DEF PeriodsInv, GapCovered

LEMMA PeriodsStart == PeriodsInit => PeriodsInv
<1> SUFFICES ASSUME PeriodsInit PROVE PeriodsInv
    OBVIOUS
<1>1. StartMonth \in Int /\ StartMonth - 1 \in Int /\ (StartMonth - 1) + 1 = StartMonth
    BY PeriodsConstants
<1>2. latest \in PeriodEnds
  <2> DEFINE m == StartMonth - 1
  <2>1. m \in Int /\ latest = GoDate(m + 1, 0)
      BY <1>1 DEF PeriodsInit
  <2> HIDE DEF m
  <2> QED BY <2>1, GoDateBack DEF PeriodEnds, LastDayOf
<1>3. today \in Dates
  <2>1. MonthLength(StartMonth) \in 28 .. 31
      BY <1>1, MonthStep
  <2> QED BY <1>1, <2>1 DEF PeriodsInit, Dates
<1> QED BY <1>2, <1>3 DEF PeriodsInit, PeriodsInv, GapCovered

LEMMA PeriodsKeep == PeriodsInv /\ [PeriodsNext]_periodVars => PeriodsInv'
<1>1. ASSUME PeriodsInv, NEW month \in latest.month .. today.month + 1,
             NEW day \in 28 .. 31, NEW m \in {"AUTO", "CONFIRM"},
             Reconcile([month |-> month, day |-> day], m)
      PROVE  PeriodsInv'
  <2>1. latest.month \in Int /\ today.month \in Int
      BY <1>1, LastDays, DateParts DEF PeriodsInv, PeriodEnds
  <2>2. month \in Int /\ day \in Int
      BY <2>1
  <2> QED BY <1>1, <2>2, ReconcileLabels
<1>2. ASSUME PeriodsInv, UNCHANGED periodVars PROVE PeriodsInv'
    BY <1>2 DEF PeriodsInv, GapCovered, periodVars
<1> QED BY <1>1, <1>2, DayPassesKeeps DEF PeriodsNext

\* On every day of the calendar the application suggests a period that can be
\* reconciled, and reminds of it in the window around the end of its month and
\* not outside it (reconciliationWindow, validateReconciliationPeriod).
THEOREM RemindersAreInWindow == PeriodsSpec => []ReminderWindow
<1>1. PeriodsInv => ReminderWindow
    BY WindowOn DEF PeriodsInv
<1> QED BY <1>1, PeriodsStart, PeriodsKeep, PTL DEF PeriodsSpec

\* Whatever months are left out between reconciliations, and however long they
\* are, no month is said to be covered twice, and none is left out in AUTO mode.
THEOREM GapsAreCovered == PeriodsSpec => []GapCovered
<1>1. PeriodsInv => GapCovered
    BY DEF PeriodsInv
<1> QED BY <1>1, PeriodsStart, PeriodsKeep, PTL DEF PeriodsSpec
=============================================================================
