--------------------------- MODULE DailyGrid_proofs ---------------------------
(***************************************************************************)
(* Facts about the midnights of module DailyGrid, for every length of the  *)
(* day: what calculateTimeRange and the day loop rely on.                  *)
(***************************************************************************)
EXTENDS DailyGrid, TLAPS

(* Division by the length of the day.                                      *)
LEMMA DayDivision ==
    ASSUME NEW t \in Nat
    PROVE  /\ t \div Day \in Nat
           /\ t % Day \in 0 .. Day - 1
           /\ t = (t \div Day) * Day + (t % Day)
BY GridAssumption, Z3

(* The multiples of the day are midnights.                                 *)
LEMMA MultipleIsMidnight ==
    ASSUME NEW k \in Nat
    PROVE  k * Day \in Nat /\ IsMidnight(k * Day)
<1>1. k * Day \in Nat
  BY GridAssumption, Z3
<1> DEFINE t == k * Day
<1>2. t = (t \div Day) * Day + (t % Day) /\ t % Day \in 0 .. Day - 1 /\ t \div Day \in Nat
  BY DayDivision, <1>1
<1>3. t % Day = 0
  BY <1>1, <1>2, GridAssumption, Z3
<1> QED BY <1>1, <1>3 DEF IsMidnight

(* A midnight is the multiple of the day that its own division gives.      *)
LEMMA MidnightIsMultiple ==
    ASSUME NEW d \in Nat, IsMidnight(d)
    PROVE  d = (d \div Day) * Day
<1>1. d = (d \div Day) * Day + (d % Day) /\ d \div Day \in Nat
  BY DayDivision
<1>2. d % Day = 0
  BY DEF IsMidnight
<1>3. (d \div Day) * Day \in Nat
  BY <1>1, MultipleIsMidnight
<1> QED BY <1>1, <1>2, <1>3, Z3

(* Multiples of the day are at least a day apart.                          *)
LEMMA MultiplesApart ==
    ASSUME NEW k \in Nat, NEW m \in Nat, k < m
    PROVE  k * Day + Day <= m * Day
BY GridAssumption, Z3

(* Between a midnight and the next there is none.                          *)
LEMMA NextMidnight ==
    ASSUME NEW m \in Nat, IsMidnight(m)
    PROVE  /\ m + Day \in Nat /\ IsMidnight(m + Day)
           /\ \A d \in m + 1 .. m + Day : IsMidnight(d) => d = m + Day
<1> DEFINE k == m \div Day
<1>1. k \in Nat /\ m = k * Day
  BY DayDivision, MidnightIsMultiple
<1>2. m + Day = (k + 1) * Day
  BY <1>1, GridAssumption, Z3
<1>3. m + Day \in Nat /\ IsMidnight(m + Day)
  BY <1>1, <1>2, MultipleIsMidnight
<1>4. ASSUME NEW d \in m + 1 .. m + Day, IsMidnight(d) PROVE d = m + Day
  <2>1. d \in Nat
    BY GridAssumption, SMT
  <2>2. d \div Day \in Nat /\ d = (d \div Day) * Day
    BY <2>1, <1>4, DayDivision, MidnightIsMultiple
  <2>3. k < d \div Day
    BY <1>1, <2>2, GridAssumption, Z3
  <2>4. k + 1 <= d \div Day
    BY <1>1, <2>2, <2>3, Z3
  <2> QED
    BY <1>1, <1>2, <2>1, <2>2, <2>4, MultiplesApart, GridAssumption, Z3
<1> QED BY <1>3, <1>4

(* firstMidnightUTC: the first midnight strictly after the start.          *)
LEMMA FirstMidnight ==
    ASSUME NEW t \in Nat
    PROVE  /\ FirstMidnightUTC(t) \in Nat /\ IsMidnight(FirstMidnightUTC(t))
           /\ t < FirstMidnightUTC(t) /\ FirstMidnightUTC(t) <= t + Day
           /\ \A d \in t + 1 .. FirstMidnightUTC(t) : IsMidnight(d) => d = FirstMidnightUTC(t)
<1> DEFINE k == t \div Day
           m == k * Day
<1>1. k \in Nat /\ t % Day \in 0 .. Day - 1 /\ t = m + (t % Day)
  BY DayDivision
<1>2. m \in Nat /\ IsMidnight(m)
  BY <1>1, MultipleIsMidnight
<1>3. FirstMidnightUTC(t) = m + Day
  BY <1>1, GridAssumption, Z3 DEF FirstMidnightUTC
<1>4. /\ m + Day \in Nat /\ IsMidnight(m + Day)
      /\ \A d \in m + 1 .. m + Day : IsMidnight(d) => d = m + Day
  BY <1>2, NextMidnight
<1> HIDE DEF m
<1>5. m <= t /\ t < m + Day
  BY <1>1, <1>2, GridAssumption, SMT
<1>6. \A d \in t + 1 .. m + Day : d \in m + 1 .. m + Day
  BY <1>2, <1>5, GridAssumption, SMT
<1> QED BY <1>2, <1>3, <1>4, <1>5, <1>6, GridAssumption, SMT

(* todayMidnightUTC: the midnight that opened the day.                     *)
LEMMA TodayMidnight ==
    ASSUME NEW t \in Nat
    PROVE  /\ TodayMidnightUTC(t) \in Nat /\ IsMidnight(TodayMidnightUTC(t))
           /\ TodayMidnightUTC(t) <= t /\ t < TodayMidnightUTC(t) + Day
<1> DEFINE k == t \div Day
           m == k * Day
<1>1. k \in Nat /\ t % Day \in 0 .. Day - 1 /\ t = m + (t % Day)
  BY DayDivision
<1>2. m \in Nat /\ IsMidnight(m)
  BY <1>1, MultipleIsMidnight
<1>3. TodayMidnightUTC(t) = m
  BY DEF TodayMidnightUTC
<1> HIDE DEF m
<1>4. m <= t /\ t < m + Day
  BY <1>1, <1>2, GridAssumption, SMT
<1> QED BY <1>2, <1>3, <1>4
=============================================================================
