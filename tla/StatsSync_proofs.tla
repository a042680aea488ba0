--------------------------- MODULE StatsSync_proofs ---------------------------
(***************************************************************************)
(* Theorems about StatsSync, for any sources, any length of the day, any   *)
(* failures, clearings and crashes of one collector: neither table ever    *)
(* has a hole, and incomes are stored twice only where a block was found   *)
(* before its midnight.                                                    *)
(***************************************************************************)
EXTENDS StatsSync, DailyGrid_proofs

(* The assumptions of the theorems.  A second collector would fill in the  *)
(* days of a table that the first one has just deleted.                    *)
OneCollector == \A c, d \in Collectors : c = d
(* Skipping a day's worth of blocks never skips more than a day.           *)
FallbackKeepsPace == BlocksPerDay <= Day
(* No block stands for two midnights.                                      *)
SlipsAreApart == EarlySlip + LateSlip < Day

(***************************************************************************)
(* The invariant.  Of the tables: a row's block is within the slip of its  *)
(* day; between two rows, of whichever tables, each day has its row or was *)
(* skipped, but perhaps the last; and spends are ahead of incomes, unless  *)
(* they have been deleted.                                                 *)
(***************************************************************************)
Covered(t, s, d) == HasRow(t, s, d) \/ d \in skipped[s]

RowsInv ==
    \A t \in Tables, s \in Sources : \A r \in rows[t][s] :
        /\ IsMidnight(r.date)
        /\ r.date <= r.block + EarlySlip /\ r.block <= r.date + LateSlip

TablesInv ==
    \A t, u \in Tables, s \in Sources : \A r \in rows[t][s], q \in rows[u][s] :
        \A d \in r.date .. q.date - 1 : IsMidnight(d) => Covered(t, s, d)

SpendsAhead ==
    \A s \in Sources : rows["spends"][s] # {} =>
        \A q \in rows["incomes"][s] : \E r \in rows["spends"][s] : q.block <= r.block

HasLast ==
    \A t \in Tables, s \in Sources : rows[t][s] # {} =>
        \E r \in rows[t][s] : \A p \in rows[t][s] : p.block <= r.block

DataInv == RowsInv /\ TablesInv /\ SpendsAhead /\ HasLast

(* Of a job in the day loop: the days of either table are covered up to    *)
(* the target, and rows beyond the target leave only skipped days between. *)
InLoop(j) == j.pc \in {"day", "incomes"}
LoopInv(j) ==
    InLoop(j) =>
        /\ j.src \in Sources /\ IsMidnight(j.target) /\ j.last <= j.target + LateSlip
        /\ \A t \in Tables : \A r \in rows[t][j.src] :
              \A d \in r.date .. j.target - 1 : IsMidnight(d) => Covered(t, j.src, d)
        /\ \A t \in Tables : \A q \in rows[t][j.src] :
              \A d \in j.target + 1 .. q.date - 1 : IsMidnight(d) => d \in skipped[j.src]

(* Incomes are of days before the target, but for a block found early.     *)
AheadInv(j) ==
    InLoop(j) => \A q \in rows["incomes"][j.src] :
                    q.date < j.target \/ (EarlySlip > 0 /\ q.block <= j.last)

(* Between the two inserts the row of spends is there, or all are gone.    *)
FoundInv(j) ==
    j.pc = "incomes" =>
        /\ j.target <= j.found + EarlySlip /\ j.found <= j.target + LateSlip
        /\ rows["spends"][j.src] # {} =>
              [date |-> j.target, block |-> j.found] \in rows["spends"][j.src]

(* A start that was asked for follows a deletion of everything.            *)
ClearInv(c) == job[c].pc = "clear" => \A t \in Tables \ deleting[c] : \A s \in Sources : rows[t][s] = {}
Untouched(s) == \A t \in Tables : rows[t][s] = {}
DatedInv(j) ==
    j.date # NoDate =>
        /\ j.pc = "source" => \A s \in Sources : j.src <= s => Untouched(s)
        /\ InLoop(j) => \A s \in Sources : j.src < s => Untouched(s)

JobInv(j) == LoopInv(j) /\ AheadInv(j) /\ FoundInv(j) /\ DatedInv(j)
StatsInv ==
    /\ TypeOK /\ DataInv
    /\ \A c \in Collectors : ClearInv(c) /\ JobInv(job[c])

-----------------------------------------------------------------------------
(***************************************************************************)
(* Jobs.                                                                   *)
(***************************************************************************)
LEMMA IdleJobType ==
    /\ IdleJob \in JobState /\ IdleJob.pc = "idle" /\ IdleJob.date = NoDate
    /\ IdleJob.src = 1
BY DEF IdleJob, JobState, Phases, NoDate, Block

LEMMA JobNumbers ==
    ASSUME NEW r \in JobState
    PROVE  /\ r.src \in Nat /\ r.src + 1 \in Nat /\ r.target \in Nat /\ r.target + Day \in Nat
           /\ r.last \in Nat /\ SkipADay(r.last) \in Nat /\ r.found \in Nat /\ r.today \in Nat
           /\ r.date \in Nat \cup {NoDate} /\ r.pc \in Phases
<1>1. /\ r.src \in Nat /\ r.target \in Nat /\ r.last \in Nat /\ r.found \in Nat /\ r.today \in Nat
      /\ r.date \in Nat \cup {NoDate} /\ r.pc \in Phases
  BY DEF JobState, Block
<1> QED BY <1>1, GridAssumption DEF SkipADay

LEMMA AfterSourceFields ==
    ASSUME NEW r \in JobState
    PROVE  /\ AfterSource(r) \in JobState
           /\ AfterSource(r).pc = "source" /\ AfterSource(r).date = r.date
           /\ AfterSource(r).src = r.src + 1
<1>1. r.src + 1 \in Nat /\ r.date \in Nat \cup {NoDate}
  BY JobNumbers
<1> QED BY <1>1 DEF AfterSource, IdleJob, JobState, Phases, Block

LEMMA AfterDayFields ==
    ASSUME NEW r \in JobState, NEW last \in Nat
    PROVE  /\ AfterDay(r, last) \in JobState /\ AfterDay(r, last).date = r.date
           /\ \/ /\ AfterDay(r, last).pc = "source" /\ AfterDay(r, last).src = r.src + 1
              \/ /\ AfterDay(r, last).pc = "day" /\ AfterDay(r, last).src = r.src
                 /\ AfterDay(r, last).last = last /\ AfterDay(r, last).target = r.target + Day
<1>1. CASE r.target + Day > r.today
  BY <1>1, AfterSourceFields DEF AfterDay
<1>2. CASE ~(r.target + Day > r.today)
  <2>1. r.target + Day \in Nat
    BY JobNumbers
  <2>2. AfterDay(r, last) = [r EXCEPT !.pc = "day", !.last = last, !.target = r.target + Day, !.found = 0]
    BY <1>2 DEF AfterDay
  <2>3. PICK n \in Nat : n = r.target + Day
    BY <2>1
  <2>4. AfterDay(r, last) = [r EXCEPT !.pc = "day", !.last = last, !.target = n, !.found = 0]
    BY <2>2, <2>3
  <2>5. /\ AfterDay(r, last) \in JobState
        /\ AfterDay(r, last).date = r.date /\ AfterDay(r, last).pc = "day" /\ AfterDay(r, last).src = r.src
        /\ AfterDay(r, last).last = last /\ AfterDay(r, last).target = n
    <3>1. "day" \in Phases /\ 0 \in Nat
      BY DEF Phases
    <3> QED BY <3>1, <2>4 DEF JobState, Block
  <2> QED BY <2>3, <2>5
<1> QED BY <1>1, <1>2

LEMMA Moves ==
    ASSUME OneCollector, TypeOK, NEW c \in Collectors, NEW r \in JobState, Move(c, r)
    PROVE  /\ job' \in [Collectors -> JobState] /\ job'[c] = r
           /\ \A d \in Collectors : d = c
BY DEF OneCollector, TypeOK, Move

LEMMA FaultsAreCounted ==
    ASSUME TypeOK, NoFault \/ \E f \in FaultKinds : Fault(f)
    PROVE  faultsLeft' \in Nat
BY DEF TypeOK, NoFault, Fault

-----------------------------------------------------------------------------
(***************************************************************************)
(* Tables.                                                                 *)
(***************************************************************************)
LEMMA RowNumbers ==
    ASSUME TypeOK, NEW t \in Tables, NEW s \in Sources, NEW r \in rows[t][s]
    PROVE  r.date \in Nat /\ r.block \in Nat /\ r = [date |-> r.date, block |-> r.block]
BY DEF TypeOK, Row, Block

(* Rows of a later day have later blocks.                                  *)
LEMMA BlocksInOrder ==
    ASSUME SlipsAreApart, TypeOK, RowsInv, NEW s \in Sources, NEW t \in Tables, NEW u \in Tables,
           NEW r \in rows[t][s], NEW q \in rows[u][s], r.date < q.date
    PROVE  r.block < q.block
<1>1. r.date \in Nat /\ r.block \in Nat /\ q.date \in Nat /\ q.block \in Nat
  BY RowNumbers
<1>2. IsMidnight(r.date) /\ IsMidnight(q.date) /\ r.block <= r.date + LateSlip /\ q.date <= q.block + EarlySlip
  BY DEF RowsInv
<1>3. r.date + Day <= q.date
  <2> SUFFICES ASSUME q.date < r.date + Day PROVE FALSE
    BY <1>1, GridAssumption
  <2>1. q.date \in r.date + 1 .. r.date + Day
    BY <1>1, GridAssumption
  <2> QED BY <2>1, <1>1, <1>2, NextMidnight, GridAssumption
<1> QED BY <1>1, <1>2, <1>3, GridAssumption DEF SlipsAreApart

TablesShrink ==
    /\ \A t \in Tables, s \in Sources :
          \/ rows'[t][s] = rows[t][s] /\ repeated'[t][s] = repeated[t][s]
          \/ rows'[t][s] = {} /\ repeated'[t][s] = {}
    /\ skipped' = skipped

(* Deleting the rows of a table makes nothing false.                       *)
LEMMA ShrinkKeepsData ==
    ASSUME DataInv, TablesShrink
    PROVE  DataInv'
<1>1. RowsInv'
  BY DEF TablesShrink, DataInv, RowsInv
<1>2. TablesInv'
  <2> SUFFICES ASSUME NEW t \in Tables, NEW u \in Tables, NEW s \in Sources,
                      NEW r \in rows'[t][s], NEW q \in rows'[u][s],
                      NEW d \in r.date .. q.date - 1, IsMidnight(d)
               PROVE  Covered(t, s, d)'
    BY DEF TablesInv
  <2>1. rows'[t][s] = rows[t][s] /\ rows'[u][s] = rows[u][s]
    BY DEF TablesShrink
  <2>2. Covered(t, s, d)
    BY <2>1 DEF DataInv, TablesInv
  <2> QED BY <2>1, <2>2 DEF Covered, HasRow, TablesShrink
<1>3. SpendsAhead'
  BY DEF TablesShrink, DataInv, SpendsAhead, Tables
<1>4. HasLast'
  BY DEF TablesShrink, DataInv, HasLast
<1> QED BY <1>1, <1>2, <1>3, <1>4 DEF DataInv

LEMMA ShrinkKeepsJobs ==
    ASSUME TablesShrink, NEW j, JobInv(j)
    PROVE  JobInv(j)'
<1>1. LoopInv(j)'
  <2> SUFFICES ASSUME InLoop(j)
               PROVE  /\ j.src \in Sources /\ IsMidnight(j.target) /\ j.last <= j.target + LateSlip
                      /\ \A t \in Tables : \A r \in rows'[t][j.src] :
                            \A d \in r.date .. j.target - 1 : IsMidnight(d) => Covered(t, j.src, d)'
                      /\ \A t \in Tables : \A q \in rows'[t][j.src] :
                            \A d \in j.target + 1 .. q.date - 1 : IsMidnight(d) => d \in skipped'[j.src]
    BY DEF LoopInv, InLoop
  <2>1. j.src \in Sources
    BY DEF JobInv, LoopInv
  <2>2. ASSUME NEW t \in Tables, NEW r \in rows'[t][j.src],
               NEW d \in r.date .. j.target - 1, IsMidnight(d)
        PROVE  Covered(t, j.src, d)'
    <3>1. rows'[t][j.src] = rows[t][j.src]
      BY <2>1, <2>2 DEF TablesShrink
    <3> QED BY <3>1, <2>2 DEF JobInv, LoopInv, Covered, HasRow, TablesShrink
  <2> QED BY <2>1, <2>2 DEF JobInv, LoopInv, TablesShrink
<1>2. FoundInv(j)'
  BY <1>1 DEF JobInv, FoundInv, LoopInv, InLoop, TablesShrink, Tables
<1>3. DatedInv(j)'
  BY DEF JobInv, DatedInv, InLoop, Untouched, TablesShrink
<1>4. AheadInv(j)'
  BY DEF JobInv, AheadInv, LoopInv, InLoop, TablesShrink, Tables
<1> QED BY <1>1, <1>2, <1>3, <1>4 DEF JobInv

(* Skipping a day of a source makes nothing false either.                  *)
SkippedGrow ==
    /\ rows' = rows /\ repeated' = repeated
    /\ \A s \in Sources : skipped[s] \subseteq skipped'[s]

LEMMA SkipKeepsData ==
    ASSUME DataInv, SkippedGrow
    PROVE  DataInv'
<1>1. RowsInv' /\ SpendsAhead' /\ HasLast'
  BY DEF SkippedGrow, DataInv, RowsInv, SpendsAhead, HasLast
<1>2. TablesInv'
  BY DEF SkippedGrow, DataInv, TablesInv, Covered, HasRow
<1> QED BY <1>1, <1>2 DEF DataInv

(* The next day, once the day of the target is covered.                    *)
LEMMA NextDay ==
    ASSUME SlipsAreApart, TypeOK, RowsInv, NEW j \in JobState, InLoop(j), JobInv(j), NEW last \in Nat,
           last <= j.target + Day + LateSlip,
           TypeOK', SkippedGrow \/ skipped' = skipped,
           \A t \in Tables, s \in Sources : s # j.src => rows'[t][s] = rows[t][s],
           \A t \in Tables : \A r \in rows'[t][j.src] : r \in rows[t][j.src] \/ r.date = j.target,
           \A t \in Tables : rows[t][j.src] \subseteq rows'[t][j.src],
           \A t \in Tables : \A r \in rows'[t][j.src] : Covered(t, j.src, j.target)'
    PROVE  JobInv(AfterDay(j, last))'
<1> DEFINE s == j.src
<1>1. PICK k \in JobState : k = AfterDay(j, last)
  BY AfterDayFields
<1>2. /\ k.date = j.date
      /\ \/ k.pc = "source" /\ k.src = j.src + 1
         \/ k.pc = "day" /\ k.src = j.src /\ k.last = last /\ k.target = j.target + Day
  BY <1>1, AfterDayFields
<1>3. j.target \in Nat /\ s \in Sources /\ s \in Nat /\ IsMidnight(j.target)
      /\ LoopInv(j) /\ DatedInv(j) /\ AheadInv(j)
  BY JobNumbers DEF LoopInv, JobInv
<1>0. \A t \in Tables : \A r \in rows'[t][s] : r.date \in Nat /\ r.block \in Nat
  <2>1. rows' \in [Tables -> [Sources -> SUBSET Row]]
    BY DEF TypeOK
  <2> QED BY <2>1, <1>3 DEF Row, Block
<1>4. \A t \in Tables, d \in Nat : Covered(t, s, d) => Covered(t, s, d)'
  BY <1>3 DEF Covered, HasRow, SkippedGrow
<1>5. LoopInv(k)'
  <2> SUFFICES ASSUME k.pc = "day", k.src = s, k.last = last, k.target = j.target + Day
               PROVE  LoopInv(k)'
    BY <1>2 DEF LoopInv, InLoop
  <2>1. IsMidnight(j.target + Day) /\ j.target + Day \in Nat
        /\ \A d \in j.target + 1 .. j.target + Day : IsMidnight(d) => d = j.target + Day
    BY <1>3, NextMidnight
  <2>2. ASSUME NEW t \in Tables, NEW r \in rows'[t][s], NEW d \in r.date .. j.target + Day - 1, IsMidnight(d)
        PROVE  Covered(t, s, d)'
    <3>1. r.date \in Nat
      BY <1>0
    <3>2. d \in Nat /\ d < j.target + Day
      BY <3>1, <1>3, GridAssumption
    <3>3. CASE d < j.target
      <4>1. r \in rows[t][s]
        BY <3>1, <3>3, <1>3
      <4>2. d \in r.date .. j.target - 1
        BY <3>1, <3>2, <3>3, <1>3
      <4>3. Covered(t, s, d)
        BY <4>1, <4>2, <2>2, <1>3 DEF LoopInv
      <4> QED BY <4>3, <3>2, <1>4
    <3>4. CASE d = j.target
      BY <3>4
    <3>5. CASE d > j.target
      <4>1. d \in j.target + 1 .. j.target + Day
        BY <3>2, <3>5, <1>3, <2>1
      <4> QED BY <4>1, <3>2, <2>1, <2>2
    <3> QED BY <3>2, <3>3, <3>4, <3>5, <1>3
  <2>3. ASSUME NEW t \in Tables, NEW q \in rows'[t][s],
               NEW d \in j.target + Day + 1 .. q.date - 1, IsMidnight(d)
        PROVE  d \in skipped'[s]
    <3>1. q.date \in Nat /\ Day \in Nat
      BY <1>0, GridAssumption
    <3>2. q \in rows[t][s] /\ d \in j.target + 1 .. q.date - 1
      BY <3>1, <1>3
    <3> QED BY <3>2, <2>3, <1>3 DEF LoopInv, SkippedGrow
  <2>4. last <= k.target + LateSlip
    BY <1>3
  <2>5. /\ k.src \in Sources /\ IsMidnight(k.target) /\ k.last <= k.target + LateSlip
        /\ \A t \in Tables : \A r \in rows'[t][k.src] :
              \A d \in r.date .. k.target - 1 : IsMidnight(d) => Covered(t, k.src, d)'
        /\ \A t \in Tables : \A q \in rows'[t][k.src] :
              \A d \in k.target + 1 .. q.date - 1 : IsMidnight(d) => d \in skipped'[k.src]
    <3>1. k.src \in Sources /\ IsMidnight(k.target) /\ k.last <= k.target + LateSlip
      BY <2>1, <2>4, <1>3
    <3>2. ASSUME NEW t \in Tables, NEW r \in rows'[t][k.src],
                 NEW d \in r.date .. k.target - 1, IsMidnight(d)
          PROVE  Covered(t, k.src, d)'
      <4>1. r \in rows'[t][s] /\ d \in r.date .. j.target + Day - 1
        <5>1. r \in rows'[t][s]
          BY <3>2
        <5>2. r.date \in Nat /\ k.target \in Nat /\ k.target = j.target + Day
          BY <5>1, <1>0, <2>1
        <5> QED BY <5>1, <5>2, <3>2, <1>3, GridAssumption
      <4>2. Covered(t, s, d)'
        BY <2>2, <3>2, <4>1
      <4> QED BY <4>2 DEF Covered, HasRow
    <3>3. ASSUME NEW t \in Tables, NEW q \in rows'[t][k.src],
                 NEW d \in k.target + 1 .. q.date - 1, IsMidnight(d)
          PROVE  d \in skipped'[k.src]
      BY <2>3, <3>3
    <3> QED BY <3>1, <3>2, <3>3
  <2> QED BY <2>5 DEF LoopInv
<1>8. AheadInv(k)'
  <2> SUFFICES ASSUME k.pc = "day", k.src = s, k.last = last, k.target = j.target + Day,
                      NEW q \in rows'["incomes"][s]
               PROVE  q.date < j.target + Day
    BY <1>2 DEF AheadInv, InLoop
  <2>1. q.date \in Nat /\ q.block \in Nat /\ (q \in rows["incomes"][s] \/ q.date = j.target)
    BY <1>0 DEF Tables
  <2>2. CASE q.date <= j.target
    BY <2>1, <2>2, <1>3, GridAssumption
  <2>3. CASE q \in rows["incomes"][s] /\ ~(q.date < j.target)
    <3>1. q.block <= j.last /\ q.date <= q.block + EarlySlip /\ j.last <= j.target + LateSlip
      BY <2>3, <1>3 DEF AheadInv, LoopInv, RowsInv, Tables
    <3> QED BY <3>1, <2>1, <1>3, JobNumbers, GridAssumption DEF SlipsAreApart
  <2> QED BY <2>1, <2>2, <2>3, <1>3
<1>6. FoundInv(k)'
  BY <1>2 DEF FoundInv
<1>7. DatedInv(k)'
  <2> SUFFICES ASSUME j.date # NoDate, NEW p \in Sources, s < p
               PROVE  Untouched(p)'
    BY <1>2, <1>3 DEF DatedInv, InLoop, Sources
  <2>1. Untouched(p) /\ p # s
    BY <1>3 DEF DatedInv, Sources
  <2> QED BY <2>1 DEF Untouched
<1> QED BY <1>1, <1>5, <1>6, <1>7, <1>8 DEF JobInv

(* A source is left: it ends the day loop, or never began one.             *)
LEMMA LeaveSource ==
    ASSUME NEW j \in JobState, j.pc = "source" \/ InLoop(j), JobInv(j), rows' = rows
    PROVE  JobInv(AfterSource(j))'
<1>1. PICK k \in JobState : k = AfterSource(j)
  BY AfterSourceFields
<1>2. k.pc = "source" /\ k.date = j.date /\ k.src = j.src + 1
  BY <1>1, AfterSourceFields
<1>3. DatedInv(k)'
  <2> SUFFICES ASSUME j.date # NoDate, NEW p \in Sources, j.src + 1 <= p
               PROVE  Untouched(p)
    BY <1>2 DEF DatedInv, InLoop, Untouched
  <2>1. j.src <= p /\ j.src < p
    BY JobNumbers DEF Sources
  <2> QED BY <2>1 DEF JobInv, DatedInv, InLoop
<1> QED BY <1>1, <1>2, <1>3 DEF JobInv, LoopInv, AheadInv, FoundInv, InLoop

(* A block that is found stands for the day of the target.                 *)
LEMMA FoundInSlip ==
    ASSUME TypeOK, NEW j \in JobState, InLoop(j), LoopInv(j),
           NEW b \in FoundBlocks(j.target, j.last, now)
    PROVE  /\ b \in Nat /\ j.last <= b
           /\ j.target <= b + EarlySlip /\ b <= j.target + LateSlip
<1>1. j.target \in Nat /\ j.last \in Nat /\ now \in Nat /\ j.last <= j.target + LateSlip
  BY JobNumbers DEF LoopInv, TypeOK
<1> QED BY <1>1, GridAssumption DEF FoundBlocks, ExactBlock

-----------------------------------------------------------------------------
(***************************************************************************)
(* A row that is inserted.                                                 *)
(***************************************************************************)
LEMMA InsertEffects ==
    ASSUME TypeOK, NEW t \in Tables, NEW s \in Sources, NEW d \in Nat, NEW b \in Nat,
           Insert(t, s, d, b)
    PROVE  /\ rows' \in [Tables -> [Sources -> SUBSET Row]]
           /\ repeated' \in [Tables -> [Sources -> SUBSET Nat]]
           /\ rows'[t][s] = rows[t][s] \cup {[date |-> d, block |-> b]}
           /\ repeated'[t][s] \subseteq repeated[t][s] \cup {d}
           /\ ~HasRow(t, s, d) => repeated'[t][s] = repeated[t][s]
           /\ \A u \in Tables, p \in Sources :
                 u # t \/ p # s => /\ rows'[u][p] = rows[u][p]
                                   /\ repeated'[u][p] = repeated[u][p]
<1>1. [date |-> d, block |-> b] \in Row
  BY DEF Row, Block
<1>2. rows \in [Tables -> [Sources -> SUBSET Row]] /\ repeated \in [Tables -> [Sources -> SUBSET Nat]]
  BY DEF TypeOK
<1>3. rows' = [rows EXCEPT ![t][s] = rows[t][s] \cup {[date |-> d, block |-> b]}]
      /\ repeated' = [repeated EXCEPT ![t][s] = IF HasRow(t, s, d) THEN repeated[t][s] \cup {d}
                                                                   ELSE repeated[t][s]]
  BY DEF Insert
<1> QED BY <1>1, <1>2, <1>3

(* A row may go between those of a source where the job in the loop is:    *)
(* the days before are covered, and those after are skipped.               *)
LEMMA InsertKeepsData ==
    ASSUME SlipsAreApart, TypeOK, DataInv, NEW j \in JobState, InLoop(j), JobInv(j),
           NEW t \in Tables, NEW b \in Nat, Insert(t, j.src, j.target, b), skipped' = skipped,
           j.target <= b + EarlySlip, b <= j.target + LateSlip,
           t = "spends" => j.last <= b,
           t = "incomes" /\ rows["spends"][j.src] # {} =>
              [date |-> j.target, block |-> b] \in rows["spends"][j.src]
    PROVE  DataInv'
<1>1. /\ j.src \in Sources /\ j.target \in Nat /\ j.last \in Nat /\ IsMidnight(j.target)
      /\ LoopInv(j) /\ AheadInv(j)
  BY JobNumbers DEF LoopInv, JobInv
<1>2. PICK s \in Sources, m \in Nat : s = j.src /\ m = j.target
  BY <1>1
<1>3. PICK w \in Row : w = [date |-> m, block |-> b]
  BY DEF Row, Block
<1>4. w.date = m /\ w.block = b /\ IsMidnight(m)
  BY <1>1, <1>2, <1>3
<1>5. /\ rows'[t][s] = rows[t][s] \cup {w}
      /\ ~HasRow(t, s, m) => repeated'[t][s] = repeated[t][s]
      /\ \A u \in Tables, p \in Sources :
            u # t \/ p # s => rows'[u][p] = rows[u][p] /\ repeated'[u][p] = repeated[u][p]
  BY <1>2, <1>3, InsertEffects
<1>6. \A u \in Tables, p \in Sources :
         /\ rows[u][p] \subseteq rows'[u][p]
         /\ \A r \in rows'[u][p] : r \in rows[u][p] \/ (r = w /\ u = t /\ p = s)
  BY <1>5
<1>7. \A u \in Tables, p \in Sources : \A r \in rows'[u][p] : r.date \in Nat /\ r.block \in Nat
  BY <1>6, <1>4, RowNumbers
<1>8. \A u \in Tables, p \in Sources, d \in Nat : Covered(u, p, d) => Covered(u, p, d)'
  BY <1>6 DEF Covered, HasRow
<1>10. RowsInv'
  BY <1>2, <1>4, <1>6 DEF DataInv, RowsInv
<1>11. TablesInv'
  <2> SUFFICES ASSUME NEW u \in Tables, NEW v \in Tables, NEW p \in Sources,
                      NEW r \in rows'[u][p], NEW q \in rows'[v][p],
                      NEW d \in r.date .. q.date - 1, IsMidnight(d)
               PROVE  Covered(u, p, d)'
    BY DEF TablesInv
  <2>1. r.date \in Nat /\ q.date \in Nat /\ d \in Nat /\ r.date <= d /\ d < q.date
    <3>1. r.date \in Nat /\ q.date \in Nat
      BY <1>7
    <3> QED BY <3>1
  <2>2. CASE r \in rows[u][p] /\ q \in rows[v][p]
    BY <2>1, <2>2, <1>8 DEF DataInv, TablesInv
  <2>3. CASE r = w /\ u = t /\ p = s /\ q \in rows[v][p]
    <3>1. CASE d = m
      BY <3>1, <2>3, <1>4, <1>5 DEF Covered, HasRow
    <3>2. CASE d # m
      <4>1. d \in m + 1 .. q.date - 1
        BY <3>2, <2>1, <2>3, <1>4
      <4>2. d \in skipped[s]
        BY <4>1, <2>3, <1>1, <1>2 DEF LoopInv
      <4> QED BY <4>2, <2>3 DEF Covered
    <3> QED BY <3>1, <3>2
  <2>4. CASE r \in rows[u][p] /\ q = w /\ p = s
    <3>1. d \in r.date .. m - 1
      BY <2>1, <2>4, <1>4
    <3>2. Covered(u, p, d)
      BY <3>1, <2>4, <1>1, <1>2 DEF LoopInv
    <3> QED BY <3>2, <2>1, <1>8
  <2>5. CASE r = w /\ q = w
    BY <2>1, <2>5
  <2> QED BY <2>2, <2>3, <2>4, <2>5, <1>6
<1>12. SpendsAhead'
  <2> SUFFICES ASSUME NEW p \in Sources, rows'["spends"][p] # {}, NEW q \in rows'["incomes"][p]
               PROVE  \E r \in rows'["spends"][p] : q.block <= r.block
    BY DEF SpendsAhead
  <2>1. CASE p # s
    BY <2>1, <1>5 DEF DataInv, SpendsAhead, Tables
  <2>2. CASE p = s /\ t = "incomes"
    <3>1. rows'["spends"][s] = rows["spends"][s] /\ w \in rows["spends"][s]
      BY <2>2, <1>5, <1>2, <1>3 DEF Tables
    <3>2. CASE q \in rows["incomes"][s]
      BY <3>1, <3>2, <2>2 DEF DataInv, SpendsAhead, Tables
    <3>3. CASE q = w
      BY <3>1, <3>3, <2>2, <1>4
    <3> QED BY <3>2, <3>3, <2>2, <1>6 DEF Tables
  <2>3. CASE p = s /\ t = "spends"
    <3>1. q \in rows["incomes"][s] /\ w \in rows'["spends"][s]
      BY <2>3, <1>5 DEF Tables
    <3>2. q.date \in Nat /\ q.block \in Nat /\ q.block <= q.date + LateSlip /\ IsMidnight(q.date)
      BY <3>1, RowNumbers DEF DataInv, RowsInv, Tables
    <3>3. q.date < m \/ q.block <= j.last
      BY <3>1, <1>1, <1>2 DEF AheadInv
    <3>4. q.block <= b
      <4>1. CASE q.block <= j.last
        BY <4>1, <3>2, <2>3, <1>1
      <4>2. CASE q.date < m
        <5>1. q.date + Day <= m
          <6> SUFFICES ASSUME m < q.date + Day PROVE FALSE
            BY <3>2, GridAssumption
          <6>1. m \in q.date + 1 .. q.date + Day
            BY <4>2, <3>2, GridAssumption
          <6> QED BY <6>1, <3>2, <1>4, NextMidnight, GridAssumption
        <5> QED BY <5>1, <3>2, <1>2, GridAssumption DEF SlipsAreApart
      <4> QED BY <3>3, <4>1, <4>2
    <3> QED BY <3>1, <3>4, <2>3, <1>4
  <2> QED BY <2>1, <2>2, <2>3 DEF Tables
<1>13. HasLast'
  <2> SUFFICES ASSUME NEW u \in Tables, NEW p \in Sources, rows'[u][p] # {}
               PROVE  \E r \in rows'[u][p] : \A q \in rows'[u][p] : q.block <= r.block
    BY DEF HasLast
  <2>1. CASE u # t \/ p # s
    BY <2>1, <1>5 DEF DataInv, HasLast
  <2>2. CASE u = t /\ p = s /\ rows[u][p] = {}
    BY <2>2, <1>4, <1>5
  <2>3. CASE u = t /\ p = s /\ rows[u][p] # {}
    <3>1. PICK r \in rows[t][s] : \A q \in rows[t][s] : q.block <= r.block
      BY <2>3 DEF DataInv, HasLast
    <3>2. r.block \in Nat /\ \A q \in rows[t][s] : q.block \in Nat
      BY RowNumbers
    <3>3. CASE r.block <= b
      BY <3>1, <3>2, <3>3, <2>3, <1>4, <1>5
    <3>4. CASE b <= r.block
      BY <3>1, <3>2, <3>4, <2>3, <1>4, <1>5
    <3> QED BY <3>2, <3>3, <3>4
  <2> QED BY <2>1, <2>2, <2>3
<1> QED BY <1>10, <1>11, <1>12, <1>13 DEF DataInv

-----------------------------------------------------------------------------
(***************************************************************************)
(* Where a source goes on.                                                 *)
(***************************************************************************)
(* A source with no rows begins at its creation block; one with rows goes  *)
(* on from the last row of incomes, or of spends if there are no incomes.  *)
LEMMA GoesOnFromARow ==
    ASSUME TypeOK, SpendsAhead, HasLast, NEW s \in Sources, NEW start \in GoesOnFrom(s)
    PROVE  /\ start \in Nat
           /\ Untouched(s) \/
              \E t \in Tables : \E r \in rows[t][s] :
                  /\ r.block = start
                  /\ \A p \in rows[t][s] : p.block <= start
                  /\ t = "incomes" \/ rows["incomes"][s] = {}
<1>1. \A t \in Tables : \A b \in LastBlocks(t, s) :
         b \in Nat /\ \E r \in rows[t][s] : r.block = b /\ \A p \in rows[t][s] : p.block <= b
  BY RowNumbers DEF LastBlocks
<1>2. \A t \in Tables : rows[t][s] # {} => LastBlocks(t, s) # {}
  BY DEF HasLast, LastBlocks
<1>3. \A t \in Tables : rows[t][s] = {} => LastBlocks(t, s) = {}
  BY DEF LastBlocks
<1>4. CASE Untouched(s)
  <2>1. LastBlocks("incomes", s) \cup LastBlocks("spends", s) = {}
    BY <1>3, <1>4 DEF Untouched, Tables
  <2>2. start = CreationBlock[s]
    BY <2>1 DEF GoesOnFrom
  <2> QED BY <2>2, <1>4, StatsAssumption DEF Block
<1>5. CASE ~Untouched(s)
  <2> DEFINE lasts == LastBlocks("incomes", s) \cup LastBlocks("spends", s)
  <2>1. lasts # {}
    BY <1>2, <1>5 DEF Untouched, Tables
  <2>2. start \in lasts /\ \A a \in lasts : start <= a
    BY <2>1 DEF GoesOnFrom
  <2>3. CASE start \in LastBlocks("incomes", s)
    BY <2>3, <1>1 DEF Tables
  <2>4. CASE start \in LastBlocks("spends", s) /\ rows["incomes"][s] = {}
    BY <2>4, <1>1 DEF Tables
  <2>5. CASE start \in LastBlocks("spends", s) /\ rows["incomes"][s] # {}
    <3>1. PICK a \in LastBlocks("incomes", s) : TRUE
      BY <2>5, <1>2 DEF Tables
    <3>2. a \in Nat /\ start <= a /\ start \in Nat
      BY <3>1, <2>2, <2>5, <1>1 DEF Tables
    <3>3. PICK q \in rows["incomes"][s] : q.block = a /\ \A p \in rows["incomes"][s] : p.block <= a
      BY <3>1, <1>1 DEF Tables
    <3>4. PICK r \in rows["spends"][s] : q.block <= r.block
      BY <3>3, <2>5, <1>1 DEF SpendsAhead, Tables
    <3>5. r.block \in Nat /\ r.block <= start
      BY <3>4, <2>5, <1>1, RowNumbers DEF Tables
    <3>6. a = start
      BY <3>2, <3>3, <3>4, <3>5
    <3> QED BY <3>1, <3>3, <3>6, <1>1 DEF Tables
  <2> QED BY <2>2, <2>3, <2>4, <2>5
<1> QED BY <1>4, <1>5

(* The day loop begins in order.                                           *)
LEMMA LoopBegins ==
    ASSUME SlipsAreApart, TypeOK, DataInv, NEW s \in Sources, NEW start \in Nat,
           Untouched(s) \/
              \E t \in Tables : \E r \in rows[t][s] :
                  /\ r.block = start
                  /\ \A p \in rows[t][s] : p.block <= start
                  /\ t = "incomes" \/ rows["incomes"][s] = {},
           NEW target \in Nat, target = FirstMidnightUTC(start)
    PROVE  /\ IsMidnight(target) /\ start < target
           /\ \A t \in Tables : \A r \in rows[t][s] :
                 \A d \in r.date .. target - 1 : IsMidnight(d) => Covered(t, s, d)
           /\ \A t \in Tables : \A q \in rows[t][s] :
                 \A d \in target + 1 .. q.date - 1 : IsMidnight(d) => d \in skipped[s]
           /\ \A q \in rows["incomes"][s] :
                 q.date < target \/ (EarlySlip > 0 /\ q.block <= start)
<1>1. IsMidnight(target) /\ start < target /\ target <= start + Day
  BY FirstMidnight
<1>2. CASE Untouched(s)
  BY <1>1, <1>2 DEF Untouched, Tables
<1>3. ASSUME NEW t0 \in Tables, NEW r1 \in rows[t0][s], r1.block = start,
             \A p \in rows[t0][s] : p.block <= start,
             t0 = "incomes" \/ rows["incomes"][s] = {}
      PROVE  /\ \A t \in Tables : \A r \in rows[t][s] :
                   \A d \in r.date .. target - 1 : IsMidnight(d) => Covered(t, s, d)
             /\ \A t \in Tables : \A q \in rows[t][s] :
                   \A d \in target + 1 .. q.date - 1 : IsMidnight(d) => d \in skipped[s]
             /\ \A q \in rows["incomes"][s] :
                   q.date < target \/ (EarlySlip > 0 /\ q.block <= start)
  <2>1. /\ r1.date \in Nat /\ IsMidnight(r1.date)
        /\ r1.date <= start + EarlySlip /\ start <= r1.date + LateSlip
    BY <1>3, RowNumbers DEF DataInv, RowsInv
  <2>2. r1.date <= target
    <3> SUFFICES ASSUME target < r1.date PROVE FALSE
      BY <2>1
    <3>1. target + Day <= r1.date
      <4> SUFFICES ASSUME r1.date < target + Day PROVE FALSE
        BY <2>1, GridAssumption
      <4>1. r1.date \in target + 1 .. target + Day
        BY <2>1, GridAssumption
      <4> QED BY <4>1, <2>1, <1>1, NextMidnight, GridAssumption
    <3> QED BY <3>1, <2>1, <1>1, GridAssumption
  <2>3. ASSUME NEW d \in r1.date .. target - 1, IsMidnight(d)
        PROVE  d = r1.date
    <3> SUFFICES ASSUME d # r1.date PROVE FALSE
      OBVIOUS
    <3>1. d \in Nat /\ r1.date < d /\ d < target
      BY <2>1
    <3>2. r1.date + Day <= d
      <4> SUFFICES ASSUME d < r1.date + Day PROVE FALSE
        BY <2>1, <3>1, GridAssumption
      <4>1. d \in r1.date + 1 .. r1.date + Day
        BY <2>1, <3>1, GridAssumption
      <4> QED BY <4>1, <3>1, <2>1, <2>3, NextMidnight, GridAssumption
    <3>3. d + Day <= target
      <4> SUFFICES ASSUME target < d + Day PROVE FALSE
        BY <3>1, GridAssumption
      <4>1. target \in d + 1 .. d + Day
        BY <3>1, GridAssumption
      <4> QED BY <4>1, <3>1, <1>1, <2>3, NextMidnight, GridAssumption
    <3> QED BY <3>1, <3>2, <3>3, <2>1, <1>1, GridAssumption
  <2>4. \A p \in rows[t0][s] : p.date \in Nat /\ p.date <= r1.date
    <3> SUFFICES ASSUME NEW p \in rows[t0][s], r1.date < p.date
                 PROVE  FALSE
      BY <2>1, RowNumbers
    <3>1. r1.block < p.block
      BY BlocksInOrder DEF DataInv
    <3> QED BY <3>1, <1>3, RowNumbers
  <2>5. ASSUME NEW t \in Tables, NEW r \in rows[t][s],
               NEW d \in r.date .. target - 1, IsMidnight(d)
        PROVE  Covered(t, s, d)
    <3>1. r.date \in Nat /\ d \in Nat /\ r.date <= d /\ d < target
      <4>1. r.date \in Nat
        BY RowNumbers
      <4> QED BY <4>1
    <3>2. CASE d < r1.date
      <4>1. d \in r.date .. r1.date - 1
        BY <3>1, <3>2, <2>1
      <4> QED BY <4>1, <2>5, <1>3 DEF DataInv, TablesInv
    <3>3. CASE r1.date <= d
      <4>1. d = r1.date
        BY <3>1, <3>3, <2>1, <2>3, <2>5
      <4>2. CASE t = t0
        BY <4>1, <4>2, <1>3 DEF Covered, HasRow
      <4>3. CASE t # t0
        <5>1. t0 = "incomes" /\ t = "spends"
          BY <4>3, <1>3, <2>5 DEF Tables
        <5>2. PICK r2 \in rows["spends"][s] : r1.block <= r2.block
          BY <5>1, <2>5, <1>3 DEF DataInv, SpendsAhead
        <5>3. r2.date \in Nat /\ r2.block \in Nat /\ r1.block \in Nat
          BY <5>2, <1>3, RowNumbers DEF Tables
        <5>4. r1.date <= r2.date
          <6> SUFFICES ASSUME r2.date < r1.date PROVE FALSE
            BY <5>3, <2>1
          <6>1. r2.block < r1.block
            BY <5>2, <5>1, <1>3, BlocksInOrder DEF DataInv, Tables
          <6> QED BY <6>1, <5>2, <5>3
        <5>5. CASE r2.date = d
          BY <5>1, <5>2, <5>5 DEF Covered, HasRow
        <5>6. CASE d < r2.date
          <6>1. d \in r.date .. r2.date - 1
            BY <5>3, <5>6, <3>1
          <6> QED BY <6>1, <5>1, <5>2, <2>5 DEF DataInv, TablesInv
        <5> QED BY <5>3, <5>4, <5>5, <5>6, <4>1, <3>1
      <4> QED BY <4>2, <4>3
    <3> QED BY <3>1, <3>2, <3>3, <2>1
  <2>6. ASSUME NEW t \in Tables, NEW q \in rows[t][s],
               NEW d \in target + 1 .. q.date - 1, IsMidnight(d)
        PROVE  d \in skipped[s]
    <3>1. q.date \in Nat /\ d \in Nat /\ target < d /\ d < q.date /\ r1.date < d
      <4>1. q.date \in Nat
        BY RowNumbers
      <4> QED BY <4>1, <2>1, <2>2
    <3>2. d \in r1.date .. q.date - 1
      BY <3>1, <2>1
    <3>3. Covered(t0, s, d)
      BY <3>2, <2>6, <1>3 DEF DataInv, TablesInv
    <3>4. ~HasRow(t0, s, d)
      BY <3>1, <2>1, <2>4 DEF HasRow
    <3> QED BY <3>3, <3>4 DEF Covered
  <2>7. ASSUME NEW q \in rows["incomes"][s]
        PROVE  q.date < target \/ (EarlySlip > 0 /\ q.block <= start)
    <3>1. t0 = "incomes"
      BY <1>3, <2>7
    <3>2. q.date \in Nat /\ q.block \in Nat /\ q.block <= start /\ q.date <= q.block + EarlySlip
      BY <3>1, <1>3, <2>7, RowNumbers DEF DataInv, RowsInv
    <3> QED BY <3>2, <1>1, GridAssumption
  <2> QED BY <2>5, <2>6, <2>7
<1> QED BY <1>1, <1>2, <1>3

-----------------------------------------------------------------------------
(***************************************************************************)
(* The steps.                                                              *)
(***************************************************************************)
LEMMA JobTypes ==
    ASSUME TypeOK, NEW c \in Collectors
    PROVE  job[c] \in JobState /\ deleting[c] \subseteq Tables /\ orphans[c] \subseteq Tables
BY DEF TypeOK

(* A step that leaves the tables to a job the invariant allows.            *)
LEMMA JobMoves ==
    ASSUME OneCollector, TypeOK, NEW c \in Collectors, NEW r \in JobState, Move(c, r),
           DataInv', JobInv(r)', r.pc # "clear", TypeOK'
    PROVE  StatsInv'
<1>1. job'[c] = r /\ \A d \in Collectors : d = c
  BY Moves
<1>2. ASSUME NEW d \in Collectors PROVE ClearInv(d)' /\ JobInv(job[d])'
  <2>1. d = c
    BY <1>1
  <2>2. JobInv(job[c])'
    BY <1>1 DEF JobInv, LoopInv, AheadInv, FoundInv, DatedInv, InLoop
  <2>3. ClearInv(c)'
    BY <1>1 DEF ClearInv
  <2> QED BY <2>1, <2>2, <2>3
<1> QED BY <1>2 DEF StatsInv

LEMMA IdleJobInv == JobInv(IdleJob)'
BY IdleJobType DEF JobInv, LoopInv, AheadInv, FoundInv, DatedInv, InLoop

LEMMA StayingKeepsData ==
    ASSUME DataInv, UNCHANGED <<rows, repeated, skipped>>
    PROVE  DataInv'
BY DEF DataInv, RowsInv, TablesInv, SpendsAhead, HasLast, Covered, HasRow

LEMMA InvStart ==
    ASSUME OneCollector, StatsInv, NEW c \in Collectors, Start(c)
    PROVE  StatsInv'
<1> DEFINE r == [IdleJob EXCEPT !.pc = "source"]
<1>1. r \in JobState /\ r.pc = "source" /\ r.date = NoDate
  BY DEF IdleJob, JobState, Phases, Block, NoDate
<1>2. TypeOK /\ DataInv
  BY DEF StatsInv
<1>3. DataInv'
  BY <1>2, StayingKeepsData DEF Start, tables
<1>4. JobInv(r)'
  BY <1>1 DEF JobInv, LoopInv, AheadInv, FoundInv, DatedInv, InLoop
<1>5. Move(c, r)
  BY DEF Start
<1>6. TypeOK'
  <2>1. job' \in [Collectors -> JobState]
    BY <1>1, <1>2, <1>5, Moves
  <2> QED BY <2>1, <1>2 DEF TypeOK, Start, bounds, tables, clearing
<1> QED BY <1>1, <1>2, <1>3, <1>4, <1>5, <1>6, JobMoves

LEMMA InvStartClearing ==
    ASSUME OneCollector, StatsInv, NEW c \in Collectors, StartClearing(c)
    PROVE  StatsInv'
<1>1. PICK date \in StartDates \cup {NoDate} : Move(c, [IdleJob EXCEPT !.pc = "clear", !.date = date])
  BY DEF StartClearing
<1>2. PICK r \in JobState : r = [IdleJob EXCEPT !.pc = "clear", !.date = date]
                            /\ r.pc = "clear"
  <2>1. date \in Nat \cup {NoDate}
    BY StatsAssumption
  <2>2. "clear" \in Phases
    BY DEF Phases
  <2> DEFINE r == [IdleJob EXCEPT !.pc = "clear", !.date = date]
  <2>3. r \in JobState /\ r.pc = "clear"
    BY <2>1, <2>2, IdleJobType DEF JobState
  <2>4. r = [IdleJob EXCEPT !.pc = "clear", !.date = date]
    OBVIOUS
  <2> HIDE DEF r
  <2> QED BY <2>3, <2>4
<1>3. TypeOK /\ DataInv
  BY DEF StatsInv
<1>4. DataInv'
  BY <1>3, StayingKeepsData DEF StartClearing, tables
<1>5. job' \in [Collectors -> JobState] /\ job'[c] = r /\ \A d \in Collectors : d = c
  BY <1>1, <1>2, <1>3, Moves
<1>6. TypeOK'
  <2>1. clearsLeft' \in Nat
    BY <1>3 DEF TypeOK, StartClearing
  <2>2. deleting' \in [Collectors -> SUBSET Tables]
    BY <1>3 DEF TypeOK, StartClearing
  <2> QED BY <2>1, <2>2, <1>3, <1>5 DEF TypeOK, StartClearing, tables
<1>7. deleting'[c] = Tables
  BY <1>3 DEF TypeOK, StartClearing
<1>8. ClearInv(c)'
  BY <1>7 DEF ClearInv
<1>9. JobInv(job[c])'
  BY <1>2, <1>5 DEF JobInv, LoopInv, AheadInv, FoundInv, DatedInv, InLoop
<1> QED BY <1>4, <1>5, <1>6, <1>8, <1>9 DEF StatsInv

LEMMA TruncateShrinks ==
    ASSUME TypeOK, NEW t \in Tables, Truncate(t), skipped' = skipped
    PROVE  /\ TablesShrink
           /\ \A s \in Sources : rows'[t][s] = {}
           /\ rows' \in [Tables -> [Sources -> SUBSET Row]]
           /\ repeated' \in [Tables -> [Sources -> SUBSET Nat]]
BY DEF TypeOK, Truncate, Empty, TablesShrink

LEMMA InvDelete ==
    ASSUME OneCollector, StatsInv, NEW c \in Collectors, NEW t \in Tables, Delete(c, t)
    PROVE  StatsInv'
<1>1. PICK j \in JobState : j = job[c] /\ j.pc = "clear"
  BY JobTypes DEF StatsInv, Delete
<1>2. PICK r \in JobState : /\ r = IF deleting[c] = {t} THEN [job[c] EXCEPT !.pc = "source"] ELSE job[c]
                            /\ r.pc = IF deleting[c] = {t} THEN "source" ELSE "clear"
  <2>1. [j EXCEPT !.pc = "source"] \in JobState /\ [j EXCEPT !.pc = "source"].pc = "source"
    BY <1>1 DEF JobState, Phases
  <2> QED BY <2>1, <1>1
<1>3. TypeOK /\ DataInv /\ ClearInv(c) /\ t \in deleting[c]
  BY DEF StatsInv, Delete
<1>4. /\ TablesShrink /\ \A s \in Sources : rows'[t][s] = {}
      /\ rows' \in [Tables -> [Sources -> SUBSET Row]]
      /\ repeated' \in [Tables -> [Sources -> SUBSET Nat]]
  BY <1>3, TruncateShrinks DEF Delete
<1>5. DataInv'
  BY <1>3, <1>4, ShrinkKeepsData
<1>6. job' \in [Collectors -> JobState] /\ job'[c] = r /\ \A d \in Collectors : d = c
  BY <1>2, <1>3, Moves DEF Delete
<1>7. deleting' \in [Collectors -> SUBSET Tables] /\ deleting'[c] = deleting[c] \ {t}
  BY <1>3 DEF TypeOK, Delete
<1>8. TypeOK'
  BY <1>3, <1>4, <1>6, <1>7 DEF TypeOK, Delete, bounds
<1>9. \A u \in Tables \ (deleting[c] \ {t}) : \A s \in Sources : rows'[u][s] = {}
  BY <1>1, <1>3, <1>4 DEF ClearInv, TablesShrink
<1>10. ClearInv(c)'
  BY <1>7, <1>9 DEF ClearInv
<1>11. JobInv(job[c])'
  <2>1. CASE deleting[c] = {t}
    <3>1. \A s \in Sources : Untouched(s)'
      BY <2>1, <1>9 DEF Untouched
    <3> QED BY <3>1, <2>1, <1>2, <1>6 DEF JobInv, LoopInv, AheadInv, FoundInv, DatedInv, InLoop
  <2>2. CASE deleting[c] # {t}
    BY <2>2, <1>2, <1>6 DEF JobInv, LoopInv, AheadInv, FoundInv, DatedInv, InLoop
  <2> QED BY <2>1, <2>2
<1> QED BY <1>5, <1>6, <1>8, <1>10, <1>11 DEF StatsInv

LEMMA InvDeleteFails ==
    ASSUME OneCollector, StatsInv, NEW c \in Collectors, NEW t \in Tables, DeleteFails(c, t)
    PROVE  StatsInv'
<1>1. TypeOK /\ DataInv
  BY DEF StatsInv
<1>2. DataInv'
  BY <1>1, StayingKeepsData DEF DeleteFails, tables
<1>3. TypeOK'
  <2>1. faultsLeft' \in Nat
    BY <1>1, FaultsAreCounted DEF DeleteFails, FaultKinds
  <2>2. deleting' \in [Collectors -> SUBSET Tables] /\ orphans' \in [Collectors -> SUBSET Tables]
    BY <1>1 DEF TypeOK, DeleteFails
  <2>3. job' \in [Collectors -> JobState]
    BY <1>1, IdleJobType, Moves DEF DeleteFails
  <2> QED BY <2>1, <2>2, <2>3, <1>1 DEF TypeOK, DeleteFails, tables
<1> QED BY <1>1, <1>2, <1>3, IdleJobType, IdleJobInv, JobMoves DEF DeleteFails

LEMMA InvOrphanEnds ==
    ASSUME OneCollector, StatsInv, NEW c \in Collectors, NEW t \in Tables, OrphanEnds(c, t)
    PROVE  StatsInv'
<1>1. TypeOK /\ DataInv /\ job' = job /\ deleting' = deleting
  BY DEF StatsInv, OrphanEnds
<1>2. /\ TablesShrink
      /\ rows' \in [Tables -> [Sources -> SUBSET Row]]
      /\ repeated' \in [Tables -> [Sources -> SUBSET Nat]]
  BY <1>1, TruncateShrinks DEF OrphanEnds
<1>3. DataInv'
  BY <1>1, <1>2, ShrinkKeepsData
<1>4. TypeOK'
  <2>1. orphans' \in [Collectors -> SUBSET Tables]
    BY <1>1 DEF TypeOK, OrphanEnds
  <2> QED BY <2>1, <1>1, <1>2 DEF TypeOK, OrphanEnds, bounds
<1>5. ASSUME NEW d \in Collectors PROVE ClearInv(d)' /\ JobInv(job[d])'
  <2>1. PICK j \in JobState : j = job[d]
    BY <1>1, JobTypes
  <2>2. JobInv(j)
    BY <2>1 DEF StatsInv
  <2>3. JobInv(j)'
    BY <2>2, <1>2, ShrinkKeepsJobs
  <2>4. JobInv(job[d])'
    BY <2>1, <2>3, <1>1 DEF JobInv, LoopInv, AheadInv, FoundInv, DatedInv, InLoop
  <2>5. ClearInv(d)'
    BY <1>1, <1>2 DEF StatsInv, ClearInv, TablesShrink
  <2> QED BY <2>4, <2>5
<1> QED BY <1>3, <1>4, <1>5 DEF StatsInv

LEMMA InvBeginSource ==
    ASSUME OneCollector, SlipsAreApart, StatsInv, NEW c \in Collectors, BeginSource(c)
    PROVE  StatsInv'
<1>1. PICK j \in JobState : j = job[c] /\ j.pc = "source" /\ j.src \in Sources
  BY JobTypes DEF StatsInv, BeginSource, AtSource
<1>2. TypeOK /\ DataInv /\ JobInv(j)
  BY <1>1 DEF StatsInv
<1>3. DataInv'
  BY <1>2, StayingKeepsData DEF BeginSource, tables
<1>4. rows' = rows /\ skipped' = skipped
  BY DEF BeginSource, tables
<1>5. PICK start \in StartBlocks(j.src, j.date) :
         IF FirstMidnightUTC(start) <= TodayMidnightUTC(now)
         THEN Move(c, [j EXCEPT !.pc = "day", !.last = start,
                                !.target = FirstMidnightUTC(start),
                                !.today = TodayMidnightUTC(now)])
         ELSE Move(c, AfterSource(j))
  BY <1>1 DEF BeginSource
<1>6. now \in Nat /\ j.date \in Nat \cup {NoDate}
  BY <1>2, JobNumbers DEF TypeOK
<1>7. /\ start \in Nat
      /\ Untouched(j.src) \/
            \E t \in Tables : \E r \in rows[t][j.src] :
                /\ r.block = start
                /\ \A p \in rows[t][j.src] : p.block <= start
                /\ t = "incomes" \/ rows["incomes"][j.src] = {}
  <2>1. CASE j.date = NoDate
    BY <2>1, <1>1, <1>2, <1>5, GoesOnFromARow DEF StartBlocks, DataInv
  <2>2. CASE j.date # NoDate
    <3>1. Untouched(j.src)
      <4>1. j.src <= j.src
        BY JobNumbers
      <4> QED BY <4>1, <2>2, <1>1, <1>2 DEF JobInv, DatedInv
    <3>2. start = CreationBlock[j.src] \/ start \in FoundBlocks(j.date, 0, now)
      BY <2>2, <1>5 DEF StartBlocks
    <3>3. start \in Nat
      BY <3>2, <1>1, <1>6, StatsAssumption DEF FoundBlocks, Block
    <3> QED BY <3>1, <3>3
  <2> QED BY <2>1, <2>2
<1>8. PICK target \in Nat, today \in Nat : target = FirstMidnightUTC(start) /\ today = TodayMidnightUTC(now)
  BY <1>6, <1>7, FirstMidnight, TodayMidnight
<1>9. CASE target <= today
  <2>1. Move(c, [j EXCEPT !.pc = "day", !.last = start, !.target = target, !.today = today])
    BY <1>5, <1>8, <1>9
  <2>2. PICK k \in JobState :
           /\ k = [j EXCEPT !.pc = "day", !.last = start, !.target = target, !.today = today]
           /\ k.pc = "day" /\ k.last = start /\ k.target = target
           /\ k.src = j.src /\ k.date = j.date
    <3>1. "day" \in Phases
      BY DEF Phases
    <3> DEFINE k == [j EXCEPT !.pc = "day", !.last = start, !.target = target, !.today = today]
    <3>2. k \in JobState /\ k.pc = "day" /\ k.last = start /\ k.target = target
          /\ k.src = j.src /\ k.date = j.date
      BY <3>1, <1>7 DEF JobState, Block
    <3>3. k = [j EXCEPT !.pc = "day", !.last = start, !.target = target, !.today = today]
      OBVIOUS
    <3> HIDE DEF k
    <3> QED BY <3>2, <3>3
  <2>3. /\ IsMidnight(target) /\ start < target
        /\ \A t \in Tables : \A r \in rows[t][j.src] :
              \A d \in r.date .. target - 1 : IsMidnight(d) => Covered(t, j.src, d)
        /\ \A t \in Tables : \A q \in rows[t][j.src] :
              \A d \in target + 1 .. q.date - 1 : IsMidnight(d) => d \in skipped[j.src]
        /\ \A q \in rows["incomes"][j.src] :
              q.date < target \/ (EarlySlip > 0 /\ q.block <= start)
    BY <1>1, <1>2, <1>7, <1>8, LoopBegins
  <2>4. LoopInv(k)
    <3>1. k.last <= k.target + LateSlip
      BY <2>2, <2>3, <1>7, GridAssumption
    <3> QED BY <3>1, <2>2, <2>3, <1>1 DEF LoopInv
  <2>5. AheadInv(k)
    BY <2>2, <2>3 DEF AheadInv
  <2>6. DatedInv(k)
    <3> SUFFICES ASSUME j.date # NoDate, NEW p \in Sources, j.src < p
                 PROVE  Untouched(p)
      BY <2>2 DEF DatedInv, InLoop
    <3>1. j.src <= p
      BY JobNumbers DEF Sources
    <3> QED BY <3>1, <1>1, <1>2 DEF JobInv, DatedInv
  <2>7. JobInv(k)'
    BY <2>2, <2>4, <2>5, <2>6, <1>4
       DEF JobInv, LoopInv, AheadInv, FoundInv, DatedInv, InLoop, Untouched, Covered, HasRow
  <2>8. TypeOK'
    <3>1. job' \in [Collectors -> JobState]
      BY <2>1, <2>2, <1>2, Moves
    <3> QED BY <3>1, <1>2 DEF TypeOK, BeginSource, bounds, tables, clearing
  <2> QED BY <2>1, <2>2, <2>7, <2>8, <1>2, <1>3, JobMoves
<1>10. CASE ~(target <= today)
  <2>1. Move(c, AfterSource(j)) /\ AfterSource(j) \in JobState /\ AfterSource(j).pc = "source"
    BY <1>5, <1>8, <1>10, AfterSourceFields
  <2>2. JobInv(AfterSource(j))'
    BY <1>1, <1>2, <1>4, LeaveSource
  <2>3. TypeOK'
    <3>1. job' \in [Collectors -> JobState]
      BY <2>1, <1>2, Moves
    <3> QED BY <3>1, <1>2 DEF TypeOK, BeginSource, bounds, tables, clearing
  <2> QED BY <2>1, <2>2, <2>3, <1>2, <1>3, JobMoves
<1> QED BY <1>9, <1>10

LEMMA InvSourceFails ==
    ASSUME OneCollector, StatsInv, NEW c \in Collectors, SourceFails(c)
    PROVE  StatsInv'
<1>1. PICK j \in JobState : j = job[c] /\ j.pc = "source"
  BY JobTypes DEF StatsInv, SourceFails, AtSource
<1>2. TypeOK /\ DataInv /\ JobInv(j)
  BY <1>1 DEF StatsInv
<1>3. DataInv'
  BY <1>2, StayingKeepsData DEF SourceFails, tables
<1>4. PICK r \in JobState : Move(c, r) /\ JobInv(r)' /\ r.pc # "clear"
  <2>1. CASE Move(c, AfterSource(j))
    BY <2>1, <1>1, <1>2, AfterSourceFields, LeaveSource DEF SourceFails, tables
  <2>2. CASE Move(c, IdleJob)
    BY <2>2, IdleJobType, IdleJobInv
  <2> QED BY <2>1, <2>2, <1>1 DEF SourceFails
<1>5. TypeOK'
  <2>1. faultsLeft' \in Nat
    BY <1>2, FaultsAreCounted DEF SourceFails, FaultKinds
  <2>2. job' \in [Collectors -> JobState]
    BY <1>2, <1>4, Moves
  <2> QED BY <2>1, <2>2, <1>2 DEF TypeOK, SourceFails, tables, clearing
<1> QED BY <1>2, <1>3, <1>4, <1>5, JobMoves

LEMMA InvFinish ==
    ASSUME OneCollector, StatsInv, NEW c \in Collectors, Finish(c)
    PROVE  StatsInv'
<1>1. TypeOK /\ DataInv
  BY DEF StatsInv
<1>2. DataInv'
  BY <1>1, StayingKeepsData DEF Finish, tables
<1>3. TypeOK'
  <2>1. job' \in [Collectors -> JobState]
    BY <1>1, IdleJobType, Moves DEF Finish
  <2> QED BY <2>1, <1>1 DEF TypeOK, Finish, bounds, tables, clearing
<1> QED BY <1>1, <1>2, <1>3, IdleJobType, IdleJobInv, JobMoves DEF Finish

LEMMA InvCrash ==
    ASSUME OneCollector, StatsInv, NEW c \in Collectors, Crash(c)
    PROVE  StatsInv'
<1>1. TypeOK /\ DataInv /\ Move(c, IdleJob)
  BY DEF StatsInv, Crash, Move
<1>2. DataInv'
  BY <1>1, StayingKeepsData DEF Crash, tables
<1>3. TypeOK'
  <2>1. faultsLeft' \in Nat
    BY <1>1, FaultsAreCounted DEF Crash, FaultKinds
  <2>2. deleting' \in [Collectors -> SUBSET Tables] /\ orphans' \in [Collectors -> SUBSET Tables]
    BY <1>1 DEF TypeOK, Crash
  <2>3. job' \in [Collectors -> JobState]
    BY <1>1, IdleJobType, Moves
  <2> QED BY <2>1, <2>2, <2>3, <1>1 DEF TypeOK, Crash, tables
<1> QED BY <1>1, <1>2, <1>3, IdleJobType, IdleJobInv, JobMoves

LEMMA InvStays ==
    ASSUME StatsInv, UNCHANGED <<rows, repeated, skipped, deleting, job>>, TypeOK'
    PROVE  StatsInv'
<1>1. DataInv'
  BY StayingKeepsData DEF StatsInv
<1>2. ASSUME NEW d \in Collectors PROVE ClearInv(d)' /\ JobInv(job[d])'
  BY DEF StatsInv, ClearInv, JobInv, LoopInv, AheadInv, FoundInv, DatedInv, InLoop, Untouched,
         Covered, HasRow
<1> QED BY <1>1, <1>2 DEF StatsInv

LEMMA InvSaveSpends ==
    ASSUME OneCollector, SlipsAreApart, StatsInv, NEW c \in Collectors, SaveSpends(c)
    PROVE  StatsInv'
<1>1. PICK j \in JobState : j = job[c] /\ j.pc = "day"
  BY JobTypes DEF StatsInv, SaveSpends
<1>2. TypeOK /\ DataInv /\ JobInv(j) /\ InLoop(j)
  BY <1>1 DEF StatsInv, InLoop
<1>3. PICK b \in FoundBlocks(j.target, j.last, now) :
         /\ Insert("spends", j.src, j.target, b)
         /\ Move(c, [j EXCEPT !.pc = "incomes", !.found = b])
  BY <1>1 DEF SaveSpends, DayBlocks
<1>4. /\ b \in Nat /\ j.last <= b /\ j.target <= b + EarlySlip /\ b <= j.target + LateSlip
  BY <1>2, FoundInSlip DEF JobInv
<1>5. j.src \in Sources /\ j.target \in Nat /\ skipped' = skipped
  BY <1>2, JobNumbers DEF JobInv, LoopInv, SaveSpends
<1>6. DataInv'
  BY <1>2, <1>3, <1>4, <1>5, InsertKeepsData DEF Tables
<1>7. /\ rows' \in [Tables -> [Sources -> SUBSET Row]]
      /\ repeated' \in [Tables -> [Sources -> SUBSET Nat]]
      /\ rows'["spends"][j.src] = rows["spends"][j.src] \cup {[date |-> j.target, block |-> b]}
      /\ \A u \in Tables, p \in Sources :
            u # "spends" \/ p # j.src => rows'[u][p] = rows[u][p]
  BY <1>2, <1>3, <1>4, <1>5, InsertEffects DEF Tables
<1>8. PICK k \in JobState :
         /\ k = [j EXCEPT !.pc = "incomes", !.found = b]
         /\ k.pc = "incomes" /\ k.found = b /\ k.src = j.src /\ k.date = j.date
         /\ k.target = j.target /\ k.last = j.last
  <2> DEFINE k == [j EXCEPT !.pc = "incomes", !.found = b]
  <2>1. "incomes" \in Phases
    BY DEF Phases
  <2>2. k \in JobState /\ k.pc = "incomes" /\ k.found = b /\ k.src = j.src /\ k.date = j.date
        /\ k.target = j.target /\ k.last = j.last
    BY <2>1, <1>4 DEF JobState, Block
  <2>3. k = [j EXCEPT !.pc = "incomes", !.found = b]
    OBVIOUS
  <2> HIDE DEF k
  <2> QED BY <2>2, <2>3
<1>9. LoopInv(k)'
  <2>1. \A u \in Tables, d \in Nat : Covered(u, j.src, d) => Covered(u, j.src, d)'
    BY <1>5, <1>7 DEF Covered, HasRow
  <2>2. ASSUME NEW t \in Tables, NEW r \in rows'[t][j.src],
               NEW d \in r.date .. j.target - 1, IsMidnight(d)
        PROVE  Covered(t, j.src, d)'
    <3>1. r.date \in Nat /\ d \in Nat /\ d < j.target
      <4>1. r.date \in Nat
        BY <1>5, <1>7 DEF Row
      <4> QED BY <4>1, <1>5
    <3>2. r \in rows[t][j.src]
      <4>1. r.date # j.target
        BY <3>1, <1>5, <2>2
      <4> QED BY <4>1, <1>5, <1>7
    <3> QED BY <3>1, <3>2, <2>1, <2>2, <1>2 DEF JobInv, LoopInv
  <2>3. ASSUME NEW t \in Tables, NEW q \in rows'[t][j.src],
               NEW d \in j.target + 1 .. q.date - 1, IsMidnight(d)
        PROVE  d \in skipped'[j.src]
    <3>1. q.date \in Nat
      BY <1>5, <1>7 DEF Row
    <3>2. q.date # j.target
      BY <3>1, <1>5
    <3>3. q \in rows[t][j.src]
      BY <3>2, <1>5, <1>7
    <3> QED BY <3>3, <2>3, <1>2, <1>5 DEF JobInv, LoopInv
  <2>4. /\ k.src \in Sources /\ IsMidnight(k.target) /\ k.last <= k.target + LateSlip
        /\ \A t \in Tables : \A r \in rows'[t][k.src] :
              \A d \in r.date .. k.target - 1 : IsMidnight(d) => Covered(t, j.src, d)'
        /\ \A t \in Tables : \A q \in rows'[t][k.src] :
              \A d \in k.target + 1 .. q.date - 1 : IsMidnight(d) => d \in skipped'[k.src]
    BY <2>2, <2>3, <1>2, <1>8 DEF JobInv, LoopInv
  <2>5. \A t \in Tables : \A d : Covered(t, j.src, d)' => Covered(t, k.src, d)'
    BY <1>8 DEF Covered, HasRow
  <2> QED BY <2>4, <2>5 DEF LoopInv
<1>10. AheadInv(k)'
  BY <1>2, <1>5, <1>7, <1>8 DEF JobInv, AheadInv, InLoop, Tables
<1>11. FoundInv(k)'
  <2>1. [date |-> k.target, block |-> k.found] \in rows'["spends"][k.src]
    BY <1>7, <1>8
  <2> QED BY <2>1, <1>4, <1>8 DEF FoundInv
<1>12. DatedInv(k)'
  <2> SUFFICES ASSUME j.date # NoDate, NEW p \in Sources, j.src < p
               PROVE  Untouched(p)'
    BY <1>8 DEF DatedInv, InLoop
  <2>1. Untouched(p) /\ p # j.src
    BY <1>2, JobNumbers DEF JobInv, DatedInv, Sources
  <2> QED BY <2>1, <1>7 DEF Untouched
<1>13. JobInv(k)'
  BY <1>9, <1>10, <1>11, <1>12 DEF JobInv
<1>14. TypeOK'
  <2>1. job' \in [Collectors -> JobState]
    BY <1>2, <1>3, <1>8, Moves
  <2> QED BY <2>1, <1>2, <1>7 DEF TypeOK, SaveSpends, bounds, clearing
<1> QED BY <1>2, <1>3, <1>6, <1>8, <1>13, <1>14, JobMoves

LEMMA InvSaveIncomes ==
    ASSUME OneCollector, SlipsAreApart, StatsInv, NEW c \in Collectors, SaveIncomes(c)
    PROVE  StatsInv'
<1>1. PICK j \in JobState : j = job[c] /\ j.pc = "incomes"
  BY JobTypes DEF StatsInv, SaveIncomes
<1>2. TypeOK /\ DataInv /\ JobInv(j) /\ InLoop(j)
  BY <1>1 DEF StatsInv, InLoop
<1>3. Insert("incomes", j.src, j.target, j.found) /\ Move(c, AfterDay(j, j.found))
  BY <1>1 DEF SaveIncomes
<1>4. /\ j.found \in Nat /\ j.target <= j.found + EarlySlip /\ j.found <= j.target + LateSlip
      /\ rows["spends"][j.src] # {} => [date |-> j.target, block |-> j.found] \in rows["spends"][j.src]
  BY <1>1, <1>2, JobNumbers DEF JobInv, FoundInv
<1>5. j.src \in Sources /\ j.target \in Nat /\ skipped' = skipped
  BY <1>2, JobNumbers DEF JobInv, LoopInv, SaveIncomes
<1>6. DataInv'
  BY <1>2, <1>3, <1>4, <1>5, InsertKeepsData DEF Tables
<1>7. /\ rows' \in [Tables -> [Sources -> SUBSET Row]]
      /\ repeated' \in [Tables -> [Sources -> SUBSET Nat]]
      /\ rows'["incomes"][j.src] = rows["incomes"][j.src] \cup {[date |-> j.target, block |-> j.found]}
      /\ \A u \in Tables, p \in Sources :
            u # "incomes" \/ p # j.src => rows'[u][p] = rows[u][p]
  BY <1>2, <1>3, <1>4, <1>5, InsertEffects DEF Tables
<1>8. AfterDay(j, j.found) \in JobState /\ AfterDay(j, j.found).pc # "clear"
  BY <1>4, AfterDayFields
<1>9. TypeOK'
  <2>1. job' \in [Collectors -> JobState]
    BY <1>2, <1>3, <1>8, Moves
  <2> QED BY <2>1, <1>2, <1>7 DEF TypeOK, SaveIncomes, bounds, clearing
<1>10. JobInv(AfterDay(j, j.found))'
  <2>1. j.found <= j.target + Day + LateSlip
    BY <1>4, <1>5, GridAssumption
  <2>2. \A t \in Tables, s \in Sources : s # j.src => rows'[t][s] = rows[t][s]
    BY <1>7
  <2>3. \A t \in Tables : \A r \in rows'[t][j.src] : r \in rows[t][j.src] \/ r.date = j.target
    BY <1>5, <1>7
  <2>4. \A t \in Tables : rows[t][j.src] \subseteq rows'[t][j.src]
    BY <1>5, <1>7
  <2>5. \A t \in Tables : \A r \in rows'[t][j.src] : Covered(t, j.src, j.target)'
    <3>1. Covered("incomes", j.src, j.target)'
      <4>1. PICK w : w = [date |-> j.target, block |-> j.found]
        OBVIOUS
      <4>2. w \in rows'["incomes"][j.src] /\ w.date = j.target
        BY <4>1, <1>7
      <4> QED BY <4>2 DEF Covered, HasRow
    <3>2. rows'["spends"][j.src] # {} => Covered("spends", j.src, j.target)'
      BY <1>4, <1>5, <1>7 DEF Covered, HasRow, Tables
    <3> QED BY <3>1, <3>2 DEF Tables
  <2> QED BY <2>1, <2>2, <2>3, <2>4, <2>5, <1>2, <1>4, <1>5, <1>9, NextDay DEF DataInv
<1> QED BY <1>2, <1>3, <1>6, <1>8, <1>9, <1>10, JobMoves

(* A day that is skipped.                                                  *)
LEMMA DayIsSkipped ==
    ASSUME SlipsAreApart, TypeOK, DataInv, NEW c \in Collectors,
           NEW j \in JobState, j = job[c], InLoop(j), JobInv(j),
           NEW last \in Nat, last <= j.target + Day + LateSlip, Skip(c), UNCHANGED tables, TypeOK'
    PROVE  DataInv' /\ JobInv(AfterDay(j, last))'
<1>1. j.src \in Sources
  BY DEF JobInv, LoopInv
<1>2. skipped' = [skipped EXCEPT ![j.src] = skipped[j.src] \cup {j.target}] /\ rows' = rows /\ repeated' = repeated
  BY DEF Skip, tables
<1>3. SkippedGrow /\ j.target \in skipped'[j.src]
  BY <1>1, <1>2 DEF TypeOK, SkippedGrow
<1>4. \A t \in Tables : Covered(t, j.src, j.target)'
  BY <1>3 DEF Covered
<1> QED BY <1>2, <1>3, <1>4, SkipKeepsData, NextDay DEF DataInv

LEMMA SkipType ==
    ASSUME TypeOK, NEW c \in Collectors, Skip(c)
    PROVE  skipped' \in [Sources -> SUBSET Nat]
<1>1. job[c].target \in Nat
  BY JobTypes, JobNumbers
<1> QED BY <1>1 DEF TypeOK, Skip

LEMMA InvDayFails ==
    ASSUME OneCollector, FallbackKeepsPace, SlipsAreApart, StatsInv, NEW c \in Collectors, DayFails(c)
    PROVE  StatsInv'
<1>1. PICK j \in JobState : j = job[c] /\ InLoop(j)
  BY JobTypes DEF StatsInv, DayFails, InLoop
<1>2. TypeOK /\ DataInv /\ JobInv(j)
  BY <1>1 DEF StatsInv
<1>3. PICK last \in Nat : last = SkipADay(j.last) /\ last <= j.target + Day + LateSlip
  <2>1. j.last \in Nat /\ j.target \in Nat /\ j.last <= j.target + LateSlip
    BY <1>1, <1>2, JobNumbers DEF JobInv, LoopInv
  <2> QED BY <2>1, GridAssumption DEF SkipADay, FallbackKeepsPace
<1>4. Skip(c) /\ Move(c, AfterDay(j, last))
  BY <1>1, <1>3 DEF DayFails
<1>5. AfterDay(j, last) \in JobState /\ AfterDay(j, last).pc # "clear"
  BY AfterDayFields
<1>6. TypeOK'
  <2>1. faultsLeft' \in Nat
    BY <1>2, FaultsAreCounted DEF DayFails, FaultKinds
  <2>2. job' \in [Collectors -> JobState] /\ skipped' \in [Sources -> SUBSET Nat]
    BY <1>2, <1>4, <1>5, Moves, SkipType
  <2> QED BY <2>1, <2>2, <1>2 DEF TypeOK, DayFails, tables, clearing
<1>7. DataInv' /\ JobInv(AfterDay(j, last))'
  BY <1>1, <1>2, <1>3, <1>4, <1>6, DayIsSkipped DEF DayFails
<1> QED BY <1>2, <1>4, <1>5, <1>6, <1>7, JobMoves

LEMMA InvReadReverts ==
    ASSUME OneCollector, FallbackKeepsPace, SlipsAreApart, StatsInv, NEW c \in Collectors, ReadReverts(c)
    PROVE  StatsInv'
<1>1. PICK j \in JobState : j = job[c] /\ InLoop(j)
  BY JobTypes DEF StatsInv, ReadReverts, InLoop
<1>2. TypeOK /\ DataInv /\ JobInv(j)
  BY <1>1 DEF StatsInv
<1>3. PICK last \in Nat : Move(c, AfterDay(j, last)) /\ last <= j.target + Day + LateSlip
  <2>1. PICK b \in FoundBlocks(j.target, j.last, now) :
           Move(c, AfterDay(j, b)) \/ Move(c, AfterDay(j, SkipADay(b)))
    BY <1>1 DEF ReadReverts, DayBlocks
  <2>2. b \in Nat /\ b <= j.target + LateSlip /\ j.target \in Nat
    BY <1>1, <1>2, FoundInSlip, JobNumbers DEF JobInv
  <2>3. SkipADay(b) \in Nat /\ SkipADay(b) <= j.target + Day + LateSlip /\ b <= j.target + Day + LateSlip
    BY <2>2, GridAssumption DEF SkipADay, FallbackKeepsPace
  <2> QED BY <2>1, <2>2, <2>3
<1>4. Skip(c)
  BY DEF ReadReverts
<1>5. AfterDay(j, last) \in JobState /\ AfterDay(j, last).pc # "clear"
  BY AfterDayFields
<1>6. TypeOK'
  <2>1. faultsLeft' \in Nat
    BY <1>2, FaultsAreCounted DEF ReadReverts, FaultKinds
  <2>2. job' \in [Collectors -> JobState] /\ skipped' \in [Sources -> SUBSET Nat]
    BY <1>2, <1>3, <1>4, <1>5, Moves, SkipType
  <2> QED BY <2>1, <2>2, <1>2 DEF TypeOK, ReadReverts, tables, clearing
<1>7. DataInv' /\ JobInv(AfterDay(j, last))'
  BY <1>1, <1>2, <1>3, <1>4, <1>6, DayIsSkipped DEF ReadReverts
<1> QED BY <1>2, <1>3, <1>5, <1>6, <1>7, JobMoves

LEMMA InvPriceFails ==
    ASSUME OneCollector, FallbackKeepsPace, SlipsAreApart, StatsInv, NEW c \in Collectors, PriceFails(c)
    PROVE  StatsInv'
<1>1. PICK j \in JobState : j = job[c] /\ InLoop(j)
  BY JobTypes DEF StatsInv, PriceFails, InLoop
<1>2. TypeOK /\ DataInv /\ JobInv(j)
  BY <1>1 DEF StatsInv
<1>3. faultsLeft' \in Nat
  BY <1>2, FaultsAreCounted DEF PriceFails, FaultKinds
<1>4. CASE Move(c, AfterSource(j)) /\ UNCHANGED skipped
  <2>1. AfterSource(j) \in JobState /\ AfterSource(j).pc # "clear"
    BY AfterSourceFields
  <2>2. JobInv(AfterSource(j))'
    BY <1>1, <1>2, LeaveSource DEF PriceFails, tables
  <2>3. DataInv'
    BY <1>2, <1>4, StayingKeepsData DEF PriceFails, tables
  <2>4. TypeOK'
    <3>1. job' \in [Collectors -> JobState]
      BY <1>2, <1>4, <2>1, Moves
    <3> QED BY <3>1, <1>2, <1>3, <1>4 DEF TypeOK, PriceFails, tables, clearing
  <2> QED BY <2>1, <2>2, <2>3, <2>4, <1>2, <1>4, JobMoves
<1>5. CASE Move(c, AfterDay(j, SkipADay(j.last))) /\ Skip(c)
  <2>1. PICK last \in Nat : last = SkipADay(j.last) /\ last <= j.target + Day + LateSlip
    <3>1. j.last \in Nat /\ j.target \in Nat /\ j.last <= j.target + LateSlip
      BY <1>1, <1>2, JobNumbers DEF JobInv, LoopInv
    <3> QED BY <3>1, GridAssumption DEF SkipADay, FallbackKeepsPace
  <2>2. AfterDay(j, last) \in JobState /\ AfterDay(j, last).pc # "clear"
    BY AfterDayFields
  <2>3. TypeOK'
    <3>1. job' \in [Collectors -> JobState] /\ skipped' \in [Sources -> SUBSET Nat]
      BY <1>2, <1>5, <2>1, <2>2, Moves, SkipType
    <3> QED BY <3>1, <1>2, <1>3 DEF TypeOK, PriceFails, tables, clearing
  <2>4. DataInv' /\ JobInv(AfterDay(j, last))'
    BY <1>1, <1>2, <1>5, <2>1, <2>3, DayIsSkipped DEF PriceFails
  <2> QED BY <2>1, <2>2, <2>3, <2>4, <1>2, <1>5, JobMoves
<1> QED BY <1>1, <1>4, <1>5 DEF PriceFails

-----------------------------------------------------------------------------
(***************************************************************************)
(* The invariant is inductive.                                             *)
(***************************************************************************)
LEMMA StatsInit ==
    ASSUME Init
    PROVE  StatsInv
<1>1. TypeOK
  <2>1. now \in Nat
    BY StatsAssumption DEF Init, Block
  <2>2. job \in [Collectors -> JobState]
    BY IdleJobType DEF Init
  <2> QED BY <2>1, <2>2, StatsAssumption DEF TypeOK, Init, Empty
<1>2. \A t \in Tables, s \in Sources : rows[t][s] = {} /\ repeated[t][s] = {}
  BY DEF Init, Empty
<1>3. DataInv
  BY <1>2 DEF DataInv, RowsInv, TablesInv, SpendsAhead, HasLast, Tables
<1>4. \A c \in Collectors : ClearInv(c) /\ JobInv(job[c])
  BY IdleJobType DEF Init, ClearInv, JobInv, LoopInv, AheadInv, FoundInv, DatedInv, InLoop
<1> QED BY <1>1, <1>3, <1>4 DEF StatsInv

LEMMA StatsStep ==
    ASSUME OneCollector, FallbackKeepsPace, SlipsAreApart, StatsInv, [Next]_vars
    PROVE  StatsInv'
<1>1. CASE Tick
  <2>1. TypeOK'
    BY <1>1 DEF StatsInv, TypeOK, Tick, tables, clearing
  <2> QED BY <2>1, <1>1, InvStays DEF Tick, tables, clearing
<1>2. CASE UNCHANGED vars
  <2>1. TypeOK'
    BY <1>2 DEF StatsInv, TypeOK, vars, bounds, tables, clearing
  <2> QED BY <2>1, <1>2, InvStays DEF vars, tables, clearing
<1>3. ASSUME NEW c \in Collectors,
             \/ Start(c) \/ StartClearing(c)
             \/ \E t \in Tables : Delete(c, t) \/ DeleteFails(c, t) \/ OrphanEnds(c, t)
      PROVE  StatsInv'
  BY <1>3, InvStart, InvStartClearing, InvDelete, InvDeleteFails, InvOrphanEnds
<1>4. ASSUME NEW c \in Collectors,
             BeginSource(c) \/ SourceFails(c) \/ Finish(c) \/ Crash(c)
      PROVE  StatsInv'
  BY <1>4, InvBeginSource, InvSourceFails, InvFinish, InvCrash
<1>5. ASSUME NEW c \in Collectors,
             SaveSpends(c) \/ SaveIncomes(c) \/ DayFails(c) \/ ReadReverts(c) \/ PriceFails(c)
      PROVE  StatsInv'
  BY <1>5, InvSaveSpends, InvSaveIncomes, InvDayFails, InvReadReverts, InvPriceFails
<1> QED BY <1>1, <1>2, <1>3, <1>4, <1>5 DEF Next

THEOREM StatsInvariance ==
    ASSUME OneCollector, FallbackKeepsPace, SlipsAreApart
    PROVE  Spec => []StatsInv
BY StatsInit, StatsStep, PTL DEF Spec

-----------------------------------------------------------------------------
(***************************************************************************)
(* Theorems.                                                               *)
(***************************************************************************)
(* NoHole, whatever fails, is deleted or crashes: between two rows of a     *)
(* source in a table every midnight has its row or was skipped.            *)
THEOREM TablesHaveNoHole ==
    ASSUME OneCollector, FallbackKeepsPace, SlipsAreApart
    PROVE  Spec => []NoHole
<1>1. ASSUME StatsInv PROVE NoHole
  <2> SUFFICES ASSUME NEW t \in Tables, NEW s \in Sources, NEW r \in rows[t][s], NEW q \in rows[t][s],
                      NEW d \in r.date .. q.date, IsMidnight(d)
               PROVE  Covered(t, s, d)
    BY DEF NoHole, Covered
  <2>1. r.date \in Nat /\ q.date \in Nat
    BY <1>1, RowNumbers DEF StatsInv
  <2>2. CASE d = q.date
    BY <2>2 DEF Covered, HasRow
  <2>3. CASE d # q.date
    <3>1. d \in r.date .. q.date - 1
      BY <2>1, <2>3
    <3> QED BY <3>1, <1>1 DEF StatsInv, DataInv, TablesInv
  <2> QED BY <2>2, <2>3
<1> QED BY <1>1, StatsInvariance, PTL

-----------------------------------------------------------------------------
(***************************************************************************)
(* Any number of collectors.  What they do to each other's days is not     *)
(* what the theorems above say, but the types do not depend on it, nor     *)
(* does the order of the two inserts of a day.                             *)
(***************************************************************************)
InItsPlace(c) == InLoop(job[c]) => job[c].src \in Sources
TypeInv == TypeOK /\ \A c \in Collectors : InItsPlace(c)

(* Where a step takes a job.                                               *)
GoesTo(c, r) == r \in JobState /\ (InLoop(r) => r.src \in Sources) /\ Move(c, r)

LEMMA GoesToFields ==
    ASSUME job \in [Collectors -> JobState], NEW c \in Collectors, NEW r, GoesTo(c, r)
    PROVE  /\ job' \in [Collectors -> JobState] /\ job'[c] = r
           /\ \A d \in Collectors : d # c => job'[d] = job[d]
BY DEF GoesTo, Move

LEMMA GoesToKeepsPlaces ==
    ASSUME TypeInv, NEW c \in Collectors, NEW r, GoesTo(c, r)
    PROVE  job' \in [Collectors -> JobState] /\ \A d \in Collectors : InItsPlace(d)'
<1>1. /\ job' \in [Collectors -> JobState] /\ job'[c] = r
      /\ \A d \in Collectors : d # c => job'[d] = job[d]
  BY GoesToFields DEF TypeInv, TypeOK
<1>2. ASSUME NEW d \in Collectors PROVE InItsPlace(d)'
  <2>1. CASE d = c
    BY <2>1, <1>1 DEF InItsPlace, InLoop, GoesTo
  <2>2. CASE d # c
    <3>1. job'[d] = job[d]
      BY <2>2, <1>1
    <3> QED BY <3>1 DEF InItsPlace, InLoop, TypeInv
  <2> QED BY <2>1, <2>2
<1> QED BY <1>1, <1>2

(* Outside of the day loop, and at the end of a day.                       *)
LEMMA GoesIdle ==
    ASSUME NEW c \in Collectors, Move(c, IdleJob)
    PROVE  GoesTo(c, IdleJob)
BY IdleJobType DEF GoesTo, InLoop

LEMMA GoesToNextSource ==
    ASSUME NEW c \in Collectors, NEW j \in JobState, Move(c, AfterSource(j))
    PROVE  GoesTo(c, AfterSource(j)) /\ AfterSource(j).pc = "source"
BY AfterSourceFields DEF GoesTo, InLoop

LEMMA GoesToNextDay ==
    ASSUME NEW c \in Collectors, NEW j \in JobState, j.src \in Sources, NEW last \in Nat,
           Move(c, AfterDay(j, last))
    PROVE  GoesTo(c, AfterDay(j, last)) /\ AfterDay(j, last).pc \in {"source", "day"}
BY AfterDayFields DEF GoesTo, InLoop

(* The blocks a search may return are numbers, and so are those a source   *)
(* may start from.                                                         *)
LEMMA BlockNumbers ==
    ASSUME TypeOK, NEW c \in Collectors
    PROVE  /\ \A b \in DayBlocks(c) : b \in Nat /\ SkipADay(b) \in Nat
           /\ SkipADay(job[c].last) \in Nat
           /\ \A s \in Sources : \A b \in StartBlocks(s, job[c].date) : b \in Nat
<1>1. /\ job[c].last \in Nat /\ now \in Nat /\ SkipADay(job[c].last) \in Nat
      /\ job[c].date \in Nat \cup {NoDate}
  BY JobTypes, JobNumbers DEF TypeOK
<1>2. \A b \in DayBlocks(c) : b \in Nat
  BY <1>1 DEF DayBlocks, FoundBlocks
<1>3. \A b \in Nat : SkipADay(b) \in Nat
  BY GridAssumption DEF SkipADay
<1>4. ASSUME NEW s \in Sources, NEW b \in StartBlocks(s, job[c].date) PROVE b \in Nat
  <2>1. CreationBlock[s] \in Nat
    BY StatsAssumption DEF Block
  <2>2. \A x \in FoundBlocks(job[c].date, 0, now) : x \in Nat
    BY <1>1 DEF FoundBlocks
  <2>3. \A t \in Tables : \A x \in LastBlocks(t, s) : x \in Nat
    BY RowNumbers DEF LastBlocks
  <2>4. \A x \in GoesOnFrom(s) : x \in Nat
    BY <2>1, <2>3 DEF GoesOnFrom, Tables
  <2> QED BY <2>1, <2>2, <2>4, <1>4 DEF StartBlocks
<1> QED BY <1>1, <1>2, <1>3, <1>4

-----------------------------------------------------------------------------
(***************************************************************************)
(* Steps that insert and delete nothing: a job goes somewhere that is not  *)
(* between its two inserts, and no TRUNCATE is sent.                       *)
(***************************************************************************)
Quiet(c) ==
    /\ UNCHANGED <<rows, repeated>>
    /\ \E r : GoesTo(c, r) /\ r.pc \notin {"clear", "incomes"}
    /\ clearsLeft' = clearsLeft /\ now' = now /\ faultsLeft' \in Nat
    /\ skipped' \in [Sources -> SUBSET Nat]
    /\ deleting' \in [Collectors -> SUBSET Tables] /\ orphans' \in [Collectors -> SUBSET Tables]
    /\ (\A d \in Collectors : deleting[d] = {} /\ orphans[d] = {}) =>
          \A d \in Collectors : deleting'[d] = {} /\ orphans'[d] = {}

LEMMA QuietSteps ==
    ASSUME TypeInv, NEW c \in Collectors,
           \/ Start(c) \/ BeginSource(c) \/ SourceFails(c) \/ Finish(c)
           \/ DayFails(c) \/ ReadReverts(c) \/ PriceFails(c)
    PROVE  Quiet(c)
<1>1. PICK j \in JobState : j = job[c]
  BY JobTypes DEF TypeInv
<1>2. /\ now' = now /\ clearsLeft' = clearsLeft /\ UNCHANGED <<rows, repeated, deleting, orphans>>
      /\ faultsLeft' \in Nat
  <2>1. NoFault \/ \E f \in FaultKinds : Fault(f)
    BY DEF Start, BeginSource, SourceFails, Finish, DayFails, ReadReverts, PriceFails,
       FaultKinds, bounds, NoFault
  <2>2. faultsLeft' \in Nat
    BY <2>1, FaultsAreCounted DEF TypeInv
  <2> QED BY <2>2 DEF Start, BeginSource, SourceFails, Finish, DayFails, ReadReverts, PriceFails,
       bounds, tables, clearing
<1>3. skipped' \in [Sources -> SUBSET Nat]
  <2>1. UNCHANGED skipped \/ Skip(c)
    BY DEF Start, BeginSource, SourceFails, Finish, DayFails, ReadReverts, PriceFails
  <2> QED BY <2>1, SkipType DEF TypeInv, TypeOK
<1>4. \E r : GoesTo(c, r) /\ r.pc \notin {"clear", "incomes"}
  <2>1. CASE Start(c)
    <3>1. [IdleJob EXCEPT !.pc = "source"] \in JobState /\ [IdleJob EXCEPT !.pc = "source"].pc = "source"
      BY DEF IdleJob, JobState, Phases, NoDate, Block
    <3> QED BY <2>1, <3>1 DEF Start, GoesTo, InLoop
  <2>2. CASE BeginSource(c)
    <3>1. j.src \in Sources
      BY <2>2, <1>1 DEF BeginSource, AtSource
    <3>2. PICK start \in StartBlocks(j.src, j.date) :
             \/ Move(c, [j EXCEPT !.pc = "day", !.last = start, !.target = FirstMidnightUTC(start),
                                  !.today = TodayMidnightUTC(now)])
             \/ Move(c, AfterSource(j))
      BY <2>2, <1>1 DEF BeginSource
    <3>3. start \in Nat /\ now \in Nat
      BY <3>1, <1>1, BlockNumbers DEF TypeInv, TypeOK
    <3>4. PICK first, today \in Nat : first = FirstMidnightUTC(start) /\ today = TodayMidnightUTC(now)
      BY <3>3, FirstMidnight, TodayMidnight
    <3>5. PICK r : r = [j EXCEPT !.pc = "day", !.last = start, !.target = first, !.today = today]
      OBVIOUS
    <3>6. r \in JobState /\ r.pc = "day" /\ r.src = j.src
      BY <3>3, <3>5 DEF JobState, Phases, Block
    <3> QED BY <3>1, <3>2, <3>4, <3>5, <3>6, GoesToNextSource DEF GoesTo
  <2>3. CASE SourceFails(c) \/ Finish(c)
    BY <2>3, <1>1, IdleJobType, GoesIdle, GoesToNextSource DEF SourceFails, Finish
  <2>4. CASE DayFails(c) \/ ReadReverts(c) \/ PriceFails(c)
    <3>1. j.src \in Sources
      BY <2>4, <1>1 DEF DayFails, ReadReverts, PriceFails, TypeInv, InItsPlace, InLoop
    <3>2. \/ \E last \in Nat : Move(c, AfterDay(j, last))
          \/ Move(c, AfterSource(j))
      BY <2>4, <1>1, BlockNumbers DEF DayFails, ReadReverts, PriceFails, TypeInv
    <3> QED BY <3>1, <3>2, GoesToNextDay, GoesToNextSource
  <2> QED BY <2>1, <2>2, <2>3, <2>4
<1> QED BY <1>2, <1>3, <1>4 DEF Quiet, TypeInv, TypeOK

LEMMA CrashIsQuiet ==
    ASSUME TypeInv, NEW c \in Collectors, Crash(c)
    PROVE  Quiet(c)
<1>1. /\ now' = now /\ clearsLeft' = clearsLeft /\ UNCHANGED <<rows, repeated, skipped>>
      /\ faultsLeft' \in Nat
  BY FaultsAreCounted DEF Crash, tables, TypeInv, FaultKinds
<1>2. GoesTo(c, IdleJob) /\ IdleJob.pc = "idle"
  BY IdleJobType, GoesIdle DEF Crash, Move
<1> QED BY <1>1, <1>2 DEF Quiet, Crash, TypeInv, TypeOK

LEMMA DeleteFailsType ==
    ASSUME TypeInv, NEW c \in Collectors, NEW t \in Tables, DeleteFails(c, t)
    PROVE  TypeInv' /\ t \in deleting[c]
<1>1. GoesTo(c, IdleJob)
  BY GoesIdle DEF DeleteFails
<1>2. /\ job' \in [Collectors -> JobState] /\ \A d \in Collectors : InItsPlace(d)'
  BY <1>1, GoesToKeepsPlaces
<1>3. faultsLeft' \in Nat
  BY FaultsAreCounted DEF DeleteFails, TypeInv, FaultKinds
<1>4. deleting' \in [Collectors -> SUBSET Tables] /\ orphans' \in [Collectors -> SUBSET Tables]
  BY DEF DeleteFails, TypeInv, TypeOK
<1> QED BY <1>2, <1>3, <1>4 DEF DeleteFails, TypeInv, TypeOK, tables

LEMMA TruncateType ==
    ASSUME TypeOK, NEW t \in Tables, Truncate(t)
    PROVE  rows' \in [Tables -> [Sources -> SUBSET Row]] /\ repeated' \in [Tables -> [Sources -> SUBSET Nat]]
BY DEF TypeOK, Truncate, Empty

LEMMA DeleteType ==
    ASSUME TypeInv, NEW c \in Collectors, NEW t \in Tables, Delete(c, t) \/ OrphanEnds(c, t)
    PROVE  TypeInv' /\ t \in deleting[c] \cup orphans[c]
<1>1. rows' \in [Tables -> [Sources -> SUBSET Row]] /\ repeated' \in [Tables -> [Sources -> SUBSET Nat]]
  BY TruncateType DEF Delete, OrphanEnds, TypeInv
<1>2. deleting' \in [Collectors -> SUBSET Tables] /\ orphans' \in [Collectors -> SUBSET Tables]
  BY DEF Delete, OrphanEnds, TypeInv, TypeOK
<1>3. job' \in [Collectors -> JobState] /\ \A d \in Collectors : InItsPlace(d)'
  <2>1. CASE OrphanEnds(c, t)
    BY <2>1 DEF OrphanEnds, TypeInv, TypeOK, InItsPlace, InLoop
  <2>2. CASE Delete(c, t)
    <3>1. PICK j \in JobState : j = job[c] /\ j.pc = "clear"
      BY <2>2, JobTypes DEF Delete, TypeInv
    <3>2. PICK r : r = [j EXCEPT !.pc = "source"]
      OBVIOUS
    <3>3. r \in JobState /\ r.pc = "source"
      BY <3>2 DEF JobState, Phases
    <3>4. Move(c, j) \/ Move(c, r)
      BY <2>2, <3>1, <3>2 DEF Delete
    <3>5. GoesTo(c, j) \/ GoesTo(c, r)
      BY <3>1, <3>3, <3>4 DEF GoesTo, InLoop
    <3> QED BY <3>5, GoesToKeepsPlaces
  <2> QED BY <2>1, <2>2
<1> QED BY <1>1, <1>2, <1>3 DEF Delete, OrphanEnds, TypeInv, TypeOK, bounds

LEMMA StartClearingType ==
    ASSUME TypeInv, NEW c \in Collectors, StartClearing(c)
    PROVE  TypeInv' /\ clearsLeft' < clearsLeft
<1>1. clearsLeft \in Nat /\ clearsLeft' \in Nat /\ clearsLeft' < clearsLeft
  BY DEF StartClearing, TypeInv, TypeOK
<1>2. PICK date \in StartDates \cup {NoDate} : Move(c, [IdleJob EXCEPT !.pc = "clear", !.date = date])
  BY DEF StartClearing
<1>3. date \in Nat \cup {NoDate}
  BY StatsAssumption
<1>4. PICK r : r = [IdleJob EXCEPT !.pc = "clear", !.date = date]
  OBVIOUS
<1>5. r \in JobState /\ r.pc = "clear"
  BY <1>3, <1>4 DEF IdleJob, JobState, Phases, Block
<1>6. GoesTo(c, r)
  BY <1>2, <1>4, <1>5 DEF GoesTo, InLoop
<1>7. job' \in [Collectors -> JobState] /\ \A d \in Collectors : InItsPlace(d)'
  BY <1>6, GoesToKeepsPlaces
<1>8. deleting' \in [Collectors -> SUBSET Tables]
  BY DEF StartClearing, TypeInv, TypeOK
<1> QED BY <1>1, <1>7, <1>8 DEF StartClearing, TypeInv, TypeOK, tables

(* The two inserts.                                                        *)
LEMMA SaveSpendsEffects ==
    ASSUME TypeInv, NEW c \in Collectors, SaveSpends(c)
    PROVE  /\ TypeInv'
           /\ UNCHANGED <<clearsLeft, deleting, orphans>>
           /\ \A s \in Sources : /\ rows["spends"][s] \subseteq rows'["spends"][s]
                                 /\ rows'["incomes"][s] = rows["incomes"][s]
           /\ job'[c].pc = "incomes"
           /\ [date |-> job'[c].target, block |-> job'[c].found] \in rows'["spends"][job'[c].src]
           /\ \A d \in Collectors : d # c => job'[d] = job[d]
<1>1. PICK j \in JobState : j = job[c] /\ j.pc = "day" /\ j.src \in Sources
  BY JobTypes DEF SaveSpends, TypeInv, InItsPlace, InLoop
<1>2. PICK b \in DayBlocks(c) :
         /\ Insert("spends", j.src, j.target, b)
         /\ Move(c, [j EXCEPT !.pc = "incomes", !.found = b])
  BY <1>1 DEF SaveSpends
<1>3. b \in Nat /\ j.target \in Nat
  BY <1>1, BlockNumbers, JobNumbers DEF TypeInv
<1>4. PICK r : r = [j EXCEPT !.pc = "incomes", !.found = b]
  OBVIOUS
<1>5. r \in JobState /\ r.pc = "incomes" /\ r.src = j.src /\ r.target = j.target /\ r.found = b
  BY <1>3, <1>4 DEF JobState, Phases, Block
<1>6. GoesTo(c, r)
  BY <1>1, <1>2, <1>4, <1>5 DEF GoesTo
<1>7. /\ job' \in [Collectors -> JobState] /\ \A d \in Collectors : InItsPlace(d)'
      /\ job'[c] = r /\ \A d \in Collectors : d # c => job'[d] = job[d]
  BY <1>6, GoesToKeepsPlaces, GoesToFields DEF TypeInv, TypeOK
<1>8. /\ rows' \in [Tables -> [Sources -> SUBSET Row]]
      /\ repeated' \in [Tables -> [Sources -> SUBSET Nat]]
      /\ rows'["spends"][j.src] = rows["spends"][j.src] \cup {[date |-> j.target, block |-> b]}
      /\ \A u \in Tables, p \in Sources : u # "spends" \/ p # j.src => rows'[u][p] = rows[u][p]
  BY <1>1, <1>2, <1>3, InsertEffects DEF TypeInv, Tables
<1>9. TypeInv'
  BY <1>7, <1>8 DEF SaveSpends, TypeInv, TypeOK, bounds, clearing
<1>10. \A s \in Sources : /\ rows["spends"][s] \subseteq rows'["spends"][s]
                          /\ rows'["incomes"][s] = rows["incomes"][s]
  BY <1>1, <1>8 DEF Tables
<1>11. [date |-> r.target, block |-> r.found] \in rows'["spends"][r.src]
  BY <1>5, <1>8
<1> QED BY <1>5, <1>7, <1>9, <1>10, <1>11 DEF SaveSpends, bounds, clearing

LEMMA SaveIncomesEffects ==
    ASSUME TypeInv, NEW c \in Collectors, SaveIncomes(c)
    PROVE  /\ TypeInv'
           /\ UNCHANGED <<clearsLeft, deleting, orphans>>
           /\ job[c].pc = "incomes" /\ job[c].src \in Sources
           /\ \A s \in Sources :
                 /\ rows'["spends"][s] = rows["spends"][s]
                 /\ \A q \in rows'["incomes"][s] :
                       \/ q \in rows["incomes"][s]
                       \/ s = job[c].src /\ q = [date |-> job[c].target, block |-> job[c].found]
           /\ job'[c].pc \in {"source", "day"}
           /\ \A d \in Collectors : d # c => job'[d] = job[d]
<1>1. PICK j \in JobState : j = job[c] /\ j.pc = "incomes" /\ j.src \in Sources
  BY JobTypes DEF SaveIncomes, TypeInv, InItsPlace, InLoop
<1>2. Insert("incomes", j.src, j.target, j.found) /\ Move(c, AfterDay(j, j.found))
  BY <1>1 DEF SaveIncomes
<1>3. j.found \in Nat /\ j.target \in Nat
  BY JobNumbers
<1>4. GoesTo(c, AfterDay(j, j.found)) /\ AfterDay(j, j.found).pc \in {"source", "day"}
  BY <1>1, <1>2, <1>3, GoesToNextDay
<1>5. /\ job' \in [Collectors -> JobState] /\ \A d \in Collectors : InItsPlace(d)'
      /\ job'[c] = AfterDay(j, j.found) /\ \A d \in Collectors : d # c => job'[d] = job[d]
  BY <1>4, GoesToKeepsPlaces, GoesToFields DEF TypeInv, TypeOK
<1>6. /\ rows' \in [Tables -> [Sources -> SUBSET Row]]
      /\ repeated' \in [Tables -> [Sources -> SUBSET Nat]]
      /\ rows'["incomes"][j.src] = rows["incomes"][j.src] \cup {[date |-> j.target, block |-> j.found]}
      /\ \A u \in Tables, p \in Sources : u # "incomes" \/ p # j.src => rows'[u][p] = rows[u][p]
  BY <1>1, <1>2, <1>3, InsertEffects DEF TypeInv, Tables
<1>7. TypeInv'
  BY <1>5, <1>6 DEF SaveIncomes, TypeInv, TypeOK, bounds, clearing
<1>8. \A s \in Sources :
         /\ rows'["spends"][s] = rows["spends"][s]
         /\ \A q \in rows'["incomes"][s] :
               \/ q \in rows["incomes"][s]
               \/ s = j.src /\ q = [date |-> j.target, block |-> j.found]
  BY <1>6 DEF Tables
<1> QED BY <1>1, <1>4, <1>5, <1>7, <1>8 DEF SaveIncomes, bounds, clearing

-----------------------------------------------------------------------------
(***************************************************************************)
(* What the read side takes for granted when it merges the two tables:     *)
(* until something is deleted, a row of incomes never comes before the row *)
(* of spends of its day and block.                                         *)
(***************************************************************************)
NothingDeleted == clearsLeft = MaxClears
IncomesHaveTheirSpends ==
    NothingDeleted => \A s \in Sources : rows["incomes"][s] \subseteq rows["spends"][s]

MatchInv ==
    /\ clearsLeft <= MaxClears
    /\ NothingDeleted =>
          /\ \A c \in Collectors : deleting[c] = {} /\ orphans[c] = {}
          /\ \A s \in Sources : rows["incomes"][s] \subseteq rows["spends"][s]
          /\ \A c \in Collectors : job[c].pc = "incomes" =>
                [date |-> job[c].target, block |-> job[c].found] \in rows["spends"][job[c].src]

LEMMA MatchInit == Init => TypeInv /\ MatchInv
<1> SUFFICES ASSUME Init PROVE TypeInv /\ MatchInv
  OBVIOUS
<1>1. TypeOK
  BY StatsInit DEF StatsInv
<1>2. \A c \in Collectors : job[c].pc = "idle" /\ deleting[c] = {} /\ orphans[c] = {}
  BY IdleJobType DEF Init
<1>3. \A s \in Sources : rows["incomes"][s] = {}
  BY DEF Init, Tables, Empty
<1>4. clearsLeft = MaxClears /\ MaxClears \in Nat
  BY StatsAssumption DEF Init
<1> QED BY <1>1, <1>2, <1>3, <1>4 DEF TypeInv, InItsPlace, InLoop, MatchInv

LEMMA QuietKeeps ==
    ASSUME TypeInv, MatchInv, NEW c \in Collectors, Quiet(c)
    PROVE  TypeInv' /\ MatchInv'
<1>1. PICK r : GoesTo(c, r) /\ r.pc \notin {"clear", "incomes"}
  BY DEF Quiet
<1>2. /\ job' \in [Collectors -> JobState] /\ \A d \in Collectors : InItsPlace(d)'
      /\ job'[c] = r /\ \A d \in Collectors : d # c => job'[d] = job[d]
  BY <1>1, GoesToKeepsPlaces, GoesToFields DEF TypeInv, TypeOK
<1>3. TypeInv'
  BY <1>2 DEF Quiet, TypeInv, TypeOK
<1>4. ASSUME NEW d \in Collectors, NothingDeleted, job'[d].pc = "incomes"
      PROVE  [date |-> job'[d].target, block |-> job'[d].found] \in rows'["spends"][job'[d].src]
  <2>1. d # c /\ job'[d] = job[d]
    BY <1>1, <1>2, <1>4
  <2> QED BY <2>1, <1>4 DEF MatchInv, Quiet
<1> QED BY <1>3, <1>4 DEF MatchInv, Quiet, NothingDeleted

LEMMA MatchStep == TypeInv /\ MatchInv /\ [Next]_vars => TypeInv' /\ MatchInv'
<1> SUFFICES ASSUME TypeInv, MatchInv, [Next]_vars PROVE TypeInv' /\ MatchInv'
  OBVIOUS
<1>1. CASE Tick \/ UNCHANGED vars
  <2>1. UNCHANGED <<job, rows, repeated, skipped, faultsLeft, clearsLeft, deleting, orphans>> /\ now' \in Nat
    BY <1>1 DEF Tick, vars, bounds, tables, clearing, TypeInv, TypeOK
  <2>2. TypeInv'
    BY <2>1 DEF TypeInv, TypeOK, InItsPlace, InLoop
  <2>3. MatchInv'
    BY <2>1 DEF MatchInv, NothingDeleted
  <2> QED BY <2>2, <2>3
<1>2. ASSUME NEW c \in Collectors,
             \/ Start(c) \/ BeginSource(c) \/ SourceFails(c) \/ Finish(c)
             \/ DayFails(c) \/ ReadReverts(c) \/ PriceFails(c) \/ Crash(c)
      PROVE  TypeInv' /\ MatchInv'
  BY <1>2, QuietSteps, CrashIsQuiet, QuietKeeps
<1>3. ASSUME NEW c \in Collectors, StartClearing(c) PROVE TypeInv' /\ MatchInv'
  <2>1. TypeInv' /\ clearsLeft' < clearsLeft /\ clearsLeft' \in Nat /\ clearsLeft \in Nat /\ MaxClears \in Nat
    BY <1>3, StartClearingType, StatsAssumption DEF TypeInv, TypeOK
  <2> QED BY <2>1 DEF MatchInv, NothingDeleted
<1>4. ASSUME NEW c \in Collectors, NEW t \in Tables, Delete(c, t) \/ DeleteFails(c, t) \/ OrphanEnds(c, t)
      PROVE  TypeInv' /\ MatchInv'
  <2>1. TypeInv' /\ t \in deleting[c] \cup orphans[c] /\ clearsLeft' = clearsLeft
    BY <1>4, DeleteType, DeleteFailsType DEF Delete, DeleteFails, OrphanEnds, bounds
  <2>2. ~NothingDeleted
    BY <2>1 DEF MatchInv
  <2> QED BY <2>1, <2>2 DEF MatchInv, NothingDeleted
<1>5. ASSUME NEW c \in Collectors, SaveSpends(c) PROVE TypeInv' /\ MatchInv'
  <2>1. ASSUME NEW d \in Collectors, NothingDeleted, job'[d].pc = "incomes"
        PROVE  [date |-> job'[d].target, block |-> job'[d].found] \in rows'["spends"][job'[d].src]
    <3>1. CASE d = c
      BY <3>1, <1>5, SaveSpendsEffects
    <3>2. CASE d # c
      <4>1. job'[d] = job[d]
        BY <3>2, <1>5, SaveSpendsEffects
      <4>2. job[d].src \in Sources
        BY <2>1, <4>1 DEF TypeInv, InItsPlace, InLoop
      <4> QED BY <2>1, <4>1, <4>2, <1>5, SaveSpendsEffects DEF MatchInv
    <3> QED BY <3>1, <3>2
  <2> QED BY <2>1, <1>5, SaveSpendsEffects DEF MatchInv, NothingDeleted
<1>6. ASSUME NEW c \in Collectors, SaveIncomes(c) PROVE TypeInv' /\ MatchInv'
  <2>1. ASSUME NEW d \in Collectors, NothingDeleted, job'[d].pc = "incomes"
        PROVE  [date |-> job'[d].target, block |-> job'[d].found] \in rows'["spends"][job'[d].src]
    <3>1. d # c /\ job'[d] = job[d]
      BY <2>1, <1>6, SaveIncomesEffects
    <3>2. job[d].src \in Sources
      BY <2>1, <3>1 DEF TypeInv, InItsPlace, InLoop
    <3> QED BY <2>1, <3>1, <3>2, <1>6, SaveIncomesEffects DEF MatchInv
  <2>2. ASSUME NEW s \in Sources, NothingDeleted PROVE rows'["incomes"][s] \subseteq rows'["spends"][s]
    BY <2>2, <1>6, SaveIncomesEffects DEF MatchInv
  <2> QED BY <2>1, <2>2, <1>6, SaveIncomesEffects DEF MatchInv, NothingDeleted
<1> QED BY <1>1, <1>2, <1>3, <1>4, <1>5, <1>6 DEF Next

(* The variables keep their types, whatever number of collectors works on  *)
(* the two tables.                                                         *)
THEOREM TypeCorrect == Spec => []TypeOK
<1>1. TypeInv => TypeOK
  BY DEF TypeInv
<1> QED BY <1>1, MatchInit, MatchStep, PTL DEF Spec

(* Spends are stored before incomes: however many collectors there are and *)
(* wherever they fail or crash, incomes without the spends of their day    *)
(* are seen only after a deletion.                                         *)
THEOREM SpendsComeFirst == Spec => []IncomesHaveTheirSpends
<1>1. MatchInv => IncomesHaveTheirSpends
  BY DEF MatchInv, IncomesHaveTheirSpends
<1> QED BY <1>1, MatchInit, MatchStep, PTL DEF Spec
-----------------------------------------------------------------------------
(***************************************************************************)
(* Incomes are stored once.  In the day loop no row of incomes has a block *)
(* beyond lastBlock, and one whose day is still to come has a block mined  *)
(* before that day.  It needs no bound on the slips of the search, nor on  *)
(* the pace of the fallback: only that the last row of spends is never     *)
(* behind that of incomes, wherever the collection breaks off.             *)
(***************************************************************************)
PastIncomes(j) ==
    InLoop(j) => \A q \in rows["incomes"][j.src] :
                    q.block <= j.last /\ (q.date < j.target \/ q.block < q.date)

FoundSpends(j) ==
    j.pc = "incomes" =>
        /\ j.last <= j.found
        /\ rows["spends"][j.src] # {} =>
              [date |-> j.target, block |-> j.found] \in rows["spends"][j.src]

JobOnce(j) == PastIncomes(j) /\ FoundSpends(j) /\ DatedInv(j)
TablesOnce == SpendsAhead /\ HasLast /\ IncomesAreNotRepeated
OnceInv == TablesOnce /\ \A c \in Collectors : ClearInv(c) /\ JobOnce(job[c])

LEMMA OnceInit == Init => OnceInv
<1> SUFFICES ASSUME Init PROVE OnceInv
  OBVIOUS
<1>1. \A t \in Tables, s \in Sources : rows[t][s] = {} /\ repeated[t][s] = {}
  BY DEF Init, Empty
<1>2. TablesOnce
  BY <1>1 DEF TablesOnce, SpendsAhead, HasLast, IncomesAreNotRepeated, Tables
<1>3. \A c \in Collectors : ClearInv(c) /\ JobOnce(job[c])
  BY IdleJobType DEF Init, ClearInv, JobOnce, PastIncomes, FoundSpends, DatedInv, InLoop
<1> QED BY <1>2, <1>3 DEF OnceInv

(* A step that leaves the tables to a job the invariant allows.            *)
LEMMA OnceMoves ==
    ASSUME OneCollector, TypeOK, NEW c \in Collectors, NEW r \in JobState, Move(c, r),
           TablesOnce', JobOnce(r)', r.pc # "clear" \/ ClearInv(c)'
    PROVE  OnceInv'
<1>1. job'[c] = r /\ \A d \in Collectors : d = c
  BY Moves
<1>2. ASSUME NEW d \in Collectors PROVE ClearInv(d)' /\ JobOnce(job[d])'
  <2>1. d = c
    BY <1>1
  <2>2. JobOnce(job[c])'
    BY <1>1 DEF JobOnce, PastIncomes, FoundSpends, DatedInv, InLoop
  <2>3. ClearInv(c)'
    BY <1>1 DEF ClearInv
  <2> QED BY <2>1, <2>2, <2>3
<1> QED BY <1>2 DEF OnceInv

LEMMA StayingKeepsOnce ==
    ASSUME TablesOnce, UNCHANGED <<rows, repeated>>
    PROVE  TablesOnce'
BY DEF TablesOnce, SpendsAhead, HasLast, IncomesAreNotRepeated, EarlyRows

LEMMA ShrinkKeepsOnce ==
    ASSUME TablesOnce, TablesShrink
    PROVE  TablesOnce'
<1>1. SpendsAhead'
  BY DEF TablesShrink, TablesOnce, SpendsAhead, Tables
<1>2. HasLast'
  BY DEF TablesShrink, TablesOnce, HasLast
<1>3. IncomesAreNotRepeated'
  <2> SUFFICES ASSUME NEW s \in Sources
               PROVE  repeated'["incomes"][s] \subseteq {r.date : r \in EarlyRows("incomes", s)'}
    BY DEF IncomesAreNotRepeated
  <2>1. \/ rows'["incomes"][s] = rows["incomes"][s] /\ repeated'["incomes"][s] = repeated["incomes"][s]
        \/ repeated'["incomes"][s] = {}
    BY DEF TablesShrink, Tables
  <2>2. repeated["incomes"][s] \subseteq {r.date : r \in EarlyRows("incomes", s)}
    BY DEF TablesOnce, IncomesAreNotRepeated
  <2>3. CASE rows'["incomes"][s] = rows["incomes"][s] /\ repeated'["incomes"][s] = repeated["incomes"][s]
    BY <2>2, <2>3 DEF EarlyRows
  <2> QED BY <2>1, <2>3
<1> QED BY <1>1, <1>2, <1>3 DEF TablesOnce

(* A job leaves the source, or goes on to the next day.                    *)
LEMMA IdleOnce == JobOnce(IdleJob)'
BY IdleJobType DEF JobOnce, PastIncomes, FoundSpends, DatedInv, InLoop

LEMMA LaterUntouched ==
    ASSUME NEW j \in JobState, j.pc = "source" \/ InLoop(j), DatedInv(j), j.date # NoDate,
           NEW p \in Sources, j.src < p,
           \A t \in Tables, s \in Sources : s # j.src => rows'[t][s] = rows[t][s]
    PROVE  Untouched(p)'
<1>1. p # j.src /\ j.src <= p
  BY JobNumbers DEF Sources
<1>2. Untouched(p)
  BY <1>1 DEF DatedInv, InLoop
<1> QED BY <1>1, <1>2 DEF Untouched

LEMMA NextSourceOnce ==
    ASSUME NEW j \in JobState, j.pc = "source" \/ InLoop(j), DatedInv(j),
           \A t \in Tables, s \in Sources : s # j.src => rows'[t][s] = rows[t][s]
    PROVE  JobOnce(AfterSource(j))' /\ AfterSource(j).pc # "clear" /\ AfterSource(j) \in JobState
<1>1. PICK k \in JobState : k = AfterSource(j)
  BY AfterSourceFields
<1>2. k.pc = "source" /\ k.date = j.date /\ k.src = j.src + 1
  BY <1>1, AfterSourceFields
<1>3. DatedInv(k)'
  <2> SUFFICES ASSUME j.date # NoDate, NEW p \in Sources, j.src + 1 <= p
               PROVE  Untouched(p)'
    BY <1>2 DEF DatedInv, InLoop
  <2>1. j.src < p
    BY JobNumbers DEF Sources
  <2> QED BY <2>1, LaterUntouched
<1> QED BY <1>1, <1>2, <1>3 DEF JobOnce, PastIncomes, FoundSpends, InLoop

LEMMA NextDayOnce ==
    ASSUME NEW j \in JobState, InLoop(j), DatedInv(j), NEW last \in Nat,
           \A t \in Tables, s \in Sources : s # j.src => rows'[t][s] = rows[t][s],
           \A q \in rows'["incomes"][j.src] :
               q.block <= last /\ (q.date < j.target + Day \/ q.block < q.date)
    PROVE  JobOnce(AfterDay(j, last))' /\ AfterDay(j, last).pc # "clear" /\ AfterDay(j, last) \in JobState
<1>1. PICK k \in JobState : k = AfterDay(j, last)
  BY AfterDayFields
<1>2. /\ k.date = j.date
      /\ \/ k.pc = "source" /\ k.src = j.src + 1
         \/ k.pc = "day" /\ k.src = j.src /\ k.last = last /\ k.target = j.target + Day
  BY <1>1, AfterDayFields
<1>3. ASSUME j.date # NoDate, NEW p \in Sources, j.src < p PROVE Untouched(p)'
  BY <1>3, LaterUntouched
<1>4. DatedInv(k)'
  <2>1. \A p \in Sources : (k.src = j.src + 1 /\ k.src <= p) \/ (k.src = j.src /\ k.src < p) => j.src < p
    BY JobNumbers DEF Sources
  <2> QED BY <2>1, <1>2, <1>3, SMTT(20) DEF DatedInv, InLoop
<1>5. PastIncomes(k)'
  BY <1>2 DEF PastIncomes, InLoop
<1>6. FoundSpends(k)'
  BY <1>2 DEF FoundSpends
<1> QED BY <1>1, <1>2, <1>4, <1>5, <1>6 DEF JobOnce

(* The jobs of a step: those that only leave, and those in the day loop.   *)
LEMMA OnceLeaves ==
    ASSUME OneCollector, TypeOK, OnceInv, NEW c \in Collectors, UNCHANGED <<rows, repeated>>,
           \/ Start(c) \/ SourceFails(c) \/ Finish(c) \/ Crash(c) \/ \E t \in Tables : DeleteFails(c, t)
    PROVE  OnceInv'
<1>1. TablesOnce'
  BY StayingKeepsOnce DEF OnceInv
<1>2. PICK j \in JobState : j = job[c]
  BY JobTypes
<1>3. DatedInv(j)
  BY <1>2 DEF OnceInv, JobOnce
<1>4. CASE Move(c, IdleJob)
  BY <1>1, <1>4, IdleJobType, IdleOnce, OnceMoves
<1>5. CASE Start(c)
  <2>1. PICK r : r = [IdleJob EXCEPT !.pc = "source"]
    OBVIOUS
  <2>2. r \in JobState /\ r.pc = "source" /\ r.date = NoDate
    BY <2>1 DEF IdleJob, JobState, Phases, Block, NoDate
  <2>3. JobOnce(r)'
    BY <2>2 DEF JobOnce, PastIncomes, FoundSpends, DatedInv, InLoop
  <2>4. Move(c, r)
    BY <1>5, <2>1 DEF Start
  <2> QED BY <1>1, <2>2, <2>3, <2>4, OnceMoves
<1>6. CASE SourceFails(c) /\ Move(c, AfterSource(j))
  <2>1. j.pc = "source"
    BY <1>6, <1>2 DEF SourceFails, AtSource
  <2>2. JobOnce(AfterSource(j))' /\ AfterSource(j).pc # "clear" /\ AfterSource(j) \in JobState
    BY <1>3, <2>1, NextSourceOnce
  <2> QED BY <1>1, <1>6, <2>2, OnceMoves
<1> QED BY <1>2, <1>4, <1>5, <1>6 DEF SourceFails, Finish, Crash, DeleteFails, Move

LEMMA OnceClears ==
    ASSUME OneCollector, TypeOK, OnceInv, NEW c \in Collectors, StartClearing(c)
    PROVE  OnceInv'
<1>1. PICK date \in StartDates \cup {NoDate} : Move(c, [IdleJob EXCEPT !.pc = "clear", !.date = date])
  BY DEF StartClearing
<1>2. PICK r : r = [IdleJob EXCEPT !.pc = "clear", !.date = date]
  OBVIOUS
<1>3. r \in JobState /\ r.pc = "clear"
  <2>1. date \in Nat \cup {NoDate}
    BY StatsAssumption
  <2> QED BY <2>1, <1>2 DEF IdleJob, JobState, Phases, Block
<1>4. TablesOnce'
  BY StayingKeepsOnce DEF OnceInv, StartClearing, tables
<1>5. ClearInv(c)'
  <2>1. deleting'[c] = Tables
    BY DEF StartClearing, TypeOK
  <2> QED BY <2>1 DEF ClearInv
<1>6. JobOnce(r)'
  BY <1>3 DEF JobOnce, PastIncomes, FoundSpends, DatedInv, InLoop
<1> QED BY <1>1, <1>2, <1>3, <1>4, <1>5, <1>6, OnceMoves

LEMMA OnceDeletes ==
    ASSUME OneCollector, TypeOK, OnceInv, NEW c \in Collectors, NEW t \in Tables, Delete(c, t)
    PROVE  OnceInv'
<1>1. PICK j \in JobState : j = job[c] /\ j.pc = "clear"
  BY JobTypes DEF Delete
<1>2. /\ TablesShrink /\ \A s \in Sources : rows'[t][s] = {}
      /\ ClearInv(c) /\ deleting'[c] = deleting[c] \ {t}
  BY TruncateShrinks DEF Delete, OnceInv, TypeOK
<1>3. TablesOnce'
  BY <1>2, ShrinkKeepsOnce DEF OnceInv
<1>4. \A u \in Tables \ (deleting[c] \ {t}) : \A s \in Sources : rows'[u][s] = {}
  BY <1>1, <1>2 DEF ClearInv, TablesShrink
<1>5. ClearInv(c)'
  BY <1>2, <1>4 DEF ClearInv
<1>6. PICK r : r = [j EXCEPT !.pc = "source"]
  OBVIOUS
<1>7. r \in JobState /\ r.pc = "source"
  BY <1>6 DEF JobState, Phases
<1>8. CASE deleting[c] = {t}
  <2>1. \A s \in Sources : Untouched(s)'
    BY <1>4, <1>8 DEF Untouched
  <2>2. JobOnce(r)'
    BY <1>7, <2>1 DEF JobOnce, PastIncomes, FoundSpends, DatedInv, InLoop
  <2>3. Move(c, r)
    BY <1>1, <1>6, <1>8 DEF Delete
  <2> QED BY <1>3, <1>5, <1>7, <2>2, <2>3, OnceMoves
<1>9. CASE deleting[c] # {t}
  <2>1. JobOnce(j)'
    BY <1>1 DEF JobOnce, PastIncomes, FoundSpends, DatedInv, InLoop
  <2>2. Move(c, j)
    BY <1>1, <1>9 DEF Delete
  <2> QED BY <1>3, <1>5, <2>1, <2>2, OnceMoves
<1> QED BY <1>8, <1>9

LEMMA OnceOrphans ==
    ASSUME TypeInv, OnceInv, NEW c \in Collectors, NEW t \in Tables, OrphanEnds(c, t)
    PROVE  OnceInv'
<1>0. TypeOK /\ \A d \in Collectors : InLoop(job[d]) => job[d].src \in Sources
  BY DEF TypeInv, InItsPlace
<1>1. TablesShrink /\ job' = job /\ deleting' = deleting
  BY <1>0, TruncateShrinks DEF OrphanEnds
<1>2. TablesOnce'
  BY <1>1, ShrinkKeepsOnce DEF OnceInv
<1>3. ASSUME NEW d \in Collectors PROVE ClearInv(d)' /\ JobOnce(job[d])'
  <2>1. PICK j \in JobState : j = job[d]
    BY <1>0, JobTypes
  <2>2. JobOnce(j) /\ (InLoop(j) => j.src \in Sources)
    BY <1>0, <2>1 DEF OnceInv
  <2>3. \A u \in Tables, s \in Sources : rows'[u][s] = rows[u][s] \/ rows'[u][s] = {}
    BY <1>1 DEF TablesShrink
  <2>4. PastIncomes(j)'
    BY <2>2, <2>3 DEF JobOnce, PastIncomes, Tables
  <2>5. FoundSpends(j)'
    BY <2>2, <2>3 DEF JobOnce, FoundSpends, Tables, InLoop
  <2>6. DatedInv(j)'
    BY <2>2, <2>3 DEF JobOnce, DatedInv, Untouched
  <2>7. JobOnce(job[d])'
    BY <2>1, <2>4, <2>5, <2>6, <1>1 DEF JobOnce, PastIncomes, FoundSpends, DatedInv, InLoop
  <2>8. ClearInv(d)'
    BY <1>1 DEF OnceInv, ClearInv, TablesShrink
  <2> QED BY <2>7, <2>8
<1> QED BY <1>2, <1>3 DEF OnceInv

(* The day loop begins beyond the last row of incomes.                     *)
LEMMA OnceBegins ==
    ASSUME OneCollector, TypeOK, OnceInv, NEW c \in Collectors, BeginSource(c)
    PROVE  OnceInv'
<1>1. PICK j \in JobState : j = job[c] /\ j.pc = "source" /\ j.src \in Sources
  BY JobTypes DEF BeginSource, AtSource
<1>2. JobOnce(j) /\ TablesOnce /\ UNCHANGED <<rows, repeated>>
  BY <1>1 DEF OnceInv, BeginSource, tables
<1>3. TablesOnce'
  BY <1>2, StayingKeepsOnce
<1>4. PICK start \in StartBlocks(j.src, j.date) :
         \/ Move(c, [j EXCEPT !.pc = "day", !.last = start, !.target = FirstMidnightUTC(start),
                              !.today = TodayMidnightUTC(now)])
         \/ Move(c, AfterSource(j))
  BY <1>1 DEF BeginSource
<1>5. /\ start \in Nat /\ now \in Nat
      /\ \A q \in rows["incomes"][j.src] : q.block <= start
  <2>1. start \in Nat /\ now \in Nat
    BY <1>1, <1>4, BlockNumbers DEF TypeOK
  <2>2. CASE j.date = NoDate
    <3>1. \/ Untouched(j.src)
          \/ \E t \in Tables : \E r \in rows[t][j.src] :
                  /\ \A p \in rows[t][j.src] : p.block <= start
                  /\ t = "incomes" \/ rows["incomes"][j.src] = {}
      BY <2>2, <1>1, <1>2, <1>4, GoesOnFromARow DEF StartBlocks, TablesOnce
    <3> QED BY <3>1, <2>1 DEF Untouched, Tables
  <2>3. CASE j.date # NoDate
    <3>1. Untouched(j.src)
      <4>1. j.src <= j.src
        BY JobNumbers
      <4> QED BY <4>1, <2>3, <1>1, <1>2 DEF JobOnce, DatedInv
    <3> QED BY <3>1, <2>1 DEF Untouched, Tables
  <2> QED BY <2>1, <2>2, <2>3
<1>6. CASE Move(c, AfterSource(j))
  <2>1. JobOnce(AfterSource(j))' /\ AfterSource(j).pc # "clear" /\ AfterSource(j) \in JobState
    BY <1>1, <1>2, NextSourceOnce DEF JobOnce
  <2> QED BY <1>3, <1>6, <2>1, OnceMoves
<1>7. CASE Move(c, [j EXCEPT !.pc = "day", !.last = start, !.target = FirstMidnightUTC(start),
                             !.today = TodayMidnightUTC(now)])
  <2>1. PICK target, today \in Nat : target = FirstMidnightUTC(start) /\ today = TodayMidnightUTC(now) /\ start < target
    BY <1>5, FirstMidnight, TodayMidnight
  <2>2. PICK k : k = [j EXCEPT !.pc = "day", !.last = start, !.target = target, !.today = today]
    OBVIOUS
  <2>3. /\ k \in JobState /\ k.pc = "day" /\ k.last = start /\ k.target = target
        /\ k.src = j.src /\ k.date = j.date
    BY <1>5, <2>2 DEF JobState, Phases, Block
  <2>4. ASSUME NEW q \in rows'["incomes"][j.src]
        PROVE  q.block <= start /\ (q.date < target \/ q.block < q.date)
    <3>1. q \in rows["incomes"][j.src] /\ q.date \in Nat /\ q.block \in Nat
      BY <2>4, <1>1, <1>2, RowNumbers DEF Tables
    <3> QED BY <3>1, <2>1, <1>5
  <2>5. PastIncomes(k)' /\ FoundSpends(k)'
    BY <2>3, <2>4 DEF PastIncomes, FoundSpends
  <2>6. DatedInv(k)'
    <3> SUFFICES ASSUME j.date # NoDate, NEW p \in Sources, j.src < p
                 PROVE  Untouched(p)'
      BY <2>3 DEF DatedInv, InLoop
    <3> QED BY <1>1, <1>2, LaterUntouched DEF JobOnce
  <2> QED BY <1>3, <1>7, <2>1, <2>2, <2>3, <2>5, <2>6, OnceMoves DEF JobOnce
<1> QED BY <1>4, <1>6, <1>7

(* A day that is skipped: lastBlock does not go back.                      *)
LEMMA OnceSkips ==
    ASSUME OneCollector, TypeInv, OnceInv, NEW c \in Collectors,
           DayFails(c) \/ ReadReverts(c) \/ PriceFails(c)
    PROVE  OnceInv'
<1>1. PICK j \in JobState : j = job[c] /\ InLoop(j) /\ j.src \in Sources
  BY JobTypes DEF DayFails, ReadReverts, PriceFails, TypeInv, InItsPlace, InLoop
<1>2. JobOnce(j) /\ TypeOK /\ UNCHANGED <<rows, repeated>>
  BY <1>1 DEF OnceInv, DayFails, ReadReverts, PriceFails, tables, TypeInv
<1>3. TablesOnce'
  BY <1>2, StayingKeepsOnce DEF OnceInv
<1>4. \A b \in Nat : b <= SkipADay(b) /\ SkipADay(b) \in Nat
  BY GridAssumption DEF SkipADay
<1>5. \A b \in DayBlocks(c) : b \in Nat /\ j.last <= b
  <2>1. j.last \in Nat /\ now \in Nat
    BY <1>2, JobNumbers DEF TypeOK
  <2> QED BY <2>1, <1>1 DEF DayBlocks, FoundBlocks
<1>6. \/ Move(c, AfterSource(j))
      \/ \E last \in Nat : j.last <= last /\ Move(c, AfterDay(j, last))
  <2>1. j.last \in Nat
    BY JobNumbers
  <2>2. \A b \in DayBlocks(c) : SkipADay(b) \in Nat /\ j.last <= SkipADay(b)
    BY <1>4, <1>5, <2>1
  <2> QED BY <1>1, <1>4, <1>5, <2>1, <2>2 DEF DayFails, ReadReverts, PriceFails
<1>7. CASE Move(c, AfterSource(j))
  <2>1. JobOnce(AfterSource(j))' /\ AfterSource(j).pc # "clear" /\ AfterSource(j) \in JobState
    BY <1>1, <1>2, NextSourceOnce DEF JobOnce
  <2> QED BY <1>2, <1>3, <1>7, <2>1, OnceMoves
<1>8. ASSUME NEW last \in Nat, j.last <= last, Move(c, AfterDay(j, last)) PROVE OnceInv'
  <2>1. ASSUME NEW q \in rows'["incomes"][j.src]
        PROVE  q.block <= last /\ (q.date < j.target + Day \/ q.block < q.date)
    <3>1. q \in rows["incomes"][j.src] /\ q.date \in Nat /\ q.block \in Nat
      BY <2>1, <1>1, <1>2, RowNumbers DEF Tables
    <3>2. q.block <= j.last /\ (q.date < j.target \/ q.block < q.date)
      BY <3>1, <1>1, <1>2 DEF JobOnce, PastIncomes
    <3>3. j.last \in Nat /\ j.target \in Nat /\ Day \in Nat
      BY JobNumbers, GridAssumption
    <3> QED BY <3>1, <3>2, <3>3, <1>8
  <2>2. JobOnce(AfterDay(j, last))' /\ AfterDay(j, last).pc # "clear" /\ AfterDay(j, last) \in JobState
    BY <2>1, <1>1, <1>2, NextDayOnce DEF JobOnce
  <2> QED BY <1>2, <1>3, <1>8, <2>2, OnceMoves
<1> QED BY <1>6, <1>7, <1>8
(* A row that is added leaves each table with a last one.                  *)
LEMMA LastOfMore ==
    ASSUME TypeOK, HasLast, NEW t \in Tables, NEW s \in Sources, NEW w, w.block \in Nat,
           rows'[t][s] = rows[t][s] \cup {w},
           \A u \in Tables, p \in Sources : u # t \/ p # s => rows'[u][p] = rows[u][p]
    PROVE  HasLast'
<1>1. \E r \in rows'[t][s] : \A p \in rows'[t][s] : p.block <= r.block
  <2>1. \A p \in rows[t][s] : p.block \in Nat
    BY RowNumbers
  <2>2. CASE \A p \in rows[t][s] : p.block <= w.block
    BY <2>2
  <2>3. CASE \E p \in rows[t][s] : ~(p.block <= w.block)
    <3>1. PICK q \in rows[t][s] : ~(q.block <= w.block)
      BY <2>3
    <3>2. PICK r \in rows[t][s] : \A p \in rows[t][s] : p.block <= r.block
      BY <3>1 DEF HasLast
    <3>3. w.block <= r.block
      BY <2>1, <3>1, <3>2
    <3> QED BY <3>2, <3>3
  <2> QED BY <2>2, <2>3
<1>2. ASSUME NEW u \in Tables, NEW p \in Sources, u # t \/ p # s, rows'[u][p] # {}
      PROVE  \E r \in rows'[u][p] : \A q \in rows'[u][p] : q.block <= r.block
  BY <1>2 DEF HasLast
<1> QED BY <1>1, <1>2 DEF HasLast

(* The block of a day is not behind lastBlock, so spends stay ahead.       *)
LEMMA OnceSpends ==
    ASSUME OneCollector, TypeInv, OnceInv, NEW c \in Collectors, SaveSpends(c)
    PROVE  OnceInv'
<1>1. PICK j \in JobState : j = job[c] /\ j.pc = "day" /\ j.src \in Sources
  BY JobTypes DEF SaveSpends, TypeInv, InItsPlace, InLoop
<1>2. JobOnce(j) /\ TypeOK /\ TablesOnce
  BY <1>1 DEF OnceInv, TypeInv
<1>3. PICK b \in DayBlocks(c) :
         /\ Insert("spends", j.src, j.target, b)
         /\ Move(c, [j EXCEPT !.pc = "incomes", !.found = b])
  BY <1>1 DEF SaveSpends
<1>4. b \in Nat /\ j.last <= b /\ j.target \in Nat
  <2>1. j.last \in Nat /\ now \in Nat /\ j.target \in Nat
    BY <1>2, JobNumbers DEF TypeOK
  <2>2. b \in FoundBlocks(j.target, j.last, now)
    BY <1>1, <1>3 DEF DayBlocks
  <2> QED BY <2>1, <2>2 DEF FoundBlocks
<1>5. PICK w \in Row : w = [date |-> j.target, block |-> b] /\ w.block = b /\ w.date = j.target
  <2>1. PICK w \in Row : w = [date |-> j.target, block |-> b]
    BY <1>4 DEF Row, Block
  <2>2. w.block = b /\ w.date = j.target
    BY <2>1
  <2> QED BY <2>1, <2>2
<1>6. /\ rows'["spends"][j.src] = rows["spends"][j.src] \cup {w}
      /\ \A u \in Tables, p \in Sources :
            u # "spends" \/ p # j.src => /\ rows'[u][p] = rows[u][p]
                                         /\ repeated'[u][p] = repeated[u][p]
  BY <1>1, <1>2, <1>3, <1>4, <1>5, InsertEffects DEF Tables
<1>7. \A p \in Sources : /\ rows'["incomes"][p] = rows["incomes"][p]
                         /\ repeated'["incomes"][p] = repeated["incomes"][p]
  BY <1>6 DEF Tables
<1>8. \A q \in rows["incomes"][j.src] :
         q.block <= j.last /\ (q.date < j.target \/ q.block < q.date)
  BY <1>1, <1>2 DEF JobOnce, PastIncomes, InLoop
<1>9. TablesOnce'
  <2>1. SpendsAhead'
    <3> SUFFICES ASSUME NEW s \in Sources, rows'["spends"][s] # {}, NEW q \in rows["incomes"][s]
                 PROVE  \E r \in rows'["spends"][s] : q.block <= r.block
      BY <1>7 DEF SpendsAhead
    <3>1. CASE s = j.src
      <4>1. q.block \in Nat /\ j.last \in Nat
        BY <1>2, RowNumbers, JobNumbers DEF Tables
      <4>2. q.block <= w.block
        BY <4>1, <3>1, <1>4, <1>5, <1>8
      <4> QED BY <4>2, <3>1, <1>6
    <3>2. CASE s # j.src
      BY <3>2, <1>2, <1>6 DEF TablesOnce, SpendsAhead, Tables
    <3> QED BY <3>1, <3>2
  <2>2. HasLast'
    BY <1>1, <1>2, <1>4, <1>5, <1>6, LastOfMore DEF TablesOnce, Tables
  <2>3. IncomesAreNotRepeated'
    BY <1>2, <1>7 DEF TablesOnce, IncomesAreNotRepeated, EarlyRows
  <2> QED BY <2>1, <2>2, <2>3 DEF TablesOnce
<1>10. PICK k : k = [j EXCEPT !.pc = "incomes", !.found = b]
  OBVIOUS
<1>11. /\ k \in JobState /\ k.pc = "incomes" /\ k.found = b /\ k.last = j.last
       /\ k.target = j.target /\ k.src = j.src /\ k.date = j.date
  BY <1>4, <1>10 DEF JobState, Phases, Block
<1>12. PastIncomes(k)'
  BY <1>1, <1>7, <1>8, <1>11 DEF PastIncomes, InLoop
<1>13. FoundSpends(k)'
  BY <1>4, <1>5, <1>6, <1>11 DEF FoundSpends
<1>14. DatedInv(k)'
  <2> SUFFICES ASSUME j.date # NoDate, NEW p \in Sources, j.src < p
               PROVE  Untouched(p)'
    BY <1>11 DEF DatedInv, InLoop
  <2>1. \A t \in Tables, s \in Sources : s # j.src => rows'[t][s] = rows[t][s]
    BY <1>6
  <2>2. InLoop(j) /\ DatedInv(j)
    BY <1>1, <1>2 DEF InLoop, JobOnce
  <2> QED BY <2>1, <2>2, LaterUntouched
<1> QED BY <1>2, <1>3, <1>9, <1>10, <1>11, <1>12, <1>13, <1>14, OnceMoves DEF JobOnce

(* A row of the day that is there already is one of a block found early.   *)
LEMMA OnceIncomes ==
    ASSUME OneCollector, TypeInv, OnceInv, NEW c \in Collectors, SaveIncomes(c)
    PROVE  OnceInv'
<1>1. PICK j \in JobState : j = job[c] /\ j.pc = "incomes" /\ j.src \in Sources
  BY JobTypes DEF SaveIncomes, TypeInv, InItsPlace, InLoop
<1>2. JobOnce(j) /\ TypeOK /\ TablesOnce /\ InLoop(j)
  BY <1>1 DEF OnceInv, TypeInv, InLoop
<1>3. Insert("incomes", j.src, j.target, j.found) /\ Move(c, AfterDay(j, j.found))
  BY <1>1 DEF SaveIncomes
<1>4. /\ j.found \in Nat /\ j.last \in Nat /\ j.target \in Nat /\ j.last <= j.found
      /\ rows["spends"][j.src] # {} => [date |-> j.target, block |-> j.found] \in rows["spends"][j.src]
  <2>1. j.found \in Nat /\ j.last \in Nat /\ j.target \in Nat
    BY JobNumbers
  <2>2. FoundSpends(j)
    BY <1>2 DEF JobOnce
  <2> QED BY <2>1, <2>2, <1>1 DEF FoundSpends
<1>5. PICK w \in Row : w = [date |-> j.target, block |-> j.found] /\ w.block = j.found /\ w.date = j.target
  <2>1. PICK w \in Row : w = [date |-> j.target, block |-> j.found]
    BY <1>4 DEF Row, Block
  <2>2. w.block = j.found /\ w.date = j.target
    BY <2>1
  <2> QED BY <2>1, <2>2
<1>6. /\ rows'["incomes"][j.src] = rows["incomes"][j.src] \cup {w}
      /\ repeated'["incomes"][j.src] \subseteq repeated["incomes"][j.src] \cup {j.target}
      /\ ~HasRow("incomes", j.src, j.target) => repeated'["incomes"][j.src] = repeated["incomes"][j.src]
      /\ \A u \in Tables, p \in Sources :
            u # "incomes" \/ p # j.src => /\ rows'[u][p] = rows[u][p]
                                          /\ repeated'[u][p] = repeated[u][p]
  BY <1>1, <1>2, <1>3, <1>4, <1>5, InsertEffects DEF Tables
<1>7. \A p \in Sources : rows'["spends"][p] = rows["spends"][p]
  BY <1>6 DEF Tables
<1>8. \A q \in rows["incomes"][j.src] :
         /\ q.block \in Nat /\ q.date \in Nat
         /\ q.block <= j.last /\ (q.date < j.target \/ q.block < q.date)
  BY <1>1, <1>2, RowNumbers DEF JobOnce, PastIncomes, Tables
<1>9. SpendsAhead'
  <2> SUFFICES ASSUME NEW s \in Sources, rows["spends"][s] # {}, NEW q \in rows'["incomes"][s]
               PROVE  \E r \in rows["spends"][s] : q.block <= r.block
    BY <1>7 DEF SpendsAhead
  <2>1. CASE s = j.src /\ q = w
    <3>1. w \in rows["spends"][s] /\ w.block <= w.block
      BY <2>1, <1>4, <1>5
    <3> QED BY <2>1, <3>1
  <2>2. CASE ~(s = j.src /\ q = w)
    <3>1. q \in rows["incomes"][s]
      BY <2>2, <1>6 DEF Tables
    <3> QED BY <3>1, <1>2 DEF TablesOnce, SpendsAhead
  <2> QED BY <2>1, <2>2
<1>10. HasLast'
  BY <1>1, <1>2, <1>4, <1>5, <1>6, LastOfMore DEF TablesOnce, Tables
<1>11. IncomesAreNotRepeated'
  <2> SUFFICES ASSUME NEW s \in Sources, NEW d \in repeated'["incomes"][s]
               PROVE  \E r \in rows'["incomes"][s] : r.block < r.date /\ d = r.date
    BY DEF IncomesAreNotRepeated, EarlyRows
  <2>1. rows["incomes"][s] \subseteq rows'["incomes"][s]
    BY <1>6 DEF Tables
  <2>2. CASE d \in repeated["incomes"][s]
    <3>1. \E r \in rows["incomes"][s] : r.block < r.date /\ d = r.date
      BY <2>2, <1>2 DEF TablesOnce, IncomesAreNotRepeated, EarlyRows
    <3> QED BY <2>1, <3>1
  <2>3. CASE d \notin repeated["incomes"][s]
    <3>1. s = j.src /\ d = j.target /\ HasRow("incomes", j.src, j.target)
      BY <2>3, <1>6 DEF Tables
    <3>2. PICK q \in rows["incomes"][s] : q.date = j.target
      BY <3>1 DEF HasRow
    <3>3. q.block < q.date
      BY <3>1, <3>2, <1>4, <1>8
    <3> QED BY <2>1, <3>1, <3>2, <3>3
  <2> QED BY <2>2, <2>3
<1>12. ASSUME NEW q \in rows'["incomes"][j.src]
       PROVE  q.block <= j.found /\ (q.date < j.target + Day \/ q.block < q.date)
  <2>1. Day \in Nat /\ Day > 0
    BY GridAssumption
  <2>2. CASE q = w
    BY <2>1, <2>2, <1>4, <1>5
  <2>3. CASE q \in rows["incomes"][j.src]
    BY <2>1, <2>3, <1>4, <1>8
  <2> QED BY <2>2, <2>3, <1>6, <1>12
<1>13. JobOnce(AfterDay(j, j.found))' /\ AfterDay(j, j.found).pc # "clear"
       /\ AfterDay(j, j.found) \in JobState
  <2>1. \A t \in Tables, s \in Sources : s # j.src => rows'[t][s] = rows[t][s]
    BY <1>6
  <2>2. DatedInv(j)
    BY <1>2 DEF JobOnce
  <2> QED BY <2>1, <2>2, <1>2, <1>4, <1>12, NextDayOnce
<1>14. TablesOnce'
  BY <1>9, <1>10, <1>11 DEF TablesOnce
<1> QED BY <1>2, <1>3, <1>13, <1>14, OnceMoves

LEMMA OnceStep == OneCollector /\ TypeInv /\ OnceInv /\ [Next]_vars => OnceInv'
<1> SUFFICES ASSUME OneCollector, TypeInv, OnceInv, [Next]_vars PROVE OnceInv'
  OBVIOUS
<1>0. TypeOK
  BY DEF TypeInv
<1>1. CASE Tick \/ UNCHANGED vars
  <2>1. rows' = rows /\ repeated' = repeated /\ job' = job /\ deleting' = deleting
    BY <1>1 DEF Tick, vars, tables, clearing
  <2> QED BY <2>1 DEF OnceInv, TablesOnce, SpendsAhead, HasLast, IncomesAreNotRepeated, EarlyRows,
                     ClearInv, JobOnce, PastIncomes, FoundSpends, DatedInv, InLoop, Untouched
<1>2. ASSUME NEW c \in Collectors,
             Start(c) \/ SourceFails(c) \/ Finish(c) \/ Crash(c) \/ \E t \in Tables : DeleteFails(c, t)
      PROVE  OnceInv'
  <2>1. UNCHANGED <<rows, repeated>>
    BY <1>2 DEF Start, SourceFails, Finish, Crash, DeleteFails, tables
  <2> QED BY <2>1, <1>0, <1>2, OnceLeaves
<1>3. ASSUME NEW c \in Collectors, StartClearing(c) PROVE OnceInv'
  BY <1>0, <1>3, OnceClears
<1>4. ASSUME NEW c \in Collectors, NEW t \in Tables, Delete(c, t) \/ OrphanEnds(c, t) PROVE OnceInv'
  BY <1>0, <1>4, OnceDeletes, OnceOrphans
<1>5. ASSUME NEW c \in Collectors, BeginSource(c) PROVE OnceInv'
  BY <1>0, <1>5, OnceBegins
<1>6. ASSUME NEW c \in Collectors, SaveSpends(c) \/ SaveIncomes(c) PROVE OnceInv'
  BY <1>6, OnceSpends, OnceIncomes
<1>7. ASSUME NEW c \in Collectors, DayFails(c) \/ ReadReverts(c) \/ PriceFails(c) PROVE OnceInv'
  BY <1>7, OnceSkips
<1> QED BY <1>1, <1>2, <1>3, <1>4, <1>5, <1>6, <1>7 DEF Next

(* One collector stores the incomes of a day a second time only where the  *)
(* search returned a block mined before the midnight of that day: crashes, *)
(* INSERTs and deletions that fail and days that are skipped alone never   *)
(* lead to it, whatever the slips of the search and the fallback.          *)
THEOREM IncomesOnce ==
    ASSUME OneCollector
    PROVE  Spec => []IncomesAreNotRepeated
<1>1. Init => TypeInv /\ MatchInv /\ OnceInv
  BY MatchInit, OnceInit
<1>2. TypeInv /\ MatchInv /\ OnceInv /\ [Next]_vars => TypeInv' /\ MatchInv' /\ OnceInv'
  BY MatchStep, OnceStep
<1>3. OnceInv => IncomesAreNotRepeated
  BY DEF OnceInv, TablesOnce
<1> QED BY <1>1, <1>2, <1>3, PTL DEF Spec
=============================================================================
