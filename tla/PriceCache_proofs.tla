--------------------------- MODULE PriceCache_proofs ---------------------------
(***************************************************************************)
(* Proofs about PriceCache, for any callers, days, windows and bounds: the *)
(* type invariant, that a day has one price, that an exact price is kept,  *)
(* and that lookups agree.                                                 *)
(*                                                                         *)
(* A caller stores a price for its day long after it saw that the day had  *)
(* none.  The invariant says what each caller still relies on; a caller    *)
(* that inserts beside it disturbs the day, so that only the caller's own  *)
(* steps remain.                                                           *)
(***************************************************************************)
EXTENDS PriceCache, TLAPS

(* Phases in which a lookup has seen that its day has no row.              *)
Unpriced == {"exact", "nearest", "earliest", "oldest"}
Holding == {"remember", "save"}

(* What a caller relies on: only lookups of a Looker look for a price; one *)
(* that was found is one; the days of a batch and the day of a lookup are  *)
(* without rows; a fresh price is the only one of its day, and a price     *)
(* read from the table stays there.                                        *)
CallInv(c) ==
    /\ call[c].reload => call[c].pc \in {"idle", "clear", "history", "batch"}
    /\ call[c].pc \in Holding => call[c].value \in Days
    /\ call[c].pc = "batch" => \A d \in call[c].batch \ disturbed : price[d] = {}
    /\ call[c].pc \in Unpriced /\ call[c].day \notin disturbed => price[call[c].day] = {}
    /\ call[c].pc \in Holding /\ call[c].fresh /\ call[c].day \notin disturbed =>
          price[call[c].day] \subseteq {call[c].value}
    /\ call[c].pc = "remember" /\ ~call[c].fresh => call[c].value \in price[call[c].day]
    /\ call[c].pc = "save" => call[c].fresh
    /\ call[c].pc # "idle" /\ ~call[c].reload => c \in Lookers

(* The cache is told before the table.                                     *)
BeingSaved(d) ==
    {call[c].value : c \in {c \in Callers : call[c].pc = "save" /\ call[c].day = d}}

(* What a lookup returned, and what the cache holds, is in the table or    *)
(* about to be.                                                            *)
AnswersAreKept ==
    \A d \in Days \ disturbed : quoted[d] \subseteq price[d] \cup BeingSaved(d)
CacheInv ==
    \A d \in Days \ disturbed :
        cache[d] # NoPrice => cache[d] \in price[d] \cup BeingSaved(d)

PriceInv ==
    /\ TypeOK
    /\ \A c \in Callers : CallInv(c)
    /\ CacheInv
    /\ OnePricePerDay
    /\ AnswersAreKept

-----------------------------------------------------------------------------
LEMMA DaysAreNumbers ==
    /\ \A d \in Days : d \in Nat /\ d # 0
    /\ NoPrice \notin Days /\ StartDay \in Days /\ 1 \in Days
BY PriceAssumption DEF Days, NoPrice

LEMMA IdleIsACall == IdleCall \in CallState
BY DaysAreNumbers DEF IdleCall, CallState, Phases

(***************************************************************************)
(* What the ways of moving a caller do to it.                              *)
(***************************************************************************)
Others(c) == \A o \in Callers \ {c} : call'[o] = call[o]

LEMMA Moves ==
    ASSUME TypeOK, NEW c \in Callers, NEW r \in CallState, Move(c, r)
    PROVE  call' \in [Callers -> CallState] /\ Others(c) /\ call'[c] = r
BY DEF TypeOK, Move, Others

LEMMA Goes ==
    ASSUME TypeOK, NEW c \in Callers, NEW pc \in Phases, Goto(c, pc)
    PROVE  /\ call' \in [Callers -> CallState] /\ Others(c)
           /\ call'[c].pc = pc /\ call'[c].day = call[c].day
           /\ call'[c].value = call[c].value /\ call'[c].fresh = call[c].fresh
           /\ call'[c].batch = call[c].batch /\ call'[c].reload = call[c].reload
<1> DEFINE r == [call[c] EXCEPT !.pc = pc]
<1>1. call[c] \in CallState
  BY DEF TypeOK
<1>2. r \in CallState
  BY <1>1 DEF CallState
<1>3. call' \in [Callers -> CallState] /\ Others(c) /\ call'[c] = r
  BY <1>2, Moves DEF Goto
<1> QED BY <1>1, <1>3 DEF CallState

LEMMA Finds ==
    ASSUME TypeOK, NEW c \in Callers, NEW v \in Days, NEW fresh \in BOOLEAN, Found(c, v, fresh)
    PROVE  /\ call' \in [Callers -> CallState] /\ Others(c)
           /\ call'[c].pc = "remember" /\ call'[c].day = call[c].day
           /\ call'[c].value = v /\ call'[c].fresh = fresh
           /\ call'[c].reload = call[c].reload
<1> DEFINE r == [call[c] EXCEPT !.pc = "remember", !.value = v, !.fresh = fresh]
<1>1. call[c] \in CallState
  BY DEF TypeOK
<1>2. r \in CallState
  BY <1>1 DEF CallState, Phases
<1>3. call' \in [Callers -> CallState] /\ Others(c) /\ call'[c] = r
  BY <1>2, Moves DEF Found
<1> QED BY <1>1, <1>3 DEF CallState

LEMMA Ends ==
    ASSUME TypeOK, NEW c \in Callers, Move(c, IdleCall)
    PROVE  /\ call' \in [Callers -> CallState] /\ Others(c)
           /\ call'[c] = IdleCall /\ CallInv(c)'
<1>1. call' \in [Callers -> CallState] /\ Others(c) /\ call'[c] = IdleCall
  BY IdleIsACall, Moves
<1> QED BY <1>1 DEF CallInv, IdleCall, Holding, Unpriced

(* Rows are only added, days are only disturbed, and whoever inserts beside *)
(* another caller disturbs the days it inserts for.                        *)
Grows(c) ==
    /\ disturbed \subseteq disturbed'
    /\ \A d \in Days : price[d] \subseteq price'[d]
    /\ OthersAtWork(c) => \A d \in Days \ disturbed' : price'[d] = price[d]

LEMMA InsertGrows ==
    ASSUME TypeOK, NEW c \in Callers, NEW days \in SUBSET Days, NEW value \in [Days -> Days],
           Insert(c, days, value)
    PROVE  /\ price' \in [Days -> SUBSET Days] /\ disturbed' \subseteq Days
           /\ Grows(c)
           /\ \A d \in days : price'[d] = price[d] \cup {value[d]}
           /\ \A d \in Days \ days : price'[d] = price[d]
<1>1. /\ price \in [Days -> SUBSET Days] /\ disturbed \subseteq Days
  BY DEF TypeOK
<1>2. /\ \A d \in days : price'[d] = price[d] \cup {value[d]}
      /\ \A d \in Days \ days : price'[d] = price[d]
      /\ price' \in [Days -> SUBSET Days]
  BY <1>1 DEF Insert
<1>3. /\ disturbed' \subseteq Days /\ disturbed \subseteq disturbed'
      /\ OthersAtWork(c) => days \subseteq disturbed'
  BY <1>1 DEF Insert, Disturb
<1> QED BY <1>2, <1>3 DEF Grows

LEMMA SavesNothing ==
    ASSUME TypeOK, NEW c \in Callers, InsertFails(c)
    PROVE  /\ UNCHANGED price /\ disturbed' \subseteq Days /\ Grows(c)
           /\ call[c].day \in disturbed' /\ faultsLeft' \in 0 .. MaxFaults
<1>1. faultsLeft \in 0 .. MaxFaults /\ MaxFaults \in Nat /\ disturbed \subseteq Days
  BY PriceAssumption DEF TypeOK
<1>2. call[c].day \in Days
  BY DEF TypeOK, CallState
<1> QED BY <1>1, <1>2 DEF InsertFails, Fault, Disturb, Grows

LEMMA FaultIsCounted ==
    ASSUME TypeOK, NEW f, Fault(f) PROVE faultsLeft' \in 0 .. MaxFaults
BY PriceAssumption DEF TypeOK, Fault

-----------------------------------------------------------------------------
(***************************************************************************)
(* What a step of a caller has to show, for the invariant to hold after    *)
(* it: the other callers and the cache follow.                             *)
(***************************************************************************)
LEMMA OthersKeep ==
    ASSUME PriceInv, NEW c \in Callers, Others(c), Grows(c)
    PROVE  \A o \in Callers \ {c} : CallInv(o)'
<1> SUFFICES ASSUME NEW o \in Callers \ {c} PROVE CallInv(o)'
  OBVIOUS
<1>1. CallInv(o) /\ call'[o] = call[o] /\ call[o] \in CallState
  BY DEF PriceInv, Others, TypeOK
<1>2. call[o].pc # "idle" => \A d \in Days \ disturbed' : price'[d] = price[d]
  BY DEF Grows, OthersAtWork
<1>3. call[o].day \in Days /\ call[o].batch \subseteq Days
  BY <1>1 DEF CallState
<1>4. \A d \in Days : d \notin disturbed' => d \notin disturbed
  BY DEF Grows
<1>5. \A d \in Days : price[d] \subseteq price'[d]
  BY DEF Grows
<1>6. CASE call[o].pc = "idle"
  BY <1>1, <1>6 DEF CallInv, Holding, Unpriced
<1>7. CASE call[o].pc # "idle"
  <2>1. call[o].reload => call[o].pc \in {"idle", "clear", "history", "batch"}
    BY <1>1 DEF CallInv
  <2>2. call[o].pc \in Holding => call[o].value \in Days
    BY <1>1 DEF CallInv
  <2>3. call[o].pc = "batch" => \A d \in call[o].batch \ disturbed' : price'[d] = {}
    BY <1>1, <1>2, <1>3, <1>4, <1>7 DEF CallInv
  <2>4. call[o].pc \in Unpriced /\ call[o].day \notin disturbed' => price'[call[o].day] = {}
    BY <1>1, <1>2, <1>3, <1>4, <1>7 DEF CallInv
  <2>5. call[o].pc \in Holding /\ call[o].fresh /\ call[o].day \notin disturbed' =>
           price'[call[o].day] \subseteq {call[o].value}
    BY <1>1, <1>2, <1>3, <1>4, <1>7 DEF CallInv
  <2>6. call[o].pc = "remember" /\ ~call[o].fresh => call[o].value \in price'[call[o].day]
    BY <1>1, <1>3, <1>5 DEF CallInv
  <2>7. /\ call[o].pc = "save" => call[o].fresh
        /\ ~call[o].reload => o \in Lookers
    BY <1>1, <1>7 DEF CallInv
  <2> QED BY <1>1, <2>1, <2>2, <2>3, <2>4, <2>5, <2>6, <2>7 DEF CallInv
<1> QED BY <1>6, <1>7

(* A price in the table or on its way there stays so, if the caller that   *)
(* leaves "save" has stored its own.                                       *)
LEMMA KeptStays ==
    ASSUME TypeOK, NEW c \in Callers, Others(c), Grows(c),
           call[c].pc = "save" /\ call[c].day \notin disturbed' =>
              call[c].value \in price'[call[c].day]
    PROVE  \A d \in Days \ disturbed' :
              price[d] \cup BeingSaved(d) \subseteq price'[d] \cup BeingSaved(d)'
<1> SUFFICES ASSUME NEW d \in Days \ disturbed', NEW v \in price[d] \cup BeingSaved(d)
             PROVE  v \in price'[d] \cup BeingSaved(d)'
  OBVIOUS
<1>1. CASE v \in price[d]
  BY <1>1 DEF Grows
<1>2. CASE v \in BeingSaved(d)
  <2>1. PICK o \in Callers : call[o].pc = "save" /\ call[o].day = d /\ v = call[o].value
    BY <1>2 DEF BeingSaved
  <2>2. CASE o = c
    BY <2>1, <2>2
  <2>3. CASE o # c
    BY <2>1, <2>3 DEF Others, BeingSaved
  <2> QED BY <2>2, <2>3
<1> QED BY <1>1, <1>2

LEMMA StepKeeps ==
    ASSUME PriceInv, TypeOK', NEW c \in Callers, Others(c), Grows(c), CallInv(c)',
           \A d \in Days \ disturbed' : price'[d] = price[d] \/ \E v : price'[d] \subseteq {v},
           call[c].pc = "save" /\ call[c].day \notin disturbed' =>
              call[c].value \in price'[call[c].day],
           \A d \in Days \ disturbed' :
              cache'[d] \in {NoPrice, cache[d]} \cup price'[d] \cup BeingSaved(d)',
           \A d \in Days \ disturbed' :
              quoted'[d] \subseteq quoted[d] \cup price'[d] \cup price[d]
                                   \cup BeingSaved(d) \cup BeingSaved(d)'
    PROVE  PriceInv'
<1>1. \A o \in Callers : CallInv(o)'
  BY OthersKeep
<1>2. \A d \in Days \ disturbed' :
         price[d] \cup BeingSaved(d) \subseteq price'[d] \cup BeingSaved(d)'
  BY KeptStays DEF PriceInv
<1>3. \A d \in Days \ disturbed' : d \in Days \ disturbed
  BY DEF Grows
<1>4. CacheInv'
  <2> SUFFICES ASSUME NEW d \in Days \ disturbed', cache'[d] # NoPrice
               PROVE  cache'[d] \in price'[d] \cup BeingSaved(d)'
    BY DEF CacheInv
  <2>1. cache[d] # NoPrice => cache[d] \in price[d] \cup BeingSaved(d)
    BY <1>3 DEF PriceInv, CacheInv
  <2> QED BY <1>2, <2>1
<1>5. OnePricePerDay'
  BY <1>3 DEF PriceInv, OnePricePerDay
<1>6. AnswersAreKept'
  <2> SUFFICES ASSUME NEW d \in Days \ disturbed'
               PROVE  quoted'[d] \subseteq price'[d] \cup BeingSaved(d)'
    BY DEF AnswersAreKept
  <2>1. quoted[d] \subseteq price[d] \cup BeingSaved(d)
    BY <1>3 DEF PriceInv, AnswersAreKept
  <2> QED BY <1>2, <2>1
<1> QED BY <1>1, <1>4, <1>5, <1>6 DEF PriceInv

(* A step that leaves the table, the cache and the answers alone.          *)
LEMMA QuietStepKeeps ==
    ASSUME PriceInv, NEW c \in Callers, call' \in [Callers -> CallState], Others(c), CallInv(c)',
           today' = today, faultsLeft' \in 0 .. MaxFaults, reloadsLeft' \in 0 .. MaxReloads,
           UNCHANGED <<price, redis, quoted, exact>>,
           disturbed \subseteq disturbed' /\ disturbed' \subseteq Days,
           call[c].pc = "save" => call[c].day \in disturbed'
    PROVE  PriceInv'
<1>1. TypeOK'
  BY DEF PriceInv, TypeOK, redis
<1>2. Grows(c)
  BY DEF Grows
<1> QED BY <1>1, <1>2, StepKeeps DEF redis

-----------------------------------------------------------------------------
(***************************************************************************)
(* The steps of a lookup.                                                  *)
(***************************************************************************)
LEMMA CallTypes ==
    ASSUME PriceInv, NEW c \in Callers
    PROVE  /\ TypeOK /\ CallInv(c) /\ call[c] \in CallState /\ call[c].day \in Days
           /\ today \in Days /\ faultsLeft \in 0 .. MaxFaults /\ reloadsLeft \in 0 .. MaxReloads
           /\ disturbed \subseteq Days
BY DEF PriceInv, TypeOK, CallState

LEMMA LookUpKeeps ==
    ASSUME PriceInv, NEW c \in Callers, LookUp(c) PROVE PriceInv'
<1>1. PICK d \in 1 .. today : Move(c, [IdleCall EXCEPT !.pc = "cache", !.day = d])
  BY DEF LookUp
<1> DEFINE r == [IdleCall EXCEPT !.pc = "cache", !.day = d]
<1>2. d \in Days
  BY CallTypes, PriceAssumption DEF Days
<1>3. r \in CallState
  BY <1>2, IdleIsACall DEF CallState, IdleCall, Phases
<1>4. call' \in [Callers -> CallState] /\ Others(c) /\ call'[c] = r
  BY <1>1, <1>3, CallTypes, Moves
<1>5. CallInv(c)'
  BY <1>4 DEF LookUp, CallInv, IdleCall, Holding, Unpriced
<1> QED BY <1>4, <1>5, CallTypes, QuietStepKeeps DEF LookUp, bounds, redis

LEMMA ReadCacheKeeps ==
    ASSUME PriceInv, NEW c \in Callers, ReadCache(c) PROVE PriceInv'
<1> DEFINE v == cache[call[c].day]
<1>1. call[c].pc = "cache" /\ UNCHANGED <<bounds, exact, price, redis, disturbed>>
  BY DEF ReadCache
<1>2. CASE v # NoPrice /\ Answer(c, v)
  <2>1. call' \in [Callers -> CallState] /\ Others(c) /\ CallInv(c)'
    BY <1>2, CallTypes, Ends DEF Answer
  <2>2. v \in Days /\ quoted \in [Days -> SUBSET Days] /\ call[c].day \in Days
    BY <1>2, CallTypes DEF TypeOK
  <2>3. quoted' = [quoted EXCEPT ![call[c].day] = @ \cup {v}]
    BY <1>2 DEF Answer
  <2>4. TypeOK'
    BY <1>1, <2>1, <2>2, <2>3, CallTypes DEF TypeOK, bounds, redis
  <2>5. Grows(c)
    BY <1>1 DEF Grows
  <2>6. \A d \in Days \ disturbed' : quoted'[d] \subseteq quoted[d] \cup price[d] \cup BeingSaved(d)
    BY <1>1, <1>2, <2>2, <2>3 DEF PriceInv, CacheInv
  <2> QED BY <1>1, <2>1, <2>4, <2>5, <2>6, StepKeeps DEF redis
<1>3. CASE v = NoPrice /\ Goto(c, "table") /\ UNCHANGED quoted
  <2>1. /\ call' \in [Callers -> CallState] /\ Others(c) /\ call'[c].pc = "table"
        /\ call'[c].reload = call[c].reload
    BY <1>3, CallTypes, Goes DEF Phases
  <2>2. CallInv(c)'
    BY <1>1, <2>1, CallTypes DEF CallInv, Holding, Unpriced
  <2> QED BY <1>1, <1>3, <2>1, <2>2, CallTypes, QuietStepKeeps DEF bounds, redis
<1> QED BY <1>2, <1>3 DEF ReadCache

(* Reading the table finds a price that stays there, or shows that there   *)
(* is none, or disturbs the day.                                           *)
LEMMA ReadTableKeeps ==
    ASSUME PriceInv, NEW c \in Callers, call[c].pc \in {"table", "again"},
           NEW next \in {"status", "exact", "earliest"}, ReadTable(c, next)
    PROVE  PriceInv'
<1>1. UNCHANGED <<today, reloadsLeft, exact, price, redis, quoted>>
  BY DEF ReadTable
<1>2. ~call[c].reload
  BY CallTypes DEF CallInv
<1>3. ASSUME NEW v \in price[call[c].day], Found(c, v, FALSE), UNCHANGED <<faultsLeft, disturbed>>
      PROVE  PriceInv'
  <2>1. v \in Days
    BY CallTypes DEF TypeOK
  <2>2. /\ call' \in [Callers -> CallState] /\ Others(c) /\ call'[c].pc = "remember"
        /\ call'[c].value = v /\ call'[c].fresh = FALSE /\ call'[c].day = call[c].day
        /\ call'[c].reload = call[c].reload
    BY <1>3, <2>1, CallTypes, Finds
  <2>3. CallInv(c)'
    BY <1>1, <1>2, <1>3, <2>1, <2>2, CallTypes DEF CallInv, Holding, Unpriced
  <2> QED BY <1>1, <1>3, <2>2, <2>3, CallTypes, QuietStepKeeps
<1>4. ASSUME Goto(c, next), faultsLeft' \in 0 .. MaxFaults,
             disturbed \subseteq disturbed' /\ disturbed' \subseteq Days,
             price[call[c].day] = {} \/ call[c].day \in disturbed'
      PROVE  PriceInv'
  <2>1. /\ call' \in [Callers -> CallState] /\ Others(c) /\ call'[c].pc = next
        /\ call'[c].day = call[c].day /\ call'[c].reload = call[c].reload
    BY <1>4, CallTypes, Goes DEF Phases
  <2>2. CallInv(c)'
    BY <1>1, <1>2, <1>4, <2>1, CallTypes DEF CallInv, Holding, Unpriced
  <2> QED BY <1>1, <1>4, <2>1, <2>2, CallTypes, QuietStepKeeps
<1>5. CASE price[call[c].day] # {} /\ NoFault /\ UNCHANGED disturbed
            /\ \E v \in price[call[c].day] : Found(c, v, FALSE)
  BY <1>3, <1>5 DEF NoFault
<1>6. CASE price[call[c].day] = {} /\ NoFault /\ Goto(c, next) /\ UNCHANGED disturbed
  BY <1>4, <1>6, CallTypes DEF NoFault
<1>7. CASE Fault("db") /\ Goto(c, next) /\ Disturb({call[c].day})
  <2>1. faultsLeft' \in 0 .. MaxFaults
    BY <1>7, CallTypes, FaultIsCounted
  <2> QED BY <1>4, <1>7, <2>1, CallTypes DEF Disturb
<1> QED BY <1>5, <1>6, <1>7 DEF ReadTable

LEMMA PreloadStatusKeeps ==
    ASSUME PriceInv, NEW c \in Callers, ReadPreloadStatus(c) \/ SetPreloadStatus(c)
    PROVE  PriceInv'
<1>1. PICK pc \in {"again", "history"} : Goto(c, pc)
  BY DEF ReadPreloadStatus, SetPreloadStatus
<1>2. /\ call' \in [Callers -> CallState] /\ Others(c) /\ call'[c].pc = pc
      /\ call'[c].reload = call[c].reload
  BY <1>1, CallTypes, Goes DEF Phases
<1>3. /\ call[c].pc \in {"status", "flag"} /\ UNCHANGED <<bounds, exact, price, cache, quoted, disturbed>>
      /\ preloaded' \in BOOLEAN
  BY CallTypes DEF ReadPreloadStatus, SetPreloadStatus, redis, TypeOK
<1>4. CallInv(c)'
  BY <1>2, <1>3, CallTypes DEF CallInv, Holding, Unpriced
<1>5. TypeOK' /\ Grows(c)
  BY <1>2, <1>3, CallTypes DEF TypeOK, bounds, Grows
<1> QED BY <1>2, <1>3, <1>4, <1>5, StepKeeps

-----------------------------------------------------------------------------
LEMMA FetchHistoryKeeps ==
    ASSUME PriceInv, NEW c \in Callers, FetchHistory(c) PROVE PriceInv'
<1>1. call[c].pc = "history" /\ UNCHANGED <<today, reloadsLeft, exact, price, redis, quoted, disturbed>>
  BY DEF FetchHistory
<1>2. ASSUME NEW days \in SUBSET Days, NoFault,
             Move(c, [call[c] EXCEPT !.pc = "batch", !.batch = {d \in days : price[d] = {}}])
      PROVE  PriceInv'
  <2> DEFINE r == [call[c] EXCEPT !.pc = "batch", !.batch = {d \in days : price[d] = {}}]
  <2>1. r \in CallState
    BY CallTypes DEF CallState, Phases
  <2>2. call' \in [Callers -> CallState] /\ Others(c) /\ call'[c] = r
    BY <1>2, <2>1, CallTypes, Moves
  <2>3. r.pc = "batch" /\ r.batch = {d \in days : price[d] = {}}
    BY CallTypes DEF CallState
  <2>4. CallInv(c)'
    BY <1>1, <2>2, <2>3, CallTypes DEF CallInv, Holding, Unpriced
  <2> QED BY <1>1, <1>2, <2>2, <2>4, CallTypes, QuietStepKeeps DEF NoFault
<1>3. ASSUME Fault("provider") \/ Fault("db"), Goto(c, AfterPreload(c)) PROVE PriceInv'
  <2>1. AfterPreload(c) \in {"idle", "flag"} /\ (call[c].reload => AfterPreload(c) = "idle")
    BY DEF AfterPreload
  <2>2. /\ call' \in [Callers -> CallState] /\ Others(c) /\ call'[c].pc = AfterPreload(c)
        /\ call'[c].reload = call[c].reload
    BY <1>3, <2>1, CallTypes, Goes DEF Phases
  <2>3. CallInv(c)'
    BY <1>1, <2>1, <2>2, CallTypes DEF CallInv, Holding, Unpriced
  <2>4. faultsLeft' \in 0 .. MaxFaults
    BY <1>3, CallTypes, FaultIsCounted
  <2> QED BY <1>1, <2>2, <2>3, <2>4, CallTypes, QuietStepKeeps
<1>4. Known \in SUBSET Days
  BY DEF Known
<1> QED BY <1>2, <1>3, <1>4 DEF FetchHistory

(* The days of a batch had no row when it was made, and have none now      *)
(* unless they are disturbed.                                              *)
LEMMA InsertBatchKeeps ==
    ASSUME PriceInv, NEW c \in Callers, InsertBatch(c) PROVE PriceInv'
<1>1. /\ call[c].pc = "batch" /\ UNCHANGED <<today, reloadsLeft, exact, redis, quoted>>
      /\ Move(c, [call[c] EXCEPT !.pc = AfterPreload(c), !.batch = {}])
  BY DEF InsertBatch
<1>2. faultsLeft' \in 0 .. MaxFaults
  BY CallTypes, FaultIsCounted DEF InsertBatch, NoFault
<1>3. PICK days \in SUBSET call[c].batch : Insert(c, days, OwnPrice)
  BY DEF InsertBatch
<1>4. TypeOK /\ days \in SUBSET Days /\ OwnPrice \in [Days -> Days]
  BY CallTypes DEF CallState, OwnPrice
<1>5. /\ price' \in [Days -> SUBSET Days] /\ disturbed' \subseteq Days /\ Grows(c)
      /\ \A d \in days : price'[d] = price[d] \cup {OwnPrice[d]}
      /\ \A d \in Days \ days : price'[d] = price[d]
  BY <1>3, <1>4, InsertGrows
<1>6. \A d \in days : d \notin disturbed' => price[d] = {}
  BY <1>1, <1>5, CallTypes DEF CallInv, Grows
<1> DEFINE r == [call[c] EXCEPT !.pc = AfterPreload(c), !.batch = {}]
<1>7. /\ r \in CallState /\ r.pc \in {"idle", "flag"} /\ r.reload = call[c].reload
      /\ r.reload => r.pc = "idle"
  BY CallTypes DEF CallState, Phases, AfterPreload
<1>8. call' \in [Callers -> CallState] /\ Others(c) /\ call'[c] = r
  BY <1>1, <1>7, CallTypes, Moves
<1>9. CallInv(c)'
  BY <1>1, <1>7, <1>8, CallTypes DEF CallInv, Holding, Unpriced
<1>10. TypeOK'
  BY <1>1, <1>2, <1>5, <1>8, CallTypes DEF TypeOK, redis
<1>11. \A d \in Days \ disturbed' : price'[d] = price[d] \/ \E v : price'[d] \subseteq {v}
  BY <1>5, <1>6
<1> QED BY <1>1, <1>5, <1>8, <1>9, <1>10, <1>11, StepKeeps DEF redis

-----------------------------------------------------------------------------
(* A lookup that found a price, and inserts it first or not: the price is  *)
(* the only one of its day, unless the day is disturbed.                   *)
LEMMA FreshKeeps ==
    ASSUME PriceInv, NEW c \in Callers, call[c].pc \in Unpriced, NEW v \in Days,
           Found(c, v, TRUE), UNCHANGED <<today, reloadsLeft, redis, quoted>>,
           exact' \in {exact, exact \cup {call[c].day}},
           faultsLeft' \in 0 .. MaxFaults,
           \/ UNCHANGED <<price, disturbed>>
           \/ InsertFails(c)
           \/ Insert(c, {call[c].day}, PriceOf(v))
    PROVE  PriceInv'
<1> DEFINE day == call[c].day
<1>1. price \in [Days -> SUBSET Days] /\ day \in Days /\ disturbed \subseteq Days
  BY CallTypes DEF TypeOK
<1>2. /\ price' \in [Days -> SUBSET Days] /\ disturbed' \subseteq Days /\ Grows(c)
      /\ \A d \in Days \ {day} : price'[d] = price[d]
      /\ price'[day] \in {price[day], price[day] \cup {v}}
  <2>1. CASE UNCHANGED <<price, disturbed>>
    BY <1>1, <2>1 DEF Grows
  <2>2. CASE InsertFails(c)
    BY <1>1, <2>2, CallTypes, SavesNothing
  <2>3. CASE Insert(c, {day}, PriceOf(v))
    <3>1. PriceOf(v) \in [Days -> Days] /\ PriceOf(v)[day] = v
      BY <1>1 DEF PriceOf
    <3>2. TypeOK /\ {day} \in SUBSET Days
      BY <1>1, CallTypes
    <3>3. /\ price' \in [Days -> SUBSET Days] /\ disturbed' \subseteq Days /\ Grows(c)
          /\ \A d \in {day} : price'[d] = price[d] \cup {PriceOf(v)[d]}
          /\ \A d \in Days \ {day} : price'[d] = price[d]
      BY <2>3, <3>1, <3>2, InsertGrows
    <3> QED BY <3>1, <3>3
  <2> QED BY <2>1, <2>2, <2>3
<1>3. day \notin disturbed' => price'[day] \subseteq {v}
  BY <1>2, CallTypes DEF CallInv, Grows
<1>4. ~call[c].reload
  BY CallTypes DEF CallInv, Unpriced
<1>5. /\ call' \in [Callers -> CallState] /\ Others(c) /\ call'[c].pc = "remember"
      /\ call'[c].day = day /\ call'[c].value = v /\ call'[c].fresh = TRUE
      /\ call'[c].reload = call[c].reload
  BY CallTypes, Finds
<1>6. CallInv(c)'
  BY <1>3, <1>4, <1>5, CallTypes DEF CallInv, Holding, Unpriced
<1>7. TypeOK'
  BY <1>2, <1>5, CallTypes DEF TypeOK, redis
<1>8. \A d \in Days \ disturbed' : price'[d] = price[d] \/ \E w : price'[d] \subseteq {w}
  BY <1>2, <1>3
<1>9. call[c].pc # "save"
  BY DEF Unpriced
<1> QED BY <1>2, <1>5, <1>6, <1>7, <1>8, <1>9, StepKeeps DEF redis

(* A lookup that goes on without a price, or gives up.                     *)
LEMMA WithoutPriceKeeps ==
    ASSUME PriceInv, NEW c \in Callers, call[c].pc \in Unpriced,
           Move(c, IdleCall) \/ (\E pc \in {"nearest", "oldest"} : Goto(c, pc)),
           UNCHANGED <<today, reloadsLeft, exact, price, redis, quoted>>,
           faultsLeft' \in 0 .. MaxFaults,
           disturbed \subseteq disturbed' /\ disturbed' \subseteq Days
    PROVE  PriceInv'
<1>1. CASE Move(c, IdleCall)
  <2>1. call' \in [Callers -> CallState] /\ Others(c) /\ CallInv(c)'
    BY <1>1, CallTypes, Ends
  <2> QED BY <2>1, CallTypes, QuietStepKeeps DEF Unpriced
<1>2. ASSUME NEW pc \in {"nearest", "oldest"}, Goto(c, pc) PROVE PriceInv'
  <2>1. /\ call' \in [Callers -> CallState] /\ Others(c) /\ call'[c].pc = pc
        /\ call'[c].day = call[c].day /\ call'[c].reload = call[c].reload
    BY <1>2, CallTypes, Goes DEF Phases
  <2>2. CallInv(c)'
    BY <2>1, CallTypes DEF CallInv, Holding, Unpriced
  <2> QED BY <2>1, <2>2, CallTypes, QuietStepKeeps DEF Unpriced
<1> QED BY <1>1, <1>2

LEMMA AskProviderKeeps ==
    ASSUME PriceInv, NEW c \in Callers, AskProvider(c) PROVE PriceInv'
<1> DEFINE d == call[c].day
<1>1. /\ call[c].pc \in Unpriced /\ d \in Days
      /\ UNCHANGED <<today, reloadsLeft, redis, quoted>>
  BY CallTypes DEF AskProvider, Unpriced
<1>2. faultsLeft' \in 0 .. MaxFaults
  BY CallTypes, FaultIsCounted DEF AskProvider, NoFault, InsertFails
<1>3. Insert(c, {d}, OwnPrice) => Insert(c, {d}, PriceOf(d))
  BY <1>1 DEF Insert, OwnPrice, PriceOf
<1>4. CASE /\ Insert(c, {d}, OwnPrice) \/ InsertFails(c)
           /\ Found(c, d, TRUE) /\ exact' = exact \cup {d}
  BY <1>1, <1>2, <1>3, <1>4, FreshKeeps
<1>5. CASE Goto(c, "nearest") /\ UNCHANGED <<price, exact, disturbed>>
  BY <1>1, <1>2, <1>5, CallTypes, WithoutPriceKeeps
<1> QED BY <1>4, <1>5 DEF AskProvider

LEMMA UseNearestKeeps ==
    ASSUME PriceInv, NEW c \in Callers, UseNearest(c) PROVE PriceInv'
<1>1. /\ call[c].pc \in Unpriced
      /\ UNCHANGED <<today, reloadsLeft, exact, price, redis, quoted, disturbed>>
  BY DEF UseNearest, Unpriced
<1>2. faultsLeft' \in 0 .. MaxFaults
  BY CallTypes, FaultIsCounted DEF UseNearest, NoFault
<1>3. ASSUME NEW e \in Nearest(call[c].day, Window), NEW v \in price[e], Found(c, v, TRUE)
      PROVE  PriceInv'
  <2>1. v \in Days
    BY CallTypes DEF TypeOK, Nearest, Stored
  <2> QED BY <1>1, <1>2, <1>3, <2>1, FreshKeeps
<1>4. CASE Move(c, IdleCall)
  BY <1>1, <1>2, <1>4, CallTypes, WithoutPriceKeeps
<1> QED BY <1>3, <1>4 DEF UseNearest

LEMMA UseEarliestKeeps ==
    ASSUME PriceInv, NEW c \in Callers, UseEarliest(c) PROVE PriceInv'
<1>1. /\ call[c].pc \in Unpriced /\ UNCHANGED <<today, reloadsLeft, exact, price, redis, quoted>>
      /\ disturbed \subseteq disturbed' /\ disturbed' \subseteq Days
  BY CallTypes DEF UseEarliest, Unpriced, Disturb
<1>2. faultsLeft' \in 0 .. MaxFaults
  BY CallTypes, FaultIsCounted DEF UseEarliest, NoFault
<1>3. ASSUME NEW e \in Stored, NEW v \in price[e], Found(c, v, TRUE), UNCHANGED disturbed
      PROVE  PriceInv'
  <2>1. v \in Days
    BY CallTypes DEF TypeOK, Stored
  <2> QED BY <1>1, <1>2, <1>3, <2>1, FreshKeeps
<1>4. CASE Goto(c, "oldest")
  BY <1>1, <1>2, <1>4, WithoutPriceKeeps
<1> QED BY <1>3, <1>4 DEF UseEarliest

LEMMA AskOldestKeeps ==
    ASSUME PriceInv, NEW c \in Callers, AskOldest(c) PROVE PriceInv'
<1>1. call[c].pc \in Unpriced /\ UNCHANGED <<today, reloadsLeft, exact, redis, quoted>>
  BY DEF AskOldest, Unpriced
<1>2. faultsLeft' \in 0 .. MaxFaults
  BY CallTypes, FaultIsCounted DEF AskOldest, NoFault, InsertFails
<1>3. ASSUME NEW v \in Known, Found(c, v, TRUE),
             InsertFails(c) \/ Insert(c, {call[c].day}, PriceOf(v))
      PROVE  PriceInv'
  BY <1>1, <1>2, <1>3, FreshKeeps DEF Known
<1>4. CASE Move(c, IdleCall) /\ UNCHANGED <<price, disturbed>>
  BY <1>1, <1>2, <1>4, CallTypes, WithoutPriceKeeps
<1> QED BY <1>3, <1>4 DEF AskOldest

-----------------------------------------------------------------------------
(* The cache gets a price that is in the table, or about to be saved.      *)
LEMMA RememberKeeps ==
    ASSUME PriceInv, NEW c \in Callers, Remember(c) PROVE PriceInv'
<1> DEFINE d == call[c].day
<1> DEFINE v == call[c].value
<1>1. /\ call[c].pc = "remember" /\ UNCHANGED <<bounds, exact, price, preloaded, disturbed>>
      /\ cache' = [cache EXCEPT ![d] = v]
  BY DEF Remember
<1>2. v \in Days /\ d \in Days /\ cache \in [Days -> Days \cup {NoPrice}] /\ ~call[c].reload
  BY <1>1, CallTypes DEF CallInv, Holding, TypeOK
<1>3. cache' \in [Days -> Days \cup {NoPrice}] /\ cache'[d] = v
      /\ \A e \in Days \ {d} : cache'[e] = cache[e]
  BY <1>1, <1>2
<1>4. Grows(c)
  BY <1>1 DEF Grows
<1>5. CASE call[c].fresh /\ Goto(c, "save") /\ UNCHANGED quoted
  <2>1. /\ call' \in [Callers -> CallState] /\ Others(c) /\ call'[c].pc = "save"
        /\ call'[c].day = d /\ call'[c].value = v /\ call'[c].fresh = call[c].fresh
        /\ call'[c].reload = call[c].reload
    BY <1>5, CallTypes, Goes DEF Phases
  <2>2. CallInv(c)'
    BY <1>1, <1>2, <1>5, <2>1, CallTypes DEF CallInv, Holding, Unpriced
  <2>3. TypeOK'
    BY <1>1, <1>3, <1>5, <2>1, CallTypes DEF TypeOK, bounds
  <2>4. v \in BeingSaved(d)'
    BY <2>1 DEF BeingSaved
  <2> QED BY <1>1, <1>3, <1>4, <1>5, <2>1, <2>2, <2>3, <2>4, StepKeeps
<1>6. CASE ~call[c].fresh /\ Answer(c, v)
  <2>1. call' \in [Callers -> CallState] /\ Others(c) /\ CallInv(c)'
    BY <1>6, CallTypes, Ends DEF Answer
  <2>2. v \in price[d]
    BY <1>1, <1>6, CallTypes DEF CallInv
  <2>3. quoted' = [quoted EXCEPT ![d] = @ \cup {v}] /\ quoted \in [Days -> SUBSET Days]
    BY <1>6, CallTypes DEF Answer, TypeOK
  <2>4. TypeOK'
    BY <1>1, <1>2, <1>3, <2>1, <2>3, CallTypes DEF TypeOK, bounds
  <2> QED BY <1>1, <1>2, <1>3, <1>4, <2>1, <2>2, <2>3, <2>4, StepKeeps
<1> QED BY <1>5, <1>6 DEF Remember

(* The price that was told the cache is the only one of its day, or joins  *)
(* one it has disturbed.                                                   *)
LEMMA SaveKeeps ==
    ASSUME PriceInv, NEW c \in Callers, Save(c) PROVE PriceInv'
<1> DEFINE d == call[c].day
<1> DEFINE v == call[c].value
<1>1. call[c].pc = "save" /\ Answer(c, v) /\ UNCHANGED <<today, reloadsLeft, exact, redis>>
  BY DEF Save
<1>2. v \in Days /\ d \in Days /\ price \in [Days -> SUBSET Days] /\ TypeOK
  BY <1>1, CallTypes DEF CallInv, Holding, TypeOK
<1>3. faultsLeft' \in 0 .. MaxFaults
  BY CallTypes, FaultIsCounted DEF Save, NoFault, InsertFails
<1>4. /\ price' \in [Days -> SUBSET Days] /\ disturbed' \subseteq Days /\ Grows(c)
      /\ \A e \in Days \ {d} : price'[e] = price[e]
      /\ price'[d] \subseteq price[d] \cup {v}
      /\ d \notin disturbed' => v \in price'[d]
  <2>1. CASE InsertFails(c)
    BY <1>2, <2>1, SavesNothing
  <2>2. CASE Insert(c, {d}, PriceOf(v))
    <3>1. PriceOf(v) \in [Days -> Days] /\ PriceOf(v)[d] = v
      BY <1>2 DEF PriceOf
    <3>2. {d} \in SUBSET Days
      BY <1>2
    <3>3. /\ price' \in [Days -> SUBSET Days] /\ disturbed' \subseteq Days /\ Grows(c)
          /\ \A e \in {d} : price'[e] = price[e] \cup {PriceOf(v)[e]}
          /\ \A e \in Days \ {d} : price'[e] = price[e]
      BY <1>2, <2>2, <3>1, <3>2, InsertGrows
    <3> QED BY <3>1, <3>3
  <2> QED BY <2>1, <2>2 DEF Save
<1>5. d \notin disturbed' => price'[d] \subseteq {v}
  BY <1>1, <1>4, CallTypes DEF CallInv, Holding, Grows
<1>6. call' \in [Callers -> CallState] /\ Others(c) /\ CallInv(c)'
  BY <1>1, <1>2, Ends DEF Answer
<1>7. quoted' = [quoted EXCEPT ![d] = @ \cup {v}] /\ quoted \in [Days -> SUBSET Days]
  BY <1>1, <1>2 DEF Answer, TypeOK
<1>8. TypeOK'
  BY <1>1, <1>2, <1>3, <1>4, <1>6, <1>7, CallTypes DEF TypeOK, redis
<1>9. \A e \in Days \ disturbed' : price'[e] = price[e] \/ \E w : price'[e] \subseteq {w}
  BY <1>4, <1>5
<1> QED BY <1>1, <1>2, <1>4, <1>6, <1>7, <1>8, <1>9, StepKeeps DEF redis

-----------------------------------------------------------------------------
(***************************************************************************)
(* The forced reload, crashes, and the steps of the environment.           *)
(***************************************************************************)
LEMMA StartReloadKeeps ==
    ASSUME PriceInv, NEW c \in Callers, StartReload(c) PROVE PriceInv'
<1> DEFINE r == [IdleCall EXCEPT !.pc = "clear", !.reload = TRUE]
<1>1. r \in CallState
  BY IdleIsACall DEF CallState, IdleCall, Phases
<1>2. call' \in [Callers -> CallState] /\ Others(c) /\ call'[c] = r
  BY <1>1, CallTypes, Moves DEF StartReload
<1>3. CallInv(c)'
  BY <1>2 DEF CallInv, IdleCall, Holding, Unpriced
<1>4. reloadsLeft' \in 0 .. MaxReloads
  BY CallTypes, PriceAssumption DEF StartReload
<1> QED BY <1>2, <1>3, <1>4, CallTypes, QuietStepKeeps DEF StartReload

LEMMA ClearCacheKeeps ==
    ASSUME PriceInv, NEW c \in Callers, ClearCache(c) PROVE PriceInv'
<1>1. call[c].pc = "clear" /\ UNCHANGED <<today, reloadsLeft, exact, price, quoted, disturbed>>
  BY DEF ClearCache
<1>2. faultsLeft' \in 0 .. MaxFaults
  BY CallTypes, FaultIsCounted DEF ClearCache, NoFault
<1>3. call' \in [Callers -> CallState] /\ Others(c) /\ CallInv(c)'
  <2>1. CASE Goto(c, "history")
    <3>1. /\ call' \in [Callers -> CallState] /\ Others(c) /\ call'[c].pc = "history"
          /\ call'[c].reload = call[c].reload
      BY <2>1, CallTypes, Goes DEF Phases
    <3> QED BY <1>1, <3>1, CallTypes DEF CallInv, Holding, Unpriced
  <2>2. CASE Move(c, IdleCall)
    BY <2>2, CallTypes, Ends
  <2> QED BY <2>1, <2>2 DEF ClearCache
<1>4. /\ \A d \in Days : cache'[d] \in {NoPrice, cache[d]}
      /\ cache' \in [Days -> Days \cup {NoPrice}] /\ preloaded' \in BOOLEAN
  BY CallTypes DEF ClearCache, redis, TypeOK
<1>5. TypeOK' /\ Grows(c)
  BY <1>1, <1>2, <1>3, <1>4, CallTypes DEF TypeOK, Grows
<1> QED BY <1>1, <1>3, <1>4, <1>5, StepKeeps

(* A lookup that dies disturbs its day; a reload leaves no promise behind. *)
LEMMA CrashKeeps ==
    ASSUME PriceInv, NEW c \in Callers, Crash(c) PROVE PriceInv'
<1>1. call' \in [Callers -> CallState] /\ Others(c) /\ CallInv(c)'
  BY CallTypes, Ends DEF Crash
<1>2. faultsLeft' \in 0 .. MaxFaults
  BY CallTypes, FaultIsCounted DEF Crash
<1>3. /\ disturbed \subseteq disturbed' /\ disturbed' \subseteq Days
      /\ call[c].pc = "save" => call[c].day \in disturbed'
  BY CallTypes DEF Crash, Disturb, CallInv
<1> QED BY <1>1, <1>2, <1>3, CallTypes, QuietStepKeeps DEF Crash

(* Keys that expire, the clock, and a flag set for another symbol touch    *)
(* neither the table nor a caller.                                         *)
LEMMA EnvironmentKeeps ==
    ASSUME PriceInv, Expire \/ SiblingPreloads \/ NextDay \/ UNCHANGED vars
    PROVE  PriceInv'
<1>1. /\ UNCHANGED <<price, call, quoted, exact, disturbed, faultsLeft, reloadsLeft>>
      /\ today' \in Days
  BY PriceAssumption DEF PriceInv, TypeOK, Expire, SiblingPreloads, NextDay, vars, bounds, Days
<1>2. /\ \A d \in Days : cache'[d] \in {NoPrice, cache[d]}
      /\ cache' \in [Days -> Days \cup {NoPrice}] /\ preloaded' \in BOOLEAN
  BY DEF PriceInv, TypeOK, Expire, SiblingPreloads, NextDay, vars, redis
<1>3. TypeOK'
  BY <1>1, <1>2 DEF PriceInv, TypeOK
<1>4. \A d \in Days : BeingSaved(d)' = BeingSaved(d)
  BY <1>1 DEF BeingSaved
<1>5. \A c \in Callers : CallInv(c)'
  BY <1>1 DEF PriceInv, CallInv
<1>6. CacheInv'
  BY <1>1, <1>2, <1>4 DEF PriceInv, CacheInv
<1>7. OnePricePerDay' /\ AnswersAreKept'
  BY <1>1, <1>4 DEF PriceInv, OnePricePerDay, AnswersAreKept
<1> QED BY <1>3, <1>5, <1>6, <1>7 DEF PriceInv

-----------------------------------------------------------------------------
LEMMA InitInv == Init => PriceInv
<1> SUFFICES ASSUME Init PROVE PriceInv
  OBVIOUS
<1>1. TypeOK
  <2>1. faultsLeft \in 0 .. MaxFaults /\ reloadsLeft \in 0 .. MaxReloads /\ today \in Days
    BY PriceAssumption, DaysAreNumbers DEF Init
  <2> QED BY <2>1, IdleIsACall DEF Init, TypeOK
<1>2. \A c \in Callers : CallInv(c)
  BY DEF Init, CallInv, IdleCall, Holding, Unpriced
<1>3. CacheInv /\ OnePricePerDay /\ AnswersAreKept
  BY DEF Init, CacheInv, OnePricePerDay, AnswersAreKept
<1> QED BY <1>1, <1>2, <1>3 DEF PriceInv

LEMMA NextInv == PriceInv /\ [Next]_vars => PriceInv'
<1> SUFFICES ASSUME PriceInv, [Next]_vars PROVE PriceInv'
  OBVIOUS
<1>1. CASE Expire \/ SiblingPreloads \/ NextDay \/ UNCHANGED vars
  BY <1>1, EnvironmentKeeps
<1>2. ASSUME NEW c \in Callers, LookUp(c) \/ ReadCache(c) PROVE PriceInv'
  BY <1>2, LookUpKeeps, ReadCacheKeeps
<1>3. ASSUME NEW c \in Callers, ReadTableFirst(c) PROVE PriceInv'
  BY <1>3, ReadTableKeeps DEF ReadTableFirst
<1>4. ASSUME NEW c \in Callers, ReadTableAgain(c) PROVE PriceInv'
  BY <1>4, ReadTableKeeps DEF ReadTableAgain
<1>5. ASSUME NEW c \in Callers,
             \/ ReadPreloadStatus(c) \/ FetchHistory(c) \/ InsertBatch(c) \/ SetPreloadStatus(c)
      PROVE  PriceInv'
  BY <1>5, PreloadStatusKeeps, FetchHistoryKeeps, InsertBatchKeeps
<1>6. ASSUME NEW c \in Callers,
             \/ AskProvider(c) \/ UseNearest(c) \/ UseEarliest(c) \/ AskOldest(c)
      PROVE  PriceInv'
  BY <1>6, AskProviderKeeps, UseNearestKeeps, UseEarliestKeeps, AskOldestKeeps
<1>7. ASSUME NEW c \in Callers, Remember(c) \/ Save(c) PROVE PriceInv'
  BY <1>7, RememberKeeps, SaveKeeps
<1>8. ASSUME NEW c \in Callers, StartReload(c) \/ ClearCache(c) \/ Crash(c) PROVE PriceInv'
  BY <1>8, StartReloadKeeps, ClearCacheKeeps, CrashKeeps
<1> QED BY <1>1, <1>2, <1>3, <1>4, <1>5, <1>6, <1>7, <1>8 DEF Next

LEMMA Invariant == Spec => []PriceInv
BY InitInv, NextInv, PTL DEF Spec

(***************************************************************************)
(* The theorems.                                                           *)
(***************************************************************************)
(* Every variable keeps its type: a miss of the cache is never answered.   *)
THEOREM PriceTypes == Spec => []TypeOK
<1>1. PriceInv => TypeOK
  BY DEF PriceInv
<1> QED BY <1>1, Invariant, PTL

(* For any number of lookups and reloads: a day has one price in the table, *)
(* whichever fallback found it, unless the day is disturbed.               *)
THEOREM OnePrice == Spec => []OnePricePerDay
<1>1. PriceInv => OnePricePerDay
  BY DEF PriceInv
<1> QED BY <1>1, Invariant, PTL

-----------------------------------------------------------------------------
(***************************************************************************)
(* Exact prices.                                                           *)
(***************************************************************************)
(* An exact price that is not stored is in hand, and one thing went wrong; *)
(* whatever takes it out of the hand is the second.                        *)
Secured(d) ==
    \/ d \in price[d]
    \/ InHand(d) /\ faultsLeft + 1 <= MaxFaults
    \/ faultsLeft + 2 <= MaxFaults
ExactInv == \A d \in exact : Secured(d)

(* A caller that holds a price goes on holding it, or has stored it, or    *)
(* fails.                                                                  *)
HandsOver(c) ==
    call[c].pc \in Holding =>
        \/ /\ call'[c].pc \in Holding
           /\ call'[c].day = call[c].day /\ call'[c].value = call[c].value
        \/ call[c].value \in price'[call[c].day]
        \/ faultsLeft' = faultsLeft - 1

LEMMA Countdown ==
    ASSUME faultsLeft \in Int, MaxFaults \in Int, faultsLeft' \in {faultsLeft, faultsLeft - 1}
    PROVE  /\ faultsLeft + 2 <= MaxFaults => faultsLeft' + 2 <= MaxFaults
           /\ faultsLeft + 1 <= MaxFaults => faultsLeft' + 1 <= MaxFaults
           /\ faultsLeft + 1 <= MaxFaults /\ faultsLeft' = faultsLeft - 1 => faultsLeft' + 2 <= MaxFaults
<1>1. \A k, l, m \in Int : l \in {k, k - 1} =>
          /\ k + 2 <= m => l + 2 <= m
          /\ k + 1 <= m => l + 1 <= m
          /\ k + 1 <= m /\ l = k - 1 => l + 2 <= m
  OBVIOUS
<1>2. faultsLeft' \in Int
  OBVIOUS
<1> QED BY <1>1, <1>2

LEMMA SecuredStays ==
    ASSUME PriceInv, NEW c \in Callers, Others(c), HandsOver(c),
           \A d \in Days : price[d] \subseteq price'[d],
           faultsLeft' \in {faultsLeft, faultsLeft - 1},
           NEW d \in Days, Secured(d)
    PROVE  Secured(d)'
<1>1. faultsLeft \in Int /\ MaxFaults \in Int
  BY CallTypes, PriceAssumption DEF TypeOK
<1>a. /\ faultsLeft + 2 <= MaxFaults => faultsLeft' + 2 <= MaxFaults
      /\ faultsLeft + 1 <= MaxFaults => faultsLeft' + 1 <= MaxFaults
      /\ faultsLeft + 1 <= MaxFaults /\ faultsLeft' = faultsLeft - 1 => faultsLeft' + 2 <= MaxFaults
  BY <1>1, Countdown
<1>c. d \in price[d] => d \in price'[d]
  OBVIOUS
<1>2. CASE d \in price[d] \/ faultsLeft + 2 <= MaxFaults
  BY <1>a, <1>c, <1>2 DEF Secured
<1>3. ASSUME InHand(d), faultsLeft + 1 <= MaxFaults PROVE Secured(d)'
  <2>1. PICK o \in Callers : call[o].pc \in Holding /\ call[o].day = d /\ call[o].value = d
    BY <1>3 DEF InHand, Holding
  <2>2. InHand(d)' \/ d \in price'[d] \/ faultsLeft' = faultsLeft - 1
    <3>1. CASE o # c
      BY <2>1, <3>1 DEF Others, InHand, Holding
    <3>2. CASE o = c
      BY <2>1, <3>2 DEF HandsOver, InHand, Holding
    <3> QED BY <3>1, <3>2
  <2> QED BY <1>a, <1>3, <2>2 DEF Secured
<1> QED BY <1>2, <1>3 DEF Secured

LEMMA CountsOnce ==
    ASSUME NoFault \/ \E f \in FaultKinds : Fault(f)
    PROVE  faultsLeft' \in {faultsLeft, faultsLeft - 1}
BY DEF NoFault, Fault

(* Rows are never taken away.                                              *)
LEMMA RowsStay ==
    ASSUME PriceInv, NEW c \in Callers,
           \/ UNCHANGED price
           \/ \E days \in SUBSET Days, value \in [Days -> Days] : Insert(c, days, value)
    PROVE  \A d \in Days : price[d] \subseteq price'[d]
<1>1. CASE UNCHANGED price
  BY <1>1
<1>2. ASSUME NEW days \in SUBSET Days, NEW value \in [Days -> Days], Insert(c, days, value)
      PROVE  \A d \in Days : price[d] \subseteq price'[d]
  BY <1>2, CallTypes, InsertGrows DEF Grows
<1> QED BY <1>1, <1>2

(* The days a step inserts are days, and so are the prices.                *)
LEMMA InsertsDays ==
    ASSUME PriceInv, NEW c \in Callers
    PROVE  /\ OwnPrice \in [Days -> Days] /\ \A v \in Days : PriceOf(v) \in [Days -> Days]
           /\ call[c].batch \subseteq Days /\ {call[c].day} \subseteq Days
BY CallTypes DEF CallState, OwnPrice, PriceOf

LEMMA ExactStays ==
    ASSUME PriceInv, ExactInv, NEW c \in Callers, Others(c), HandsOver(c), UNCHANGED exact,
           NoFault \/ \E f \in FaultKinds : Fault(f),
           \/ UNCHANGED price
           \/ \E days \in SUBSET Days, value \in [Days -> Days] : Insert(c, days, value)
    PROVE  ExactInv'
<1>1. faultsLeft' \in {faultsLeft, faultsLeft - 1}
  BY CountsOnce
<1>2. \A d \in Days : price[d] \subseteq price'[d]
  BY RowsStay
<1>3. exact \subseteq Days
  BY CallTypes DEF TypeOK
<1> QED BY <1>1, <1>2, <1>3, SecuredStays DEF ExactInv

LEMMA OthersStay ==
    ASSUME TypeOK, NEW c \in Callers, NEW r, Move(c, r)
    PROVE  Others(c) /\ call'[c] = r
BY DEF TypeOK, Move, Others

LEMMA ExactNext == PriceInv /\ ExactInv /\ [Next]_vars => ExactInv'
<1> SUFFICES ASSUME PriceInv, ExactInv, [Next]_vars PROVE ExactInv'
  OBVIOUS
<1>1. CASE Expire \/ SiblingPreloads \/ NextDay \/ UNCHANGED vars
  <2>1. UNCHANGED <<price, call, faultsLeft, exact>>
    BY <1>1 DEF Expire, SiblingPreloads, NextDay, vars, bounds
  <2> QED BY <2>1 DEF ExactInv, Secured, InHand
<1>2. ASSUME NEW c \in Callers,
             \/ LookUp(c) \/ ReadCache(c) \/ ReadTableFirst(c) \/ ReadTableAgain(c)
             \/ ReadPreloadStatus(c) \/ SetPreloadStatus(c) \/ FetchHistory(c)
             \/ UseNearest(c) \/ UseEarliest(c) \/ StartReload(c) \/ ClearCache(c)
      PROVE  ExactInv'
  <2>1. UNCHANGED <<price, exact>> /\ HandsOver(c)
    BY <1>2 DEF LookUp, ReadCache, ReadTableFirst, ReadTableAgain, ReadTable, ReadPreloadStatus,
       SetPreloadStatus, FetchHistory, UseNearest, UseEarliest, StartReload, ClearCache, HandsOver, Holding
  <2>2. \E r : Move(c, r)
    BY <1>2 DEF LookUp, ReadCache, ReadTableFirst, ReadTableAgain, ReadTable, ReadPreloadStatus,
       SetPreloadStatus, FetchHistory, UseNearest, UseEarliest, StartReload, ClearCache, Goto, Found, Answer
  <2>3. NoFault \/ \E f \in FaultKinds : Fault(f)
    BY <1>2 DEF LookUp, ReadCache, ReadTableFirst, ReadTableAgain, ReadTable, ReadPreloadStatus,
       SetPreloadStatus, FetchHistory, UseNearest, UseEarliest, StartReload, ClearCache, NoFault, bounds,
       FaultKinds
  <2> QED BY <2>1, <2>2, <2>3, CallTypes, OthersStay, ExactStays
<1>3. ASSUME NEW c \in Callers, InsertBatch(c) PROVE ExactInv'
  <2>1. UNCHANGED exact /\ HandsOver(c) /\ \E r : Move(c, r)
    BY <1>3 DEF InsertBatch, HandsOver, Holding
  <2>2. \E days \in SUBSET Days : Insert(c, days, OwnPrice)
    BY <1>3, InsertsDays DEF InsertBatch
  <2>3. NoFault \/ \E f \in FaultKinds : Fault(f)
    BY <1>3 DEF InsertBatch, FaultKinds
  <2> QED BY <2>1, <2>2, <2>3, InsertsDays, CallTypes, OthersStay, ExactStays
<1>4. ASSUME NEW c \in Callers, AskOldest(c) PROVE ExactInv'
  <2>1. UNCHANGED exact /\ HandsOver(c) /\ \E r : Move(c, r)
    BY <1>4 DEF AskOldest, HandsOver, Holding, Found
  <2>2. UNCHANGED price \/ \E v \in Days : Insert(c, {call[c].day}, PriceOf(v))
    BY <1>4 DEF AskOldest, InsertFails, Known
  <2>3. NoFault \/ \E f \in FaultKinds : Fault(f)
    BY <1>4 DEF AskOldest, InsertFails, FaultKinds
  <2>4. \/ UNCHANGED price
        \/ \E days \in SUBSET Days, value \in [Days -> Days] : Insert(c, days, value)
    BY <2>2, InsertsDays
  <2> QED BY <2>1, <2>3, <2>4, CallTypes, OthersStay, ExactStays
<1>5. ASSUME NEW c \in Callers, Remember(c) PROVE ExactInv'
  <2>1. UNCHANGED <<price, exact>> /\ NoFault /\ call[c].pc = "remember" /\ call[c] \in CallState
    BY <1>5, CallTypes DEF Remember, bounds, NoFault
  <2>2. CASE call[c].fresh /\ Goto(c, "save")
    <3>1. Others(c) /\ call'[c] = [call[c] EXCEPT !.pc = "save"]
      BY <2>2, CallTypes, OthersStay DEF Goto
    <3>2. HandsOver(c)
      BY <3>1, <2>1 DEF HandsOver, Holding, CallState
    <3> QED BY <2>1, <3>1, <3>2, ExactStays
  <2>3. CASE ~call[c].fresh /\ Move(c, IdleCall)
    <3>1. HandsOver(c)
      BY <2>1, <2>3, CallTypes DEF HandsOver, CallInv
    <3> QED BY <2>1, <2>3, <3>1, CallTypes, OthersStay, ExactStays
  <2> QED BY <1>5, <2>2, <2>3 DEF Remember, Answer
<1>6. ASSUME NEW c \in Callers, Save(c) PROVE ExactInv'
  <2>1. UNCHANGED exact /\ Move(c, IdleCall) /\ call[c].pc = "save"
    BY <1>6 DEF Save, Answer
  <2>2. call[c].value \in Days /\ call[c].day \in Days
    BY <2>1, CallTypes DEF CallInv, Holding
  <2>3. CASE InsertFails(c)
    <3>1. HandsOver(c) /\ UNCHANGED price /\ \E f \in FaultKinds : Fault(f)
      BY <2>3 DEF HandsOver, InsertFails, Fault, FaultKinds
    <3> QED BY <2>1, <3>1, CallTypes, OthersStay, ExactStays
  <2>4. CASE Insert(c, {call[c].day}, PriceOf(call[c].value)) /\ NoFault
    <3>1. \A d \in {call[c].day} : price'[d] = price[d] \cup {PriceOf(call[c].value)[d]}
      <4>1. TypeOK /\ {call[c].day} \in SUBSET Days
        BY <2>2, CallTypes
      <4>2. PriceOf(call[c].value) \in [Days -> Days]
        BY <2>2, InsertsDays
      <4> QED BY <4>1, <4>2, <2>4, InsertGrows
    <3>2. HandsOver(c)
      BY <2>2, <3>1 DEF HandsOver, PriceOf
    <3>3. \E days \in SUBSET Days, value \in [Days -> Days] : Insert(c, days, value)
      BY <2>2, <2>4, InsertsDays
    <3> QED BY <2>1, <2>4, <3>2, <3>3, CallTypes, OthersStay, ExactStays
  <2> QED BY <1>6, <2>3, <2>4 DEF Save
<1>7. ASSUME NEW c \in Callers, Crash(c) PROVE ExactInv'
  <2>1. UNCHANGED <<exact, price>> /\ Move(c, IdleCall) /\ HandsOver(c)
        /\ \E f \in FaultKinds : Fault(f)
    BY <1>7 DEF Crash, HandsOver, Fault, FaultKinds
  <2> QED BY <2>1, CallTypes, OthersStay, ExactStays
<1>8. ASSUME NEW c \in Callers, AskProvider(c) PROVE ExactInv'
  <2>a. call[c].day \in Days
    BY CallTypes DEF CallState
  <2>b. PICK d \in Days : d = call[c].day
    BY <2>a
  <2>1. d \in Days /\ HandsOver(c) /\ faultsLeft \in Nat /\ MaxFaults \in Nat /\ faultsLeft <= MaxFaults
    BY <1>8, CallTypes, PriceAssumption DEF AskProvider, HandsOver, Holding, TypeOK
  <2>2. /\ NoFault \/ \E f \in FaultKinds : Fault(f)
        /\ UNCHANGED price \/ Insert(c, {d}, OwnPrice)
    BY <1>8, <2>b DEF AskProvider, InsertFails, FaultKinds
  <2>3. /\ faultsLeft' \in {faultsLeft, faultsLeft - 1}
        /\ \A e \in Days : price[e] \subseteq price'[e]
    BY <2>1, <2>2, CountsOnce, RowsStay, InsertsDays
  <2>4. CASE Goto(c, "nearest") /\ UNCHANGED exact
    BY <2>1, <2>2, <2>4, InsertsDays, CallTypes, OthersStay, ExactStays DEF Goto
  <2>5. CASE /\ Found(c, d, TRUE) /\ exact' = exact \cup {d}
             /\ (Insert(c, {d}, OwnPrice) /\ NoFault) \/ InsertFails(c)
    <3>1. Others(c) /\ call'[c].pc = "remember" /\ call'[c].day = d /\ call'[c].value = d
      BY <2>1, <2>b, <2>5, CallTypes, Finds
    <3>2. \A e \in exact : Secured(e)'
      <4>1. exact \subseteq Days
        BY CallTypes DEF TypeOK
      <4> QED BY <2>1, <2>3, <3>1, <4>1, SecuredStays DEF ExactInv
    <3>3. CASE InsertFails(c)
      <4>1. faultsLeft' = faultsLeft - 1
        BY <3>3 DEF InsertFails, Fault
      <4>2. InHand(d)'
        BY <3>1 DEF InHand
      <4>3. Secured(d)'
        BY <2>1, <4>1, <4>2 DEF Secured
      <4> QED BY <2>5, <3>2, <4>3 DEF ExactInv
    <3>4. CASE Insert(c, {d}, OwnPrice)
      <4>0. TypeOK /\ {d} \in SUBSET Days /\ OwnPrice \in [Days -> Days]
        BY CallTypes, InsertsDays
      <4>1. \A e \in {d} : price'[e] = price[e] \cup {OwnPrice[e]}
        BY <4>0, <3>4, InsertGrows
      <4>2. Secured(d)'
        BY <2>1, <4>1 DEF Secured, OwnPrice
      <4> QED BY <2>5, <3>2, <4>2 DEF ExactInv
    <3> QED BY <2>5, <3>3, <3>4
  <2> QED BY <1>8, <2>b, <2>4, <2>5 DEF AskProvider
<1> QED BY <1>1, <1>2, <1>3, <1>4, <1>5, <1>6, <1>7, <1>8 DEF Next

(* For any number of lookups and reloads: a price the provider gave for    *)
(* the day itself is stored, or its caller is about to store it, unless    *)
(* two failures or crashes happened.                                       *)
THEOREM ExactPricesStay == Spec => []ExactPricesAreKept
<1>1. Init => ExactInv
  BY DEF Init, ExactInv
<1>2. PriceInv /\ ExactInv => ExactPricesAreKept
  <2> SUFFICES ASSUME PriceInv, NEW d \in exact, Secured(d)
               PROVE  d \in price[d] \/ InHand(d) \/ faultsLeft + 2 <= MaxFaults
    BY DEF ExactInv, ExactPricesAreKept
  <2> QED BY DEF Secured
<1> QED BY <1>1, <1>2, ExactNext, Invariant, PTL DEF Spec

-----------------------------------------------------------------------------
(* If one process looks prices up, whatever reloads run beside it, lookups *)
(* of a day agree for ever.  Two processes may cache different fallbacks   *)
(* for a day before either has stored one.                                 *)
OneLooker == \A a, b \in Lookers : a = b

THEOREM PricesAgree == ASSUME OneLooker PROVE Spec => []PriceIsStable
<1>1. PriceInv => PriceIsStable
  <2> SUFFICES ASSUME PriceInv, NEW d \in Days \ disturbed, NEW v \in quoted[d], NEW w \in quoted[d]
               PROVE  v = w
    BY DEF PriceIsStable
  <2>1. v \in price[d] \cup BeingSaved(d) /\ w \in price[d] \cup BeingSaved(d)
    BY DEF PriceInv, AnswersAreKept
  <2>2. \A x, y \in price[d] : x = y
    BY DEF PriceInv, OnePricePerDay
  <2>3. ASSUME NEW c \in Callers, call[c].pc = "save", call[c].day = d
        PROVE  c \in Lookers /\ price[d] \subseteq {call[c].value}
    BY <2>3, CallTypes DEF CallInv, Holding
  <2>4. CASE BeingSaved(d) = {}
    BY <2>1, <2>2, <2>4
  <2>5. ASSUME NEW c \in Callers, call[c].pc = "save", call[c].day = d
        PROVE  BeingSaved(d) = {call[c].value}
    BY <2>3, <2>5, OneLooker DEF BeingSaved, OneLooker
  <2>6. CASE BeingSaved(d) # {}
    <3>1. PICK c \in Callers : call[c].pc = "save" /\ call[c].day = d
      BY <2>6 DEF BeingSaved
    <3> QED BY <2>1, <2>3, <2>5, <3>1
  <2> QED BY <2>4, <2>6
<1> QED BY <1>1, Invariant, PTL
=============================================================================
