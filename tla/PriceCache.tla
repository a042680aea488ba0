------------------------------ MODULE PriceCache ------------------------------
(***************************************************************************)
(* The price of one asset on one day: PriceService.getHistoricalPrice with *)
(* its Redis cache, the table `price', the preload of a coin's history,    *)
(* the fallbacks to other days, and price:preload's forced reload.         *)
(*                                                                         *)
(* One symbol is modelled; the symbols of one coin share the flag of its   *)
(* preload, which another symbol's lookup may set.  A caller is a process  *)
(* that looks prices up or reloads the history, one at a time.  A step is  *)
(* what happens between two reads or writes of the cache or the table.     *)
(* The price of a day is named by the day, so that the price of another    *)
(* day can be told from it.                                                *)
(***************************************************************************)
EXTENDS Integers

CONSTANTS
    Lookers,     \* processes that look up prices: the server, history:get
    Reloaders,   \* processes that reload the history: price:preload
    StartDay,    \* the day a behaviour begins
    MaxDay,      \* bound: time stops there
    Listed,      \* the first day the provider has a price for
    History,     \* how many days back the provider answers (getMaxHistoryDays)
    OldAge,      \* from this age on a day gets the earliest price (five years)
    Window,      \* the nearest price is looked for this many days around (30)
    Faults,      \* what may go wrong, a subset of FaultKinds
    MaxFaults,   \* bound: failures and crashes in a behaviour
    MaxReloads   \* bound: forced reloads in a behaviour

Callers == Lookers \cup Reloaders
Days == 1 .. MaxDay
FaultKinds == {"provider", "redis", "db", "crash"}
NoPrice == 0

ASSUME PriceAssumption ==
    /\ StartDay \in Nat \ {0} /\ MaxDay \in Nat /\ StartDay <= MaxDay
    /\ Listed \in Nat \ {0} /\ History \in Nat
    /\ OldAge \in Nat \ {0} /\ Window \in Nat
    /\ Faults \subseteq FaultKinds
    /\ MaxFaults \in Nat /\ MaxReloads \in Nat

VARIABLES
    today,       \* the current day
    faultsLeft,  \* failures that may still happen
    reloadsLeft, \* forced reloads that may still be started
    price,       \* table price: the distinct prices stored for every day
    cache,       \* Redis, price:<symbol>:<day>; NoPrice when there is no entry
    preloaded,   \* Redis, preload_status:<coin>
    call,        \* the local state of every caller
    quoted,      \* history: the prices that were returned for every day
    exact,       \* history: days asked for whose own price the provider gave
    disturbed    \* history: days looked up while the database failed, while the
                 \* process died, or while another caller was at work

redis == <<cache, preloaded>>
bounds == <<today, faultsLeft, reloadsLeft>>
vars == <<bounds, price, redis, call, quoted, exact, disturbed>>

Phases ==
    {"idle", "cache", "table", "status", "history", "batch", "flag", "again",
     "exact", "nearest", "earliest", "oldest", "remember", "save", "clear"}

(* day: the day asked for; value: the price found, to be stored if fresh;  *)
(* batch: the days a preload is about to insert; reload: a forced reload.  *)
CallState ==
    [pc: Phases, day: Days, value: Days \cup {NoPrice}, fresh: BOOLEAN,
     batch: SUBSET Days, reload: BOOLEAN]

IdleCall ==
    [pc |-> "idle", day |-> 1, value |-> NoPrice, fresh |-> FALSE,
     batch |-> {}, reload |-> FALSE]

TypeOK ==
    /\ today \in Days /\ faultsLeft \in 0 .. MaxFaults /\ reloadsLeft \in 0 .. MaxReloads
    /\ price \in [Days -> SUBSET Days]
    /\ cache \in [Days -> Days \cup {NoPrice}]
    /\ preloaded \in BOOLEAN
    /\ call \in [Callers -> CallState]
    /\ quoted \in [Days -> SUBSET Days] /\ exact \subseteq Days
    /\ disturbed \subseteq Days

Init ==
    /\ today = StartDay /\ faultsLeft = MaxFaults /\ reloadsLeft = MaxReloads
    /\ price = [d \in Days |-> {}]
    /\ cache = [d \in Days |-> NoPrice]
    /\ preloaded = FALSE
    /\ call = [c \in Callers |-> IdleCall]
    /\ quoted = [d \in Days |-> {}] /\ exact = {}
    /\ disturbed = {}

-----------------------------------------------------------------------------
Fault(f) == f \in Faults /\ faultsLeft > 0 /\ faultsLeft' = faultsLeft - 1
NoFault == UNCHANGED faultsLeft

Move(c, r) == call' = [call EXCEPT ![c] = r]
Goto(c, pc) == Move(c, [call[c] EXCEPT !.pc = pc])
Disturb(days) == disturbed' = disturbed \cup days
OthersAtWork(c) == \E o \in Callers \ {c} : call[o].pc # "idle"

(* Rows are added to the table; nothing refuses a second one for a day.    *)
OwnPrice == [d \in Days |-> d]
PriceOf(e) == [d \in Days |-> e]

Insert(c, days, value) ==
    /\ price' = [d \in Days |-> IF d \in days THEN price[d] \cup {value[d]} ELSE price[d]]
    /\ IF OthersAtWork(c) THEN Disturb(days) ELSE UNCHANGED disturbed

InsertFails(c) == Fault("db") /\ Disturb({call[c].day}) /\ UNCHANGED price

Answer(c, v) ==
    /\ quoted' = [quoted EXCEPT ![call[c].day] = @ \cup {v}]
    /\ Move(c, IdleCall)

(* A price was found: the cache is told, then the table if it is fresh.    *)
Found(c, v, fresh) ==
    Move(c, [call[c] EXCEPT !.pc = "remember", !.value = v, !.fresh = fresh])

(* The days the provider has a price for; 0 or an error otherwise.         *)
Known == {d \in Days : d >= Listed /\ today - History <= d /\ d <= today}
IsOld(d) == d + OldAge <= today

-----------------------------------------------------------------------------
(***************************************************************************)
(* getHistoricalPrice: the cache, then the table.                          *)
(***************************************************************************)
LookUp(c) ==
    /\ c \in Lookers /\ call[c].pc = "idle"
    /\ \E d \in 1 .. today : Move(c, [IdleCall EXCEPT !.pc = "cache", !.day = d])
    /\ UNCHANGED <<bounds, exact, price, redis, quoted, disturbed>>

(* Mutant: a miss is taken for a price.                                    *)
ReadCacheUnchecked(c) ==
    /\ call[c].pc = "cache"
    /\ Answer(c, cache[call[c].day])
    /\ UNCHANGED <<bounds, exact, price, redis, disturbed>>

ReadCache(c) ==
    LET v == cache[call[c].day]
    IN  /\ call[c].pc = "cache"
        /\ \/ v # NoPrice /\ Answer(c, v)
           \/ v = NoPrice /\ Goto(c, "table") /\ UNCHANGED quoted
        /\ UNCHANGED <<bounds, exact, price, redis, disturbed>>

(* Mutant: the date is not normalised, and no row is at it.                *)
ReadTableAtTime(c, next) ==
    /\ Goto(c, next)
    /\ UNCHANGED <<bounds, exact, price, redis, quoted, disturbed>>

(* getFromDatabase, called before and after the preload: a query that      *)
(* fails is a day without a price.                                         *)
ReadTable(c, next) ==
    LET stored == price[call[c].day]
    IN  /\ \/ stored # {} /\ NoFault /\ UNCHANGED disturbed
              /\ \E v \in stored : Found(c, v, FALSE)
           \/ stored = {} /\ NoFault /\ Goto(c, next) /\ UNCHANGED disturbed
           \/ Fault("db") /\ Goto(c, next) /\ Disturb({call[c].day})
        /\ UNCHANGED <<today, reloadsLeft, exact, price, redis, quoted>>

ReadTableFirst(c) == call[c].pc = "table" /\ ReadTable(c, "status")

ReadTableAgain(c) ==
    call[c].pc = "again" /\ ReadTable(c, IF IsOld(call[c].day) THEN "earliest" ELSE "exact")

-----------------------------------------------------------------------------
(***************************************************************************)
(* preloadHistoricalPrices.                                                *)
(***************************************************************************)
ReadPreloadStatus(c) ==
    /\ call[c].pc = "status"
    /\ Goto(c, IF preloaded THEN "again" ELSE "history")
    /\ UNCHANGED <<bounds, exact, price, redis, quoted, disturbed>>

AfterPreload(c) == IF call[c].reload THEN "idle" ELSE "flag"

(* Mutant: the whole history is inserted, over what is stored.             *)
FetchWholeHistory(c) ==
    /\ call[c].pc = "history"
    /\ NoFault
    /\ Move(c, [call[c] EXCEPT !.pc = "batch", !.batch = Known])
    /\ UNCHANGED <<today, reloadsLeft, exact, price, redis, quoted, disturbed>>

(* The provider's history, without the days that have a row; today's price *)
(* may not be part of it yet.  Whatever fails here is only logged.         *)
FetchHistory(c) ==
    /\ call[c].pc = "history"
    /\ \/ /\ NoFault
          /\ \E days \in {Known, Known \ {today}} :
                Move(c, [call[c] EXCEPT !.pc = "batch",
                                        !.batch = {d \in days : price[d] = {}}])
       \/ /\ Fault("provider") \/ Fault("db")
          /\ Goto(c, AfterPreload(c))
    /\ UNCHANGED <<today, reloadsLeft, exact, price, redis, quoted, disturbed>>

(* In INSERTs of 100 rows, each of which may fail.                         *)
InsertBatch(c) ==
    /\ call[c].pc = "batch"
    /\ \/ Insert(c, call[c].batch, OwnPrice) /\ NoFault
       \/ Fault("db") /\ \E part \in SUBSET call[c].batch : Insert(c, part, OwnPrice)
    /\ Move(c, [call[c] EXCEPT !.pc = AfterPreload(c), !.batch = {}])
    /\ UNCHANGED <<today, reloadsLeft, exact, redis, quoted>>

(* The coin counts as preloaded, whether anything was loaded or not.       *)
SetPreloadStatus(c) ==
    /\ call[c].pc = "flag"
    /\ preloaded' = TRUE
    /\ Goto(c, "again")
    /\ UNCHANGED <<bounds, exact, price, cache, quoted, disturbed>>

-----------------------------------------------------------------------------
(***************************************************************************)
(* getExactOrNearestPrice, after the preload.                              *)
(***************************************************************************)
(* Mutant: the exact price is left for the caller to store.                *)
AskProviderUnsaved(c) ==
    LET d == call[c].day
    IN  /\ call[c].pc = "exact" /\ NoFault
        /\ \/ d \in Known /\ Found(c, d, TRUE) /\ exact' = exact \cup {d}
           \/ d \notin Known /\ Goto(c, "nearest") /\ UNCHANGED exact
        /\ UNCHANGED <<today, reloadsLeft, price, redis, quoted, disturbed>>

(* The exact price is stored here, and once more after it was cached.      *)
AskProvider(c) ==
    LET d == call[c].day
    IN  /\ call[c].pc = "exact"
        /\ \/ /\ d \in Known /\ Found(c, d, TRUE) /\ exact' = exact \cup {d}
              /\ (Insert(c, {d}, OwnPrice) /\ NoFault) \/ InsertFails(c)
           \/ /\ (d \notin Known /\ NoFault) \/ Fault("provider")
              /\ Goto(c, "nearest") /\ UNCHANGED <<price, exact, disturbed>>
        /\ UNCHANGED <<today, reloadsLeft, redis, quoted>>

Distance(d, e) == IF d < e THEN e - d ELSE d - e
Stored == {d \in Days : price[d] # {}}
Nearest(d, window) ==
    LET near == {e \in Stored : Distance(d, e) <= window}
    IN  {e \in near : \A f \in near : Distance(d, e) <= Distance(d, f)}

(* The price of the nearest stored day.  The cached prices searched after  *)
(* it are looked up under the coin's name, under which none is stored.     *)
UseNearest(c) ==
    LET nearest == Nearest(call[c].day, Window)
    IN  /\ call[c].pc = "nearest"
        /\ \/ NoFault /\ \E e \in nearest : \E v \in price[e] : Found(c, v, TRUE)
           \/ nearest = {} /\ NoFault /\ Move(c, IdleCall)
           \/ Fault("db") /\ Move(c, IdleCall)
        /\ UNCHANGED <<today, reloadsLeft, exact, price, redis, quoted, disturbed>>

(* Five years back and more: the earliest stored price ...                 *)
UseEarliest(c) ==
    /\ call[c].pc = "earliest"
    /\ \/ /\ NoFault /\ UNCHANGED disturbed
          /\ \E e \in Stored : \E v \in price[e] :
                (\A f \in Stored : e <= f) /\ Found(c, v, TRUE)
       \/ Stored = {} /\ NoFault /\ Goto(c, "oldest") /\ UNCHANGED disturbed
       \/ Fault("db") /\ Goto(c, "oldest") /\ Disturb({call[c].day})
    /\ UNCHANGED <<today, reloadsLeft, exact, price, redis, quoted>>

(* ... else the oldest the provider has, or, when it refuses that day, the *)
(* first of its history.  It is stored here, and once more after the cache. *)
AskOldest(c) ==
    LET oldest == {e \in Known : e = today - History}
        first == {e \in Known : \A f \in Known : e <= f}
    IN  /\ call[c].pc = "oldest"
        /\ \/ \E v \in oldest :
                 Found(c, v, TRUE) /\ Insert(c, {call[c].day}, PriceOf(v)) /\ NoFault
           \/ \E v \in oldest : Found(c, v, TRUE) /\ InsertFails(c)
           \/ \E v \in first :
                 /\ Found(c, v, TRUE) /\ Insert(c, {call[c].day}, PriceOf(v))
                 /\ Fault("provider")
           \/ /\ (oldest = {} /\ NoFault) \/ Fault("provider")
              /\ Move(c, IdleCall) /\ UNCHANGED <<price, disturbed>>
        /\ UNCHANGED <<today, reloadsLeft, exact, redis, quoted>>

-----------------------------------------------------------------------------
(* setToCache, and the return when the price came from the table.          *)
Remember(c) ==
    /\ call[c].pc = "remember"
    /\ cache' = [cache EXCEPT ![call[c].day] = call[c].value]
    /\ \/ call[c].fresh /\ Goto(c, "save") /\ UNCHANGED quoted
       \/ ~call[c].fresh /\ Answer(c, call[c].value)
    /\ UNCHANGED <<bounds, exact, price, preloaded, disturbed>>

(* saveToDatabase: the comment says only what an external provider gave,   *)
(* but the sources of approximations pass the test as well.                *)
Save(c) ==
    /\ call[c].pc = "save"
    /\ \/ Insert(c, {call[c].day}, PriceOf(call[c].value)) /\ NoFault
       \/ InsertFails(c)
    /\ Answer(c, call[c].value)
    /\ UNCHANGED <<today, reloadsLeft, exact, redis>>

-----------------------------------------------------------------------------
(***************************************************************************)
(* forceReloadSymbol: the cache and the flag are cleared, then the history *)
(* is preloaded.                                                           *)
(***************************************************************************)
StartReload(c) ==
    /\ c \in Reloaders /\ call[c].pc = "idle"
    /\ reloadsLeft > 0 /\ reloadsLeft' = reloadsLeft - 1
    /\ Move(c, [IdleCall EXCEPT !.pc = "clear", !.reload = TRUE])
    /\ UNCHANGED <<today, faultsLeft, exact, price, redis, quoted, disturbed>>

ClearCache(c) ==
    /\ call[c].pc = "clear"
    /\ \/ /\ NoFault
          /\ cache' = [d \in Days |-> NoPrice] /\ preloaded' = FALSE
          /\ Goto(c, "history")
       \/ /\ Fault("redis") /\ UNCHANGED redis
          /\ Goto(c, "history") \/ Move(c, IdleCall)
    /\ UNCHANGED <<today, reloadsLeft, exact, price, quoted, disturbed>>

-----------------------------------------------------------------------------
(* Every key has a time to live, may be evicted, and may be unreadable.    *)
Expire ==
    /\ \/ \E d \in Days : cache[d] # NoPrice /\ cache' = [cache EXCEPT ![d] = NoPrice]
                          /\ UNCHANGED preloaded
       \/ preloaded /\ preloaded' = FALSE /\ UNCHANGED cache
    /\ UNCHANGED <<bounds, exact, price, call, quoted, disturbed>>

(* Several symbols are mapped to one coin, and the flag is the coin's: the *)
(* lookup of another one preloads that one's history, and sets it.         *)
SiblingPreloads ==
    /\ ~preloaded /\ preloaded' = TRUE
    /\ UNCHANGED <<bounds, exact, price, cache, call, quoted, disturbed>>

Crash(c) ==
    /\ call[c].pc # "idle"
    /\ Fault("crash")
    /\ Move(c, IdleCall)
    /\ Disturb(IF call[c].reload THEN {} ELSE {call[c].day})
    /\ UNCHANGED <<today, reloadsLeft, exact, price, redis, quoted>>

NextDay ==
    /\ today < MaxDay
    /\ today' = today + 1
    /\ UNCHANGED <<faultsLeft, reloadsLeft, exact, price, redis, call, quoted, disturbed>>

Next ==
    \/ Expire \/ SiblingPreloads \/ NextDay
    \/ \E c \in Callers :
          \/ LookUp(c) \/ ReadCache(c) \/ ReadTableFirst(c)
          \/ ReadPreloadStatus(c) \/ FetchHistory(c) \/ InsertBatch(c) \/ SetPreloadStatus(c)
          \/ ReadTableAgain(c) \/ AskProvider(c) \/ UseNearest(c) \/ UseEarliest(c) \/ AskOldest(c)
          \/ Remember(c) \/ Save(c)
          \/ StartReload(c) \/ ClearCache(c)
          \/ Crash(c)

Spec == Init /\ [][Next]_vars

-----------------------------------------------------------------------------
(***************************************************************************)
(* Properties.                                                             *)
(***************************************************************************)
(* A price the provider gave for the day itself is in the table, or with a *)
(* caller that is about to store it, unless two things went wrong: one     *)
(* failed insert or one crash does not lose it, and nothing ever drops it. *)
InHand(d) ==
    \E c \in Callers :
        call[c].pc \in {"remember", "save"} /\ call[c].day = d /\ call[c].value = d
ExactPricesAreKept ==
    \A d \in exact : d \in price[d] \/ InHand(d) \/ faultsLeft + 2 <= MaxFaults

(* The table has one price for a day: no approximation is stored beside an *)
(* exact price, and no preload adds the exact price to an approximation,   *)
(* which thereby stays the price of the day.                               *)
OnePricePerDay ==
    \A d \in Days \ disturbed : \A v, w \in price[d] : v = w

(* Two lookups of a day return the same price, however much later, whether *)
(* or not the provider has learned or forgotten the day in between.        *)
PriceIsStable ==
    \A d \in Days \ disturbed : \A v, w \in quoted[d] : v = w

=============================================================================
