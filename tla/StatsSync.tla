------------------------------ MODULE StatsSync ------------------------------
(***************************************************************************)
(* The daily statistics of the Comet markets: ContractService.saveStats    *)
(* and the clearing of GetHistoryService.startStatsProcessing, on the      *)
(* tables `incomes' and `spends'.                                          *)
(*                                                                         *)
(* Unlike the reserves, the statistics have no checkpoint of their own:    *)
(* where a source goes on is read off the last rows of the two tables,     *)
(* which are written one after the other, spends first.  A collector is a  *)
(* process; at most one job runs in it (ReserveSync!OneJobPerHost).        *)
(***************************************************************************)
EXTENDS DailyGrid

CONSTANTS
    Collectors,   \* the processes that run collections
    NSources,     \* the comet_stats sources are 1 .. NSources, as they are listed
    CreationBlock,\* [Sources -> Block], the block that created the contract
    StartDates,   \* start dates an administrator may ask for with clearData
    Faults,       \* what the environment may do wrong, a subset of FaultKinds
    MaxFaults,    \* bound: failures and crashes in a behaviour
    MaxClears,    \* bound: collections started with clearData
    MaxTime       \* bound: the clock stops there

Sources == 1 .. NSources
Tables == {"incomes", "spends"}
FaultKinds == {"rpc", "revert", "price", "mail", "db", "crash"}
NoDate == -1

ASSUME StatsAssumption ==
    /\ NSources \in Nat
    /\ CreationBlock \in [Sources -> Block]
    /\ \A s \in Sources : CreationBlock[s] > EarlySlip /\ CreationBlock[s] <= MaxTime
    /\ StartDates \subseteq Nat
    /\ Faults \subseteq FaultKinds
    /\ MaxFaults \in Nat /\ MaxClears \in Nat /\ MaxTime \in Nat

VARIABLES
    now,        \* the clock, and the head of the chain
    faultsLeft, \* failures that may still happen
    clearsLeft, \* clearing collections that may still be started
    rows,       \* the distinct rows of every table and source
    repeated,   \* the days a source has more than one row for in a table
    deleting,   \* the TRUNCATEs a job waits for
    orphans,    \* the TRUNCATEs still under way after the job that sent them failed
    job,        \* the local state of the job of every collector
    skipped     \* history: days a source was moved past after a failure

bounds == <<now, faultsLeft, clearsLeft>>
tables == <<rows, repeated>>
clearing == <<deleting, orphans>>
vars == <<bounds, tables, clearing, job, skipped>>

Row == [date: Nat, block: Block]
HasRow(t, s, d) == \E r \in rows[t][s] : r.date = d

Phases == {"idle", "clear", "source", "day", "incomes"}

(* date: the start asked for; src: the source; last: lastBlock; target and *)
(* today: the day in progress and the last one; found: the block of the    *)
(* row of spends that was saved.                                           *)
JobState ==
    [pc: Phases, date: Nat \cup {NoDate}, src: Nat,
     last: Block, target: Nat, today: Nat, found: Block]

IdleJob ==
    [pc |-> "idle", date |-> NoDate, src |-> 1,
     last |-> 0, target |-> 0, today |-> 0, found |-> 0]

Empty == [s \in Sources |-> {}]

TypeOK ==
    /\ now \in Nat /\ faultsLeft \in Nat /\ clearsLeft \in Nat
    /\ rows \in [Tables -> [Sources -> SUBSET Row]]
    /\ repeated \in [Tables -> [Sources -> SUBSET Nat]]
    /\ deleting \in [Collectors -> SUBSET Tables]
    /\ orphans \in [Collectors -> SUBSET Tables]
    /\ job \in [Collectors -> JobState]
    /\ skipped \in [Sources -> SUBSET Nat]

Init ==
    /\ now \in {CreationBlock[s] : s \in Sources}
    /\ \A s \in Sources : CreationBlock[s] <= now
    /\ faultsLeft = MaxFaults
    /\ clearsLeft = MaxClears
    /\ rows = [t \in Tables |-> Empty]
    /\ repeated = [t \in Tables |-> Empty]
    /\ deleting = [c \in Collectors |-> {}]
    /\ orphans = [c \in Collectors |-> {}]
    /\ job = [c \in Collectors |-> IdleJob]
    /\ skipped = Empty

-----------------------------------------------------------------------------
Fault(f) ==
    /\ f \in Faults
    /\ faultsLeft > 0
    /\ faultsLeft' = faultsLeft - 1

NoFault == UNCHANGED faultsLeft
MailFails == "mail" \in Faults

Move(c, r) == job' = [job EXCEPT ![c] = r]

AfterSource(r) == [IdleJob EXCEPT !.pc = "source", !.date = r.date, !.src = r.src + 1]

(* The day loop goes on with lastBlock = last, or ends after today.        *)
AfterDay(r, last) ==
    IF r.target + Day > r.today
    THEN AfterSource(r)
    ELSE [r EXCEPT !.pc = "day", !.last = last, !.target = @ + Day, !.found = 0]

-----------------------------------------------------------------------------
(***************************************************************************)
(* Starting: the cron's getHistory, or the administrator.                  *)
(***************************************************************************)
Start(c) ==
    /\ job[c].pc = "idle"
    /\ Move(c, [IdleJob EXCEPT !.pc = "source"])
    /\ UNCHANGED <<bounds, tables, clearing, skipped>>

(* With clearData both tables are truncated at once, for every source.     *)
StartClearing(c) ==
    /\ job[c].pc = "idle"
    /\ clearsLeft > 0
    /\ clearsLeft' = clearsLeft - 1
    /\ \E date \in StartDates \cup {NoDate} :
          date <= now /\ Move(c, [IdleJob EXCEPT !.pc = "clear", !.date = date])
    /\ deleting' = [deleting EXCEPT ![c] = Tables]
    /\ UNCHANGED <<now, faultsLeft, tables, orphans, skipped>>

Truncate(t) ==
    /\ rows' = [rows EXCEPT ![t] = Empty]
    /\ repeated' = [repeated EXCEPT ![t] = Empty]

(* One of the awaited deletes is done; after both the collection starts.   *)
Delete(c, t) ==
    /\ job[c].pc = "clear" /\ t \in deleting[c]
    /\ Truncate(t)
    /\ deleting' = [deleting EXCEPT ![c] = @ \ {t}]
    /\ Move(c, IF deleting[c] = {t} THEN [job[c] EXCEPT !.pc = "source"] ELSE job[c])
    /\ UNCHANGED <<bounds, orphans, skipped>>

(* Promise.all rejects with the first delete that fails and the job ends;  *)
(* the other delete, if it is not done, goes on without it.                *)
DeleteFails(c, t) ==
    /\ job[c].pc = "clear" /\ t \in deleting[c]
    /\ Fault("db")
    /\ deleting' = [deleting EXCEPT ![c] = {}]
    /\ orphans' = [orphans EXCEPT ![c] = @ \cup (deleting[c] \ {t})]
    /\ Move(c, IdleJob)
    /\ UNCHANGED <<now, clearsLeft, tables, skipped>>

OrphanEnds(c, t) ==
    /\ t \in orphans[c]
    /\ orphans' = [orphans EXCEPT ![c] = @ \ {t}]
    /\ Truncate(t)
    /\ UNCHANGED <<bounds, deleting, job, skipped>>

-----------------------------------------------------------------------------
(***************************************************************************)
(* Where a source goes on.                                                 *)
(***************************************************************************)
LastBlocks(t, s) ==
    {r.block : r \in {q \in rows[t][s] : \A p \in rows[t][s] : p.block <= q.block}}

(* Mutant: the later of the two last rows.                                 *)
LatestOfBoth(s) ==
    LET lasts == LastBlocks("incomes", s) \cup LastBlocks("spends", s)
    IN  IF lasts = {} THEN {CreationBlock[s]} ELSE {b \in lasts : \A a \in lasts : a <= b}

(* The earlier of the last rows of the two tables, the only one if one of  *)
(* them is empty, and the creation block if both are.                      *)
GoesOnFrom(s) ==
    LET lasts == LastBlocks("incomes", s) \cup LastBlocks("spends", s)
    IN  IF lasts = {} THEN {CreationBlock[s]} ELSE {b \in lasts : \A a \in lasts : b <= a}

(* A start date that was asked for takes precedence over the rows.         *)
StartBlocks(s, date) ==
    IF date = NoDate THEN GoesOnFrom(s)
    ELSE IF date < CreationBlock[s] THEN {CreationBlock[s]}
    ELSE FoundBlocks(date, 0, now)

AtSource(c) == job[c].pc = "source" /\ job[c].src \in Sources

BeginSource(c) ==
    /\ AtSource(c)
    /\ \E start \in StartBlocks(job[c].src, job[c].date) :
          IF FirstMidnightUTC(start) <= TodayMidnightUTC(now)
          THEN Move(c, [job[c] EXCEPT !.pc = "day", !.last = start,
                                      !.target = FirstMidnightUTC(start),
                                      !.today = TodayMidnightUTC(now)])
          ELSE Move(c, AfterSource(job[c]))
    /\ UNCHANGED <<bounds, tables, clearing, skipped>>

(* The start cannot be found or read.  An exception is mailed, and ends    *)
(* the job when the mail fails.                                            *)
SourceFails(c) ==
    /\ AtSource(c)
    /\ Fault("rpc") \/ Fault("db")
    /\ \/ Move(c, AfterSource(job[c]))
       \/ MailFails /\ Move(c, IdleJob)
    /\ UNCHANGED <<now, clearsLeft, tables, clearing, skipped>>

Finish(c) ==
    /\ job[c].pc = "source" /\ job[c].src \notin Sources
    /\ Move(c, IdleJob)
    /\ UNCHANGED <<bounds, tables, clearing, skipped>>

-----------------------------------------------------------------------------
(***************************************************************************)
(* One day: find the block, fetch the price of COMP, read the market,      *)
(* fetch the price of its asset, save spends, save incomes.                *)
(***************************************************************************)
DayBlocks(c) == FoundBlocks(job[c].target, job[c].last, now)

Skip(c) == skipped' = [skipped EXCEPT ![job[c].src] = @ \cup {job[c].target}]

(* Mutant: incomes are stored first.                                       *)
Other(t) == IF t = "spends" THEN "incomes" ELSE "spends"
InsertSwapped(t, s, d, b) ==
    /\ rows' = [rows EXCEPT ![Other(t)][s] = @ \cup {[date |-> d, block |-> b]}]
    /\ repeated' =
          [repeated EXCEPT ![Other(t)][s] = IF HasRow(Other(t), s, d) THEN @ \cup {d} ELSE @]

(* Nothing looks for a row of the day first; no constraint refuses one.    *)
Insert(t, s, d, b) ==
    /\ rows' = [rows EXCEPT ![t][s] = @ \cup {[date |-> d, block |-> b]}]
    /\ repeated' = [repeated EXCEPT ![t][s] = IF HasRow(t, s, d) THEN @ \cup {d} ELSE @]

SaveSpends(c) ==
    /\ job[c].pc = "day"
    /\ \E b \in DayBlocks(c) :
          /\ Insert("spends", job[c].src, job[c].target, b)
          /\ Move(c, [job[c] EXCEPT !.pc = "incomes", !.found = b])
    /\ UNCHANGED <<bounds, clearing, skipped>>

SaveIncomes(c) ==
    /\ job[c].pc = "incomes"
    /\ Insert("incomes", job[c].src, job[c].target, job[c].found)
    /\ Move(c, AfterDay(job[c], job[c].found))
    /\ UNCHANGED <<bounds, clearing, skipped>>

(* Either INSERT, the search, or the read fails: the day is skipped, and a *)
(* day's worth of blocks with it.  Spends that were saved stay.            *)
DayFails(c) ==
    /\ \/ job[c].pc = "day" /\ (Fault("rpc") \/ Fault("db"))
       \/ job[c].pc = "incomes" /\ Fault("db")
       \/ job[c].pc = "day" /\ DayBlocks(c) = {} /\ NoFault
    /\ Skip(c)
    /\ Move(c, AfterDay(job[c], SkipADay(job[c].last)))
    /\ UNCHANGED <<now, clearsLeft, tables, clearing>>

(* CALL_EXCEPTION: the day is skipped; a mail that fails adds the fallback *)
(* to the lastBlock already assigned.                                      *)
ReadReverts(c) ==
    /\ job[c].pc = "day"
    /\ Fault("revert")
    /\ Skip(c)
    /\ \E b \in DayBlocks(c) :
          \/ Move(c, AfterDay(job[c], b))
          \/ MailFails /\ Move(c, AfterDay(job[c], SkipADay(b)))
    /\ UNCHANGED <<now, clearsLeft, tables, clearing>>

(* No price of COMP or of the asset: the source is left, for the next run  *)
(* to retry the day; a mail that fails makes it a failed day.              *)
PriceFails(c) ==
    /\ job[c].pc = "day" /\ DayBlocks(c) # {}
    /\ Fault("price")
    /\ \/ Move(c, AfterSource(job[c])) /\ UNCHANGED skipped
       \/ MailFails /\ Move(c, AfterDay(job[c], SkipADay(job[c].last))) /\ Skip(c)
    /\ UNCHANGED <<now, clearsLeft, tables, clearing>>

-----------------------------------------------------------------------------
(* The process dies; a TRUNCATE that it sent is done, or is not.           *)
Crash(c) ==
    /\ job[c].pc # "idle" \/ orphans[c] # {}
    /\ Fault("crash")
    /\ job' = [job EXCEPT ![c] = IdleJob]
    /\ deleting' = [deleting EXCEPT ![c] = {}]
    /\ orphans' = [orphans EXCEPT ![c] = {}]
    /\ UNCHANGED <<now, clearsLeft, tables, skipped>>

Tick ==
    /\ now < MaxTime
    /\ now' = now + 1
    /\ UNCHANGED <<faultsLeft, clearsLeft, tables, clearing, job, skipped>>

Next ==
    \/ Tick
    \/ \E c \in Collectors :
          \/ Start(c) \/ StartClearing(c)
          \/ \E t \in Tables : Delete(c, t) \/ DeleteFails(c, t) \/ OrphanEnds(c, t)
          \/ BeginSource(c) \/ SourceFails(c) \/ Finish(c)
          \/ SaveSpends(c) \/ SaveIncomes(c)
          \/ DayFails(c) \/ ReadReverts(c) \/ PriceFails(c)
          \/ Crash(c)

Spec == Init /\ [][Next]_vars

-----------------------------------------------------------------------------
(***************************************************************************)
(* Properties.                                                             *)
(***************************************************************************)
(* Neither table has a hole: between two rows of a source in a table every *)
(* midnight has its row, or a failure took it.  The two tables get out of  *)
(* step in a crash and in a clearing that fails, and what they lead back   *)
(* to must leave no day behind.                                            *)
NoHole ==
    \A t \in Tables, s \in Sources : \A r, q \in rows[t][s] :
        \A d \in r.date .. q.date :
            IsMidnight(d) => HasRow(t, s, d) \/ d \in skipped[s]

(* Incomes are stored last: after a crash the spends of a day may be       *)
(* stored again, but the incomes never, unless the search returned a block *)
(* mined before the midnight it was asked for.  The next run then goes on  *)
(* from that block, and the first midnight after it is the same day.       *)
EarlyRows(t, s) == {r \in rows[t][s] : r.block < r.date}

IncomesAreNotRepeated ==
    \A s \in Sources : repeated["incomes"][s] \subseteq {r.date : r \in EarlyRows("incomes", s)}
=============================================================================
