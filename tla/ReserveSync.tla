----------------------------- MODULE ReserveSync -----------------------------
(***************************************************************************)
(* The daily collection of reserves: GetHistoryService's jobs and its      *)
(* process-local lock, ContractService.saveReserves, and the two tables    *)
(* they write, `source' (the checkpoint blockNumber of every source) and   *)
(* `reserves' (one row per source and day).                                *)
(*                                                                         *)
(* A job is one caller of the service: the daily cron, the administrator's *)
(* POST /v1/admin/reserves/collect, or the history:get command.  Jobs run  *)
(* on a host (an operating system process): the lock is a field of the     *)
(* service and is shared by the jobs of one host only.  A step of a job is *)
(* what happens between two awaits that other jobs can observe: a read or  *)
(* a write of the database.  Reading the chain and the price changes       *)
(* nothing another job reads, so they are part of the write they lead to.  *)
(***************************************************************************)
EXTENDS DailyGrid, Sequences, FiniteSets

CONSTANTS
    Hosts,        \* processes that hold a GetHistoryService
    Jobs,         \* callers of the service
    HostOf,       \* [Jobs -> Hosts]
    KindOf,       \* [Jobs -> {"history", "reserves"}]
    Scheduled,    \* the jobs a cron fires every day; the others are started at will
    NSources,     \* sources have the ids 1 .. NSources, their order in every listing
    Algorithms,   \* [Sources -> Seq(STRING)], the column source.algorithm
    CreationBlock,\* [Sources -> Block], the block that created the contract
    StartDates,   \* start dates an administrator may ask for with clearData
    Faults,       \* what the environment may do wrong, a subset of FaultKinds
    MaxFaults,    \* bound: failures and crashes in a behaviour
    MaxClears,    \* bound: collections started with clearData
    MaxTime       \* bound: the clock stops there

Sources == 1 .. NSources
Kinds == {"history", "reserves"}
FaultKinds == {"rpc", "revert", "invalid", "price", "mail", "db", "crash"}
NoDate == -1

(***************************************************************************)
(* The algorithms startReservesProcessing selects sources by, as far as    *)
(* this model tells them apart; comet_stats is the one it leaves out.      *)
(***************************************************************************)
ReservesAlgorithms == {"comet", "market_v2", "eth_wallet", "comptroller", "rewards"}

ASSUME JobAssumption ==
    /\ HostOf \in [Jobs -> Hosts]
    /\ KindOf \in [Jobs -> Kinds]
    /\ Scheduled \subseteq Jobs

ASSUME SourceAssumption ==
    /\ NSources \in Nat
    /\ Algorithms \in [Sources -> Seq(STRING)]
    /\ CreationBlock \in [Sources -> Block]
    /\ \A s \in Sources : CreationBlock[s] > EarlySlip
    /\ StartDates \subseteq Nat

ASSUME BoundAssumption ==
    /\ Faults \subseteq FaultKinds
    /\ MaxFaults \in Nat /\ MaxClears \in Nat /\ MaxTime \in Nat
    /\ \A s \in Sources : CreationBlock[s] <= MaxTime

VARIABLES
    now,          \* the clock, and the head of the chain
    faultsLeft,   \* failures that may still happen
    clearsLeft,   \* clearing collections that may still be started
    blockNumber,  \* table source: the checkpoint of every source
    reserves,     \* table reserves: the distinct rows of every source
    repeated,     \* table reserves: the days a source has more than one row for
    isProcessing, \* the lock of every host
    job,          \* the local state of every job
    entity,       \* the Source entities a job loaded: their blockNumber
    base,         \* history: the block the collection of a source was last asked to start from
    skipped,      \* history: days a source was moved past after a failed read or write
    unpriced,     \* history: days whose price lookup failed
    uncommitted   \* history: days with a row that a failed write or a crash left
                  \* without a checkpoint behind it

tables == <<blockNumber, reserves, repeated>>
history == <<base, skipped, unpriced, uncommitted>>
bounds == <<now, faultsLeft, clearsLeft>>
vars == <<bounds, tables, isProcessing, job, entity, history>>

-----------------------------------------------------------------------------
(***************************************************************************)
(* Local state of a job.                                                   *)
(*   pc      idle, or what the next step is                                *)
(*   clear   started with clearData; date is the start date asked for      *)
(*   src     the source being processed; alg, its algorithm, by position   *)
(*   purge   the sources whose rows will be deleted                        *)
(*   last    lastBlock; target, the day in progress; today, the last day   *)
(*   found   the block a row was saved for, not yet in the checkpoint      *)
(***************************************************************************)
Phases == {"idle", "list", "rewind", "task", "day", "commit"}

JobState ==
    [pc: Phases, clear: BOOLEAN, date: Nat \cup {NoDate}, src: Nat, alg: Nat,
     purge: SUBSET Sources, last: Block, target: Nat, today: Nat, found: Block]

IdleJob ==
    [pc |-> "idle", clear |-> FALSE, date |-> NoDate, src |-> 1, alg |-> 1,
     purge |-> {}, last |-> 0, target |-> 0, today |-> 0, found |-> 0]

NothingLoaded == [s \in Sources |-> 0]

Row == [date: Nat, block: Block, algorithm: STRING]
HasRow(s, d) == \E r \in reserves[s] : r.date = d
RowsBeyond(s, b) == {r.date : r \in {x \in reserves[s] : x.date > b}}

TypeOK ==
    /\ now \in Nat /\ faultsLeft \in Nat /\ clearsLeft \in Nat
    /\ blockNumber \in [Sources -> Block]
    /\ reserves \in [Sources -> SUBSET Row]
    /\ repeated \in [Sources -> SUBSET Nat]
    /\ isProcessing \in [Hosts -> BOOLEAN]
    /\ job \in [Jobs -> JobState]
    /\ entity \in [Jobs -> [Sources -> Block]]
    /\ base \in [Sources -> Block]
    /\ skipped \in [Sources -> SUBSET Nat]
    /\ unpriced \in [Sources -> SUBSET Nat]
    /\ uncommitted \in [Sources -> SUBSET Nat]

(***************************************************************************)
(* A deployment starts with the sources seeded at their creation blocks    *)
(* and nothing collected.                                                  *)
(***************************************************************************)
Init ==
    /\ now \in {CreationBlock[s] : s \in Sources}
    /\ \A s \in Sources : CreationBlock[s] <= now
    /\ faultsLeft = MaxFaults
    /\ clearsLeft = MaxClears
    /\ blockNumber = CreationBlock
    /\ reserves = [s \in Sources |-> {}]
    /\ repeated = [s \in Sources |-> {}]
    /\ isProcessing = [h \in Hosts |-> FALSE]
    /\ job = [j \in Jobs |-> IdleJob]
    /\ entity = [j \in Jobs |-> NothingLoaded]
    /\ base = CreationBlock
    /\ skipped = [s \in Sources |-> {}]
    /\ unpriced = [s \in Sources |-> {}]
    /\ uncommitted = [s \in Sources |-> {}]

-----------------------------------------------------------------------------
(***************************************************************************)
(* What a job does with a source.                                          *)
(***************************************************************************)

(* getHistory runs every algorithm of a source; startReservesProcessing    *)
(* runs the first one it knows, and lists the sources that have one.       *)
Runs(j, s, k) ==
    /\ k \in DOMAIN Algorithms[s]
    /\ KindOf[j] = "reserves" =>
          /\ Algorithms[s][k] \in ReservesAlgorithms
          /\ \A i \in 1 .. k - 1 : Algorithms[s][i] \notin ReservesAlgorithms

Lists(j, s) == \E k \in DOMAIN Algorithms[s] : Runs(j, s, k)

(* dto.blockNumber is tested for truth before it is assigned: 0 is ignored. *)
Assigned(old, block) == IF block = 0 THEN old ELSE block

AfterSource(r) ==
    [r EXCEPT !.pc = "task", !.alg = @ + 1, !.last = 0, !.target = 0, !.today = 0, !.found = 0]

(* The day loop goes on with lastBlock = last, or ends after today.        *)
AfterDay(r, last) ==
    IF r.target + Day > r.today
    THEN AfterSource(r)
    ELSE [r EXCEPT !.pc = "day", !.last = last, !.target = @ + Day, !.found = 0]

(***************************************************************************)
(* The environment.  A failure uses up one of the failures that may still  *)
(* happen; a mail that cannot be sent comes with the failure it reports.   *)
(***************************************************************************)
Fault(f) ==
    /\ f \in Faults
    /\ faultsLeft > 0
    /\ faultsLeft' = faultsLeft - 1

NoFault == UNCHANGED faultsLeft
MailFails == "mail" \in Faults

Move(j, r) == job' = [job EXCEPT ![j] = r]

(* Mutant: the lock is not released when the job ends.                     *)
EndWithoutRelease(j) ==
    /\ Move(j, IdleJob)
    /\ entity' = [entity EXCEPT ![j] = NothingLoaded]
    /\ UNCHANGED isProcessing

(* The end of executeWithLock, with or without an exception.               *)
Release(j) ==
    /\ Move(j, IdleJob)
    /\ entity' = [entity EXCEPT ![j] = NothingLoaded]
    /\ isProcessing' = [isProcessing EXCEPT ![HostOf[j]] = FALSE]

-----------------------------------------------------------------------------
(***************************************************************************)
(* Starting a job.  executeWithLock tests and sets the lock without        *)
(* awaiting in between; a caller that finds it set returns and changes     *)
(* nothing.                                                                *)
(***************************************************************************)
(* Mutant: the lock is taken without looking.                              *)
ExecuteWithoutLooking(j, clear, date) ==
    /\ job[j].pc = "idle"
    /\ isProcessing' = [isProcessing EXCEPT ![HostOf[j]] = TRUE]
    /\ Move(j, [IdleJob EXCEPT !.pc = "list", !.clear = clear, !.date = date])
    /\ UNCHANGED <<now, faultsLeft, tables, entity, history>>

ExecuteWithLock(j, clear, date) ==
    /\ job[j].pc = "idle"
    /\ ~isProcessing[HostOf[j]]
    /\ isProcessing' = [isProcessing EXCEPT ![HostOf[j]] = TRUE]
    /\ Move(j, [IdleJob EXCEPT !.pc = "list", !.clear = clear, !.date = date])
    /\ UNCHANGED <<now, faultsLeft, tables, entity, history>>

(* The cron, the command, or the administrator without clearData.          *)
StartCollection(j) ==
    /\ ExecuteWithLock(j, FALSE, NoDate)
    /\ UNCHANGED clearsLeft

(* The administrator with clearData, with or without a start date.         *)
StartClearing(j) ==
    /\ KindOf[j] = "reserves"
    /\ clearsLeft > 0
    /\ \E date \in StartDates \cup {NoDate} :
          /\ date <= now
          /\ ExecuteWithLock(j, TRUE, date)
    /\ clearsLeft' = clearsLeft - 1

(* listAll or listByAlgorithms: the entities the job works on from here.   *)
ListSources(j) ==
    /\ job[j].pc = "list"
    /\ \/ /\ NoFault
          /\ entity' = [entity EXCEPT ![j] = blockNumber]
          /\ Move(j, [job[j] EXCEPT !.pc = IF job[j].clear THEN "rewind" ELSE "task"])
          /\ UNCHANGED isProcessing
       \/ Fault("db") /\ Release(j)
    /\ UNCHANGED <<now, clearsLeft, tables, history>>

-----------------------------------------------------------------------------
(***************************************************************************)
(* clearData: updateSourcesBlockNumber moves the checkpoints of the listed *)
(* sources one after the other, then one DELETE removes all rows of the    *)
(* sources it moved.                                                       *)
(***************************************************************************)

(* getSourceBlockNumber, when every call it makes succeeds.                *)
RequestedBlocks(s, date) ==
    IF date < CreationBlock[s]
    THEN {CreationBlock[s]}
    ELSE FoundBlocks(date, 0, now)

(* The rows whose checkpoint is yet to be written: that of the day in      *)
(* progress, and those a DELETE is to remove.  A job that does not get     *)
(* there leaves them behind.                                               *)
Pending(j, s) ==
    (IF job[j].pc = "commit" /\ job[j].src = s THEN {job[j].target} ELSE {})
        \cup (IF s \in job[j].purge THEN RowsBeyond(s, blockNumber[s]) ELSE {})

LeavesPending(jobs) ==
    uncommitted' = [s \in Sources |-> uncommitted[s] \cup UNION {Pending(j, s) : j \in jobs}]

(* A start that could not be stored does not make a job claim more days.   *)
Later(b, c) == IF b > c THEN b ELSE c

(* Mutant: the source is moved, but not marked for the DELETE.             *)
RewindUnmarked(j, purge) == Move(j, [job[j] EXCEPT !.src = @ + 1])

NextRewind(j, purge) ==
    Move(j, [job[j] EXCEPT !.src = @ + 1, !.purge = purge])

(* The source is moved, and marked for the DELETE.                         *)
Rewind(j) ==
    LET s == job[j].src
    IN  /\ job[j].pc = "rewind" /\ s \in Sources
        /\ Lists(j, s)
        /\ \E b \in RequestedBlocks(s, job[j].date) :
              /\ b # entity[j][s]
              /\ entity' = [entity EXCEPT ![j][s] = Assigned(@, b)]
              /\ \/ /\ NoFault
                    /\ blockNumber' = [blockNumber EXCEPT ![s] = Assigned(entity[j][s], b)]
                    /\ base' = [base EXCEPT ![s] = Assigned(@, b)]
                    /\ NextRewind(j, job[j].purge \cup {s})
                    /\ UNCHANGED uncommitted
                 \/ /\ Fault("db")   \* the entity is already modified
                    /\ base' = [base EXCEPT ![s] = Later(@, b)]
                    /\ uncommitted' = [uncommitted EXCEPT ![s] = @ \cup RowsBeyond(s, b)]
                    /\ UNCHANGED blockNumber
                    /\ NextRewind(j, job[j].purge)
        /\ UNCHANGED <<now, clearsLeft, reserves, repeated, isProcessing, skipped, unpriced>>

(* The source stays where it is and keeps its rows: it is not one of the   *)
(* listed sources, it already is at the requested block, or the search     *)
(* failed, with or without the fallback to source.blockNumber.             *)
KeepSource(j) ==
    LET s == job[j].src
    IN  /\ job[j].pc = "rewind" /\ s \in Sources
        /\ \/ ~Lists(j, s) /\ NoFault
           \/ entity[j][s] \in RequestedBlocks(s, job[j].date) /\ NoFault
           \/ Fault("rpc")
        /\ NextRewind(j, job[j].purge)
        /\ UNCHANGED <<now, clearsLeft, tables, isProcessing, entity, history>>

(* Mutant: the rows of every listed source are deleted, moved or not.      *)
PurgeAllListed(j) ==
    /\ job[j].pc = "rewind" /\ job[j].src \notin Sources
    /\ NoFault
    /\ reserves' = [s \in Sources |-> IF Lists(j, s) THEN {} ELSE reserves[s]]
    /\ repeated' = [s \in Sources |-> IF Lists(j, s) THEN {} ELSE repeated[s]]
    /\ Move(j, [job[j] EXCEPT !.pc = "task", !.src = 1, !.purge = {}])
    /\ UNCHANGED <<now, clearsLeft, blockNumber, isProcessing, entity, history>>

(* deleteBySourceIds; an exception here ends the job.                      *)
Purge(j) ==
    /\ job[j].pc = "rewind" /\ job[j].src \notin Sources
    /\ \/ /\ NoFault
          /\ reserves' = [s \in Sources |-> IF s \in job[j].purge THEN {} ELSE reserves[s]]
          /\ repeated' = [s \in Sources |-> IF s \in job[j].purge THEN {} ELSE repeated[s]]
          /\ Move(j, [job[j] EXCEPT !.pc = "task", !.src = 1, !.purge = {}])
          /\ UNCHANGED <<entity, isProcessing, uncommitted>>
       \/ Fault("db") /\ Release(j) /\ LeavesPending({j}) /\ UNCHANGED <<reserves, repeated>>
    /\ UNCHANGED <<now, clearsLeft, blockNumber, base, skipped, unpriced>>

-----------------------------------------------------------------------------
(***************************************************************************)
(* saveReserves(source, algorithm), from the start to the day loop.        *)
(***************************************************************************)
AtTask(j) ==
    /\ job[j].pc = "task" /\ job[j].src \in Sources
    /\ Runs(j, job[j].src, job[j].alg)

(* Past an algorithm the job does not run, or to the next source.          *)
NextTask(j) ==
    LET s == job[j].src
        k == job[j].alg
    IN  /\ job[j].pc = "task" /\ s \in Sources
        /\ ~Runs(j, s, k)
        /\ Move(j, IF k < Len(Algorithms[s])
                   THEN [job[j] EXCEPT !.alg = k + 1]
                   ELSE [job[j] EXCEPT !.src = s + 1, !.alg = 1])
        /\ UNCHANGED <<bounds, tables, isProcessing, entity, history>>

Finish(j) ==
    /\ job[j].pc = "task" /\ job[j].src \notin Sources
    /\ Release(j)
    /\ UNCHANGED <<bounds, tables, history>>

Algorithm(j) == Algorithms[job[j].src][job[j].alg]
IsStats(j) == Algorithm(j) = "comet_stats"

(* saveStats touches neither table; module StatsSync models it.            *)
RunStats(j) ==
    /\ AtTask(j) /\ IsStats(j)
    /\ Move(j, AfterSource(job[j]))
    /\ UNCHANGED <<bounds, tables, isProcessing, entity, history>>

(* There are midnights after the checkpoint: walk them.                    *)
BeginSource(j) ==
    LET start == entity[j][job[j].src]
    IN  /\ AtTask(j) /\ ~IsStats(j)
        /\ start <= now
        /\ FirstMidnightUTC(start) <= TodayMidnightUTC(now)
        /\ Move(j, [job[j] EXCEPT !.pc = "day", !.last = start,
                                  !.target = FirstMidnightUTC(start),
                                  !.today = TodayMidnightUTC(now)])
        /\ UNCHANGED <<bounds, tables, isProcessing, entity, history>>

(* There are none: the checkpoint is written back as the job loaded it.    *)
UpToDate(j) ==
    LET s == job[j].src
    IN  /\ AtTask(j) /\ ~IsStats(j)
        /\ entity[j][s] <= now
        /\ FirstMidnightUTC(entity[j][s]) > TodayMidnightUTC(now)
        /\ blockNumber' = [blockNumber EXCEPT ![s] = entity[j][s]]
        /\ Move(j, AfterSource(job[j]))
        /\ UNCHANGED <<bounds, reserves, repeated, isProcessing, entity, history>>

(* The start block cannot be read, or the checkpoint not written, or       *)
(* saveStats failed: a mail is sent, and the job goes on with the next     *)
(* algorithm.  If the mail fails the exception ends the job.               *)
SourceFails(j) ==
    /\ AtTask(j)
    /\ Fault("rpc") \/ Fault("db")
    /\ \/ Move(j, AfterSource(job[j])) /\ UNCHANGED <<isProcessing, entity>>
       \/ MailFails /\ Release(j)
    /\ UNCHANGED <<now, clearsLeft, tables, history>>

-----------------------------------------------------------------------------
(***************************************************************************)
(* One day: find the block, read the reserves at it, fetch the price, save *)
(* the row, advance the checkpoint.                                        *)
(***************************************************************************)
AtDay(j) == job[j].pc = "day"

(* The blocks the search of the day in progress may return.                *)
DayBlocks(j) == FoundBlocks(job[j].target, job[j].last, now)

Skip(j) == skipped' = [skipped EXCEPT ![job[j].src] = @ \cup {job[j].target}]

(* The INSERT; nothing looks for a row of the day first, and no constraint *)
(* of the table refuses a second one.                                      *)
SaveRow(j) ==
    LET s == job[j].src
        d == job[j].target
    IN  /\ AtDay(j)
        /\ \E b \in DayBlocks(j) :
              /\ reserves' = [reserves EXCEPT ![s] = @ \cup
                    {[date |-> d, block |-> b, algorithm |-> Algorithm(j)]}]
              /\ Move(j, [job[j] EXCEPT !.pc = "commit", !.found = b])
        /\ repeated' = [repeated EXCEPT ![s] = IF HasRow(s, d) THEN @ \cup {d} ELSE @]
        /\ UNCHANGED <<bounds, blockNumber, isProcessing, entity, history>>

(* updateWithSource with the block of the row just saved.                  *)
Commit(j) ==
    LET s == job[j].src
    IN  /\ job[j].pc = "commit"
        /\ entity' = [entity EXCEPT ![j][s] = Assigned(@, job[j].found)]
        /\ blockNumber' = [blockNumber EXCEPT ![s] = Assigned(entity[j][s], job[j].found)]
        /\ Move(j, AfterDay(job[j], job[j].found))
        /\ UNCHANGED <<bounds, reserves, repeated, isProcessing, history>>

(* The write fails after the entity was modified: the day counts as failed *)
(* and the loop goes on from the block after the fallback.                 *)
CommitFails(j) ==
    /\ job[j].pc = "commit"
    /\ Fault("db")
    /\ entity' = [entity EXCEPT ![j][job[j].src] = Assigned(@, job[j].found)]
    /\ Move(j, AfterDay(job[j], SkipADay(job[j].last)))
    /\ LeavesPending({j})
    /\ UNCHANGED <<now, clearsLeft, tables, isProcessing, base, skipped, unpriced>>

(* Mutant: a skipped day advances the checkpoint as well.                  *)
RevertAdvances(j) ==
    /\ AtDay(j)
    /\ Fault("revert")
    /\ Skip(j)
    /\ \E b \in DayBlocks(j) :
          /\ Move(j, AfterDay(job[j], b))
          /\ blockNumber' = [blockNumber EXCEPT ![job[j].src] = b]
    /\ UNCHANGED <<now, clearsLeft, reserves, repeated, isProcessing, entity, base, unpriced, uncommitted>>

(* CALL_EXCEPTION: the day is skipped and a mail is sent.  lastBlock is    *)
(* assigned before the mail, so a mail that fails adds the fallback to it. *)
ReadReverts(j) ==
    /\ AtDay(j)
    /\ Fault("revert")
    /\ Skip(j)
    /\ \E b \in DayBlocks(j) :
          \/ Move(j, AfterDay(job[j], b))
          \/ MailFails /\ Move(j, AfterDay(job[j], SkipADay(b)))
    /\ UNCHANGED <<now, clearsLeft, tables, isProcessing, entity, base, unpriced, uncommitted>>

(* The value is not a number: the day is skipped without a mail.           *)
ValueInvalid(j) ==
    /\ AtDay(j)
    /\ Fault("invalid")
    /\ Skip(j)
    /\ \E b \in DayBlocks(j) : Move(j, AfterDay(job[j], b))
    /\ UNCHANGED <<now, clearsLeft, tables, isProcessing, entity, base, unpriced, uncommitted>>

(* Mutant: a day without a price is skipped like any other failed day.     *)
PriceSkipsTheDay(j) ==
    /\ AtDay(j)
    /\ Fault("price")
    /\ unpriced' = [unpriced EXCEPT ![job[j].src] = @ \cup {job[j].target}]
    /\ \E b \in DayBlocks(j) : Move(j, AfterDay(job[j], b))
    /\ UNCHANGED <<now, clearsLeft, tables, isProcessing, entity, base, skipped, uncommitted>>

(* No price, or one that is not positive: a mail is sent and the source is *)
(* left, for the next run to retry the day.  A mail that fails turns the   *)
(* stop into a failed day.                                                 *)
PriceFails(j) ==
    /\ AtDay(j)
    /\ DayBlocks(j) # {}
    /\ Fault("price")
    /\ unpriced' = [unpriced EXCEPT ![job[j].src] = @ \cup {job[j].target}]
    /\ \/ Move(j, AfterSource(job[j]))
       \/ MailFails /\ Move(j, AfterDay(job[j], SkipADay(job[j].last)))
    /\ UNCHANGED <<now, clearsLeft, tables, isProcessing, entity, base, skipped, uncommitted>>

(* Any other failure, of the search, of the read, or of the INSERT: the    *)
(* day is skipped and a day's worth of blocks with it.  The search fails   *)
(* whenever lastBlock is beyond the head.                                  *)
DayFails(j) ==
    /\ AtDay(j)
    /\ \/ Fault("rpc")
       \/ Fault("db")
       \/ DayBlocks(j) = {} /\ NoFault
    /\ Skip(j)
    /\ Move(j, AfterDay(job[j], SkipADay(job[j].last)))
    /\ UNCHANGED <<now, clearsLeft, tables, isProcessing, entity, base, unpriced, uncommitted>>

-----------------------------------------------------------------------------
(***************************************************************************)
(* The host dies and is started again: its jobs and its lock are gone.     *)
(***************************************************************************)
Crash(h) ==
    /\ \E j \in Jobs : HostOf[j] = h /\ job[j].pc # "idle"
    /\ Fault("crash")
    /\ isProcessing' = [isProcessing EXCEPT ![h] = FALSE]
    /\ job' = [j \in Jobs |-> IF HostOf[j] = h THEN IdleJob ELSE job[j]]
    /\ entity' = [j \in Jobs |-> IF HostOf[j] = h THEN NothingLoaded ELSE entity[j]]
    /\ LeavesPending({j \in Jobs : HostOf[j] = h})
    /\ UNCHANGED <<now, clearsLeft, tables, base, skipped, unpriced>>

Tick ==
    /\ now < MaxTime
    /\ now' = now + 1
    /\ UNCHANGED <<faultsLeft, clearsLeft, tables, isProcessing, job, entity, history>>

(* What a running job does, once started.                                  *)
JobStep(j) ==
    \/ ListSources(j)
    \/ Rewind(j) \/ KeepSource(j) \/ Purge(j)
    \/ NextTask(j) \/ RunStats(j) \/ BeginSource(j) \/ UpToDate(j) \/ SourceFails(j)
    \/ SaveRow(j) \/ Commit(j) \/ CommitFails(j)
    \/ ReadReverts(j) \/ ValueInvalid(j) \/ PriceFails(j) \/ DayFails(j)
    \/ Finish(j)

Next ==
    \/ Tick
    \/ \E h \in Hosts : Crash(h)
    \/ \E j \in Jobs : StartCollection(j) \/ StartClearing(j) \/ JobStep(j)

Spec == Init /\ [][Next]_vars

(***************************************************************************)
(* A job that runs keeps taking steps.  A request to a node gives up after *)
(* 30 seconds (provider.factory.ts); that requests for prices, queries and *)
(* mails return is assumed, since the code sets no timeout for them.  The  *)
(* scheduler fires every day for ever; time passes.  Nothing makes a       *)
(* person start a collection.                                              *)
(***************************************************************************)
Fairness ==
    /\ WF_vars(Tick)
    /\ \A j \in Jobs : WF_vars(JobStep(j))
    /\ \A j \in Scheduled : WF_vars(StartCollection(j))

FairSpec == Spec /\ Fairness

-----------------------------------------------------------------------------
(***************************************************************************)
(* Properties.                                                             *)
(***************************************************************************)
Running(j) == job[j].pc # "idle"

(* The days a job moved past without a row.  A failed price lookup counts  *)
(* only where its mail may fail: otherwise the job stops at the day.       *)
GivenUp(s) == IF MailFails THEN skipped[s] \cup unpriced[s] ELSE skipped[s]

(* Every midnight after the start of a source, up to b, has a row or was   *)
(* moved past by a failure.                                                *)
Settled(s, d) == HasRow(s, d) \/ d \in GivenUp(s)
SettledUpTo(s, b) == \A d \in base[s] + 1 .. b : IsMidnight(d) => Settled(s, d)

(* At most one job at a time runs on a host, and the lock of the host says *)
(* so: executeWithLock neither admits a second job nor forgets to release. *)
OneJobPerHost ==
    /\ \A j, k \in Jobs : Running(j) /\ Running(k) /\ HostOf[j] = HostOf[k] => j = k
    /\ \A h \in Hosts : isProcessing[h] <=> \E j \in Jobs : HostOf[j] = h /\ Running(j)

(* No midnight is silently lost: between the block a collection was asked  *)
(* to start from and the checkpoint, every midnight has a row or was moved *)
(* past by a failure.  Crashes between saveReserves' two writes, rewinds,  *)
(* failed writes and overtaking jobs must all keep it.                     *)
NoSilentGap == \A s \in Sources : SettledUpTo(s, blockNumber[s])

(* "Stop processing - will retry from this date on next cron run"          *)
(* (contract.service.ts:739): a day whose price lookup failed is not left  *)
(* behind the checkpoint before a retry gave it its row, or failed for     *)
(* another reason.  The README (204) says that such a lookup defaults to   *)
(* $1, which would give the day a row at once; the code stores none.       *)
FailedPriceIsRetried ==
    \A s \in Sources : \A d \in unpriced[s] :
        base[s] < d /\ d <= blockNumber[s] => HasRow(s, d) \/ d \in skipped[s]

(* README, "Stores on-chain reserve balances per-day": a source has at     *)
(* most one row for a day.  No constraint of the table says so.            *)
OneRowPerDay == \A s \in Sources : repeated[s] = {}

(* Why a source may have two rows for a day, on one host: the block of a   *)
(* row was mined before its midnight, so that the next run begins with the *)
(* same day; or the checkpoint was not written after the row, the rows not *)
(* deleted after a rewind, or the rewind not written.  Nothing else does   *)
(* it: no clearing, skipped day, refused price, or job without progress.   *)
RepeatsHaveACause ==
    \A s \in Sources :
        repeated[s] \subseteq
            uncommitted[s] \cup {r.date : r \in {x \in reserves[s] : x.block < x.date}}

(* The block of a row stands for the midnight it is dated, up to the slip  *)
(* of the search and the overshoot of the fallback: every day that failed  *)
(* before it put lastBlock ahead by the excess of the configured           *)
(* blocksPerDay over the blocks of a day, and by no more.                  *)
Excess == IF BlocksPerDay > Day THEN BlocksPerDay - Day ELSE 0
FailedBefore(s, d) == {f \in GivenUp(s) \cup uncommitted[s] : f < d}
Overshoot(s, d) == Excess * Cardinality(FailedBefore(s, d))

RowsAreNearTheirDay ==
    \A s \in Sources : \A r \in reserves[s] :
        /\ r.date - EarlySlip <= r.block
        /\ r.block <= r.date + LateSlip + Overshoot(s, r.date)

(* A checkpoint never gets ahead of the rows: beyond the requested start   *)
(* it moves only to the block of a row that is already stored.             *)
CheckpointFollowsRow ==
    [][\A s \in Sources :
         blockNumber'[s] # blockNumber[s] =>
            \/ blockNumber'[s] <= base'[s]
            \/ \E r \in reserves'[s] : r.block = blockNumber'[s]]_vars

(* Only a collection started with clearData moves a checkpoint back.       *)
CheckpointMovesBackToClear ==
    [][(\E s \in Sources : blockNumber'[s] < blockNumber[s]) =>
         \E j \in Jobs : job[j].clear]_vars

(* The collection keeps the promise of DailyLedger.  Beyond NoSilentGap: a *)
(* row disappears only in the DELETE of a clearing collection, and only    *)
(* while the checkpoint of its source claims nothing.                      *)
Ledger == INSTANCE DailyLedger WITH
    Source <- Sources, Instant <- 0 .. MaxTime, IsDay <- IsMidnight,
    origin <- base, frontier <- blockNumber,
    recorded <- [s \in Sources |-> {r.date : r \in reserves[s]}],
    givenUp <- [s \in Sources |-> GivenUp(s)]

KeepsLedger == Ledger!Spec

(* Every lock taken is released.                                           *)
LockIsReleased ==
    \A h \in Hosts : isProcessing[h] ~> ~isProcessing[h]

(* The collection catches up: in the end every midnight up to today has    *)
(* its row, or a failed read or write has taken it away.                   *)
CatchesUp ==
    <>[](\A s \in Sources : \A d \in base[s] + 1 .. TodayMidnightUTC(now) :
            IsMidnight(d) => HasRow(s, d) \/ d \in skipped[s])

-----------------------------------------------------------------------------
(***************************************************************************)
(* What keeps NoSilentGap, step after step.                                *)
(***************************************************************************)
InDayLoop(j) == job[j].pc \in {"day", "commit"}

(* A collection with clearData never runs beside another job.              *)
ClearingIsAlone == MaxClears = 0 \/ \A j, k \in Jobs : HostOf[j] = HostOf[k]
(* Skipping a day's worth of blocks never skips more than a day.           *)
FallbackKeepsPace == BlocksPerDay <= Day

(* Whatever checkpoint a job may write back from memory claims settled     *)
(* days only; a job that has not listed its sources holds none.            *)
EntitiesSettled(j) ==
    /\ \A s \in Sources : SettledUpTo(s, entity[j][s])
    /\ job[j].pc \in {"idle", "list"} => entity[j] = NothingLoaded /\ job[j].purge = {}

(* The sources whose rows are about to be deleted claim nothing.           *)
PurgeClaimsNothing(j) ==
    job[j].pc = "rewind" =>
        /\ job[j].clear
        /\ \A s \in job[j].purge :
              s < job[j].src /\ blockNumber[s] <= base[s] /\ entity[j][s] <= base[s]

(* In the day loop all days before the target are settled, and lastBlock   *)
(* has not run past it.                                                    *)
LoopKeepsPace(j) ==
    InDayLoop(j) =>
        /\ IsMidnight(job[j].target)
        /\ job[j].last <= job[j].target + LateSlip
        /\ SettledUpTo(job[j].src, job[j].target - 1)

(* Between the row and the checkpoint, the day itself is settled too.      *)
FoundIsSettled(j) ==
    job[j].pc = "commit" =>
        /\ SettledUpTo(job[j].src, job[j].target)
        /\ job[j].found <= job[j].target + LateSlip

ClearingIsCounted(j) == job[j].clear => MaxClears > 0

(* The inductive invariant: nothing the next step of any job could write,  *)
(* to a checkpoint or by deleting rows, would open a gap.                  *)
JobInv(j) ==
    /\ EntitiesSettled(j) /\ PurgeClaimsNothing(j)
    /\ LoopKeepsPace(j) /\ FoundIsSettled(j) /\ ClearingIsCounted(j)

LedgerInv ==
    /\ NoSilentGap
    /\ clearsLeft <= MaxClears
    /\ \A j \in Jobs : JobInv(j)
=============================================================================
