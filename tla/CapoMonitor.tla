------------------------------ MODULE CapoMonitor ------------------------------
(***************************************************************************)
(* Monitoring of the capped price oracles: CapoService.collectOracleData,  *)
(* which takes a snapshot of every oracle a minute and raises alerts,      *)
(* AlertService.createAlert with its cooldown and two channels, and        *)
(* CapoService.aggregateDailyData, which folds the snapshots of a day into *)
(* a row per oracle.                                                       *)
(*                                                                         *)
(* All of it runs in one server.  A collection has a lock; an aggregation  *)
(* has none, and one that takes longer than the cron's three minutes meets *)
(* the next one.  The values of a snapshot are left out: an aggregate is   *)
(* known by the snapshots that went into it.                               *)
(***************************************************************************)
EXTENDS Integers, Sequences

CONSTANTS
    NOracles,     \* the active oracles are 1 .. NOracles, in the order listed
    WithAsset,    \* those an operator has assigned an asset
    Aggregations, \* slots 1 .. n for aggregations that may be under way at once
    Cases,        \* bound: what a behaviour may meet, a set of records of a number
                  \* of slots, the checks that may come out true, and whether
                  \* the token and the chat of Telegram are configured
    Channels,     \* the enabled channels, a subset of {"mail", "telegram"}
    Cooldown,     \* ALERT_COOLDOWN_MINUTES
    DayLength,    \* minutes in a day
    Faults,       \* what may go wrong, a subset of FaultKinds
    MaxFaults,    \* bound: failures and restarts in a behaviour
    MaxTime       \* bound: the clock stops there

(* The checks of a snapshot, in the order of the code; 0 stands for the    *)
(* alert that the collection of an oracle failed.                          *)
Checks == <<"CAPPED", "RAPID_GROWTH", "SLOW_GROWTH", "PRICE_ABOVE_CAP", "PRICE_SPIKE">>
Alerts == 0 .. Len(Checks)
Error == 0
Informative == {k \in 1 .. Len(Checks) : Checks[k] = "SLOW_GROWTH"}

Oracles == 1 .. NOracles
Time == 0 .. MaxTime
Never == -1
DayOf(t) == t \div DayLength
Crons == {"collect", "aggregate"}
FaultKinds == {"rpc", "db", "mail", "telegram", "stall", "crash"}

ASSUME CapoAssumption ==
    /\ NOracles \in Nat /\ WithAsset \subseteq Oracles
    /\ Cases \subseteq [slots : Aggregations, credentials : BOOLEAN,
                        checks : SUBSET {Checks[k] : k \in 1 .. Len(Checks)}]
    /\ Channels \subseteq {"mail", "telegram"} /\ Aggregations \subseteq Nat
    /\ Cooldown \in Nat /\ DayLength \in Nat \ {0}
    /\ Faults \subseteq FaultKinds /\ MaxFaults \in Nat /\ MaxTime \in Nat

VARIABLES
    now,          \* the clock, in minutes
    case,         \* the one of Cases that the behaviour is
    faultsLeft,   \* failures that may still happen
    due,          \* the crons that have not fired yet, a subset of Crons
    isCollecting, \* the lock of collectOracleData
    job,          \* the local state of the collection
    snapshots,    \* table oracle_snapshots: the times of an oracle's snapshots
    sent,         \* table alerts: when the last alert with status sent was created
    aggregation,  \* the local state of every aggregation
    daily,        \* table daily_aggregation, in the order of its ids
    delivered,    \* history: when the last alert a channel delivered was created
    unsure,       \* history: alerts sent in part, or with a status that was lost
    collided      \* history: days two aggregations worked on at once

bounds == <<now, case, faultsLeft, due>>
collection == <<isCollecting, job, snapshots>>
alerting == <<sent, delivered, unsure>>
aggregating == <<aggregation, daily, collided>>
vars == <<bounds, collection, alerting, aggregating>>

JobState ==
    [pc: {"idle", "list", "oracle", "check", "create", "mail", "telegram", "mark", "stalled"},
     oracle: 1 .. NOracles + 1, alert: Alerts, created: Time]
NoJob == [pc |-> "idle", oracle |-> 1, alert |-> Error, created |-> 0]

(* todo: the oracles the query returned that are not saved yet; counted:   *)
(* their snapshots, by position; row: the position of the existing row.    *)
AggregationState ==
    [pc: {"idle", "query", "row", "save"}, day: Nat, todo: SUBSET Oracles,
     counted: [Oracles -> SUBSET Nat], row: Nat]
NoAggregation ==
    [pc |-> "idle", day |-> 0, todo |-> {}, counted |-> [o \in Oracles |-> {}], row |-> 0]

TypeOK ==
    /\ now \in Time /\ case \in Cases /\ faultsLeft \in 0 .. MaxFaults /\ due \subseteq Crons
    /\ isCollecting \in BOOLEAN /\ job \in JobState
    /\ snapshots \in [Oracles -> Seq(Time)]
    /\ sent \in [Oracles -> [Alerts -> Time \cup {Never}]]
    /\ aggregation \in [Aggregations -> AggregationState]
    /\ daily \in Seq([oracle: Oracles, day: Nat, counted: SUBSET Nat])
    /\ delivered \in [Channels -> [Oracles -> [Alerts -> Time \cup {Never}]]]
    /\ unsure \subseteq Oracles \X Alerts
    /\ collided \subseteq Nat

Init ==
    /\ now = 0 /\ case \in Cases /\ faultsLeft = MaxFaults /\ due = Crons
    /\ isCollecting = FALSE /\ job = NoJob
    /\ snapshots = [o \in Oracles |-> << >>]
    /\ sent = [o \in Oracles |-> [k \in Alerts |-> Never]]
    /\ aggregation = [a \in Aggregations |-> NoAggregation]
    /\ daily = << >>
    /\ delivered = [c \in Channels |-> sent]
    /\ unsure = {} /\ collided = {}

-----------------------------------------------------------------------------
Fault(f) == f \in Faults /\ faultsLeft > 0 /\ faultsLeft' = faultsLeft - 1
NoFault == UNCHANGED faultsLeft

(***************************************************************************)
(* collectOracleData.                                                      *)
(***************************************************************************)
(* The cron fires every minute, and is skipped while a collection runs.    *)
FireCollection ==
    /\ "collect" \in due /\ due' = due \ {"collect"}
    /\ \/ isCollecting /\ UNCHANGED collection
       \/ /\ ~isCollecting /\ isCollecting' = TRUE
          /\ job' = [NoJob EXCEPT !.pc = "list"] /\ UNCHANGED snapshots
    /\ UNCHANGED <<now, case, faultsLeft, alerting, aggregating>>

(* Mutant: the lock is never released.                                     *)
EndWithoutRelease == UNCHANGED isCollecting /\ job' = NoJob

EndCollection == isCollecting' = FALSE /\ job' = NoJob

ListOracles ==
    /\ job.pc = "list"
    /\ \/ job' = [job EXCEPT !.pc = "oracle"] /\ NoFault /\ UNCHANGED isCollecting
       \/ Fault("db") /\ EndCollection
    /\ UNCHANGED <<now, case, due, snapshots, alerting, aggregating>>

(* Mutant: the catch of an oracle advances the loop as well.                *)
SkipOracle == job' = [NoJob EXCEPT !.pc = "oracle", !.oracle = job.oracle + 2]

NextOracle == job' = [NoJob EXCEPT !.pc = "oracle", !.oracle = job.oracle + 1]
Raise(k) == job' = [job EXCEPT !.pc = "create", !.alert = k]

TakeSnapshot ==
    /\ job.pc = "oracle" /\ job.oracle \in Oracles
    /\ \/ /\ NoFault
          /\ snapshots' = [snapshots EXCEPT ![job.oracle] = Append(@, now)]
          /\ job' = [job EXCEPT !.pc = "check"]
       \/ /\ Fault("rpc") \/ Fault("db")
          /\ Raise(Error) /\ UNCHANGED snapshots
    /\ UNCHANGED <<now, case, due, isCollecting, alerting, aggregating>>

(* The last snapshot taken a day ago or earlier, which the price growth of *)
(* 24 hours is measured against.                                           *)
HasOldSnapshot(o) == snapshots[o] # << >> /\ snapshots[o][1] <= now - DayLength
MayHold(k) ==
    /\ Checks[k] \in case.checks
    /\ Checks[k] = "PRICE_SPIKE" => HasOldSnapshot(job.oracle)

(* The next check that comes out true raises its alert; those between the  *)
(* last one and it came out false.                                         *)
Check ==
    /\ job.pc = "check"
    /\ \/ \E k \in job.alert + 1 .. Len(Checks) : MayHold(k) /\ Raise(k)
       \/ NextOracle
    /\ UNCHANGED <<bounds, isCollecting, snapshots, alerting, aggregating>>

FinishCollection ==
    /\ job.pc = "oracle" /\ job.oracle \notin Oracles
    /\ EndCollection
    /\ UNCHANGED <<bounds, snapshots, alerting, aggregating>>

-----------------------------------------------------------------------------
(***************************************************************************)
(* createAlert.  Nothing it does makes the collection fail.                *)
(***************************************************************************)
AlertDone ==
    IF job.alert = Error THEN NextOracle ELSE job' = [job EXCEPT !.pc = "check"]

AfterChannel(c) ==
    IF c = "mail" /\ "telegram" \in Channels THEN "telegram" ELSE "mark"

IsRecent(t) == t # Never /\ t > now - Cooldown

(* An alert that was sent within the cooldown is skipped; so is one that   *)
(* cannot be looked up or stored.  An alert that is only for information   *)
(* is stored and stays pending.                                            *)
CreateAlert ==
    /\ job.pc = "create"
    /\ \/ /\ ~IsRecent(sent[job.oracle][job.alert]) /\ job.alert \notin Informative /\ NoFault
          /\ job' = [job EXCEPT !.created = now,
                                !.pc = IF "mail" \in Channels THEN "mail" ELSE AfterChannel("mail")]
       \/ (IsRecent(sent[job.oracle][job.alert]) \/ job.alert \in Informative) /\ NoFault /\ AlertDone
       \/ Fault("db") /\ AlertDone
    /\ UNCHANGED <<now, case, due, isCollecting, snapshots, alerting, aggregating>>

Doubt == unsure' = unsure \cup {<<job.oracle, job.alert>>}

(* Mutant: what was tried counts as sent.                                  *)
SendFailsUnnoticed ==
    /\ AlertDone /\ Doubt
    /\ sent' = [sent EXCEPT ![job.oracle][job.alert] = job.created]

(* The alert is stored as failed, which counts as never sent.              *)
SendFails == AlertDone /\ Doubt /\ UNCHANGED sent

(* An enabled Telegram without its token or chat.                          *)
Configured(c) == c = "telegram" => case.credentials

(* A channel that is not configured returns without an error, so that the  *)
(* alert goes on as if it had been delivered.                              *)
Send(c) ==
    /\ job.pc = c
    /\ \/ /\ NoFault
          /\ delivered' = IF Configured(c)
                          THEN [delivered EXCEPT ![c][job.oracle][job.alert] = job.created]
                          ELSE delivered
          /\ job' = [job EXCEPT !.pc = AfterChannel(c)]
          /\ UNCHANGED <<sent, unsure>>
       \/ Configured(c) /\ Fault(c) /\ SendFails /\ UNCHANGED delivered
    /\ UNCHANGED <<now, case, due, isCollecting, snapshots, aggregating>>

(* Mutant: the status is set on the object and not stored.                 *)
MarkNothing ==
    /\ job.pc = "mark"
    /\ AlertDone
    /\ UNCHANGED <<bounds, isCollecting, snapshots, alerting, aggregating>>

MarkSent ==
    /\ job.pc = "mark"
    /\ \/ /\ NoFault /\ AlertDone /\ UNCHANGED unsure
          /\ sent' = [sent EXCEPT ![job.oracle][job.alert] = job.created]
       \/ Fault("db") /\ SendFails
    /\ UNCHANGED <<now, case, due, isCollecting, snapshots, delivered, aggregating>>

-----------------------------------------------------------------------------
(* Queries and the request to Telegram have no timeout: one that is never  *)
(* answered keeps the collection waiting, with its lock, until a restart.  *)
Sending == {"mail", "telegram", "mark"}
Stall ==
    /\ job.pc \notin {"idle", "stalled"} /\ Fault("stall")
    /\ job.pc = "oracle" => job.oracle \in Oracles
    /\ job' = [job EXCEPT !.pc = "stalled"]
    /\ IF job.pc \in Sending THEN Doubt ELSE UNCHANGED unsure
    /\ UNCHANGED <<now, case, due, isCollecting, snapshots, sent, delivered, aggregating>>

-----------------------------------------------------------------------------
(***************************************************************************)
(* aggregateDailyData.                                                     *)
(***************************************************************************)
AtWork(a) == aggregation[a].pc # "idle"
First(S) == {x \in S : \A y \in S : x <= y}

(* The cron fires, whether or not the last aggregation has ended.  The last *)
(* minute of the bounded clock stands for all that follow.                 *)
FireAggregation(a) ==
    /\ "aggregate" \in due
    /\ ~AtWork(a) /\ a <= case.slots
    /\ a \in First({b \in Aggregations : ~AtWork(b)})
    /\ due' = IF now = MaxTime THEN due ELSE due \ {"aggregate"}

Update(a, r) == aggregation' = [aggregation EXCEPT ![a] = r]

(* The latest snapshot of any oracle says which day is aggregated; without *)
(* snapshots there is none.                                                *)
Taken == UNION {{snapshots[o][i] : i \in 1 .. Len(snapshots[o])} : o \in Oracles}
LatestDay == {d \in {DayOf(t) : t \in Taken} : \A t \in Taken : DayOf(t) <= d}

(* Mutant: the day is today's.                                             *)
StartWithToday(a) ==
    /\ FireAggregation(a)
    /\ Taken # {}
    /\ Update(a, [NoAggregation EXCEPT !.pc = "query", !.day = DayOf(now)])
    /\ UNCHANGED <<now, case, faultsLeft, collection, alerting, daily, collided>>

StartAggregation(a) ==
    /\ FireAggregation(a)
    /\ \/ Taken = {} /\ UNCHANGED aggregating
       \/ \E d \in LatestDay :
             /\ Update(a, [NoAggregation EXCEPT !.pc = "query", !.day = d])
             /\ collided' = IF \E b \in Aggregations : AtWork(b)
                            THEN collided \cup {d}
                                    \cup {aggregation[b].day : b \in {b \in Aggregations : AtWork(b)}}
                            ELSE collided
             /\ UNCHANGED daily
    /\ UNCHANGED <<now, case, faultsLeft, collection, alerting>>

OfDay(o, d) == {i \in 1 .. Len(snapshots[o]) : DayOf(snapshots[o][i]) = d}

(* Mutant: the range of the query has no end.                              *)
SinceDay(a) ==
    LET counted == [o \in Oracles |-> {i \in 1 .. Len(snapshots[o]) :
                                          DayOf(snapshots[o][i]) >= aggregation[a].day}]
    IN  /\ aggregation[a].pc = "query"
        /\ Update(a, [aggregation[a] EXCEPT !.pc = "row", !.counted = counted,
                                            !.todo = {o \in Oracles : counted[o] # {}}])
        /\ UNCHANGED <<bounds, collection, alerting, daily, collided>>

(* Mutant: only what no row has counted yet.                               *)
QueryNew(a) ==
    LET old == UNION {daily[i].counted : i \in 1 .. Len(daily)}
        counted == [o \in Oracles |-> OfDay(o, aggregation[a].day) \ old]
    IN  /\ aggregation[a].pc = "query"
        /\ Update(a, [aggregation[a] EXCEPT !.pc = "row", !.counted = counted,
                                            !.todo = {o \in Oracles : counted[o] # {}}])
        /\ UNCHANGED <<bounds, collection, alerting, daily, collided>>

QueryDay(a) ==
    LET counted == [o \in Oracles |-> OfDay(o, aggregation[a].day)]
    IN  /\ aggregation[a].pc = "query"
        /\ Update(a, [aggregation[a] EXCEPT !.pc = "row", !.counted = counted,
                                            !.todo = {o \in Oracles : counted[o] # {}}])
        /\ UNCHANGED <<bounds, collection, alerting, daily, collided>>

RowsOf(o, d) == {i \in 1 .. Len(daily) : daily[i].oracle = o /\ daily[i].day = d}
NextRow(a, o) ==
    Update(a, [aggregation[a] EXCEPT !.pc = "row", !.row = 0, !.todo = @ \ {o}])

(* Mutant: no existing row is looked for.                                  *)
FindNoRow(a) ==
    /\ aggregation[a].pc = "row" /\ aggregation[a].todo # {}
    /\ Update(a, [aggregation[a] EXCEPT !.pc = "save"])
    /\ UNCHANGED <<bounds, collection, alerting, daily, collided>>

(* An oracle without an asset fails after its row was looked for, and so   *)
(* does whatever the database refuses; the next oracle goes on.            *)
FindRow(a) ==
    /\ aggregation[a].pc = "row"
    /\ \E o \in First(aggregation[a].todo) :
         LET rows == RowsOf(o, aggregation[a].day)
         IN  \/ o \in WithAsset /\ rows = {} /\ NoFault
                /\ Update(a, [aggregation[a] EXCEPT !.pc = "save"])
             \/ o \in WithAsset /\ NoFault
                /\ \E i \in rows : Update(a, [aggregation[a] EXCEPT !.pc = "save", !.row = i])
             \/ o \notin WithAsset /\ NoFault /\ NextRow(a, o)
             \/ Fault("db") /\ NextRow(a, o)
    /\ UNCHANGED <<now, case, due, collection, alerting, daily, collided>>

SaveRow(a) ==
    /\ aggregation[a].pc = "save"
    /\ \E o \in First(aggregation[a].todo) :
         LET r == [oracle |-> o, day |-> aggregation[a].day, counted |-> aggregation[a].counted[o]]
         IN  /\ \/ aggregation[a].row = 0 /\ daily' = Append(daily, r) /\ NoFault
                \/ aggregation[a].row # 0 /\ daily' = [daily EXCEPT ![aggregation[a].row] = r] /\ NoFault
                \/ Fault("db") /\ UNCHANGED daily
             /\ NextRow(a, o)
    /\ UNCHANGED <<now, case, due, collection, alerting, collided>>

(* After the last row; or the chain or a query of all oracles failed.      *)
EndAggregation(a) ==
    /\ \/ aggregation[a].pc = "row" /\ aggregation[a].todo = {} /\ NoFault
       \/ aggregation[a].pc = "query" /\ (Fault("rpc") \/ Fault("db"))
    /\ Update(a, NoAggregation)
    /\ UNCHANGED <<now, case, due, collection, alerting, daily, collided>>

(* A query of an aggregation is never answered.  It holds no lock, so that *)
(* nobody waits for it; it is as good as gone.                             *)
StallAggregation(a) ==
    /\ AtWork(a) /\ Fault("stall")
    /\ Update(a, NoAggregation)
    /\ UNCHANGED <<now, case, due, collection, alerting, daily, collided>>

-----------------------------------------------------------------------------
(* The server restarts: whatever it was doing is gone.                     *)
Restart ==
    /\ isCollecting \/ \E a \in Aggregations : AtWork(a)
    /\ Fault("crash")
    /\ EndCollection
    /\ aggregation' = [a \in Aggregations |-> NoAggregation]
    /\ IF job.pc \in Sending THEN Doubt ELSE UNCHANGED unsure
    /\ UNCHANGED <<now, case, due, snapshots, sent, delivered, daily, collided>>

Tick ==
    /\ now < MaxTime
    /\ now' = now + 1 /\ due' = Crons
    /\ UNCHANGED <<case, faultsLeft, collection, alerting, aggregating>>

CollectionStep ==
    \/ ListOracles \/ TakeSnapshot \/ Check \/ CreateAlert \/ MarkSent \/ FinishCollection
    \/ \E c \in Channels : Send(c)

AggregationStep(a) ==
    StartAggregation(a) \/ QueryDay(a) \/ FindRow(a) \/ SaveRow(a) \/ EndAggregation(a)

Next ==
    \/ FireCollection \/ CollectionStep \/ Stall
    \/ \E a \in Aggregations : AggregationStep(a) \/ StallAggregation(a)
    \/ Restart \/ Tick

Spec == Init /\ [][Next]_vars

(* The crons fire and time passes.  An await ends, with an answer or an    *)
(* error, unless it stalls: the clients of the chains have a timeout, and  *)
(* for the database, the mails and Telegram, which have none of their own, *)
(* the fault "stall" stands for the answer that never comes.               *)
FairSpec ==
    /\ Spec /\ WF_vars(Tick) /\ WF_vars(FireCollection) /\ WF_vars(CollectionStep)
    /\ \A a \in Aggregations : WF_vars(AggregationStep(a))

-----------------------------------------------------------------------------
(***************************************************************************)
(* Properties.                                                             *)
(***************************************************************************)
(* An alert counts as sent, and silences the next ones, only if every      *)
(* channel that is configured has delivered it: a channel that fails or    *)
(* hangs, a restart or a lost status never hides an alert from a channel.  *)
(* A Telegram without credentials does hide it.                            *)
SentIsDelivered ==
    \A o \in Oracles, k \in Alerts, c \in Channels :
        Configured(c) => delivered[c][o][k] >= sent[o][k]

(* No channel delivers an alert again within the cooldown, unless an       *)
(* earlier attempt failed on the way.                                      *)
NotRepeated ==
    [][\A o \in Oracles, k \in Alerts, c \in Channels :
         LET last == delivered[c][o][k]
         IN  delivered'[c][o][k] # last /\ last # Never /\ <<o, k>> \notin unsure =>
                delivered'[c][o][k] >= last + Cooldown]_vars

(* A row of a day has gathered nothing of another day, whatever was taken  *)
(* between its queries.                                                    *)
AggregateIsOfItsDay ==
    \A i \in 1 .. Len(daily) : daily[i].counted \subseteq OfDay(daily[i].oracle, daily[i].day)

(* An oracle has one row for a day, unless two aggregations overlapped.    *)
OneAggregatePerDay ==
    \A i, j \in 1 .. Len(daily) :
        /\ daily[i].oracle = daily[j].oracle /\ daily[i].day = daily[j].day
        /\ daily[i].day \notin collided
        => i = j

(* A snapshot that went into a row stays in it, unless two aggregations    *)
(* overlapped: the later one may then save what it read earlier.           *)
AggregatesGrow ==
    [][\A i \in 1 .. Len(daily) :
         daily[i].day \notin collided' => daily[i].counted \subseteq daily'[i].counted]_vars

(* The lock of the collection is released, however the collection ends,    *)
(* unless an await that never ends keeps it until somebody restarts the    *)
(* server.                                                                 *)
LockIsFreed == isCollecting ~> (~isCollecting \/ job.pc = "stalled")

(* When the snapshots stop, the last day that has any is aggregated in     *)
(* full, on whichever day that happens.                                    *)
LastDayIsAggregated ==
    <>[](\A o \in WithAsset : \A d \in LatestDay : OfDay(o, d) # {} =>
           \E i \in RowsOf(o, d) : daily[i].counted = OfDay(o, d))
=============================================================================
