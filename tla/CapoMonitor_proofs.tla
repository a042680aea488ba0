-------------------------- MODULE CapoMonitor_proofs --------------------------
(***************************************************************************)
(* Proofs about CapoMonitor, for any oracles, channels, cases, day lengths *)
(* and bounds: the type invariant, that an alert counts as sent only when  *)
(* every configured channel has delivered it and is not repeated within    *)
(* the cooldown, that an aggregate is made of the snapshots of its day,    *)
(* and, where no two aggregations overlap, that a day has one row and the  *)
(* row only grows.                                                         *)
(***************************************************************************)
EXTENDS CapoMonitor, TLAPS, SequenceTheorems

(* The alert in hand is of an oracle that exists, was created no earlier   *)
(* than the last one that was sent, and was delivered by the configured    *)
(* channels that it has passed.                                            *)
Passed(c) == job.pc = "mark" \/ (job.pc = "telegram" /\ c = "mail")
JobInv ==
    /\ job.pc \in {"check", "create"} \cup Sending => job.oracle \in Oracles
    /\ job.pc \in Sending => sent[job.oracle][job.alert] <= job.created /\ job.created <= now
    /\ \A c \in Channels :
          Passed(c) /\ Configured(c) => delivered[c][job.oracle][job.alert] = job.created

(* No alert was sent in the future.                                        *)
SentBefore == \A o \in Oracles, k \in Alerts : sent[o][k] <= now

(* What an aggregation counted is of its day; it saves a row of an oracle  *)
(* that is still to be done.                                               *)
AggregationInv(a) ==
    /\ aggregation[a].pc = "save" => aggregation[a].todo # {}
    /\ \A o \in Oracles : aggregation[a].counted[o] \subseteq OfDay(o, aggregation[a].day)

CapoInv ==
    /\ TypeOK
    /\ JobInv /\ SentBefore /\ SentIsDelivered
    /\ \A a \in Aggregations : AggregationInv(a)
    /\ AggregateIsOfItsDay

-----------------------------------------------------------------------------
(***************************************************************************)
(* Days, and the parts of the invariant that a step leaves alone.          *)
(***************************************************************************)
LEMMA DayOfTime ==
    ASSUME NEW t \in Time
    PROVE  DayOf(t) \in Nat
<1>1. t \in Nat /\ DayLength \in Nat /\ DayLength >= 1
  BY CapoAssumption DEF Time
<1> QED BY <1>1, Z3 DEF DayOf

LEMMA AlertsInOrder ==
    /\ Error \in Alerts /\ Len(Checks) = 5
    /\ \A k \in Alerts : \A i \in k + 1 .. Len(Checks) : i \in Alerts
    /\ NoJob \in JobState /\ Never \notin Time /\ Time \subseteq Int /\ Never \in Int
    /\ 0 \in Time
<1>1. Len(Checks) = 5
  BY DEF Checks
<1>2. MaxTime \in Nat /\ NOracles \in Nat
  BY CapoAssumption
<1> QED BY <1>1, <1>2 DEF Alerts, Error, NoJob, JobState, Never, Time

LEMMA FaultsAreCounted ==
    ASSUME faultsLeft \in 0 .. MaxFaults, NoFault \/ \E f \in Faults : Fault(f)
    PROVE  faultsLeft' \in 0 .. MaxFaults
BY CapoAssumption DEF NoFault, Fault

Row == [oracle: Oracles, day: Nat, counted: SUBSET Nat]
LEMMA RowsHaveTypes ==
    ASSUME CapoInv, NEW i \in 1 .. Len(daily)
    PROVE  daily[i].oracle \in Oracles /\ daily[i].day \in Nat /\ daily[i].counted \subseteq Nat
<1>1. daily \in Seq(Row)
  BY DEF CapoInv, TypeOK, Row
<1>2. daily[i] \in Row
  BY <1>1
<1> QED BY <1>2 DEF Row

(* Alerts in hand and alerts sent.                                         *)
AlertPart == JobInv /\ SentBefore /\ SentIsDelivered
AggregatePart == (\A a \in Aggregations : AggregationInv(a)) /\ AggregateIsOfItsDay

LEMMA AlertsStay ==
    ASSUME CapoInv, UNCHANGED <<case, job, alerting>>, now' \in Time, now <= now'
    PROVE  AlertPart'
<1>1. SentBefore'
  <2> SUFFICES ASSUME NEW o \in Oracles, NEW k \in Alerts PROVE sent[o][k] <= now'
    BY DEF SentBefore, alerting
  <2>1. sent[o][k] <= now /\ sent[o][k] \in Int /\ now \in Int /\ now' \in Int
    BY AlertsInOrder DEF CapoInv, TypeOK, SentBefore
  <2> QED BY <2>1
<1>2. job.created <= now => job.created <= now'
  <2>1. job \in JobState /\ now \in Time
    BY DEF CapoInv, TypeOK
  <2>2. job.created \in Int /\ now \in Int /\ now' \in Int
    BY <2>1, AlertsInOrder DEF JobState
  <2> QED BY <2>2
<1>3. JobInv' /\ SentIsDelivered'
  BY <1>2 DEF CapoInv, JobInv, Passed, Configured, SentIsDelivered, alerting
<1> QED BY <1>1, <1>3 DEF AlertPart

LEMMA NothingHappens ==
    ASSUME CapoInv, UNCHANGED <<now, case, job, alerting>>
    PROVE  AlertPart'
BY DEF CapoInv, AlertPart, JobInv, Passed, Configured, SentBefore, SentIsDelivered, alerting

(* A job that has no alert in hand.                                        *)
LEMMA NoAlertInHand ==
    ASSUME CapoInv, job' \in JobState, UNCHANGED <<now, case, sent, delivered>>,
           job'.pc \in {"idle", "list", "oracle", "check", "create", "stalled"},
           job'.pc \in {"check", "create"} => job'.oracle \in Oracles
    PROVE  AlertPart'
BY DEF CapoInv, AlertPart, JobInv, Sending, Passed, Configured, SentBefore, SentIsDelivered

LEMMA AggregatesStay ==
    ASSUME CapoInv, UNCHANGED <<snapshots, aggregating>>
    PROVE  AggregatePart'
BY DEF CapoInv, AggregatePart, AggregationInv, AggregateIsOfItsDay, OfDay, aggregating

-----------------------------------------------------------------------------
(***************************************************************************)
(* The collection.                                                         *)
(***************************************************************************)
LEMMA FireCollectionKeeps == CapoInv /\ FireCollection => CapoInv'
<1> SUFFICES ASSUME CapoInv, FireCollection PROVE CapoInv'
  OBVIOUS
<1> USE DEF FireCollection
<1>1. TypeOK'
  BY AlertsInOrder DEF CapoInv, TypeOK, JobState, NoJob, collection, alerting, aggregating
<1>2. AlertPart'
  <2>1. CASE UNCHANGED collection
    BY <2>1, NothingHappens DEF collection
  <2>2. CASE job' = [NoJob EXCEPT !.pc = "list"]
    BY <2>2, <1>1, NoAlertInHand DEF TypeOK, NoJob, alerting
  <2> QED BY <2>1, <2>2
<1>3. AggregatePart'
  BY AggregatesStay DEF collection
<1> QED BY <1>1, <1>2, <1>3 DEF CapoInv, AlertPart, AggregatePart

LEMMA ListOraclesKeeps == CapoInv /\ ListOracles => CapoInv'
<1> SUFFICES ASSUME CapoInv, ListOracles PROVE CapoInv'
  OBVIOUS
<1>1. faultsLeft' \in 0 .. MaxFaults
  <2>1. NoFault \/ \E f \in Faults : Fault(f)
    BY DEF ListOracles, Fault
  <2> QED BY <2>1, FaultsAreCounted DEF CapoInv, TypeOK
<1>2. job' \in JobState /\ job'.pc \in {"idle", "oracle"} /\ isCollecting' \in BOOLEAN
  BY AlertsInOrder DEF ListOracles, EndCollection, NoJob, CapoInv, TypeOK, JobState
<1>3. TypeOK'
  BY <1>1, <1>2 DEF ListOracles, CapoInv, TypeOK, alerting, aggregating
<1>4. AlertPart'
  BY <1>2, NoAlertInHand DEF ListOracles, alerting
<1>5. AggregatePart'
  BY AggregatesStay DEF ListOracles
<1> QED BY <1>3, <1>4, <1>5 DEF CapoInv, AlertPart, AggregatePart

(* A snapshot that is appended is in no set of positions counted before.   *)
LEMMA TakeSnapshotKeeps == CapoInv /\ TakeSnapshot => CapoInv'
<1> SUFFICES ASSUME CapoInv, TakeSnapshot PROVE CapoInv'
  OBVIOUS
<1>1. job' \in JobState /\ job'.pc \in {"check", "create"} /\ job'.oracle \in Oracles
  BY AlertsInOrder DEF TakeSnapshot, Raise, CapoInv, TypeOK, JobState
<1>2. /\ snapshots' \in [Oracles -> Seq(Time)]
      /\ \A o \in Oracles : snapshots'[o] = snapshots[o] \/ snapshots'[o] = Append(snapshots[o], now)
  <2>1. CASE UNCHANGED snapshots
    BY <2>1 DEF CapoInv, TypeOK
  <2>2. CASE snapshots' = [snapshots EXCEPT ![job.oracle] = Append(@, now)]
    <3>1. snapshots \in [Oracles -> Seq(Time)] /\ now \in Time
      BY DEF CapoInv, TypeOK
    <3>2. \A o \in Oracles : Append(snapshots[o], now) \in Seq(Time)
      BY <3>1
    <3> QED BY <2>2, <3>1, <3>2
  <2> QED BY <2>1, <2>2 DEF TakeSnapshot
<1>4. faultsLeft' \in 0 .. MaxFaults
  <2>1. NoFault \/ \E f \in Faults : Fault(f)
    BY DEF TakeSnapshot, Fault
  <2> QED BY <2>1, FaultsAreCounted DEF CapoInv, TypeOK
<1>5. TypeOK'
  BY <1>1, <1>2, <1>4 DEF TakeSnapshot, CapoInv, TypeOK, alerting, aggregating
<1>6. AlertPart'
  BY <1>1, NoAlertInHand DEF TakeSnapshot, alerting
<1>3. \A o \in Oracles : \A d \in Nat : OfDay(o, d) \subseteq OfDay(o, d)'
  <2> SUFFICES ASSUME NEW o \in Oracles, NEW d \in Nat PROVE OfDay(o, d) \subseteq OfDay(o, d)'
    OBVIOUS
  <2>1. snapshots[o] \in Seq(Time) /\ now \in Time
    BY DEF CapoInv, TypeOK
  <2>2. /\ Len(snapshots[o]) <= Len(snapshots'[o])
        /\ \A i \in 1 .. Len(snapshots[o]) : snapshots'[o][i] = snapshots[o][i]
    BY <2>1, <1>2
  <2>3. Len(snapshots[o]) \in Nat /\ Len(snapshots'[o]) \in Nat
    BY <2>1, <1>2
  <2> QED BY <2>2, <2>3 DEF OfDay, DayOf
<1>7. AggregatePart'
  <2>1. ASSUME NEW a \in Aggregations PROVE AggregationInv(a)'
    BY <1>3 DEF TakeSnapshot, CapoInv, TypeOK, AggregationState, AggregationInv, aggregating
  <2>2. AggregateIsOfItsDay'
    <3> SUFFICES ASSUME NEW i \in 1 .. Len(daily)
                 PROVE  daily[i].counted \subseteq OfDay(daily[i].oracle, daily[i].day)'
      BY DEF TakeSnapshot, AggregateIsOfItsDay, aggregating
    <3>1. daily[i].oracle \in Oracles /\ daily[i].day \in Nat
      BY RowsHaveTypes
    <3> QED BY <3>1, <1>3 DEF TakeSnapshot, CapoInv, AggregateIsOfItsDay, aggregating
  <2> QED BY <2>1, <2>2 DEF AggregatePart
<1> QED BY <1>5, <1>6, <1>7 DEF CapoInv, AlertPart, AggregatePart

LEMMA NextOracleMoves ==
    ASSUME CapoInv, NextOracle, job.oracle \in Oracles
    PROVE  job' \in JobState /\ job'.pc = "oracle"
<1>1. job.oracle + 1 \in 1 .. NOracles + 1
  BY CapoAssumption DEF Oracles
<1> QED BY <1>1, AlertsInOrder DEF NextOracle, NoJob, JobState

LEMMA CheckKeeps == CapoInv /\ Check => CapoInv'
<1> SUFFICES ASSUME CapoInv, Check PROVE CapoInv'
  OBVIOUS
<1> USE DEF Check, Raise
<1>1. job.oracle \in Oracles /\ job \in JobState
  BY DEF CapoInv, TypeOK, JobInv
<1>2. job' \in JobState /\ job'.pc \in {"create", "oracle"}
      /\ (job'.pc = "create" => job'.oracle \in Oracles)
  <2>1. CASE NextOracle
    BY <2>1, <1>1, NextOracleMoves
  <2>2. CASE \E k \in job.alert + 1 .. Len(Checks) : MayHold(k) /\ Raise(k)
    <3>1. PICK k \in job.alert + 1 .. Len(Checks) : Raise(k)
      BY <2>2
    <3>2. k \in Alerts
      BY <1>1, AlertsInOrder DEF JobState
    <3> QED BY <3>1, <3>2, <1>1 DEF JobState
  <2> QED BY <2>1, <2>2
<1>3. TypeOK'
  BY <1>2 DEF CapoInv, TypeOK, bounds, alerting, aggregating
<1>4. AlertPart'
  BY <1>2, NoAlertInHand DEF bounds, alerting
<1>5. AggregatePart'
  BY AggregatesStay
<1> QED BY <1>3, <1>4, <1>5 DEF CapoInv, AlertPart, AggregatePart

LEMMA FinishCollectionKeeps == CapoInv /\ FinishCollection => CapoInv'
<1> SUFFICES ASSUME CapoInv, FinishCollection PROVE CapoInv'
  OBVIOUS
<1> USE DEF FinishCollection, EndCollection
<1>1. TypeOK'
  BY AlertsInOrder DEF CapoInv, TypeOK, bounds, alerting, aggregating
<1>2. AlertPart'
  BY <1>1, NoAlertInHand DEF TypeOK, NoJob, bounds, alerting
<1>3. AggregatePart'
  BY AggregatesStay
<1> QED BY <1>1, <1>2, <1>3 DEF CapoInv, AlertPart, AggregatePart

-----------------------------------------------------------------------------
(***************************************************************************)
(* An alert.                                                               *)
(***************************************************************************)
LEMMA AlertDoneMoves ==
    ASSUME CapoInv, AlertDone, job.oracle \in Oracles
    PROVE  job' \in JobState /\ job'.pc \in {"oracle", "check"}
           /\ (job'.pc = "check" => job'.oracle = job.oracle)
<1>1. job \in JobState
  BY DEF CapoInv, TypeOK
<1>2. CASE job.alert = Error
  BY <1>2, NextOracleMoves DEF AlertDone
<1>3. CASE job.alert # Error
  BY <1>1, <1>3 DEF AlertDone, JobState
<1> QED BY <1>2, <1>3

LEMMA CreateAlertKeeps == CapoInv /\ CreateAlert => CapoInv'
<1> SUFFICES ASSUME CapoInv, CreateAlert PROVE CapoInv'
  OBVIOUS
<1>1. job.oracle \in Oracles /\ job \in JobState /\ now \in Time /\ job.alert \in Alerts
  BY DEF CreateAlert, CapoInv, TypeOK, JobInv, JobState
<1>2. faultsLeft' \in 0 .. MaxFaults
  <2>1. NoFault \/ \E f \in Faults : Fault(f)
    BY DEF CreateAlert, Fault
  <2> QED BY <2>1, FaultsAreCounted DEF CapoInv, TypeOK
<1>3. job' \in JobState /\ AlertPart'
  <2>1. CASE AlertDone
    <3>1. job' \in JobState /\ job'.pc \in {"oracle", "check"}
          /\ (job'.pc = "check" => job'.oracle \in Oracles)
      BY <2>1, <1>1, AlertDoneMoves
    <3> QED BY <3>1, NoAlertInHand DEF CreateAlert, alerting
  <2>2. CASE job' = [job EXCEPT !.created = now,
                                !.pc = IF "mail" \in Channels THEN "mail" ELSE AfterChannel("mail")]
    <3>1. /\ job' \in JobState /\ job'.created = now
          /\ job'.oracle = job.oracle /\ job'.alert = job.alert
          /\ job'.pc \in Sending
      BY <2>2, <1>1 DEF JobState, AfterChannel, Sending
    <3>2. /\ job'.pc = "mark" => Channels = {}
          /\ job'.pc = "telegram" => "mail" \notin Channels
      BY <2>2, <1>1, CapoAssumption DEF AfterChannel, JobState
    <3>3. sent[job.oracle][job.alert] <= now
      BY <1>1 DEF CapoInv, SentBefore
    <3>4. now <= now
      BY <1>1, AlertsInOrder
    <3>5. JobInv'
      BY <3>4, <3>1, <3>2, <3>3, <1>1 DEF JobInv, Passed, Configured, Sending, CreateAlert, alerting
    <3> QED BY <3>1, <3>5
            DEF CapoInv, AlertPart, Configured, SentBefore, SentIsDelivered, CreateAlert, alerting
  <2> QED BY <2>1, <2>2 DEF CreateAlert
<1>4. TypeOK'
  BY <1>2, <1>3 DEF CreateAlert, CapoInv, TypeOK, alerting, aggregating
<1>5. AggregatePart'
  BY AggregatesStay DEF CreateAlert
<1> QED BY <1>3, <1>4, <1>5 DEF CapoInv, AlertPart, AggregatePart

LEMMA DoubtTypes ==
    ASSUME CapoInv, Doubt, job.oracle \in Oracles
    PROVE  unsure' \subseteq Oracles \X Alerts
BY DEF CapoInv, TypeOK, JobState, Doubt

(* What a channel has delivered is newer than what was sent.               *)
LEMMA SendKeeps ==
    ASSUME CapoInv, NEW c \in Channels, Send(c)
    PROVE  CapoInv'
<1> DEFINE o == job.oracle
           k == job.alert
<1>1. o \in Oracles /\ job \in JobState /\ k \in Alerts /\ job.created \in Time
      /\ job.pc = c /\ c \in {"mail", "telegram"}
  BY CapoAssumption DEF Send, CapoInv, TypeOK, JobInv, Sending, JobState
<1>2. faultsLeft' \in 0 .. MaxFaults
  <2>1. NoFault \/ \E f \in Faults : Fault(f)
    BY DEF Send, Fault
  <2> QED BY <2>1, FaultsAreCounted DEF CapoInv, TypeOK
<1>3. CASE SendFails /\ UNCHANGED delivered
  <2>1. job' \in JobState /\ job'.pc \in {"oracle", "check"}
        /\ (job'.pc = "check" => job'.oracle \in Oracles)
    BY <1>3, <1>1, AlertDoneMoves DEF SendFails
  <2>2. TypeOK'
    BY <2>1, <1>1, <1>2, <1>3, DoubtTypes DEF Send, SendFails, CapoInv, TypeOK, aggregating
  <2>3. AlertPart'
    BY <2>1, <1>3, NoAlertInHand DEF Send, SendFails
  <2> QED BY <2>2, <2>3, AggregatesStay DEF Send, CapoInv, AlertPart, AggregatePart
<1>4. CASE /\ delivered' = IF Configured(c) THEN [delivered EXCEPT ![c][o][k] = job.created]
                           ELSE delivered
           /\ job' = [job EXCEPT !.pc = AfterChannel(c)]
           /\ UNCHANGED <<sent, unsure>>
  <2>0. \A e \in Channels : Configured(e)' <=> Configured(e)
    BY DEF Send, Configured
  <2>1. /\ job' \in JobState /\ job'.oracle = o /\ job'.alert = k
        /\ job'.created = job.created
        /\ \/ job'.pc = "telegram" /\ c = "mail"
           \/ job'.pc = "mark" /\ (c = "telegram" \/ "telegram" \notin Channels)
    BY <1>4, <1>1 DEF JobState, AfterChannel
  <2>2. /\ delivered' \in [Channels -> [Oracles -> [Alerts -> Time \cup {Never}]]]
        /\ Configured(c) => delivered'[c][o][k] = job.created
        /\ \A e \in Channels : e # c => delivered'[e] = delivered[e]
        /\ \A p \in Oracles, j \in Alerts : p # o \/ j # k => delivered'[c][p][j] = delivered[c][p][j]
    <3>1. CASE Configured(c)
      BY <3>1, <1>4, <1>1 DEF CapoInv, TypeOK
    <3>2. CASE ~Configured(c)
      BY <3>2, <1>4, <1>1 DEF CapoInv, TypeOK
    <3> QED BY <3>1, <3>2
  <2>3. TypeOK'
    BY <2>1, <2>2, <1>2, <1>4 DEF Send, CapoInv, TypeOK, aggregating
  <2>4. sent[o][k] <= job.created /\ job.created <= now /\ now' = now
    BY <1>1 DEF CapoInv, JobInv, Sending, Send
  <2>5. SentIsDelivered'
    <3> SUFFICES ASSUME NEW p \in Oracles, NEW j \in Alerts, NEW e \in Channels,
                             Configured(e)
                 PROVE  delivered'[e][p][j] >= sent[p][j]
      BY <1>4, <2>0 DEF SentIsDelivered
    <3>1. CASE e = c /\ p = o /\ j = k
      <4>1. delivered'[e][p][j] = job.created
        BY <3>1, <2>2
      <4>2. sent[p][j] <= job.created
        BY <3>1, <2>4
      <4>3. sent[p][j] \in Time \cup {Never} /\ job.created \in Time
        BY <1>1 DEF CapoInv, TypeOK
      <4>4. sent[p][j] \in Int /\ job.created \in Int
        BY <4>3, AlertsInOrder
      <4> QED BY <4>1, <4>2, <4>4
    <3>2. CASE ~(e = c /\ p = o /\ j = k)
      BY <3>2, <2>2 DEF CapoInv, SentIsDelivered
    <3> QED BY <3>1, <3>2
  <2>6. JobInv'
    <3>1. \A e \in Channels : Passed(e)' /\ Configured(e) => delivered'[e][o][k] = job.created
      <4> SUFFICES ASSUME NEW e \in Channels, Passed(e)', Configured(e), e # c
                   PROVE  delivered[e][o][k] = job.created
        BY <2>2
      <4>1. c = "telegram" /\ e = "mail"
        BY <2>1, CapoAssumption DEF Passed
      <4> QED BY <4>1, <1>1 DEF CapoInv, JobInv, Passed
    <3> QED BY <3>1, <2>0, <2>1, <2>4, <1>1, <1>4 DEF JobInv, Sending
  <2> QED BY <2>3, <2>5, <2>6, <1>4, AggregatesStay
          DEF Send, CapoInv, SentBefore, AggregatePart
<1> QED BY <1>3, <1>4 DEF Send

LEMMA MarkSentKeeps == CapoInv /\ MarkSent => CapoInv'
<1> SUFFICES ASSUME CapoInv, MarkSent PROVE CapoInv'
  OBVIOUS
<1> DEFINE o == job.oracle
           k == job.alert
<1>1. o \in Oracles /\ job \in JobState /\ k \in Alerts /\ job.created \in Time
      /\ job.pc = "mark"
  BY DEF MarkSent, CapoInv, TypeOK, JobInv, Sending, JobState
<1>2. faultsLeft' \in 0 .. MaxFaults
  <2>1. NoFault \/ \E f \in Faults : Fault(f)
    BY DEF MarkSent, Fault
  <2> QED BY <2>1, FaultsAreCounted DEF CapoInv, TypeOK
<1>3. job' \in JobState /\ job'.pc \in {"oracle", "check"}
      /\ (job'.pc = "check" => job'.oracle \in Oracles)
  BY <1>1, AlertDoneMoves DEF MarkSent, SendFails
<1>4. JobInv'
  BY <1>3 DEF JobInv, Passed, Sending
<1>5. CASE SendFails
  <2>1. TypeOK'
    BY <1>1, <1>2, <1>3, <1>5, DoubtTypes DEF MarkSent, SendFails, CapoInv, TypeOK, aggregating
  <2>2. SentBefore' /\ SentIsDelivered'
    BY <1>5 DEF MarkSent, SendFails, CapoInv, Configured, SentBefore, SentIsDelivered
  <2> QED BY <2>1, <2>2, <1>4, AggregatesStay DEF MarkSent, CapoInv, AggregatePart
<1>6. CASE UNCHANGED unsure /\ sent' = [sent EXCEPT ![o][k] = job.created]
  <2>1. /\ sent' \in [Oracles -> [Alerts -> Time \cup {Never}]]
        /\ sent'[o][k] = job.created
        /\ \A p \in Oracles, j \in Alerts : p # o \/ j # k => sent'[p][j] = sent[p][j]
    BY <1>6, <1>1 DEF CapoInv, TypeOK
  <2>2. TypeOK'
    BY <2>1, <1>2, <1>3, <1>6 DEF MarkSent, CapoInv, TypeOK, aggregating
  <2>3. SentIsDelivered'
    <3> SUFFICES ASSUME NEW p \in Oracles, NEW j \in Alerts, NEW e \in Channels,
                             Configured(e)
                 PROVE  delivered[e][p][j] >= sent'[p][j]
      BY DEF SentIsDelivered, Configured, MarkSent
    <3>1. CASE p = o /\ j = k
      <4>1. delivered[e][o][k] = job.created
        BY <1>1 DEF CapoInv, JobInv, Passed
      <4>2. sent'[o][k] = job.created /\ job.created \in Int
        BY <2>1, <1>1, AlertsInOrder
      <4> QED BY <4>1, <4>2, <3>1
    <3>2. CASE ~(p = o /\ j = k)
      BY <3>2, <2>1 DEF CapoInv, SentIsDelivered
    <3> QED BY <3>1, <3>2
  <2>4. SentBefore'
    <3> SUFFICES ASSUME NEW p \in Oracles, NEW j \in Alerts
                 PROVE  sent'[p][j] <= now
      BY DEF SentBefore, MarkSent
    <3>1. CASE p = o /\ j = k
      BY <3>1, <2>1, <1>1 DEF CapoInv, JobInv, Sending
    <3>2. CASE ~(p = o /\ j = k)
      BY <3>2, <2>1 DEF CapoInv, SentBefore
    <3> QED BY <3>1, <3>2
  <2> QED BY <2>2, <2>3, <2>4, <1>4, AggregatesStay DEF MarkSent, CapoInv, AggregatePart
<1> QED BY <1>5, <1>6 DEF MarkSent

-----------------------------------------------------------------------------
(***************************************************************************)
(* An aggregation.                                                         *)
(***************************************************************************)
LEMMA Updates ==
    ASSUME CapoInv, NEW a \in Aggregations, NEW r \in AggregationState, Update(a, r),
           snapshots' = snapshots,
           r.pc = "save" => r.todo # {},
           \A o \in Oracles : r.counted[o] \subseteq OfDay(o, r.day)
    PROVE  /\ aggregation' \in [Aggregations -> AggregationState]
           /\ \A b \in Aggregations : AggregationInv(b)'
<1>1. aggregation' \in [Aggregations -> AggregationState] /\ aggregation'[a] = r
      /\ \A b \in Aggregations : b # a => aggregation'[b] = aggregation[b]
  BY DEF CapoInv, TypeOK, Update
<1>2. ASSUME NEW b \in Aggregations PROVE AggregationInv(b)'
  BY <1>1 DEF CapoInv, AggregationInv, OfDay
<1> QED BY <1>1, <1>2

LEMMA NoAggregationIsOne ==
    /\ NoAggregation \in AggregationState
    /\ NoAggregation.pc = "idle" /\ \A o \in Oracles : NoAggregation.counted[o] = {}
BY DEF NoAggregation, AggregationState

LEMMA TakenInTime == CapoInv => \A t \in Taken : DayOf(t) \in Nat
<1> SUFFICES ASSUME CapoInv, NEW t \in Taken PROVE DayOf(t) \in Nat
  OBVIOUS
<1>1. PICK o \in Oracles : \E i \in 1 .. Len(snapshots[o]) : t = snapshots[o][i]
  BY DEF Taken
<1>2. snapshots[o] \in Seq(Time)
  BY DEF CapoInv, TypeOK
<1> QED BY <1>1, <1>2, DayOfTime

LEMMA StartAggregationKeeps ==
    ASSUME CapoInv, NEW a \in Aggregations, StartAggregation(a)
    PROVE  CapoInv'
<1>1. due' \subseteq Crons
  BY DEF StartAggregation, FireAggregation, CapoInv, TypeOK
<1>2. AlertPart'
  BY NothingHappens DEF StartAggregation, collection
<1>3. CASE UNCHANGED aggregating
  <2>1. TypeOK'
    BY <1>1, <1>3 DEF StartAggregation, CapoInv, TypeOK, collection, alerting, aggregating
  <2> QED BY <2>1, <1>2, <1>3, AggregatesStay DEF StartAggregation, collection, CapoInv, AlertPart, AggregatePart
<1>4. ASSUME NEW d \in LatestDay,
             Update(a, [NoAggregation EXCEPT !.pc = "query", !.day = d]),
             collided' = (IF \E b \in Aggregations : AtWork(b)
                          THEN collided \cup {d}
                                 \cup {aggregation[b].day : b \in {b \in Aggregations : AtWork(b)}}
                          ELSE collided),
             UNCHANGED daily
      PROVE  CapoInv'
  <2> DEFINE r == [NoAggregation EXCEPT !.pc = "query", !.day = d]
  <2>1. d \in Nat
    BY TakenInTime DEF LatestDay
  <2>2. r \in AggregationState /\ r.pc # "save" /\ \A o \in Oracles : r.counted[o] = {}
    BY <2>1, NoAggregationIsOne DEF AggregationState
  <2>3. aggregation' \in [Aggregations -> AggregationState]
        /\ \A b \in Aggregations : AggregationInv(b)'
    BY <2>2, <1>4, Updates DEF StartAggregation, collection
  <2>4. \A b \in Aggregations : aggregation[b].day \in Nat
    BY DEF CapoInv, TypeOK, AggregationState
  <2>5. collided' \subseteq Nat
    BY <1>4, <2>1, <2>4 DEF CapoInv, TypeOK
  <2>6. TypeOK'
    BY <1>1, <2>3, <2>5, <1>4 DEF StartAggregation, CapoInv, TypeOK, collection, alerting
  <2>7. AggregateIsOfItsDay'
    BY <1>4 DEF StartAggregation, CapoInv, AggregateIsOfItsDay, OfDay, collection
  <2> QED BY <2>3, <2>6, <2>7, <1>2 DEF CapoInv, AlertPart
<1> QED BY <1>3, <1>4 DEF StartAggregation

LEMMA QueryDayKeeps ==
    ASSUME CapoInv, NEW a \in Aggregations, QueryDay(a)
    PROVE  CapoInv'
<1> DEFINE counted == [o \in Oracles |-> OfDay(o, aggregation[a].day)]
           r == [aggregation[a] EXCEPT !.pc = "row", !.counted = counted,
                                       !.todo = {o \in Oracles : counted[o] # {}}]
<1>1. aggregation[a] \in AggregationState
  BY DEF CapoInv, TypeOK
<1>2. \A o \in Oracles : OfDay(o, aggregation[a].day) \subseteq Nat
  BY DEF OfDay
<1>3. counted \in [Oracles -> SUBSET Nat]
  BY <1>2
<1>4. r \in AggregationState /\ r.pc = "row" /\ r.day = aggregation[a].day /\ r.counted = counted
  BY <1>1, <1>3 DEF AggregationState
<1>5. aggregation' \in [Aggregations -> AggregationState]
      /\ \A b \in Aggregations : AggregationInv(b)'
  <2>1. Update(a, r) /\ snapshots' = snapshots
    BY DEF QueryDay, collection
  <2>2. \A o \in Oracles : r.counted[o] \subseteq OfDay(o, r.day)
    BY <1>4
  <2> QED BY <2>1, <2>2, <1>4, Updates
<1>6. TypeOK'
  BY <1>5 DEF QueryDay, CapoInv, TypeOK, bounds, collection, alerting
<1>7. AlertPart'
  BY NothingHappens DEF QueryDay, bounds, collection
<1>8. AggregateIsOfItsDay'
  BY DEF QueryDay, CapoInv, AggregateIsOfItsDay, OfDay, collection
<1> QED BY <1>5, <1>6, <1>7, <1>8 DEF CapoInv, AlertPart

LEMMA NextRowMoves ==
    ASSUME CapoInv, NEW a \in Aggregations, NEW o, NextRow(a, o), snapshots' = snapshots
    PROVE  /\ aggregation' \in [Aggregations -> AggregationState]
           /\ \A b \in Aggregations : AggregationInv(b)'
<1> DEFINE r == [aggregation[a] EXCEPT !.pc = "row", !.row = 0, !.todo = @ \ {o}]
<1>1. aggregation[a] \in AggregationState /\ AggregationInv(a)
  BY DEF CapoInv, TypeOK
<1>2. r \in AggregationState /\ r.pc = "row"
      /\ r.day = aggregation[a].day /\ r.counted = aggregation[a].counted
  BY <1>1 DEF AggregationState
<1> QED BY <1>1, <1>2, Updates DEF NextRow, AggregationInv

LEMMA FindRowKeeps ==
    ASSUME CapoInv, NEW a \in Aggregations, FindRow(a)
    PROVE  CapoInv'
<1> USE DEF collection
<1>1. aggregation[a] \in AggregationState /\ AggregationInv(a)
  BY DEF CapoInv, TypeOK
<1>2. faultsLeft' \in 0 .. MaxFaults
  <2>1. NoFault \/ \E f \in Faults : Fault(f)
    BY DEF FindRow, Fault
  <2> QED BY <2>1, FaultsAreCounted DEF CapoInv, TypeOK
<1>3. /\ aggregation' \in [Aggregations -> AggregationState]
      /\ \A b \in Aggregations : AggregationInv(b)'
  <2>1. PICK o \in First(aggregation[a].todo) :
             \/ Update(a, [aggregation[a] EXCEPT !.pc = "save"])
             \/ \E i \in RowsOf(o, aggregation[a].day) :
                   Update(a, [aggregation[a] EXCEPT !.pc = "save", !.row = i])
             \/ NextRow(a, o)
    BY DEF FindRow
  <2>2. aggregation[a].todo # {}
    BY <2>1 DEF First
  <2>3. CASE Update(a, [aggregation[a] EXCEPT !.pc = "save"])
    <3> DEFINE r == [aggregation[a] EXCEPT !.pc = "save"]
    <3>1. r \in AggregationState /\ r.todo # {}
          /\ r.day = aggregation[a].day /\ r.counted = aggregation[a].counted
      BY <1>1, <2>2 DEF AggregationState
    <3> QED BY <3>1, <2>3, <1>1, Updates DEF FindRow, AggregationInv
  <2>4. ASSUME NEW i \in RowsOf(o, aggregation[a].day),
               Update(a, [aggregation[a] EXCEPT !.pc = "save", !.row = i])
        PROVE  /\ aggregation' \in [Aggregations -> AggregationState]
               /\ \A b \in Aggregations : AggregationInv(b)'
    <3> DEFINE r == [aggregation[a] EXCEPT !.pc = "save", !.row = i]
    <3>1. i \in Nat
      BY DEF RowsOf
    <3>2. r \in AggregationState /\ r.todo # {}
          /\ r.day = aggregation[a].day /\ r.counted = aggregation[a].counted
      BY <3>1, <1>1, <2>2 DEF AggregationState
    <3> QED BY <3>2, <2>4, <1>1, Updates DEF FindRow, AggregationInv
  <2>5. CASE NextRow(a, o)
    BY <2>5, NextRowMoves DEF FindRow
  <2> QED BY <2>1, <2>3, <2>4, <2>5
<1>4. TypeOK'
  BY <1>2, <1>3 DEF FindRow, CapoInv, TypeOK, alerting
<1>5. AlertPart'
  BY NothingHappens DEF FindRow
<1>6. AggregateIsOfItsDay'
  BY DEF FindRow, CapoInv, AggregateIsOfItsDay, OfDay
<1> QED BY <1>3, <1>4, <1>5, <1>6 DEF CapoInv, AlertPart

(* The row that is saved was counted on its day, whichever row of the day  *)
(* it replaces.                                                            *)
LEMMA SaveRowKeeps ==
    ASSUME CapoInv, NEW a \in Aggregations, SaveRow(a)
    PROVE  CapoInv'
<1> USE DEF collection
<1>1. PICK o \in First(aggregation[a].todo) :
        LET r == [oracle |-> o, day |-> aggregation[a].day, counted |-> aggregation[a].counted[o]]
        IN  /\ \/ daily' = Append(daily, r) /\ NoFault
               \/ daily' = [daily EXCEPT ![aggregation[a].row] = r] /\ NoFault
               \/ Fault("db") /\ UNCHANGED daily
            /\ NextRow(a, o)
  BY DEF SaveRow
<1> DEFINE r == [oracle |-> o, day |-> aggregation[a].day, counted |-> aggregation[a].counted[o]]
<1>2. faultsLeft' \in 0 .. MaxFaults
  <2>1. NoFault \/ \E f \in Faults : Fault(f)
    BY <1>1 DEF Fault
  <2> QED BY <2>1, FaultsAreCounted DEF CapoInv, TypeOK
<1>3. r \in Row /\ r.counted \subseteq OfDay(r.oracle, r.day)
  <2>1. aggregation[a] \in AggregationState /\ AggregationInv(a)
    BY DEF CapoInv, TypeOK
  <2>2. o \in Oracles
    BY <1>1, <2>1 DEF First, AggregationState
  <2> QED BY <2>1, <2>2 DEF Row, AggregationState, AggregationInv
<1>4. daily \in Seq(Row) /\ \A i \in 1 .. Len(daily) : daily[i].counted \subseteq OfDay(daily[i].oracle, daily[i].day)
  BY DEF CapoInv, TypeOK, Row, AggregateIsOfItsDay
<1>5. daily' \in Seq(Row)
      /\ \A i \in 1 .. Len(daily') : daily'[i] = r \/ (i \in 1 .. Len(daily) /\ daily'[i] = daily[i])
  <2>1. CASE daily' = Append(daily, r)
    BY <2>1, <1>3, <1>4
  <2>2. CASE daily' = [daily EXCEPT ![aggregation[a].row] = r]
    <3> DEFINE n == aggregation[a].row
    <3>1. CASE n \in 1 .. Len(daily)
      <4>1. daily' \in Seq(Row) /\ Len(daily') = Len(daily)
            /\ \A j \in 1 .. Len(daily) : daily'[j] = IF j = n THEN r ELSE daily[j]
        BY <2>2, <3>1, <1>3, <1>4, ExceptSeq
      <4> QED BY <4>1
    <3>2. CASE n \notin 1 .. Len(daily)
      <4>1. DOMAIN daily = 1 .. Len(daily) /\ daily = [i \in 1 .. Len(daily) |-> daily[i]]
        BY <1>4
      <4>2. daily' = daily
        BY <2>2, <3>2, <4>1
      <4> QED BY <4>2, <1>4
    <3> QED BY <3>1, <3>2
  <2>3. CASE UNCHANGED daily
    BY <2>3, <1>4
  <2> QED BY <1>1, <2>1, <2>2, <2>3
<1>6. /\ aggregation' \in [Aggregations -> AggregationState]
      /\ \A b \in Aggregations : AggregationInv(b)'
  BY <1>1, NextRowMoves DEF SaveRow
<1>7. TypeOK'
  BY <1>2, <1>5, <1>6 DEF SaveRow, Row, CapoInv, TypeOK, alerting
<1>8. AlertPart'
  BY NothingHappens DEF SaveRow
<1>9. AggregateIsOfItsDay'
  BY <1>3, <1>4, <1>5 DEF SaveRow, AggregateIsOfItsDay, OfDay
<1> QED BY <1>6, <1>7, <1>8, <1>9 DEF CapoInv, AlertPart

LEMMA EndAggregationKeeps ==
    ASSUME CapoInv, NEW a \in Aggregations, EndAggregation(a)
    PROVE  CapoInv'
<1> USE DEF collection
<1>1. faultsLeft' \in 0 .. MaxFaults
  <2>1. NoFault \/ \E f \in Faults : Fault(f)
    BY DEF EndAggregation, Fault
  <2> QED BY <2>1, FaultsAreCounted DEF CapoInv, TypeOK
<1>2. /\ aggregation' \in [Aggregations -> AggregationState]
      /\ \A b \in Aggregations : AggregationInv(b)'
  BY NoAggregationIsOne, Updates DEF EndAggregation
<1>3. TypeOK'
  BY <1>1, <1>2 DEF EndAggregation, CapoInv, TypeOK, alerting
<1>4. AlertPart'
  BY NothingHappens DEF EndAggregation
<1>5. AggregateIsOfItsDay'
  BY DEF EndAggregation, CapoInv, AggregateIsOfItsDay, OfDay
<1> QED BY <1>2, <1>3, <1>4, <1>5 DEF CapoInv, AlertPart

LEMMA StallAggregationKeeps ==
    ASSUME CapoInv, NEW a \in Aggregations, StallAggregation(a)
    PROVE  CapoInv'
<1> USE DEF collection
<1>1. faultsLeft' \in 0 .. MaxFaults
  <2>1. NoFault \/ \E f \in Faults : Fault(f)
    BY DEF StallAggregation, Fault
  <2> QED BY <2>1, FaultsAreCounted DEF CapoInv, TypeOK
<1>2. /\ aggregation' \in [Aggregations -> AggregationState]
      /\ \A b \in Aggregations : AggregationInv(b)'
  BY NoAggregationIsOne, Updates DEF StallAggregation
<1>3. TypeOK'
  BY <1>1, <1>2 DEF StallAggregation, CapoInv, TypeOK, alerting
<1>4. AlertPart'
  BY NothingHappens DEF StallAggregation
<1>5. AggregateIsOfItsDay'
  BY DEF StallAggregation, CapoInv, AggregateIsOfItsDay, OfDay
<1> QED BY <1>2, <1>3, <1>4, <1>5 DEF CapoInv, AlertPart

-----------------------------------------------------------------------------
(***************************************************************************)
(* The environment, and the theorems.                                      *)
(***************************************************************************)
LEMMA StallKeeps == CapoInv /\ Stall => CapoInv'
<1> SUFFICES ASSUME CapoInv, Stall PROVE CapoInv'
  OBVIOUS
<1>1. faultsLeft' \in 0 .. MaxFaults
  <2>1. NoFault \/ \E f \in Faults : Fault(f)
    BY DEF Stall, Fault
  <2> QED BY <2>1, FaultsAreCounted DEF CapoInv, TypeOK
<1>2. unsure' \subseteq Oracles \X Alerts
  <2>1. CASE job.pc \in Sending
    BY <2>1, DoubtTypes DEF Stall, CapoInv, JobInv
  <2>2. CASE job.pc \notin Sending
    BY <2>2 DEF Stall, CapoInv, TypeOK
  <2> QED BY <2>1, <2>2
<1>3. job' \in JobState /\ job'.pc = "stalled"
  BY DEF Stall, CapoInv, TypeOK, JobState
<1>4. TypeOK'
  BY <1>1, <1>2, <1>3 DEF Stall, CapoInv, TypeOK, aggregating
<1>5. AlertPart'
  BY <1>3, NoAlertInHand DEF Stall
<1> QED BY <1>4, <1>5, AggregatesStay DEF Stall, CapoInv, AlertPart, AggregatePart

LEMMA RestartKeeps == CapoInv /\ Restart => CapoInv'
<1> SUFFICES ASSUME CapoInv, Restart PROVE CapoInv'
  OBVIOUS
<1>1. faultsLeft' \in 0 .. MaxFaults
  <2>1. NoFault \/ \E f \in Faults : Fault(f)
    BY DEF Restart, Fault
  <2> QED BY <2>1, FaultsAreCounted DEF CapoInv, TypeOK
<1>2. unsure' \subseteq Oracles \X Alerts
  <2>1. CASE job.pc \in Sending
    BY <2>1, DoubtTypes DEF Restart, CapoInv, JobInv, Sending
  <2>2. CASE job.pc \notin Sending
    BY <2>2 DEF Restart, CapoInv, TypeOK, Sending
  <2> QED BY <2>1, <2>2
<1>3. aggregation' \in [Aggregations -> AggregationState]
  BY NoAggregationIsOne DEF Restart
<1>4. job' = NoJob /\ isCollecting' \in BOOLEAN
  BY DEF Restart, EndCollection
<1>5. TypeOK'
  BY <1>1, <1>2, <1>3, <1>4, AlertsInOrder DEF Restart, CapoInv, TypeOK
<1>6. JobInv' /\ SentBefore' /\ SentIsDelivered'
  BY <1>4 DEF Restart, NoJob, CapoInv, JobInv, Sending, Passed, Configured, SentBefore, SentIsDelivered
<1>7. \A a \in Aggregations : AggregationInv(a)'
  BY NoAggregationIsOne DEF Restart, AggregationInv
<1>8. AggregateIsOfItsDay'
  BY DEF Restart, CapoInv, AggregateIsOfItsDay, OfDay
<1> QED BY <1>5, <1>6, <1>7, <1>8 DEF CapoInv

LEMMA TickKeeps == CapoInv /\ Tick => CapoInv'
<1> SUFFICES ASSUME CapoInv, Tick PROVE CapoInv'
  OBVIOUS
<1>1. now' \in Time /\ now <= now'
  BY CapoAssumption DEF Tick, CapoInv, TypeOK, Time
<1>2. TypeOK'
  BY <1>1 DEF Tick, CapoInv, TypeOK, collection, alerting, aggregating
<1>3. AlertPart'
  BY <1>1, AlertsStay DEF Tick, collection
<1>4. AggregatePart'
  BY AggregatesStay DEF Tick, collection
<1> QED BY <1>2, <1>3, <1>4 DEF CapoInv, AlertPart, AggregatePart

LEMMA InitEstablishes == Init => CapoInv
<1> SUFFICES ASSUME Init PROVE CapoInv
  OBVIOUS
<1>1. TypeOK
  <2>1. now \in Time /\ faultsLeft \in 0 .. MaxFaults /\ due \subseteq Crons /\ case \in Cases
    BY AlertsInOrder, CapoAssumption DEF Init
  <2>2. job \in JobState /\ isCollecting \in BOOLEAN
    BY AlertsInOrder DEF Init
  <2>3. /\ snapshots \in [Oracles -> Seq(Time)]
        /\ sent \in [Oracles -> [Alerts -> Time \cup {Never}]]
        /\ delivered \in [Channels -> [Oracles -> [Alerts -> Time \cup {Never}]]]
    BY DEF Init
  <2>4. aggregation \in [Aggregations -> AggregationState]
    BY NoAggregationIsOne DEF Init
  <2>5. daily \in Seq([oracle: Oracles, day: Nat, counted: SUBSET Nat])
    BY DEF Init
  <2> QED BY <2>1, <2>2, <2>3, <2>4, <2>5 DEF Init, TypeOK
<1>2. JobInv /\ SentBefore /\ SentIsDelivered
  BY DEF Init, NoJob, JobInv, Sending, Passed, SentBefore, SentIsDelivered, Never
<1>3. \A a \in Aggregations : AggregationInv(a)
  BY NoAggregationIsOne DEF Init, AggregationInv
<1>4. AggregateIsOfItsDay
  BY DEF Init, AggregateIsOfItsDay
<1> QED BY <1>1, <1>2, <1>3, <1>4 DEF CapoInv

LEMMA NextKeeps == CapoInv /\ [Next]_vars => CapoInv'
<1> SUFFICES ASSUME CapoInv, [Next]_vars PROVE CapoInv'
  OBVIOUS
<1>1. CASE FireCollection
  BY <1>1, FireCollectionKeeps
<1>2. CASE CollectionStep
  BY <1>2, ListOraclesKeeps, TakeSnapshotKeeps, CheckKeeps, CreateAlertKeeps, MarkSentKeeps,
     FinishCollectionKeeps, SendKeeps DEF CollectionStep
<1>3. CASE \E a \in Aggregations : AggregationStep(a) \/ StallAggregation(a)
  BY <1>3, StallAggregationKeeps, StartAggregationKeeps, QueryDayKeeps, FindRowKeeps, SaveRowKeeps, EndAggregationKeeps
     DEF AggregationStep
<1>4. CASE Restart \/ Stall
  BY <1>4, RestartKeeps, StallKeeps
<1>5. CASE Tick
  BY <1>5, TickKeeps
<1>6. CASE UNCHANGED vars
  <2>1. TypeOK'
    BY <1>6 DEF vars, bounds, collection, alerting, aggregating, CapoInv, TypeOK
  <2>2. AlertPart'
    BY <1>6, NothingHappens DEF vars, bounds, collection
  <2> QED BY <1>6, <2>1, <2>2, AggregatesStay DEF vars, collection, CapoInv, AlertPart, AggregatePart
<1> QED BY <1>1, <1>2, <1>3, <1>4, <1>5, <1>6 DEF Next

LEMMA InvHolds == Spec => []CapoInv
BY InitEstablishes, NextKeeps, PTL DEF Spec

(* Every variable keeps its type; in particular an aggregation and a row   *)
(* are of a day, and the alert in doubt is of an oracle that exists.       *)
THEOREM CapoTypes == Spec => []TypeOK
<1>1. CapoInv => TypeOK
  BY DEF CapoInv
<1> QED BY <1>1, InvHolds, PTL

(* An alert that silences the next ones was delivered by every channel,    *)
(* whichever channel, write or process fails on the way.                   *)
THEOREM NoAlertIsHidden == Spec => []SentIsDelivered
<1>1. CapoInv => SentIsDelivered
  BY DEF CapoInv
<1> QED BY <1>1, InvHolds, PTL

(* Aggregates hold snapshots of their own day, with any number of          *)
(* aggregations under way, although each reads the day, the snapshots and  *)
(* the row at different moments.                                           *)
THEOREM DaysAreApart == Spec => []AggregateIsOfItsDay
<1>1. CapoInv => AggregateIsOfItsDay
  BY DEF CapoInv
<1> QED BY <1>1, InvHolds, PTL

-----------------------------------------------------------------------------
(***************************************************************************)
(* Rows of a day no two aggregations worked on at once.                    *)
(***************************************************************************)
(* The aggregation about to save found the row it replaces, or none.       *)
RowInv(r) ==
    /\ r.pc \in {"query", "row"} => r.row = 0
    /\ r.pc = "save" =>
          \A o \in First(r.todo) :
             IF r.row = 0 THEN r.day \notin collided => RowsOf(o, r.day) = {}
             ELSE r.row \in RowsOf(o, r.day)

(* It has counted everything the rows of the day have.                     *)
CountedInv(r) ==
    r.pc \in {"row", "save"} /\ r.day \notin collided =>
        \A o \in Oracles : \A i \in RowsOf(o, r.day) : daily[i].counted \subseteq r.counted[o]

(* Two aggregations at work have both of their days collided.              *)
Apart ==
    \A a, b \in Aggregations :
        a # b /\ AtWork(a) /\ AtWork(b) => aggregation[a].day \in collided

OverlapInv ==
    /\ \A a \in Aggregations : RowInv(aggregation[a]) /\ CountedInv(aggregation[a])
    /\ Apart /\ OneAggregatePerDay

LEMMA RowsOfRows ==
    ASSUME CapoInv, NEW o, NEW d
    PROVE  /\ 0 \notin RowsOf(o, d) /\ RowsOf(o, d) \subseteq 1 .. Len(daily) /\ Len(daily) \in Nat
           /\ \A i \in RowsOf(o, d) : daily[i].oracle = o /\ daily[i].day = d
           /\ \A i \in 1 .. Len(daily) : daily[i].oracle = o /\ daily[i].day = d => i \in RowsOf(o, d)
BY DEF RowsOf, CapoInv, TypeOK

LEMMA OverlapStays ==
    ASSUME OverlapInv, UNCHANGED aggregating
    PROVE  OverlapInv'
<1>1. aggregation' = aggregation /\ daily' = daily /\ collided' = collided
  BY DEF aggregating
<1>2. ASSUME NEW a \in Aggregations
      PROVE  RowInv(aggregation[a])' /\ CountedInv(aggregation[a])'
  BY <1>1 DEF OverlapInv, RowInv, CountedInv, RowsOf
<1>3. Apart' /\ OneAggregatePerDay'
  BY <1>1 DEF OverlapInv, Apart, AtWork, OneAggregatePerDay
<1> QED BY <1>2, <1>3 DEF OverlapInv

(* An aggregation that goes on with its day, or ends.                      *)
LEMMA OverlapUpdates ==
    ASSUME CapoInv, OverlapInv, NEW a \in Aggregations, NEW r, Update(a, r),
           UNCHANGED <<daily, collided>>, RowInv(r), CountedInv(r),
           r.pc # "idle" => AtWork(a) /\ r.day = aggregation[a].day
    PROVE  OverlapInv'
<1>1. aggregation'[a] = r /\ \A b \in Aggregations : b # a => aggregation'[b] = aggregation[b]
  BY DEF CapoInv, TypeOK, Update
<1>2. \A x : (RowInv(x) <=> RowInv(x)') /\ (CountedInv(x) <=> CountedInv(x)')
  BY DEF RowInv, CountedInv, RowsOf
<1>3. \A b \in Aggregations : RowInv(aggregation'[b]) /\ CountedInv(aggregation'[b])
  BY <1>1 DEF OverlapInv
<1>4. Apart'
  <2> SUFFICES ASSUME NEW b \in Aggregations, NEW d \in Aggregations, b # d, AtWork(b)', AtWork(d)'
               PROVE  aggregation'[b].day \in collided
    BY DEF Apart
  <2>1. AtWork(b) /\ AtWork(d) /\ aggregation'[b].day = aggregation[b].day
    BY <1>1 DEF AtWork
  <2> QED BY <2>1 DEF OverlapInv, Apart
<1>5. OneAggregatePerDay'
  BY DEF OverlapInv, OneAggregatePerDay
<1>6. \A b \in Aggregations : RowInv(aggregation[b])' /\ CountedInv(aggregation[b])'
  BY <1>2, <1>3 DEF RowInv, CountedInv
<1> QED BY <1>4, <1>5, <1>6 DEF OverlapInv

LEMMA StartOverlaps ==
    ASSUME CapoInv, OverlapInv, NEW a \in Aggregations, StartAggregation(a)
    PROVE  OverlapInv'
<1>1. CASE UNCHANGED aggregating
  BY <1>1, OverlapStays
<1>2. ASSUME NEW d \in LatestDay,
             Update(a, [NoAggregation EXCEPT !.pc = "query", !.day = d]),
             collided' = (IF \E b \in Aggregations : AtWork(b)
                          THEN collided \cup {d}
                                 \cup {aggregation[b].day : b \in {b \in Aggregations : AtWork(b)}}
                          ELSE collided),
             UNCHANGED daily
      PROVE  OverlapInv'
  <2>1. PICK r : r = [NoAggregation EXCEPT !.pc = "query", !.day = d]
    OBVIOUS
  <2>2. r.pc = "query" /\ r.day = d /\ r.row = 0
    BY <2>1 DEF NoAggregation
  <2>3. aggregation'[a] = r /\ \A b \in Aggregations : b # a => aggregation'[b] = aggregation[b]
    BY <1>2, <2>1 DEF CapoInv, TypeOK, Update
  <2>4. collided \subseteq collided'
    BY <1>2
  <2>5. OneAggregatePerDay'
    BY <1>2, <2>4 DEF OverlapInv, OneAggregatePerDay
  <2>6. ASSUME NEW b \in Aggregations PROVE RowInv(aggregation[b])' /\ CountedInv(aggregation[b])'
    <3>1. CASE b = a
      BY <3>1, <2>2, <2>3 DEF RowInv, CountedInv
    <3>2. CASE b # a
      <4>1. aggregation'[b] = aggregation[b] /\ RowInv(aggregation[b]) /\ CountedInv(aggregation[b])
        BY <3>2, <2>3 DEF OverlapInv
      <4> QED BY <4>1, <2>4, <1>2 DEF RowInv, CountedInv, RowsOf
    <3> QED BY <3>1, <3>2
  <2>7. Apart'
    <3> SUFFICES ASSUME NEW b \in Aggregations, NEW e \in Aggregations, b # e, AtWork(b)', AtWork(e)'
                 PROVE  aggregation'[b].day \in collided'
      BY DEF Apart
    <3>1. \E x \in Aggregations : AtWork(x)
      BY <2>3 DEF AtWork
    <3>2. CASE b = a
      BY <3>1, <3>2, <2>2, <2>3, <1>2
    <3>3. CASE b # a
      <4>1. AtWork(b) /\ aggregation'[b] = aggregation[b]
        BY <3>3, <2>3 DEF AtWork
      <4> QED BY <4>1, <3>1, <1>2
    <3> QED BY <3>2, <3>3
  <2> QED BY <2>5, <2>6, <2>7 DEF OverlapInv
<1> QED BY <1>1, <1>2 DEF StartAggregation

(* What the query returns includes what any row has counted, because a row *)
(* has counted snapshots of its day only.                                  *)
LEMMA QueryOverlaps ==
    ASSUME CapoInv, OverlapInv, NEW a \in Aggregations, QueryDay(a)
    PROVE  OverlapInv'
<1>1. PICK counted : counted = [o \in Oracles |-> OfDay(o, aggregation[a].day)]
  OBVIOUS
<1>2. PICK r : r = [aggregation[a] EXCEPT !.pc = "row", !.counted = counted,
                                          !.todo = {o \in Oracles : counted[o] # {}}]
  OBVIOUS
<1>3. aggregation[a] \in AggregationState /\ aggregation[a].pc = "query" /\ aggregation[a].row = 0
  BY DEF QueryDay, CapoInv, TypeOK, OverlapInv, RowInv
<1>4. r.pc = "row" /\ r.row = 0 /\ r.day = aggregation[a].day /\ r.counted = counted
  BY <1>2, <1>3 DEF AggregationState
<1>5. ASSUME NEW o \in Oracles, NEW i \in RowsOf(o, r.day) PROVE daily[i].counted \subseteq counted[o]
  <2>1. i \in 1 .. Len(daily) /\ daily[i].oracle = o /\ daily[i].day = r.day
    BY RowsOfRows
  <2> QED BY <2>1, <1>1, <1>4 DEF CapoInv, AggregateIsOfItsDay
<1>6. RowInv(r) /\ CountedInv(r)
  BY <1>4, <1>5 DEF RowInv, CountedInv
<1> QED BY <1>1, <1>2, <1>3, <1>4, <1>6, OverlapUpdates DEF QueryDay, AtWork

LEMMA NextRowOverlaps ==
    ASSUME CapoInv, OverlapInv, NEW a \in Aggregations, NEW o, NextRow(a, o),
           UNCHANGED <<daily, collided>>, aggregation[a].pc \in {"row", "save"}
    PROVE  OverlapInv'
<1>1. PICK r : r = [aggregation[a] EXCEPT !.pc = "row", !.row = 0, !.todo = @ \ {o}]
  OBVIOUS
<1>2. aggregation[a] \in AggregationState
  BY DEF CapoInv, TypeOK
<1>3. r.pc = "row" /\ r.row = 0 /\ r.day = aggregation[a].day /\ r.counted = aggregation[a].counted
  BY <1>1, <1>2 DEF AggregationState
<1>4. RowInv(r) /\ CountedInv(r)
  BY <1>3 DEF OverlapInv, RowInv, CountedInv
<1> QED BY <1>1, <1>3, <1>4, OverlapUpdates DEF NextRow, AtWork

(* Of the oracles still to be done one is the first.                       *)
LEMMA OneIsFirst ==
    ASSUME NEW S \in SUBSET Nat, NEW x \in First(S), NEW y \in First(S)
    PROVE  x = y
BY DEF First

LEMMA FindOverlaps ==
    ASSUME CapoInv, OverlapInv, NEW a \in Aggregations, FindRow(a)
    PROVE  OverlapInv'
<1>1. /\ aggregation[a] \in AggregationState /\ aggregation[a].pc = "row" /\ aggregation[a].row = 0
      /\ UNCHANGED <<daily, collided>> /\ CountedInv(aggregation[a])
  BY DEF FindRow, CapoInv, TypeOK, OverlapInv, RowInv
<1>2. PICK o \in First(aggregation[a].todo) :
        \/ RowsOf(o, aggregation[a].day) = {} /\ Update(a, [aggregation[a] EXCEPT !.pc = "save"])
        \/ \E i \in RowsOf(o, aggregation[a].day) :
              Update(a, [aggregation[a] EXCEPT !.pc = "save", !.row = i])
        \/ NextRow(a, o)
  BY DEF FindRow
<1>3. \A p \in First(aggregation[a].todo) : p = o
  <2>1. aggregation[a].todo \in SUBSET Nat
    BY <1>1 DEF AggregationState, Oracles
  <2> QED BY <2>1, <1>2, OneIsFirst
<1>4. ASSUME NEW i, (i = 0 /\ RowsOf(o, aggregation[a].day) = {}) \/ i \in RowsOf(o, aggregation[a].day),
             Update(a, [aggregation[a] EXCEPT !.pc = "save", !.row = i])
      PROVE  OverlapInv'
  <2>1. PICK r : r = [aggregation[a] EXCEPT !.pc = "save", !.row = i]
    OBVIOUS
  <2>2. /\ r.pc = "save" /\ r.row = i /\ r.day = aggregation[a].day /\ r.counted = aggregation[a].counted
        /\ r.todo = aggregation[a].todo
    BY <2>1, <1>1 DEF AggregationState
  <2>3. RowInv(r)
    BY <2>2, <1>3, <1>4, RowsOfRows DEF RowInv
  <2>4. CountedInv(r)
    BY <2>2, <1>1 DEF CountedInv
  <2> QED BY <2>1, <2>2, <2>3, <2>4, <1>1, <1>4, OverlapUpdates DEF AtWork
<1>5. CASE RowsOf(o, aggregation[a].day) = {} /\ Update(a, [aggregation[a] EXCEPT !.pc = "save"])
  <2>1. [aggregation[a] EXCEPT !.pc = "save"] = [aggregation[a] EXCEPT !.pc = "save", !.row = 0]
    BY <1>1 DEF AggregationState
  <2> QED BY <2>1, <1>4, <1>5
<1>6. CASE NextRow(a, o)
  BY <1>1, <1>6, NextRowOverlaps
<1> QED BY <1>2, <1>4, <1>5, <1>6

(* On a day that has not collided the aggregation is the only one at work, *)
(* so what it found is still there when it saves; on other days the row it *)
(* found is still one of the oracle and the day.                           *)
LEMMA SaveOverlaps ==
    ASSUME CapoInv, OverlapInv, NEW a \in Aggregations, SaveRow(a)
    PROVE  OverlapInv' /\ \A i \in 1 .. Len(daily) :
                daily[i].day \notin collided' => daily[i].counted \subseteq daily'[i].counted
<1>1. PICK o \in First(aggregation[a].todo) :
        LET r == [oracle |-> o, day |-> aggregation[a].day, counted |-> aggregation[a].counted[o]]
        IN  /\ \/ aggregation[a].row = 0 /\ daily' = Append(daily, r)
               \/ aggregation[a].row # 0 /\ daily' = [daily EXCEPT ![aggregation[a].row] = r]
               \/ UNCHANGED daily
            /\ NextRow(a, o)
  BY DEF SaveRow
<1>2. /\ aggregation[a] \in AggregationState /\ aggregation[a].pc = "save" /\ collided' = collided
      /\ RowInv(aggregation[a]) /\ CountedInv(aggregation[a])
      /\ daily \in Seq(Row)
  BY DEF SaveRow, CapoInv, TypeOK, OverlapInv, Row
<1>o. o \in Oracles
  BY <1>1, <1>2 DEF First, AggregationState
<1>3. PICK d \in Nat, n \in Nat, C \in SUBSET Nat :
         d = aggregation[a].day /\ n = aggregation[a].row /\ C = aggregation[a].counted[o]
  BY <1>2, <1>o DEF AggregationState
<1>4. PICK r : r = [oracle |-> o, day |-> d, counted |-> C]
  OBVIOUS
<1>5. r \in Row /\ r.oracle = o /\ r.day = d /\ r.counted = C
  BY <1>3, <1>4, <1>o DEF Row
<1>6. /\ n = 0 /\ d \notin collided => RowsOf(o, d) = {}
      /\ n # 0 => n \in RowsOf(o, d)
  BY <1>1, <1>2, <1>3 DEF RowInv
<1>7. d \notin collided => \A p \in Oracles : \A i \in RowsOf(p, d) : daily[i].counted \subseteq aggregation[a].counted[p]
  BY <1>2, <1>3 DEF CountedInv
<1>8. PICK q : /\ q = [aggregation[a] EXCEPT !.pc = "row", !.row = 0, !.todo = @ \ {o}]
  OBVIOUS
<1>9. /\ q.pc = "row" /\ q.row = 0 /\ q.day = d /\ q.counted = aggregation[a].counted
      /\ aggregation'[a] = q /\ \A b \in Aggregations : b # a => aggregation'[b] = aggregation[b]
  BY <1>1, <1>2, <1>3, <1>8 DEF NextRow, Update, AggregationState, CapoInv, TypeOK
<1>10. CASE UNCHANGED daily
  <2>1. OverlapInv'
    BY <1>1, <1>2, <1>10, NextRowOverlaps
  <2> QED BY <2>1, <1>10
(* The new rows of a day, and what has become of the old ones.             *)
<1>11. ASSUME /\ daily' \in Seq(Row) /\ Len(daily) <= Len(daily')
              /\ \A i \in 1 .. Len(daily) : daily'[i].oracle = daily[i].oracle /\ daily'[i].day = daily[i].day
              /\ \A i \in 1 .. Len(daily') : daily'[i] = r \/ (i \in 1 .. Len(daily) /\ daily'[i] = daily[i])
              /\ d \notin collided => \A i \in 1 .. Len(daily') : i \notin 1 .. Len(daily) => RowsOf(o, d) = {}
              /\ \A i, j \in 1 .. Len(daily') : i \notin 1 .. Len(daily) /\ j \notin 1 .. Len(daily) => i = j
       PROVE  OverlapInv' /\ \A i \in 1 .. Len(daily) :
                daily[i].day \notin collided' => daily[i].counted \subseteq daily'[i].counted
  <2>1. Len(daily) \in Nat /\ Len(daily') \in Nat
    BY <1>2, <1>11
  <2>2. \A p, e : RowsOf(p, e) \subseteq RowsOf(p, e)'
    BY <1>11, <2>1 DEF RowsOf
  <2>3. \A i \in 1 .. Len(daily) : daily[i].day \notin collided' => daily[i].counted \subseteq daily'[i].counted
    <3> SUFFICES ASSUME NEW i \in 1 .. Len(daily), daily[i].day \notin collided, daily'[i] = r
                 PROVE  daily[i].counted \subseteq r.counted
      BY <1>2, <1>11, <2>1
    <3>1. daily[i].day = d /\ daily[i].oracle = o
      BY <1>5, <1>11
    <3> QED BY <3>1, <1>3, <1>5, <1>7, <1>o DEF RowsOf
  <2>4. OneAggregatePerDay'
    <3> SUFFICES ASSUME NEW i \in 1 .. Len(daily'), NEW j \in 1 .. Len(daily'),
                        daily'[i].oracle = daily'[j].oracle, daily'[i].day = daily'[j].day,
                        daily'[i].day \notin collided
                 PROVE  i = j
      BY <1>2 DEF OneAggregatePerDay
    <3>1. CASE i \in 1 .. Len(daily) /\ j \in 1 .. Len(daily)
      <4>1. daily[i].oracle = daily[j].oracle /\ daily[i].day = daily[j].day /\ daily[i].day \notin collided
        BY <3>1, <1>11
      <4> QED BY <4>1, <3>1 DEF OverlapInv, OneAggregatePerDay
    <3>2. CASE i \notin 1 .. Len(daily) /\ j \in 1 .. Len(daily)
      <4>1. daily[j].oracle = o /\ daily[j].day = d /\ d \notin collided
        BY <3>2, <1>5, <1>11
      <4> QED BY <4>1, <3>2, <1>11 DEF RowsOf
    <3>3. CASE i \in 1 .. Len(daily) /\ j \notin 1 .. Len(daily)
      <4>1. daily[i].oracle = o /\ daily[i].day = d /\ d \notin collided
        BY <3>3, <1>5, <1>11
      <4> QED BY <4>1, <3>3, <1>11 DEF RowsOf
    <3> QED BY <3>1, <3>2, <3>3, <1>11
  <2>5. ASSUME NEW b \in Aggregations, b # a PROVE RowInv(aggregation[b])' /\ CountedInv(aggregation[b])'
    <3>1. aggregation'[b] = aggregation[b] /\ RowInv(aggregation[b]) /\ CountedInv(aggregation[b])
      BY <2>5, <1>9 DEF OverlapInv
    <3>2. AtWork(b) => aggregation[b].day \in collided
      BY <2>5, <1>2 DEF OverlapInv, Apart, AtWork
    <3>3. RowInv(aggregation[b])'
      BY <3>1, <3>2, <2>2, <1>2 DEF RowInv, AtWork
    <3>4. CountedInv(aggregation[b])'
      BY <3>1, <3>2, <1>2 DEF CountedInv, AtWork
    <3> QED BY <3>3, <3>4
  <2>6. RowInv(q)' /\ CountedInv(q)'
    <3>1. RowInv(q)'
      BY <1>9 DEF RowInv
    <3>2. ASSUME d \notin collided, NEW p \in Oracles, NEW i \in RowsOf(p, d)'
          PROVE  daily'[i].counted \subseteq aggregation[a].counted[p]
      <4>1. CASE daily'[i] = r
        BY <4>1, <1>3, <1>5 DEF RowsOf
      <4>2. CASE i \in 1 .. Len(daily) /\ daily'[i] = daily[i]
        <5>1. i \in RowsOf(p, d)
          BY <4>2, <3>2 DEF RowsOf
        <5> QED BY <5>1, <4>2, <3>2, <1>7
      <4> QED BY <4>1, <4>2, <1>11 DEF RowsOf
    <3>3. CountedInv(q)'
      BY <3>2, <1>2, <1>9 DEF CountedInv
    <3> QED BY <3>1, <3>3
  <2>7. RowInv(aggregation[a])' /\ CountedInv(aggregation[a])'
    BY <2>6, <1>9 DEF RowInv, CountedInv
  <2>8. Apart'
    <3> SUFFICES ASSUME NEW b \in Aggregations, NEW e \in Aggregations, b # e, AtWork(b)', AtWork(e)'
                 PROVE  aggregation'[b].day \in collided
      BY <1>2 DEF Apart
    <3>1. AtWork(b) /\ AtWork(e) /\ aggregation'[b].day = aggregation[b].day
      BY <1>2, <1>3, <1>9 DEF AtWork
    <3> QED BY <3>1 DEF OverlapInv, Apart
  <2>9. \A b \in Aggregations : RowInv(aggregation[b])' /\ CountedInv(aggregation[b])'
    BY <2>5, <2>7
  <2> QED BY <2>3, <2>4, <2>8, <2>9 DEF OverlapInv
<1>12. CASE n = 0 /\ daily' = Append(daily, r)
  <2>1. /\ daily' \in Seq(Row) /\ Len(daily') = Len(daily) + 1 /\ Len(daily) \in Nat
        /\ \A i \in 1 .. Len(daily) : daily'[i] = daily[i]
        /\ daily'[Len(daily) + 1] = r
    BY <1>2, <1>5, <1>12
  <2> QED BY <2>1, <1>6, <1>11, <1>12
<1>13. CASE n # 0 /\ daily' = [daily EXCEPT ![n] = r]
  <2>1. n \in 1 .. Len(daily) /\ daily[n].oracle = o /\ daily[n].day = d /\ Len(daily) \in Nat
    BY <1>6, <1>13, RowsOfRows
  <2>2. daily' \in Seq(Row) /\ Len(daily') = Len(daily)
        /\ \A j \in 1 .. Len(daily) : daily'[j] = IF j = n THEN r ELSE daily[j]
    BY <2>1, <1>2, <1>5, <1>13, ExceptSeq
  <2> QED BY <2>1, <2>2, <1>5, <1>11
<1> QED BY <1>1, <1>3, <1>4, <1>10, <1>12, <1>13

LEMMA OverlapNext == CapoInv /\ OverlapInv /\ [Next]_vars => OverlapInv'
<1> SUFFICES ASSUME CapoInv, OverlapInv, [Next]_vars PROVE OverlapInv'
  OBVIOUS
<1>1. CASE FireCollection \/ CollectionStep \/ Stall \/ Tick \/ UNCHANGED vars
  <2>1. UNCHANGED aggregating
    BY <1>1 DEF FireCollection, CollectionStep, Stall, ListOracles, TakeSnapshot, Check, CreateAlert, Send,
       MarkSent, FinishCollection, Tick, vars
  <2> QED BY <2>1, OverlapStays
<1>2. ASSUME NEW a \in Aggregations, EndAggregation(a) \/ StallAggregation(a) PROVE OverlapInv'
  <2>1. RowInv(NoAggregation) /\ CountedInv(NoAggregation)
    BY NoAggregationIsOne DEF RowInv, CountedInv
  <2>2. Update(a, NoAggregation) /\ UNCHANGED <<daily, collided>> /\ NoAggregation.pc = "idle"
    BY <1>2, NoAggregationIsOne DEF EndAggregation, StallAggregation
  <2> QED BY <2>1, <2>2, OverlapUpdates
<1>3. CASE Restart
  <2>1. UNCHANGED <<daily, collided>> /\ \A a \in Aggregations : aggregation'[a].pc = "idle"
    BY <1>3, NoAggregationIsOne DEF Restart
  <2>2. \A a \in Aggregations : RowInv(aggregation[a])' /\ CountedInv(aggregation[a])'
    BY <2>1 DEF RowInv, CountedInv
  <2> QED BY <2>1, <2>2 DEF OverlapInv, Apart, AtWork, OneAggregatePerDay
<1> QED BY <1>1, <1>2, <1>3, StartOverlaps, QueryOverlaps, FindOverlaps, SaveOverlaps
        DEF Next, AggregationStep

LEMMA OverlapHolds == Spec => [](CapoInv /\ OverlapInv)
<1>1. Init => OverlapInv
  <2> SUFFICES ASSUME Init PROVE OverlapInv
    OBVIOUS
  <2>1. \A a \in Aggregations : RowInv(aggregation[a]) /\ CountedInv(aggregation[a])
    BY NoAggregationIsOne DEF Init, RowInv, CountedInv
  <2> QED BY <2>1, NoAggregationIsOne DEF Init, OverlapInv, Apart, AtWork, OneAggregatePerDay
<1> QED BY <1>1, OverlapNext, InvHolds, PTL DEF Spec

(* While the aggregations of a day do not overlap, an oracle has one row   *)
(* for it, although the row is looked for and stored in two queries and a  *)
(* restart may come between them.                                          *)
THEOREM OneRowEach == Spec => []OneAggregatePerDay
<1>1. OverlapInv => OneAggregatePerDay
  BY DEF OverlapInv
<1> QED BY <1>1, OverlapHolds, PTL

(* And a row never loses a snapshot: the aggregation that replaces it has  *)
(* read the day after the row was stored.                                  *)
THEOREM RowsOnlyGrow == Spec => AggregatesGrow
<1>1. CapoInv /\ OverlapInv /\ [Next]_vars =>
         [\A i \in 1 .. Len(daily) :
            daily[i].day \notin collided' => daily[i].counted \subseteq daily'[i].counted]_vars
  <2> SUFFICES ASSUME CapoInv, OverlapInv, Next
               PROVE  \A i \in 1 .. Len(daily) :
                         daily[i].day \notin collided' => daily[i].counted \subseteq daily'[i].counted
    OBVIOUS
  <2>1. CASE \E a \in Aggregations : SaveRow(a)
    BY <2>1, SaveOverlaps
  <2>2. CASE UNCHANGED daily
    BY <2>2
  <2>3. (\E a \in Aggregations : SaveRow(a)) \/ UNCHANGED daily
    BY DEF Next, FireCollection, CollectionStep, ListOracles, TakeSnapshot, Check, CreateAlert, Send,
       MarkSent, FinishCollection, Stall, Tick, Restart, AggregationStep, StartAggregation, QueryDay,
       FindRow, EndAggregation, StallAggregation, aggregating
  <2> QED BY <2>1, <2>2, <2>3
<1> QED BY <1>1, OverlapHolds, PTL DEF Spec, AggregatesGrow

-----------------------------------------------------------------------------
(***************************************************************************)
(* Alerts are not repeated.                                                *)
(***************************************************************************)
(* Unless an attempt failed on the way, a configured channel has delivered *)
(* what was sent, or the alert in hand.                                    *)
InHand(o, k, c) == o = job.oracle /\ k = job.alert /\ Passed(c)
CoolInv ==
    /\ job.pc \in Sending =>
          \/ sent[job.oracle][job.alert] = Never
          \/ job.created >= sent[job.oracle][job.alert] + Cooldown
    /\ \A o \in Oracles, k \in Alerts, c \in Channels :
          Configured(c) =>
              <<o, k>> \in unsure \/ InHand(o, k, c) \/ delivered[c][o][k] = sent[o][k]

LEMMA CoolStays ==
    ASSUME CapoInv, CoolInv, UNCHANGED <<case, alerting>>,
           job.pc \notin Sending, job'.pc \notin Sending
    PROVE  CoolInv'
BY DEF CoolInv, InHand, Passed, Configured, Sending, alerting

LEMMA CoolCreate ==
    ASSUME CapoInv, CoolInv, CreateAlert
    PROVE  CoolInv'
<1>1. /\ job.oracle \in Oracles /\ job \in JobState /\ now \in Time /\ job.alert \in Alerts
      /\ job.pc = "create" /\ UNCHANGED <<case, alerting>>
  BY DEF CreateAlert, CapoInv, TypeOK, JobInv, JobState
<1>2. CASE AlertDone
  BY <1>1, <1>2, AlertDoneMoves, CoolStays DEF Sending
<1>3. CASE /\ ~IsRecent(sent[job.oracle][job.alert])
           /\ job' = [job EXCEPT !.created = now,
                                 !.pc = IF "mail" \in Channels THEN "mail" ELSE AfterChannel("mail")]
  <2>1. job'.oracle = job.oracle /\ job'.alert = job.alert /\ job'.created = now
        /\ job'.pc \in Sending
    BY <1>1, <1>3 DEF JobState, AfterChannel, Sending
  <2>2. sent[job.oracle][job.alert] \in Time \cup {Never}
    BY <1>1 DEF CapoInv, TypeOK
  <2>3. \/ sent[job.oracle][job.alert] = Never
        \/ now >= sent[job.oracle][job.alert] + Cooldown
    BY <1>1, <1>3, <2>2, CapoAssumption DEF IsRecent, Time
  <2>4. \A o \in Oracles, k \in Alerts, c \in Channels :
           Configured(c) => <<o, k>> \in unsure \/ delivered[c][o][k] = sent[o][k]
    BY <1>1 DEF CoolInv, InHand, Passed
  <2> QED BY <1>1, <2>1, <2>3, <2>4 DEF CoolInv, Configured, alerting
<1> QED BY <1>2, <1>3 DEF CreateAlert

(* An attempt that failed is in doubt from then on.                        *)
LEMMA CoolDoubt ==
    ASSUME CapoInv, CoolInv, Doubt, UNCHANGED <<case, sent, delivered>>, job'.pc \notin Sending
    PROVE  CoolInv'
<1>1. ASSUME NEW o \in Oracles, NEW k \in Alerts, NEW c \in Channels, Configured(c)
      PROVE  <<o, k>> \in unsure' \/ delivered[c][o][k] = sent[o][k]
  BY <1>1 DEF CoolInv, InHand, Doubt
<1> QED BY <1>1 DEF CoolInv, Configured

LEMMA CoolSend ==
    ASSUME CapoInv, CoolInv, NEW c \in Channels, Send(c)
    PROVE  /\ CoolInv'
           /\ \A o \in Oracles, k \in Alerts, e \in Channels :
                delivered'[e][o][k] # delivered[e][o][k] /\ delivered[e][o][k] # Never /\ <<o, k>> \notin unsure =>
                    delivered'[e][o][k] >= delivered[e][o][k] + Cooldown
<1> DEFINE o == job.oracle
           k == job.alert
<1>1. o \in Oracles /\ job \in JobState /\ k \in Alerts /\ job.created \in Time
      /\ job.pc = c /\ c \in {"mail", "telegram"} /\ case' = case
  BY CapoAssumption DEF Send, CapoInv, TypeOK, JobInv, Sending, JobState
<1>2. CASE SendFails /\ UNCHANGED delivered
  <2>1. job'.pc \notin Sending
    BY <1>1, <1>2, AlertDoneMoves DEF SendFails, Sending
  <2> QED BY <1>1, <1>2, <2>1, CoolDoubt DEF SendFails
<1>3. CASE /\ delivered' = IF Configured(c) THEN [delivered EXCEPT ![c][o][k] = job.created]
                           ELSE delivered
           /\ job' = [job EXCEPT !.pc = AfterChannel(c)]
           /\ UNCHANGED <<sent, unsure>>
  <2>1. /\ job'.oracle = o /\ job'.alert = k /\ job'.created = job.created
        /\ job'.pc \in Sending
        /\ \/ job'.pc = "telegram" /\ c = "mail"
           \/ job'.pc = "mark" /\ (c = "telegram" \/ "telegram" \notin Channels)
    BY <1>3, <1>1 DEF JobState, AfterChannel, Sending
  <2>2. /\ Configured(c) => delivered'[c][o][k] = job.created
        /\ ~Configured(c) => delivered' = delivered
        /\ \A e \in Channels : e # c => delivered'[e] = delivered[e]
        /\ \A p \in Oracles, j \in Alerts : p # o \/ j # k => delivered'[c][p][j] = delivered[c][p][j]
    <3>1. CASE Configured(c)
      BY <3>1, <1>3, <1>1 DEF CapoInv, TypeOK
    <3>2. CASE ~Configured(c)
      BY <3>2, <1>3, <1>1 DEF CapoInv, TypeOK
    <3> QED BY <3>1, <3>2
  <2>3. Configured(c) => <<o, k>> \in unsure \/ delivered[c][o][k] = sent[o][k]
    BY <1>1 DEF CoolInv, InHand, Passed
  <2>4. \/ sent[o][k] = Never
        \/ job.created >= sent[o][k] + Cooldown
    BY <1>1 DEF CoolInv, Sending
  <2>5. Passed(c)' /\ \A e \in Channels : Passed(e) => Passed(e)'
    BY <1>1, <2>1 DEF Passed
  <2>6. ASSUME NEW p \in Oracles, NEW j \in Alerts, NEW e \in Channels, Configured(e)
        PROVE  <<p, j>> \in unsure \/ InHand(p, j, e)' \/ delivered'[e][p][j] = sent[p][j]
    <3>1. CASE e = c /\ p = o /\ j = k
      BY <3>1, <2>1, <2>5 DEF InHand
    <3>2. CASE ~(e = c /\ p = o /\ j = k)
      <4>1. delivered'[e][p][j] = delivered[e][p][j]
        BY <3>2, <2>2
      <4> QED BY <4>1, <2>1, <2>5, <2>6 DEF CoolInv, InHand
    <3> QED BY <3>1, <3>2
  <2>7. CoolInv'
    <3>1. \A e \in Channels : Configured(e)' <=> Configured(e)
      BY <1>1 DEF Configured
    <3> QED BY <3>1, <1>3, <2>1, <2>4, <2>6 DEF CoolInv
  <2>8. ASSUME NEW p \in Oracles, NEW j \in Alerts, NEW e \in Channels,
               delivered'[e][p][j] # delivered[e][p][j], delivered[e][p][j] # Never, <<p, j>> \notin unsure
        PROVE  delivered'[e][p][j] >= delivered[e][p][j] + Cooldown
    <3>1. e = c /\ p = o /\ j = k /\ Configured(c)
      BY <2>2, <2>8
    <3> QED BY <3>1, <2>2, <2>3, <2>4, <2>8
  <2> QED BY <2>7, <2>8
<1> QED BY <1>2, <1>3 DEF Send

LEMMA CoolMark ==
    ASSUME CapoInv, CoolInv, MarkSent
    PROVE  CoolInv'
<1> DEFINE o == job.oracle
           k == job.alert
<1>1. o \in Oracles /\ job \in JobState /\ k \in Alerts /\ job.pc = "mark"
      /\ delivered' = delivered /\ case' = case
  BY DEF MarkSent, CapoInv, TypeOK, JobInv, Sending, JobState
<1>2. job'.pc \notin Sending
  BY <1>1, AlertDoneMoves DEF MarkSent, SendFails, Sending
<1>3. CASE SendFails
  BY <1>1, <1>2, <1>3, CoolDoubt DEF SendFails
<1>4. CASE UNCHANGED unsure /\ sent' = [sent EXCEPT ![o][k] = job.created]
  <2>1. /\ sent'[o][k] = job.created
        /\ \A p \in Oracles, j \in Alerts : p # o \/ j # k => sent'[p][j] = sent[p][j]
    BY <1>1, <1>4 DEF CapoInv, TypeOK
  <2>2. \A c \in Channels : Configured(c) => delivered[c][o][k] = job.created
    BY <1>1 DEF CapoInv, JobInv, Passed
  <2>3. ASSUME NEW p \in Oracles, NEW j \in Alerts, NEW e \in Channels, Configured(e)
        PROVE  <<p, j>> \in unsure \/ delivered[e][p][j] = sent'[p][j]
    BY <2>1, <2>2, <2>3 DEF CoolInv, InHand
  <2> QED BY <1>1, <1>2, <1>4, <2>3 DEF CoolInv, Configured
<1> QED BY <1>3, <1>4 DEF MarkSent

(* A collection holds the lock, so that no other one begins beside it.     *)
CollectionLocks == job.pc # "idle" => isCollecting

LEMMA LockNext == CapoInv /\ CollectionLocks /\ [Next]_vars => CollectionLocks'
<1> SUFFICES ASSUME CapoInv, CollectionLocks, [Next]_vars PROVE CollectionLocks'
  OBVIOUS
<1> USE DEF CollectionLocks
<1>1. CASE FireCollection
  BY <1>1 DEF FireCollection, collection
<1>2. CASE CollectionStep
  <2>1. job.pc # "idle" /\ (isCollecting' = isCollecting \/ EndCollection)
    BY <1>2, CapoAssumption DEF CollectionStep, ListOracles, TakeSnapshot, Check, CreateAlert, Send, MarkSent,
       FinishCollection
  <2> QED BY <2>1 DEF EndCollection, NoJob
<1>3. CASE Restart \/ Stall
  BY <1>3 DEF Restart, Stall, EndCollection, NoJob
<1>4. CASE Tick \/ UNCHANGED vars \/ \E a \in Aggregations : AggregationStep(a) \/ StallAggregation(a)
  BY <1>4 DEF Tick, vars, collection, AggregationStep, StartAggregation, QueryDay, FindRow, SaveRow,
     EndAggregation, StallAggregation
<1> QED BY <1>1, <1>2, <1>3, <1>4 DEF Next

LEMMA CoolNext == CapoInv /\ CollectionLocks /\ CoolInv /\ [Next]_vars => CoolInv'
<1> SUFFICES ASSUME CapoInv, CollectionLocks, CoolInv, [Next]_vars PROVE CoolInv'
  OBVIOUS
<1>1. CASE FireCollection
  <2>1. CASE isCollecting
    BY <1>1, <2>1 DEF FireCollection, collection, CoolInv, InHand, Passed, Configured, Sending, alerting
  <2>2. CASE ~isCollecting
    <3>1. UNCHANGED <<case, alerting>> /\ job'.pc = "list" /\ job.pc = "idle"
      BY <1>1, <2>2 DEF FireCollection, NoJob, CollectionLocks
    <3> QED BY <3>1, CoolStays DEF Sending
  <2> QED BY <2>1, <2>2
<1>2. CASE Tick \/ UNCHANGED vars \/ \E a \in Aggregations : AggregationStep(a) \/ StallAggregation(a)
  <2>1. UNCHANGED <<case, job, alerting>>
    BY <1>2 DEF Tick, vars, bounds, collection, AggregationStep, StartAggregation, QueryDay, FindRow,
       SaveRow, EndAggregation, StallAggregation
  <2> QED BY <2>1 DEF CoolInv, InHand, Passed, Configured, Sending, alerting
<1>3. CASE ListOracles \/ TakeSnapshot \/ Check \/ FinishCollection
  <2>1. job \in JobState
    BY DEF CapoInv, TypeOK
  <2>2. UNCHANGED <<case, alerting>> /\ job.pc \notin Sending
    BY <1>3 DEF ListOracles, TakeSnapshot, Check, FinishCollection, bounds, Sending
  <2>3. job'.pc \notin Sending
    <3>1. CASE ListOracles
      BY <2>1, <3>1 DEF ListOracles, EndCollection, NoJob, Sending, JobState
    <3>2. CASE TakeSnapshot
      BY <2>1, <3>2 DEF TakeSnapshot, Raise, Sending, JobState
    <3>3. CASE Check
      BY <2>1, <3>3 DEF Check, NextOracle, Raise, NoJob, Sending, JobState
    <3>4. CASE FinishCollection
      BY <3>4 DEF FinishCollection, EndCollection, NoJob, Sending
    <3> QED BY <1>3, <3>1, <3>2, <3>3, <3>4
  <2> QED BY <2>2, <2>3, CoolStays
<1>4. CASE Restart \/ Stall
  <2>0. job \in JobState
    BY DEF CapoInv, TypeOK
  <2>1. job'.pc \notin Sending /\ UNCHANGED <<case, sent, delivered>>
    BY <1>4, <2>0 DEF Restart, Stall, EndCollection, NoJob, Sending, JobState
  <2>2. CASE job.pc \in Sending
    BY <1>4, <2>1, <2>2, CoolDoubt DEF Restart, Stall
  <2>3. CASE job.pc \notin Sending
    BY <1>4, <2>1, <2>3, CoolStays DEF Restart, Stall, alerting
  <2> QED BY <2>2, <2>3
<1> QED BY <1>1, <1>2, <1>3, <1>4, CoolCreate, CoolMark, CoolSend DEF Next, CollectionStep

LEMMA CoolHolds == Spec => [](CapoInv /\ CollectionLocks /\ CoolInv)
<1>1. Init => CollectionLocks /\ CoolInv
  BY DEF Init, CollectionLocks, CoolInv, NoJob, Sending
<1> QED BY <1>1, LockNext, CoolNext, InvHolds, PTL DEF Spec

(* A channel that has delivered an alert does not deliver it again before  *)
(* the cooldown is over, unless an attempt failed: the cooldown is looked  *)
(* up in the table, the delivery comes before the table is written.        *)
THEOREM NoRepeats == Spec => NotRepeated
<1>1. CapoInv /\ CoolInv /\ [Next]_vars =>
         [\A o \in Oracles, k \in Alerts, c \in Channels :
            LET last == delivered[c][o][k]
            IN  delivered'[c][o][k] # last /\ last # Never /\ <<o, k>> \notin unsure =>
                   delivered'[c][o][k] >= last + Cooldown]_vars
  <2> SUFFICES ASSUME CapoInv, CoolInv, Next, NEW o \in Oracles, NEW k \in Alerts, NEW c \in Channels,
                      delivered'[c][o][k] # delivered[c][o][k], delivered[c][o][k] # Never,
                      <<o, k>> \notin unsure
               PROVE  delivered'[c][o][k] >= delivered[c][o][k] + Cooldown
    OBVIOUS
  <2>1. (\E e \in Channels : Send(e)) \/ UNCHANGED delivered
    BY DEF Next, FireCollection, CollectionStep, ListOracles, TakeSnapshot, Check, CreateAlert,
       MarkSent, FinishCollection, Stall, Tick, Restart, AggregationStep, StartAggregation, QueryDay,
       FindRow, SaveRow, EndAggregation, StallAggregation, alerting
  <2> QED BY <2>1, CoolSend
<1> QED BY <1>1, CoolHolds, PTL DEF Spec, NotRepeated
=============================================================================
