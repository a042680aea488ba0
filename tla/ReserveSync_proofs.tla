-------------------------- MODULE ReserveSync_proofs --------------------------
(***************************************************************************)
(* Theorems about ReserveSync, for any number of sources, jobs and hosts,  *)
(* any start, any length of the day and any failures: its types, its lock, *)
(* LedgerInv and what rests on it (no gap, the refinement of DailyLedger,  *)
(* the checkpoint follows the rows and does not move back, a failed price  *)
(* is retried), how far a row may be from its day, and why a day may have  *)
(* more rows than one.                                                     *)
(***************************************************************************)
EXTENDS ReserveSync, DailyGrid_proofs, FiniteSetTheorems

-----------------------------------------------------------------------------
(***************************************************************************)
(* The local state of a job.                                               *)
(***************************************************************************)

LEMMA IdleJobType == IdleJob \in JobState
BY DEF IdleJob, JobState, Phases, NoDate, Block

(* The numbers of a job, for the provers to add to.                        *)
LEMMA JobNumbers ==
    ASSUME NEW r \in JobState
    PROVE  /\ r.src \in Nat /\ r.src + 1 \in Nat
           /\ r.alg \in Nat /\ r.alg + 1 \in Nat
           /\ r.target \in Nat /\ r.target + Day \in Nat
           /\ r.today \in Nat
           /\ r.last \in Block /\ SkipADay(r.last) \in Block
           /\ r.found \in Block
           /\ r.purge \in SUBSET Sources
<1>1. r.src \in Nat /\ r.alg \in Nat /\ r.target \in Nat /\ r.last \in Nat
  BY DEF JobState, Block
<1>2. r.today \in Nat /\ r.found \in Block /\ r.purge \in SUBSET Sources
  BY DEF JobState, Block
<1> QED BY <1>1, <1>2, GridAssumption DEF Block, SkipADay

(* Leaving a source: which fields change, and to what.                     *)
LEMMA AfterSourceFields ==
    ASSUME NEW r \in JobState
    PROVE  /\ AfterSource(r) \in JobState
           /\ AfterSource(r).pc = "task"
           /\ AfterSource(r).src = r.src
           /\ AfterSource(r).clear = r.clear
           /\ AfterSource(r).purge = r.purge
<1>1. ASSUME NEW a \in Nat
      PROVE  [r EXCEPT !.pc = "task", !.alg = a, !.last = 0, !.target = 0, !.today = 0, !.found = 0]
               \in JobState
  BY DEF JobState, Phases, Block
<1>2. AfterSource(r) \in JobState
  BY <1>1, JobNumbers DEF AfterSource
<1> QED BY <1>2 DEF AfterSource, JobState

(* Going on to the next day, or leaving the source after the last one.     *)
LEMMA AfterDayFields ==
    ASSUME NEW r \in JobState, NEW last \in Block
    PROVE  /\ AfterDay(r, last) \in JobState
           /\ AfterDay(r, last).src = r.src
           /\ AfterDay(r, last).clear = r.clear
           /\ AfterDay(r, last).purge = r.purge
           /\ \/ AfterDay(r, last).pc = "task"
              \/ /\ AfterDay(r, last).pc = "day"
                 /\ AfterDay(r, last).alg = r.alg
                 /\ AfterDay(r, last).last = last
                 /\ AfterDay(r, last).target = r.target + Day
                 /\ AfterDay(r, last).today = r.today
                 /\ r.target + Day <= r.today
<1>1. CASE r.target + Day > r.today
  BY <1>1, AfterSourceFields DEF AfterDay
<1>2. CASE ~(r.target + Day > r.today)
  <2> DEFINE n == [r EXCEPT !.pc = "day", !.last = last, !.target = @ + Day, !.found = 0]
  <2>1. ASSUME NEW t \in Nat
        PROVE  [r EXCEPT !.pc = "day", !.last = last, !.target = t, !.found = 0] \in JobState
    BY DEF JobState, Phases, Block
  <2>2. n \in JobState
    BY <2>1, JobNumbers
  <2>3. /\ n.src = r.src /\ n.clear = r.clear /\ n.purge = r.purge
        /\ n.pc = "day" /\ n.alg = r.alg /\ n.last = last
        /\ n.target = r.target + Day /\ n.today = r.today
    BY DEF JobState
  <2>4. r.target + Day <= r.today
    BY <1>2, JobNumbers
  <2>5. AfterDay(r, last) = n
    BY <1>2 DEF AfterDay
  <2> QED BY <2>2, <2>3, <2>4, <2>5
<1> QED BY <1>1, <1>2

-----------------------------------------------------------------------------
(***************************************************************************)
(* Type correctness.  It is inductive with Placed: a job in the day loop   *)
(* works on an algorithm of a source, so the row it saves has a name for   *)
(* its algorithm.                                                          *)
(***************************************************************************)
Placed(j) ==
    InDayLoop(j) => job[j].src \in Sources /\ job[j].alg \in DOMAIN Algorithms[job[j].src]

TypeInv == TypeOK /\ \A j \in Jobs : Placed(j)

(* What Move leaves behind.                                                *)
LEMMA MoveFields ==
    ASSUME job \in [Jobs -> JobState], NEW j \in Jobs, NEW r \in JobState, Move(j, r)
    PROVE  /\ job' \in [Jobs -> JobState]
           /\ job'[j] = r
           /\ \A k \in Jobs : k # j => job'[k] = job[k]
BY DEF Move

(* What Release leaves behind.                                             *)
LEMMA ReleaseFields ==
    ASSUME TypeOK, NEW j \in Jobs, Release(j)
    PROVE  /\ job' \in [Jobs -> JobState]
           /\ job'[j] = IdleJob
           /\ \A k \in Jobs : k # j => job'[k] = job[k]
           /\ entity' \in [Jobs -> [Sources -> Block]]
           /\ entity'[j] = NothingLoaded
           /\ \A k \in Jobs : k # j => entity'[k] = entity[k]
           /\ isProcessing' \in [Hosts -> BOOLEAN]
           /\ isProcessing' = [isProcessing EXCEPT ![HostOf[j]] = FALSE]
<1>1. NothingLoaded \in [Sources -> Block]
  BY DEF NothingLoaded, Block
<1>2. HostOf[j] \in Hosts
  BY JobAssumption
<1> QED BY <1>1, <1>2, IdleJobType, MoveFields DEF Release, TypeOK

(* A step with a fault in it leaves a number of faults.                    *)
LEMMA FaultType ==
    ASSUME faultsLeft \in Nat, NEW f, Fault(f)
    PROVE  faultsLeft' \in Nat
BY DEF Fault

(* The days a job leaves without a checkpoint are days.                    *)
LEMMA RowsBeyondType ==
    ASSUME TypeOK, NEW s \in Sources, NEW b
    PROVE  RowsBeyond(s, b) \in SUBSET Nat
<1>1. \A r \in reserves[s] : r.date \in Nat
  BY DEF TypeOK, Row
<1> QED BY <1>1 DEF RowsBeyond

LEMMA LeavesPendingType ==
    ASSUME TypeOK, NEW jobs \in SUBSET Jobs, LeavesPending(jobs)
    PROVE  uncommitted' \in [Sources -> SUBSET Nat]
<1>1. ASSUME NEW j \in Jobs, NEW s \in Sources PROVE Pending(j, s) \in SUBSET Nat
  <2>1. job[j].target \in Nat
    BY JobNumbers DEF TypeOK
  <2> QED BY <2>1, RowsBeyondType DEF Pending
<1>2. \A s \in Sources : UNION {Pending(j, s) : j \in jobs} \in SUBSET Nat
  BY <1>1
<1> QED BY <1>2 DEF LeavesPending, TypeOK

(* The job moves outside the day loop and no variable but a few changes.   *)
LEMMA StaysPlaced ==
    ASSUME job \in [Jobs -> JobState], NEW j \in Jobs, NEW r \in JobState, Move(j, r),
           r.pc \notin {"day", "commit"}, \A k \in Jobs : Placed(k)
    PROVE  \A k \in Jobs : Placed(k)'
BY MoveFields DEF Placed, InDayLoop

(* After a day the job is still in the loop over the same algorithm, or    *)
(* has left it.                                                            *)
LEMMA AfterDayPlaced ==
    ASSUME job \in [Jobs -> JobState], NEW j \in Jobs, InDayLoop(j), NEW last \in Block,
           Move(j, AfterDay(job[j], last)), \A k \in Jobs : Placed(k)
    PROVE  job' \in [Jobs -> JobState] /\ \A k \in Jobs : Placed(k)'
<1>1. job[j] \in JobState
  OBVIOUS
<1>2. AfterDay(job[j], last) \in JobState
  BY <1>1, AfterDayFields
<1>3. job' \in [Jobs -> JobState] /\ job'[j] = AfterDay(job[j], last)
      /\ \A k \in Jobs : k # j => job'[k] = job[k]
  BY <1>2, MoveFields
<1>4. Placed(j)'
  BY <1>1, <1>3, AfterDayFields DEF Placed, InDayLoop
<1>5. ASSUME NEW k \in Jobs, k # j PROVE Placed(k)'
  BY <1>3, <1>5 DEF Placed, InDayLoop
<1> QED BY <1>3, <1>4, <1>5

LEMMA TypeInvInit == Init => TypeInv
<1> SUFFICES ASSUME Init PROVE TypeInv
  OBVIOUS
<1>1. now \in Nat
  BY SourceAssumption DEF Init, Block
<1>2. CreationBlock \in [Sources -> Block] /\ NothingLoaded \in [Sources -> Block]
  BY SourceAssumption DEF NothingLoaded, Block
<1>3. TypeOK
  BY <1>1, <1>2, IdleJobType, BoundAssumption DEF Init, TypeOK
<1>4. \A j \in Jobs : Placed(j)
  BY DEF Init, Placed, InDayLoop, IdleJob
<1> QED BY <1>3, <1>4 DEF TypeInv

LEMMA TypeInvStep == TypeInv /\ [Next]_vars => TypeInv'
<1> SUFFICES ASSUME TypeInv, [Next]_vars PROVE TypeInv'
  OBVIOUS
<1> USE DEF TypeInv
<1>a. /\ job \in [Jobs -> JobState] /\ \A j \in Jobs : job[j] \in JobState
      /\ faultsLeft \in Nat /\ TypeOK /\ \A j \in Jobs : Placed(j)
  BY DEF TypeOK
<1>b. IdleJob \in JobState /\ \A h \in Hosts : [isProcessing EXCEPT ![h] = TRUE] \in [Hosts -> BOOLEAN]
  BY IdleJobType DEF TypeOK
<1>1. ASSUME NEW j \in Jobs, NEW clear \in BOOLEAN, NEW date \in Nat \cup {NoDate},
             ExecuteWithLock(j, clear, date), clearsLeft' \in Nat
      PROVE  TypeInv'
  <2> DEFINE r == [IdleJob EXCEPT !.pc = "list", !.clear = clear, !.date = date]
  <2>1. r \in JobState /\ r.pc = "list"
    BY <1>b DEF JobState, Phases, IdleJob
  <2>2. Move(j, r)
    BY <1>1 DEF ExecuteWithLock
  <2>3. job' \in [Jobs -> JobState] /\ \A k \in Jobs : Placed(k)'
    BY <1>a, <2>1, <2>2, MoveFields, StaysPlaced
  <2>4. TypeOK'
    BY <1>1, <1>a, <1>b, <2>3, JobAssumption DEF ExecuteWithLock, TypeOK, tables, history
  <2> QED BY <2>3, <2>4
<1>2. CASE \E j \in Jobs : StartCollection(j)
  <2>1. PICK j \in Jobs : StartCollection(j)
    BY <1>2
  <2>2. clearsLeft' \in Nat
    BY <2>1 DEF StartCollection, TypeOK
  <2> QED BY <1>1, <2>1, <2>2 DEF StartCollection, NoDate
<1>3. CASE \E j \in Jobs : StartClearing(j)
  <2>1. PICK j \in Jobs : StartClearing(j)
    BY <1>3
  <2>2. PICK date \in StartDates \cup {NoDate} : ExecuteWithLock(j, TRUE, date)
    BY <2>1 DEF StartClearing
  <2>3. date \in Nat \cup {NoDate}
    BY <2>2, SourceAssumption
  <2>4. clearsLeft' \in Nat
    BY <2>1 DEF StartClearing, TypeOK
  <2> QED BY <1>1, <2>2, <2>3, <2>4
<1>4. ASSUME NEW j \in Jobs, Release(j), faultsLeft' \in Nat,
             UNCHANGED <<now, clearsLeft, blockNumber, base, skipped, unpriced>>,
             reserves' \in [Sources -> SUBSET Row], repeated' \in [Sources -> SUBSET Nat],
             uncommitted' \in [Sources -> SUBSET Nat]
      PROVE  TypeInv'
  <2>1. TypeOK'
    BY <1>4, <1>a, ReleaseFields DEF TypeOK
  <2>2. \A k \in Jobs : Placed(k)'
    BY <1>4, <1>a, <1>b, StaysPlaced DEF Release, IdleJob
  <2> QED BY <2>1, <2>2
<1>5. ASSUME NEW j \in Jobs, NEW r \in JobState, r.pc \notin {"day", "commit"}, Move(j, r),
             faultsLeft' \in Nat, UNCHANGED <<now, clearsLeft, isProcessing>>,
             blockNumber' \in [Sources -> Block], entity' \in [Jobs -> [Sources -> Block]],
             base' \in [Sources -> Block],
             reserves' \in [Sources -> SUBSET Row], repeated' \in [Sources -> SUBSET Nat],
             skipped' \in [Sources -> SUBSET Nat], unpriced' \in [Sources -> SUBSET Nat],
             uncommitted' \in [Sources -> SUBSET Nat]
      PROVE  TypeInv'
  <2>1. TypeOK'
    BY <1>5, <1>a, MoveFields DEF TypeOK
  <2>2. \A k \in Jobs : Placed(k)'
    BY <1>5, <1>a, StaysPlaced
  <2> QED BY <2>1, <2>2
<1>6. ASSUME NEW j \in Jobs, ListSources(j) PROVE TypeInv'
  <2>1. CASE Fault("db") /\ Release(j)
    BY <1>6, <2>1, <1>4, <1>a, FaultType DEF ListSources, tables, history, TypeOK
  <2>2. CASE ~(Fault("db") /\ Release(j))
    <3> DEFINE r == [job[j] EXCEPT !.pc = IF job[j].clear THEN "rewind" ELSE "task"]
    <3>1. r \in JobState /\ r.pc \notin {"day", "commit"}
      BY <1>a DEF JobState, Phases
    <3>2. Move(j, r) /\ faultsLeft' \in Nat /\ entity' = [entity EXCEPT ![j] = blockNumber]
          /\ UNCHANGED <<now, clearsLeft, isProcessing, tables, history>>
      BY <1>6, <2>2, <1>a DEF ListSources, NoFault
    <3> QED BY <3>1, <3>2, <1>5 DEF TypeOK, tables, history
  <2> QED BY <2>1, <2>2
<1>7. ASSUME NEW j \in Jobs, Rewind(j) PROVE TypeInv'
  <2> DEFINE s == job[j].src
  <2>1. s \in Sources /\ s \in Nat
    BY <1>7, JobNumbers, <1>a DEF Rewind
  <2>2. PICK b \in RequestedBlocks(s, job[j].date) :
           /\ entity' = [entity EXCEPT ![j][s] = Assigned(@, b)]
           /\ \/ /\ faultsLeft' = faultsLeft
                 /\ blockNumber' = [blockNumber EXCEPT ![s] = Assigned(entity[j][s], b)]
                 /\ base' = [base EXCEPT ![s] = Assigned(@, b)]
                 /\ NextRewind(j, job[j].purge \cup {s})
                 /\ UNCHANGED uncommitted
              \/ /\ Fault("db")
                 /\ base' = [base EXCEPT ![s] = Later(@, b)]
                 /\ uncommitted' = [uncommitted EXCEPT ![s] = @ \cup RowsBeyond(s, b)]
                 /\ UNCHANGED blockNumber
                 /\ NextRewind(j, job[j].purge)
    BY <1>7 DEF Rewind, NoFault
  <2>3. b \in Block
    BY <2>1, <2>2, SourceAssumption, <1>a DEF RequestedBlocks, FoundBlocks, Block, TypeOK
  <2>4. PICK P \in SUBSET Sources : NextRewind(j, P)
    BY <2>1, <2>2, JobNumbers, <1>a
  <2> DEFINE r == [job[j] EXCEPT !.src = @ + 1, !.purge = P]
  <2>5. \A n \in Nat : [job[j] EXCEPT !.src = n, !.purge = P] \in JobState
    BY <1>a DEF JobState
  <2>6. r \in JobState
    BY <2>5, <1>a, JobNumbers
  <2>7. r.pc \notin {"day", "commit"} /\ Move(j, r)
    BY <2>4, <1>7, <1>a DEF NextRewind, Rewind, JobState
  <2>8. entity' \in [Jobs -> [Sources -> Block]]
    BY <2>1, <2>2, <2>3 DEF Assigned, TypeOK
  <2>9. blockNumber' \in [Sources -> Block] /\ base' \in [Sources -> Block]
    BY <2>1, <2>2, <2>3 DEF Assigned, Later, TypeOK
  <2>10. faultsLeft' \in Nat
    BY <2>2, <1>a, FaultType
  <2>11. UNCHANGED <<now, clearsLeft, isProcessing, reserves, repeated, skipped, unpriced>>
    BY <1>7 DEF Rewind
  <2>12. uncommitted' \in [Sources -> SUBSET Nat]
    <3>1. RowsBeyond(s, b) \in SUBSET Nat
      BY <2>1, <1>a, RowsBeyondType
    <3> QED BY <2>1, <2>2, <3>1 DEF TypeOK
  <2> HIDE DEF r
  <2> QED BY <2>6, <2>7, <2>8, <2>9, <2>10, <2>11, <2>12, <1>5 DEF TypeOK
<1>8. ASSUME NEW j \in Jobs, KeepSource(j) PROVE TypeInv'
  <2> DEFINE r == [job[j] EXCEPT !.src = @ + 1, !.purge = job[j].purge]
  <2>1. \A n \in Nat : [job[j] EXCEPT !.src = n, !.purge = job[j].purge] \in JobState
    BY <1>a DEF JobState
  <2>2. r \in JobState
    BY <2>1, <1>a, JobNumbers
  <2>3. r.pc \notin {"day", "commit"} /\ Move(j, r)
    BY <1>8, <1>a DEF NextRewind, KeepSource, JobState
  <2>4. faultsLeft' \in Nat
    BY <1>8, <1>a, FaultType DEF KeepSource, NoFault
  <2>5. UNCHANGED <<now, clearsLeft, tables, isProcessing, entity, history>>
    BY <1>8 DEF KeepSource
  <2> HIDE DEF r
  <2> QED BY <2>2, <2>3, <2>4, <2>5, <1>5 DEF TypeOK, tables, history
<1>9. ASSUME NEW j \in Jobs, Purge(j) PROVE TypeInv'
  <2>1. CASE Fault("db") /\ Release(j) /\ LeavesPending({j}) /\ UNCHANGED <<reserves, repeated>>
    <3>1. uncommitted' \in [Sources -> SUBSET Nat]
      BY <2>1, <1>a, LeavesPendingType
    <3> QED BY <1>9, <2>1, <3>1, <1>4, <1>a, FaultType DEF Purge, TypeOK
  <2>2. CASE ~(Fault("db") /\ Release(j) /\ LeavesPending({j}) /\ UNCHANGED <<reserves, repeated>>)
    <3> DEFINE r == [job[j] EXCEPT !.pc = "task", !.src = 1, !.purge = {}]
    <3>1. r \in JobState /\ r.pc \notin {"day", "commit"}
      BY <1>a DEF JobState, Phases
    <3>2. /\ Move(j, r) /\ faultsLeft' = faultsLeft
          /\ reserves' = [s \in Sources |-> IF s \in job[j].purge THEN {} ELSE reserves[s]]
          /\ repeated' = [s \in Sources |-> IF s \in job[j].purge THEN {} ELSE repeated[s]]
          /\ UNCHANGED <<now, clearsLeft, blockNumber, base, skipped, unpriced, uncommitted, entity,
                         isProcessing>>
      BY <1>9, <2>2 DEF Purge, NoFault
    <3>3. reserves' \in [Sources -> SUBSET Row] /\ repeated' \in [Sources -> SUBSET Nat]
      BY <3>2 DEF TypeOK
    <3> HIDE DEF r
    <3> QED BY <3>1, <3>2, <3>3, <1>a, <1>5 DEF TypeOK
  <2> QED BY <2>1, <2>2
<1>10. ASSUME NEW j \in Jobs, NextTask(j) PROVE TypeInv'
  <2> DEFINE s == job[j].src
             k == job[j].alg
  <2>1. s \in Nat /\ k \in Nat /\ s + 1 \in Nat /\ k + 1 \in Nat
    BY <1>a, JobNumbers
  <2>2. \A n \in Nat : /\ [job[j] EXCEPT !.alg = n] \in JobState
                       /\ [job[j] EXCEPT !.src = n, !.alg = 1] \in JobState
    BY <1>a DEF JobState
  <2>3. PICK r \in JobState :
           Move(j, r) /\ (r = [job[j] EXCEPT !.alg = k + 1] \/ r = [job[j] EXCEPT !.src = s + 1, !.alg = 1])
    BY <1>10, <2>1, <2>2 DEF NextTask
  <2>4. r.pc = "task"
    BY <1>10, <2>3, <1>a DEF NextTask, JobState
  <2>5. UNCHANGED <<bounds, tables, isProcessing, entity, history>>
    BY <1>10 DEF NextTask
  <2> QED BY <2>3, <2>4, <2>5, <1>5, <1>a DEF TypeOK, bounds, tables, history
<1>11. ASSUME NEW j \in Jobs, Finish(j) PROVE TypeInv'
  BY <1>11, <1>4, <1>a DEF Finish, bounds, tables, history, TypeOK
<1>12. ASSUME NEW j \in Jobs, Move(j, AfterSource(job[j])), faultsLeft' \in Nat,
              UNCHANGED <<now, clearsLeft, isProcessing, entity, reserves, repeated, base, skipped,
                          uncommitted>>,
              blockNumber' \in [Sources -> Block], unpriced' \in [Sources -> SUBSET Nat]
       PROVE  TypeInv'
  BY <1>12, <1>5, <1>a, AfterSourceFields DEF TypeOK
<1>13. ASSUME NEW j \in Jobs, RunStats(j) PROVE TypeInv'
  BY <1>13, <1>12, <1>a DEF RunStats, bounds, tables, history, TypeOK
<1>14. ASSUME NEW j \in Jobs, UpToDate(j) PROVE TypeInv'
  <2>1. entity[j][job[j].src] \in Block /\ blockNumber' \in [Sources -> Block]
    BY <1>14 DEF UpToDate, AtTask, TypeOK
  <2> QED BY <2>1, <1>14, <1>12, <1>a DEF UpToDate, bounds, history, TypeOK
<1>15. ASSUME NEW j \in Jobs, SourceFails(j) PROVE TypeInv'
  <2>1. faultsLeft' \in Nat
    BY <1>15, <1>a, FaultType DEF SourceFails
  <2>2. CASE Release(j)
    BY <2>1, <2>2, <1>15, <1>4, <1>a DEF SourceFails, tables, history, TypeOK
  <2>3. CASE Move(j, AfterSource(job[j])) /\ UNCHANGED <<isProcessing, entity>>
    BY <2>1, <2>3, <1>15, <1>12, <1>a DEF SourceFails, tables, history, TypeOK
  <2> QED BY <2>2, <2>3, <1>15 DEF SourceFails
<1>16. ASSUME NEW j \in Jobs, NEW r \in JobState, InDayLoop(j), r.src = job[j].src, r.alg = job[j].alg,
              Move(j, r), UNCHANGED <<bounds, blockNumber, isProcessing, entity, history>>,
              reserves' \in [Sources -> SUBSET Row], repeated' \in [Sources -> SUBSET Nat]
       PROVE  TypeInv'
  <2>1. TypeOK'
    BY <1>16, <1>a, MoveFields DEF TypeOK, bounds, history
  <2>2. \A k \in Jobs : Placed(k)'
    BY <1>16, <1>a, MoveFields DEF Placed, InDayLoop
  <2> QED BY <2>1, <2>2
<1>17. ASSUME NEW j \in Jobs, BeginSource(j) PROVE TypeInv'
  <2> DEFINE start == entity[j][job[j].src]
             r == [job[j] EXCEPT !.pc = "day", !.last = start, !.target = FirstMidnightUTC(start),
                                 !.today = TodayMidnightUTC(now)]
  <2>1. /\ job[j].src \in Sources /\ job[j].alg \in DOMAIN Algorithms[job[j].src]
        /\ Move(j, r) /\ UNCHANGED <<bounds, tables, isProcessing, entity, history>>
    BY <1>17 DEF BeginSource, AtTask, Runs
  <2>2. start \in Block /\ start \in Nat /\ now \in Nat
    BY <2>1, <1>a DEF TypeOK, Block
  <2>3. FirstMidnightUTC(start) \in Nat /\ TodayMidnightUTC(now) \in Nat
    BY <2>2, FirstMidnight, TodayMidnight
  <2>4. \A l, m, n \in Nat :
           [job[j] EXCEPT !.pc = "day", !.last = l, !.target = m, !.today = n] \in JobState
    BY <1>a DEF JobState, Phases, Block
  <2>5. r \in JobState
    BY <2>2, <2>3, <2>4
  <2>6. r.src = job[j].src /\ r.alg = job[j].alg
    BY <1>a DEF JobState
  <2> HIDE DEF r
  <2>7. TypeOK'
    BY <2>1, <2>5, <1>a, MoveFields DEF TypeOK, bounds, tables, history
  <2>8. \A k \in Jobs : Placed(k)'
    BY <2>1, <2>5, <2>6, <1>a, MoveFields DEF Placed, InDayLoop
  <2> QED BY <2>7, <2>8
<1>18. ASSUME NEW j \in Jobs, SaveRow(j) PROVE TypeInv'
  <2> DEFINE s == job[j].src
             d == job[j].target
  <2>1. InDayLoop(j) /\ s \in Sources /\ Algorithm(j) \in STRING /\ d \in Nat
    <3>1. InDayLoop(j)
      BY <1>18 DEF SaveRow, AtDay, InDayLoop
    <3>2. s \in Sources /\ job[j].alg \in DOMAIN Algorithms[s]
      BY <3>1, <1>a DEF Placed
    <3>3. Algorithms[s] \in Seq(STRING)
      BY <3>2, SourceAssumption
    <3> QED BY <3>1, <3>2, <3>3, <1>a, JobNumbers DEF Algorithm
  <2>2. PICK b \in DayBlocks(j) :
           /\ reserves' = [reserves EXCEPT ![s] = @ \cup {[date |-> d, block |-> b, algorithm |-> Algorithm(j)]}]
           /\ Move(j, [job[j] EXCEPT !.pc = "commit", !.found = b])
    BY <1>18 DEF SaveRow
  <2>3. b \in Block
    BY <2>2, <1>a, JobNumbers DEF DayBlocks, FoundBlocks, Block, TypeOK
  <2>4. [date |-> d, block |-> b, algorithm |-> Algorithm(j)] \in Row
    BY <2>1, <2>3 DEF Row
  <2>5. reserves' \in [Sources -> SUBSET Row]
    BY <2>1, <2>2, <2>4 DEF TypeOK
  <2>6. repeated' \in [Sources -> SUBSET Nat]
    BY <1>18, <2>1, <1>a DEF SaveRow, TypeOK
  <2> DEFINE r == [job[j] EXCEPT !.pc = "commit", !.found = b]
  <2>7. r \in JobState /\ r.src = job[j].src /\ r.alg = job[j].alg
    BY <2>3, <1>a DEF JobState, Phases
  <2>8. Move(j, r)
    BY <2>2
  <2>9. UNCHANGED <<bounds, blockNumber, isProcessing, entity, history>>
    BY <1>18 DEF SaveRow
  <2> HIDE DEF r
  <2> QED BY <2>1, <2>5, <2>6, <2>7, <2>8, <2>9, <1>16
<1>19. ASSUME NEW j \in Jobs, InDayLoop(j), NEW last \in Block, Move(j, AfterDay(job[j], last)),
              faultsLeft' \in Nat, UNCHANGED <<now, clearsLeft, reserves, repeated, isProcessing, base>>,
              blockNumber' \in [Sources -> Block], entity' \in [Jobs -> [Sources -> Block]],
              skipped' \in [Sources -> SUBSET Nat], unpriced' \in [Sources -> SUBSET Nat],
              uncommitted' \in [Sources -> SUBSET Nat]
       PROVE  TypeInv'
  <2>1. job' \in [Jobs -> JobState] /\ \A k \in Jobs : Placed(k)'
    BY <1>19, <1>a, AfterDayPlaced
  <2>2. TypeOK'
    BY <1>19, <2>1 DEF TypeOK
  <2> QED BY <2>1, <2>2
<1>20. ASSUME NEW j \in Jobs, Commit(j) PROVE TypeInv'
  <2>1. InDayLoop(j) /\ job[j].src \in Sources /\ job[j].found \in Block
    BY <1>20, <1>a, JobNumbers DEF Commit, InDayLoop, Placed
  <2>2. entity' \in [Jobs -> [Sources -> Block]] /\ blockNumber' \in [Sources -> Block]
    BY <1>20, <2>1 DEF Commit, Assigned, TypeOK
  <2> QED BY <1>20, <2>1, <2>2, <1>a, <1>19 DEF Commit, bounds, history, TypeOK
<1>21. ASSUME NEW j \in Jobs, CommitFails(j) PROVE TypeInv'
  <2>1. InDayLoop(j) /\ job[j].src \in Sources /\ job[j].found \in Block /\ SkipADay(job[j].last) \in Block
    BY <1>21, <1>a, JobNumbers DEF CommitFails, InDayLoop, Placed
  <2>2. entity' \in [Jobs -> [Sources -> Block]] /\ faultsLeft' \in Nat
    BY <1>21, <2>1, <1>a, FaultType DEF CommitFails, Assigned, TypeOK
  <2>3. uncommitted' \in [Sources -> SUBSET Nat]
    BY <1>21, <1>a, LeavesPendingType DEF CommitFails
  <2> QED BY <1>21, <2>1, <2>2, <2>3, <1>a, <1>19 DEF CommitFails, tables, TypeOK
<1>22. ASSUME NEW j \in Jobs, AtDay(j)
       PROVE  /\ InDayLoop(j) /\ job[j].src \in Sources /\ job[j].target \in Nat
              /\ SkipADay(job[j].last) \in Block
              /\ \A b \in DayBlocks(j) : b \in Block /\ SkipADay(b) \in Block
              /\ Skip(j) => skipped' \in [Sources -> SUBSET Nat]
  <2>1. /\ InDayLoop(j) /\ job[j].src \in Sources /\ job[j].target \in Nat
        /\ job[j].last \in Nat /\ SkipADay(job[j].last) \in Block
    BY <1>22, <1>a, JobNumbers DEF AtDay, InDayLoop, Placed, Block
  <2>2. \A b \in DayBlocks(j) : b \in Nat
    BY <2>1, <1>a DEF DayBlocks, FoundBlocks, TypeOK
  <2>3. \A b \in Nat : b \in Block /\ SkipADay(b) \in Block
    BY GridAssumption DEF SkipADay, Block
  <2>4. Skip(j) => skipped' \in [Sources -> SUBSET Nat]
    BY <2>1 DEF Skip, TypeOK
  <2> QED BY <2>1, <2>2, <2>3, <2>4
<1>23. ASSUME NEW j \in Jobs, ReadReverts(j) PROVE TypeInv'
  <2>1. PICK last \in Block : Move(j, AfterDay(job[j], last))
    BY <1>23, <1>22 DEF ReadReverts
  <2>2. faultsLeft' \in Nat /\ InDayLoop(j) /\ skipped' \in [Sources -> SUBSET Nat]
    BY <1>23, <1>22, <1>a, FaultType DEF ReadReverts
  <2> QED BY <1>23, <2>1, <2>2, <1>a, <1>19 DEF ReadReverts, tables, TypeOK
<1>24. ASSUME NEW j \in Jobs, ValueInvalid(j) PROVE TypeInv'
  <2>1. PICK last \in Block : Move(j, AfterDay(job[j], last))
    BY <1>24, <1>22 DEF ValueInvalid
  <2>2. faultsLeft' \in Nat /\ InDayLoop(j) /\ skipped' \in [Sources -> SUBSET Nat]
    BY <1>24, <1>22, <1>a, FaultType DEF ValueInvalid
  <2> QED BY <1>24, <2>1, <2>2, <1>a, <1>19 DEF ValueInvalid, tables, TypeOK
<1>25. ASSUME NEW j \in Jobs, PriceFails(j) PROVE TypeInv'
  <2>1. faultsLeft' \in Nat /\ unpriced' \in [Sources -> SUBSET Nat]
    BY <1>25, <1>22, <1>a, FaultType DEF PriceFails, TypeOK
  <2>2. CASE Move(j, AfterSource(job[j]))
    BY <1>25, <2>1, <2>2, <1>a, <1>12 DEF PriceFails, tables, TypeOK
  <2>3. CASE Move(j, AfterDay(job[j], SkipADay(job[j].last)))
    BY <1>25, <2>1, <2>3, <1>a, <1>19, <1>22 DEF PriceFails, tables, TypeOK
  <2> QED BY <1>25, <2>2, <2>3 DEF PriceFails
<1>26. ASSUME NEW j \in Jobs, DayFails(j) PROVE TypeInv'
  <2>1. faultsLeft' \in Nat
    BY <1>26, <1>a, FaultType DEF DayFails, NoFault
  <2> QED BY <1>26, <2>1, <1>a, <1>19, <1>22 DEF DayFails, tables, TypeOK
<1>27. ASSUME NEW j \in Jobs, JobStep(j) PROVE TypeInv'
  BY <1>27, <1>6, <1>7, <1>8, <1>9, <1>10, <1>11, <1>13, <1>14, <1>15, <1>17, <1>18, <1>20, <1>21,
     <1>23, <1>24, <1>25, <1>26 DEF JobStep
<1>28. ASSUME NEW h \in Hosts, Crash(h) PROVE TypeInv'
  <2>1. faultsLeft' \in Nat /\ NothingLoaded \in [Sources -> Block]
    BY <1>28, <1>a, FaultType DEF Crash, NothingLoaded, Block
  <2>2. uncommitted' \in [Sources -> SUBSET Nat]
    BY <1>28, <1>a, LeavesPendingType DEF Crash
  <2>3. TypeOK'
    BY <1>28, <1>a, <1>b, <2>1, <2>2 DEF Crash, tables, TypeOK
  <2>4. \A k \in Jobs : Placed(k)'
    BY <1>28, <1>a DEF Crash, Placed, InDayLoop, IdleJob
  <2> QED BY <2>3, <2>4
<1>29. CASE Tick
  BY <1>29 DEF Tick, TypeOK, Placed, InDayLoop, tables, history
<1>30. CASE UNCHANGED vars
  BY <1>30 DEF vars, bounds, tables, history, TypeOK, Placed, InDayLoop
<1> QED BY <1>2, <1>3, <1>27, <1>28, <1>29, <1>30 DEF Next

(* Every variable keeps its type: in particular no checkpoint, no loaded   *)
(* entity and no row ever holds a block that is not a block number.        *)
THEOREM TypeCorrect == Spec => []TypeOK
<1>1. TypeInv => TypeOK
  BY DEF TypeInv
<1> QED BY TypeInvInit, TypeInvStep, <1>1, PTL DEF Spec

-----------------------------------------------------------------------------
(***************************************************************************)
(* The lock.                                                               *)
(***************************************************************************)

(* A step of a job is a step of a running one, which either ends it or     *)
(* leaves it running and the locks alone.                                  *)
LEMMA JobStepShape ==
    ASSUME TypeInv, NEW j \in Jobs, JobStep(j)
    PROVE  /\ Running(j)
           /\ \A k \in Jobs : k # j => job'[k] = job[k] /\ entity'[k] = entity[k]
           /\ Release(j) \/ (Running(j)' /\ UNCHANGED isProcessing)
<1>a. job \in [Jobs -> JobState] /\ job[j] \in JobState /\ entity \in [Jobs -> [Sources -> Block]]
  BY DEF TypeInv, TypeOK
<1>1. /\ AfterSource(job[j]).pc # "idle"
      /\ \A last \in Block : AfterDay(job[j], last).pc # "idle"
  BY <1>a, AfterSourceFields, AfterDayFields
<1>2. /\ SkipADay(job[j].last) \in Block /\ job[j].found \in Block
      /\ \A b \in DayBlocks(j) : b \in Block /\ SkipADay(b) \in Block
  <2>1. job[j].last \in Nat /\ now \in Nat
    BY <1>a, JobNumbers DEF Block, TypeInv, TypeOK
  <2> QED BY <2>1, <1>a, JobNumbers, GridAssumption DEF DayBlocks, FoundBlocks, Block, SkipADay
<1>3. CASE ListSources(j)
  BY <1>3, <1>a DEF ListSources, Move, Release, Running, JobState
<1>4. CASE Rewind(j)
  <2>1. PICK b, purge :
            /\ job[j].pc = "rewind" /\ UNCHANGED isProcessing
            /\ entity' = [entity EXCEPT ![j][job[j].src] = Assigned(@, b)]
            /\ NextRewind(j, purge)
    BY <1>4 DEF Rewind
  <2>2. [job[j] EXCEPT !.src = @ + 1, !.purge = purge].pc = "rewind"
    BY <2>1, <1>a DEF JobState
  <2>3. \A k \in Jobs : k # j => job'[k] = job[k] /\ entity'[k] = entity[k]
    BY <2>1, <1>a DEF NextRewind, Move
  <2> QED BY <2>1, <2>2, <2>3, <1>a DEF NextRewind, Move, Running
<1>5. CASE KeepSource(j)
  <2>1. PICK purge :
            /\ job[j].pc = "rewind" /\ UNCHANGED <<isProcessing, entity>>
            /\ NextRewind(j, purge)
    BY <1>5 DEF KeepSource
  <2>2. [job[j] EXCEPT !.src = @ + 1, !.purge = purge].pc = "rewind"
    BY <2>1, <1>a DEF JobState
  <2> QED BY <2>1, <2>2, <1>a DEF NextRewind, Move, Running
<1>6. CASE Purge(j)
  <2>1. CASE Release(j)
    BY <2>1, <1>6, <1>a DEF Purge, Move, Release, Running
  <2>2. CASE ~Release(j)
    <3>1. /\ Move(j, [job[j] EXCEPT !.pc = "task", !.src = 1, !.purge = {}])
          /\ job[j].pc = "rewind" /\ UNCHANGED <<entity, isProcessing>>
      BY <2>2, <1>6 DEF Purge
    <3>2. [job[j] EXCEPT !.pc = "task", !.src = 1, !.purge = {}].pc = "task"
      BY <1>a DEF JobState
    <3> QED BY <3>1, <3>2, <1>a DEF Move, Running
  <2> QED BY <2>1, <2>2
<1>7. CASE NextTask(j)
  BY <1>7, <1>a DEF NextTask, Move, Running, JobState
<1>8. CASE RunStats(j) \/ UpToDate(j) \/ SourceFails(j)
  BY <1>8, <1>1, <1>a DEF RunStats, UpToDate, SourceFails, AtTask, Move, Release, Running
<1>9. CASE BeginSource(j)
  BY <1>9, <1>a DEF BeginSource, AtTask, Move, Running, JobState
<1>10. CASE SaveRow(j)
  BY <1>10, <1>a DEF SaveRow, AtDay, Move, Running, JobState
<1>11. CASE Commit(j) \/ CommitFails(j)
  BY <1>11, <1>1, <1>2, <1>a DEF Commit, CommitFails, Move, Running
<1>12. CASE ReadReverts(j) \/ ValueInvalid(j) \/ PriceFails(j) \/ DayFails(j)
  BY <1>12, <1>1, <1>2, <1>a DEF ReadReverts, ValueInvalid, PriceFails, DayFails, AtDay, Move, Running
<1>13. CASE Finish(j)
  BY <1>13, <1>a DEF Finish, Move, Release, Running
<1> QED BY <1>3, <1>4, <1>5, <1>6, <1>7, <1>8, <1>9, <1>10, <1>11, <1>12, <1>13 DEF JobStep

LEMMA OneJobPerHostInit == Init => OneJobPerHost
BY DEF Init, OneJobPerHost, Running, IdleJob

LEMMA OneJobPerHostStep == TypeInv /\ OneJobPerHost /\ [Next]_vars => OneJobPerHost'
<1> SUFFICES ASSUME TypeInv, OneJobPerHost, [Next]_vars PROVE OneJobPerHost'
  OBVIOUS
<1>a. /\ job \in [Jobs -> JobState] /\ isProcessing \in [Hosts -> BOOLEAN]
      /\ \A j \in Jobs : HostOf[j] \in Hosts
  BY JobAssumption DEF TypeInv, TypeOK
<1>1. ASSUME NEW j \in Jobs, NEW clear, NEW date, ExecuteWithLock(j, clear, date)
      PROVE  OneJobPerHost'
  <2>1. /\ ~Running(j) /\ ~isProcessing[HostOf[j]]
        /\ isProcessing' = [isProcessing EXCEPT ![HostOf[j]] = TRUE]
        /\ Running(j)' /\ \A k \in Jobs : k # j => job'[k] = job[k]
    BY <1>1, <1>a DEF ExecuteWithLock, Move, Running, IdleJob
  <2> QED BY <2>1, <1>a DEF OneJobPerHost, Running
<1>2. ASSUME NEW j \in Jobs, JobStep(j) PROVE OneJobPerHost'
  <2>1. /\ Running(j) /\ \A k \in Jobs : k # j => job'[k] = job[k]
        /\ Release(j) \/ (Running(j)' /\ UNCHANGED isProcessing)
    BY <1>2, JobStepShape
  <2>2. CASE Release(j)
    <3>1. ~Running(j)' /\ isProcessing' = [isProcessing EXCEPT ![HostOf[j]] = FALSE]
      BY <2>2, <1>a DEF Release, Move, Running, IdleJob
    <3> QED BY <2>1, <3>1, <1>a DEF OneJobPerHost, Running
  <2>3. CASE Running(j)' /\ UNCHANGED isProcessing
    BY <2>1, <2>3, <1>a DEF OneJobPerHost, Running
  <2> QED BY <2>1, <2>2, <2>3
<1>3. ASSUME NEW h \in Hosts, Crash(h) PROVE OneJobPerHost'
  <2>1. /\ isProcessing' = [isProcessing EXCEPT ![h] = FALSE]
        /\ \A k \in Jobs : IF HostOf[k] = h THEN ~Running(k)' ELSE job'[k] = job[k]
    BY <1>3, <1>a DEF Crash, Running, IdleJob
  <2> QED BY <2>1, <1>a DEF OneJobPerHost, Running
<1>4. CASE Tick
  BY <1>4 DEF Tick, OneJobPerHost, Running
<1>5. CASE UNCHANGED vars
  BY <1>5 DEF vars, OneJobPerHost, Running
<1> QED BY <1>1, <1>2, <1>3, <1>4, <1>5 DEF Next, StartCollection, StartClearing

(* executeWithLock admits one job at a time to a host, and the lock is     *)
(* held exactly while a job runs: no path out of a job, and no crash,      *)
(* leaves it behind.                                                       *)
THEOREM LockIsExact == Spec => []OneJobPerHost
<1>1. Init => TypeInv /\ OneJobPerHost
  BY TypeInvInit, OneJobPerHostInit
<1>2. TypeInv /\ OneJobPerHost /\ [Next]_vars => TypeInv' /\ OneJobPerHost'
  BY TypeInvStep, OneJobPerHostStep
<1> QED BY <1>1, <1>2, PTL DEF Spec

-----------------------------------------------------------------------------
(***************************************************************************)
(* No silent gap.  The inductive invariant is LedgerInv.  Almost every     *)
(* step makes the ledger grow: what is settled stays settled, and no       *)
(* source is asked to start earlier.  The two that do not, a rewind and    *)
(* the DELETE, belong to a collection with clearData, which runs alone.    *)
(***************************************************************************)
Grows ==
    \A s \in Sources :
        base[s] <= base'[s] /\ \A d \in Nat : Settled(s, d) => Settled(s, d)'

LEMMA GrowsIf ==
    ASSUME \A s \in Sources : /\ base[s] <= base'[s] /\ reserves[s] \subseteq reserves'[s]
                              /\ skipped[s] \subseteq skipped'[s] /\ unpriced[s] \subseteq unpriced'[s]
    PROVE  Grows
BY DEF Grows, Settled, HasRow, GivenUp

(* What is settled stays settled when the ledger grows.                    *)
LEMMA GrowsKeepsGaps ==
    ASSUME TypeOK, TypeOK', Grows
    PROVE  \A s \in Sources : \A b \in Int :
              (\A d \in base[s] + 1 .. b : IsMidnight(d) => Settled(s, d))
              => (\A d \in base'[s] + 1 .. b : IsMidnight(d) => Settled(s, d)')
<1> SUFFICES ASSUME NEW s \in Sources, NEW b \in Int,
                    \A d \in base[s] + 1 .. b : IsMidnight(d) => Settled(s, d),
                    NEW d \in base'[s] + 1 .. b, IsMidnight(d)
             PROVE  Settled(s, d)'
  OBVIOUS
<1>1. base[s] \in Nat /\ base'[s] \in Nat /\ base[s] <= base'[s]
  BY DEF TypeOK, Block, Grows
<1>2. d \in base[s] + 1 .. b /\ d \in Nat
  BY <1>1
<1> QED BY <1>2 DEF Grows

LEMMA NoSilentGapKept ==
    ASSUME TypeOK, TypeOK', Grows, NoSilentGap, blockNumber' = blockNumber
    PROVE  NoSilentGap'
<1>1. \A s \in Sources : blockNumber[s] \in Int
  BY DEF TypeOK, Block
<1> QED BY <1>1, GrowsKeepsGaps DEF NoSilentGap, SettledUpTo

(* A job that does not move keeps its part of the invariant when the       *)
(* ledger grows, its purge aside.                                          *)
LEMMA UnmovedKeeps ==
    ASSUME TypeInv, TypeOK', Grows, NEW k \in Jobs, JobInv(k),
           job'[k] = job[k], entity'[k] = entity[k],
           job[k].pc = "rewind" => UNCHANGED <<blockNumber, base>>
    PROVE  JobInv(k)'
<1>1. /\ \A s \in Sources : entity[k][s] \in Int
      /\ job[k].target \in Int /\ job[k].target - 1 \in Int /\ job[k].purge \in SUBSET Sources
      /\ TypeOK /\ Placed(k)
  BY JobNumbers DEF TypeInv, TypeOK, Block
<1>2. EntitiesSettled(k)'
  BY <1>1, GrowsKeepsGaps DEF EntitiesSettled, SettledUpTo, JobInv
<1>3. PurgeClaimsNothing(k)'
  BY <1>1 DEF PurgeClaimsNothing, JobInv
<1>4. CASE ~InDayLoop(k)
  BY <1>2, <1>3, <1>4 DEF LoopKeepsPace, FoundIsSettled, ClearingIsCounted, JobInv, InDayLoop
<1>5. CASE InDayLoop(k)
  <2>1. job[k].src \in Sources
    BY <1>1, <1>5 DEF Placed
  <2>2. LoopKeepsPace(k)'
    BY <1>1, <1>5, <2>1, GrowsKeepsGaps DEF LoopKeepsPace, SettledUpTo, JobInv, InDayLoop
  <2>3. FoundIsSettled(k)'
    BY <1>1, <2>1, GrowsKeepsGaps DEF FoundIsSettled, SettledUpTo, JobInv
  <2> QED BY <1>2, <1>3, <2>2, <2>3 DEF ClearingIsCounted, JobInv
<1> QED BY <1>4, <1>5

(* A job that ended, by itself or in a crash, has nothing left to write.   *)
LEMMA EndedKeeps ==
    ASSUME TypeOK', NEW j \in Jobs, job'[j].pc = "idle", job'[j].purge = {},
           job'[j].clear => MaxClears > 0, entity'[j] = NothingLoaded
    PROVE  JobInv(j)'
<1>1. \A s \in Sources : base'[s] \in Nat /\ entity'[j][s] = 0
  BY DEF TypeOK, Block, NothingLoaded
<1>2. EntitiesSettled(j)'
  BY <1>1 DEF EntitiesSettled, SettledUpTo
<1> QED BY <1>2 DEF JobInv, PurgeClaimsNothing, LoopKeepsPace, FoundIsSettled, ClearingIsCounted,
                          InDayLoop

(* A job between two sources is bound by its entities only.                *)
LEMMA BetweenSources ==
    ASSUME NEW j \in Jobs, job'[j].pc = "task", job'[j].clear => MaxClears > 0,
           \A s \in Sources : SettledUpTo(s, entity[j][s])'
    PROVE  JobInv(j)'
BY DEF JobInv, EntitiesSettled, PurgeClaimsNothing, LoopKeepsPace, FoundIsSettled, ClearingIsCounted,
       InDayLoop

(* The end of a day that is settled: the next target is a midnight again,  *)
(* there is none in between, and lastBlock may have moved by a day at most *)
(* beyond what this day allowed.                                           *)
LEMMA NextDay ==
    ASSUME TypeInv, TypeInv', NEW j \in Jobs, InDayLoop(j), JobInv(j),
           NEW s \in Sources, s = job[j].src, NEW m, m = job[j].target,
           NEW last \in Block, last <= m + LateSlip + Day,
           Move(j, AfterDay(job[j], last)),
           \A x \in Sources : SettledUpTo(x, entity[j][x])',
           \A d \in base'[s] + 1 .. m : IsMidnight(d) => Settled(s, d)'
    PROVE  JobInv(j)'
<1> DEFINE n == AfterDay(job[j], last)
<1>1. /\ job[j] \in JobState /\ job'[j] = n /\ m \in Nat /\ IsMidnight(m)
      /\ base'[s] \in Nat /\ (job[j].clear => MaxClears > 0)
  BY JobNumbers DEF TypeInv, TypeOK, Placed, JobInv, LoopKeepsPace, ClearingIsCounted, Block, Move
<1>2. n.src = s /\ n.clear = job[j].clear
  BY <1>1, AfterDayFields
<1>3. CASE n.pc = "task"
  BY <1>1, <1>2, <1>3, BetweenSources
<1>4. CASE n.pc = "day" /\ n.last = last /\ n.target = m + Day
  <2>1. /\ m + Day \in Nat /\ IsMidnight(m + Day)
        /\ \A d \in m + 1 .. m + Day : IsMidnight(d) => d = m + Day
    BY <1>1, NextMidnight
  <2>2. \A d \in base'[s] + 1 .. (m + Day) - 1 : IsMidnight(d) => Settled(s, d)'
    <3> SUFFICES ASSUME NEW d \in base'[s] + 1 .. (m + Day) - 1, IsMidnight(d)
                 PROVE  Settled(s, d)'
      OBVIOUS
    <3>1. d \in Nat /\ d # m + Day /\ d <= m + Day
      BY <1>1, <2>1
    <3>2. d <= m
      BY <1>1, <2>1, <3>1
    <3> QED BY <1>1, <3>1, <3>2
  <2>3. LoopKeepsPace(j)'
    <3>1. last <= (m + Day) + LateSlip
      BY <1>1, GridAssumption DEF Block
    <3> QED BY <1>1, <1>2, <1>4, <2>1, <2>2, <3>1 DEF LoopKeepsPace, SettledUpTo
  <2>4. EntitiesSettled(j)' /\ PurgeClaimsNothing(j)' /\ FoundIsSettled(j)' /\ ClearingIsCounted(j)'
    BY <1>1, <1>2, <1>4 DEF EntitiesSettled, PurgeClaimsNothing, FoundIsSettled, ClearingIsCounted
  <2> QED BY <2>3, <2>4 DEF JobInv
<1> QED BY <1>1, <1>3, <1>4, AfterDayFields

(***************************************************************************)
(* The pace of the day loop: lastBlock has not run past the day in         *)
(* progress.  A part of LedgerInv that needs less to hold than the rest.   *)
(***************************************************************************)
Paced(j) ==
    InDayLoop(j) =>
        /\ IsMidnight(job[j].target)
        /\ job[j].last <= job[j].target + LateSlip
        /\ job[j].pc = "commit" => job[j].found <= job[j].target + LateSlip

(* The blocks of a day lie within the slip of its midnight, and skipping a *)
(* day's worth of blocks stays within the slip of the next.                *)
LEMMA PacedBounds ==
    ASSUME FallbackKeepsPace, TypeInv, NEW j \in Jobs, InDayLoop(j), Paced(j)
    PROVE  /\ job[j].src \in Sources /\ job[j].target \in Nat /\ IsMidnight(job[j].target)
           /\ job[j].last \in Nat /\ job[j].last <= job[j].target + LateSlip
           /\ SkipADay(job[j].last) \in Block
           /\ SkipADay(job[j].last) <= job[j].target + LateSlip + Day
           /\ \A b \in DayBlocks(j) :
                 /\ b \in Block /\ job[j].target - EarlySlip <= b /\ b <= job[j].target + LateSlip
                 /\ b <= job[j].target + LateSlip + Day
                 /\ SkipADay(b) \in Block /\ SkipADay(b) <= job[j].target + LateSlip + Day
<1>1. /\ job[j].src \in Sources /\ job[j].target \in Nat /\ IsMidnight(job[j].target)
      /\ job[j].last \in Nat /\ job[j].last <= job[j].target + LateSlip /\ now \in Nat
  BY JobNumbers DEF TypeInv, TypeOK, Placed, Paced, Block
<1>2. \A b \in Nat : b <= job[j].target + LateSlip =>
         /\ b <= job[j].target + LateSlip + Day
         /\ SkipADay(b) \in Nat /\ SkipADay(b) <= job[j].target + LateSlip + Day
  BY <1>1, GridAssumption DEF FallbackKeepsPace, SkipADay
<1>3. \A b \in DayBlocks(j) :
         b \in Nat /\ job[j].target - EarlySlip <= b /\ b <= job[j].target + LateSlip
  BY <1>1, GridAssumption DEF DayBlocks, FoundBlocks, ExactBlock
<1> QED BY <1>1, <1>2, <1>3 DEF Block

LEMMA DayBounds ==
    ASSUME FallbackKeepsPace, TypeInv, NEW j \in Jobs, InDayLoop(j), JobInv(j)
    PROVE  /\ job[j].src \in Sources /\ job[j].target \in Nat /\ IsMidnight(job[j].target)
           /\ job[j].last \in Nat /\ job[j].last <= job[j].target + LateSlip
           /\ SkipADay(job[j].last) \in Block
           /\ SkipADay(job[j].last) <= job[j].target + LateSlip + Day
           /\ \A b \in DayBlocks(j) :
                 /\ b \in Block /\ job[j].target - EarlySlip <= b /\ b <= job[j].target + LateSlip
                 /\ b <= job[j].target + LateSlip + Day
                 /\ SkipADay(b) \in Block /\ SkipADay(b) <= job[j].target + LateSlip + Day
<1>1. Paced(j)
  BY DEF Paced, JobInv, LoopKeepsPace, FoundIsSettled
<1> QED BY <1>1, PacedBounds

(* With its target settled, a job has settled everything up to the target. *)
LEMMA UpToTarget ==
    ASSUME TypeInv, TypeOK', Grows, NEW j \in Jobs, InDayLoop(j), JobInv(j),
           NEW s \in Sources, s = job[j].src, NEW m, m = job[j].target, Settled(s, m)'
    PROVE  \A d \in base'[s] + 1 .. m : IsMidnight(d) => Settled(s, d)'
<1>1. m \in Int /\ m - 1 \in Int /\ base'[s] \in Int
  BY JobNumbers DEF TypeInv, TypeOK, Block
<1>2. \A d \in base[s] + 1 .. m - 1 : IsMidnight(d) => Settled(s, d)
  BY DEF JobInv, LoopKeepsPace, SettledUpTo
<1>3. \A d \in base'[s] + 1 .. m - 1 : IsMidnight(d) => Settled(s, d)'
  BY <1>1, <1>2, GrowsKeepsGaps DEF TypeInv
<1>4. \A d \in base'[s] + 1 .. m : d = m \/ d \in base'[s] + 1 .. m - 1
  BY <1>1
<1> QED BY <1>3, <1>4

(* The block of a saved row may stand a little after its midnight; no      *)
(* other midnight lies in between.                                         *)
LEMMA UpToFound ==
    ASSUME TypeInv, NEW j \in Jobs, job[j].pc = "commit", JobInv(j)
    PROVE  SettledUpTo(job[j].src, job[j].found)
<1> DEFINE s == job[j].src
           m == job[j].target
<1>1. /\ s \in Sources /\ m \in Nat /\ IsMidnight(m) /\ base[s] \in Nat
      /\ job[j].found \in Nat /\ job[j].found <= m + LateSlip /\ SettledUpTo(s, m)
  BY JobNumbers DEF TypeInv, TypeOK, Placed, InDayLoop, JobInv, LoopKeepsPace, FoundIsSettled, Block
<1>2. \A d \in m + 1 .. m + Day : IsMidnight(d) => d = m + Day
  BY <1>1, NextMidnight
<1>3. \A d \in base[s] + 1 .. job[j].found : IsMidnight(d) => d \in base[s] + 1 .. m
  BY <1>1, <1>2, GridAssumption
<1> QED BY <1>1, <1>3 DEF SettledUpTo

(* A collection with clearData has its host, and by ClearingIsAlone all    *)
(* hosts, to itself.                                                       *)
LEMMA RewindIsAlone ==
    ASSUME TypeInv, OneJobPerHost, LedgerInv, ClearingIsAlone,
           NEW j \in Jobs, NEW k \in Jobs, k # j, Running(j), job[k].pc = "rewind" \/ job[j].pc = "rewind"
    PROVE  ~Running(k)
<1>1. MaxClears > 0
  BY DEF LedgerInv, JobInv, PurgeClaimsNothing, ClearingIsCounted
<1>2. HostOf[j] = HostOf[k]
  BY <1>1, BoundAssumption DEF ClearingIsAlone
<1> QED BY <1>2 DEF OneJobPerHost

LEMMA LedgerInvInit == Init => LedgerInv
<1> SUFFICES ASSUME Init PROVE LedgerInv
  OBVIOUS
<1>1. \A s \in Sources : base[s] \in Nat /\ blockNumber[s] = base[s]
  BY SourceAssumption DEF Init, Block
<1>2. NoSilentGap
  BY <1>1 DEF NoSilentGap, SettledUpTo
<1>3. ASSUME NEW j \in Jobs PROVE JobInv(j)
  <2>1. job[j] = IdleJob /\ entity[j] = NothingLoaded
    BY DEF Init
  <2>2. EntitiesSettled(j)
    BY <1>1, <2>1 DEF EntitiesSettled, SettledUpTo, NothingLoaded, IdleJob
  <2> QED BY <2>1, <2>2 DEF JobInv, PurgeClaimsNothing, LoopKeepsPace, FoundIsSettled, ClearingIsCounted,
                            InDayLoop, IdleJob
<1>4. clearsLeft <= MaxClears
  BY BoundAssumption DEF Init
<1> QED BY <1>2, <1>3, <1>4 DEF LedgerInv

LEMMA LedgerInvStep ==
    ASSUME ClearingIsAlone, FallbackKeepsPace
    PROVE  TypeInv /\ OneJobPerHost /\ LedgerInv /\ [Next]_vars => LedgerInv'
<1> SUFFICES ASSUME TypeInv, OneJobPerHost, LedgerInv, [Next]_vars PROVE LedgerInv'
  OBVIOUS
<1>a. /\ TypeOK /\ TypeInv' /\ TypeOK'
      /\ \A k \in Jobs : JobInv(k) /\ job[k] \in JobState /\ Placed(k)
      /\ NoSilentGap /\ clearsLeft <= MaxClears
  BY TypeInvStep DEF TypeInv, TypeOK, LedgerInv
<1>b. ASSUME NEW j \in Jobs, JobStep(j), Grows, NEW k \in Jobs, k # j PROVE JobInv(k)'
  <2>1. Running(j) /\ job'[k] = job[k] /\ entity'[k] = entity[k]
    BY <1>b, JobStepShape
  <2>2. job[k].pc # "rewind"
    BY <1>b, <2>1, RewindIsAlone DEF Running
  <2> QED BY <1>a, <1>b, <2>1, <2>2, UnmovedKeeps
<1>c. ASSUME NEW j \in Jobs, JobStep(j), Grows, NoSilentGap', JobInv(j)', UNCHANGED clearsLeft
      PROVE  LedgerInv'
  BY <1>a, <1>b, <1>c DEF LedgerInv
<1>d. ASSUME NEW j \in Jobs, JobStep(j), Grows, UNCHANGED <<blockNumber, clearsLeft>>, JobInv(j)'
      PROVE  LedgerInv'
  BY <1>a, <1>c, <1>d, NoSilentGapKept
<1>e. ASSUME UNCHANGED <<base, reserves, skipped, unpriced>> PROVE Grows
  <2>1. \A s \in Sources : base[s] <= base[s]
    BY <1>a DEF TypeOK, Block
  <2> QED BY <1>e, <2>1, GrowsIf
<1>f. ASSUME NEW j \in Jobs, Grows, entity'[j] = entity[j]
      PROVE  \A s \in Sources : SettledUpTo(s, entity[j][s])'
  <2>1. \A s \in Sources : entity[j][s] \in Int /\ SettledUpTo(s, entity[j][s])
    BY <1>a DEF TypeOK, Block, JobInv, EntitiesSettled
  <2> QED BY <1>a, <1>f, <2>1, GrowsKeepsGaps DEF SettledUpTo
<1>g. ASSUME NEW j \in Jobs, JobStep(j), Release(j),
             UNCHANGED <<clearsLeft, blockNumber, reserves, base, skipped, unpriced>>
      PROVE  LedgerInv'
  <2>1. Grows
    BY <1>e, <1>g
  <2>2. JobInv(j)'
    BY <1>a, <1>g, ReleaseFields, EndedKeeps DEF IdleJob
  <2> QED BY <1>d, <1>g, <2>1, <2>2
<1>h. ASSUME NEW j \in Jobs, JobStep(j), Grows, NEW r, Move(j, r), r.pc = "task", r.clear = job[j].clear,
             UNCHANGED <<clearsLeft, entity>>, NoSilentGap'
      PROVE  LedgerInv'
  <2>1. job'[j] = r /\ (job[j].clear => MaxClears > 0)
    BY <1>a, <1>h DEF Move, TypeOK, JobInv, ClearingIsCounted
  <2>2. JobInv(j)'
    BY <1>f, <1>h, <2>1, BetweenSources
  <2> QED BY <1>c, <1>h, <2>2
<1>1. ASSUME NEW j \in Jobs, ListSources(j) PROVE LedgerInv'
  <2>0. JobStep(j) /\ UNCHANGED <<now, clearsLeft, tables, history>> /\ job[j].pc = "list"
    BY <1>1 DEF JobStep, ListSources
  <2>1. CASE Release(j)
    BY <2>0, <2>1, <1>g DEF tables, history
  <2>2. CASE ~Release(j)
    <3> DEFINE r == [job[j] EXCEPT !.pc = IF job[j].clear THEN "rewind" ELSE "task"]
    <3>1. entity' = [entity EXCEPT ![j] = blockNumber] /\ Move(j, r)
      BY <1>1, <2>2 DEF ListSources
    <3>2. Grows
      BY <2>0, <1>e DEF history, tables
    <3>3. entity'[j] = blockNumber /\ blockNumber' = blockNumber /\ job'[j] = r
      BY <2>0, <3>1, <1>a DEF TypeOK, tables, Move
    <3>4. \A s \in Sources : SettledUpTo(s, entity[j][s])'
      <4>1. NoSilentGap'
        BY <1>a, <2>0, <3>2, NoSilentGapKept DEF tables
      <4> QED BY <4>1, <3>3 DEF NoSilentGap, SettledUpTo
    <3>5. /\ r.pc \in {"rewind", "task"} /\ (r.pc = "rewind" => r.clear)
          /\ r.clear = job[j].clear /\ r.purge = {}
      BY <1>a, <2>0 DEF JobState, JobInv, EntitiesSettled
    <3>6. JobInv(j)'
      BY <1>a, <3>3, <3>4, <3>5 DEF JobInv, EntitiesSettled, PurgeClaimsNothing, LoopKeepsPace,
         FoundIsSettled, ClearingIsCounted, InDayLoop
    <3> QED BY <2>0, <3>2, <3>6, <1>d DEF tables
  <2> QED BY <2>1, <2>2
<1>2. ASSUME NEW j \in Jobs, KeepSource(j) PROVE LedgerInv'
  <2> DEFINE r == [job[j] EXCEPT !.src = @ + 1, !.purge = job[j].purge]
  <2>1. /\ JobStep(j) /\ UNCHANGED <<clearsLeft, tables, entity, history>>
        /\ Move(j, r) /\ job[j].pc = "rewind"
    BY <1>2 DEF JobStep, KeepSource, NextRewind
  <2>2. Grows
    BY <2>1, <1>e DEF history, tables
  <2>3. job'[j] = r /\ r.pc = "rewind" /\ r.clear = job[j].clear /\ r.purge = job[j].purge
        /\ r.src = job[j].src + 1
    BY <2>1, <1>a DEF Move, TypeOK, JobState
  <2>4. PurgeClaimsNothing(j)'
    <3>1. \A s \in r.purge : s < r.src
      BY <2>1, <2>3, <1>a, JobNumbers DEF JobInv, PurgeClaimsNothing, Sources
    <3> QED BY <2>1, <2>3, <3>1, <1>a DEF JobInv, PurgeClaimsNothing, tables, history
  <2>5. JobInv(j)'
    BY <2>1, <2>2, <2>3, <2>4, <1>a, <1>f DEF JobInv, EntitiesSettled, LoopKeepsPace, FoundIsSettled,
       ClearingIsCounted, InDayLoop
  <2> QED BY <2>1, <2>2, <2>5, <1>d DEF tables
<1>3. ASSUME NEW j \in Jobs, Rewind(j) PROVE LedgerInv'
  <2>0. PICK s \in Sources : s = job[j].src
    BY <1>3 DEF Rewind
  <2>1. /\ JobStep(j) /\ UNCHANGED <<now, clearsLeft, reserves, repeated, skipped, unpriced>>
        /\ s \in Nat /\ job[j].pc = "rewind" /\ Running(j)
    BY <1>3, <2>0, <1>a, JobNumbers DEF JobStep, Rewind, Running
  <2>2. PICK b \in RequestedBlocks(s, job[j].date) :
           /\ entity' = [entity EXCEPT ![j][s] = Assigned(@, b)]
           /\ \/ /\ blockNumber' = [blockNumber EXCEPT ![s] = Assigned(entity[j][s], b)]
                 /\ base' = [base EXCEPT ![s] = Assigned(@, b)]
                 /\ NextRewind(j, job[j].purge \cup {s})
              \/ /\ base' = [base EXCEPT ![s] = Later(@, b)]
                 /\ UNCHANGED blockNumber
                 /\ NextRewind(j, job[j].purge)
    BY <1>3, <2>0 DEF Rewind
  <2>3. b \in Nat /\ b # 0
    <3>1. CreationBlock[s] \in Nat /\ CreationBlock[s] > EarlySlip /\ EarlySlip \in Nat
      BY <2>1, SourceAssumption, GridAssumption DEF Block
    <3>2. job[j].date \in Int
      BY <1>a DEF JobState, NoDate
    <3> QED BY <2>2, <3>1, <3>2, <1>a DEF RequestedBlocks, FoundBlocks, ExactBlock, TypeOK
  <2>4. /\ entity'[j][s] = b /\ \A x \in Sources : x # s => entity'[j][x] = entity[j][x]
        /\ \A x \in Sources : x # s => base'[x] = base[x]
        /\ \A x \in Sources : x # s => blockNumber'[x] = blockNumber[x]
        /\ base[s] \in Nat /\ base'[s] \in Nat /\ b <= base'[s]
        /\ \A x \in Sources : entity[j][x] \in Nat
    BY <2>1, <2>2, <2>3, <1>a DEF Assigned, Later, TypeOK, Block
  <2>5. \A x \in Sources : \A d \in Nat : Settled(x, d)' <=> Settled(x, d)
    BY <2>1 DEF Settled, HasRow, GivenUp
  <2>6. EntitiesSettled(j)'
    <3>1. \A x \in Sources : SettledUpTo(x, entity[j][x])'
      <4>1. SettledUpTo(s, entity[j][s])'
        BY <2>3, <2>4 DEF SettledUpTo
      <4>2. ASSUME NEW x \in Sources, x # s PROVE SettledUpTo(x, entity[j][x])'
        <5>1. base[x] \in Nat /\ SettledUpTo(x, entity[j][x])
          BY <1>a DEF TypeOK, Block, JobInv, EntitiesSettled
        <5> QED BY <2>4, <2>5, <4>2, <5>1 DEF SettledUpTo
      <4> QED BY <4>1, <4>2
    <3>2. PICK P : NextRewind(j, P)
      BY <2>2
    <3>3. job'[j].pc = "rewind"
      BY <2>1, <3>2, <1>a DEF NextRewind, Move, TypeOK, JobState
    <3> QED BY <3>1, <3>3 DEF EntitiesSettled
  <2>7. ASSUME NEW P \in SUBSET Sources, NextRewind(j, P),
               \A x \in P : x <= s /\ blockNumber'[x] <= base'[x] /\ entity'[j][x] <= base'[x]
        PROVE  JobInv(j)'
    <3>1. job'[j].pc = "rewind" /\ job'[j].clear = job[j].clear /\ job'[j].purge = P /\ job'[j].src = s + 1
      BY <2>0, <2>1, <2>7, <1>a DEF NextRewind, Move, TypeOK, JobState
    <3>2. \A x \in P : x < s + 1
      BY <2>1, <2>7 DEF Sources
    <3>3. PurgeClaimsNothing(j)'
      BY <2>1, <2>7, <3>1, <3>2, <1>a DEF PurgeClaimsNothing, JobInv
    <3> QED BY <2>6, <3>1, <3>3, <1>a DEF JobInv, LoopKeepsPace, FoundIsSettled, ClearingIsCounted, InDayLoop
  <2>8. /\ job[j].purge \in SUBSET Sources
        /\ \A x \in job[j].purge :
              x # s /\ x <= s /\ blockNumber'[x] <= base'[x] /\ entity'[j][x] <= base'[x]
    <3>1. /\ job[j].purge \in SUBSET Sources
          /\ \A x \in job[j].purge : x < s /\ blockNumber[x] <= base[x] /\ entity[j][x] <= base[x]
      BY <2>0, <2>1, <1>a, JobNumbers DEF JobInv, PurgeClaimsNothing
    <3>2. \A x \in job[j].purge : x \in Nat /\ x # s /\ x <= s
      BY <2>1, <3>1 DEF Sources
    <3> QED BY <2>4, <3>1, <3>2
  <2>9. CASE /\ blockNumber' = [blockNumber EXCEPT ![s] = Assigned(entity[j][s], b)]
             /\ base' = [base EXCEPT ![s] = Assigned(@, b)]
             /\ NextRewind(j, job[j].purge \cup {s})
    <3>1. blockNumber'[s] = b /\ base'[s] = b
      BY <2>1, <2>3, <2>9, <1>a DEF Assigned, TypeOK
    <3>2. JobInv(j)'
      BY <2>1, <2>3, <2>4, <2>7, <2>8, <2>9, <3>1
    <3>3. NoSilentGap'
      <4>1. SettledUpTo(s, blockNumber[s])'
        BY <2>3, <3>1 DEF SettledUpTo
      <4>2. ASSUME NEW x \in Sources, x # s PROVE SettledUpTo(x, blockNumber[x])'
        <5>1. base[x] \in Nat /\ blockNumber[x] \in Nat /\ SettledUpTo(x, blockNumber[x])
          BY <1>a DEF TypeOK, Block, NoSilentGap
        <5> QED BY <2>4, <2>5, <4>2, <5>1 DEF SettledUpTo
      <4> QED BY <4>1, <4>2 DEF NoSilentGap
    <3>4. ASSUME NEW k \in Jobs, k # j PROVE JobInv(k)'
      <4>1. job[k].pc = "idle" /\ job'[k] = job[k] /\ entity'[k] = entity[k]
        BY <2>1, <3>4, JobStepShape, RewindIsAlone DEF Running
      <4> QED BY <4>1, <1>a, EndedKeeps DEF JobInv, EntitiesSettled, ClearingIsCounted
    <3> QED BY <2>1, <3>2, <3>3, <3>4, <1>a DEF LedgerInv
  <2>10. CASE /\ base' = [base EXCEPT ![s] = Later(@, b)]
              /\ UNCHANGED blockNumber
              /\ NextRewind(j, job[j].purge)
    <3>1. Grows
      <4>1. \A x \in Sources : base[x] \in Nat /\ base[x] <= base'[x]
        BY <2>1, <2>3, <2>10, <1>a DEF Later, TypeOK, Block
      <4> QED BY <2>5, <4>1 DEF Grows
    <3>2. JobInv(j)'
      BY <2>7, <2>8, <2>10
    <3> QED BY <2>1, <2>10, <3>1, <3>2, <1>d
  <2> QED BY <2>2, <2>9, <2>10
<1>4. ASSUME NEW j \in Jobs, Purge(j) PROVE LedgerInv'
  <2>1. /\ JobStep(j) /\ UNCHANGED <<now, clearsLeft, blockNumber, base, skipped, unpriced>>
        /\ job[j].pc = "rewind" /\ Running(j)
    BY <1>4 DEF JobStep, Purge, Running
  <2>2. CASE Release(j) /\ UNCHANGED reserves
    BY <2>1, <2>2, <1>g
  <2>3. CASE /\ reserves' = [s \in Sources |-> IF s \in job[j].purge THEN {} ELSE reserves[s]]
             /\ Move(j, [job[j] EXCEPT !.pc = "task", !.src = 1, !.purge = {}])
             /\ UNCHANGED entity
    <3>1. ASSUME NEW s \in Sources, NEW b \in Nat, SettledUpTo(s, b), s \in job[j].purge => b <= base[s]
          PROVE  \A d \in base'[s] + 1 .. b : IsMidnight(d) => Settled(s, d)'
      <4>1. base'[s] = base[s] /\ base[s] \in Nat
        BY <2>1, <1>a DEF TypeOK, Block
      <4>2. CASE s \in job[j].purge
        BY <3>1, <4>1, <4>2
      <4>3. CASE s \notin job[j].purge
        BY <2>1, <2>3, <3>1, <4>1, <4>3 DEF SettledUpTo, Settled, HasRow, GivenUp
      <4> QED BY <4>2, <4>3
    <3>2. \A s \in job[j].purge : s \in Sources /\ blockNumber[s] <= base[s] /\ entity[j][s] <= base[s]
      BY <2>1, <1>a, JobNumbers DEF JobInv, PurgeClaimsNothing
    <3>3. NoSilentGap'
      <4>1. \A s \in Sources : blockNumber[s] \in Nat /\ SettledUpTo(s, blockNumber[s])
        BY <1>a DEF TypeOK, Block, NoSilentGap
      <4> QED BY <2>1, <3>1, <3>2, <4>1 DEF NoSilentGap, SettledUpTo
    <3>4. \A s \in Sources : SettledUpTo(s, entity[j][s])'
      <4>1. \A s \in Sources : entity[j][s] \in Nat /\ SettledUpTo(s, entity[j][s])
        BY <1>a DEF TypeOK, Block, JobInv, EntitiesSettled
      <4> QED BY <2>3, <3>1, <3>2, <4>1 DEF SettledUpTo
    <3>5. job'[j].pc = "task" /\ (job'[j].clear => MaxClears > 0)
      BY <2>3, <1>a DEF Move, TypeOK, JobState, JobInv, ClearingIsCounted
    <3>6. JobInv(j)'
      BY <3>4, <3>5, BetweenSources
    <3>7. ASSUME NEW k \in Jobs, k # j PROVE JobInv(k)'
      <4>1. job[k].pc = "idle" /\ job'[k] = job[k] /\ entity'[k] = entity[k]
        BY <2>1, <3>7, JobStepShape, RewindIsAlone DEF Running
      <4> QED BY <4>1, <1>a, EndedKeeps DEF JobInv, EntitiesSettled, ClearingIsCounted
    <3> QED BY <2>1, <3>3, <3>6, <3>7, <1>a DEF LedgerInv
  <2> QED BY <1>4, <2>2, <2>3 DEF Purge
<1>5. ASSUME NEW j \in Jobs, NextTask(j) PROVE LedgerInv'
  <2>1. JobStep(j) /\ UNCHANGED <<bounds, tables, entity, history>> /\ job[j].pc = "task"
    BY <1>5 DEF JobStep, NextTask
  <2>2. PICK r : Move(j, r) /\ r \in {[job[j] EXCEPT !.alg = job[j].alg + 1],
                                      [job[j] EXCEPT !.src = job[j].src + 1, !.alg = 1]}
    BY <1>5 DEF NextTask
  <2>3. r.pc = "task" /\ r.clear = job[j].clear
    BY <2>1, <2>2, <1>a DEF JobState
  <2>4. Grows /\ NoSilentGap'
    BY <2>1, <1>a, <1>e, NoSilentGapKept DEF tables, history
  <2> QED BY <2>1, <2>2, <2>3, <2>4, <1>h DEF bounds
<1>6. ASSUME NEW j \in Jobs, Finish(j) PROVE LedgerInv'
  BY <1>6, <1>g DEF JobStep, Finish, bounds, tables, history
<1>7. ASSUME NEW j \in Jobs, JobStep(j), Grows, Move(j, AfterSource(job[j])), UNCHANGED <<clearsLeft, entity>>, NoSilentGap'
      PROVE  LedgerInv'
  <2>1. AfterSource(job[j]).pc = "task" /\ AfterSource(job[j]).clear = job[j].clear
    BY <1>a, AfterSourceFields
  <2> QED BY <1>7, <2>1, <1>h
<1>8. ASSUME NEW j \in Jobs, RunStats(j) PROVE LedgerInv'
  <2>1. Grows /\ NoSilentGap'
    BY <1>8, <1>a, <1>e, NoSilentGapKept DEF RunStats, tables, history
  <2> QED BY <1>8, <2>1, <1>7 DEF JobStep, RunStats, bounds
<1>9. ASSUME NEW j \in Jobs, UpToDate(j) PROVE LedgerInv'
  <2>1. PICK s \in Sources : s = job[j].src
    BY <1>9 DEF UpToDate, AtTask
  <2>2. Grows /\ entity' = entity /\ blockNumber' = [blockNumber EXCEPT ![s] = entity[j][s]]
    BY <1>9, <2>1, <1>e DEF UpToDate, history
  <2>3. NoSilentGap'
    <3>1. \A x \in Sources : blockNumber[x] \in Int /\ entity[j][x] \in Int
                             /\ SettledUpTo(x, blockNumber[x]) /\ SettledUpTo(x, entity[j][x])
      BY <1>a DEF TypeOK, Block, NoSilentGap, JobInv, EntitiesSettled
    <3>2. \A x \in Sources : blockNumber'[x] = blockNumber[x] \/ blockNumber'[x] = entity[j][x]
      BY <2>2, <1>a DEF TypeOK
    <3> QED BY <1>a, <2>2, <3>1, <3>2, GrowsKeepsGaps DEF NoSilentGap, SettledUpTo
  <2> QED BY <1>9, <2>2, <2>3, <1>7 DEF JobStep, UpToDate, bounds
<1>10. ASSUME NEW j \in Jobs, SourceFails(j) PROVE LedgerInv'
  <2>1. JobStep(j) /\ UNCHANGED <<now, clearsLeft, tables, history>>
    BY <1>10 DEF JobStep, SourceFails
  <2>2. Grows /\ NoSilentGap'
    BY <2>1, <1>a, <1>e, NoSilentGapKept DEF tables, history
  <2> QED BY <1>10, <2>1, <2>2, <1>7, <1>g DEF SourceFails, tables, history
<1>11. ASSUME NEW j \in Jobs, BeginSource(j) PROVE LedgerInv'
  <2> DEFINE start == entity[j][job[j].src]
             r == [job[j] EXCEPT !.pc = "day", !.last = start, !.target = FirstMidnightUTC(start),
                                 !.today = TodayMidnightUTC(now)]
  <2>1. PICK s \in Sources : s = job[j].src
    BY <1>11 DEF BeginSource, AtTask
  <2>2. JobStep(j) /\ Move(j, r) /\ UNCHANGED <<bounds, tables, entity, history>>
    BY <1>11 DEF JobStep, BeginSource
  <2>3. PICK from \in Nat : from = start
    BY <2>1, <1>a DEF TypeOK, Block
  <2>4. PICK m \in Nat : m = FirstMidnightUTC(from)
    BY FirstMidnight
  <2>5. IsMidnight(m) /\ from < m /\ \A d \in from + 1 .. m : IsMidnight(d) => d = m
    BY <2>4, FirstMidnight
  <2>6. /\ job'[j].pc = "day" /\ job'[j].last = from /\ job'[j].target = m /\ job'[j].src = s
        /\ job'[j].clear = job[j].clear
    BY <2>1, <2>2, <2>3, <2>4, <1>a DEF Move, TypeOK, JobState
  <2>7. Grows
    BY <2>2, <1>e DEF tables, history
  <2>8. SettledUpTo(s, entity[j][s])' /\ \A x \in Sources : SettledUpTo(x, entity[j][x])'
    BY <2>2, <2>7, <1>f
  <2>9. \A d \in base'[s] + 1 .. m - 1 : IsMidnight(d) => Settled(s, d)'
    <3>1. \A d \in base'[s] + 1 .. from : IsMidnight(d) => Settled(s, d)'
      BY <2>1, <2>2, <2>3, <2>8 DEF SettledUpTo
    <3>2. base'[s] \in Nat
      BY <1>a DEF TypeOK, Block
    <3>3. \A d \in base'[s] + 1 .. m - 1 : IsMidnight(d) => d \in base'[s] + 1 .. from
      BY <2>5, <3>2
    <3> QED BY <3>1, <3>3
  <2>10. LoopKeepsPace(j)'
    <3>1. from <= m + LateSlip
      BY <2>5, GridAssumption
    <3> QED BY <2>5, <2>6, <2>9, <3>1 DEF LoopKeepsPace, SettledUpTo
  <2>11. JobInv(j)'
    BY <2>6, <2>8, <2>10, <1>a DEF JobInv, EntitiesSettled, PurgeClaimsNothing, FoundIsSettled, ClearingIsCounted
  <2> QED BY <2>2, <2>7, <2>11, <1>d DEF bounds, tables
<1>12. ASSUME NEW j \in Jobs, SaveRow(j) PROVE LedgerInv'
  <2>1. InDayLoop(j)
    BY <1>12 DEF SaveRow, AtDay, InDayLoop
  <2>2. PICK s \in Sources, m \in Nat : s = job[j].src /\ m = job[j].target
    BY <2>1, <1>a, DayBounds
  <2>3. PICK b \in DayBlocks(j) :
           /\ reserves' = [reserves EXCEPT ![s] = @ \cup {[date |-> m, block |-> b, algorithm |-> Algorithm(j)]}]
           /\ Move(j, [job[j] EXCEPT !.pc = "commit", !.found = b])
    BY <1>12, <2>2 DEF SaveRow
  <2>4. JobStep(j) /\ UNCHANGED <<bounds, blockNumber, isProcessing, entity, history>>
    BY <1>12 DEF JobStep, SaveRow
  <2>5. b <= m + LateSlip /\ b \in Nat /\ IsMidnight(m) /\ job[j].last <= m + LateSlip
    BY <2>1, <2>2, <2>3, <1>a, DayBounds DEF Block
  <2>6. /\ job'[j].pc = "commit" /\ job'[j].found = b /\ job'[j].last = job[j].last /\ job'[j].target = m
        /\ job'[j].src = s /\ job'[j].clear = job[j].clear
    BY <2>2, <2>3, <1>a DEF Move, TypeOK, JobState
  <2>7. Grows
    <3>1. \A x \in Sources : reserves[x] \subseteq reserves'[x]
      BY <2>3, <1>a DEF TypeOK
    <3>2. \A x \in Sources : base[x] <= base[x]
      BY <1>a DEF TypeOK, Block
    <3> QED BY <2>4, <3>1, <3>2, GrowsIf DEF history
  <2>8. Settled(s, m)'
    <3> DEFINE row == [date |-> m, block |-> b, algorithm |-> Algorithm(j)]
    <3>1. row \in reserves'[s] /\ row.date = m
      BY <2>3, <1>a DEF TypeOK
    <3>2. \E x \in reserves'[s] : x.date = m
      BY <3>1
    <3> QED BY <3>2 DEF Settled, HasRow
  <2>9. \A d \in base'[s] + 1 .. m : IsMidnight(d) => Settled(s, d)'
    BY <2>1, <2>2, <2>7, <2>8, <1>a, UpToTarget
  <2>10. \A d \in base'[s] + 1 .. m - 1 : d \in base'[s] + 1 .. m
    BY <1>a DEF TypeOK, Block
  <2>11. LoopKeepsPace(j)' /\ FoundIsSettled(j)'
    BY <2>5, <2>6, <2>9, <2>10 DEF LoopKeepsPace, FoundIsSettled, SettledUpTo
  <2>12. JobInv(j)'
    BY <2>4, <2>6, <2>7, <2>11, <1>a, <1>f DEF JobInv, EntitiesSettled, PurgeClaimsNothing, ClearingIsCounted
  <2> QED BY <2>4, <2>7, <2>12, <1>d DEF bounds
<1>13. ASSUME NEW j \in Jobs, Commit(j) \/ CommitFails(j) PROVE LedgerInv'
  <2> DEFINE f == job[j].found
  <2>1. job[j].pc = "commit" /\ InDayLoop(j) /\ JobStep(j)
    BY <1>13 DEF Commit, CommitFails, InDayLoop, JobStep
  <2>2. PICK s \in Sources, m \in Nat : s = job[j].src /\ m = job[j].target
    BY <2>1, <1>a, DayBounds
  <2>3. PICK new \in Block : new = Assigned(entity[j][s], f)
    BY <1>a, JobNumbers DEF TypeOK, Assigned
  <2>4. entity'[j] = [entity[j] EXCEPT ![s] = new]
        /\ UNCHANGED <<clearsLeft, reserves, base, skipped, unpriced>>
        /\ (blockNumber' = [blockNumber EXCEPT ![s] = new] \/ blockNumber' = blockNumber)
    BY <1>13, <2>2, <2>3, <1>a DEF Commit, CommitFails, TypeOK, bounds, tables, history
  <2>5. Grows
    BY <2>4, <1>e
  <2>6. SettledUpTo(s, new)
    BY <2>1, <2>2, <2>3, <1>a, UpToFound DEF JobInv, EntitiesSettled, Assigned
  <2>7. \A d \in base'[s] + 1 .. new : IsMidnight(d) => Settled(s, d)'
    BY <2>5, <2>6, <1>a, GrowsKeepsGaps DEF SettledUpTo, Block
  <2>8. \A x \in Sources : SettledUpTo(x, entity[j][x])'
    <3>1. \A x \in Sources : entity[j][x] \in Int /\ SettledUpTo(x, entity[j][x])
      BY <1>a DEF TypeOK, Block, JobInv, EntitiesSettled
    <3>2. entity'[j][s] = new /\ \A x \in Sources : x # s => entity'[j][x] = entity[j][x]
      BY <2>4, <1>a DEF TypeOK
    <3> QED BY <2>5, <2>7, <3>1, <3>2, <1>a, GrowsKeepsGaps DEF SettledUpTo
  <2>9. NoSilentGap'
    <3>1. \A x \in Sources : blockNumber[x] \in Int /\ SettledUpTo(x, blockNumber[x])
      BY <1>a DEF TypeOK, Block, NoSilentGap
    <3>2. \A x \in Sources : blockNumber'[x] = blockNumber[x] \/ (x = s /\ blockNumber'[x] = new)
      BY <2>4, <1>a DEF TypeOK
    <3> QED BY <2>5, <2>7, <3>1, <3>2, <1>a, GrowsKeepsGaps DEF NoSilentGap, SettledUpTo
  <2>10. PICK last \in Block : last <= m + LateSlip + Day /\ Move(j, AfterDay(job[j], last))
    <3>1. f \in Block /\ f <= m + LateSlip + Day
      BY <2>1, <2>2, <1>a, JobNumbers, GridAssumption DEF JobInv, FoundIsSettled, Block
    <3> QED BY <1>13, <2>1, <2>2, <3>1, <1>a, DayBounds DEF Commit, CommitFails
  <2>11. \A d \in base'[s] + 1 .. m : IsMidnight(d) => Settled(s, d)'
    <3>1. SettledUpTo(s, m)
      BY <2>1, <2>2, <1>a DEF JobInv, FoundIsSettled
    <3> QED BY <2>5, <3>1, <1>a, GrowsKeepsGaps DEF SettledUpTo
  <2>12. JobInv(j)'
    BY <2>1, <2>2, <2>8, <2>10, <2>11, <1>a, NextDay
  <2> QED BY <2>1, <2>4, <2>5, <2>9, <2>12, <1>c
<1>14. ASSUME NEW j \in Jobs, JobStep(j), AtDay(j), NEW s \in Sources, s = job[j].src, NEW m, m = job[j].target,
              Grows, Settled(s, m)', UNCHANGED <<clearsLeft, blockNumber, entity>>,
              NEW last \in Block, last <= m + LateSlip + Day, Move(j, AfterDay(job[j], last))
       PROVE  LedgerInv'
  <2>1. InDayLoop(j)
    BY <1>14 DEF AtDay, InDayLoop
  <2>2. \A d \in base'[s] + 1 .. m : IsMidnight(d) => Settled(s, d)'
    BY <1>14, <2>1, <1>a, UpToTarget
  <2>3. \A x \in Sources : SettledUpTo(x, entity[j][x])'
    BY <1>14, <1>f
  <2>4. JobInv(j)'
    BY <1>14, <2>1, <2>2, <2>3, <1>a, NextDay
  <2> QED BY <1>14, <2>4, <1>d
<1>15. ASSUME NEW j \in Jobs, NEW s \in Sources, s = job[j].src, NEW m, m = job[j].target,
              Skip(j), UNCHANGED <<tables, base, unpriced>>
       PROVE  Grows /\ Settled(s, m)'
  <2>1. \A x \in Sources : base[x] <= base[x] /\ skipped[x] \subseteq skipped'[x]
    BY <1>15, <1>a DEF Skip, TypeOK, Block
  <2>2. m \in skipped'[s]
    BY <1>15, <1>a DEF Skip, TypeOK
  <2> QED BY <1>15, <2>1, <2>2, GrowsIf DEF tables, Settled, GivenUp
<1>16. ASSUME NEW j \in Jobs, ReadReverts(j) \/ ValueInvalid(j) \/ DayFails(j) PROVE LedgerInv'
  <2>1. JobStep(j) /\ AtDay(j) /\ Skip(j) /\ UNCHANGED <<clearsLeft, tables, entity, base, unpriced>>
    BY <1>16 DEF JobStep, ReadReverts, ValueInvalid, DayFails
  <2>2. InDayLoop(j)
    BY <2>1 DEF AtDay, InDayLoop
  <2>3. PICK s \in Sources, m \in Nat : s = job[j].src /\ m = job[j].target
    BY <2>2, <1>a, DayBounds
  <2>4. PICK last \in Block : last <= m + LateSlip + Day /\ Move(j, AfterDay(job[j], last))
    BY <1>16, <2>2, <2>3, <1>a, DayBounds DEF ReadReverts, ValueInvalid, DayFails
  <2>5. Grows /\ Settled(s, m)'
    BY <2>1, <2>3, <1>15
  <2> QED BY <2>1, <2>3, <2>4, <2>5, <1>14 DEF tables
<1>17. ASSUME NEW j \in Jobs, PriceFails(j) PROVE LedgerInv'
  <2>1. /\ JobStep(j) /\ AtDay(j) /\ UNCHANGED <<clearsLeft, tables, entity, base, skipped>>
        /\ unpriced' = [unpriced EXCEPT ![job[j].src] = @ \cup {job[j].target}]
    BY <1>17 DEF JobStep, PriceFails
  <2>2. InDayLoop(j)
    BY <2>1 DEF AtDay, InDayLoop
  <2>3. PICK s \in Sources, m \in Nat : s = job[j].src /\ m = job[j].target
    BY <2>2, <1>a, DayBounds
  <2>4. m \in unpriced'[s] /\ \A x \in Sources : unpriced[x] \subseteq unpriced'[x]
    BY <2>1, <2>3, <1>a DEF TypeOK
  <2>5. Grows
    <3>1. \A x \in Sources : base[x] <= base[x]
      BY <1>a DEF TypeOK, Block
    <3> QED BY <2>1, <2>4, <3>1, GrowsIf DEF tables
  <2>6. CASE Move(j, AfterSource(job[j]))
    BY <2>1, <2>5, <2>6, <1>a, <1>7, NoSilentGapKept DEF tables
  <2>7. CASE MailFails /\ Move(j, AfterDay(job[j], SkipADay(job[j].last)))
    <3>1. Settled(s, m)'
      BY <2>4, <2>7 DEF Settled, GivenUp, MailFails
    <3>2. SkipADay(job[j].last) \in Block /\ SkipADay(job[j].last) <= m + LateSlip + Day
      BY <2>2, <2>3, <1>a, DayBounds
    <3> QED BY <2>1, <2>3, <2>5, <2>7, <3>1, <3>2, <1>14 DEF tables
  <2> QED BY <1>17, <2>6, <2>7 DEF PriceFails
<1>18. ASSUME NEW j \in Jobs, JobStep(j) PROVE LedgerInv'
  BY <1>18, <1>1, <1>2, <1>3, <1>4, <1>5, <1>6, <1>8, <1>9, <1>10, <1>11, <1>12, <1>13, <1>16, <1>17 DEF JobStep
<1>19. ASSUME UNCHANGED <<blockNumber, reserves, base, skipped, unpriced>>, clearsLeft' <= MaxClears,
              \A k \in Jobs : (job'[k] = job[k] /\ entity'[k] = entity[k]) \/ JobInv(k)'
       PROVE  LedgerInv'
  <2>1. Grows
    BY <1>19, <1>e
  <2>2. NoSilentGap'
    BY <1>19, <2>1, <1>a, NoSilentGapKept
  <2>3. \A k \in Jobs : JobInv(k)'
    BY <1>19, <2>1, <1>a, UnmovedKeeps
  <2> QED BY <1>19, <2>2, <2>3 DEF LedgerInv
<1>20. ASSUME NEW j \in Jobs, NEW clear \in BOOLEAN, NEW date, ExecuteWithLock(j, clear, date),
              clear => MaxClears > 0, clearsLeft' <= MaxClears
       PROVE  LedgerInv'
  <2>1. /\ job'[j].pc = "list" /\ job'[j].clear = clear /\ job'[j].purge = {}
        /\ \A k \in Jobs : k # j => job'[k] = job[k]
        /\ job[j].pc = "idle" /\ UNCHANGED <<tables, entity, history>>
    BY <1>20, <1>a DEF ExecuteWithLock, Move, TypeOK, IdleJob
  <2>2. entity[j] = NothingLoaded
    BY <2>1, <1>a DEF JobInv, EntitiesSettled
  <2>3. Grows
    BY <2>1, <1>e DEF tables, history
  <2>4. JobInv(j)'
    BY <1>20, <2>1, <2>2, <2>3, <1>f DEF JobInv, EntitiesSettled, PurgeClaimsNothing, LoopKeepsPace,
       FoundIsSettled, ClearingIsCounted, InDayLoop
  <2> QED BY <1>20, <2>1, <2>4, <1>19 DEF tables, history
<1>21. ASSUME NEW j \in Jobs, StartCollection(j) PROVE LedgerInv'
  BY <1>21, <1>20, <1>a DEF StartCollection
<1>22. ASSUME NEW j \in Jobs, StartClearing(j) PROVE LedgerInv'
  <2>1. clearsLeft > 0 /\ clearsLeft' = clearsLeft - 1 /\ clearsLeft \in Nat /\ MaxClears \in Nat
    BY <1>22, <1>a, BoundAssumption DEF StartClearing, TypeOK
  <2>2. MaxClears > 0 /\ clearsLeft' <= MaxClears
    BY <2>1, <1>a
  <2> QED BY <1>22, <2>2, <1>20 DEF StartClearing
<1>23. ASSUME NEW h \in Hosts, Crash(h) PROVE LedgerInv'
  <2>1. \A k \in Jobs : IF HostOf[k] = h THEN job'[k] = IdleJob /\ entity'[k] = NothingLoaded
                                         ELSE job'[k] = job[k] /\ entity'[k] = entity[k]
    BY <1>23 DEF Crash
  <2>2. \A k \in Jobs : HostOf[k] = h => JobInv(k)'
    BY <2>1, <1>a, EndedKeeps DEF IdleJob
  <2> QED BY <1>23, <2>1, <2>2, <1>a, <1>19 DEF Crash, tables
<1>24. CASE Tick
  BY <1>24, <1>a, <1>19 DEF Tick, tables, history
<1>25. CASE UNCHANGED vars
  BY <1>25, <1>a, <1>19 DEF vars, tables, bounds, history
<1> QED BY <1>18, <1>21, <1>22, <1>23, <1>24, <1>25 DEF Next

(* A checkpoint never leaves a midnight behind that has neither a row nor  *)
(* a failure to account for it: crashes between saveReserves' two writes,  *)
(* failed writes, stale entities written back by a job of another process  *)
(* and rewinds all keep it, as long as collections with clearData do not   *)
(* run beside another process and the configured blocksPerDay is not more  *)
(* than the chain really mines.                                            *)
THEOREM NothingLost ==
    ASSUME ClearingIsAlone, FallbackKeepsPace
    PROVE  Spec => []NoSilentGap
<1> DEFINE Inv == TypeInv /\ OneJobPerHost /\ LedgerInv
<1>1. Init => Inv
  BY TypeInvInit, OneJobPerHostInit, LedgerInvInit
<1>2. Inv /\ [Next]_vars => Inv'
  BY TypeInvStep, OneJobPerHostStep, LedgerInvStep
<1>3. Inv => NoSilentGap
  BY DEF LedgerInv
<1> QED BY <1>1, <1>2, <1>3, PTL DEF Spec

(* The same for all that this rests on: where lastBlock, the target and    *)
(* the loaded entity of a job stand against the rows and the checkpoints.  *)
THEOREM LedgerIsKept ==
    ASSUME ClearingIsAlone, FallbackKeepsPace
    PROVE  Spec => []LedgerInv
<1> DEFINE Inv == TypeInv /\ OneJobPerHost /\ LedgerInv
<1>1. Init => Inv
  BY TypeInvInit, OneJobPerHostInit, LedgerInvInit
<1>2. Inv /\ [Next]_vars => Inv'
  BY TypeInvStep, OneJobPerHostStep, LedgerInvStep
<1> QED BY <1>1, <1>2, PTL DEF Spec

-----------------------------------------------------------------------------
(***************************************************************************)
(* The rows.  How far lastBlock may have run past the day in progress is   *)
(* counted by the days that failed before it: each put it ahead by the     *)
(* excess of the configured blocksPerDay over the blocks of a day.  This   *)
(* is a matter of the job alone: whatever other jobs write, to checkpoints *)
(* or over its entities, it starts before its first midnight.              *)
(***************************************************************************)
Failed(s) == GivenUp(s) \cup uncommitted[s]

Drifts(j) ==
    InDayLoop(j) =>
        \A s \in Sources, d \in Nat :
            s = job[j].src /\ d = job[j].target =>
                /\ job[j].last <= d + LateSlip + Overshoot(s, d)
                /\ job[j].pc = "commit" => job[j].found <= d + LateSlip + Overshoot(s, d)

DriftInv == RowsAreNearTheirDay /\ \A j \in Jobs : Drifts(j)

(* Products, for the provers to compare.                                   *)
LEMMA Products ==
    ASSUME NEW e \in Nat, NEW n \in Nat, NEW k \in Nat
    PROVE  /\ e * n \in Nat /\ e * (n + 1) = e * n + e
           /\ n <= k => e * n <= e * k
BY Z3

LEMMA ExcessIsNat == Excess \in Nat /\ BlocksPerDay <= Day + Excess
BY GridAssumption DEF Excess

LEMMA BelowIsFinite ==
    ASSUME NEW F \in SUBSET Nat, NEW d \in Nat
    PROVE  IsFiniteSet({f \in F : f < d}) /\ Cardinality({f \in F : f < d}) \in Nat
<1>1. {f \in F : f < d} \subseteq 0 .. d
  <2>1. \A f \in F : f \in Nat
    OBVIOUS
  <2>2. \A f \in Nat : f < d => f \in 0 .. d
    OBVIOUS
  <2> QED BY <2>1, <2>2, Zenon
<1>2. IsFiniteSet(0 .. d)
  BY FS_Interval
<1>3. IsFiniteSet({f \in F : f < d})
  BY <1>1, <1>2, FS_Subset
<1> QED BY <1>3, FS_CardinalityType

(* The failed days before a day are finitely many; the next day counts at  *)
(* least the same ones, and the day itself when it failed.                 *)
LEMMA FailedAreFinite ==
    ASSUME TypeOK, NEW s \in Sources, NEW d \in Nat
    PROVE  /\ IsFiniteSet(FailedBefore(s, d)) /\ Cardinality(FailedBefore(s, d)) \in Nat
           /\ Overshoot(s, d) \in Nat
<1>1. Failed(s) \in SUBSET Nat
  BY DEF Failed, GivenUp, TypeOK
<1>2. IsFiniteSet(FailedBefore(s, d)) /\ Cardinality(FailedBefore(s, d)) \in Nat
  BY <1>1, BelowIsFinite DEF FailedBefore, Failed
<1> QED BY <1>2, ExcessIsNat, Products DEF Overshoot

LEMMA OvershootGrows ==
    ASSUME TypeOK, TypeOK', NEW s \in Sources, Failed(s) \subseteq Failed(s)',
           NEW d \in Nat, NEW e \in Nat, d <= e
    PROVE  /\ Overshoot(s, d) \in Nat /\ Overshoot(s, e)' \in Nat
           /\ Overshoot(s, d) <= Overshoot(s, e)'
           /\ d < e /\ d \in Failed(s)' => Overshoot(s, d) + Excess <= Overshoot(s, e)'
<1> DEFINE A == FailedBefore(s, d)
<1>1. PICK B : B = FailedBefore(s, e)'
  OBVIOUS
<1>2. /\ IsFiniteSet(A) /\ Cardinality(A) \in Nat /\ Overshoot(s, d) \in Nat
  BY FailedAreFinite
<1>3. IsFiniteSet(B) /\ Cardinality(B) \in Nat /\ Overshoot(s, e)' \in Nat
  <2>1. PICK F \in SUBSET Nat : F = Failed(s)'
    BY DEF Failed, GivenUp, TypeOK
  <2>2. B = {f \in F : f < e}
    BY <1>1, <2>1 DEF FailedBefore, Failed
  <2>3. IsFiniteSet(B) /\ Cardinality(B) \in Nat
    BY <2>2, BelowIsFinite
  <2> QED BY <1>1, <2>3, ExcessIsNat, Products DEF Overshoot
<1>4. A \subseteq B /\ d \notin A /\ (d < e /\ d \in Failed(s)' => d \in B)
  <2>1. \A f \in A : f \in Failed(s)' /\ f \in Nat /\ f < d
    BY DEF FailedBefore, Failed, GivenUp, TypeOK
  <2>2. \A f \in Nat : f < d => f < e
    OBVIOUS
  <2>3. B = {f \in Failed(s)' : f < e}
    BY <1>1 DEF FailedBefore, Failed
  <2> QED BY <2>1, <2>2, <2>3
<1>5. Overshoot(s, d) = Excess * Cardinality(A) /\ Overshoot(s, e)' = Excess * Cardinality(B)
  BY <1>1 DEF Overshoot
<1>6. Cardinality(A) <= Cardinality(B)
  BY <1>2, <1>3, <1>4, FS_Subset
<1>7. Overshoot(s, d) <= Overshoot(s, e)'
  BY <1>2, <1>3, <1>5, <1>6, Products, ExcessIsNat
<1>8. ASSUME d < e, d \in Failed(s)' PROVE Overshoot(s, d) + Excess <= Overshoot(s, e)'
  <2>1. Cardinality(A \cup {d}) = Cardinality(A) + 1 /\ IsFiniteSet(A \cup {d})
    BY <1>2, <1>4, FS_AddElement
  <2>2. A \cup {d} \subseteq B
    BY <1>4, <1>8
  <2>3. Cardinality(A) + 1 <= Cardinality(B)
    BY <1>3, <2>1, <2>2, FS_Subset
  <2>4. Excess * (Cardinality(A) + 1) <= Excess * Cardinality(B)
    BY <1>2, <1>3, <2>3, Products, ExcessIsNat
  <2>5. Excess * (Cardinality(A) + 1) = Excess * Cardinality(A) + Excess
    BY <1>2, Products, ExcessIsNat
  <2> QED BY <1>5, <2>4, <2>5
<1> QED BY <1>2, <1>3, <1>7, <1>8

(* No step forgets a failed day.                                           *)
LEMMA FailedStay ==
    ASSUME TypeInv, [Next]_vars, NEW s \in Sources
    PROVE  Failed(s) \subseteq Failed(s)'
<1> DEFINE Kept == /\ skipped[s] \subseteq skipped'[s] /\ unpriced[s] \subseteq unpriced'[s]
                   /\ uncommitted[s] \subseteq uncommitted'[s]
<1>a. /\ skipped \in [Sources -> SUBSET Nat] /\ unpriced \in [Sources -> SUBSET Nat]
      /\ uncommitted \in [Sources -> SUBSET Nat]
  BY DEF TypeInv, TypeOK
<1>b. ASSUME NEW jobs, LeavesPending(jobs) PROVE uncommitted[s] \subseteq uncommitted'[s]
  BY <1>b DEF LeavesPending
<1>c. ASSUME NEW j \in Jobs, Skip(j) PROVE skipped[s] \subseteq skipped'[s]
  BY <1>a, <1>c DEF Skip
<1>1. ASSUME NEW j \in Jobs, Rewind(j) PROVE Kept
  BY <1>1, <1>a DEF Rewind
<1>2. ASSUME NEW j \in Jobs, Purge(j) \/ CommitFails(j) PROVE Kept
  BY <1>2, <1>b DEF Purge, CommitFails
<1>3. ASSUME NEW j \in Jobs, ReadReverts(j) \/ ValueInvalid(j) \/ DayFails(j) PROVE Kept
  BY <1>3, <1>c DEF ReadReverts, ValueInvalid, DayFails
<1>4. ASSUME NEW j \in Jobs, PriceFails(j) PROVE Kept
  BY <1>4, <1>a DEF PriceFails
<1>5. ASSUME NEW j \in Jobs,
             \/ StartCollection(j) \/ StartClearing(j) \/ ListSources(j) \/ KeepSource(j) \/ NextTask(j)
             \/ RunStats(j) \/ BeginSource(j) \/ UpToDate(j) \/ SourceFails(j) \/ SaveRow(j) \/ Commit(j)
             \/ Finish(j)
      PROVE  Kept
  <2>1. UNCHANGED history
    BY <1>5 DEF StartCollection, StartClearing, ExecuteWithLock, ListSources, KeepSource, NextTask, RunStats,
       BeginSource, UpToDate, SourceFails, SaveRow, Commit, Finish
  <2> QED BY <2>1 DEF history
<1>6. ASSUME NEW h \in Hosts, Crash(h) PROVE Kept
  BY <1>6, <1>b DEF Crash
<1>7. ASSUME Tick \/ UNCHANGED vars PROVE Kept
  <2>1. UNCHANGED history
    BY <1>7 DEF Tick, vars
  <2> QED BY <2>1 DEF history
<1>8. ASSUME NEW j \in Jobs, JobStep(j) PROVE Kept
  <2> HIDE DEF Kept
  <2> QED BY <1>1, <1>2, <1>3, <1>4, <1>5, <1>8 DEF JobStep
<1>9. Kept
  <2> HIDE DEF Kept
  <2> QED BY <1>5, <1>6, <1>7, <1>8 DEF Next
<1> QED BY <1>9 DEF Failed, GivenUp

(* A job that leaves the day loop, or stays out of it, has no drift.       *)
LEMMA OutsideIsStill ==
    ASSUME NEW j \in Jobs, job'[j].pc \notin {"day", "commit"}
    PROVE  Drifts(j)'
BY DEF Drifts, InDayLoop

(* The next day: lastBlock is bounded against the next midnight, and by    *)
(* one more failed day if this one failed.                                 *)
LEMMA NextDayDrifts ==
    ASSUME TypeInv, TypeInv', NEW j \in Jobs, InDayLoop(j),
           NEW s \in Sources, s = job[j].src, NEW m \in Nat, m = job[j].target,
           Failed(s) \subseteq Failed(s)', NEW last \in Block, Move(j, AfterDay(job[j], last)),
           \/ last <= m + LateSlip + Overshoot(s, m)
           \/ m \in Failed(s)' /\ last <= m + LateSlip + Overshoot(s, m) + Day + Excess
    PROVE  Drifts(j)'
<1>1. job[j] \in JobState /\ job'[j] = AfterDay(job[j], last)
  BY DEF TypeInv, TypeOK, Move
<1>2. m + Day \in Nat /\ m <= m + Day /\ m < m + Day
  BY GridAssumption
<1>3. PICK o \in Nat : o = Overshoot(s, m + Day)'
  BY <1>2, OvershootGrows DEF TypeInv
<1>4. PICK p \in Nat : p = Overshoot(s, m)
  BY <1>2, OvershootGrows DEF TypeInv
<1>5. p <= o /\ (m \in Failed(s)' => p + Excess <= o)
  BY <1>2, <1>3, <1>4, OvershootGrows DEF TypeInv
<1>6. last <= (m + Day) + LateSlip + o
  <2>1. last \in Nat /\ Excess \in Nat /\ Day \in Nat /\ LateSlip \in Nat
    BY GridAssumption, ExcessIsNat DEF Block
  <2>2. last <= m + LateSlip + p \/ (p + Excess <= o /\ last <= m + LateSlip + p + Day + Excess)
    BY <1>4, <1>5
  <2> QED BY <2>1, <2>2, <1>5
<1>7. CASE AfterDay(job[j], last).pc = "task"
  BY <1>1, <1>7, OutsideIsStill
<1>8. CASE /\ AfterDay(job[j], last).pc = "day" /\ AfterDay(job[j], last).last = last
           /\ AfterDay(job[j], last).target = m + Day
  <2>1. /\ job'[j].pc = "day" /\ job'[j].last = last /\ job'[j].target = m + Day /\ job'[j].src = s
    BY <1>1, <1>8, AfterDayFields
  <2> QED BY <2>1, <1>3, <1>6 DEF Drifts
<1> QED BY <1>1, <1>7, <1>8, AfterDayFields

(* The blocks of a day, and what skipping a day's worth of them leads to.  *)
LEMMA DriftBounds ==
    ASSUME TypeInv, NEW j \in Jobs, InDayLoop(j), Drifts(j)
    PROVE  \E s \in Sources, m \in Nat, p \in Nat :
             /\ s = job[j].src /\ m = job[j].target /\ p = Overshoot(s, m)
             /\ job[j].last \in Nat /\ job[j].last <= m + LateSlip + p
             /\ SkipADay(job[j].last) \in Block
             /\ SkipADay(job[j].last) <= m + LateSlip + p + Day + Excess
             /\ job[j].pc = "commit" => job[j].found \in Block /\ job[j].found <= m + LateSlip + p
             /\ \A b \in DayBlocks(j) :
                   /\ b \in Block /\ m - EarlySlip <= b /\ b <= m + LateSlip + p
                   /\ SkipADay(b) \in Block /\ SkipADay(b) <= m + LateSlip + p + Day + Excess
<1>1. PICK s \in Sources, m \in Nat : s = job[j].src /\ m = job[j].target
  BY JobNumbers DEF TypeInv, TypeOK, Placed
<1>2. PICK p \in Nat : p = Overshoot(s, m)
  BY <1>1, FailedAreFinite DEF TypeInv
<1>3. /\ job[j].last \in Nat /\ job[j].found \in Nat /\ now \in Nat
      /\ job[j].last <= m + LateSlip + p
      /\ job[j].pc = "commit" => job[j].found <= m + LateSlip + p
  BY <1>1, <1>2, JobNumbers DEF TypeInv, TypeOK, Drifts, Block
<1>4. \A b \in Nat : b <= m + LateSlip + p =>
         SkipADay(b) \in Nat /\ SkipADay(b) <= m + LateSlip + p + Day + Excess
  BY GridAssumption, ExcessIsNat DEF SkipADay
<1>5. \A b \in DayBlocks(j) : b \in Nat /\ m - EarlySlip <= b /\ b <= m + LateSlip + p
  BY <1>1, <1>3, GridAssumption DEF DayBlocks, FoundBlocks, ExactBlock
<1> QED BY <1>1, <1>2, <1>3, <1>4, <1>5 DEF Block

LEMMA DriftStep == TypeInv /\ DriftInv /\ [Next]_vars => DriftInv'
<1> SUFFICES ASSUME TypeInv, DriftInv, [Next]_vars PROVE DriftInv'
  OBVIOUS
<1>a. /\ job \in [Jobs -> JobState] /\ \A k \in Jobs : Drifts(k) /\ job[k] \in JobState
      /\ entity \in [Jobs -> [Sources -> Block]] /\ reserves \in [Sources -> SUBSET Row]
      /\ TypeOK /\ TypeOK' /\ TypeInv'
  BY TypeInvStep DEF TypeInv, TypeOK, DriftInv
<1>b. \A s \in Sources : Failed(s) \subseteq Failed(s)'
  BY FailedStay
<1>c. \A s \in Sources : \A d \in Nat : /\ Overshoot(s, d) \in Nat /\ Overshoot(s, d)' \in Nat
                                        /\ Overshoot(s, d) <= Overshoot(s, d)'
  BY <1>a, <1>b, OvershootGrows
<1>d. ASSUME NEW k \in Jobs, job'[k] = job[k] PROVE Drifts(k)'
  <2> SUFFICES ASSUME InDayLoop(k)', NEW s \in Sources, NEW d \in Nat, s = job'[k].src, d = job'[k].target
               PROVE  /\ job'[k].last <= d + LateSlip + Overshoot(s, d)'
                      /\ job'[k].pc = "commit" => job'[k].found <= d + LateSlip + Overshoot(s, d)'
    BY DEF Drifts
  <2>1. /\ job[k].last <= d + LateSlip + Overshoot(s, d)
        /\ job[k].pc = "commit" => job[k].found <= d + LateSlip + Overshoot(s, d)
    BY <1>a, <1>d DEF Drifts, InDayLoop
  <2>2. job[k].last \in Nat /\ job[k].found \in Nat /\ LateSlip \in Nat
    BY <1>a, JobNumbers, GridAssumption DEF Block
  <2> QED BY <2>1, <2>2, <1>c, <1>d
<1>1. ASSUME NEW j \in Jobs, JobStep(j) PROVE Drifts(j)'
  <2>0. ASSUME Release(j) PROVE Drifts(j)'
    BY <2>0, <1>a, OutsideIsStill DEF Release, Move, IdleJob
  <2>1. CASE ListSources(j)
    <3>1. CASE Release(j)
      BY <3>1, <2>0
    <3>2. CASE ~Release(j)
      <4>1. job'[j].pc \in {"rewind", "task"}
        BY <2>1, <3>2, <1>a DEF ListSources, Move, JobState
      <4> QED BY <4>1, OutsideIsStill
    <3> QED BY <3>1, <3>2
  <2>2. CASE Rewind(j) \/ KeepSource(j)
    <3>1. PICK purge : job[j].pc = "rewind" /\ NextRewind(j, purge)
      BY <2>2 DEF Rewind, KeepSource
    <3> QED BY <3>1, <1>a, OutsideIsStill DEF NextRewind, Move, JobState
  <2>3. CASE Purge(j)
    <3>1. CASE Release(j)
      BY <3>1, <2>0
    <3>2. CASE ~Release(j)
      <4>1. Move(j, [job[j] EXCEPT !.pc = "task", !.src = 1, !.purge = {}])
        BY <2>3, <3>2 DEF Purge
      <4>2. job'[j].pc = "task"
        BY <4>1, <1>a DEF Move, JobState
      <4> QED BY <4>2, OutsideIsStill
    <3> QED BY <3>1, <3>2
  <2>4. CASE NextTask(j)
    <3>1. job'[j].pc = "task"
      BY <2>4, <1>a DEF NextTask, Move, JobState
    <3> QED BY <3>1, OutsideIsStill
  <2>5. CASE Finish(j)
    BY <2>5, <2>0 DEF Finish
  <2>6. CASE RunStats(j) \/ UpToDate(j) \/ SourceFails(j)
    BY <2>6, <1>a, OutsideIsStill, AfterSourceFields
    DEF RunStats, UpToDate, SourceFails, Release, Move, IdleJob
  <2>7. CASE BeginSource(j)
    <3>1. PICK start \in Nat : start = entity[j][job[j].src]
      BY <2>7, <1>a DEF BeginSource, AtTask, Block
    <3>2. PICK m \in Nat : m = FirstMidnightUTC(start) /\ start <= m
      BY FirstMidnight
    <3>3. job'[j] = [job[j] EXCEPT !.pc = "day", !.last = start, !.target = m,
                                   !.today = TodayMidnightUTC(now)]
      BY <2>7, <3>1, <3>2, <1>a DEF BeginSource, Move
    <3>4. job'[j].pc = "day" /\ job'[j].last = start /\ job'[j].target = m
      BY <3>3, <1>a DEF JobState
    <3>5. \A s \in Sources : start <= m + LateSlip + Overshoot(s, m)'
      BY <3>2, <1>c, GridAssumption
    <3> QED BY <3>4, <3>5 DEF Drifts
  <2>8. CASE SaveRow(j)
    <3>1. InDayLoop(j)
      BY <2>8 DEF SaveRow, AtDay, InDayLoop
    <3>2. PICK b \in DayBlocks(j) : Move(j, [job[j] EXCEPT !.pc = "commit", !.found = b])
      BY <2>8 DEF SaveRow
    <3>3. PICK s \in Sources, m \in Nat, p \in Nat :
             /\ s = job[j].src /\ m = job[j].target /\ p = Overshoot(s, m)
             /\ job[j].last \in Nat /\ job[j].last <= m + LateSlip + p
             /\ b \in Nat /\ b <= m + LateSlip + p
      BY <3>1, <3>2, <1>a, DriftBounds DEF Block
    <3>4. job'[j].src = s /\ job'[j].last = job[j].last /\ job'[j].target = m /\ job'[j].found = b
      BY <3>2, <3>3, <1>a DEF Move, JobState
    <3>5. PICK o \in Nat : o = Overshoot(s, m)' /\ p <= o
      BY <3>3, <1>c
    <3>6. job[j].last <= m + LateSlip + o /\ b <= m + LateSlip + o
      BY <3>3, <3>5, GridAssumption
    <3> QED BY <3>4, <3>5, <3>6 DEF Drifts
  <2>9. CASE Commit(j) \/ CommitFails(j)
    <3>1. InDayLoop(j) /\ job[j].pc = "commit"
      BY <2>9 DEF Commit, CommitFails, InDayLoop
    <3>2. PICK s \in Sources, m \in Nat, p \in Nat :
             /\ s = job[j].src /\ m = job[j].target /\ p = Overshoot(s, m)
             /\ job[j].found \in Block /\ job[j].found <= m + LateSlip + p
             /\ SkipADay(job[j].last) \in Block
             /\ SkipADay(job[j].last) <= m + LateSlip + p + Day + Excess
      BY <3>1, <1>a, DriftBounds
    <3>3. CASE Commit(j)
      BY <3>1, <3>2, <3>3, <1>a, <1>b, NextDayDrifts DEF Commit
    <3>4. CASE CommitFails(j)
      <4>1. m \in Failed(s)'
        BY <3>1, <3>2, <3>4 DEF CommitFails, LeavesPending, Pending, Failed
      <4> QED BY <3>1, <3>2, <3>4, <4>1, <1>a, <1>b, NextDayDrifts DEF CommitFails
    <3> QED BY <2>9, <3>3, <3>4
  <2>10. CASE ReadReverts(j) \/ ValueInvalid(j) \/ PriceFails(j) \/ DayFails(j)
    <3>1. InDayLoop(j)
      BY <2>10 DEF ReadReverts, ValueInvalid, PriceFails, DayFails, AtDay, InDayLoop
    <3>2. PICK s \in Sources, m \in Nat, p \in Nat :
             /\ s = job[j].src /\ m = job[j].target /\ p = Overshoot(s, m)
             /\ SkipADay(job[j].last) \in Block
             /\ SkipADay(job[j].last) <= m + LateSlip + p + Day + Excess
             /\ \A b \in DayBlocks(j) :
                   /\ b \in Block /\ b <= m + LateSlip + p
                   /\ SkipADay(b) \in Block /\ SkipADay(b) <= m + LateSlip + p + Day + Excess
      BY <3>1, <1>a, DriftBounds
    <3>3. Move(j, AfterSource(job[j])) \/ m \in Failed(s)'
      <4>1. Skip(j) => m \in skipped'[s]
        BY <3>2, <1>a DEF Skip, TypeOK
      <4>2. PriceFails(j) => m \in unpriced'[s]
        BY <3>2, <1>a DEF PriceFails, TypeOK
      <4>3. CASE ReadReverts(j) \/ ValueInvalid(j) \/ DayFails(j)
        BY <4>1, <4>3 DEF ReadReverts, ValueInvalid, DayFails, Failed, GivenUp
      <4>4. CASE PriceFails(j)
        BY <4>2, <4>4 DEF PriceFails, Failed, GivenUp, MailFails
      <4> QED BY <2>10, <4>3, <4>4
    <3>4. \/ Move(j, AfterSource(job[j]))
          \/ \E last \in Block : /\ \/ last <= m + LateSlip + p
                                    \/ last <= m + LateSlip + p + Day + Excess
                                 /\ Move(j, AfterDay(job[j], last))
      BY <2>10, <3>2 DEF ReadReverts, ValueInvalid, PriceFails, DayFails
    <3>5. ASSUME Move(j, AfterSource(job[j])) PROVE Drifts(j)'
      BY <3>5, <1>a, OutsideIsStill, AfterSourceFields DEF Move
    <3>6. ASSUME m \in Failed(s)', NEW last \in Block, Move(j, AfterDay(job[j], last)),
                 last <= m + LateSlip + p \/ last <= m + LateSlip + p + Day + Excess
          PROVE  Drifts(j)'
      BY <3>1, <3>2, <3>6, <1>a, <1>b, NextDayDrifts
    <3> QED BY <3>3, <3>4, <3>5, <3>6
  <2> QED BY <1>1, <2>1, <2>2, <2>3, <2>4, <2>5, <2>6, <2>7, <2>8, <2>9, <2>10 DEF JobStep
<1>2. \A j \in Jobs : Drifts(j)'
  <2>1. ASSUME NEW j \in Jobs, JobStep(j) PROVE \A k \in Jobs : Drifts(k)'
    BY <1>1, <2>1, <1>d, JobStepShape
  <2>2. ASSUME NEW j \in Jobs, StartCollection(j) \/ StartClearing(j) PROVE \A k \in Jobs : Drifts(k)'
    <3>1. \A k \in Jobs : job'[k] = job[k] \/ job'[k].pc = "list"
      BY <2>2, <1>a DEF StartCollection, StartClearing, ExecuteWithLock, Move, IdleJob
    <3> QED BY <3>1, <1>d, OutsideIsStill
  <2>3. ASSUME NEW h \in Hosts, Crash(h) PROVE \A k \in Jobs : Drifts(k)'
    <3>1. \A k \in Jobs : job'[k] = job[k] \/ job'[k].pc = "idle"
      BY <2>3, <1>a DEF Crash, IdleJob
    <3> QED BY <3>1, <1>d, OutsideIsStill
  <2>4. CASE Tick \/ UNCHANGED vars
    BY <2>4, <1>d DEF Tick, vars
  <2> QED BY <2>1, <2>2, <2>3, <2>4 DEF Next
<1>e. ASSUME \A x \in Sources : reserves'[x] \subseteq reserves[x] PROVE RowsAreNearTheirDay'
  <2> SUFFICES ASSUME NEW x \in Sources, NEW r \in reserves'[x]
               PROVE  /\ r.date - EarlySlip <= r.block
                      /\ r.block <= r.date + LateSlip + Overshoot(x, r.date)'
    BY DEF RowsAreNearTheirDay
  <2>1. /\ r \in reserves[x] /\ r.date \in Nat /\ r.block \in Nat /\ LateSlip \in Nat
    BY <1>a, <1>e, GridAssumption DEF Row, Block
  <2>2. r.date - EarlySlip <= r.block /\ r.block <= r.date + LateSlip + Overshoot(x, r.date)
    BY <2>1 DEF DriftInv, RowsAreNearTheirDay
  <2> QED BY <2>1, <2>2, <1>c
<1>3. ASSUME NEW j \in Jobs, Purge(j) PROVE RowsAreNearTheirDay'
  <2>1. \A s \in Sources : reserves'[s] \subseteq reserves[s]
    BY <1>3, <1>a DEF Purge
  <2> QED BY <2>1, <1>e
<1>4. ASSUME NEW j \in Jobs, SaveRow(j) PROVE RowsAreNearTheirDay'
  <2>1. InDayLoop(j)
    BY <1>4 DEF SaveRow, AtDay, InDayLoop
  <2>2. PICK s \in Sources, m \in Nat, p \in Nat :
           /\ s = job[j].src /\ m = job[j].target /\ p = Overshoot(s, m)
           /\ \A b \in DayBlocks(j) : b \in Block /\ m - EarlySlip <= b /\ b <= m + LateSlip + p
    BY <2>1, <1>a, DriftBounds
  <2>3. PICK b \in DayBlocks(j) :
           reserves' = [reserves EXCEPT ![s] = @ \cup {[date |-> m, block |-> b, algorithm |-> Algorithm(j)]}]
    BY <1>4, <2>2 DEF SaveRow
  <2>4. m - EarlySlip <= b /\ b <= m + LateSlip + Overshoot(s, m)'
    <3>1. PICK o \in Nat : o = Overshoot(s, m)' /\ p <= o
      BY <2>2, <1>c
    <3> QED BY <2>2, <2>3, <3>1, GridAssumption DEF Block
  <2>5. \A x \in Sources : \A r \in reserves'[x] :
           r \in reserves[x] \/ (x = s /\ r.date = m /\ r.block = b)
    BY <2>3, <1>a
  <2>6. \A x \in Sources : \A r \in reserves[x] :
           /\ r.date - EarlySlip <= r.block
           /\ r.block <= r.date + LateSlip + Overshoot(x, r.date)'
    <3> SUFFICES ASSUME NEW x \in Sources, NEW r \in reserves[x]
                 PROVE  /\ r.date - EarlySlip <= r.block
                        /\ r.block <= r.date + LateSlip + Overshoot(x, r.date)'
      OBVIOUS
    <3>1. /\ r.date \in Nat /\ r.block \in Nat /\ LateSlip \in Nat
      BY <1>a, GridAssumption DEF Row, Block
    <3>2. r.date - EarlySlip <= r.block /\ r.block <= r.date + LateSlip + Overshoot(x, r.date)
      BY DEF DriftInv, RowsAreNearTheirDay
    <3> QED BY <3>1, <3>2, <1>c
  <2> SUFFICES ASSUME NEW x \in Sources, NEW r \in reserves'[x]
               PROVE  /\ r.date - EarlySlip <= r.block
                      /\ r.block <= r.date + LateSlip + Overshoot(x, r.date)'
    BY DEF RowsAreNearTheirDay
  <2>7. CASE r \in reserves[x]
    BY <2>6, <2>7
  <2>8. CASE x = s /\ r.date = m /\ r.block = b
    BY <2>4, <2>8
  <2> QED BY <2>5, <2>7, <2>8
<1>5. ASSUME NEW j \in Jobs, JobStep(j), ~Purge(j), ~SaveRow(j) PROVE UNCHANGED reserves
  BY <1>5 DEF JobStep, ListSources, Rewind, KeepSource, NextTask, RunStats, BeginSource, UpToDate, SourceFails,
     Commit, CommitFails, ReadReverts, ValueInvalid, PriceFails, DayFails, Finish, tables
<1>6. ASSUME NEW j \in Jobs, StartCollection(j) \/ StartClearing(j) PROVE UNCHANGED reserves
  BY <1>6 DEF StartCollection, StartClearing, ExecuteWithLock, tables
<1>7. ASSUME NEW h \in Hosts, Crash(h) PROVE UNCHANGED reserves
  BY <1>7 DEF Crash, tables
<1>8. Tick \/ UNCHANGED vars => UNCHANGED reserves
  BY DEF Tick, vars, tables
<1>9. UNCHANGED reserves => RowsAreNearTheirDay'
  BY <1>e
<1>10. RowsAreNearTheirDay'
  BY <1>3, <1>4, <1>5, <1>6, <1>7, <1>8, <1>9 DEF Next
<1> QED BY <1>2, <1>10 DEF DriftInv

(* RowsAreNearTheirDay: the balance stored for a day was read at a block   *)
(* of that day, but for the slip of the search and for the overshoot of    *)
(* the fallback, which grows with the days that failed before it and with  *)
(* nothing else.  It holds for every configured blocksPerDay, however far  *)
(* from the pace of the chain, and whatever jobs of other processes        *)
(* collect or clear meanwhile.                                             *)
THEOREM RowsAreNear == Spec => []RowsAreNearTheirDay
<1> DEFINE Inv == TypeInv /\ DriftInv
<1>1. Init => Inv
  <2>1. Init => DriftInv
    BY DEF Init, DriftInv, RowsAreNearTheirDay, Drifts, InDayLoop, IdleJob
  <2> QED BY <2>1, TypeInvInit
<1>2. Inv /\ [Next]_vars => Inv'
  BY TypeInvStep, DriftStep
<1>3. Inv => RowsAreNearTheirDay
  BY DEF DriftInv
<1> QED BY <1>1, <1>2, <1>3, PTL DEF Spec

-----------------------------------------------------------------------------
(***************************************************************************)
(* Every block in the state is one the chain has mined: none is beyond     *)
(* MaxTime, the last instant of the ledger.                                *)
(***************************************************************************)
LoopEnds(j) ==
    /\ InDayLoop(j) => job[j].target <= job[j].today /\ job[j].today <= MaxTime
    /\ job[j].pc = "commit" => job[j].found <= MaxTime

BoundInv ==
    /\ now <= MaxTime
    /\ \A s \in Sources : blockNumber[s] <= MaxTime /\ base[s] <= MaxTime
    /\ \A j \in Jobs : LoopEnds(j) /\ \A s \in Sources : entity[j][s] <= MaxTime

LEMMA BoundInit == Init => BoundInv
<1> SUFFICES ASSUME Init PROVE BoundInv
  OBVIOUS
<1>1. \A s \in Sources : CreationBlock[s] <= MaxTime /\ 0 <= MaxTime
  BY BoundAssumption
<1> QED BY <1>1 DEF Init, BoundInv, LoopEnds, InDayLoop, IdleJob, NothingLoaded

(* The blocks of a start that is asked for.                                *)
LEMMA RequestedBounds ==
    ASSUME TypeOK, BoundInv, NEW j \in Jobs, NEW s \in Sources, NEW b \in RequestedBlocks(s, job[j].date)
    PROVE  b \in Nat /\ b <= MaxTime
<1>1. now \in Nat /\ now <= MaxTime /\ CreationBlock[s] \in Nat /\ CreationBlock[s] <= MaxTime /\ MaxTime \in Nat
  BY SourceAssumption, BoundAssumption DEF TypeOK, BoundInv, Block
<1> QED BY <1>1 DEF RequestedBlocks, FoundBlocks

(* The end of a day leaves the loop or goes on to a day that is not beyond *)
(* the last.                                                               *)
LEMMA AfterDayEnds ==
    ASSUME TypeOK, BoundInv, NEW j \in Jobs, InDayLoop(j), NEW last \in Block, Move(j, AfterDay(job[j], last))
    PROVE  LoopEnds(j)'
<1>1. job[j] \in JobState /\ job'[j] = AfterDay(job[j], last)
  BY DEF TypeOK, Move
<1>2. job[j].today <= MaxTime
  BY DEF BoundInv, LoopEnds
<1> QED BY <1>1, <1>2, AfterDayFields DEF LoopEnds, InDayLoop

LEMMA AfterSourceEnds ==
    ASSUME TypeOK, NEW j \in Jobs, Move(j, AfterSource(job[j]))
    PROVE  LoopEnds(j)'
<1>1. job[j] \in JobState /\ job'[j] = AfterSource(job[j])
  BY DEF TypeOK, Move
<1> QED BY <1>1, AfterSourceFields DEF LoopEnds, InDayLoop

LEMMA BoundStep ==
    TypeInv /\ BoundInv /\ [Next]_vars => BoundInv'
<1> SUFFICES ASSUME TypeInv, BoundInv, [Next]_vars PROVE BoundInv'
  OBVIOUS
<1>a. TypeOK /\ MaxTime \in Nat /\ \A j \in Jobs : job[j] \in JobState
  BY BoundAssumption DEF TypeInv, TypeOK
<1>b. ASSUME NEW j \in Jobs, JobStep(j), UNCHANGED now,
             \A s \in Sources : blockNumber'[s] <= MaxTime /\ base'[s] <= MaxTime,
             LoopEnds(j)', \A s \in Sources : entity'[j][s] <= MaxTime
      PROVE  BoundInv'
  <2>1. ASSUME NEW k \in Jobs, k # j PROVE LoopEnds(k)' /\ \A s \in Sources : entity'[k][s] <= MaxTime
    <3>1. job'[k] = job[k] /\ entity'[k] = entity[k]
      BY <1>b, <2>1, JobStepShape
    <3> QED BY <3>1 DEF BoundInv, LoopEnds, InDayLoop
  <2> QED BY <2>1, <1>b DEF BoundInv
<1>c. ASSUME NEW j \in Jobs, JobStep(j), UNCHANGED <<now, blockNumber, base>>, LoopEnds(j)',
             UNCHANGED entity \/ entity'[j] = NothingLoaded \/ entity'[j] = blockNumber
      PROVE  BoundInv'
  BY <1>a, <1>b, <1>c DEF BoundInv, NothingLoaded
<1>d. ASSUME NEW j \in Jobs, Release(j) PROVE LoopEnds(j)' /\ entity'[j] = NothingLoaded
  <2>1. job'[j] = IdleJob /\ entity'[j] = NothingLoaded
    BY <1>a, <1>d, ReleaseFields
  <2> QED BY <2>1 DEF LoopEnds, InDayLoop, IdleJob
<1>1. ASSUME NEW j \in Jobs, ListSources(j) PROVE BoundInv'
  <2>1. JobStep(j) /\ UNCHANGED <<now, blockNumber, base>>
    BY <1>1 DEF JobStep, ListSources, tables, history
  <2>2. CASE Release(j)
    BY <2>1, <2>2, <1>c, <1>d
  <2>3. CASE ~Release(j)
    <3>1. entity'[j] = blockNumber /\ job'[j].pc \in {"rewind", "task"}
      BY <1>1, <2>3, <1>a DEF ListSources, Move, TypeOK, JobState
    <3> QED BY <2>1, <3>1, <1>c DEF LoopEnds, InDayLoop
  <2> QED BY <2>2, <2>3
<1>2. ASSUME NEW j \in Jobs, KeepSource(j) PROVE BoundInv'
  <2>1. JobStep(j) /\ UNCHANGED <<now, blockNumber, base, entity>>
    BY <1>2 DEF JobStep, KeepSource, tables, history
  <2>2. job'[j].pc = "rewind"
    BY <1>2, <1>a DEF KeepSource, NextRewind, Move, TypeOK, JobState
  <2> QED BY <2>1, <2>2, <1>c DEF LoopEnds, InDayLoop
<1>3. ASSUME NEW j \in Jobs, Rewind(j) PROVE BoundInv'
  <2>1. PICK s \in Sources : s = job[j].src
    BY <1>3 DEF Rewind
  <2>2. PICK b, purge :
           /\ b \in RequestedBlocks(s, job[j].date)
           /\ entity' = [entity EXCEPT ![j][s] = Assigned(@, b)]
           /\ blockNumber' = [blockNumber EXCEPT ![s] = Assigned(entity[j][s], b)] \/ UNCHANGED blockNumber
           /\ base' = [base EXCEPT ![s] = Assigned(@, b)] \/ base' = [base EXCEPT ![s] = Later(@, b)]
           /\ NextRewind(j, purge)
    BY <1>3, <2>1 DEF Rewind
  <2>3. b <= MaxTime
    BY <2>2, <1>a, RequestedBounds
  <2>4. JobStep(j) /\ UNCHANGED now /\ job[j].pc = "rewind"
    BY <1>3 DEF JobStep, Rewind
  <2>5. job'[j].pc = "rewind"
    BY <2>2, <2>4, <1>a DEF NextRewind, Move, TypeOK, JobState
  <2>6. \A x \in Sources : entity'[j][x] <= MaxTime /\ blockNumber'[x] <= MaxTime /\ base'[x] <= MaxTime
    BY <2>2, <2>3, <1>a DEF BoundInv, Assigned, Later, TypeOK
  <2> QED BY <2>4, <2>5, <2>6, <1>b DEF LoopEnds, InDayLoop
<1>4. ASSUME NEW j \in Jobs, Purge(j) PROVE BoundInv'
  <2>1. JobStep(j) /\ UNCHANGED <<now, blockNumber, base>>
    BY <1>4 DEF JobStep, Purge, tables, history
  <2>2. CASE Release(j)
    BY <2>1, <2>2, <1>c, <1>d
  <2>3. CASE ~Release(j)
    <3>1. UNCHANGED entity /\ Move(j, [job[j] EXCEPT !.pc = "task", !.src = 1, !.purge = {}])
      BY <1>4, <2>3 DEF Purge
    <3>2. job'[j].pc = "task"
      BY <3>1, <1>a DEF Move, TypeOK, JobState
    <3> QED BY <2>1, <3>1, <3>2, <1>c DEF LoopEnds, InDayLoop
  <2> QED BY <2>2, <2>3
<1>5. ASSUME NEW j \in Jobs, NextTask(j) PROVE BoundInv'
  <2>1. JobStep(j) /\ UNCHANGED <<now, blockNumber, base, entity>> /\ job[j].pc = "task"
    BY <1>5 DEF JobStep, NextTask, tables, history, bounds
  <2>2. job'[j].pc = "task"
    BY <1>5, <2>1, <1>a DEF NextTask, Move, TypeOK, JobState
  <2> QED BY <2>1, <2>2, <1>c DEF LoopEnds, InDayLoop
<1>6. ASSUME NEW j \in Jobs, RunStats(j) PROVE BoundInv'
  BY <1>6, <1>a, <1>c, AfterSourceEnds DEF JobStep, RunStats, tables, history, bounds
<1>7. ASSUME NEW j \in Jobs, UpToDate(j) PROVE BoundInv'
  <2>1. PICK s \in Sources : s = job[j].src
    BY <1>7 DEF UpToDate, AtTask
  <2>2. /\ JobStep(j) /\ UNCHANGED <<now, base, entity>> /\ LoopEnds(j)'
        /\ blockNumber' = [blockNumber EXCEPT ![s] = entity[j][s]]
    BY <1>7, <2>1, <1>a, AfterSourceEnds DEF JobStep, UpToDate, bounds, history
  <2>3. \A x \in Sources : blockNumber'[x] <= MaxTime
    BY <2>2, <1>a DEF BoundInv, TypeOK
  <2> QED BY <2>2, <2>3, <1>b DEF BoundInv
<1>8. ASSUME NEW j \in Jobs, BeginSource(j) PROVE BoundInv'
  <2>1. JobStep(j) /\ UNCHANGED <<now, blockNumber, base, entity>>
    BY <1>8 DEF JobStep, BeginSource, bounds, tables, history
  <2>2. PICK start \in Nat : start = entity[j][job[j].src]
    BY <1>8, <1>a DEF BeginSource, AtTask, TypeOK, Block
  <2>3. PICK m \in Nat, n \in Nat : /\ m = FirstMidnightUTC(start) /\ n = TodayMidnightUTC(now)
                                    /\ n <= MaxTime
    <3>1. now \in Nat /\ now <= MaxTime
      BY <1>a DEF TypeOK, BoundInv
    <3>2. TodayMidnightUTC(now) \in Nat /\ TodayMidnightUTC(now) <= now
      BY <3>1, TodayMidnight
    <3> QED BY <3>1, <3>2, <2>2, <1>a, FirstMidnight
  <2>4. m <= n /\ Move(j, [job[j] EXCEPT !.pc = "day", !.last = start, !.target = m, !.today = n])
    BY <1>8, <2>2, <2>3 DEF BeginSource
  <2>5. job'[j].pc = "day" /\ job'[j].target = m /\ job'[j].today = n
    BY <2>4, <1>a DEF Move, TypeOK, JobState
  <2> QED BY <2>1, <2>3, <2>4, <2>5, <1>c DEF LoopEnds
<1>9. ASSUME NEW j \in Jobs, SourceFails(j) PROVE BoundInv'
  BY <1>9, <1>a, <1>c, <1>d, AfterSourceEnds DEF JobStep, SourceFails, tables, history
<1>10. ASSUME NEW j \in Jobs, SaveRow(j) PROVE BoundInv'
  <2>1. JobStep(j) /\ UNCHANGED <<now, blockNumber, base, entity>> /\ InDayLoop(j)
    BY <1>10 DEF JobStep, SaveRow, AtDay, InDayLoop, bounds, history
  <2>2. PICK b \in DayBlocks(j) : Move(j, [job[j] EXCEPT !.pc = "commit", !.found = b])
    BY <1>10 DEF SaveRow
  <2>3. b <= MaxTime
    <3>1. job[j].last \in Nat /\ now \in Nat /\ now <= MaxTime
      BY <1>a, JobNumbers DEF TypeOK, BoundInv, Block
    <3> QED BY <2>2, <3>1, <1>a DEF DayBlocks, FoundBlocks
  <2>4. job'[j].found = b /\ job'[j].target = job[j].target /\ job'[j].today = job[j].today
    BY <2>2, <1>a DEF Move, TypeOK, JobState
  <2> QED BY <2>1, <2>3, <2>4, <1>c DEF LoopEnds, BoundInv
<1>11. ASSUME NEW j \in Jobs, Commit(j) \/ CommitFails(j) PROVE BoundInv'
  <2>1. PICK s \in Sources : s = job[j].src
    BY <1>11 DEF TypeInv, Placed, InDayLoop, Commit, CommitFails
  <2>2. /\ JobStep(j) /\ UNCHANGED <<now, base>> /\ InDayLoop(j) /\ job[j].found <= MaxTime
        /\ job[j].found \in Block /\ SkipADay(job[j].last) \in Block
    BY <1>11, <1>a, JobNumbers DEF JobStep, Commit, CommitFails, InDayLoop, bounds, history, BoundInv, LoopEnds
  <2>3. LoopEnds(j)'
    BY <1>11, <2>2, <1>a, AfterDayEnds DEF Commit, CommitFails
  <2>4. /\ entity' = [entity EXCEPT ![j][s] = Assigned(@, job[j].found)]
        /\ \/ blockNumber' = [blockNumber EXCEPT ![s] = Assigned(entity[j][s], job[j].found)]
           \/ UNCHANGED blockNumber
    BY <1>11, <2>1 DEF Commit, CommitFails, tables
  <2>5. \A x \in Sources : entity'[j][x] <= MaxTime /\ blockNumber'[x] <= MaxTime
    BY <2>2, <2>4, <1>a DEF BoundInv, Assigned, TypeOK
  <2> QED BY <2>2, <2>3, <2>5, <1>b DEF BoundInv
<1>12. ASSUME NEW j \in Jobs, ReadReverts(j) \/ ValueInvalid(j) \/ PriceFails(j) \/ DayFails(j) PROVE BoundInv'
  <2>1. JobStep(j) /\ UNCHANGED <<now, blockNumber, base, entity>> /\ InDayLoop(j)
    BY <1>12 DEF JobStep, ReadReverts, ValueInvalid, PriceFails, DayFails, AtDay, InDayLoop, tables
  <2>2. \A b \in DayBlocks(j) : b \in Block /\ SkipADay(b) \in Block
    <3>1. job[j].last \in Nat /\ now \in Nat
      BY <1>a, JobNumbers DEF TypeOK, Block
    <3> QED BY <3>1, GridAssumption DEF DayBlocks, FoundBlocks, Block, SkipADay
  <2>3. SkipADay(job[j].last) \in Block
    BY <1>a, JobNumbers
  <2>4. \/ Move(j, AfterSource(job[j]))
        \/ \E last \in Block : Move(j, AfterDay(job[j], last))
    BY <1>12, <2>2, <2>3 DEF ReadReverts, ValueInvalid, PriceFails, DayFails
  <2>5. LoopEnds(j)'
    BY <2>1, <2>4, <1>a, AfterDayEnds, AfterSourceEnds
  <2> QED BY <2>1, <2>5, <1>c
<1>13. ASSUME NEW j \in Jobs, Finish(j) PROVE BoundInv'
  BY <1>13, <1>a, <1>c, <1>d DEF JobStep, Finish, bounds, tables, history
<1>14. ASSUME NEW j \in Jobs, StartCollection(j) \/ StartClearing(j) PROVE BoundInv'
  <2>1. UNCHANGED <<now, blockNumber, base, entity>>
        /\ \A k \in Jobs : k # j => job'[k] = job[k]
    BY <1>14, <1>a DEF StartCollection, StartClearing, ExecuteWithLock, tables, history, Move, TypeOK
  <2>2. job'[j].pc = "list"
    <3>1. PICK clear, date : Move(j, [IdleJob EXCEPT !.pc = "list", !.clear = clear, !.date = date])
      BY <1>14 DEF StartCollection, StartClearing, ExecuteWithLock
    <3>2. [IdleJob EXCEPT !.pc = "list", !.clear = clear, !.date = date].pc = "list"
      BY DEF IdleJob
    <3> QED BY <3>1, <3>2, <1>a DEF Move, TypeOK
  <2> QED BY <2>1, <2>2 DEF BoundInv, LoopEnds, InDayLoop
<1>15. ASSUME NEW h \in Hosts, Crash(h) PROVE BoundInv'
  <2>1. ASSUME NEW k \in Jobs PROVE LoopEnds(k)' /\ \A s \in Sources : entity'[k][s] <= MaxTime
    BY <1>15, <1>a DEF Crash, BoundInv, LoopEnds, InDayLoop, IdleJob, NothingLoaded
  <2> QED BY <1>15, <2>1 DEF Crash, BoundInv, tables, history
<1>16. CASE Tick
  BY <1>16, <1>a DEF Tick, BoundInv, LoopEnds, InDayLoop, tables, history, TypeOK
<1>17. CASE UNCHANGED vars
  BY <1>17 DEF vars, bounds, tables, history, BoundInv, LoopEnds, InDayLoop
<1> QED BY <1>1, <1>2, <1>3, <1>4, <1>5, <1>6, <1>7, <1>8, <1>9, <1>10, <1>11, <1>12, <1>13, <1>14, <1>15,
           <1>16, <1>17 DEF Next, JobStep

-----------------------------------------------------------------------------
(***************************************************************************)
(* The refinement.  Every step of the collection records a day, gives one  *)
(* up, moves a frontier over settled days, asks a source to start again,   *)
(* wipes sources that claim nothing, or changes nothing of the ledger.     *)
(***************************************************************************)
recorded == [s \in Sources |-> {r.date : r \in reserves[s]}]
givenUp == [s \in Sources |-> GivenUp(s)]

LEMMA LedgerStutters ==
    ASSUME UNCHANGED <<base, blockNumber, reserves, skipped, unpriced>>
    PROVE  [Ledger!Next]_(Ledger!ledger)
BY DEF Ledger!ledger, GivenUp

LEMMA Instants ==
    ASSUME NEW n \in Nat, n <= MaxTime
    PROVE  n \in 0 .. MaxTime
BY BoundAssumption

LEMMA GivesUp ==
    ASSUME NEW s \in Sources, NEW d \in 0 .. MaxTime, UNCHANGED <<base, blockNumber, reserves>>,
           givenUp' = [givenUp EXCEPT ![s] = @ \cup {d}]
    PROVE  [Ledger!Next]_(Ledger!ledger)
<1>1. Ledger!GiveUp(s, d)
  BY DEF Ledger!GiveUp, givenUp
<1> QED BY <1>1 DEF Ledger!Next

LEMMA MovesFrontier ==
    ASSUME TypeOK, NEW s \in Sources, NEW b \in 0 .. MaxTime, NoSilentGap',
           UNCHANGED <<base, reserves, skipped, unpriced>>,
           blockNumber' = [blockNumber EXCEPT ![s] = b]
    PROVE  [Ledger!Next]_(Ledger!ledger)
<1>1. blockNumber'[s] = b
  BY DEF TypeOK
<1>2. \A d \in base[s] + 1 .. b : IsMidnight(d) => Settled(s, d)
  BY <1>1 DEF NoSilentGap, SettledUpTo, Settled, HasRow, GivenUp
<1>3. Ledger!Settled(s, base[s], b)
  BY <1>2 DEF Ledger!Settled, Settled, HasRow
<1>4. Ledger!MoveFrontier(s, b)
  BY <1>3 DEF Ledger!MoveFrontier, GivenUp
<1> QED BY <1>4 DEF Ledger!Next

LEMMA LedgerStep ==
    ASSUME TypeInv, OneJobPerHost, LedgerInv, BoundInv, LedgerInv', [Next]_vars
    PROVE  [Ledger!Next]_(Ledger!ledger)
<1>a. /\ TypeOK /\ \A j \in Jobs : job[j] \in JobState /\ JobInv(j)
      /\ NoSilentGap' /\ MaxTime \in Nat
  BY BoundAssumption DEF TypeInv, TypeOK, LedgerInv
<1>b. ASSUME NEW j \in Jobs, InDayLoop(j)
      PROVE  job[j].src \in Sources /\ job[j].target \in 0 .. MaxTime
  <2>1. job[j].target \in Nat /\ job[j].today \in Nat
        /\ job[j].target <= job[j].today /\ job[j].today <= MaxTime
    BY <1>a, <1>b, JobNumbers DEF BoundInv, LoopEnds
  <2> QED BY <2>1, <1>a, <1>b DEF TypeInv, Placed
<1>1. ASSUME NEW j \in Jobs, Rewind(j) PROVE [Ledger!Next]_(Ledger!ledger)
  <2>1. PICK s \in Sources : s = job[j].src
    BY <1>1 DEF Rewind
  <2>2. PICK b \in RequestedBlocks(s, job[j].date) :
           \/ /\ blockNumber' = [blockNumber EXCEPT ![s] = Assigned(entity[j][s], b)]
              /\ base' = [base EXCEPT ![s] = Assigned(@, b)]
           \/ base' = [base EXCEPT ![s] = Later(@, b)] /\ UNCHANGED blockNumber
    BY <1>1, <2>1 DEF Rewind
  <2>3. b \in 0 .. MaxTime
    BY <2>2, <1>a, RequestedBounds, Instants
  <2>4. UNCHANGED <<reserves, skipped, unpriced>>
    BY <1>1 DEF Rewind
  <2>5. entity[j][s] \in 0 .. MaxTime
    <3>1. entity[j][s] \in Nat /\ entity[j][s] <= MaxTime
      BY <1>a DEF TypeOK, Block, BoundInv
    <3> QED BY <3>1, Instants
  <2>6. CASE /\ blockNumber' = [blockNumber EXCEPT ![s] = Assigned(entity[j][s], b)]
             /\ base' = [base EXCEPT ![s] = Assigned(@, b)]
    <3>1. CASE b = 0
      <4>1. blockNumber' = [blockNumber EXCEPT ![s] = entity[j][s]] /\ UNCHANGED base
        BY <2>6, <3>1, <1>a DEF Assigned, TypeOK
      <4> QED BY <4>1, <2>4, <2>5, <1>a, MovesFrontier
    <3>2. CASE b # 0
      <4>1. Ledger!Restart(s, b)
        BY <2>4, <2>6, <3>2 DEF Ledger!Restart, Assigned, GivenUp
      <4> QED BY <4>1, <2>3 DEF Ledger!Next
    <3> QED BY <3>1, <3>2
  <2>7. CASE base' = [base EXCEPT ![s] = Later(@, b)] /\ UNCHANGED blockNumber
    <3>0. base \in [Sources -> Nat] /\ base[s] \in Nat /\ b \in Nat
      BY <2>3, <1>a DEF TypeOK, Block
    <3>1. CASE b > base[s]
      <4>0. Later(base[s], b) = b
        BY <3>0, <3>1 DEF Later
      <4>1. Ledger!Narrow(s, b)
        BY <2>4, <2>7, <3>1, <4>0 DEF Ledger!Narrow, GivenUp
      <4> QED BY <4>1, <2>3 DEF Ledger!Next
    <3>2. CASE ~(b > base[s])
      <4>0. Later(base[s], b) = base[s]
        BY <3>0, <3>2 DEF Later
      <4>1. UNCHANGED base
        BY <2>7, <3>0, <4>0
      <4> QED BY <4>1, <2>4, <2>7, LedgerStutters
    <3> QED BY <3>1, <3>2
  <2> QED BY <2>2, <2>6, <2>7
<1>2. ASSUME NEW j \in Jobs, Purge(j) PROVE [Ledger!Next]_(Ledger!ledger)
  <2>1. UNCHANGED <<base, blockNumber, skipped, unpriced>> /\ job[j].pc = "rewind"
    BY <1>2 DEF Purge, history
  <2>2. CASE UNCHANGED reserves
    BY <2>1, <2>2, LedgerStutters
  <2>3. CASE reserves' = [s \in Sources |-> IF s \in job[j].purge THEN {} ELSE reserves[s]]
    <3>1. PICK P \in SUBSET Sources : P = job[j].purge
      BY <1>a, JobNumbers
    <3>2. \A s \in P : blockNumber[s] <= base[s]
      BY <3>1, <2>1, <1>a DEF JobInv, PurgeClaimsNothing
    <3>3. recorded' = [s \in Sources |-> IF s \in P THEN {} ELSE recorded[s]]
      BY <2>3, <3>1 DEF recorded
    <3>4. Ledger!Wipe(P)
      BY <2>1, <3>2, <3>3 DEF Ledger!Wipe, recorded, GivenUp
    <3> QED BY <3>4 DEF Ledger!Next
  <2> QED BY <2>2, <2>3, <1>2 DEF Purge
<1>3. ASSUME NEW j \in Jobs, UpToDate(j) PROVE [Ledger!Next]_(Ledger!ledger)
  <2>1. PICK s \in Sources : s = job[j].src
    BY <1>3 DEF UpToDate, AtTask
  <2>2. entity[j][s] \in 0 .. MaxTime
    <3>1. entity[j][s] \in Nat /\ entity[j][s] <= MaxTime
      BY <1>a DEF TypeOK, Block, BoundInv
    <3> QED BY <3>1, Instants
  <2>3. /\ blockNumber' = [blockNumber EXCEPT ![s] = entity[j][s]]
        /\ UNCHANGED <<base, reserves, skipped, unpriced>>
    BY <1>3, <2>1 DEF UpToDate, history
  <2> QED BY <2>2, <2>3, <1>a, MovesFrontier
<1>4. ASSUME NEW j \in Jobs, Commit(j) PROVE [Ledger!Next]_(Ledger!ledger)
  <2>1. PICK s \in Sources : s = job[j].src
    BY <1>4, <1>b DEF Commit, InDayLoop
  <2>2. Assigned(entity[j][s], job[j].found) \in 0 .. MaxTime
    <3>1. entity[j][s] \in Nat /\ entity[j][s] <= MaxTime /\ job[j].found \in Nat /\ job[j].found <= MaxTime
      BY <1>4, <1>a, JobNumbers DEF TypeOK, Block, BoundInv, LoopEnds, Commit
    <3> QED BY <3>1, Instants DEF Assigned
  <2>3. /\ blockNumber' = [blockNumber EXCEPT ![s] = Assigned(entity[j][s], job[j].found)]
        /\ UNCHANGED <<base, reserves, skipped, unpriced>>
    BY <1>4, <2>1 DEF Commit, history
  <2> QED BY <2>2, <2>3, <1>a, MovesFrontier
<1>5. ASSUME NEW j \in Jobs, SaveRow(j) PROVE [Ledger!Next]_(Ledger!ledger)
  <2>1. PICK s \in Sources, d \in 0 .. MaxTime : s = job[j].src /\ d = job[j].target
    BY <1>5, <1>b DEF SaveRow, AtDay, InDayLoop
  <2>2. PICK w : /\ w.date = d
                 /\ reserves' = [reserves EXCEPT ![s] = reserves[s] \cup {w}]
    <3>1. PICK b \in DayBlocks(j) : reserves' = [reserves EXCEPT ![s] = @ \cup
                {[date |-> d, block |-> b, algorithm |-> Algorithm(j)]}]
      BY <1>5, <2>1 DEF SaveRow
    <3>2. PICK w : w = [date |-> d, block |-> b, algorithm |-> Algorithm(j)]
      OBVIOUS
    <3> QED BY <3>1, <3>2
  <2>3. recorded' = [recorded EXCEPT ![s] = recorded[s] \cup {d}]
    <3>1. {r.date : r \in reserves'[s]} = {r.date : r \in reserves[s]} \cup {d}
      BY <2>2, <1>a DEF TypeOK
    <3>2. \A x \in Sources : x # s => reserves'[x] = reserves[x]
      BY <2>2, <1>a DEF TypeOK
    <3>3. recorded' \in [Sources -> SUBSET UNION {recorded'[x] : x \in Sources}]
      BY DEF recorded
    <3> QED BY <3>1, <3>2 DEF recorded
  <2>4. UNCHANGED <<base, blockNumber, skipped, unpriced>>
    BY <1>5 DEF SaveRow, history
  <2>5. Ledger!Record(s, d)
    BY <2>3, <2>4 DEF Ledger!Record, recorded, GivenUp
  <2> QED BY <2>5 DEF Ledger!Next
<1>6. ASSUME NEW j \in Jobs, ReadReverts(j) \/ ValueInvalid(j) \/ DayFails(j)
      PROVE  [Ledger!Next]_(Ledger!ledger)
  <2>1. PICK s \in Sources, d \in 0 .. MaxTime : s = job[j].src /\ d = job[j].target
    BY <1>6, <1>b DEF ReadReverts, ValueInvalid, DayFails, AtDay, InDayLoop
  <2>2. /\ skipped' = [skipped EXCEPT ![s] = skipped[s] \cup {d}]
        /\ UNCHANGED <<base, blockNumber, reserves, unpriced>>
    BY <1>6, <2>1 DEF ReadReverts, ValueInvalid, DayFails, Skip, tables
  <2>3. \A x \in Sources : GivenUp(x)' = IF x = s THEN GivenUp(x) \cup {d} ELSE GivenUp(x)
    BY <2>2, <1>a DEF GivenUp, TypeOK
  <2>4. givenUp' = [givenUp EXCEPT ![s] = @ \cup {d}]
    BY <2>3 DEF givenUp
  <2> QED BY <2>2, <2>4, GivesUp
<1>7. ASSUME NEW j \in Jobs, PriceFails(j) PROVE [Ledger!Next]_(Ledger!ledger)
  <2>1. PICK s \in Sources, d \in 0 .. MaxTime : s = job[j].src /\ d = job[j].target
    BY <1>7, <1>b DEF PriceFails, AtDay, InDayLoop
  <2>2. /\ unpriced' = [unpriced EXCEPT ![s] = unpriced[s] \cup {d}]
        /\ UNCHANGED <<base, blockNumber, reserves, skipped>>
    BY <1>7, <2>1 DEF PriceFails, tables
  <2>3. CASE MailFails
    <3>1. \A x \in Sources : GivenUp(x)' = IF x = s THEN GivenUp(x) \cup {d} ELSE GivenUp(x)
      BY <2>2, <2>3, <1>a DEF GivenUp, TypeOK, MailFails
    <3>2. givenUp' = [givenUp EXCEPT ![s] = @ \cup {d}]
      BY <3>1 DEF givenUp
    <3> QED BY <2>2, <3>2, GivesUp
  <2>4. CASE ~MailFails
    BY <2>2, <2>4 DEF Ledger!ledger, GivenUp, MailFails
  <2> QED BY <2>3, <2>4
<1>8. ASSUME NEW j \in Jobs,
             \/ StartCollection(j) \/ StartClearing(j)
             \/ ListSources(j) \/ KeepSource(j) \/ NextTask(j) \/ RunStats(j) \/ BeginSource(j)
             \/ SourceFails(j) \/ CommitFails(j) \/ Finish(j)
      PROVE  [Ledger!Next]_(Ledger!ledger)
  <2>1. UNCHANGED <<base, blockNumber, reserves, skipped, unpriced>>
    BY <1>8 DEF StartCollection, StartClearing, ExecuteWithLock, ListSources, KeepSource, NextTask, RunStats,
       BeginSource, SourceFails, CommitFails, Finish, tables, history
  <2> QED BY <2>1, LedgerStutters
<1>9. ASSUME NEW h \in Hosts, Crash(h) PROVE [Ledger!Next]_(Ledger!ledger)
  BY <1>9, LedgerStutters DEF Crash, tables, history
<1>10. CASE Tick \/ UNCHANGED vars
  BY <1>10, LedgerStutters DEF Tick, vars, tables, history
<1> QED BY <1>1, <1>2, <1>3, <1>4, <1>5, <1>6, <1>7, <1>8, <1>9, <1>10 DEF Next, JobStep

LEMMA LedgerBegins == Init => Ledger!Init
<1> SUFFICES ASSUME Init PROVE Ledger!Init
  OBVIOUS
<1>1. base \in [Sources -> 0 .. MaxTime] /\ blockNumber = base
  <2>1. \A s \in Sources : CreationBlock[s] \in 0 .. MaxTime
    BY SourceAssumption, BoundAssumption, Instants DEF Block
  <2> QED BY <2>1, SourceAssumption DEF Init
<1>2. \A s \in Sources : reserves[s] = {} /\ GivenUp(s) = {}
  BY DEF Init, GivenUp
<1> QED BY <1>1, <1>2 DEF Ledger!Init

(* KeepsLedger: whatever jobs, failed writes, crashes and rewinds do, the  *)
(* frontier moves over settled days only, and records disappear only where *)
(* it claims nothing.                                                      *)
THEOREM CollectionKeepsLedger ==
    ASSUME ClearingIsAlone, FallbackKeepsPace
    PROVE  Spec => KeepsLedger
<1> DEFINE Inv == TypeInv /\ OneJobPerHost /\ LedgerInv /\ BoundInv
<1>1. Init => Inv
  BY TypeInvInit, OneJobPerHostInit, LedgerInvInit, BoundInit
<1>2. Inv /\ [Next]_vars => Inv'
  BY TypeInvStep, OneJobPerHostStep, LedgerInvStep, BoundStep
<1>3. Inv /\ Inv' /\ [Next]_vars => [Ledger!Next]_(Ledger!ledger)
  BY LedgerStep
<1> QED BY <1>1, <1>2, <1>3, LedgerBegins, PTL DEF Spec, KeepsLedger, Ledger!Spec

(* The promise is worth keeping: whatever keeps the ledger leaves no gap,  *)
(* so that NoSilentGap can be read off DailyLedger, without a job in sight.*)
LedgerHolds ==
    /\ base \in [Sources -> 0 .. MaxTime] /\ blockNumber \in [Sources -> 0 .. MaxTime]
    /\ \A s \in Sources : Ledger!Settled(s, base[s], blockNumber[s])

LEMMA LedgerHoldsInit == Ledger!Init => LedgerHolds
<1> SUFFICES ASSUME Ledger!Init PROVE LedgerHolds
  OBVIOUS
<1>1. base \in [Sources -> 0 .. MaxTime] /\ blockNumber = base
  BY DEF Ledger!Init
<1>2. \A s \in Sources : base[s] \in Nat /\ base[s] + 1 .. blockNumber[s] = {}
  BY <1>1, BoundAssumption
<1> QED BY <1>1, <1>2 DEF LedgerHolds, Ledger!Settled

LEMMA LedgerHoldsStep ==
    ASSUME LedgerHolds, [Ledger!Next]_(Ledger!ledger)
    PROVE  LedgerHolds'
<1> DEFINE T == 0 .. MaxTime
           Kept(s) == recorded[s] \cup givenUp[s] \subseteq recorded'[s] \cup givenUp'[s]
<1>a. /\ base \in [Sources -> T] /\ blockNumber \in [Sources -> T]
      /\ \A s \in Sources : \A d \in base[s] + 1 .. blockNumber[s] :
            IsMidnight(d) => d \in recorded[s] \cup givenUp[s]
  BY DEF LedgerHolds, Ledger!Settled, recorded, givenUp
<1>b. \A n \in T : n \in Nat
  BY BoundAssumption
<1>c. ASSUME base' \in [Sources -> T], blockNumber' \in [Sources -> T],
             \A s \in Sources : \A d \in base'[s] + 1 .. blockNumber'[s] :
                IsMidnight(d) => d \in recorded'[s] \cup givenUp'[s]
      PROVE  LedgerHolds'
  BY <1>c DEF LedgerHolds, Ledger!Settled, recorded, givenUp
<1>1. ASSUME NEW s \in Sources, NEW n \in T, Ledger!Record(s, n) \/ Ledger!GiveUp(s, n)
      PROVE  LedgerHolds'
  <2>1. base' = base /\ blockNumber' = blockNumber
    BY <1>1 DEF Ledger!Record, Ledger!GiveUp
  <2>2. \/ recorded' = [recorded EXCEPT ![s] = @ \cup {n}] /\ givenUp' = givenUp
        \/ givenUp' = [givenUp EXCEPT ![s] = @ \cup {n}] /\ recorded' = recorded
    BY <1>1 DEF Ledger!Record, Ledger!GiveUp, recorded, givenUp
  <2>3. recorded = [q \in Sources |-> recorded[q]] /\ givenUp = [q \in Sources |-> givenUp[q]]
    BY DEF recorded, givenUp
  <2>4. \A q \in Sources : Kept(q)
    BY <2>2, <2>3
  <2> QED BY <2>1, <2>4, <1>a, <1>c
<1>2. ASSUME NEW s \in Sources, NEW n \in T, Ledger!MoveFrontier(s, n)
      PROVE  LedgerHolds'
  <2>1. /\ base' = base /\ recorded' = recorded /\ givenUp' = givenUp
        /\ blockNumber' = [blockNumber EXCEPT ![s] = n]
        /\ \A d \in base[s] + 1 .. n : IsMidnight(d) => d \in recorded[s] \cup givenUp[s]
    BY <1>2 DEF Ledger!MoveFrontier, Ledger!Settled, recorded, givenUp
  <2> QED BY <2>1, <1>a, <1>c
<1>3. ASSUME NEW s \in Sources, NEW n \in T, Ledger!Restart(s, n)
      PROVE  LedgerHolds'
  <2>1. /\ base' = [base EXCEPT ![s] = n] /\ blockNumber' = [blockNumber EXCEPT ![s] = n]
        /\ recorded' = recorded /\ givenUp' = givenUp
    BY <1>3 DEF Ledger!Restart, recorded, givenUp
  <2>2. n + 1 .. n = {}
    BY <1>b
  <2> QED BY <2>1, <2>2, <1>a, <1>c
<1>4. ASSUME NEW s \in Sources, NEW n \in T, Ledger!Narrow(s, n)
      PROVE  LedgerHolds'
  <2>1. /\ base' = [base EXCEPT ![s] = n] /\ blockNumber' = blockNumber /\ n > base[s]
        /\ recorded' = recorded /\ givenUp' = givenUp
    BY <1>4 DEF Ledger!Narrow, recorded, givenUp
  <2>2. \A q \in Sources : base'[q] >= base[q] /\ base'[q] \in Nat /\ base[q] \in Nat /\ blockNumber[q] \in Nat
    BY <2>1, <1>a, <1>b
  <2>3. \A q \in Sources : base'[q] + 1 .. blockNumber[q] \subseteq base[q] + 1 .. blockNumber[q]
    BY <2>2
  <2> QED BY <2>1, <2>3, <1>a, <1>c
<1>5. ASSUME NEW S \in SUBSET Sources, Ledger!Wipe(S)
      PROVE  LedgerHolds'
  <2>1. /\ base' = base /\ blockNumber' = blockNumber /\ givenUp' = givenUp
        /\ \A s \in S : blockNumber[s] <= base[s]
        /\ \A s \in Sources \ S : recorded'[s] = recorded[s]
    BY <1>5 DEF Ledger!Wipe, recorded, givenUp
  <2>2. \A s \in S : base[s] + 1 .. blockNumber[s] = {}
    BY <2>1, <1>a, <1>b
  <2> QED BY <2>1, <2>2, <1>a, <1>c
<1>6. CASE UNCHANGED Ledger!ledger
  <2>1. base' = base /\ blockNumber' = blockNumber /\ recorded' = recorded /\ givenUp' = givenUp
    BY <1>6 DEF Ledger!ledger, recorded, givenUp
  <2> QED BY <2>1, <1>a, <1>c
<1> QED BY <1>1, <1>2, <1>3, <1>4, <1>5, <1>6 DEF Ledger!Next

(* NoSilentGap follows from the promise of DailyLedger alone, for every    *)
(* assignment of the constants: an implementation that keeps the ledger    *)
(* in another way would leave no gap either.                               *)
THEOREM LedgerLeavesNoGap == KeepsLedger => []NoSilentGap
<1>1. LedgerHolds => NoSilentGap
  BY DEF LedgerHolds, NoSilentGap, SettledUpTo, Settled, HasRow, Ledger!Settled
<1> QED BY <1>1, LedgerHoldsInit, LedgerHoldsStep, PTL DEF KeepsLedger, Ledger!Spec

-----------------------------------------------------------------------------
(***************************************************************************)
(* A checkpoint follows the rows.  So must whatever a job could still      *)
(* write to it: the entities it loaded, and the block it found.            *)
(***************************************************************************)
HasBlock(s, b) == \E r \in reserves[s] : r.block = b
Stands(s, b) == b <= base[s] \/ HasBlock(s, b)

FollowInv ==
    /\ \A s \in Sources : Stands(s, blockNumber[s])
    /\ \A j \in Jobs, s \in Sources : Stands(s, entity[j][s])
    /\ \A j \in Jobs : job[j].pc = "commit" => HasBlock(job[j].src, job[j].found)

LEMMA FollowInit == Init => FollowInv
<1> SUFFICES ASSUME Init PROVE FollowInv
  OBVIOUS
<1>1. \A s \in Sources : base[s] \in Nat /\ blockNumber[s] = base[s]
  BY SourceAssumption DEF Init, Block
<1> QED BY <1>1 DEF Init, FollowInv, Stands, IdleJob, NothingLoaded

(* While rows are only added and no start is moved back, all that stood    *)
(* still stands.                                                           *)
LEMMA StandsStay ==
    ASSUME TypeOK, TypeOK', \A s \in Sources : base[s] <= base'[s] /\ reserves[s] \subseteq reserves'[s]
    PROVE  \A s \in Sources : \A b \in Nat : /\ Stands(s, b) => Stands(s, b)'
                                             /\ HasBlock(s, b) => HasBlock(s, b)'
<1>1. \A s \in Sources : base[s] \in Nat /\ base'[s] \in Nat
  BY DEF TypeOK, Block
<1> QED BY <1>1 DEF Stands, HasBlock

LEMMA FollowStep ==
    ASSUME ClearingIsAlone
    PROVE  TypeInv /\ OneJobPerHost /\ LedgerInv /\ FollowInv /\ [Next]_vars => FollowInv'
<1> SUFFICES ASSUME TypeInv, OneJobPerHost, LedgerInv, FollowInv, [Next]_vars PROVE FollowInv'
  OBVIOUS
<1>a. /\ TypeOK /\ TypeOK' /\ TypeInv'
      /\ \A j \in Jobs : job[j] \in JobState /\ JobInv(j)
      /\ \A s \in Sources : base[s] \in Nat /\ blockNumber[s] \in Nat
      /\ \A j \in Jobs : \A s \in Sources : entity[j][s] \in Nat
      /\ \A j \in Jobs : job[j].found \in Nat /\ (InDayLoop(j) => job[j].src \in Sources)
  BY TypeInvStep, JobNumbers DEF TypeInv, TypeOK, LedgerInv, Block, Placed
<1>b. ASSUME UNCHANGED <<base, reserves>>
      PROVE  \A s \in Sources : \A b \in Nat : /\ Stands(s, b) => Stands(s, b)'
                                               /\ HasBlock(s, b) => HasBlock(s, b)'
  BY <1>b DEF Stands, HasBlock
<1>c. ASSUME NEW j \in Jobs, JobStep(j),
             \A s \in Sources : \A b \in Nat : /\ Stands(s, b) => Stands(s, b)'
                                               /\ HasBlock(s, b) => HasBlock(s, b)',
             \A s \in Sources : Stands(s, blockNumber[s])' /\ Stands(s, entity[j][s])',
             job'[j].pc = "commit" => HasBlock(job[j].src, job[j].found)'
      PROVE  FollowInv'
  <2>1. ASSUME NEW k \in Jobs, k # j
        PROVE  /\ \A s \in Sources : Stands(s, entity[k][s])'
               /\ job'[k].pc = "commit" => HasBlock(job[k].src, job[k].found)'
    <3>1. job'[k] = job[k] /\ entity'[k] = entity[k]
      BY <1>c, <2>1, JobStepShape
    <3>2. \A s \in Sources : Stands(s, entity[k][s])'
      BY <3>1, <1>a, <1>c DEF FollowInv, Stands, HasBlock
    <3>3. ASSUME job[k].pc = "commit" PROVE HasBlock(job[k].src, job[k].found)'
      <4>1. job[k].src \in Sources /\ HasBlock(job[k].src, job[k].found)
        BY <3>3, <1>a DEF FollowInv, InDayLoop
      <4>2. PICK s \in Sources, b \in Nat : s = job[k].src /\ b = job[k].found /\ HasBlock(s, b)'
        BY <4>1, <1>a, <1>c
      <4> QED BY <4>2, <3>1 DEF HasBlock
    <3> QED BY <3>1, <3>2, <3>3
  <2> QED BY <2>1, <1>c DEF FollowInv
<1>d. ASSUME NEW j \in Jobs, JobStep(j), UNCHANGED <<base, reserves, blockNumber>>, job'[j].pc # "commit",
             UNCHANGED entity \/ entity'[j] = NothingLoaded \/ entity'[j] = blockNumber
      PROVE  FollowInv'
  <2>1. \A s \in Sources : Stands(s, blockNumber[s])'
    BY <1>a, <1>b, <1>d DEF FollowInv, Stands, HasBlock
  <2>2. \A s \in Sources : Stands(s, entity[j][s])'
    <3>1. CASE UNCHANGED entity
      BY <3>1, <1>a, <1>b, <1>d DEF FollowInv, Stands, HasBlock
    <3>2. CASE entity'[j] = NothingLoaded
      BY <3>2, <1>a, <1>d DEF Stands, NothingLoaded
    <3>3. CASE entity'[j] = blockNumber
      BY <3>3, <2>1, <1>d DEF Stands, HasBlock
    <3> QED BY <3>1, <3>2, <3>3, <1>d
  <2> QED BY <2>1, <2>2, <1>b, <1>c, <1>d
<1>e. ASSUME NEW j \in Jobs, Release(j) PROVE job'[j].pc # "commit" /\ entity'[j] = NothingLoaded
  BY <1>a, <1>e, ReleaseFields DEF IdleJob
<1>f. \A j \in Jobs : Move(j, AfterSource(job[j])) => job'[j].pc # "commit"
  BY <1>a, AfterSourceFields DEF Move, TypeOK
<1>g. \A j \in Jobs : \A last \in Block : Move(j, AfterDay(job[j], last)) => job'[j].pc # "commit"
  <2> SUFFICES ASSUME NEW j \in Jobs, NEW last \in Block, Move(j, AfterDay(job[j], last))
               PROVE  job'[j].pc # "commit"
    OBVIOUS
  <2>1. job'[j] = AfterDay(job[j], last) /\ job[j] \in JobState
    BY <1>a DEF Move, TypeOK
  <2> QED BY <2>1, AfterDayFields
<1>1. ASSUME NEW j \in Jobs, ListSources(j) PROVE FollowInv'
  <2>1. JobStep(j) /\ UNCHANGED <<blockNumber, base, reserves>>
    BY <1>1 DEF JobStep, ListSources, tables, history
  <2>2. CASE Release(j)
    BY <2>1, <2>2, <1>d, <1>e
  <2>3. CASE ~Release(j)
    <3>1. entity'[j] = blockNumber /\ job'[j].pc # "commit"
      BY <1>1, <2>3, <1>a DEF ListSources, Move, TypeOK, JobState
    <3> QED BY <2>1, <3>1, <1>d
  <2> QED BY <2>2, <2>3
<1>2. ASSUME NEW j \in Jobs, KeepSource(j) \/ NextTask(j) \/ BeginSource(j) PROVE FollowInv'
  <2>1. JobStep(j) /\ UNCHANGED <<blockNumber, base, reserves, entity>> /\ job[j].pc \in {"rewind", "task"}
    BY <1>2 DEF JobStep, KeepSource, NextTask, BeginSource, AtTask, tables, history, bounds
  <2>2. CASE KeepSource(j)
    <3>1. job'[j].pc = "rewind"
      BY <2>2, <1>a DEF KeepSource, NextRewind, Move, TypeOK, JobState
    <3> QED BY <2>1, <3>1, <1>d
  <2>3. CASE NextTask(j)
    <3>1. job'[j].pc = "task"
      BY <2>3, <1>a DEF NextTask, Move, TypeOK, JobState
    <3> QED BY <2>1, <3>1, <1>d
  <2>4. CASE BeginSource(j)
    <3>1. job'[j].pc = "day"
      BY <2>4, <1>a DEF BeginSource, Move, TypeOK, JobState
    <3> QED BY <2>1, <3>1, <1>d
  <2> QED BY <1>2, <2>2, <2>3, <2>4
<1>3. ASSUME NEW j \in Jobs, Rewind(j) PROVE FollowInv'
  <2>1. PICK s \in Sources : s = job[j].src
    BY <1>3 DEF Rewind
  <2>2. PICK b, purge :
           /\ b \in RequestedBlocks(s, job[j].date)
           /\ entity' = [entity EXCEPT ![j][s] = Assigned(@, b)]
           /\ \/ /\ blockNumber' = [blockNumber EXCEPT ![s] = Assigned(entity[j][s], b)]
                 /\ base' = [base EXCEPT ![s] = Assigned(@, b)]
              \/ base' = [base EXCEPT ![s] = Later(@, b)] /\ UNCHANGED blockNumber
           /\ NextRewind(j, purge)
    BY <1>3, <2>1 DEF Rewind
  <2>3. JobStep(j) /\ UNCHANGED reserves /\ job[j].pc = "rewind" /\ Running(j)
    BY <1>3 DEF JobStep, Rewind, Running
  <2>4. b \in Nat /\ b # 0
    <3>1. CreationBlock[s] \in Nat /\ CreationBlock[s] > EarlySlip /\ EarlySlip \in Nat
      BY SourceAssumption, GridAssumption DEF Block
    <3>2. job[j].date \in Int
      BY <1>a DEF JobState, NoDate
    <3> QED BY <2>2, <3>1, <3>2, <1>a DEF RequestedBlocks, FoundBlocks, ExactBlock, TypeOK
  <2>5. job'[j].pc = "rewind"
    BY <2>2, <2>3, <1>a DEF NextRewind, Move, TypeOK, JobState
  <2>6. /\ entity'[j][s] = b /\ \A x \in Sources : x # s => entity'[j][x] = entity[j][x]
        /\ \A x \in Sources : x # s => base'[x] = base[x] /\ blockNumber'[x] = blockNumber[x]
        /\ base'[s] \in Nat /\ b <= base'[s]
        /\ blockNumber'[s] = b \/ (blockNumber' = blockNumber /\ base[s] <= base'[s])
    BY <2>2, <2>4, <1>a DEF Assigned, Later, TypeOK, Block
  <2>7. \A x \in Sources : Stands(x, blockNumber[x])' /\ Stands(x, entity[j][x])'
    <3>1. \A x \in Sources : x # s => Stands(x, blockNumber[x])' /\ Stands(x, entity[j][x])'
      BY <2>3, <2>6 DEF FollowInv, Stands, HasBlock
    <3>2. Stands(s, entity[j][s])'
      BY <2>6 DEF Stands
    <3>3. Stands(s, blockNumber[s])'
      BY <2>3, <2>6, <1>a DEF FollowInv, Stands, HasBlock
    <3> QED BY <3>1, <3>2, <3>3
  <2>8. ASSUME NEW k \in Jobs, k # j
        PROVE  (\A x \in Sources : Stands(x, entity[k][x])') /\ job'[k].pc # "commit"
    <3>1. job[k].pc = "idle" /\ job'[k] = job[k] /\ entity'[k] = entity[k]
      BY <2>3, <2>8, JobStepShape, RewindIsAlone DEF Running
    <3>2. entity[k] = NothingLoaded
      BY <3>1, <1>a DEF JobInv, EntitiesSettled
    <3>3. \A x \in Sources : base'[x] \in Nat
      BY <2>6, <1>a
    <3> QED BY <3>1, <3>2, <3>3 DEF Stands, NothingLoaded
  <2> QED BY <2>5, <2>7, <2>8 DEF FollowInv
<1>4. ASSUME NEW j \in Jobs, Purge(j) PROVE FollowInv'
  <2>1. JobStep(j) /\ UNCHANGED <<blockNumber, base>> /\ job[j].pc = "rewind" /\ Running(j)
    BY <1>4 DEF JobStep, Purge, history, Running
  <2>2. CASE UNCHANGED reserves /\ Release(j)
    BY <2>1, <2>2, <1>d, <1>e
  <2>3. CASE ~(UNCHANGED reserves /\ Release(j))
    <3>1. /\ reserves' = [s \in Sources |-> IF s \in job[j].purge THEN {} ELSE reserves[s]]
          /\ Move(j, [job[j] EXCEPT !.pc = "task", !.src = 1, !.purge = {}])
          /\ UNCHANGED entity
      BY <1>4, <2>3 DEF Purge
    <3>2. job'[j].pc = "task"
      BY <3>1, <1>a DEF Move, TypeOK, JobState
    <3>3. \A x \in Sources : Stands(x, blockNumber[x])' /\ Stands(x, entity[j][x])'
      <4>1. \A x \in job[j].purge : blockNumber[x] <= base[x] /\ entity[j][x] <= base[x]
        BY <2>1, <1>a DEF JobInv, PurgeClaimsNothing
      <4> QED BY <4>1, <3>1, <2>1 DEF FollowInv, Stands, HasBlock
    <3>4. ASSUME NEW k \in Jobs, k # j
          PROVE  (\A x \in Sources : Stands(x, entity[k][x])') /\ job'[k].pc # "commit"
      <4>1. job[k].pc = "idle" /\ job'[k] = job[k] /\ entity'[k] = entity[k]
        BY <2>1, <3>4, JobStepShape, RewindIsAlone DEF Running
      <4>2. entity[k] = NothingLoaded
        BY <4>1, <1>a DEF JobInv, EntitiesSettled
      <4> QED BY <4>1, <4>2, <2>1, <1>a DEF Stands, NothingLoaded
    <3> QED BY <3>2, <3>3, <3>4 DEF FollowInv
  <2> QED BY <2>2, <2>3
<1>5. ASSUME NEW j \in Jobs, RunStats(j) \/ SourceFails(j) \/ Finish(j) PROVE FollowInv'
  <2>1. JobStep(j) /\ UNCHANGED <<blockNumber, base, reserves>>
    BY <1>5 DEF JobStep, RunStats, SourceFails, Finish, tables, history
  <2>2. (Move(j, AfterSource(job[j])) /\ UNCHANGED entity) \/ Release(j)
    BY <1>5 DEF RunStats, SourceFails, Finish
  <2> QED BY <2>1, <2>2, <1>d, <1>e, <1>f
<1>6. ASSUME NEW j \in Jobs, UpToDate(j) PROVE FollowInv'
  <2>1. PICK s \in Sources : s = job[j].src
    BY <1>6 DEF UpToDate, AtTask
  <2>2. /\ JobStep(j) /\ UNCHANGED <<base, reserves, entity>> /\ job'[j].pc # "commit"
        /\ blockNumber' = [blockNumber EXCEPT ![s] = entity[j][s]]
    BY <1>6, <2>1, <1>f DEF JobStep, UpToDate, history
  <2>3. \A x \in Sources : Stands(x, blockNumber[x])' /\ Stands(x, entity[j][x])'
    <3>1. \A x \in Sources : blockNumber'[x] = IF x = s THEN entity[j][s] ELSE blockNumber[x]
      BY <2>2, <1>a DEF TypeOK
    <3> QED BY <3>1, <2>2 DEF FollowInv, Stands, HasBlock
  <2> QED BY <2>2, <2>3, <1>b, <1>c
<1>7. ASSUME NEW j \in Jobs, SaveRow(j) PROVE FollowInv'
  <2>1. PICK s \in Sources : s = job[j].src
    BY <1>7, <1>a DEF SaveRow, AtDay, InDayLoop
  <2>2. PICK b, w :
           /\ b \in DayBlocks(j)
           /\ w.block = b
           /\ reserves' = [reserves EXCEPT ![s] = @ \cup {w}]
           /\ Move(j, [job[j] EXCEPT !.pc = "commit", !.found = b])
    <3>1. PICK b \in DayBlocks(j) :
             /\ reserves' = [reserves EXCEPT ![s] = @ \cup
                    {[date |-> job[j].target, block |-> b, algorithm |-> Algorithm(j)]}]
             /\ Move(j, [job[j] EXCEPT !.pc = "commit", !.found = b])
      BY <1>7, <2>1 DEF SaveRow
    <3>2. PICK w : w = [date |-> job[j].target, block |-> b, algorithm |-> Algorithm(j)]
      OBVIOUS
    <3>3. w.block = b
      BY <3>2
    <3>4. reserves' = [reserves EXCEPT ![s] = @ \cup {w}]
      BY <3>1, <3>2
    <3>5. Move(j, [job[j] EXCEPT !.pc = "commit", !.found = b])
      BY <3>1
    <3> QED BY <3>3, <3>4, <3>5
  <2>3. JobStep(j) /\ UNCHANGED <<blockNumber, base, entity>>
    BY <1>7 DEF JobStep, SaveRow, history
  <2>4. \A x \in Sources : base[x] <= base'[x] /\ reserves[x] \subseteq reserves'[x]
    BY <2>2, <2>3, <1>a DEF TypeOK
  <2>5. \A x \in Sources : \A c \in Nat : /\ Stands(x, c) => Stands(x, c)'
                                          /\ HasBlock(x, c) => HasBlock(x, c)'
    BY <2>4, <1>a, StandsStay
  <2>6. \A x \in Sources : Stands(x, blockNumber[x])' /\ Stands(x, entity[j][x])'
    BY <2>3, <2>5, <1>a DEF FollowInv, Stands, HasBlock
  <2>7. HasBlock(job[j].src, job[j].found)'
    <3>1. w \in reserves'[s]
      BY <2>2, <1>a DEF TypeOK
    <3>2. job'[j].src = s /\ job'[j].found = b
      BY <2>1, <2>2, <1>a DEF Move, TypeOK, JobState
    <3> QED BY <3>1, <3>2, <2>2 DEF HasBlock
  <2> QED BY <2>3, <2>5, <2>6, <2>7, <1>c
<1>8. ASSUME NEW j \in Jobs, Commit(j) \/ CommitFails(j) PROVE FollowInv'
  <2>1. PICK s \in Sources : s = job[j].src /\ job[j].pc = "commit"
    BY <1>8, <1>a DEF Commit, CommitFails, InDayLoop
  <2>2. HasBlock(s, job[j].found)
    BY <2>1 DEF FollowInv
  <2>3. JobStep(j) /\ UNCHANGED <<base, reserves>>
    BY <1>8 DEF JobStep, Commit, CommitFails, tables, history
  <2>4. job'[j].pc # "commit"
    <3>1. job[j].found \in Block /\ SkipADay(job[j].last) \in Block
      BY <1>a, JobNumbers DEF Block
    <3> QED BY <3>1, <1>8, <1>g DEF Commit, CommitFails
  <2>5. /\ entity' = [entity EXCEPT ![j][s] = Assigned(@, job[j].found)]
        /\ \/ blockNumber' = [blockNumber EXCEPT ![s] = Assigned(entity[j][s], job[j].found)]
           \/ UNCHANGED blockNumber
    BY <1>8, <2>1 DEF Commit, CommitFails, tables
  <2>6. /\ \A x \in Sources : entity'[j][x] = entity[j][x] \/ (x = s /\ entity'[j][x] = job[j].found)
        /\ \A x \in Sources : \/ blockNumber'[x] = blockNumber[x]
                              \/ x = s /\ blockNumber'[x] \in {entity[j][s], job[j].found}
    BY <2>5, <1>a DEF Assigned, TypeOK
  <2>7. \A x \in Sources : Stands(x, blockNumber[x])' /\ Stands(x, entity[j][x])'
    BY <2>2, <2>3, <2>6 DEF FollowInv, Stands, HasBlock
  <2> QED BY <2>3, <2>4, <2>7, <1>b, <1>c
<1>9. ASSUME NEW j \in Jobs, ReadReverts(j) \/ ValueInvalid(j) \/ PriceFails(j) \/ DayFails(j) PROVE FollowInv'
  <2>1. JobStep(j) /\ UNCHANGED <<blockNumber, base, reserves, entity>>
    BY <1>9 DEF JobStep, ReadReverts, ValueInvalid, PriceFails, DayFails, tables
  <2>2. \A b \in DayBlocks(j) : b \in Block /\ SkipADay(b) \in Block
    <3>1. job[j].last \in Nat /\ now \in Nat
      BY <1>a, JobNumbers DEF TypeOK, Block
    <3> QED BY <3>1, GridAssumption DEF DayBlocks, FoundBlocks, Block, SkipADay
  <2>3. SkipADay(job[j].last) \in Block
    BY <1>a, JobNumbers
  <2>4. \/ Move(j, AfterSource(job[j]))
        \/ \E last \in Block : Move(j, AfterDay(job[j], last))
    BY <1>9, <2>2, <2>3 DEF ReadReverts, ValueInvalid, PriceFails, DayFails
  <2> QED BY <2>1, <2>4, <1>d, <1>f, <1>g
<1>10. ASSUME NEW j \in Jobs, StartCollection(j) \/ StartClearing(j) PROVE FollowInv'
  <2>1. UNCHANGED <<base, reserves, blockNumber, entity>>
    BY <1>10 DEF StartCollection, StartClearing, ExecuteWithLock, tables, history
  <2>2. PICK clear, date : Move(j, [IdleJob EXCEPT !.pc = "list", !.clear = clear, !.date = date])
    BY <1>10 DEF StartCollection, StartClearing, ExecuteWithLock
  <2>3. [IdleJob EXCEPT !.pc = "list", !.clear = clear, !.date = date].pc = "list"
    BY DEF IdleJob
  <2>4. \A k \in Jobs : job'[k].pc = "commit" => job'[k] = job[k]
    BY <2>2, <2>3, <1>a DEF Move, TypeOK
  <2> QED BY <2>1, <2>4 DEF FollowInv, Stands, HasBlock
<1>11. ASSUME NEW h \in Hosts, Crash(h) PROVE FollowInv'
  <2>1. UNCHANGED <<base, reserves, blockNumber>>
    BY <1>11 DEF Crash, tables, history
  <2>2. \A k \in Jobs : /\ job'[k].pc = "commit" => job'[k] = job[k]
                        /\ entity'[k] = entity[k] \/ entity'[k] = NothingLoaded
    BY <1>11, <1>a DEF Crash, TypeOK, IdleJob
  <2>3. \A k \in Jobs, s \in Sources : Stands(s, entity[k][s])'
    BY <2>1, <2>2, <1>a DEF FollowInv, Stands, HasBlock, NothingLoaded
  <2> QED BY <2>1, <2>2, <2>3 DEF FollowInv, Stands, HasBlock
<1>12. CASE Tick \/ UNCHANGED vars
  BY <1>12 DEF Tick, vars, tables, history, FollowInv, Stands, HasBlock
<1> QED BY <1>1, <1>2, <1>3, <1>4, <1>5, <1>6, <1>7, <1>8, <1>9, <1>10, <1>11, <1>12 DEF Next, JobStep

(* CheckpointFollowsRow: no write ever moves a checkpoint past its start   *)
(* to a block that no stored row has, not even one from memory after a     *)
(* write that failed, or over a newer value of another process.            *)
THEOREM CheckpointsFollowRows ==
    ASSUME ClearingIsAlone, FallbackKeepsPace
    PROVE  Spec => CheckpointFollowsRow
<1> DEFINE Inv == TypeInv /\ OneJobPerHost /\ LedgerInv /\ FollowInv
<1>1. Init => Inv
  BY TypeInvInit, OneJobPerHostInit, LedgerInvInit, FollowInit
<1>2. Inv /\ [Next]_vars => Inv'
  BY TypeInvStep, OneJobPerHostStep, LedgerInvStep, FollowStep
<1>3. Inv' => \A s \in Sources :
                 blockNumber'[s] # blockNumber[s] =>
                    \/ blockNumber'[s] <= base'[s]
                    \/ \E r \in reserves'[s] : r.block = blockNumber'[s]
  BY DEF FollowInv, Stands, HasBlock
<1> QED BY <1>1, <1>2, <1>3, PTL DEF Spec, CheckpointFollowsRow

-----------------------------------------------------------------------------
(***************************************************************************)
(* A failed price is retried, where no mail can fail.                      *)
(***************************************************************************)
UnpricedAreDays == \A s \in Sources : \A d \in unpriced[s] : IsMidnight(d)

LEMMA UnpricedStep ==
    TypeInv /\ LedgerInv /\ UnpricedAreDays /\ [Next]_vars => UnpricedAreDays'
<1> SUFFICES ASSUME TypeInv, LedgerInv, UnpricedAreDays, [Next]_vars PROVE UnpricedAreDays'
  OBVIOUS
<1>1. ASSUME NEW j \in Jobs, PriceFails(j) PROVE UnpricedAreDays'
  <2>1. IsMidnight(job[j].target)
    BY <1>1 DEF PriceFails, AtDay, LedgerInv, JobInv, LoopKeepsPace, InDayLoop
  <2>2. unpriced' = [unpriced EXCEPT ![job[j].src] = @ \cup {job[j].target}]
    BY <1>1 DEF PriceFails
  <2>3. \A s \in Sources : unpriced'[s] \subseteq unpriced[s] \cup {job[j].target}
    BY <2>2 DEF TypeInv, TypeOK
  <2> QED BY <2>1, <2>3 DEF UnpricedAreDays
<1>2. ASSUME NEW j \in Jobs, JobStep(j), ~PriceFails(j) PROVE UNCHANGED unpriced
  BY <1>2 DEF JobStep, ListSources, Rewind, KeepSource, Purge, NextTask, RunStats, BeginSource, UpToDate,
              SourceFails, SaveRow, Commit, CommitFails, ReadReverts, ValueInvalid, DayFails, Finish, history
<1>3. ASSUME NEW j \in Jobs, StartCollection(j) \/ StartClearing(j) PROVE UNCHANGED unpriced
  BY <1>3 DEF StartCollection, StartClearing, ExecuteWithLock, history
<1>4. CASE Tick \/ (\E h \in Hosts : Crash(h)) \/ UNCHANGED vars
  BY <1>4 DEF Tick, Crash, vars, history, UnpricedAreDays
<1> QED BY <1>1, <1>2, <1>3, <1>4 DEF Next, UnpricedAreDays

(* FailedPriceIsRetried: where a mail cannot fail, the checkpoint never    *)
(* passes a day whose price lookup failed before a later run gave it a row *)
(* or another failure took it away.  Run `mail' shows that the assumption  *)
(* on the mail is needed.                                                  *)
THEOREM FailedPricesAreRetried ==
    ASSUME ClearingIsAlone, FallbackKeepsPace, ~MailFails
    PROVE  Spec => []FailedPriceIsRetried
<1> DEFINE Inv == TypeInv /\ OneJobPerHost /\ LedgerInv /\ UnpricedAreDays
<1>1. Init => Inv
  BY TypeInvInit, OneJobPerHostInit, LedgerInvInit DEF Init, UnpricedAreDays
<1>2. Inv /\ [Next]_vars => Inv'
  BY TypeInvStep, OneJobPerHostStep, LedgerInvStep, UnpricedStep
<1>3. Inv => FailedPriceIsRetried
  <2> SUFFICES ASSUME Inv, NEW s \in Sources, NEW d \in unpriced[s], base[s] < d, d <= blockNumber[s]
               PROVE  HasRow(s, d) \/ d \in skipped[s]
    BY DEF FailedPriceIsRetried
  <2>1. base[s] \in Nat /\ blockNumber[s] \in Nat /\ d \in Nat
    BY DEF TypeInv, TypeOK, Block
  <2>2. d \in base[s] + 1 .. blockNumber[s] /\ IsMidnight(d)
    BY <2>1 DEF UnpricedAreDays
  <2>3. Settled(s, d)
    BY <2>2 DEF LedgerInv, NoSilentGap, SettledUpTo
  <2> QED BY <2>3 DEF Settled, GivenUp
<1> QED BY <1>1, <1>2, <1>3, PTL DEF Spec

-----------------------------------------------------------------------------
(***************************************************************************)
(* A checkpoint moves back only to clear, where all jobs share one host.   *)
(* A job that does not clear loaded entities no older than the table, and  *)
(* its loop only goes up from them; no checkpoint is ever 0, which the     *)
(* test for truth of updateWithSource would take for a missing value.      *)
(***************************************************************************)
OneHost == \A j, k \in Jobs : HostOf[j] = HostOf[k]

Loaded(j) == Running(j) /\ job[j].pc # "list"

LoopIsAhead(j) ==
    InDayLoop(j) =>
        /\ 0 < job[j].last
        /\ ~job[j].clear => blockNumber[job[j].src] <= job[j].last
        /\ job[j].pc = "commit" => job[j].last <= job[j].found

ForwardInv ==
    /\ \A s \in Sources : 0 < blockNumber[s]
    /\ \A j \in Jobs : Loaded(j) =>
          /\ \A s \in Sources : 0 < entity[j][s] /\ (~job[j].clear => blockNumber[s] <= entity[j][s])
          /\ LoopIsAhead(j)

LEMMA ForwardInit == Init => ForwardInv
<1> SUFFICES ASSUME Init PROVE ForwardInv
  OBVIOUS
<1>1. \A s \in Sources : 0 < blockNumber[s]
  BY SourceAssumption, GridAssumption DEF Init, Block
<1> QED BY <1>1 DEF Init, ForwardInv, Loaded, Running, IdleJob

(* Nobody else runs beside a job.                                          *)
LEMMA RunsAlone ==
    ASSUME OneHost, OneJobPerHost, NEW j \in Jobs, Running(j), NEW k \in Jobs, k # j
    PROVE  ~Running(k)
BY DEF OneHost, OneJobPerHost

LEMMA ForwardStep ==
    ASSUME OneHost
    PROVE  TypeInv /\ OneJobPerHost /\ LedgerInv /\ ForwardInv /\ [Next]_vars => ForwardInv'
<1> SUFFICES ASSUME TypeInv, OneJobPerHost, LedgerInv, ForwardInv, [Next]_vars PROVE ForwardInv'
  OBVIOUS
<1>a. /\ TypeOK /\ TypeOK' /\ TypeInv'
      /\ \A j \in Jobs : job[j] \in JobState
      /\ \A s \in Sources : blockNumber[s] \in Nat
      /\ \A j \in Jobs : \A s \in Sources : entity[j][s] \in Nat
      /\ \A j \in Jobs : job[j].found \in Nat /\ job[j].last \in Nat /\ (InDayLoop(j) => job[j].src \in Sources)
  BY TypeInvStep, JobNumbers DEF TypeInv, TypeOK, Block, Placed
<1>b. ASSUME NEW j \in Jobs, JobStep(j), NEW k \in Jobs, k # j PROVE ~Loaded(k)'
  <2>1. Running(j) /\ job'[k] = job[k]
    BY <1>b, <1>a, JobStepShape
  <2> QED BY <2>1, <1>b, RunsAlone DEF Loaded, Running
<1>c. ASSUME NEW j \in Jobs, JobStep(j), \A s \in Sources : 0 < blockNumber'[s],
             Loaded(j)' => (\A s \in Sources :
                 0 < entity'[j][s] /\ (~job'[j].clear => blockNumber'[s] <= entity'[j][s])) /\ LoopIsAhead(j)'
      PROVE  ForwardInv'
  BY <1>b, <1>c DEF ForwardInv
(* A step that leaves the entities and the table alone.                    *)
<1>d. ASSUME NEW j \in Jobs, JobStep(j), UNCHANGED <<blockNumber, entity>>, Loaded(j),
             job'[j].clear = job[j].clear, LoopIsAhead(j)'
      PROVE  ForwardInv'
  BY <1>c, <1>d DEF ForwardInv
<1>e. ASSUME NEW j \in Jobs, JobStep(j), UNCHANGED blockNumber, Release(j)
      PROVE  ForwardInv'
  <2>1. ~Loaded(j)'
    BY <1>a, <1>e, ReleaseFields DEF Loaded, Running, IdleJob
  <2> QED BY <2>1, <1>c, <1>e DEF ForwardInv
<1>f. ASSUME NEW j \in Jobs, Move(j, AfterSource(job[j]))
      PROVE  LoopIsAhead(j)' /\ job'[j].clear = job[j].clear /\ job'[j].pc = "task"
  <2>1. job'[j] = AfterSource(job[j]) /\ job[j] \in JobState
    BY <1>a, <1>f DEF Move, TypeOK
  <2> QED BY <2>1, AfterSourceFields DEF LoopIsAhead, InDayLoop
<1>g. ASSUME NEW j \in Jobs, NEW last \in Block, InDayLoop(j), Move(j, AfterDay(job[j], last)),
             0 < last, ~job[j].clear => blockNumber'[job[j].src] <= last
      PROVE  LoopIsAhead(j)' /\ job'[j].clear = job[j].clear /\ job'[j].pc \in {"task", "day"}
  <2>1. job'[j] = AfterDay(job[j], last) /\ job[j] \in JobState
    BY <1>a, <1>g DEF Move, TypeOK
  <2> QED BY <2>1, <1>g, AfterDayFields DEF LoopIsAhead, InDayLoop
<1>1. ASSUME NEW j \in Jobs, ListSources(j) PROVE ForwardInv'
  <2>1. JobStep(j) /\ UNCHANGED blockNumber
    BY <1>1 DEF JobStep, ListSources, tables
  <2>2. CASE Release(j)
    BY <2>1, <2>2, <1>e
  <2>3. CASE ~Release(j)
    <3>1. entity'[j] = blockNumber /\ job'[j].pc \in {"rewind", "task"}
      BY <1>1, <2>3, <1>a DEF ListSources, Move, TypeOK, JobState
    <3> QED BY <2>1, <3>1, <1>a, <1>c DEF ForwardInv, LoopIsAhead, InDayLoop
  <2> QED BY <2>2, <2>3
<1>2. ASSUME NEW j \in Jobs, KeepSource(j) \/ NextTask(j) PROVE ForwardInv'
  <2>1. JobStep(j) /\ UNCHANGED <<blockNumber, entity>> /\ Loaded(j)
    BY <1>2 DEF JobStep, KeepSource, NextTask, tables, Loaded, Running
  <2>2. job'[j].clear = job[j].clear /\ ~InDayLoop(j)'
    <3>1. CASE KeepSource(j)
      BY <3>1, <1>a DEF KeepSource, NextRewind, Move, TypeOK, JobState, InDayLoop
    <3>2. CASE NextTask(j)
      BY <3>2, <1>a DEF NextTask, Move, TypeOK, JobState, InDayLoop
    <3> QED BY <1>2, <3>1, <3>2
  <2> QED BY <2>1, <2>2, <1>d DEF LoopIsAhead
<1>3. ASSUME NEW j \in Jobs, Rewind(j) PROVE ForwardInv'
  <2>1. PICK s \in Sources : s = job[j].src
    BY <1>3 DEF Rewind
  <2>2. PICK b, purge :
           /\ b \in RequestedBlocks(s, job[j].date)
           /\ entity' = [entity EXCEPT ![j][s] = Assigned(@, b)]
           /\ blockNumber' = [blockNumber EXCEPT ![s] = Assigned(entity[j][s], b)] \/ UNCHANGED blockNumber
           /\ NextRewind(j, purge)
    BY <1>3, <2>1 DEF Rewind
  <2>3. JobStep(j) /\ job[j].pc = "rewind" /\ Loaded(j) /\ job[j].clear
    BY <1>3 DEF JobStep, Rewind, Loaded, Running, LedgerInv, JobInv, PurgeClaimsNothing
  <2>4. b \in Nat /\ 0 < b
    <3>1. CreationBlock[s] \in Nat /\ CreationBlock[s] > EarlySlip /\ EarlySlip \in Nat
      BY SourceAssumption, GridAssumption DEF Block
    <3>2. job[j].date \in Int
      BY <1>a DEF JobState, NoDate
    <3> QED BY <2>2, <3>1, <3>2, <1>a DEF RequestedBlocks, FoundBlocks, ExactBlock, TypeOK
  <2>5. job'[j].pc = "rewind" /\ job'[j].clear
    BY <2>2, <2>3, <1>a DEF NextRewind, Move, TypeOK, JobState
  <2>6. \A x \in Sources : /\ entity'[j][x] = b \/ entity'[j][x] = entity[j][x]
                           /\ blockNumber'[x] = b \/ blockNumber'[x] = blockNumber[x]
    BY <2>2, <2>4, <1>a DEF Assigned, TypeOK
  <2> QED BY <2>3, <2>4, <2>5, <2>6, <1>c DEF ForwardInv, LoopIsAhead, InDayLoop
<1>4. ASSUME NEW j \in Jobs, Purge(j) PROVE ForwardInv'
  <2>1. JobStep(j) /\ UNCHANGED blockNumber /\ Loaded(j)
    BY <1>4 DEF JobStep, Purge, Loaded, Running
  <2>2. CASE Release(j)
    BY <2>1, <2>2, <1>e
  <2>3. CASE ~Release(j)
    <3>1. Move(j, [job[j] EXCEPT !.pc = "task", !.src = 1, !.purge = {}]) /\ UNCHANGED entity
      BY <1>4, <2>3 DEF Purge
    <3>2. job'[j].clear = job[j].clear /\ job'[j].pc = "task"
      BY <3>1, <1>a DEF Move, TypeOK, JobState
    <3> QED BY <2>1, <3>1, <3>2, <1>d DEF LoopIsAhead, InDayLoop
  <2> QED BY <2>2, <2>3
<1>5. ASSUME NEW j \in Jobs, RunStats(j) \/ SourceFails(j) \/ Finish(j) PROVE ForwardInv'
  <2>1. JobStep(j) /\ UNCHANGED blockNumber /\ Loaded(j)
    BY <1>5 DEF JobStep, RunStats, SourceFails, Finish, tables, AtTask, Loaded, Running
  <2>2. (Move(j, AfterSource(job[j])) /\ UNCHANGED entity) \/ Release(j)
    BY <1>5 DEF RunStats, SourceFails, Finish
  <2> QED BY <2>1, <2>2, <1>d, <1>e, <1>f
<1>6. ASSUME NEW j \in Jobs, BeginSource(j) PROVE ForwardInv'
  <2>1. PICK s \in Sources : s = job[j].src
    BY <1>6 DEF BeginSource, AtTask
  <2>2. PICK start, target, today :
           /\ start = entity[j][s]
           /\ Move(j, [job[j] EXCEPT !.pc = "day", !.last = start, !.target = target, !.today = today])
    BY <1>6, <2>1 DEF BeginSource
  <2>3. JobStep(j) /\ UNCHANGED <<blockNumber, entity>> /\ Loaded(j)
    BY <1>6 DEF JobStep, BeginSource, AtTask, tables, Loaded, Running
  <2>4. job'[j].clear = job[j].clear /\ job'[j].pc = "day" /\ job'[j].src = s /\ job'[j].last = start
    BY <2>1, <2>2, <1>a DEF Move, TypeOK, JobState
  <2>5. LoopIsAhead(j)'
    BY <2>2, <2>3, <2>4 DEF ForwardInv, LoopIsAhead
  <2> QED BY <2>3, <2>4, <2>5, <1>d
<1>7. ASSUME NEW j \in Jobs, UpToDate(j) PROVE ForwardInv'
  <2>1. PICK s \in Sources : s = job[j].src
    BY <1>7 DEF UpToDate, AtTask
  <2>2. /\ JobStep(j) /\ UNCHANGED entity /\ Loaded(j)
        /\ Move(j, AfterSource(job[j]))
        /\ blockNumber' = [blockNumber EXCEPT ![s] = entity[j][s]]
    BY <1>7, <2>1 DEF JobStep, UpToDate, AtTask, Loaded, Running
  <2>3. \A x \in Sources : blockNumber'[x] = IF x = s THEN entity[j][s] ELSE blockNumber[x]
    BY <2>2, <1>a DEF TypeOK
  <2>4. /\ \A x \in Sources : 0 < blockNumber'[x]
        /\ ~job[j].clear => \A x \in Sources : blockNumber'[x] <= entity'[j][x]
    BY <2>2, <2>3, <1>a DEF ForwardInv
  <2> QED BY <2>2, <2>4, <1>c, <1>f DEF ForwardInv
<1>8. ASSUME NEW j \in Jobs, SaveRow(j) PROVE ForwardInv'
  <2>1. PICK b : b \in DayBlocks(j) /\ Move(j, [job[j] EXCEPT !.pc = "commit", !.found = b])
    BY <1>8 DEF SaveRow
  <2>2. JobStep(j) /\ UNCHANGED <<blockNumber, entity>> /\ Loaded(j) /\ job[j].pc = "day"
    BY <1>8 DEF JobStep, SaveRow, AtDay, Loaded, Running
  <2>3. job[j].last <= b
    BY <2>1, <1>a DEF DayBlocks, FoundBlocks, TypeOK
  <2>4. /\ job'[j].clear = job[j].clear /\ job'[j].src = job[j].src /\ job'[j].last = job[j].last
        /\ job'[j].pc = "commit" /\ job'[j].found = b
    BY <2>1, <1>a DEF Move, TypeOK, JobState
  <2>5. LoopIsAhead(j)'
    <3>1. LoopIsAhead(j)
      BY <2>2 DEF ForwardInv
    <3> QED BY <2>2, <2>3, <2>4, <3>1 DEF LoopIsAhead, InDayLoop
  <2> QED BY <2>2, <2>4, <2>5, <1>d
<1>9. ASSUME NEW j \in Jobs, Commit(j) \/ CommitFails(j) PROVE ForwardInv'
  <2>1. PICK s \in Sources : s = job[j].src /\ job[j].pc = "commit"
    BY <1>9, <1>a DEF Commit, CommitFails, InDayLoop
  <2>2. JobStep(j) /\ Loaded(j) /\ InDayLoop(j)
    BY <1>9 DEF JobStep, Commit, CommitFails, Loaded, Running, InDayLoop
  <2>3. PICK f \in Nat : f = job[j].found
    BY <1>a
  <2>4. /\ 0 < job[j].last /\ job[j].last <= f /\ 0 < f
        /\ ~job[j].clear => blockNumber[s] <= f
    <3>1. LoopIsAhead(j)
      BY <2>2 DEF ForwardInv
    <3> QED BY <3>1, <2>1, <2>2, <2>3, <1>a DEF LoopIsAhead
  <2>5. /\ entity' = [entity EXCEPT ![j][s] = f]
        /\ blockNumber' = [blockNumber EXCEPT ![s] = f] \/ UNCHANGED blockNumber
    BY <1>9, <2>1, <2>3, <2>4 DEF Commit, CommitFails, Assigned, tables
  <2>6. \A x \in Sources : /\ entity'[j][x] = IF x = s THEN f ELSE entity[j][x]
                           /\ blockNumber'[x] = blockNumber[x] \/ (x = s /\ blockNumber'[x] = f)
    BY <2>5, <1>a DEF TypeOK
  <2>7. PICK last \in Block : Move(j, AfterDay(job[j], last)) /\ 0 < last
                              /\ (~job[j].clear => blockNumber'[s] <= last)
    <3>1. CASE Commit(j)
      <4>1. Move(j, AfterDay(job[j], f)) /\ blockNumber'[s] = f
        BY <3>1, <2>1, <2>3, <2>4, <1>a DEF Commit, Assigned, TypeOK
      <4> QED BY <4>1, <2>3, <2>4 DEF Block
    <3>2. CASE CommitFails(j)
      <4>1. Move(j, AfterDay(job[j], SkipADay(job[j].last))) /\ UNCHANGED blockNumber
        BY <3>2 DEF CommitFails, tables
      <4>2. SkipADay(job[j].last) \in Nat /\ job[j].last <= SkipADay(job[j].last)
        BY <1>a, GridAssumption DEF SkipADay
      <4>3. ~job[j].clear => blockNumber[s] <= job[j].last
        BY <2>1, <2>2 DEF ForwardInv, LoopIsAhead
      <4>4. 0 < SkipADay(job[j].last) /\ (~job[j].clear => blockNumber[s] <= SkipADay(job[j].last))
        BY <4>2, <4>3, <2>4, <1>a
      <4> QED BY <4>1, <4>2, <4>4 DEF Block
    <3> QED BY <1>9, <3>1, <3>2
  <2>8. LoopIsAhead(j)' /\ job'[j].clear = job[j].clear
    BY <2>1, <2>2, <2>7, <1>g
  <2>9. \A x \in Sources : 0 < blockNumber'[x] /\ 0 < entity'[j][x]
                           /\ (~job[j].clear => blockNumber'[x] <= entity'[j][x])
    BY <2>2, <2>4, <2>6, <1>a DEF ForwardInv
  <2> QED BY <2>2, <2>8, <2>9, <1>c
<1>10. ASSUME NEW j \in Jobs, ReadReverts(j) \/ ValueInvalid(j) \/ PriceFails(j) \/ DayFails(j) PROVE ForwardInv'
  <2>1. JobStep(j) /\ UNCHANGED <<blockNumber, entity>> /\ Loaded(j) /\ InDayLoop(j)
    BY <1>10 DEF JobStep, ReadReverts, ValueInvalid, PriceFails, DayFails, tables, AtDay, Loaded, Running, InDayLoop
  <2>2. /\ 0 < job[j].last
        /\ ~job[j].clear => blockNumber[job[j].src] <= job[j].last
    BY <2>1 DEF ForwardInv, LoopIsAhead
  <2>3. \A b \in DayBlocks(j) : b \in Nat /\ SkipADay(b) \in Nat /\ job[j].last <= b /\ b <= SkipADay(b)
    BY <1>a, GridAssumption DEF DayBlocks, FoundBlocks, SkipADay, TypeOK
  <2>4. SkipADay(job[j].last) \in Nat /\ job[j].last <= SkipADay(job[j].last)
    BY <1>a, GridAssumption DEF SkipADay
  <2>5. \/ Move(j, AfterSource(job[j]))
        \/ \E last \in Block : Move(j, AfterDay(job[j], last)) /\ job[j].last <= last
    <3>1. CASE ReadReverts(j) \/ ValueInvalid(j)
      <4>1. PICK b \in DayBlocks(j) : Move(j, AfterDay(job[j], b)) \/ Move(j, AfterDay(job[j], SkipADay(b)))
        BY <3>1 DEF ReadReverts, ValueInvalid
      <4>2. b \in Nat /\ SkipADay(b) \in Nat /\ job[j].last <= b /\ job[j].last <= SkipADay(b)
        BY <2>3, <1>a
      <4> QED BY <4>1, <4>2 DEF Block
    <3>2. CASE PriceFails(j) \/ DayFails(j)
      <4>1. Move(j, AfterSource(job[j])) \/ Move(j, AfterDay(job[j], SkipADay(job[j].last)))
        BY <3>2 DEF PriceFails, DayFails
      <4> QED BY <4>1, <2>4 DEF Block
    <3> QED BY <1>10, <3>1, <3>2
  <2>6. CASE Move(j, AfterSource(job[j]))
    BY <2>1, <2>6, <1>d, <1>f
  <2>7. ASSUME NEW last \in Block, Move(j, AfterDay(job[j], last)), job[j].last <= last PROVE ForwardInv'
    <3>1. 0 < last /\ (~job[j].clear => blockNumber'[job[j].src] <= last)
      BY <2>1, <2>2, <2>7, <1>a DEF Block
    <3> QED BY <2>1, <2>7, <3>1, <1>d, <1>g
  <2> QED BY <2>5, <2>6, <2>7
<1>11. ASSUME NEW j \in Jobs, StartCollection(j) \/ StartClearing(j) PROVE ForwardInv'
  <2>1. UNCHANGED <<blockNumber, entity>>
    BY <1>11 DEF StartCollection, StartClearing, ExecuteWithLock, tables
  <2>2. PICK clear, date : Move(j, [IdleJob EXCEPT !.pc = "list", !.clear = clear, !.date = date])
    BY <1>11 DEF StartCollection, StartClearing, ExecuteWithLock
  <2>3. [IdleJob EXCEPT !.pc = "list", !.clear = clear, !.date = date].pc = "list"
    BY DEF IdleJob
  <2>4. \A k \in Jobs : Loaded(k)' => job'[k] = job[k]
    BY <2>2, <2>3, <1>a DEF Move, TypeOK, Loaded
  <2> QED BY <2>1, <2>4 DEF ForwardInv, Loaded, Running, LoopIsAhead, InDayLoop
<1>12. ASSUME NEW h \in Hosts, Crash(h) PROVE ForwardInv'
  <2>1. UNCHANGED blockNumber
    BY <1>12 DEF Crash, tables
  <2>2. \A k \in Jobs : Loaded(k)' => job'[k] = job[k] /\ entity'[k] = entity[k]
    BY <1>12, <1>a DEF Crash, TypeOK, IdleJob, Loaded, Running
  <2> QED BY <2>1, <2>2 DEF ForwardInv, Loaded, Running, LoopIsAhead, InDayLoop
<1>13. CASE Tick \/ UNCHANGED vars
  BY <1>13 DEF Tick, vars, tables, ForwardInv, Loaded, Running, LoopIsAhead, InDayLoop
<1> QED
  BY <1>1, <1>2, <1>3, <1>4, <1>5, <1>6, <1>7, <1>8, <1>9, <1>10, <1>11, <1>12, <1>13 DEF Next, JobStep

(* CheckpointMovesBackToClear: on one host only a clearing collection      *)
(* moves a checkpoint back, whatever writes fail and wherever a crash      *)
(* strikes.  Two hosts do break it: a job may write back a value that a    *)
(* job of another process has passed.                                      *)
THEOREM CheckpointsGoForward ==
    ASSUME OneHost, FallbackKeepsPace
    PROVE  Spec => CheckpointMovesBackToClear
<1> DEFINE Inv == TypeInv /\ OneJobPerHost /\ LedgerInv /\ ForwardInv
<1>1. Init => Inv
  BY TypeInvInit, OneJobPerHostInit, LedgerInvInit, ForwardInit
<1>2. Inv /\ [Next]_vars => Inv'
  BY TypeInvStep, OneJobPerHostStep, LedgerInvStep, ForwardStep DEF ClearingIsAlone, OneHost
<1>3. Inv /\ Inv' /\ [Next]_vars =>
         ((\E s \in Sources : blockNumber'[s] < blockNumber[s]) => \E j \in Jobs : job[j].clear)
  <2> SUFFICES ASSUME Inv, Inv', [Next]_vars, NEW s \in Sources, blockNumber'[s] < blockNumber[s],
                      \A j \in Jobs : ~job[j].clear
               PROVE  FALSE
    OBVIOUS
  <2>1. blockNumber[s] \in Nat /\ blockNumber'[s] \in Nat /\ blockNumber'[s] # blockNumber[s]
    BY DEF TypeInv, TypeOK, Block
  <2>2. PICK j \in Jobs : JobStep(j) /\ blockNumber'[s] # blockNumber[s]
    BY <2>1 DEF Next, vars, tables, Tick, Crash, StartCollection, StartClearing, ExecuteWithLock
  <2>3. Rewind(j) \/ UpToDate(j) \/ Commit(j)
    BY <2>2 DEF JobStep, ListSources, KeepSource, Purge, NextTask, RunStats, BeginSource, SourceFails, SaveRow,
                CommitFails, ReadReverts, ValueInvalid, PriceFails, DayFails, Finish, tables
  <2>4. ~Rewind(j)
    BY DEF Rewind, LedgerInv, JobInv, PurgeClaimsNothing
  <2>5. job[j].pc # "list" /\ Running(j) /\ job'[j].pc # "list" /\ Running(j)' /\ ~job'[j].clear
    <3>1. job[j] \in JobState /\ job[j].found \in Block /\ job[j].pc \in {"task", "commit"}
      BY <2>3, <2>4, JobNumbers DEF TypeInv, TypeOK, UpToDate, AtTask, Commit
    <3>2. job'[j] = AfterSource(job[j]) \/ job'[j] = AfterDay(job[j], job[j].found)
      BY <2>3, <2>4 DEF UpToDate, Commit, Move, TypeInv, TypeOK
    <3>3. job'[j].pc \in {"task", "day"} /\ job'[j].clear = job[j].clear
      BY <3>1, <3>2, AfterSourceFields, AfterDayFields
    <3> QED BY <3>1, <3>3 DEF Running
  <2>6. blockNumber[s] <= entity[j][s]
    BY <2>5 DEF ForwardInv, Loaded
  <2>7. entity[j][s] \in Nat /\ job[j].found \in Nat
    BY JobNumbers DEF TypeInv, TypeOK, Block
  <2>8. CASE UpToDate(j)
    BY <2>8, <2>1, <2>6, <2>7 DEF UpToDate, TypeInv, TypeOK
  <2>9. CASE Commit(j)
    <3>1. s = job[j].src /\ blockNumber'[s] = Assigned(entity[j][s], job[j].found)
      BY <2>9, <2>1 DEF Commit, TypeInv, TypeOK
    <3>2. LoopIsAhead(j)
      BY <2>5 DEF ForwardInv, Loaded
    <3>3. blockNumber[s] <= job[j].last /\ job[j].last <= job[j].found /\ job[j].last \in Nat
      BY <2>9, <3>1, <3>2, JobNumbers DEF Commit, LoopIsAhead, InDayLoop, TypeInv, TypeOK, Block
    <3> QED BY <2>1, <2>6, <2>7, <3>1, <3>3 DEF Assigned
  <2> QED BY <2>3, <2>4, <2>8, <2>9
<1> QED BY <1>1, <1>2, <1>3, PTL DEF Spec, CheckpointMovesBackToClear

-----------------------------------------------------------------------------
(***************************************************************************)
(* Why a day is stored twice.  On one host, a row is dated no later than   *)
(* the checkpoint of its source, unless the checkpoint is being written,   *)
(* the rows are being deleted, or the day is one RepeatsHaveACause lets    *)
(* repeat; and what a job remembers is not behind the table in this.       *)
(***************************************************************************)
Excused(s) == uncommitted[s] \cup {r.date : r \in {x \in reserves[s] : x.block < x.date}}

(* The rows a checkpoint does not cover yet: that of the day in progress,  *)
(* and those of the sources whose DELETE is to come.                       *)
Open(j, s, d) ==
    \/ job[j].pc = "commit" /\ job[j].src = s /\ job[j].target = d
    \/ job[j].pc = "rewind" /\ s \in job[j].purge

RowsAreBehind ==
    \A s \in Sources : \A r \in reserves[s] :
        r.date \in Excused(s) \/ r.date <= blockNumber[s] \/ \E j \in Jobs : Open(j, s, r.date)

MemoryIsBehind(j) ==
    Loaded(j) => \A s \in Sources : \A r \in reserves[s] :
        r.date \in Excused(s) \/ r.date <= entity[j][s] \/ Open(j, s, r.date)

PastRow(j, s, d) ==
    \/ d \in Excused(s)
    \/ d + Day <= job[j].target
    \/ job[j].pc = "commit" /\ d = job[j].target

(* The day in progress has no row before its own.                          *)
LoopIsPastRows(j) ==
    InDayLoop(j) =>
        /\ IsMidnight(job[j].target) /\ Day <= job[j].target
        /\ \A s \in Sources : s = job[j].src =>
              /\ \A r \in reserves[s] : PastRow(j, s, r.date)
              /\ job[j].pc = "commit" =>
                    /\ job[j].target - EarlySlip <= job[j].found
                    /\ job[j].target <= job[j].found \/ job[j].target \in Excused(s)

OnceInv ==
    /\ RepeatsHaveACause
    /\ \A s \in Sources : \A r \in reserves[s] : IsMidnight(r.date)
    /\ RowsAreBehind
    /\ \A j \in Jobs : MemoryIsBehind(j) /\ LoopIsPastRows(j)

LEMMA OnceInit == Init => OnceInv
BY DEF Init, OnceInv, RepeatsHaveACause, RowsAreBehind, MemoryIsBehind, Loaded, Running, IdleJob,
       LoopIsPastRows, InDayLoop

LEMMA MidnightsApart ==
    ASSUME NEW m \in Nat, NEW d \in Nat, IsMidnight(m), IsMidnight(d), m < d
    PROVE  m + Day <= d
<1>1. m + Day \in Nat /\ \A e \in m + 1 .. m + Day : IsMidnight(e) => e = m + Day
  BY NextMidnight
<1>2. CASE d <= m + Day
  <2>1. d \in m + 1 .. m + Day
    BY <1>1, <1>2
  <2> QED BY <2>1, <1>1, <1>2
<1>3. CASE ~(d <= m + Day)
  BY <1>1, <1>3
<1> QED BY <1>2, <1>3

(* A day that may repeat stays one while the rows stay.                    *)
LEMMA ExcusedStay ==
    ASSUME NEW s \in Sources, uncommitted[s] \subseteq uncommitted'[s], reserves[s] \subseteq reserves'[s]
    PROVE  Excused(s) \subseteq Excused(s)'
BY DEF Excused

LEMMA RepeatsAreExcused == RepeatsHaveACause <=> \A s \in Sources : repeated[s] \subseteq Excused(s)
BY DEF RepeatsHaveACause, Excused

LEMMA OnceStep ==
    ASSUME OneHost
    PROVE  TypeInv /\ OneJobPerHost /\ OnceInv /\ [Next]_vars => OnceInv'
<1> SUFFICES ASSUME TypeInv, OneJobPerHost, OnceInv, [Next]_vars PROVE OnceInv'
  OBVIOUS
<1>a. /\ TypeOK /\ TypeOK' /\ TypeInv'
      /\ \A j \in Jobs : job[j] \in JobState
      /\ \A s \in Sources : blockNumber[s] \in Nat
      /\ \A j \in Jobs : \A s \in Sources : entity[j][s] \in Nat
      /\ \A s \in Sources : \A r \in reserves[s] : r.date \in Nat
      /\ \A j \in Jobs : /\ job[j].found \in Nat /\ job[j].last \in Nat /\ job[j].target \in Nat
                         /\ (InDayLoop(j) => job[j].src \in Sources)
      /\ EarlySlip \in Nat /\ Day \in Nat /\ EarlySlip < Day
  BY TypeInvStep, JobNumbers, GridAssumption DEF TypeInv, TypeOK, Block, Placed, Row
<1>b. /\ \A s \in Sources : repeated[s] \subseteq Excused(s)
      /\ \A s \in Sources : \A r \in reserves[s] : IsMidnight(r.date)
      /\ \A j \in Jobs : MemoryIsBehind(j) /\ LoopIsPastRows(j)
  BY RepeatsAreExcused DEF OnceInv
<1>c. ASSUME NEW j \in Jobs, JobStep(j), NEW k \in Jobs, k # j
      PROVE  ~Running(k) /\ ~Running(k)' /\ ~InDayLoop(k)'
  <2>1. Running(j) /\ job'[k] = job[k]
    BY <1>c, <1>a, JobStepShape
  <2> QED BY <2>1, <1>c, RunsAlone DEF Running, InDayLoop
(* What is left to show of a step of job j.                                *)
<1>d. ASSUME NEW j \in Jobs, JobStep(j),
             \A s \in Sources : repeated'[s] \subseteq Excused(s)',
             \A s \in Sources : \A r \in reserves'[s] : IsMidnight(r.date),
             \A s \in Sources : \A r \in reserves'[s] :
                 r.date \in Excused(s)' \/ r.date <= blockNumber'[s] \/ Open(j, s, r.date)',
             MemoryIsBehind(j)', LoopIsPastRows(j)'
      PROVE  OnceInv'
  <2>1. RepeatsHaveACause'
    BY <1>d DEF RepeatsHaveACause, Excused
  <2>2. RowsAreBehind'
    BY <1>d DEF RowsAreBehind
  <2>3. \A k \in Jobs : MemoryIsBehind(k)' /\ LoopIsPastRows(k)'
    BY <1>c, <1>d DEF MemoryIsBehind, LoopIsPastRows, Loaded
  <2> QED BY <2>1, <2>2, <2>3, <1>d DEF OnceInv
<1>e. ASSUME NEW j \in Jobs, JobStep(j), NEW s \in Sources, NEW r \in reserves[s]
      PROVE  r.date \in Excused(s) \/ r.date <= blockNumber[s] \/ Open(j, s, r.date)
  BY <1>c, <1>e DEF OnceInv, RowsAreBehind, Open, Running
(* A step that leaves the rows alone.                                      *)
<1>f. ASSUME UNCHANGED <<reserves, repeated>>, \A s \in Sources : uncommitted[s] \subseteq uncommitted'[s]
      PROVE  /\ \A s \in Sources : Excused(s) \subseteq Excused(s)'
             /\ \A s \in Sources : repeated'[s] \subseteq Excused(s)'
             /\ \A s \in Sources : \A r \in reserves'[s] : IsMidnight(r.date)
  <2>1. \A s \in Sources : Excused(s) \subseteq Excused(s)'
    BY <1>f, ExcusedStay
  <2> QED BY <2>1, <1>b, <1>f
(* A step that leaves the tables alone, with nothing open before.          *)
<1>g. ASSUME NEW j \in Jobs, JobStep(j), UNCHANGED <<blockNumber, reserves, repeated, uncommitted>>,
             job[j].pc \notin {"commit", "rewind"},
             (Loaded(j) /\ entity'[j] = entity[j]) \/ ~Loaded(j)', LoopIsPastRows(j)'
      PROVE  OnceInv'
  <2>1. /\ \A s \in Sources : Excused(s) \subseteq Excused(s)'
        /\ \A s \in Sources : repeated'[s] \subseteq Excused(s)'
        /\ \A s \in Sources : \A r \in reserves'[s] : IsMidnight(r.date)
    BY <1>f, <1>g
  <2>2. \A s \in Sources : \A r \in reserves'[s] : r.date \in Excused(s)' \/ r.date <= blockNumber'[s]
    BY <2>1, <1>e, <1>g DEF Open
  <2>3. ASSUME Loaded(j)', NEW s \in Sources, NEW r \in reserves'[s]
        PROVE  r.date \in Excused(s)' \/ r.date <= entity'[j][s]
    <3>1. MemoryIsBehind(j) /\ Loaded(j) /\ ~Open(j, s, r.date) /\ r \in reserves[s]
      BY <2>3, <1>b, <1>g DEF Open
    <3>2. r.date \in Excused(s) \/ r.date <= entity[j][s]
      BY <3>1 DEF MemoryIsBehind
    <3> QED BY <3>2, <2>1, <2>3, <1>g
  <2>4. MemoryIsBehind(j)'
    BY <2>3 DEF MemoryIsBehind
  <2> QED BY <2>1, <2>2, <2>4, <1>d, <1>g
<1>h. ASSUME NEW j \in Jobs, Move(j, AfterSource(job[j]))
      PROVE  LoopIsPastRows(j)' /\ job'[j].pc = "task"
  <2>1. job'[j] = AfterSource(job[j]) /\ job[j] \in JobState
    BY <1>a, <1>h DEF Move, TypeOK
  <2> QED BY <2>1, AfterSourceFields DEF LoopIsPastRows, InDayLoop
<1>i. ASSUME NEW j \in Jobs, NEW last \in Block, InDayLoop(j), Move(j, AfterDay(job[j], last)),
             UNCHANGED reserves, \A s \in Sources : Excused(s) \subseteq Excused(s)'
      PROVE  LoopIsPastRows(j)' /\ job'[j].pc \in {"task", "day"}
  <2>1. job'[j] = AfterDay(job[j], last) /\ job[j] \in JobState
    BY <1>a, <1>i DEF Move, TypeOK
  <2>2. PICK t \in Nat : t = job[j].target
    BY <1>a
  <2>3. \/ job'[j].pc = "task"
        \/ job'[j].pc = "day" /\ job'[j].src = job[j].src /\ job'[j].target = t + Day
    BY <2>1, <2>2, <1>a, AfterDayFields
  <2>4. IsMidnight(t) /\ LoopIsPastRows(j)
    BY <2>2, <1>b, <1>i DEF LoopIsPastRows
  <2>5. IsMidnight(t + Day) /\ Day <= t + Day
    BY <2>4, <1>a, NextMidnight
  <2>6. ASSUME NEW s \in Sources, s = job[j].src, NEW r \in reserves'[s], job'[j].target = t + Day
        PROVE  PastRow(j, s, r.date)'
    <3>1. PastRow(j, s, r.date) /\ r.date \in Nat
      BY <2>4, <2>6, <1>a, <1>i DEF LoopIsPastRows
    <3>2. r.date \in Excused(s)' \/ r.date + Day <= t \/ r.date = t
      BY <3>1, <2>2, <1>i DEF PastRow
    <3>3. r.date \in Excused(s)' \/ r.date + Day <= t + Day
      BY <3>1, <3>2, <1>a
    <3> QED BY <3>3, <2>6 DEF PastRow
  <2>7. CASE job'[j].pc = "day" /\ job'[j].src = job[j].src /\ job'[j].target = t + Day
    BY <2>5, <2>6, <2>7 DEF LoopIsPastRows
  <2> QED BY <2>3, <2>7 DEF LoopIsPastRows, InDayLoop
<1>1. ASSUME NEW j \in Jobs, ListSources(j) PROVE OnceInv'
  <2>1. JobStep(j) /\ UNCHANGED <<blockNumber, reserves, repeated, uncommitted>> /\ job[j].pc = "list"
    BY <1>1 DEF JobStep, ListSources, tables, history
  <2>2. CASE Release(j)
    <3>1. ~Loaded(j)' /\ LoopIsPastRows(j)'
      BY <1>a, <2>2, ReleaseFields DEF Loaded, Running, IdleJob, LoopIsPastRows, InDayLoop
    <3> QED BY <2>1, <3>1, <1>g
  <2>3. CASE entity' = [entity EXCEPT ![j] = blockNumber]
             /\ Move(j, [job[j] EXCEPT !.pc = IF job[j].clear THEN "rewind" ELSE "task"])
    <3>1. entity'[j] = blockNumber /\ job'[j].pc \in {"rewind", "task"}
      BY <2>3, <1>a DEF Move, TypeOK, JobState
    <3>2. \A s \in Sources : Excused(s) \subseteq Excused(s)'
      BY <2>1, <1>f
    <3>3. \A s \in Sources : \A r \in reserves'[s] : r.date \in Excused(s)' \/ r.date <= blockNumber[s]
      BY <2>1, <3>2, <1>e DEF Open
    <3>4. MemoryIsBehind(j)'
      BY <3>1, <3>3 DEF MemoryIsBehind
    <3>5. LoopIsPastRows(j)'
      BY <3>1 DEF LoopIsPastRows, InDayLoop
    <3> QED BY <2>1, <3>3, <3>4, <3>5, <1>d, <1>f
  <2> QED BY <1>1, <2>2, <2>3 DEF ListSources
<1>2. ASSUME NEW j \in Jobs, NextTask(j) PROVE OnceInv'
  <2>1. JobStep(j) /\ UNCHANGED <<tables, entity, history>> /\ job[j].pc = "task" /\ Loaded(j)
    BY <1>2 DEF JobStep, NextTask, Loaded, Running
  <2>2. job'[j].pc = "task"
    BY <1>2, <1>a DEF NextTask, Move, TypeOK, JobState
  <2>3. LoopIsPastRows(j)'
    BY <2>2 DEF LoopIsPastRows, InDayLoop
  <2> QED BY <2>1, <2>3, <1>g DEF tables, history
(* A rewind: the rows of the moved source wait for the DELETE, or repeat.  *)
<1>3. ASSUME NEW j \in Jobs, Rewind(j) \/ KeepSource(j) PROVE OnceInv'
  <2>1. PICK s \in Sources : s = job[j].src
    BY <1>3 DEF Rewind, KeepSource
  <2>2. /\ JobStep(j) /\ UNCHANGED <<reserves, repeated>> /\ job[j].pc = "rewind" /\ Loaded(j)
        /\ MemoryIsBehind(j)
    BY <1>3, <1>b DEF JobStep, Rewind, KeepSource, Loaded, Running, tables
  <2>3. PICK purge : /\ NextRewind(j, purge) /\ job[j].purge \subseteq purge
                     /\ \A x \in Sources : uncommitted[x] \subseteq uncommitted'[x]
                     /\ \A x \in Sources : x # s => /\ blockNumber'[x] = blockNumber[x]
                                                    /\ entity'[j][x] = entity[j][x]
                     /\ \/ s \in purge
                        \/ blockNumber'[s] = blockNumber[s] /\ entity'[j][s] = entity[j][s]
                        \/ /\ blockNumber'[s] = blockNumber[s]
                           /\ \A r \in reserves[s] : r.date \in uncommitted'[s] \/ r.date <= entity'[j][s]
    <3>1. CASE KeepSource(j)
      BY <3>1, <2>2 DEF KeepSource, tables, history
    <3>2. CASE Rewind(j)
      <4>1. PICK b \in RequestedBlocks(s, job[j].date) :
              /\ entity' = [entity EXCEPT ![j][s] = Assigned(@, b)]
              /\ \/ /\ blockNumber' = [blockNumber EXCEPT ![s] = Assigned(entity[j][s], b)]
                    /\ NextRewind(j, job[j].purge \cup {s})
                    /\ UNCHANGED uncommitted
                 \/ /\ uncommitted' = [uncommitted EXCEPT ![s] = @ \cup RowsBeyond(s, b)]
                    /\ UNCHANGED blockNumber
                    /\ NextRewind(j, job[j].purge)
        BY <3>2, <2>1 DEF Rewind
      <4>2. b \in Nat
        BY <1>a, SourceAssumption DEF RequestedBlocks, FoundBlocks, Block, TypeOK
      <4>3. entity'[j][s] = Assigned(entity[j][s], b) /\ \A x \in Sources : x # s => entity'[j][x] = entity[j][x]
        BY <4>1, <1>a DEF TypeOK
      <4>4. \A r \in reserves[s] : r.date \in RowsBeyond(s, b) \/ r.date <= entity'[j][s]
        <5>1. ASSUME NEW r \in reserves[s], ~(r.date > b) PROVE r.date <= entity'[j][s]
          <6>1. r.date \in Nat /\ r.date <= b /\ entity[j][s] \in Nat
            BY <5>1, <4>2, <1>a
          <6>2. CASE b = 0
            BY <6>1, <6>2, <4>3 DEF Assigned
          <6>3. CASE b # 0
            BY <6>1, <6>3, <4>3 DEF Assigned
          <6> QED BY <6>2, <6>3
        <5> QED BY <5>1 DEF RowsBeyond
      <4>5. CASE /\ blockNumber' = [blockNumber EXCEPT ![s] = Assigned(entity[j][s], b)]
                 /\ NextRewind(j, job[j].purge \cup {s})
                 /\ UNCHANGED uncommitted
        <5>1. \A x \in Sources : x # s => blockNumber'[x] = blockNumber[x]
          BY <4>5, <1>a DEF TypeOK
        <5>2. s \in job[j].purge \cup {s} /\ job[j].purge \subseteq job[j].purge \cup {s}
          OBVIOUS
        <5>3. \A x \in Sources : uncommitted[x] \subseteq uncommitted'[x]
          BY <4>5
        <5> QED BY <5>1, <5>2, <5>3, <4>5, <4>3
      <4>6. CASE /\ uncommitted' = [uncommitted EXCEPT ![s] = @ \cup RowsBeyond(s, b)]
                 /\ UNCHANGED blockNumber
                 /\ NextRewind(j, job[j].purge)
        <5>1. /\ uncommitted'[s] = uncommitted[s] \cup RowsBeyond(s, b)
              /\ \A x \in Sources : x # s => uncommitted'[x] = uncommitted[x]
          BY <4>6, <1>a DEF TypeOK
        <5> QED BY <5>1, <4>6, <4>3, <4>4
      <4> QED BY <4>1, <4>5, <4>6
    <3> QED BY <1>3, <3>1, <3>2
  <2>4. job'[j].pc = "rewind" /\ job'[j].purge = purge
    BY <2>2, <2>3, <1>a DEF NextRewind, Move, TypeOK, JobState
  <2>5. \A x \in Sources : Excused(x) \subseteq Excused(x)' /\ uncommitted'[x] \subseteq Excused(x)'
    BY <2>2, <2>3, <1>f DEF Excused
  <2>6. \A x \in Sources, d \in Nat : Open(j, x, d) => Open(j, x, d)'
    BY <2>2, <2>3, <2>4 DEF Open
  <2>7. s \in purge => \A d \in Nat : Open(j, s, d)'
    BY <2>4 DEF Open
  <2>8. ASSUME NEW x \in Sources, NEW r \in reserves'[x]
        PROVE  /\ r.date \in Excused(x)' \/ r.date <= blockNumber'[x] \/ Open(j, x, r.date)'
               /\ r.date \in Excused(x)' \/ r.date <= entity'[j][x] \/ Open(j, x, r.date)'
    <3>1. r \in reserves[x] /\ r.date \in Nat
      BY <2>8, <2>2, <1>a
    <3>2. r.date \in Excused(x)' \/ r.date <= blockNumber[x] \/ Open(j, x, r.date)'
      BY <3>1, <2>2, <2>5, <2>6, <1>e
    <3>3. r.date \in Excused(x)' \/ r.date <= entity[j][x] \/ Open(j, x, r.date)'
      BY <3>1, <2>2, <2>5, <2>6 DEF MemoryIsBehind
    <3>4. CASE x # s
      BY <3>2, <3>3, <3>4, <2>3
    <3>5. CASE x = s
      BY <3>1, <3>2, <3>3, <3>5, <2>3, <2>5, <2>7
    <3> QED BY <3>4, <3>5
  <2>9. MemoryIsBehind(j)' /\ LoopIsPastRows(j)'
    BY <2>4, <2>8 DEF MemoryIsBehind, LoopIsPastRows, InDayLoop
  <2> QED BY <2>2, <2>3, <2>8, <2>9, <1>d, <1>f
<1>4. ASSUME NEW j \in Jobs, Purge(j) PROVE OnceInv'
  <2>1. JobStep(j) /\ UNCHANGED blockNumber /\ job[j].pc = "rewind" /\ Loaded(j) /\ MemoryIsBehind(j)
    BY <1>4, <1>b DEF JobStep, Purge, Loaded, Running
  <2>2. CASE /\ reserves' = [s \in Sources |-> IF s \in job[j].purge THEN {} ELSE reserves[s]]
             /\ repeated' = [s \in Sources |-> IF s \in job[j].purge THEN {} ELSE repeated[s]]
             /\ Move(j, [job[j] EXCEPT !.pc = "task", !.src = 1, !.purge = {}])
             /\ UNCHANGED <<entity, isProcessing, uncommitted>>
    <3>1. job'[j].pc = "task"
      BY <2>2, <1>a DEF Move, TypeOK, JobState
    <3>2. ASSUME NEW s \in Sources, s \notin job[j].purge
          PROVE  reserves'[s] = reserves[s] /\ repeated'[s] = repeated[s] /\ Excused(s) \subseteq Excused(s)'
      BY <2>2, <3>2, ExcusedStay
    <3>3. ASSUME NEW s \in Sources, s \in job[j].purge
          PROVE  reserves'[s] = {} /\ repeated'[s] = {}
      BY <2>2, <3>3
    <3>4. \A s \in Sources : repeated'[s] \subseteq Excused(s)'
      BY <3>2, <3>3, <1>b
    <3>5. ASSUME NEW s \in Sources, NEW r \in reserves'[s]
          PROVE  /\ IsMidnight(r.date)
                 /\ r.date \in Excused(s)' \/ r.date <= blockNumber'[s]
                 /\ r.date \in Excused(s)' \/ r.date <= entity'[j][s]
      <4>1. s \notin job[j].purge /\ r \in reserves[s] /\ ~Open(j, s, r.date)
        BY <3>2, <3>3, <3>5, <2>1 DEF Open
      <4>2. r.date \in Excused(s) \/ r.date <= blockNumber[s]
        BY <4>1, <2>1, <1>e
      <4>3. r.date \in Excused(s) \/ r.date <= entity[j][s]
        BY <4>1, <2>1 DEF MemoryIsBehind
      <4> QED BY <4>1, <4>2, <4>3, <3>2, <2>1, <2>2, <1>b
    <3>6. MemoryIsBehind(j)' /\ LoopIsPastRows(j)'
      BY <3>1, <3>5 DEF MemoryIsBehind, LoopIsPastRows, InDayLoop
    <3> QED BY <2>1, <3>4, <3>5, <3>6, <1>d
  <2>3. CASE Release(j) /\ LeavesPending({j}) /\ UNCHANGED <<reserves, repeated>>
    <3>1. ~Loaded(j)' /\ ~InDayLoop(j)'
      BY <1>a, <2>3, ReleaseFields DEF Loaded, Running, IdleJob, InDayLoop
    <3>2. \A s \in Sources : uncommitted'[s] = uncommitted[s] \cup Pending(j, s)
      BY <2>3, <1>a DEF LeavesPending, TypeOK
    <3>3. \A s \in Sources : Excused(s) \subseteq Excused(s)' /\ uncommitted'[s] \subseteq Excused(s)'
      BY <2>3, <3>2, <1>f DEF Excused
    <3>4. ASSUME NEW s \in Sources, NEW r \in reserves'[s]
          PROVE  r.date \in Excused(s)' \/ r.date <= blockNumber'[s]
      <4>1. r \in reserves[s] /\ r.date \in Nat /\ blockNumber[s] \in Nat
        BY <2>3, <3>4, <1>a
      <4>2. CASE Open(j, s, r.date)
        <5>1. s \in job[j].purge
          BY <4>2, <2>1 DEF Open
        <5>2. r.date > blockNumber[s] => r.date \in Pending(j, s)
          BY <5>1, <4>1 DEF Pending, RowsBeyond
        <5> QED BY <5>2, <4>1, <3>2, <3>3, <2>1
      <4>3. CASE r.date \in Excused(s) \/ r.date <= blockNumber[s]
        BY <4>3, <3>3, <2>1
      <4> QED BY <4>1, <4>2, <4>3, <2>1, <1>e
    <3>5. MemoryIsBehind(j)' /\ LoopIsPastRows(j)'
      BY <3>1 DEF MemoryIsBehind, LoopIsPastRows
    <3> QED BY <2>1, <2>3, <3>2, <3>4, <3>5, <1>d, <1>f
  <2> QED BY <1>4, <2>2, <2>3 DEF Purge
<1>5. ASSUME NEW j \in Jobs, RunStats(j) \/ SourceFails(j) \/ Finish(j) PROVE OnceInv'
  <2>1. JobStep(j) /\ UNCHANGED <<tables, history>> /\ Loaded(j) /\ job[j].pc = "task"
    BY <1>5 DEF JobStep, RunStats, SourceFails, Finish, AtTask, Loaded, Running
  <2>2. CASE Release(j)
    <3>1. ~Loaded(j)' /\ LoopIsPastRows(j)'
      BY <1>a, <2>2, ReleaseFields DEF Loaded, Running, IdleJob, LoopIsPastRows, InDayLoop
    <3> QED BY <2>1, <3>1, <1>g DEF tables, history
  <2>3. CASE Move(j, AfterSource(job[j])) /\ UNCHANGED entity
    BY <2>1, <2>3, <1>g, <1>h DEF tables, history
  <2> QED BY <1>5, <2>2, <2>3 DEF RunStats, SourceFails, Finish
<1>6. ASSUME NEW j \in Jobs, BeginSource(j) PROVE OnceInv'
  <2>1. PICK s \in Sources : s = job[j].src
    BY <1>6 DEF BeginSource, AtTask
  <2>2. PICK start, target, today :
           /\ start = entity[j][s] /\ target = FirstMidnightUTC(start)
           /\ Move(j, [job[j] EXCEPT !.pc = "day", !.last = start, !.target = target, !.today = today])
    BY <1>6, <2>1 DEF BeginSource
  <2>3. JobStep(j) /\ UNCHANGED <<tables, entity, history>> /\ Loaded(j) /\ job[j].pc = "task" /\ MemoryIsBehind(j)
    BY <1>6, <1>b DEF JobStep, BeginSource, AtTask, Loaded, Running
  <2>4. job'[j].pc = "day" /\ job'[j].src = s /\ job'[j].target = target
    BY <2>1, <2>2, <1>a DEF Move, TypeOK, JobState
  <2>5. start \in Nat /\ target \in Nat /\ start < target /\ IsMidnight(target)
    BY <2>2, <1>a, FirstMidnight
  <2>6. Day <= target
    <3>1. IsMidnight(0) /\ 0 < target
      <4>1. IsMidnight(0 * Day) /\ 0 * Day = 0
        BY MultipleIsMidnight, <1>a
      <4> QED BY <4>1, <2>5
    <3>2. 0 + Day <= target
      BY <3>1, <2>5, MidnightsApart
    <3> QED BY <3>2, <1>a
  <2>7. \A x \in Sources : Excused(x) \subseteq Excused(x)'
    BY <2>3, <1>f DEF tables, history
  <2>8. ASSUME NEW r \in reserves'[s] PROVE PastRow(j, s, r.date)'
    <3>1. r \in reserves[s] /\ r.date \in Nat /\ IsMidnight(r.date) /\ ~Open(j, s, r.date)
      BY <2>8, <2>3, <1>a, <1>b DEF tables, Open
    <3>2. r.date \in Excused(s) \/ r.date <= start
      BY <3>1, <2>2, <2>3 DEF MemoryIsBehind
    <3>3. r.date <= start => r.date + Day <= target
      BY <3>1, <2>5, MidnightsApart
    <3> QED BY <3>2, <3>3, <2>4, <2>7 DEF PastRow
  <2>9. LoopIsPastRows(j)'
    BY <2>4, <2>5, <2>6, <2>8 DEF LoopIsPastRows
  <2> QED BY <2>3, <2>9, <1>g DEF tables, history
<1>7. ASSUME NEW j \in Jobs, UpToDate(j) PROVE OnceInv'
  <2>1. PICK s \in Sources : s = job[j].src
    BY <1>7 DEF UpToDate, AtTask
  <2>2. /\ JobStep(j) /\ UNCHANGED <<entity, reserves, repeated, history>> /\ Loaded(j) /\ job[j].pc = "task"
        /\ Move(j, AfterSource(job[j])) /\ MemoryIsBehind(j)
        /\ blockNumber' = [blockNumber EXCEPT ![s] = entity[j][s]]
    BY <1>7, <2>1, <1>b DEF JobStep, UpToDate, AtTask, Loaded, Running
  <2>3. \A x \in Sources : Excused(x) \subseteq Excused(x)'
    BY <2>2, <1>f DEF history
  <2>4. ASSUME NEW x \in Sources, NEW r \in reserves'[x]
        PROVE  /\ r.date \in Excused(x)' \/ r.date <= entity'[j][x]
               /\ r.date \in Excused(x)' \/ r.date <= blockNumber'[x]
    <3>1. r \in reserves[x] /\ ~Open(j, x, r.date)
      BY <2>2, <2>4 DEF Open
    <3>2. r.date \in Excused(x)' \/ r.date <= entity'[j][x]
      BY <3>1, <2>2, <2>3 DEF MemoryIsBehind
    <3>3. r.date \in Excused(x)' \/ r.date <= blockNumber[x]
      BY <3>1, <2>2, <2>3, <1>e
    <3>4. blockNumber'[x] = blockNumber[x] \/ blockNumber'[x] = entity'[j][x]
      BY <2>2, <1>a DEF TypeOK
    <3> QED BY <3>2, <3>3, <3>4
  <2>5. MemoryIsBehind(j)' /\ LoopIsPastRows(j)'
    BY <2>2, <2>4, <1>h DEF MemoryIsBehind
  <2> QED BY <2>2, <2>4, <2>5, <1>d, <1>f DEF history
(* A row: a day that has one already is one that may repeat.               *)
<1>8. ASSUME NEW j \in Jobs, SaveRow(j) PROVE OnceInv'
  <2>1. PICK s \in Sources : s = job[j].src /\ job[j].pc = "day"
    BY <1>8, <1>a DEF SaveRow, AtDay, InDayLoop
  <2>2. PICK t \in Nat : t = job[j].target
    BY <1>a
  <2>3. PICK b, w :
           /\ b \in DayBlocks(j) /\ w.date = t /\ w.block = b
           /\ reserves' = [reserves EXCEPT ![s] = @ \cup {w}]
           /\ Move(j, [job[j] EXCEPT !.pc = "commit", !.found = b])
    <3>1. PICK b \in DayBlocks(j) :
             /\ reserves' = [reserves EXCEPT ![s] = @ \cup
                    {[date |-> t, block |-> b, algorithm |-> Algorithm(j)]}]
             /\ Move(j, [job[j] EXCEPT !.pc = "commit", !.found = b])
      BY <1>8, <2>1, <2>2 DEF SaveRow
    <3>2. PICK w : w = [date |-> t, block |-> b, algorithm |-> Algorithm(j)]
      OBVIOUS
    <3>3. w.date = t /\ w.block = b
      BY <3>2
    <3>4. reserves' = [reserves EXCEPT ![s] = @ \cup {w}]
      BY <3>1, <3>2
    <3>5. Move(j, [job[j] EXCEPT !.pc = "commit", !.found = b])
      BY <3>1
    <3> QED BY <3>1, <3>3, <3>4, <3>5
  <2>4. JobStep(j) /\ UNCHANGED <<blockNumber, entity, history>> /\ Loaded(j) /\ InDayLoop(j) /\ MemoryIsBehind(j)
    BY <1>8, <2>1, <1>b DEF JobStep, SaveRow, Loaded, Running, InDayLoop
  <2>5. /\ IsMidnight(t) /\ Day <= t
        /\ \A r \in reserves[s] : PastRow(j, s, r.date) /\ r.date \in Nat
    BY <2>1, <2>2, <2>4, <1>a, <1>b DEF LoopIsPastRows
  <2>6. b \in Nat /\ t - EarlySlip <= b
    <3>1. t \in Nat /\ job[j].last \in Nat /\ now \in Nat /\ EarlySlip \in Nat
      BY <1>a DEF TypeOK
    <3>2. b \in job[j].last .. now /\ (b = ExactBlock(t, job[j].last) \/ t - EarlySlip <= b)
      BY <2>2, <2>3 DEF DayBlocks, FoundBlocks
    <3> QED BY <3>1, <3>2 DEF ExactBlock
  <2>7. /\ job'[j].src = s /\ job'[j].target = t
        /\ job'[j].pc = "commit" /\ job'[j].found = b
    BY <2>1, <2>2, <2>3, <1>a DEF Move, TypeOK, JobState
  <2>8. reserves'[s] = reserves[s] \cup {w} /\ \A x \in Sources : x # s => reserves'[x] = reserves[x]
    BY <2>3, <1>a DEF TypeOK
  <2>9. /\ \A x \in Sources : Excused(x) \subseteq Excused(x)'
        /\ t <= b \/ t \in Excused(s)'
    <3>1. \A x \in Sources : reserves[x] \subseteq reserves'[x] /\ uncommitted[x] \subseteq uncommitted'[x]
      BY <2>4, <2>8 DEF history
    <3>2. \A x \in Sources : Excused(x) \subseteq Excused(x)'
      BY <3>1, ExcusedStay
    <3>3. b < t => w \in {x \in reserves'[s] : x.block < x.date}
      BY <2>3, <2>8
    <3>4. b < t => t \in Excused(s)'
      BY <3>3, <2>3 DEF Excused
    <3>5. t <= b \/ b < t
      BY <2>6
    <3> QED BY <3>2, <3>4, <3>5
  <2>10. ASSUME NEW x \in Sources PROVE repeated'[x] \subseteq Excused(x)'
    <3>1. HasRow(s, t) => t \in Excused(s)
      <4>1. ASSUME NEW r \in reserves[s], r.date = t PROVE t \in Excused(s)
        <5>1. t \in Excused(s) \/ t + Day <= t
          BY <4>1, <2>1, <2>2, <2>5 DEF PastRow
        <5>2. ~(t + Day <= t)
          BY <1>a, GridAssumption
        <5> QED BY <5>1, <5>2
      <4> QED BY <4>1 DEF HasRow
    <3>2. repeated' = [repeated EXCEPT ![s] = IF HasRow(s, t) THEN @ \cup {t} ELSE @]
      BY <1>8, <2>1, <2>2 DEF SaveRow
    <3>3. repeated'[x] \subseteq repeated[x] \cup (IF x = s /\ HasRow(s, t) THEN {t} ELSE {})
      BY <3>2, <1>a DEF TypeOK
    <3> QED BY <3>1, <3>3, <2>9, <1>b
  <2>11. ASSUME NEW x \in Sources, NEW r \in reserves'[x]
         PROVE  /\ IsMidnight(r.date)
                /\ r.date \in Excused(x)' \/ r.date <= blockNumber'[x] \/ Open(j, x, r.date)'
                /\ r.date \in Excused(x)' \/ r.date <= entity'[j][x] \/ Open(j, x, r.date)'
    <3>1. CASE r \in reserves[x]
      <4>1. ~Open(j, x, r.date)
        BY <2>1 DEF Open
      <4>2. r.date \in Excused(x) \/ r.date <= blockNumber[x]
        BY <3>1, <4>1, <2>4, <1>e
      <4>3. r.date \in Excused(x) \/ r.date <= entity[j][x]
        BY <3>1, <4>1, <2>4 DEF MemoryIsBehind
      <4> QED BY <3>1, <4>2, <4>3, <2>4, <2>9, <1>b
    <3>2. CASE x = s /\ r = w
      <4>1. Open(j, x, t)'
        BY <3>2, <2>7 DEF Open
      <4> QED BY <3>2, <4>1, <2>3, <2>5
    <3> QED BY <3>1, <3>2, <2>8, <2>11
  <2>12. ASSUME NEW r \in reserves'[s] PROVE PastRow(j, s, r.date)'
    <3>1. CASE r \in reserves[s]
      <4>1. r.date \in Excused(s) \/ r.date + Day <= t
        BY <3>1, <2>1, <2>2, <2>5 DEF PastRow
      <4> QED BY <4>1, <2>7, <2>9 DEF PastRow
    <3>2. CASE r = w
      BY <3>2, <2>3, <2>7 DEF PastRow
    <3> QED BY <3>1, <3>2, <2>8, <2>12
  <2>13. MemoryIsBehind(j)'
    BY <2>11 DEF MemoryIsBehind
  <2>14. LoopIsPastRows(j)'
    BY <2>5, <2>6, <2>7, <2>9, <2>12 DEF LoopIsPastRows
  <2> QED BY <2>4, <2>10, <2>11, <2>13, <2>14, <1>d
(* The checkpoint, written or only remembered: it passes every row but the *)
(* one whose block was mined before its midnight.                          *)
<1>9. ASSUME NEW j \in Jobs, Commit(j) \/ CommitFails(j) PROVE OnceInv'
  <2>1. PICK s \in Sources : s = job[j].src /\ job[j].pc = "commit"
    BY <1>9, <1>a DEF Commit, CommitFails, InDayLoop
  <2>2. /\ JobStep(j) /\ Loaded(j) /\ InDayLoop(j) /\ UNCHANGED <<reserves, repeated>>
        /\ MemoryIsBehind(j) /\ LoopIsPastRows(j)
    BY <1>9, <1>b DEF JobStep, Commit, CommitFails, Loaded, Running, InDayLoop, tables
  <2>3. PICK f \in Nat : f = job[j].found
    BY <1>a
  <2>4. PICK t \in Nat : t = job[j].target
    BY <1>a
  <2>5. /\ Day <= t /\ t - EarlySlip <= f /\ (t <= f \/ t \in Excused(s))
        /\ \A r \in reserves[s] : r.date \in Excused(s) \/ r.date + Day <= t \/ r.date = t
    BY <2>1, <2>2, <2>3, <2>4 DEF LoopIsPastRows, PastRow
  <2>6. \A old : Assigned(old, f) = f
    <3>1. 0 < f
      BY <2>5, <1>a
    <3> QED BY <3>1 DEF Assigned
  <2>7. \A r \in reserves[s] : r.date \in Excused(s) \/ r.date <= f
    <3>1. ASSUME NEW r \in reserves[s], r.date + Day <= t PROVE r.date <= f
      BY <3>1, <2>5, <1>a
    <3> QED BY <3>1, <2>5
  <2>8. PICK last \in Block :
           /\ entity' = [entity EXCEPT ![j][s] = f]
           /\ Move(j, AfterDay(job[j], last))
           /\ \A x \in Sources : uncommitted[x] \subseteq uncommitted'[x]
           /\ \/ blockNumber' = [blockNumber EXCEPT ![s] = f]
              \/ blockNumber' = blockNumber /\ t \in uncommitted'[s]
    <3>1. CASE Commit(j)
      <4>1. /\ entity' = [entity EXCEPT ![j][s] = Assigned(@, f)]
            /\ blockNumber' = [blockNumber EXCEPT ![s] = Assigned(entity[j][s], f)]
            /\ Move(j, AfterDay(job[j], f)) /\ UNCHANGED uncommitted
        BY <3>1, <2>1, <2>3 DEF Commit, history
      <4> QED BY <4>1, <2>6 DEF Block
    <3>2. CASE CommitFails(j)
      <4>1. /\ entity' = [entity EXCEPT ![j][s] = Assigned(@, f)] /\ UNCHANGED blockNumber
            /\ Move(j, AfterDay(job[j], SkipADay(job[j].last)))
            /\ LeavesPending({j})
        BY <3>2, <2>1, <2>3 DEF CommitFails, tables
      <4>2. \A x \in Sources : uncommitted'[x] = uncommitted[x] \cup Pending(j, x)
        BY <4>1, <1>a DEF LeavesPending, TypeOK
      <4>3. t \in Pending(j, s)
        BY <2>1, <2>4 DEF Pending
      <4>4. SkipADay(job[j].last) \in Block
        BY <1>a, JobNumbers
      <4> QED BY <4>1, <4>2, <4>3, <4>4, <2>6
    <3> QED BY <1>9, <3>1, <3>2
  <2>9. /\ entity'[j][s] = f /\ \A x \in Sources : x # s => entity'[j][x] = entity[j][x]
        /\ \A x \in Sources : x # s => blockNumber'[x] = blockNumber[x]
        /\ blockNumber'[s] = f \/ (blockNumber'[s] = blockNumber[s] /\ t \in uncommitted'[s])
    BY <2>8, <1>a DEF TypeOK
  <2>10. \A x \in Sources : Excused(x) \subseteq Excused(x)' /\ uncommitted'[x] \subseteq Excused(x)'
    BY <2>2, <2>8, <1>f DEF Excused
  <2>11. ASSUME NEW x \in Sources, NEW r \in reserves'[x]
         PROVE  /\ r.date \in Excused(x)' \/ r.date <= blockNumber'[x]
                /\ r.date \in Excused(x)' \/ r.date <= entity'[j][x]
    <3>1. r \in reserves[x]
      BY <2>2, <2>11
    <3>2. CASE x # s
      <4>1. ~Open(j, x, r.date)
        BY <3>2, <2>1 DEF Open
      <4>2. r.date \in Excused(x) \/ r.date <= blockNumber[x]
        BY <3>1, <4>1, <2>2, <1>e
      <4>3. r.date \in Excused(x) \/ r.date <= entity[j][x]
        BY <3>1, <4>1, <2>2 DEF MemoryIsBehind
      <4> QED BY <3>2, <4>2, <4>3, <2>9, <2>10
    <3>3. CASE x = s
      <4>1. r.date \in Excused(s)' \/ r.date <= f
        BY <3>1, <3>3, <2>7, <2>10
      <4>2. blockNumber'[s] # f => r.date \in Excused(s)' \/ r.date <= blockNumber[s]
        <5>1. ASSUME blockNumber'[s] # f PROVE r.date \in Excused(s)' \/ r.date <= blockNumber[s]
          <6>1. t \in Excused(s)'
            BY <5>1, <2>9, <2>10
          <6>2. r.date = t \/ ~Open(j, s, r.date)
            BY <2>1, <2>4 DEF Open
          <6> QED BY <6>1, <6>2, <3>1, <3>3, <2>2, <2>10, <1>e
        <5> QED BY <5>1
      <4> QED BY <3>3, <4>1, <4>2, <2>9
    <3> QED BY <3>2, <3>3
  <2>12. MemoryIsBehind(j)' /\ LoopIsPastRows(j)'
    BY <2>2, <2>8, <2>10, <2>11, <1>i DEF MemoryIsBehind
  <2> QED BY <2>2, <2>8, <2>11, <2>12, <1>d, <1>f
<1>10. ASSUME NEW j \in Jobs, ReadReverts(j) \/ ValueInvalid(j) \/ PriceFails(j) \/ DayFails(j) PROVE OnceInv'
  <2>1. JobStep(j) /\ UNCHANGED <<tables, entity, uncommitted>> /\ Loaded(j) /\ InDayLoop(j) /\ job[j].pc = "day"
    BY <1>10 DEF JobStep, ReadReverts, ValueInvalid, PriceFails, DayFails, AtDay, Loaded, Running, InDayLoop
  <2>2. \A b \in DayBlocks(j) : b \in Block /\ SkipADay(b) \in Block
    BY <1>a, GridAssumption DEF DayBlocks, FoundBlocks, SkipADay, TypeOK, Block
  <2>3. SkipADay(job[j].last) \in Block
    BY <1>a, JobNumbers
  <2>4. \/ Move(j, AfterSource(job[j]))
        \/ \E last \in Block : Move(j, AfterDay(job[j], last))
    BY <1>10, <2>2, <2>3 DEF ReadReverts, ValueInvalid, PriceFails, DayFails
  <2>5. \A s \in Sources : Excused(s) \subseteq Excused(s)'
    BY <2>1, <1>f DEF tables
  <2>6. LoopIsPastRows(j)'
    BY <2>1, <2>4, <2>5, <1>h, <1>i DEF tables
  <2> QED BY <2>1, <2>6, <1>g DEF tables
<1>11. ASSUME NEW j \in Jobs, StartCollection(j) \/ StartClearing(j) PROVE OnceInv'
  <2>1. UNCHANGED <<blockNumber, reserves, repeated, entity, uncommitted>> /\ job[j].pc = "idle"
    BY <1>11 DEF StartCollection, StartClearing, ExecuteWithLock, tables, history
  <2>2. PICK clear, date : Move(j, [IdleJob EXCEPT !.pc = "list", !.clear = clear, !.date = date])
    BY <1>11 DEF StartCollection, StartClearing, ExecuteWithLock
  <2>3. [IdleJob EXCEPT !.pc = "list", !.clear = clear, !.date = date].pc = "list"
    BY DEF IdleJob
  <2>4. job'[j].pc = "list" /\ \A k \in Jobs : k # j => job'[k] = job[k]
    BY <2>2, <2>3, <1>a DEF Move, TypeOK
  <2>5. RepeatsHaveACause' /\ RowsAreBehind'
    BY <2>1, <2>4 DEF OnceInv, RepeatsHaveACause, RowsAreBehind, Open, Excused
  <2>6. \A k \in Jobs : MemoryIsBehind(k)' /\ LoopIsPastRows(k)'
    BY <2>1, <2>4 DEF OnceInv, MemoryIsBehind, Loaded, Running, LoopIsPastRows, PastRow, InDayLoop, Open, Excused
  <2> QED BY <2>1, <2>5, <2>6 DEF OnceInv
(* A crash: what was open is left behind, and may repeat.                  *)
<1>12. ASSUME NEW h \in Hosts, Crash(h) PROVE OnceInv'
  <2>1. /\ UNCHANGED <<blockNumber, reserves, repeated>>
        /\ LeavesPending(Jobs)
        /\ \A j \in Jobs : job'[j] = IdleJob
    <3>1. \A j \in Jobs : HostOf[j] = h
      BY <1>12 DEF Crash, OneHost
    <3>2. {j \in Jobs : HostOf[j] = h} = Jobs
      BY <3>1
    <3> QED BY <1>12, <3>1, <3>2 DEF Crash, tables
  <2>2. \A s \in Sources, j \in Jobs : Pending(j, s) \cup uncommitted[s] \subseteq uncommitted'[s]
    BY <2>1, <1>a DEF LeavesPending, TypeOK
  <2>3. /\ \A s \in Sources : Excused(s) \subseteq Excused(s)' /\ uncommitted'[s] \subseteq Excused(s)'
        /\ \A s \in Sources : repeated'[s] \subseteq Excused(s)'
        /\ \A s \in Sources : \A r \in reserves'[s] : IsMidnight(r.date)
    <3>1. \A s \in Sources : uncommitted[s] \subseteq uncommitted'[s]
      BY <2>1, <1>a DEF LeavesPending, TypeOK
    <3> QED BY <2>1, <3>1, <1>f DEF Excused
  <2>4. ASSUME NEW s \in Sources, NEW r \in reserves'[s]
        PROVE  r.date \in Excused(s)' \/ r.date <= blockNumber'[s]
    <3>1. r \in reserves[s] /\ r.date \in Nat /\ blockNumber[s] \in Nat
      BY <2>1, <2>4, <1>a
    <3>2. ASSUME NEW j \in Jobs, Open(j, s, r.date), r.date > blockNumber[s] PROVE r.date \in Pending(j, s)
      BY <3>1, <3>2 DEF Open, Pending, RowsBeyond
    <3>3. r.date > blockNumber[s] \/ r.date <= blockNumber[s]
      BY <3>1
    <3> QED BY <3>1, <3>2, <3>3, <2>1, <2>2, <2>3 DEF OnceInv, RowsAreBehind
  <2>5. RepeatsHaveACause' /\ RowsAreBehind'
    BY <2>3, <2>4 DEF RepeatsHaveACause, RowsAreBehind, Excused
  <2>6. \A j \in Jobs : MemoryIsBehind(j)' /\ LoopIsPastRows(j)'
    BY <2>1 DEF MemoryIsBehind, Loaded, Running, LoopIsPastRows, InDayLoop, IdleJob
  <2> QED BY <2>3, <2>5, <2>6 DEF OnceInv
<1>13. CASE Tick \/ UNCHANGED vars
  BY <1>13 DEF Tick, vars, tables, history, OnceInv, RepeatsHaveACause, RowsAreBehind, MemoryIsBehind,
               Excused, Open, Loaded, Running, LoopIsPastRows, PastRow, InDayLoop
<1> QED
  BY <1>1, <1>2, <1>3, <1>4, <1>5, <1>6, <1>7, <1>8, <1>9, <1>10, <1>11, <1>12, <1>13 DEF Next, JobStep

(* RepeatsHaveACause: on one host, a source gets a second row for a day    *)
(* only where the search returned a block mined before the midnight it was *)
(* asked for, or where a failed write or a crash left a row without the    *)
(* checkpoint behind it or a rewind without its DELETE; whatever searches, *)
(* reads, prices and mails fail, and whatever is cleared in between.       *)
THEOREM RepeatsAreExplained ==
    ASSUME OneHost
    PROVE  Spec => []RepeatsHaveACause
<1> DEFINE Inv == TypeInv /\ OneJobPerHost /\ OnceInv
<1>1. Init => Inv
  BY TypeInvInit, OneJobPerHostInit, OnceInit
<1>2. Inv /\ [Next]_vars => Inv'
  BY TypeInvStep, OneJobPerHostStep, OnceStep
<1>3. Inv => RepeatsHaveACause
  BY DEF OnceInv
<1> QED BY <1>1, <1>2, <1>3, PTL DEF Spec
=============================================================================
