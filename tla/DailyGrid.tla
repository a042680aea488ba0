------------------------------ MODULE DailyGrid ------------------------------
(***************************************************************************)
(* The time grid every collector walks.                                    *)
(*                                                                         *)
(* The collectors of ContractService visit one instant per calendar day,   *)
(* midnight UTC, and look for the block of the chain that stands for it.   *)
(* Time is counted in ticks of a fixed length, Day ticks to a day, and the *)
(* chain mines one block per tick: block b has timestamp b, and the head   *)
(* of the chain is the current time.  What a block search may return is    *)
(* given by FoundBlocks; module BlockSearch models the searches and checks *)
(* their results against this set.                                         *)
(***************************************************************************)
EXTENDS Integers

CONSTANTS
    Day,          \* DAY_IN_SEC, in ticks
    EarlySlip,    \* how long before midnight a returned block may have been mined
    LateSlip,     \* how long after midnight a returned block may have been mined
    BlocksPerDay  \* the configured blocksPerDay of the network

ASSUME GridAssumption ==
    /\ Day \in Nat \ {0}
    /\ EarlySlip \in Nat /\ EarlySlip < Day
    /\ LateSlip \in Nat /\ LateSlip < Day
    /\ BlocksPerDay \in Nat \ {0}

Block == Nat
IsMidnight(t) == t % Day = 0

(* Mutants: the midnight that opened the start's own day; the one after    *)
(* the next.                                                               *)
OpeningMidnight(startTs) == (startTs \div Day) * Day
SecondMidnight(startTs) == (startTs \div Day + 2) * Day

(***************************************************************************)
(* calculateTimeRange: the first midnight strictly after the start, and    *)
(* the midnight that opened the current day.  The days to process are the  *)
(* midnights from the first to the last, both included.                    *)
(***************************************************************************)
FirstMidnightUTC(startTs) == (startTs \div Day + 1) * Day
TodayMidnightUTC(now) == (now \div Day) * Day

(***************************************************************************)
(* findBlockByTimestamp(network, provider, target, from) with the head of  *)
(* the chain at `head'.  A search that ran to its end returns the first    *)
(* block not mined before the target, or `from' when that is later.  An    *)
(* estimate within the accepted slip is returned as it is, and a search    *)
(* whose probes failed ends late.  No block is found when `from' is beyond *)
(* the head: reading that block throws.                                    *)
(***************************************************************************)
ExactBlock(target, from) == IF from > target THEN from ELSE target

(* Mutant: an estimate of the right calendar day is good enough.           *)
BlocksWithinADay(target, from, head) ==
    {b \in from .. head : b = ExactBlock(target, from) \/ (target - Day < b /\ b < target + Day)}

FoundBlocks(target, from, head) ==
    {b \in from .. head :
        \/ b = ExactBlock(target, from)
        \/ target - EarlySlip <= b /\ b <= target + LateSlip}

(* Mutants: the fallback steps back, or twice as far.                      *)
StepBackADay(block) == block - BlocksPerDay
SkipTwoDays(block) == block + 2 * BlocksPerDay

(***************************************************************************)
(* The fallback of a day that failed: skip a day's worth of blocks.        *)
(***************************************************************************)
SkipADay(block) == block + BlocksPerDay
=============================================================================
