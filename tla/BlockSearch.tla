----------------------------- MODULE BlockSearch -----------------------------
(***************************************************************************)
(* Finding the block of an instant: ContractService.findBlockByTimestamp   *)
(* with its three searches, getContractCreationBlock, and the two composed *)
(* by getSourceBlockNumber.                                                *)
(*                                                                         *)
(* One behaviour is one call.  The chain does not change under a search:   *)
(* the head is read once, blocks are final, and the Redis cache returns    *)
(* what the provider would (a cache that fails counts as a miss).  A step  *)
(* is what happens between two reads; a read may fail.                     *)
(***************************************************************************)
EXTENDS Integers, Sequences

CONSTANTS
    HeadBlock,    \* the last block of the chain
    Chains,       \* the chains that may be met: the timestamps of blocks 0 .. HeadBlock
    Instants,     \* the timestamps that may be asked for
    Networks,     \* the networks searched, a subset of NetworkKinds
    AvgBlockTime, \* the configured avgBlockTime of a network without periods
    Slip,         \* an estimate closer than this to the target is accepted
    Margin,       \* blocks added to either side of the narrow range (500)
    MaxProbes,    \* iterations of the binary search (25)
    Periods,      \* arbitrumPeriods, a sequence of records
    LongRange,    \* more blocks than this take the Arbitrum path (100000)
    LongSpan,     \* a longer span is walked period by period (7 days)
    Near,         \* the walk ends closer than this to the target (1 hour)
    MaxFailures   \* bound: reads that fail during a call

NetworkKinds == {"plain", "arbitrum", "scroll"}
NoDate == -1
BlockNo == 0 .. HeadBlock

Period == [startBlock: Nat, endBlock: Nat, avgBlockTime: Nat \ {0}]

ASSUME ChainAssumption ==
    /\ HeadBlock \in Nat
    /\ Chains \subseteq [BlockNo -> Nat]
    /\ \A c \in Chains : \A a, b \in BlockNo : a < b => c[a] <= c[b]
    /\ Instants \subseteq Nat \ {0}   \* targetTs = 0: nothing is looked for

ASSUME ConfigAssumption ==
    /\ Networks \subseteq NetworkKinds
    /\ AvgBlockTime \in Nat \ {0}
    /\ Slip \in Nat \ {0} /\ Margin \in Nat \ {0} /\ Near \in Nat \ {0}
    /\ MaxProbes \in Nat /\ MaxFailures \in Nat
    /\ LongRange \in Nat /\ LongSpan \in Nat
    /\ Periods \in Seq(Period) /\ Periods # <<>>
    /\ \A b \in BlockNo : \E i \in DOMAIN Periods :
          Periods[i].startBlock <= b /\ b <= Periods[i].endBlock

(* The arithmetic of halving, as far as the probes go: TLC evaluates it,   *)
(* and the proofs use it.                                                  *)
ASSUME DoublingAssumption ==
    \A n \in 0 .. MaxProbes : 2 ^ (n + 1) = 2 * 2 ^ n

VARIABLES
    chain,       \* the timestamp of every block
    created,     \* the block that created the contract
    network,     \* the network searched
    startDate,   \* getSourceBlockNumber: the date asked for, or NoDate
    targetTs,    \* findBlockByTimestamp: the instant looked for
    fromBlock,   \* findBlockByTimestamp: no earlier block is wanted
    failuresLeft,\* reads that may still fail
    pc,          \* what the next step is
    left, right, \* the interval of a search
    searchStart, searchEnd, \* the interval the binary search started with
    iterations,  \* probes of the binary search
    current,     \* currentBlock of the walk
    nextBlock,   \* nextBlock of the walk
    result       \* the block returned, once pc is done

call == <<chain, created, network, startDate>>
interval == <<left, right, searchStart, searchEnd, iterations>>
walk == <<current, nextBlock>>
vars == <<call, targetTs, fromBlock, failuresLeft, pc, interval, walk, result>>

Phases == {"creation", "find", "binary", "walk", "arrive", "scroll", "done", "kept", "failed"}

TypeOK ==
    /\ chain \in [BlockNo -> Nat] /\ created \in BlockNo
    /\ network \in Networks
    /\ startDate \in Instants \cup {NoDate}
    /\ targetTs \in Nat /\ fromBlock \in Nat /\ failuresLeft \in Nat
    /\ pc \in Phases
    /\ left \in Int /\ right \in Int
    /\ searchStart \in Int /\ searchEnd \in Int /\ iterations \in 0 .. MaxProbes
    /\ current \in Nat /\ nextBlock \in Nat
    /\ result \in Nat

Ended == pc \in {"done", "kept", "failed"}

-----------------------------------------------------------------------------
Start ==
    /\ chain \in Chains
    /\ network \in Networks
    /\ failuresLeft = MaxFailures
    /\ searchStart = 0 /\ searchEnd = 0 /\ iterations = 0
    /\ current = 0 /\ nextBlock = 0 /\ result = 0

(* The day loop looks for a midnight, from lastBlock on; after failed days *)
(* lastBlock may lie beyond the target, and beyond the head.               *)
StartFind ==
    /\ Start
    /\ pc = "find" /\ left = 0 /\ right = 0
    /\ startDate = NoDate /\ created = 0
    /\ targetTs \in Instants
    /\ fromBlock \in 0 .. HeadBlock + 1

(* A clearing collection asks for the block a source starts from.          *)
StartSource ==
    /\ Start
    /\ pc = "creation" /\ left = 0 /\ right = HeadBlock
    /\ created \in BlockNo
    /\ startDate \in Instants \cup {NoDate}
    /\ targetTs = 0 /\ fromBlock = 0

Init == StartFind \/ StartSource

-----------------------------------------------------------------------------
AtLeast(low, b) == IF b < low THEN low ELSE b
AtMost(high, b) == IF high < b THEN high ELSE b
Abs(x) == IF x < 0 THEN -x ELSE x

(* Math.round(x / y) for a positive y: halves are rounded up.              *)
Round(x, y) == (2 * x + y) \div (2 * y)
Mid == (left + right) \div 2

NoFailure == UNCHANGED failuresLeft

(* A read that fails outside of the binary search ends the call.           *)
Throw ==
    /\ pc' = "failed"
    /\ UNCHANGED <<call, targetTs, fromBlock, interval, walk, result>>

ReadFails == failuresLeft > 0 /\ failuresLeft' = failuresLeft - 1

Return(b) ==
    /\ pc' = "done" /\ result' = b
    /\ UNCHANGED <<call, targetTs, fromBlock, interval, walk>>

(* binarySearchWithCache is entered.                                       *)
SearchIn(low, high) ==
    /\ pc' = "binary"
    /\ left' = low /\ right' = high
    /\ searchStart' = low /\ searchEnd' = high /\ iterations' = 0
    /\ UNCHANGED <<call, targetTs, fromBlock, walk, result>>

-----------------------------------------------------------------------------
(* Mutant: the block at which code was seen is thrown away.                *)
ProbeCodeBelow ==
    /\ pc = "creation" /\ left < right
    /\ NoFailure
    /\ \/ Mid < created /\ left' = Mid + 1 /\ UNCHANGED right
       \/ Mid >= created /\ right' = AtLeast(0, Mid - 1) /\ UNCHANGED left
    /\ UNCHANGED <<call, targetTs, fromBlock, pc, searchStart, searchEnd, iterations, walk, result>>

(***************************************************************************)
(* getContractCreationBlock: the first block at which the contract has     *)
(* code, by bisection of the whole chain.                                  *)
(***************************************************************************)
ProbeCode ==
    /\ pc = "creation" /\ left < right
    /\ NoFailure
    /\ \/ Mid < created /\ left' = Mid + 1 /\ UNCHANGED right
       \/ Mid >= created /\ right' = Mid /\ UNCHANGED left
    /\ UNCHANGED <<call, targetTs, fromBlock, pc, searchStart, searchEnd, iterations, walk, result>>

(* getSourceBlockNumber goes on: the creation block when no date or an     *)
(* earlier one is asked for, a search from block 0 otherwise.              *)
CreationFound ==
    /\ pc = "creation" /\ left >= right
    /\ NoFailure
    /\ \/ /\ startDate < chain[left]      \* NoDate is earlier than any block
          /\ Return(left)
       \/ /\ startDate >= chain[left]
          /\ pc' = "find" /\ targetTs' = startDate
          /\ UNCHANGED <<call, fromBlock, interval, walk, result>>

(* A date was given and the creation block cannot be found or read: the    *)
(* source stays at source.blockNumber.  Without a date the search is       *)
(* returned, not awaited, and its failure is the caller's.                 *)
CreationFails ==
    /\ pc = "creation"
    /\ ReadFails
    /\ pc' = IF startDate = NoDate THEN "failed" ELSE "kept"
    /\ UNCHANGED <<call, targetTs, fromBlock, interval, walk, result>>

-----------------------------------------------------------------------------
(***************************************************************************)
(* findBlockByTimestamp: which search is taken.                            *)
(***************************************************************************)
PeriodOf(b) ==
    LET i == CHOOSE i \in DOMAIN Periods :
                /\ Periods[i].startBlock <= b /\ b <= Periods[i].endBlock
                /\ \A k \in 1 .. i - 1 : ~(Periods[k].startBlock <= b /\ b <= Periods[k].endBlock)
    IN  Periods[i]

BlockTime(b) == IF network = "arbitrum" THEN PeriodOf(b).avgBlockTime ELSE AvgBlockTime

TakesArbitrumPath == network = "arbitrum" /\ HeadBlock - fromBlock > LongRange

(* The block the configured block time points at, from block b.            *)
Estimate(b) ==
    AtLeast(fromBlock, AtMost(HeadBlock, b + Round(targetTs - chain[b], BlockTime(b))))

(* The ordinary search: an estimate that is close enough is returned, and  *)
(* otherwise corrected by its own error and searched around.               *)
EstimateBlock ==
    /\ pc = "find" /\ network # "scroll" /\ ~TakesArbitrumPath
    /\ fromBlock <= HeadBlock
    /\ NoFailure
    /\ LET estimated == Estimate(fromBlock)
           timeError == chain[estimated] - targetTs
           correction == Round(timeError, BlockTime(fromBlock))
       IN  \/ Abs(timeError) < Slip /\ Return(estimated)
           \/ /\ Abs(timeError) >= Slip
              /\ SearchIn(AtLeast(fromBlock, estimated - Abs(correction) - Margin),
                          AtMost(HeadBlock, estimated - correction + Margin))

(* Less than a week away on Arbitrum: an hour's worth of blocks on either  *)
(* side of the estimate, whatever its error.                               *)
EstimateArbitrum ==
    /\ pc = "find" /\ TakesArbitrumPath
    /\ targetTs - chain[fromBlock] < LongSpan
    /\ NoFailure
    /\ LET estimated == Estimate(fromBlock)
           searchRange == Round(Near, BlockTime(fromBlock))
       IN  SearchIn(AtLeast(fromBlock, estimated - searchRange),
                    AtMost(HeadBlock, estimated + searchRange))

StartWalk ==
    /\ pc = "find" /\ TakesArbitrumPath
    /\ targetTs - chain[fromBlock] >= LongSpan
    /\ NoFailure
    /\ pc' = "walk" /\ current' = fromBlock
    /\ UNCHANGED <<call, targetTs, fromBlock, interval, nextBlock, result>>

StartScroll ==
    /\ pc = "find" /\ network = "scroll"
    /\ NoFailure
    /\ pc' = "scroll" /\ left' = fromBlock /\ right' = HeadBlock /\ result' = fromBlock
    /\ UNCHANGED <<call, targetTs, fromBlock, searchStart, searchEnd, iterations, walk>>

(* The reference block cannot be read when it lies beyond the head.        *)
FindBeyondHead ==
    /\ pc = "find" /\ network # "scroll"
    /\ fromBlock > HeadBlock
    /\ NoFailure
    /\ Throw

(* The head, the reference block, or the estimate cannot be read.          *)
FindFails == pc = "find" /\ ReadFails /\ Throw

-----------------------------------------------------------------------------
(***************************************************************************)
(* binarySearchWithCache.                                                  *)
(***************************************************************************)
Searching == pc = "binary" /\ left < right /\ iterations < MaxProbes

Probe ==
    /\ Searching
    /\ NoFailure
    /\ \/ chain[Mid] < targetTs /\ left' = Mid + 1 /\ UNCHANGED right
       \/ chain[Mid] >= targetTs /\ right' = Mid /\ UNCHANGED left
    /\ iterations' = iterations + 1
    /\ UNCHANGED <<call, targetTs, fromBlock, pc, searchStart, searchEnd, walk, result>>

(* Mutant: a block that cannot be read counts as late enough.              *)
FailedProbeIsLate ==
    /\ Searching
    /\ ReadFails
    /\ right' = Mid /\ UNCHANGED left
    /\ iterations' = iterations + 1
    /\ UNCHANGED <<call, targetTs, fromBlock, pc, searchStart, searchEnd, walk, result>>

(* A block that cannot be read counts as too early.                        *)
ProbeFails ==
    /\ Searching
    /\ ReadFails
    /\ left' = Mid + 1 /\ UNCHANGED right
    /\ iterations' = iterations + 1
    /\ UNCHANGED <<call, targetTs, fromBlock, pc, searchStart, searchEnd, walk, result>>

SearchEnds ==
    /\ pc = "binary" /\ ~Searching
    /\ NoFailure
    /\ Return(left)

-----------------------------------------------------------------------------
(***************************************************************************)
(* findArbitrumBlockByTimestamp, the walk over the periods.                *)
(***************************************************************************)
(* As far as the block time of the period carries, and not past its end.   *)
Step ==
    /\ pc = "walk"
    /\ NoFailure
    /\ \/ /\ chain[current] < targetTs /\ current < HeadBlock
          /\ pc' = "arrive"
          /\ nextBlock' = AtMost(HeadBlock, AtMost(PeriodOf(current).endBlock,
                current + Round(targetTs - chain[current], PeriodOf(current).avgBlockTime)))
          /\ UNCHANGED <<call, targetTs, fromBlock, interval, current, result>>
       \/ /\ chain[current] >= targetTs \/ current >= HeadBlock
          /\ Return(current)

Arrive ==
    /\ pc = "arrive"
    /\ NoFailure
    /\ LET searchRange == Round(Near, PeriodOf(current).avgBlockTime)
       IN  \/ /\ Abs(chain[nextBlock] - targetTs) < Near
              /\ SearchIn(AtLeast(fromBlock, nextBlock - searchRange),
                          AtMost(HeadBlock, nextBlock + searchRange))
           \/ /\ Abs(chain[nextBlock] - targetTs) >= Near
              /\ pc' = "walk" /\ current' = nextBlock
              /\ UNCHANGED <<call, targetTs, fromBlock, interval, nextBlock, result>>

ArriveFails == pc = "arrive" /\ ReadFails /\ Throw

-----------------------------------------------------------------------------
(***************************************************************************)
(* findScrollBlockByTimestamp: bisection of the whole rest of the chain.   *)
(***************************************************************************)
(* Mutant: the block that was read stays in the interval.                  *)
ScrollProbeKeepsMid ==
    /\ pc = "scroll" /\ left <= right
    /\ NoFailure
    /\ \/ chain[Mid] < targetTs /\ left' = Mid + 1 /\ UNCHANGED <<right, result>>
       \/ chain[Mid] >= targetTs /\ result' = Mid /\ right' = Mid /\ UNCHANGED left
    /\ UNCHANGED <<call, targetTs, fromBlock, pc, searchStart, searchEnd, iterations, walk>>

(* Mutant: the block before the one that is late enough is remembered.     *)
ScrollProbeRemembersBelow ==
    /\ pc = "scroll" /\ left <= right
    /\ NoFailure
    /\ \/ chain[Mid] < targetTs /\ left' = Mid + 1 /\ UNCHANGED <<right, result>>
       \/ chain[Mid] >= targetTs /\ result' = Mid - 1 /\ right' = Mid - 1 /\ UNCHANGED left
    /\ UNCHANGED <<call, targetTs, fromBlock, pc, searchStart, searchEnd, iterations, walk>>

ScrollProbe ==
    /\ pc = "scroll" /\ left <= right
    /\ NoFailure
    /\ \/ chain[Mid] < targetTs /\ left' = Mid + 1 /\ UNCHANGED <<right, result>>
       \/ chain[Mid] >= targetTs /\ result' = Mid /\ right' = Mid - 1 /\ UNCHANGED left
    /\ UNCHANGED <<call, targetTs, fromBlock, pc, searchStart, searchEnd, iterations, walk>>

ScrollEnds ==
    /\ pc = "scroll" /\ left > right
    /\ NoFailure
    /\ Return(result)

ScrollFails == pc = "scroll" /\ left <= right /\ ReadFails /\ Throw

Progress ==
    \/ ProbeCode \/ CreationFound
    \/ EstimateBlock \/ EstimateArbitrum \/ StartWalk \/ StartScroll \/ FindBeyondHead
    \/ Probe \/ SearchEnds
    \/ Step \/ Arrive
    \/ ScrollProbe \/ ScrollEnds

Failure == CreationFails \/ FindFails \/ ProbeFails \/ ArriveFails \/ ScrollFails

Next == Progress \/ Failure

Spec == Init /\ [][Next]_vars

(* Every read returns or times out, and the call goes on; nothing makes a  *)
(* read fail.                                                              *)
FairSpec == Spec /\ WF_vars(Progress)

-----------------------------------------------------------------------------
(***************************************************************************)
(* Properties.                                                             *)
(***************************************************************************)
NoReadFailed == failuresLeft = MaxFailures

(* b is the first block from low on that was not mined before the target.  *)
IsFirst(b, low) ==
    /\ b \in low .. HeadBlock
    /\ chain[b] >= targetTs
    /\ \A a \in low .. b - 1 : chain[a] < targetTs

IsClose(b) == Abs(chain[b] - targetTs) < Slip

(* A call returns a block of the chain, and none before the one it was     *)
(* told to start from: lastBlock of the day loop never moves back.         *)
ResultInRange ==
    pc = "done" /\ fromBlock <= HeadBlock => result \in fromBlock .. HeadBlock

(* The 25 probes suffice for the interval of the binary search.            *)
ProbesSuffice == searchEnd - searchStart < 2 ^ MaxProbes

(* What every probe keeps.  The block at right is late enough once right   *)
(* has moved, so that a probe that fails can only make the answer late;    *)
(* without failures every block below left is too early; and the probes    *)
(* that remain suffice for the interval that remains, so that the search   *)
(* is not cut short.                                                       *)
ProbesAreSound ==
    pc = "binary" =>
        /\ right < searchEnd => chain[right] >= targetTs
        /\ NoReadFailed => \A b \in searchStart .. left - 1 : chain[b] < targetTs
        /\ left <= right \/ left = searchStart
        /\ ProbesSuffice => right - left < 2 ^ (MaxProbes - iterations)

(* The configured block time is right but for a drift that the margin      *)
(* around the corrected estimate can absorb.                               *)
Drift(b) == Abs(chain[b] - chain[fromBlock] - (b - fromBlock) * BlockTime(fromBlock))
IsSteady ==
    \A b \in fromBlock .. HeadBlock :
        2 * Drift(b) <= (Margin - 1) * BlockTime(fromBlock)

(* What saveReserves relies on: the block returned for a midnight is the   *)
(* first one that is not earlier, or one within the slip of it.            *)
ResultStandsForTarget ==
    /\ pc = "done" /\ targetTs # 0 /\ NoReadFailed /\ ~TakesArbitrumPath
    /\ fromBlock <= HeadBlock /\ chain[HeadBlock] >= targetTs
    /\ network = "scroll" \/ (IsSteady /\ ProbesSuffice)
    => IsFirst(result, fromBlock) \/ IsClose(result)

(* The bisection for the creation of a contract ends at its first block,   *)
(* and no date before the creation starts a collection anywhere else.      *)
CreationIsFound ==
    pc = "done" /\ targetTs = 0 => result = created

(* The walk stands at the last block of a period, which still belongs to   *)
(* the period: nextBlock is current for ever.                              *)
StuckAtPeriodEnd ==
    /\ pc \in {"walk", "arrive"}
    /\ current < HeadBlock /\ current = PeriodOf(current).endBlock

(* Every call returns, throws, or is stuck at the end of a period.         *)
EndsUnlessStuck == <>(Ended \/ StuckAtPeriodEnd)

(* Comment of findArbitrumBlockByTimestamp, "Handle period transitions for *)
(* longer spans": every call returns or throws.                            *)
EveryCallEnds == <>Ended
=============================================================================
