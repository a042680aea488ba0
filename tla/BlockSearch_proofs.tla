-------------------------- MODULE BlockSearch_proofs --------------------------
(***************************************************************************)
(* Proofs about BlockSearch, for any chain whose timestamps never fall,    *)
(* any instants, periods, slips and margins: what every probe keeps, that  *)
(* the bisection finds the block that created a contract, and that, on a   *)
(* chain whose block time drifts no further than the margin absorbs, the   *)
(* block returned for an instant is the first that is not earlier, or one  *)
(* within the slip; which makes it one of the blocks that DailyGrid lets   *)
(* the collectors find.                                                    *)
(***************************************************************************)
EXTENDS BlockSearch, DailyGrid, TLAPS, SequenceTheorems, WellFoundedInduction

(* The bisection for the creation keeps the creation in its interval, and  *)
(* targetTs is 0 only as long as, or because, it alone has run.            *)
CreationInv ==
    /\ pc = "creation" =>
          /\ targetTs = 0 /\ fromBlock = 0
          /\ 0 <= left /\ left <= created /\ created <= right /\ right <= HeadBlock
    /\ targetTs = 0 => pc \in {"creation", "kept", "failed"} \/ (pc = "done" /\ result = created)

WalkInv ==
    /\ pc \in {"walk", "arrive"} => TakesArbitrumPath /\ current \in fromBlock .. HeadBlock
    /\ pc = "arrive" => nextBlock \in current .. HeadBlock

(* The first block that is late enough lies between low and high; or it is *)
(* fromBlock itself, and the interval begins there, and may be empty.      *)
Encloses(low, high) ==
    /\ \A b \in fromBlock .. low - 1 : chain[b] < targetTs
    /\ \/ low <= high /\ chain[high] >= targetTs
       \/ low = fromBlock /\ chain[low] >= targetTs

IsSearchable == ~TakesArbitrumPath /\ chain[HeadBlock] >= targetTs /\ IsSteady

BinaryInv ==
    pc = "binary" =>
        /\ network # "scroll"
        /\ fromBlock <= searchStart /\ searchStart <= left /\ left <= HeadBlock
        /\ right <= searchEnd /\ searchEnd <= HeadBlock
        /\ right < searchEnd => searchStart <= right
        /\ IsSearchable => Encloses(searchStart, searchEnd)

ScrollInv ==
    pc = "scroll" =>
        /\ network = "scroll" /\ fromBlock <= left /\ right <= HeadBlock
        /\ fromBlock > HeadBlock => left > right
        /\ fromBlock <= HeadBlock =>
              /\ left <= right + 1 /\ result \in fromBlock .. HeadBlock
              /\ \A b \in fromBlock .. left - 1 : chain[b] < targetTs
              /\ right = HeadBlock \/ (result = right + 1 /\ chain[result] >= targetTs)

SearchInv ==
    /\ TypeOK /\ chain \in Chains /\ failuresLeft <= MaxFailures
    /\ CreationInv /\ WalkInv /\ BinaryInv /\ ScrollInv
    /\ ProbesAreSound /\ ResultInRange /\ ResultStandsForTarget

-----------------------------------------------------------------------------
(***************************************************************************)
(* Arithmetic.                                                             *)
(***************************************************************************)
LEMMA Division ==
    ASSUME NEW a \in Int, NEW b \in Nat \ {0}
    PROVE  a \div b \in Int /\ b * (a \div b) <= a /\ a < b * (a \div b) + b
BY Z3

LEMMA MidBetween ==
    ASSUME NEW a \in Int, NEW b \in Int, a < b
    PROVE  (a + b) \div 2 \in Int /\ a <= (a + b) \div 2 /\ (a + b) \div 2 < b
BY Z3

LEMMA MidWithin ==
    ASSUME NEW a \in Int, NEW b \in Int, a <= b
    PROVE  (a + b) \div 2 \in Int /\ a <= (a + b) \div 2 /\ (a + b) \div 2 <= b
BY Z3

LEMMA MidHalves ==
    ASSUME NEW a \in Int, NEW b \in Int, NEW p \in Int, a < b, b - a < 2 * p
    PROVE  b - ((a + b) \div 2 + 1) < p /\ (a + b) \div 2 - a < p
BY Z3

LEMMA Rounding ==
    ASSUME NEW x \in Int, NEW y \in Nat \ {0}
    PROVE  /\ Round(x, y) \in Int
           /\ 2 * (y * Round(x, y)) <= 2 * x + y /\ 2 * x + y < 2 * (y * Round(x, y)) + 2 * y
<1>1. 2 * y \in Nat \ {0} /\ 2 * x + y \in Int
  OBVIOUS
<1>2. /\ Round(x, y) \in Int /\ (2 * y) * Round(x, y) <= 2 * x + y
      /\ 2 * x + y < (2 * y) * Round(x, y) + 2 * y
  BY <1>1, Division DEF Round
<1> QED BY <1>2

LEMMA RoundingUp ==
    ASSUME NEW x \in Nat, NEW y \in Nat \ {0}
    PROVE  Round(x, y) >= 0
<1>1. Round(x, y) \in Int /\ 2 * x + y < 2 * (y * Round(x, y)) + 2 * y
  BY Rounding
<1>2. ASSUME Round(x, y) <= -1 PROVE FALSE
  <2>1. y * Round(x, y) <= y * (-1)
    BY <1>1, <1>2, Z3
  <2> QED BY <1>1, <2>1
<1> QED BY <1>1, <1>2

LEMMA Powers ==
    ASSUME NEW n \in 0 .. MaxProbes
    PROVE  2 ^ n \in Int /\ 2 ^ (n + 1) = 2 * 2 ^ n /\ 2 ^ 0 = 1 /\ 2 ^ MaxProbes \in Int
<1>1. n \in Nat /\ MaxProbes \in Nat
  BY ConfigAssumption
<1>2. 2 ^ n \in Int /\ 2 ^ 0 = 1 /\ 2 ^ MaxProbes \in Int
  BY <1>1
<1> QED BY <1>2, DoublingAssumption

-----------------------------------------------------------------------------
(***************************************************************************)
(* Chains and periods.                                                     *)
(***************************************************************************)
LEMMA ChainFacts ==
    ASSUME chain \in Chains
    PROVE  /\ HeadBlock \in Nat /\ chain \in [BlockNo -> Nat]
           /\ \A b \in 0 .. HeadBlock : b \in BlockNo /\ chain[b] \in Nat
           /\ \A a, b \in 0 .. HeadBlock : a <= b => chain[a] <= chain[b]
<1>1. HeadBlock \in Nat /\ chain \in [BlockNo -> Nat]
  BY ChainAssumption
<1>2. \A a, b \in BlockNo : a < b => chain[a] <= chain[b]
  BY ChainAssumption
<1>3. \A b \in 0 .. HeadBlock : b \in BlockNo /\ chain[b] \in Nat
  BY <1>1 DEF BlockNo
<1>4. ASSUME NEW a \in 0 .. HeadBlock, NEW b \in 0 .. HeadBlock, a <= b PROVE chain[a] <= chain[b]
  <2>1. CASE a = b
    BY <1>3, <2>1
  <2>2. CASE a < b
    BY <1>2, <1>3, <2>2
  <2> QED BY <1>1, <1>4, <2>1, <2>2
<1> QED BY <1>1, <1>3, <1>4

LEMMA PeriodFound ==
    ASSUME NEW b \in BlockNo
    PROVE  PeriodOf(b) \in Period /\ PeriodOf(b).startBlock <= b /\ b <= PeriodOf(b).endBlock
<1> DEFINE Covers(i) == Periods[i].startBlock <= b /\ b <= Periods[i].endBlock
           T == {i \in DOMAIN Periods : Covers(i)}
<1>1. Periods \in Seq(Period) /\ DOMAIN Periods = 1 .. Len(Periods) /\ Len(Periods) \in Nat
  BY ConfigAssumption, LenProperties
<1>2. T # {} /\ T \subseteq Nat
  BY <1>1, ConfigAssumption
<1>3. PICK i \in T : \A k \in T : ~(<<k, i>> \in OpToRel(<, Nat))
  BY <1>2, NatLessThanWellFounded, WFMin, Zenon
<1>4. \A k \in T : ~(k < i)
  BY <1>2, <1>3 DEF OpToRel
<1>5. i \in DOMAIN Periods /\ Covers(i) /\ \A k \in 1 .. i - 1 : ~Covers(k)
  BY <1>1, <1>4
<1>6. \E n \in DOMAIN Periods : PeriodOf(b) = Periods[n] /\ Covers(n)
  BY <1>5 DEF PeriodOf
<1> QED BY <1>1, <1>6

LEMMA BlockTimes ==
    ASSUME NEW b \in BlockNo
    PROVE  BlockTime(b) \in Nat \ {0} /\ PeriodOf(b).avgBlockTime \in Nat \ {0}
<1>1. PeriodOf(b).avgBlockTime \in Nat \ {0} /\ AvgBlockTime \in Nat \ {0}
  BY PeriodFound, ConfigAssumption DEF Period
<1> QED BY <1>1 DEF BlockTime

-----------------------------------------------------------------------------
(***************************************************************************)
(* The ordinary search.  The estimate is off by at most what its own error *)
(* shows and the drift; the margin absorbs the drift.                      *)
(***************************************************************************)
LEMMA Steadiness ==
    ASSUME TypeOK, chain \in Chains, fromBlock <= HeadBlock, IsSteady,
           NEW a \in fromBlock .. HeadBlock, NEW b \in fromBlock .. HeadBlock
    PROVE  /\ chain[b] - chain[a] <= (b - a) * BlockTime(fromBlock) + (Margin - 1) * BlockTime(fromBlock)
           /\ chain[b] - chain[a] >= (b - a) * BlockTime(fromBlock) - (Margin - 1) * BlockTime(fromBlock)
<1>1. /\ HeadBlock \in Nat /\ fromBlock \in Nat /\ fromBlock \in BlockNo
      /\ chain[a] \in Int /\ chain[b] \in Int /\ chain[fromBlock] \in Int /\ Margin \in Int
  BY ChainFacts, ConfigAssumption DEF TypeOK, BlockNo
<1>2. PICK t \in Nat : t = BlockTime(fromBlock)
  BY <1>1, BlockTimes
<1>3. /\ 2 * Abs(chain[a] - chain[fromBlock] - (a - fromBlock) * t) <= (Margin - 1) * t
      /\ 2 * Abs(chain[b] - chain[fromBlock] - (b - fromBlock) * t) <= (Margin - 1) * t
  BY <1>2 DEF IsSteady, Drift
<1>4. PICK x \in Int, y \in Int, m \in Int :
         x = (a - fromBlock) * t /\ y = (b - fromBlock) * t /\ m = (Margin - 1) * t
  BY <1>1, <1>2
<1>5. (b - a) * t = y - x
  BY <1>1, <1>2, <1>4, Z3
<1>6. /\ 2 * (chain[a] - chain[fromBlock] - x) <= m /\ 2 * (chain[a] - chain[fromBlock] - x) >= -m
      /\ 2 * (chain[b] - chain[fromBlock] - y) <= m /\ 2 * (chain[b] - chain[fromBlock] - y) >= -m
  BY <1>1, <1>3, <1>4 DEF Abs
<1> QED BY <1>1, <1>2, <1>4, <1>5, <1>6

LEMMA EstimateInChain ==
    ASSUME TypeOK, chain \in Chains, fromBlock <= HeadBlock
    PROVE  /\ Estimate(fromBlock) \in fromBlock .. HeadBlock
           /\ Estimate(fromBlock) \in Int /\ Estimate(fromBlock) \in BlockNo
           /\ BlockTime(fromBlock) \in Nat \ {0} /\ chain[Estimate(fromBlock)] \in Nat
           /\ chain[fromBlock] \in Nat /\ targetTs \in Nat
           /\ targetTs < chain[fromBlock] => Estimate(fromBlock) = fromBlock
<1>1. HeadBlock \in Nat /\ fromBlock \in Nat /\ fromBlock \in BlockNo /\ chain[fromBlock] \in Nat /\ targetTs \in Nat
  BY ChainFacts DEF TypeOK, BlockNo
<1>2. PICK t \in Nat \ {0}, d \in Int : t = BlockTime(fromBlock) /\ d = targetTs - chain[fromBlock]
  BY <1>1, BlockTimes
<1>3. PICK n \in Int : n = Round(d, t) /\ 2 * (t * n) <= 2 * d + t
  BY <1>2, Rounding
<1>4. Estimate(fromBlock) = AtLeast(fromBlock, AtMost(HeadBlock, fromBlock + n))
  BY <1>2, <1>3 DEF Estimate
<1>7. Estimate(fromBlock) \in fromBlock .. HeadBlock
  BY <1>1, <1>3, <1>4 DEF AtLeast, AtMost
<1>8. ASSUME targetTs < chain[fromBlock] PROVE Estimate(fromBlock) = fromBlock
  <2>1. d <= -1
    BY <1>1, <1>2, <1>8
  <2>2. ASSUME n >= 1 PROVE FALSE
    <3>1. t * n >= t
      BY <2>2, <1>2, <1>3, Z3
    <3> QED BY <3>1, <2>1, <1>2, <1>3
  <2>3. n <= 0
    BY <2>2, <1>3
  <2> QED BY <2>3, <1>1, <1>3, <1>4 DEF AtLeast, AtMost
<1> QED BY <1>1, <1>2, <1>7, <1>8, ChainFacts DEF BlockNo

Low == LET estimated == Estimate(fromBlock)
           correction == Round(chain[estimated] - targetTs, BlockTime(fromBlock))
       IN  AtLeast(fromBlock, estimated - Abs(correction) - Margin)
High == LET estimated == Estimate(fromBlock)
            correction == Round(chain[estimated] - targetTs, BlockTime(fromBlock))
        IN  AtMost(HeadBlock, estimated - correction + Margin)

LEMMA EstimateEncloses ==
    ASSUME TypeOK, chain \in Chains, fromBlock <= HeadBlock
    PROVE  /\ Low \in Int /\ High \in Int
           /\ fromBlock <= Low /\ Low <= HeadBlock /\ High <= HeadBlock
           /\ IsSteady /\ chain[HeadBlock] >= targetTs => Encloses(Low, High)
<1>1. PICK e \in Int : e = Estimate(fromBlock)
  BY EstimateInChain
<1>2. PICK t \in Nat \ {0} : t = BlockTime(fromBlock)
  BY EstimateInChain
<1>3. /\ HeadBlock \in Nat /\ fromBlock \in Nat /\ e \in fromBlock .. HeadBlock /\ chain[e] \in Nat
      /\ targetTs \in Nat /\ Margin \in Nat \ {0} /\ chain[fromBlock] \in Nat
      /\ targetTs < chain[fromBlock] => e = fromBlock
  BY <1>1, EstimateInChain, ChainFacts, ConfigAssumption DEF TypeOK
<1>4. PICK r \in Int : r = chain[e] - targetTs
  BY <1>3
<1>5. PICK k \in Int : k = Round(r, t) /\ 2 * (t * k) <= 2 * r + t /\ 2 * r + t < 2 * (t * k) + 2 * t
  BY <1>4, Rounding
<1>6. Low = AtLeast(fromBlock, e - Abs(k) - Margin) /\ High = AtMost(HeadBlock, e - k + Margin)
  BY <1>1, <1>2, <1>4, <1>5 DEF Low, High
<1>7. Abs(k) \in Nat /\ Abs(k) >= k /\ Abs(k) >= -k
  BY <1>5 DEF Abs
<1>8. /\ Low \in Int /\ Low >= fromBlock /\ Low <= HeadBlock /\ Low \in {fromBlock, e - Abs(k) - Margin}
      /\ High \in Int /\ High <= HeadBlock /\ High \in {HeadBlock, e - k + Margin}
  BY <1>3, <1>5, <1>6, <1>7 DEF AtLeast, AtMost
<1>9. ASSUME IsSteady, chain[HeadBlock] >= targetTs PROVE Encloses(Low, High)
  <2>1. \A b \in fromBlock .. HeadBlock :
           /\ b \in Int /\ chain[b] \in Int
           /\ chain[b] - chain[e] <= (b - e) * t + (Margin - 1) * t
           /\ chain[b] - chain[e] >= (b - e) * t - (Margin - 1) * t
    BY <1>2, <1>3, <1>9, Steadiness, ChainFacts
  <2>2. ASSUME NEW b \in fromBlock .. Low - 1 PROVE chain[b] < targetTs
    <3>1. b \in fromBlock .. HeadBlock /\ b <= e - Abs(k) - Margin - 1
      BY <2>2, <1>3, <1>7, <1>8
    <3>2. chain[b] <= chain[e] + (b - e) * t + (Margin - 1) * t /\ chain[b] \in Int /\ b \in Int
      BY <2>1, <3>1, <1>3
    <3>3. b - e <= -k - Margin - 1
      BY <3>1, <3>2, <1>3, <1>5, <1>7
    <3>4. (b - e) * t <= (-k - Margin - 1) * t
      BY <3>2, <3>3, <1>2, <1>3, <1>5, Z3
    <3>5. (-k - Margin - 1) * t = -(t * k) - Margin * t - t /\ (Margin - 1) * t = Margin * t - t
      BY <1>2, <1>3, <1>5, Z3
    <3>6. PICK p \in Int, q \in Int, w \in Int : p = t * k /\ q = Margin * t /\ w = (b - e) * t
      BY <3>2, <1>2, <1>3, <1>5
    <3>7. chain[b] <= chain[e] + w + q - t /\ w <= -p - q - t
      BY <3>2, <3>4, <3>5, <3>6, <1>2, <1>3
    <3>8. 2 * r < 2 * p + t
      BY <3>6, <1>5
    <3> QED BY <3>2, <3>6, <3>7, <3>8, <1>2, <1>3, <1>4
  <2>3. CASE High = HeadBlock /\ Low <= High
    BY <1>9, <2>2, <2>3 DEF Encloses
  <2>4. CASE High = HeadBlock /\ Low > High
    BY <1>3, <1>8, <2>4
  <2>5. CASE High = e - k + Margin /\ High < fromBlock
    <3>1. chain[fromBlock] > targetTs \/ chain[fromBlock] = targetTs
      <4>1. CASE targetTs > chain[fromBlock]
        <5>1. chain[e] - chain[fromBlock] <= (e - fromBlock) * t + (Margin - 1) * t
          BY <1>2, <1>3, <1>9, Steadiness
        <5>2. k >= e - fromBlock + Margin + 1
          BY <2>5, <1>3, <1>5
        <5>3. k * t >= (e - fromBlock + Margin + 1) * t
          BY <5>2, <1>2, <1>3, <1>5, Z3
        <5>4. PICK p \in Int, q \in Int, w \in Int : p = t * k /\ q = Margin * t /\ w = (e - fromBlock) * t
          BY <1>2, <1>3, <1>5
        <5>5. k * t = p /\ (e - fromBlock + Margin + 1) * t = w + q + t /\ (Margin - 1) * t = q - t
          BY <5>4, <1>2, <1>3, <1>5, Z3
        <5>6. p >= w + q + t /\ chain[e] - chain[fromBlock] <= w + q - t /\ 2 * p <= 2 * r + t
          BY <5>1, <5>3, <5>4, <5>5, <1>5
        <5>7. FALSE
          BY <5>4, <5>6, <4>1, <1>2, <1>3, <1>4
        <5> QED BY <5>7
      <4> QED BY <4>1, <1>3
    <3>2. Low = fromBlock
      <4>1. CASE chain[fromBlock] > targetTs
        BY <4>1, <1>3, <1>7, <1>8
      <4>2. CASE chain[fromBlock] = targetTs
        <5>1. \A b \in fromBlock .. Low - 1 : chain[b] < targetTs
          BY <2>2
        <5> QED BY <4>2, <5>1, <1>3, <1>8
      <4> QED BY <3>1, <4>1, <4>2
    <3> QED BY <2>2, <3>1, <3>2, <1>3 DEF Encloses
  <2>6. CASE High = e - k + Margin /\ High >= fromBlock
    <3>1. High \in fromBlock .. HeadBlock
      BY <2>6, <1>3, <1>8
    <3>2. chain[High] >= chain[e] + (High - e) * t - (Margin - 1) * t /\ chain[High] \in Int
      BY <2>1, <3>1, <1>3
    <3>3. PICK p \in Int, q \in Int : p = t * k /\ q = Margin * t
      BY <1>2, <1>3, <1>5
    <3>4. High - e = Margin - k
      BY <2>6, <1>3, <1>5
    <3>5. (Margin - k) * t = q - p /\ (Margin - 1) * t = q - t
      BY <3>3, <1>2, <1>3, <1>5, Z3
    <3>6. chain[High] >= chain[e] + q - p - q + t /\ 2 * p <= 2 * r + t
      BY <3>2, <3>3, <3>4, <3>5, <1>2, <1>3, <1>5
    <3>7. chain[High] > targetTs
      BY <3>2, <3>3, <3>6, <1>2, <1>3, <1>4
    <3>8. Low <= High
      <4>1. CASE Low = fromBlock
        BY <4>1, <2>6
      <4>2. CASE Low = e - Abs(k) - Margin
        BY <4>2, <2>6, <1>3, <1>5, <1>7
      <4> QED BY <4>1, <4>2, <1>8
    <3> QED BY <2>2, <3>2, <3>7, <3>8, <1>3 DEF Encloses
  <2> QED BY <2>3, <2>4, <2>5, <2>6, <1>8, <1>3
<1> QED BY <1>8, <1>9

-----------------------------------------------------------------------------
(***************************************************************************)
(* The ways a step may leave the search: the call ends, returns a block,   *)
(* or enters the binary search.                                            *)
(***************************************************************************)
LEMMA ReadsAreCounted ==
    ASSUME SearchInv, NoFailure \/ ReadFails
    PROVE  /\ failuresLeft' \in Nat /\ failuresLeft' <= MaxFailures
           /\ NoReadFailed' => NoReadFailed /\ NoFailure
<1>1. failuresLeft \in Nat /\ failuresLeft <= MaxFailures /\ MaxFailures \in Nat
  BY ConfigAssumption DEF SearchInv, TypeOK
<1> QED BY <1>1 DEF NoFailure, ReadFails, NoReadFailed

LEMMA CallEnds ==
    ASSUME SearchInv, NoFailure \/ ReadFails, pc' \in {"failed", "kept"},
           UNCHANGED <<call, targetTs, fromBlock, interval, walk, result>>
    PROVE  SearchInv'
<1>1. failuresLeft' \in Nat /\ failuresLeft' <= MaxFailures
  BY ReadsAreCounted
<1>2. TypeOK' /\ (chain \in Chains)'
  BY <1>1 DEF SearchInv, TypeOK, call, interval, walk, Phases
<1>3. CreationInv' /\ WalkInv' /\ BinaryInv' /\ ScrollInv' /\ ProbesAreSound' /\ ResultInRange' /\ ResultStandsForTarget'
  BY DEF CreationInv, WalkInv, BinaryInv, ScrollInv, ProbesAreSound, ResultInRange, ResultStandsForTarget
<1> QED BY <1>1, <1>2, <1>3 DEF SearchInv

Stands(b) ==
    /\ targetTs # 0 /\ NoReadFailed /\ ~TakesArbitrumPath
    /\ fromBlock <= HeadBlock /\ chain[HeadBlock] >= targetTs
    /\ network = "scroll" \/ (IsSteady /\ ProbesSuffice)
    => IsFirst(b, fromBlock) \/ IsClose(b)

LEMMA CallReturns ==
    ASSUME SearchInv, NoFailure, NEW b \in Nat, Return(b),
           targetTs = 0 => b = created,
           fromBlock <= HeadBlock => b \in fromBlock .. HeadBlock,
           Stands(b)
    PROVE  SearchInv'
<1>1. failuresLeft' \in Nat /\ failuresLeft' <= MaxFailures /\ failuresLeft' = failuresLeft
  BY ReadsAreCounted DEF NoFailure
<1>2. pc' = "done" /\ result' = b /\ UNCHANGED <<call, targetTs, fromBlock, interval, walk>>
  BY DEF Return
<1>3. TypeOK' /\ (chain \in Chains)'
  BY <1>1, <1>2 DEF SearchInv, TypeOK, call, interval, walk, Phases
<1>4. CreationInv' /\ WalkInv' /\ BinaryInv' /\ ScrollInv' /\ ProbesAreSound' /\ ResultInRange'
  BY <1>2 DEF CreationInv, WalkInv, BinaryInv, ScrollInv, ProbesAreSound, ResultInRange, call
<1>5. ResultStandsForTarget'
  BY <1>1, <1>2 DEF Stands, ResultStandsForTarget, NoReadFailed, TakesArbitrumPath, IsSteady, Drift, BlockTime,
     ProbesSuffice, IsFirst, IsClose, call, interval
<1> QED BY <1>1, <1>3, <1>4, <1>5 DEF SearchInv

LEMMA SearchBegins ==
    ASSUME SearchInv, NoFailure, NEW low \in Int, NEW high \in Int, SearchIn(low, high),
           targetTs # 0, network # "scroll",
           fromBlock <= low, low <= HeadBlock, high <= HeadBlock,
           IsSearchable => Encloses(low, high)
    PROVE  SearchInv'
<1>1. failuresLeft' \in Nat /\ failuresLeft' <= MaxFailures /\ failuresLeft' = failuresLeft
  BY ReadsAreCounted DEF NoFailure
<1>2. /\ pc' = "binary" /\ left' = low /\ right' = high /\ searchStart' = low /\ searchEnd' = high /\ iterations' = 0
      /\ UNCHANGED <<call, targetTs, fromBlock, walk, result>>
  BY DEF SearchIn
<1>3. TypeOK' /\ (chain \in Chains)'
  BY <1>1, <1>2, ConfigAssumption DEF SearchInv, TypeOK, call, walk, Phases
<1>4. CreationInv' /\ WalkInv' /\ ScrollInv' /\ ResultInRange' /\ ResultStandsForTarget'
  BY <1>2 DEF CreationInv, WalkInv, ScrollInv, ResultInRange, ResultStandsForTarget
<1>5. BinaryInv'
  <2>1. IsSearchable' => IsSearchable
    BY <1>2 DEF IsSearchable, TakesArbitrumPath, IsSteady, Drift, BlockTime, call
  <2>2. Encloses(low, high) => Encloses(low, high)'
    BY <1>2 DEF Encloses, call
  <2>3. IsSearchable' => Encloses(searchStart, searchEnd)'
    BY <2>1, <2>2, <1>2 DEF Encloses, call
  <2> QED BY <2>3, <1>2 DEF BinaryInv, call
<1>6. ProbesAreSound'
  <2>1. fromBlock \in Nat /\ MaxProbes \in Nat
    BY ConfigAssumption DEF SearchInv, TypeOK
  <2>2. MaxProbes - iterations' = MaxProbes
    BY <2>1, <1>2
  <2> QED BY <2>1, <2>2, <1>2 DEF ProbesAreSound, ProbesSuffice
<1> QED BY <1>1, <1>3, <1>4, <1>5, <1>6 DEF SearchInv

-----------------------------------------------------------------------------
(***************************************************************************)
(* The steps.                                                              *)
(***************************************************************************)
LEMMA CreationSteps ==
    ASSUME SearchInv, ProbeCode \/ CreationFound \/ CreationFails
    PROVE  SearchInv'
<1>1. /\ HeadBlock \in Nat /\ left \in Int /\ right \in Int /\ created \in 0 .. HeadBlock /\ pc = "creation"
      /\ targetTs = 0 /\ fromBlock = 0 /\ 0 <= left /\ left <= created /\ created <= right /\ right <= HeadBlock
  BY ChainAssumption DEF SearchInv, TypeOK, BlockNo, CreationInv, ProbeCode, CreationFound, CreationFails
<1>2. CASE ProbeCode
  <2>1. /\ failuresLeft' \in Nat /\ failuresLeft' <= MaxFailures /\ pc' = pc
        /\ UNCHANGED <<call, targetTs, fromBlock, searchStart, searchEnd, iterations, walk, result>>
    BY <1>2, ReadsAreCounted DEF ProbeCode
  <2>2. Mid \in Int /\ left <= Mid /\ Mid < right
    BY <1>1, <1>2, MidBetween DEF Mid, ProbeCode
  <2>3. /\ left' \in Int /\ right' \in Int
        /\ 0 <= left' /\ left' <= created /\ created <= right' /\ right' <= HeadBlock
    BY <1>1, <1>2, <2>2 DEF ProbeCode
  <2>4. TypeOK' /\ (chain \in Chains)'
    BY <2>1, <2>3 DEF SearchInv, TypeOK, call, walk
  <2>5. CreationInv' /\ WalkInv' /\ BinaryInv' /\ ScrollInv' /\ ProbesAreSound' /\ ResultInRange' /\ ResultStandsForTarget'
    BY <1>1, <2>1, <2>3
       DEF CreationInv, WalkInv, BinaryInv, ScrollInv, ProbesAreSound, ResultInRange, ResultStandsForTarget, call
  <2> QED BY <2>1, <2>4, <2>5 DEF SearchInv
<1>3. CASE CreationFound
  <2>1. left = created /\ left \in Nat
    BY <1>1, <1>3 DEF CreationFound
  <2>2. CASE Return(left)
    <3>1. left \in fromBlock .. HeadBlock /\ Stands(left)
      BY <1>1, <2>1 DEF Stands
    <3>2. NoFailure
      BY <1>3 DEF CreationFound
    <3>3. PICK b \in Nat : b = left
      BY <2>1
    <3> QED BY <1>1, <2>1, <2>2, <3>1, <3>2, <3>3, CallReturns
  <2>3. CASE /\ startDate >= chain[left] /\ pc' = "find" /\ targetTs' = startDate
             /\ UNCHANGED <<call, fromBlock, interval, walk, result>>
    <3>1. failuresLeft' \in Nat /\ failuresLeft' <= MaxFailures
      BY <1>3, ReadsAreCounted DEF CreationFound
    <3>2. startDate \in Nat \ {0}
      <4>1. startDate \in Instants \cup {NoDate} /\ chain[left] \in Nat
        BY <1>1, <2>1, ChainFacts DEF SearchInv, TypeOK
      <4> QED BY <4>1, <2>3, ChainAssumption DEF NoDate
    <3>3. TypeOK' /\ (chain \in Chains)'
      BY <2>3, <3>1, <3>2 DEF SearchInv, TypeOK, call, interval, walk, Phases
    <3>4. CreationInv' /\ WalkInv' /\ BinaryInv' /\ ScrollInv' /\ ProbesAreSound' /\ ResultInRange' /\ ResultStandsForTarget'
      BY <2>3, <3>2
         DEF CreationInv, WalkInv, BinaryInv, ScrollInv, ProbesAreSound, ResultInRange, ResultStandsForTarget
    <3> QED BY <3>1, <3>3, <3>4 DEF SearchInv
  <2> QED BY <1>3, <2>2, <2>3 DEF CreationFound
<1>4. CASE CreationFails
  <2>1. pc' \in {"failed", "kept"}
    BY <1>4 DEF CreationFails
  <2> QED BY <1>4, <2>1, CallEnds DEF CreationFails
<1> QED BY <1>2, <1>3, <1>4

LEMMA FindSteps ==
    ASSUME SearchInv, EstimateBlock \/ EstimateArbitrum \/ StartWalk \/ StartScroll
    PROVE  SearchInv'
<1>1. /\ pc = "find" /\ HeadBlock \in Nat /\ fromBlock \in Nat /\ targetTs \in Nat /\ targetTs # 0 /\ NoFailure
      /\ chain \in Chains /\ TypeOK /\ Near \in Nat
  BY ChainAssumption, ConfigAssumption
     DEF SearchInv, TypeOK, CreationInv, EstimateBlock, EstimateArbitrum, StartWalk, StartScroll
<1>2. TakesArbitrumPath => fromBlock <= HeadBlock
  <2>1. LongRange \in Nat
    BY ConfigAssumption
  <2> QED BY <1>1, <2>1 DEF TakesArbitrumPath
<1>3. CASE EstimateBlock
  <2>1. fromBlock <= HeadBlock /\ network # "scroll" /\ ~TakesArbitrumPath
    BY <1>3 DEF EstimateBlock
  <2>2. PICK e \in fromBlock .. HeadBlock : e = Estimate(fromBlock)
    BY <1>1, <2>1, EstimateInChain
  <2>3. CASE Abs(chain[e] - targetTs) < Slip /\ Return(e)
    <3>1. e \in Nat /\ Stands(e)
      BY <1>1, <2>2, <2>3 DEF Stands, IsClose
    <3> QED BY <1>1, <2>3, <3>1, CallReturns
  <2>4. CASE SearchIn(Low, High)
    <3>1. PICK low \in Int, high \in Int : low = Low /\ high = High
      BY <1>1, <2>1, EstimateEncloses
    <3>2. SearchIn(low, high)
      BY <2>4, <3>1
    <3>3. fromBlock <= low /\ low <= HeadBlock /\ high <= HeadBlock
      BY <1>1, <2>1, <3>1, EstimateEncloses
    <3>4. IsSearchable => Encloses(low, high)
      BY <1>1, <2>1, <3>1, EstimateEncloses DEF IsSearchable
    <3> QED BY <1>1, <2>1, <3>2, <3>3, <3>4, SearchBegins
  <2> QED BY <1>3, <2>2, <2>3, <2>4 DEF EstimateBlock, Low, High
<1>4. CASE EstimateArbitrum
  <2>1. TakesArbitrumPath /\ fromBlock <= HeadBlock /\ network # "scroll" /\ ~IsSearchable
    BY <1>2, <1>4 DEF EstimateArbitrum, TakesArbitrumPath, IsSearchable
  <2>2. PICK e \in fromBlock .. HeadBlock : e = Estimate(fromBlock)
    BY <1>1, <2>1, EstimateInChain
  <2>3. PICK n \in Nat : n = Round(Near, BlockTime(fromBlock))
    <3>1. PICK t \in Nat \ {0} : t = BlockTime(fromBlock)
      BY <1>1, <2>1, EstimateInChain
    <3>2. Round(Near, t) \in Int /\ Round(Near, t) >= 0
      BY <1>1, Rounding, RoundingUp
    <3> QED BY <3>1, <3>2
  <2>4. PICK low \in Int, high \in Int : low = AtLeast(fromBlock, e - n) /\ high = AtMost(HeadBlock, e + n)
    BY <1>1 DEF AtLeast, AtMost
  <2>5. fromBlock <= low /\ low <= HeadBlock /\ high <= HeadBlock
    BY <1>1, <2>1, <2>4 DEF AtLeast, AtMost
  <2>6. SearchIn(low, high)
    BY <1>4, <2>2, <2>3, <2>4 DEF EstimateArbitrum
  <2> QED BY <1>1, <2>1, <2>5, <2>6, SearchBegins
<1>5. CASE StartWalk
  <2>1. /\ failuresLeft' \in Nat /\ failuresLeft' <= MaxFailures /\ pc' = "walk" /\ current' = fromBlock
        /\ UNCHANGED <<call, targetTs, fromBlock, interval, nextBlock, result>>
    BY <1>5, ReadsAreCounted DEF StartWalk
  <2>2. TypeOK' /\ (chain \in Chains)'
    BY <1>1, <2>1 DEF SearchInv, TypeOK, call, interval, Phases
  <2>3. WalkInv'
    BY <1>1, <1>2, <1>5, <2>1 DEF WalkInv, TakesArbitrumPath, StartWalk, call
  <2>4. CreationInv' /\ BinaryInv' /\ ScrollInv' /\ ProbesAreSound' /\ ResultInRange' /\ ResultStandsForTarget'
    BY <1>1, <2>1 DEF CreationInv, BinaryInv, ScrollInv, ProbesAreSound, ResultInRange, ResultStandsForTarget
  <2> QED BY <2>1, <2>2, <2>3, <2>4 DEF SearchInv
<1>6. CASE StartScroll
  <2>1. /\ failuresLeft' \in Nat /\ failuresLeft' <= MaxFailures /\ pc' = "scroll" /\ network = "scroll"
        /\ left' = fromBlock /\ right' = HeadBlock /\ result' = fromBlock
        /\ UNCHANGED <<call, targetTs, fromBlock, searchStart, searchEnd, iterations, walk>>
    BY <1>6, ReadsAreCounted DEF StartScroll
  <2>2. TypeOK' /\ (chain \in Chains)'
    BY <1>1, <2>1 DEF SearchInv, TypeOK, call, walk, Phases
  <2>3. ScrollInv'
    BY <1>1, <2>1 DEF ScrollInv, call
  <2>4. CreationInv' /\ WalkInv' /\ BinaryInv' /\ ProbesAreSound' /\ ResultInRange' /\ ResultStandsForTarget'
    BY <1>1, <2>1 DEF CreationInv, WalkInv, BinaryInv, ProbesAreSound, ResultInRange, ResultStandsForTarget
  <2> QED BY <2>1, <2>2, <2>3, <2>4 DEF SearchInv
<1> QED BY <1>3, <1>4, <1>5, <1>6

LEMMA ProbeSteps ==
    ASSUME SearchInv, Probe \/ ProbeFails
    PROVE  SearchInv'
<1>1. /\ pc = "binary" /\ left \in Int /\ right \in Int /\ searchStart \in Int /\ searchEnd \in Int
      /\ HeadBlock \in Nat /\ fromBlock \in Nat /\ MaxProbes \in Nat /\ iterations \in Nat /\ targetTs \in Nat
      /\ left < right /\ iterations < MaxProbes /\ BinaryInv /\ ProbesAreSound /\ chain \in Chains
  BY ChainAssumption, ConfigAssumption DEF SearchInv, TypeOK, Probe, ProbeFails, Searching
<1>2. PICK m \in Int : m = Mid /\ left <= m /\ m < right
  BY <1>1, MidBetween DEF Mid
<1>3. /\ fromBlock <= searchStart /\ searchStart <= left /\ right <= searchEnd /\ searchEnd <= HeadBlock
      /\ m \in 0 .. HeadBlock /\ chain[m] \in Nat
  BY <1>1, <1>2, ChainFacts DEF BinaryInv
<1>4. /\ pc' = pc /\ iterations' = iterations + 1 /\ iterations' \in 0 .. MaxProbes
      /\ UNCHANGED <<call, targetTs, fromBlock, searchStart, searchEnd, walk, result>>
      /\ failuresLeft' \in Nat /\ failuresLeft' <= MaxFailures /\ (NoReadFailed' => NoReadFailed /\ NoFailure)
  BY <1>1, ReadsAreCounted DEF Probe, ProbeFails
<1>5. \/ left' = m + 1 /\ right' = right /\ (NoReadFailed' => chain[m] < targetTs)
      \/ left' = left /\ right' = m /\ chain[m] >= targetTs
  <2>1. failuresLeft \in Nat
    BY DEF SearchInv, TypeOK
  <2> QED BY <1>2, <1>4, <2>1 DEF Probe, ProbeFails, ReadFails, NoFailure
<1>6. TypeOK' /\ (chain \in Chains)'
  <2>1. left' \in Int /\ right' \in Int
    BY <1>1, <1>2, <1>5
  <2> QED BY <1>4, <2>1 DEF SearchInv, TypeOK, call, walk
<1>7. BinaryInv'
  <2>1. IsSearchable' => IsSearchable
    BY <1>4 DEF IsSearchable, TakesArbitrumPath, IsSteady, Drift, BlockTime, call
  <2>2. Encloses(searchStart, searchEnd) => Encloses(searchStart, searchEnd)'
    BY <1>4 DEF Encloses, call
  <2>3. /\ searchStart <= left' /\ left' <= HeadBlock /\ right' <= searchEnd
        /\ right' < searchEnd => searchStart <= right'
    BY <1>1, <1>2, <1>3, <1>5 DEF BinaryInv
  <2> QED BY <1>1, <1>4, <2>1, <2>2, <2>3 DEF BinaryInv, call
<1>8. ProbesAreSound'
  <2>1. right' < searchEnd => chain[right'] >= targetTs
    BY <1>1, <1>5 DEF ProbesAreSound
  <2>2. ASSUME NoReadFailed', NEW b \in searchStart .. left' - 1 PROVE chain[b] < targetTs
    <3>1. \A a \in searchStart .. left - 1 : chain[a] < targetTs
      BY <1>1, <1>4, <2>2 DEF ProbesAreSound
    <3>2. CASE b \in searchStart .. left - 1
      BY <3>1, <3>2
    <3>3. CASE b \notin searchStart .. left - 1
      <4>1. left' = m + 1 /\ chain[m] < targetTs /\ b <= m /\ b \in 0 .. HeadBlock
        BY <1>1, <1>2, <1>3, <1>5, <2>2, <3>3
      <4>2. chain[b] <= chain[m] /\ chain[b] \in Nat
        BY <4>1, <1>1, <1>3, ChainFacts
      <4> QED BY <4>1, <4>2, <1>1, <1>3
    <3> QED BY <3>2, <3>3
  <2>3. left' <= right' \/ left' = searchStart
    BY <1>1, <1>2, <1>5
  <2>4. ASSUME ProbesSuffice' PROVE right' - left' < 2 ^ (MaxProbes - iterations')
    <3>1. PICK n \in 0 .. MaxProbes : n = MaxProbes - iterations' /\ MaxProbes - iterations = n + 1
      BY <1>1, <1>4
    <3>2. right - left < 2 ^ (n + 1)
      <4>1. ProbesSuffice
        BY <2>4, <1>4 DEF ProbesSuffice
      <4> QED BY <4>1, <3>1, <1>1 DEF ProbesAreSound
    <3>3. PICK p \in Int : p = 2 ^ n /\ 2 ^ (n + 1) = 2 * p
      BY Powers
    <3>4. right - (m + 1) < p /\ m - left < p
      BY <3>2, <3>3, <1>1, <1>2, MidHalves DEF Mid
    <3> QED BY <3>1, <3>3, <3>4, <1>1, <1>2, <1>5
  <2> QED BY <2>1, <2>2, <2>3, <2>4, <1>4 DEF ProbesAreSound, call
<1>9. CreationInv' /\ WalkInv' /\ ScrollInv' /\ ResultInRange' /\ ResultStandsForTarget'
  BY <1>1, <1>4 DEF SearchInv, CreationInv, WalkInv, ScrollInv, ResultInRange, ResultStandsForTarget
<1> QED BY <1>4, <1>6, <1>7, <1>8, <1>9 DEF SearchInv

LEMMA SearchEndsStep ==
    ASSUME SearchInv, SearchEnds
    PROVE  SearchInv'
<1>1. /\ pc = "binary" /\ left \in Int /\ right \in Int /\ searchStart \in Int /\ searchEnd \in Int
      /\ HeadBlock \in Nat /\ fromBlock \in Nat /\ MaxProbes \in Nat /\ iterations \in 0 .. MaxProbes /\ targetTs \in Nat
      /\ left >= right \/ iterations >= MaxProbes
      /\ BinaryInv /\ ProbesAreSound /\ chain \in Chains /\ targetTs # 0 /\ NoFailure
  BY ChainAssumption, ConfigAssumption DEF SearchInv, TypeOK, SearchEnds, Searching, CreationInv
<1>2. /\ network # "scroll" /\ fromBlock <= searchStart /\ searchStart <= left /\ left <= HeadBlock
      /\ right <= searchEnd /\ searchEnd <= HeadBlock /\ (right < searchEnd => searchStart <= right)
      /\ (IsSearchable => Encloses(searchStart, searchEnd))
  BY <1>1 DEF BinaryInv
<1>3. left \in fromBlock .. HeadBlock /\ left \in Nat
  BY <1>1, <1>2
<1>4. Stands(left)
  <2> SUFFICES ASSUME NoReadFailed, ~TakesArbitrumPath, chain[HeadBlock] >= targetTs, IsSteady, ProbesSuffice
               PROVE  IsFirst(left, fromBlock)
    BY <1>2 DEF Stands
  <2>1. Encloses(searchStart, searchEnd)
    BY <1>2 DEF IsSearchable
  <2>2. left >= right
    <3>1. CASE iterations >= MaxProbes
      <4>1. MaxProbes - iterations = 0
        BY <3>1, <1>1
      <4>2. right - left < 2 ^ 0 /\ 2 ^ 0 = 1
        BY <4>1, <1>1, Powers DEF ProbesAreSound
      <4> QED BY <4>2, <1>1
    <3> QED BY <3>1, <1>1
  <2>3. \A b \in fromBlock .. left - 1 : chain[b] < targetTs
    <3>1. \A b \in fromBlock .. searchStart - 1 : chain[b] < targetTs
      BY <2>1 DEF Encloses
    <3>2. \A b \in searchStart .. left - 1 : chain[b] < targetTs
      BY <1>1 DEF ProbesAreSound
    <3> QED BY <3>1, <3>2, <1>1, <1>2
  <2>4. chain[left] >= targetTs
    <3>1. CASE searchStart = fromBlock /\ chain[searchStart] >= targetTs
      <4>1. left = searchStart
        <5>1. ASSUME left > searchStart PROVE FALSE
          <6>1. chain[searchStart] < targetTs
            BY <5>1, <2>3, <3>1, <1>1, <1>2
          <6>2. chain[searchStart] \in Nat
            BY <1>1, <1>2, ChainFacts
          <6> QED BY <6>1, <6>2, <3>1, <1>1
        <5> QED BY <5>1, <1>1, <1>2
      <4> QED BY <4>1, <3>1
    <3>2. CASE searchStart <= searchEnd /\ chain[searchEnd] >= targetTs
      <4>1. left = right
        BY <3>2, <2>2, <1>1, <1>2 DEF ProbesAreSound
      <4>2. CASE right < searchEnd
        BY <4>1, <4>2, <1>1 DEF ProbesAreSound
      <4>3. CASE right = searchEnd
        BY <4>1, <4>3, <3>2
      <4> QED BY <4>2, <4>3, <1>1, <1>2
    <3> QED BY <2>1, <3>1, <3>2 DEF Encloses
  <2> QED BY <2>3, <2>4, <1>3 DEF IsFirst
<1>5. PICK b \in Nat : b = left
  BY <1>3
<1> QED BY <1>1, <1>3, <1>4, <1>5, CallReturns DEF SearchEnds

LEMMA WalkSteps ==
    ASSUME SearchInv, Step \/ Arrive
    PROVE  SearchInv'
<1>1. /\ pc \in {"walk", "arrive"} /\ HeadBlock \in Nat /\ fromBlock \in Nat /\ targetTs \in Nat /\ targetTs # 0
      /\ TakesArbitrumPath /\ current \in fromBlock .. HeadBlock /\ nextBlock \in Nat
      /\ chain \in Chains /\ NoFailure /\ Near \in Nat
  BY ChainAssumption, ConfigAssumption DEF SearchInv, TypeOK, WalkInv, CreationInv, Step, Arrive
<1>2. current \in BlockNo /\ current \in Nat /\ chain[current] \in Nat
  BY <1>1, ChainFacts DEF BlockNo
<1>3. PICK t \in Nat \ {0}, last \in Nat :
         t = PeriodOf(current).avgBlockTime /\ last = PeriodOf(current).endBlock /\ current <= last
  BY <1>2, PeriodFound, BlockTimes DEF Period
<1>4. failuresLeft' \in Nat /\ failuresLeft' <= MaxFailures
  BY <1>1, ReadsAreCounted
<1>5. CASE pc = "walk" /\ Return(current)
  <2>1. Stands(current)
    BY <1>1 DEF Stands
  <2>2. PICK b \in Nat : b = current
    BY <1>2
  <2> QED BY <1>1, <1>5, <2>1, <2>2, CallReturns
<1>6. CASE /\ pc = "walk" /\ chain[current] < targetTs /\ pc' = "arrive"
           /\ nextBlock' = AtMost(HeadBlock, AtMost(PeriodOf(current).endBlock,
                current + Round(targetTs - chain[current], PeriodOf(current).avgBlockTime)))
           /\ UNCHANGED <<call, targetTs, fromBlock, interval, current, result>>
  <2>1. PICK d \in Nat : d = targetTs - chain[current]
    BY <1>1, <1>2, <1>6
  <2>2. PICK n \in Nat : n = Round(d, t)
    <3>1. Round(d, t) \in Int
      BY Rounding
    <3>2. Round(d, t) >= 0
      BY RoundingUp
    <3> QED BY <3>1, <3>2
  <2>3. nextBlock' = AtMost(HeadBlock, AtMost(last, current + n))
    BY <1>3, <1>6, <2>1, <2>2
  <2>4. nextBlock' \in current .. HeadBlock
    BY <2>3, <1>1, <1>2, <1>3 DEF AtMost
  <2>5. TypeOK' /\ (chain \in Chains)'
    BY <1>1, <1>2, <1>4, <1>6, <2>4 DEF SearchInv, TypeOK, call, interval, Phases
  <2>6. WalkInv'
    BY <1>1, <1>6, <2>4 DEF WalkInv, TakesArbitrumPath, call
  <2>7. CreationInv' /\ BinaryInv' /\ ScrollInv' /\ ProbesAreSound' /\ ResultInRange' /\ ResultStandsForTarget'
    BY <1>1, <1>6 DEF CreationInv, BinaryInv, ScrollInv, ProbesAreSound, ResultInRange, ResultStandsForTarget
  <2> QED BY <1>4, <2>5, <2>6, <2>7 DEF SearchInv
<1>7. CASE Arrive
  <2>1. pc = "arrive" /\ nextBlock \in current .. HeadBlock
    BY <1>7 DEF Arrive, SearchInv, WalkInv
  <2>2. PICK n \in Nat : n = Round(Near, t)
    <3>1. Round(Near, t) \in Int /\ Round(Near, t) >= 0
      BY <1>1, Rounding, RoundingUp
    <3> QED BY <3>1
  <2>3. PICK low \in Int, high \in Int : low = AtLeast(fromBlock, nextBlock - n) /\ high = AtMost(HeadBlock, nextBlock + n)
    BY <1>1 DEF AtLeast, AtMost
  <2>4. CASE SearchIn(low, high)
    <3>1. fromBlock <= low /\ low <= HeadBlock /\ high <= HeadBlock
      BY <1>1, <1>2, <2>1, <2>3 DEF AtLeast, AtMost
    <3>2. network # "scroll" /\ ~IsSearchable
      BY <1>1 DEF TakesArbitrumPath, IsSearchable
    <3> QED BY <1>1, <2>4, <3>1, <3>2, SearchBegins
  <2>5. CASE /\ pc' = "walk" /\ current' = nextBlock
             /\ UNCHANGED <<call, targetTs, fromBlock, interval, nextBlock, result>>
    <3>1. TypeOK' /\ (chain \in Chains)'
      BY <1>1, <1>4, <2>5 DEF SearchInv, TypeOK, call, interval, Phases
    <3>2. WalkInv'
      BY <1>1, <1>2, <2>1, <2>5 DEF WalkInv, TakesArbitrumPath, call
    <3>3. CreationInv' /\ BinaryInv' /\ ScrollInv' /\ ProbesAreSound' /\ ResultInRange' /\ ResultStandsForTarget'
      BY <1>1, <2>5 DEF CreationInv, BinaryInv, ScrollInv, ProbesAreSound, ResultInRange, ResultStandsForTarget
    <3> QED BY <1>4, <3>1, <3>2, <3>3 DEF SearchInv
  <2> QED BY <1>3, <1>7, <2>2, <2>3, <2>4, <2>5 DEF Arrive
<1> QED BY <1>5, <1>6, <1>7 DEF Step

LEMMA ScrollSteps ==
    ASSUME SearchInv, ScrollProbe \/ ScrollEnds
    PROVE  SearchInv'
<1>1. /\ pc = "scroll" /\ HeadBlock \in Nat /\ fromBlock \in Nat /\ targetTs \in Nat /\ targetTs # 0
      /\ left \in Int /\ right \in Int /\ result \in Nat /\ chain \in Chains /\ NoFailure
      /\ network = "scroll" /\ fromBlock <= left /\ right <= HeadBlock
      /\ fromBlock > HeadBlock => left > right
      /\ fromBlock <= HeadBlock =>
            /\ left <= right + 1 /\ result \in fromBlock .. HeadBlock
            /\ \A b \in fromBlock .. left - 1 : chain[b] < targetTs
            /\ right = HeadBlock \/ (result = right + 1 /\ chain[result] >= targetTs)
  BY ChainAssumption DEF SearchInv, TypeOK, ScrollInv, CreationInv, ScrollProbe, ScrollEnds
<1>2. CASE ScrollProbe
  <2>1. fromBlock <= HeadBlock /\ left <= right
    BY <1>1, <1>2 DEF ScrollProbe
  <2>2. PICK m \in Int : m = Mid /\ left <= m /\ m <= right
    BY <1>1, <2>1, MidWithin DEF Mid
  <2>3. m \in fromBlock .. HeadBlock /\ m \in 0 .. HeadBlock /\ chain[m] \in Nat
    BY <1>1, <2>1, <2>2, ChainFacts
  <2>4. /\ pc' = pc /\ UNCHANGED <<call, targetTs, fromBlock, searchStart, searchEnd, iterations, walk>>
        /\ failuresLeft' \in Nat /\ failuresLeft' <= MaxFailures
        /\ \/ chain[m] < targetTs /\ left' = m + 1 /\ right' = right /\ result' = result
           \/ chain[m] >= targetTs /\ result' = m /\ right' = m - 1 /\ left' = left
    BY <1>1, <1>2, <2>2, ReadsAreCounted DEF ScrollProbe
  <2>5. TypeOK' /\ (chain \in Chains)'
    <3>1. left' \in Int /\ right' \in Int /\ result' \in Nat
      BY <1>1, <2>2, <2>3, <2>4
    <3> QED BY <2>4, <3>1 DEF SearchInv, TypeOK, call, walk
  <2>6. ScrollInv'
    <3>1. ASSUME NEW b \in fromBlock .. left' - 1 PROVE chain[b] < targetTs
      <4>1. CASE b \in fromBlock .. left - 1
        BY <4>1, <1>1, <2>1
      <4>2. CASE b \notin fromBlock .. left - 1
        <5>1. left' = m + 1 /\ chain[m] < targetTs /\ b <= m /\ b \in 0 .. HeadBlock
          BY <4>2, <3>1, <1>1, <2>2, <2>3, <2>4
        <5>2. chain[b] <= chain[m] /\ chain[b] \in Nat
          BY <5>1, <1>1, <2>3, ChainFacts
        <5> QED BY <5>1, <5>2, <1>1, <2>3
      <4> QED BY <4>1, <4>2
    <3>2. fromBlock <= left' /\ right' <= HeadBlock /\ left' <= right' + 1 /\ result' \in fromBlock .. HeadBlock
      BY <1>1, <2>1, <2>2, <2>3, <2>4
    <3>3. right' = HeadBlock \/ (result' = right' + 1 /\ chain[result'] >= targetTs)
      BY <1>1, <2>1, <2>2, <2>3, <2>4
    <3> QED BY <1>1, <2>1, <2>4, <3>1, <3>2, <3>3 DEF ScrollInv, call
  <2>7. CreationInv' /\ WalkInv' /\ BinaryInv' /\ ProbesAreSound' /\ ResultInRange' /\ ResultStandsForTarget'
    BY <1>1, <2>4 DEF CreationInv, WalkInv, BinaryInv, ProbesAreSound, ResultInRange, ResultStandsForTarget
  <2> QED BY <2>4, <2>5, <2>6, <2>7 DEF SearchInv
<1>3. CASE ScrollEnds
  <2>1. left > right /\ Return(result)
    BY <1>3 DEF ScrollEnds
  <2>2. Stands(result)
    <3> SUFFICES ASSUME fromBlock <= HeadBlock, chain[HeadBlock] >= targetTs PROVE IsFirst(result, fromBlock)
      BY DEF Stands
    <3>1. left = right + 1
      BY <1>1, <2>1
    <3>2. right # HeadBlock
      <4>1. ASSUME right = HeadBlock PROVE FALSE
        <5>1. chain[HeadBlock] < targetTs
          BY <4>1, <3>1, <1>1
        <5>2. chain[HeadBlock] \in Nat
          BY <1>1, ChainFacts
        <5> QED BY <5>1, <5>2, <1>1
      <4> QED BY <4>1
    <3> QED BY <3>1, <3>2, <1>1 DEF IsFirst
  <2>3. PICK b \in Nat : b = result
    BY <1>1
  <2> QED BY <1>1, <2>1, <2>2, <2>3, CallReturns
<1> QED BY <1>2, <1>3

-----------------------------------------------------------------------------
(***************************************************************************)
(* The invariant and the theorems.                                         *)
(***************************************************************************)
LEMMA SearchInvInit == Init => SearchInv
<1> SUFFICES ASSUME Init PROVE SearchInv
  OBVIOUS
<1>1. /\ HeadBlock \in Nat /\ MaxProbes \in Nat /\ MaxFailures \in Nat /\ Instants \subseteq Nat \ {0}
      /\ chain \in Chains /\ chain \in [BlockNo -> Nat]
  BY ChainAssumption, ConfigAssumption DEF Init, StartFind, StartSource, Start
<1>2. TypeOK
  <2>1. /\ left \in Int /\ right \in Int /\ created \in BlockNo /\ targetTs \in Nat /\ fromBlock \in Nat
        /\ startDate \in Instants \cup {NoDate} /\ pc \in Phases
    <3>1. 0 \in BlockNo
      BY <1>1 DEF BlockNo
    <3>2. CASE StartFind
      BY <1>1, <3>1, <3>2 DEF StartFind, Phases
    <3>3. CASE StartSource
      BY <1>1, <3>1, <3>3 DEF StartSource, Phases
    <3> QED BY <3>2, <3>3 DEF Init
  <2>2. /\ network \in Networks /\ failuresLeft \in Nat /\ searchStart \in Int /\ searchEnd \in Int
        /\ iterations \in 0 .. MaxProbes /\ current \in Nat /\ nextBlock \in Nat /\ result \in Nat
    BY <1>1 DEF Init, StartFind, StartSource, Start
  <2> QED BY <1>1, <2>1, <2>2 DEF TypeOK
<1>3. CreationInv
  BY <1>1 DEF Init, StartFind, StartSource, CreationInv, BlockNo
<1>4. WalkInv /\ BinaryInv /\ ScrollInv /\ ProbesAreSound /\ ResultInRange /\ ResultStandsForTarget
  BY DEF Init, StartFind, StartSource, WalkInv, BinaryInv, ScrollInv, ProbesAreSound, ResultInRange,
     ResultStandsForTarget
<1> QED BY <1>1, <1>2, <1>3, <1>4, ConfigAssumption DEF SearchInv, Init, StartFind, StartSource, Start

LEMMA SearchInvStep == SearchInv /\ [Next]_vars => SearchInv'
<1> SUFFICES ASSUME SearchInv, [Next]_vars PROVE SearchInv'
  OBVIOUS
<1>1. CASE FindBeyondHead \/ FindFails \/ ArriveFails \/ ScrollFails
  BY <1>1, CallEnds DEF FindBeyondHead, FindFails, ArriveFails, ScrollFails, Throw
<1>2. CASE UNCHANGED vars
  <2>1. UNCHANGED <<call, targetTs, fromBlock, failuresLeft, pc, interval, walk, result>>
    BY <1>2 DEF vars
  <2>2. TypeOK' /\ (chain \in Chains)' /\ (failuresLeft <= MaxFailures)'
    BY <2>1 DEF SearchInv, TypeOK, call, interval, walk
  <2>3. CreationInv' /\ WalkInv' /\ BinaryInv' /\ ScrollInv'
    BY <2>1 DEF SearchInv, CreationInv, WalkInv, BinaryInv, ScrollInv, IsSearchable, Encloses, TakesArbitrumPath,
       IsSteady, Drift, BlockTime, call, interval, walk
  <2>4. ProbesAreSound' /\ ResultInRange' /\ ResultStandsForTarget'
    BY <2>1 DEF SearchInv, ProbesAreSound, ProbesSuffice, NoReadFailed, ResultInRange, ResultStandsForTarget,
       TakesArbitrumPath, IsSteady, Drift, BlockTime, IsFirst, IsClose, call, interval
  <2> QED BY <2>2, <2>3, <2>4 DEF SearchInv
<1> QED BY <1>1, <1>2, CreationSteps, FindSteps, ProbeSteps, SearchEndsStep, WalkSteps, ScrollSteps
       DEF Next, Progress, Failure

(* Every variable keeps its type: the interval stays within the chain, so  *)
(* that what is computed from its blocks is a block or a number again.     *)
THEOREM SearchTypes == Spec => []TypeOK
<1>1. SearchInv => TypeOK
  BY DEF SearchInv
<1> QED BY <1>1, SearchInvInit, SearchInvStep, PTL DEF Spec

(* What the probes of the binary search keep, on every chain: a probe that *)
(* fails can only make the answer late, and the probes are not used up     *)
(* before the interval is.                                                 *)
THEOREM ProbesKeepBounds == Spec => []ProbesAreSound
<1>1. SearchInv => ProbesAreSound
  BY DEF SearchInv
<1> QED BY <1>1, SearchInvInit, SearchInvStep, PTL DEF Spec

(* The block a collection starts from, when no date is asked for, is the   *)
(* first at which the contract has code.                                   *)
THEOREM CreationBlockIsRight == Spec => []CreationIsFound
<1>1. SearchInv => CreationIsFound
  BY DEF SearchInv, CreationInv, CreationIsFound
<1> QED BY <1>1, SearchInvInit, SearchInvStep, PTL DEF Spec

(* No search returns a block before the one it was told to start from, or  *)
(* one that is not of the chain, whatever reads fail: lastBlock of the day *)
(* loop never moves back.                                                  *)
THEOREM SearchNeverMovesBack == Spec => []ResultInRange
<1>1. SearchInv => ResultInRange
  BY DEF SearchInv
<1> QED BY <1>1, SearchInvInit, SearchInvStep, PTL DEF Spec

(* The block returned for an instant is the first that is not earlier, or  *)
(* one within the slip of it, if no read failed, the chain has come to the *)
(* instant, and the configured block time drifts no further than the       *)
(* margin absorbs; on Scroll, whatever the block time.                     *)
THEOREM BlockOfInstant == Spec => []ResultStandsForTarget
<1>1. SearchInv => ResultStandsForTarget
  BY DEF SearchInv
<1> QED BY <1>1, SearchInvInit, SearchInvStep, PTL DEF Spec

-----------------------------------------------------------------------------
(***************************************************************************)
(* The grid of the collectors.  ReserveSync and StatsSync take a search as *)
(* one step that returns any block of FoundBlocks, on a chain that mines a *)
(* block per tick.  Any other chain is read through its timestamps: its    *)
(* blocks are told apart there by when they were mined.                    *)
(***************************************************************************)
(* No two blocks in a row are further apart than the late slip, but one.   *)
MinesWithin(slip) == \A b \in 0 .. HeadBlock - 1 : chain[b + 1] <= chain[b] + slip + 1

(* What makes a search one that ends as it should.                         *)
IsReliable ==
    /\ NoReadFailed /\ ~TakesArbitrumPath
    /\ network = "scroll" \/ (IsSteady /\ ProbesSuffice)

FindsOnTheGrid ==
    /\ pc = "done" /\ targetTs # 0 /\ fromBlock <= HeadBlock /\ chain[HeadBlock] >= targetTs
    /\ IsReliable /\ MinesWithin(LateSlip)
    => chain[result] \in FoundBlocks(targetTs, chain[fromBlock], chain[HeadBlock])

LEMMA FindsBlocks ==
    ASSUME Slip <= EarlySlip + 1, Slip <= LateSlip + 1
    PROVE  SearchInv => FindsOnTheGrid
<1> SUFFICES ASSUME SearchInv, IsReliable, MinesWithin(LateSlip),
                    pc = "done", targetTs # 0, fromBlock <= HeadBlock, chain[HeadBlock] >= targetTs
             PROVE  chain[result] \in FoundBlocks(targetTs, chain[fromBlock], chain[HeadBlock])
  BY DEF FindsOnTheGrid
<1>1. /\ HeadBlock \in Nat /\ fromBlock \in Nat /\ targetTs \in Nat
      /\ Slip \in Nat /\ EarlySlip \in Nat /\ LateSlip \in Nat
  BY ChainAssumption, ConfigAssumption, GridAssumption DEF SearchInv, TypeOK
<1>2. result \in fromBlock .. HeadBlock
  BY DEF SearchInv, ResultInRange
<1>3. IsFirst(result, fromBlock) \/ IsClose(result)
  BY DEF SearchInv, ResultStandsForTarget, IsReliable
<1>4. /\ \A b \in 0 .. HeadBlock : chain[b] \in Nat
      /\ \A a, b \in 0 .. HeadBlock : a < b => chain[a] <= chain[b]
  BY ChainAssumption DEF SearchInv, TypeOK, BlockNo
<1>5. PICK r \in Nat : r = result /\ r \in 0 .. HeadBlock /\ fromBlock <= r
  BY <1>1, <1>2
<1>6. PICK ts, from, head \in Nat :
        ts = chain[r] /\ from = chain[fromBlock] /\ head = chain[HeadBlock]
  BY <1>1, <1>4, <1>5
<1>7. from <= ts /\ ts <= head
  <2>1. fromBlock \in 0 .. HeadBlock /\ HeadBlock \in 0 .. HeadBlock
    BY <1>1
  <2>2. fromBlock = r \/ chain[fromBlock] <= chain[r]
    BY <1>1, <1>4, <1>5, <2>1
  <2>3. r = HeadBlock \/ chain[r] <= chain[HeadBlock]
    BY <1>1, <1>4, <1>5, <2>1
  <2> QED BY <1>6, <2>2, <2>3
<1>8. CASE IsClose(result)
  <2>1. targetTs - EarlySlip <= ts /\ ts <= targetTs + LateSlip
    BY <1>1, <1>5, <1>6, <1>8 DEF IsClose, Abs
  <2> QED BY <1>1, <1>5, <1>6, <1>7, <2>1 DEF FoundBlocks
<1>9. CASE IsFirst(result, fromBlock)
  <2>1. ts >= targetTs /\ \A a \in fromBlock .. r - 1 : chain[a] < targetTs
    BY <1>5, <1>6, <1>9 DEF IsFirst
  <2>2. CASE r = fromBlock
    <3>1. ts = ExactBlock(targetTs, from)
      BY <1>1, <1>6, <2>1, <2>2 DEF ExactBlock
    <3> QED BY <1>1, <1>5, <1>6, <1>7, <3>1 DEF FoundBlocks
  <2>3. CASE r # fromBlock
    <3>1. PICK q \in 0 .. HeadBlock - 1 : r = q + 1 /\ q \in fromBlock .. r - 1
      <4>1. r - 1 \in 0 .. HeadBlock - 1 /\ r = (r - 1) + 1 /\ r - 1 \in fromBlock .. r - 1
        BY <1>1, <1>5, <2>3
      <4> QED BY <4>1
    <3>2. chain[q] < targetTs /\ chain[r] <= chain[q] + LateSlip + 1
      BY <2>1, <3>1 DEF MinesWithin
    <3>3. chain[q] \in Nat
      BY <1>1, <1>4, <3>1
    <3>4. targetTs - EarlySlip <= ts /\ ts <= targetTs + LateSlip
      BY <1>1, <1>6, <2>1, <3>2, <3>3
    <3> QED BY <1>1, <1>5, <1>6, <1>7, <3>4 DEF FoundBlocks
  <2> QED BY <2>2, <2>3
<1> QED BY <1>3, <1>8, <1>9

(* The searches are the step that the collectors take them for: where the  *)
(* slips of the grid cover the accepted error of an estimate and the time  *)
(* between two blocks, what a search returns, with no read failing and the *)
(* chain come to the instant, is one of FoundBlocks.                       *)
THEOREM SearchesFitTheGrid ==
    ASSUME Slip <= EarlySlip + 1, Slip <= LateSlip + 1
    PROVE  Spec => []FindsOnTheGrid
<1> QED BY FindsBlocks, SearchInvInit, SearchInvStep, PTL DEF Spec
=============================================================================
