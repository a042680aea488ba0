--------------------------- MODULE MCBlockSearch ---------------------------
(***************************************************************************)
(* Instances of BlockSearch for TLC: every chain of HeadBlock blocks whose *)
(* gaps are in Gaps.                                                       *)
(***************************************************************************)
EXTENDS BlockSearch

CONSTANT Gaps  \* seconds between a block and the next

ChainOf(gap) ==
    LET timestamp[b \in 0 .. HeadBlock] == IF b = 0 THEN 1 ELSE timestamp[b - 1] + gap[b]
    IN  timestamp
MCChains == {ChainOf(gap) : gap \in [1 .. HeadBlock -> Gaps]}

(* The first period is slower than the chain, the second faster.           *)
MCPeriods ==
    <<[startBlock |-> 0, endBlock |-> 3, avgBlockTime |-> 3],
      [startBlock |-> 4, endBlock |-> 99, avgBlockTime |-> 1]>>
=============================================================================
