---------------------------- MODULE MCSourceFill ----------------------------
(***************************************************************************)
(* Instances of SourceFill for TLC.                                        *)
(***************************************************************************)
EXTENDS SourceFill

(* The first entry is a Comptroller; both files name one rewards contract; *)
(* the market has the token of an entry, Comet and rewards share another.  *)
MCComptrollerOf == [m \in 1 .. NMarkets |-> 1]
MCRewardsOf == [p \in 1 .. NPaths |-> 1]
MCTokenOf ==
    [k \in Contracts |-> IF k.kind \in {"static", "market"} THEN "USDC" ELSE "COMP"]
LastFile == {Comet(NPaths)}

(* Two commands meet in a world that stands still; one command meets       *)
(* failures, and a world that changes.                                     *)
MCInit ==
    /\ Init
    /\ \/ Cardinality(mayRun) = 1 /\ faultsLeft = MaxFaults /\ changesLeft = MaxChanges
       \/ /\ mayRun = Commands /\ faultsLeft = 0 /\ changesLeft = 0
          /\ allMarkets = Markets /\ published = {Comet(1)}
MCSpec == MCInit /\ [][Next]_vars /\ Fairness
=============================================================================
