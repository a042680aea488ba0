---------------------------- MODULE MCHistoryPages ----------------------------
(***************************************************************************)
(* An instance of HistoryPages for TLC: the tables hold the first day of   *)
(* both sources and the second of one.                                     *)
(***************************************************************************)
EXTENDS HistoryPages

MCRows ==
    {[id |-> 1, source |-> 1, date |-> 1], [id |-> 2, source |-> 2, date |-> 1]}
        \cup IF endpoint = "v2/stats" THEN {} ELSE {[id |-> 3, source |-> 1, date |-> 2]}
SpentOn(id, s, d, priced) == [id |-> id, source |-> s, date |-> d, priced |-> priced]
(* The statistics have the spends of every row; a market that has its      *)
(* statistics for the first time has reserves without spends; one that had *)
(* them before the column priceComp has unpriced spends, also on a day the *)
(* table has a price of, and a day that was stored again since.            *)
MCSpends ==
    CASE endpoint = "v2/stats" -> {{SpentOn(r.id, r.source, r.date, TRUE) : r \in MCRows}}
      [] endpoint = "v2/incentives" ->
           {{}, {SpentOn(1, 1, 1, FALSE), SpentOn(2, 1, 1, TRUE), SpentOn(3, 1, 2, FALSE)}}
      [] OTHER -> {{}}

MCInit ==
    /\ endpoint \in Endpoints
    /\ order \in IF endpoint \in Merged THEN {"DESC"} ELSE {"ASC", "DESC"}
    /\ rows = MCRows /\ spends \in MCSpends
    /\ compPrices \in IF endpoint = "v2/incentives" THEN {{}, {2}} ELSE {{}}
    /\ version = Cardinality(MCRows) /\ clears = 0
    /\ cache = [o \in Offsets |-> {}]
    /\ client = [c \in Clients |-> IdleClient]
MCSpec == MCInit /\ [][Next]_vars
=============================================================================
