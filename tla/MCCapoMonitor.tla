---------------------------- MODULE MCCapoMonitor ----------------------------
(* The monitoring of one oracle: alerts beside aggregations that end before *)
(* the next one, with Telegram and with one that lacks its credentials, and *)
(* aggregations that overlap while no check raises an alert.                *)
EXTENDS CapoMonitor

MCCases ==
    {[slots |-> 1, credentials |-> TRUE, checks |-> {"CAPPED", "SLOW_GROWTH", "PRICE_SPIKE"}],
     [slots |-> 1, credentials |-> FALSE, checks |-> {"CAPPED"}],
     [slots |-> 2, credentials |-> TRUE, checks |-> {}]}
=============================================================================
