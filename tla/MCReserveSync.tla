---------------------------- MODULE MCReserveSync ----------------------------
(***************************************************************************)
(* Instances of ReserveSync for TLC.                                       *)
(***************************************************************************)
EXTENDS ReserveSync

(* One server: the daily cron and the administrator share a lock.          *)
ServerJobs == {"cron", "admin"}
(* A server and the history:get command in a process of its own.           *)
TwoProcesses == {"cron", "cli"}

MCHostOf == [j \in Jobs |-> IF j = "cli" THEN "cliProcess" ELSE "server"]
MCKindOf == [j \in Jobs |-> IF j = "admin" THEN "reserves" ELSE "history"]

(* The cron is the one job that nobody has to start.                       *)
MCScheduled == {"cron"}

(* A comet market with reserves and statistics; a plain treasury wallet.   *)
OneMarket == <<<<"comet", "comet_stats">>>>
TwoSources == <<<<"comet", "comet_stats">>, <<"rewards">>>>
(* A market that source-fill creates while it crawls a Comptroller.        *)
CrawledMarket == <<<<"comptroller", "market_v2">>>>

MCCreation == [s \in Sources |-> s + 1]
=============================================================================
