----------------------------- MODULE DailyLedger -----------------------------
(***************************************************************************)
(* What the daily collection of reserves promises, without jobs, locks,    *)
(* entities or blocks: for every source a ledger of days, and a frontier.  *)
(*                                                                         *)
(* The frontier may claim a day only once the day is settled: recorded, or *)
(* given up after a failure.  A record, once made, stays until the whole   *)
(* ledger of its source is wiped, and that happens only while the frontier *)
(* claims nothing.                                                         *)
(***************************************************************************)
EXTENDS Integers

CONSTANTS
    Source,    \* the sources that are collected
    Instant,   \* the instants in reach: days and the starts that can be asked for
    IsDay(_)   \* which instants are days to be recorded

VARIABLES
    origin,    \* where the collection of a source was last asked to start
    frontier,  \* up to where it claims to be done
    recorded,  \* the days with a record
    givenUp    \* the days a failure took away

ledger == <<origin, frontier, recorded, givenUp>>

(* Every day of a source after from, up to and including to, is settled.   *)
Settled(s, from, to) ==
    \A d \in from + 1 .. to : IsDay(d) => d \in recorded[s] \cup givenUp[s]

Init ==
    /\ origin \in [Source -> Instant]
    /\ frontier = origin
    /\ recorded = [s \in Source |-> {}]
    /\ givenUp = [s \in Source |-> {}]

Record(s, d) ==
    /\ recorded' = [recorded EXCEPT ![s] = @ \cup {d}]
    /\ UNCHANGED <<origin, frontier, givenUp>>

GiveUp(s, d) ==
    /\ givenUp' = [givenUp EXCEPT ![s] = @ \cup {d}]
    /\ UNCHANGED <<origin, frontier, recorded>>

(* The frontier moves, forwards or back, over settled days.                *)
MoveFrontier(s, b) ==
    /\ Settled(s, origin[s], b)
    /\ frontier' = [frontier EXCEPT ![s] = b]
    /\ UNCHANGED <<origin, recorded, givenUp>>

(* The collection is asked to start again from b ...                       *)
Restart(s, b) ==
    /\ origin' = [origin EXCEPT ![s] = b]
    /\ frontier' = [frontier EXCEPT ![s] = b]
    /\ UNCHANGED <<recorded, givenUp>>

(* ... or merely to claim nothing up to b any more.                        *)
Narrow(s, b) ==
    /\ b > origin[s]
    /\ origin' = [origin EXCEPT ![s] = b]
    /\ UNCHANGED <<frontier, recorded, givenUp>>

Wipe(S) ==
    /\ \A s \in S : frontier[s] <= origin[s]
    /\ recorded' = [s \in Source |-> IF s \in S THEN {} ELSE recorded[s]]
    /\ UNCHANGED <<origin, frontier, givenUp>>

Next ==
    \/ \E s \in Source : \E n \in Instant :
          Record(s, n) \/ GiveUp(s, n) \/ MoveFrontier(s, n) \/ Restart(s, n) \/ Narrow(s, n)
    \/ \E S \in SUBSET Source : Wipe(S)

Spec == Init /\ [][Next]_ledger
=============================================================================
