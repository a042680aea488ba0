-------------------------- MODULE SourceFill_proofs --------------------------
(***************************************************************************)
(* Proofs about SourceFill, for any contracts, tokens, commands and        *)
(* bounds: the type invariant; that commands that run one at a time insert *)
(* no contract and no token twice; that any number of commands that        *)
(* overlap insert a contract at most once each; and that a run that ends   *)
(* as completed has passed nothing over.                                   *)
(***************************************************************************)
EXTENDS SourceFill, TLAPS, FiniteSetTheorems, SequenceTheorems

MarketsOf(i) == {Market(m) : m \in {n \in 1 .. NMarkets : ComptrollerOf[n] = i}}

(* Where a command stands: what its local state holds at every point.      *)
AtMarkets(j) == j.at \in 1 .. NStatic /\ j.todo \subseteq MarketsOf(j.at) /\ j.path = {}
AtEntry(j) == j.todo = {} /\ j.path = {}
AtFiles(j) == j.at = NStatic + 1 /\ j.todo \subseteq Comets
AtFile(j, p) == AtFiles(j) /\ p \in Comets /\ p \notin j.todo /\ j.path = {p}

CreatesFor(j, k) ==
    \/ k.kind = "market" /\ AtMarkets(j) /\ k \in MarketsOf(j.at) /\ k \notin j.todo
    \/ k.kind = "static" /\ AtEntry(j) /\ k = Static(j.at) /\ j.at \in 1 .. NStatic
    \/ k.kind = "rewards" /\ \E p \in Comets : AtFile(j, p) /\ RewardsIn(p) = {k}
    \/ k.kind = "comet" /\ AtFile(j, k)

InPlace(j) ==
    \/ j.pc \in {"idle", "list"} /\ j = [IdleJob EXCEPT !.pc = j.pc]
    \/ j.pc = "entry" /\ AtEntry(j) /\ j.item = {}
    \/ j.pc = "markets" /\ AtMarkets(j) /\ j.item = {}
    \/ j.pc = "paths" /\ AtFiles(j) /\ j.path = {} /\ j.item = {}
    \/ j.pc \in {"rewards", "comet"} /\ j.item = {} /\ \E p \in Comets : AtFile(j, p)
    \/ j.pc \in Working /\ \E k \in Contracts : j.item = {k} /\ CreatesFor(j, k)

(* The asset in hand is a row of the table, of the token of the contract.  *)
AssetInHand(j) ==
    j.pc = "insert" =>
        \A k \in j.item : \E i \in 1 .. assets[TokenOf[k]] :
            j.asset = {[token |-> TokenOf[k], row |-> i]}

(* The contracts a command has yet to come to; of these it inserts the     *)
(* ones that it did not list, and the one in hand.                         *)
Ahead(j, k) ==
    \/ k.kind = "static" /\ k.n >= j.at
    \/ k.kind = "market" /\ (ComptrollerOf[k.n] > j.at \/ (ComptrollerOf[k.n] = j.at /\ j.pc = "entry"))
    \/ k.kind = "comet" /\ (j.at <= NStatic \/ j.pc = "entry" \/ k \in j.path)
    \/ k.kind \in {"market", "comet"} /\ k \in j.todo
MayInsert(j, k) ==
    /\ j.pc \notin {"idle", "list"}
    /\ k \in j.item \/ (k \notin j.dbSources /\ Ahead(j, k))

(* What a command has come past has its source, or is in the log.          *)
Settled(j, k) == HasSource(k) \/ k \in j.failed \/ k \in j.item
Accounts(j) ==
    /\ \A k \in j.dbSources : HasSource(k)
    /\ \A k \in Statics : k.n < j.at => HasSource(k)
    /\ \A k \in j.shown : Settled(j, k) \/ k \in j.todo \/ k \in j.path
    /\ \A p \in j.shown \cap Comets : \A k \in RewardsIn(p) :
          Settled(j, k) \/ p \in j.todo \/ (p \in j.path /\ j.pc = "rewards")

JobInv(j) == InPlace(j) /\ AssetInHand(j) /\ Accounts(j)
JobsInv == \A c \in Commands : JobInv(job[c])

(* One at a time, a command inserts what has no source, and creates the    *)
(* asset of a token that has none.                                         *)
Alone ==
    ~overlapped =>
        /\ \A c, d \in Commands : Running(c) /\ Running(d) => c = d
        /\ \A c \in Commands, k \in Contracts : MayInsert(job[c], k) => ~HasSource(k)
        /\ \A c \in Commands, k \in Contracts :
              job[c].pc = "create" /\ k \in job[c].item => assets[TokenOf[k]] = 0

(* A contract that has a source is inserted again by the commands that are *)
(* on their way to it, and by no other.                                    *)
Inserters(k) == {c \in Commands : MayInsert(job[c], k)}
RepeatsInv ==
    \A k \in Contracts : Len(sources[k]) + Cardinality(Inserters(k)) <= Cardinality(Commands)

FillInv ==
    /\ TypeOK /\ JobsInv /\ Alone /\ RepeatsInv
    /\ SourcesAreUnique /\ AssetsAreUnique /\ SourceHasItsAsset

-----------------------------------------------------------------------------
(***************************************************************************)
(* Contracts.                                                              *)
(***************************************************************************)
LEMMA KindsOfContracts ==
    /\ \A k \in Contracts : k.kind \in Kinds
    /\ \A k \in Contracts : k.kind = "static" => k \in Statics /\ k.n \in 1 .. NStatic /\ k = Static(k.n)
    /\ \A k \in Contracts : k.kind = "market" =>
          k \in Markets /\ k.n \in 1 .. NMarkets /\ ComptrollerOf[k.n] \in 1 .. NStatic
    /\ \A k \in Contracts : k.kind = "comet" => k \in Comets
    /\ \A k \in Comets : k \in Contracts /\ k.kind = "comet"
    /\ \A k \in Statics : k \in Contracts /\ k.kind = "static"
    /\ \A k \in Markets : k \in Contracts /\ k.kind = "market"
    /\ \A i \in 1 .. NStatic : Static(i) \in Statics /\ Static(i).n = i
    /\ \A i \in Int : \A k \in MarketsOf(i) : k \in Markets /\ ComptrollerOf[k.n] = i
    /\ \A p \in Comets : RewardsIn(p) \subseteq Contracts /\ \A k \in RewardsIn(p) : RewardsIn(p) = {k} /\ k.kind = "rewards"
<1>1. NStatic \in Nat /\ ComptrollerOf \in [1 .. NMarkets -> 1 .. NStatic] /\ RewardsOf \in [1 .. NPaths -> 0 .. NRewards]
  BY FillAssumption
<1>2. \A k \in Contracts :
         \/ \E i \in 1 .. NStatic : k = [kind |-> "static", n |-> i]
         \/ \E i \in 1 .. NMarkets : k = [kind |-> "market", n |-> i]
         \/ \E i \in 1 .. NPaths : k = [kind |-> "comet", n |-> i]
         \/ \E i \in 1 .. NRewards : k = [kind |-> "rewards", n |-> i]
  BY DEF Contracts, Statics, Markets, Comets, Static, Market, Comet, Rewards
<1>3. ASSUME NEW p \in Comets
      PROVE  RewardsIn(p) \subseteq Contracts /\ \A k \in RewardsIn(p) : RewardsIn(p) = {k} /\ k.kind = "rewards"
  <2>1. PICK i \in 1 .. NPaths : p = [kind |-> "comet", n |-> i]
    BY DEF Comets, Comet
  <2>2. RewardsOf[p.n] \in 0 .. NRewards
    BY <2>1, <1>1
  <2>3. RewardsOf[p.n] # 0 => RewardsOf[p.n] \in 1 .. NRewards
    BY <2>2, FillAssumption
  <2>4. RewardsIn(p) = IF RewardsOf[p.n] = 0 THEN {} ELSE {[kind |-> "rewards", n |-> RewardsOf[p.n]]}
    BY DEF RewardsIn, Rewards
  <2> QED BY <2>3, <2>4 DEF Contracts, Rewards
<1>4. \A i \in Int : \A k \in MarketsOf(i) : k \in Markets /\ ComptrollerOf[k.n] = i
  BY DEF MarketsOf, Markets, Market
<1>5. \A k \in Comets : k \in Contracts /\ k.kind = "comet"
  BY DEF Contracts, Comets, Comet
<1>6. \A k \in Statics : k \in Contracts /\ k.kind = "static"
  BY DEF Contracts, Statics, Static
<1>7. \A k \in Markets : k \in Contracts /\ k.kind = "market"
  BY DEF Contracts, Markets, Market
<1>8. \A k \in Contracts : k.kind \in Kinds
  BY <1>2 DEF Kinds
<1>9. \A k \in Contracts : k.kind = "static" => k \in Statics /\ k.n \in 1 .. NStatic /\ k = Static(k.n)
  BY <1>2 DEF Statics, Static
<1>10. \A k \in Contracts : k.kind = "market" =>
          k \in Markets /\ k.n \in 1 .. NMarkets /\ ComptrollerOf[k.n] \in 1 .. NStatic
  BY <1>1, <1>2 DEF Markets, Market
<1>11. \A k \in Contracts : k.kind = "comet" => k \in Comets
  BY <1>2 DEF Comets, Comet
<1>12. \A i \in 1 .. NStatic : Static(i) \in Statics /\ Static(i).n = i
  BY DEF Statics, Static
<1> QED BY <1>3, <1>4, <1>5, <1>6, <1>7, <1>8, <1>9, <1>10, <1>11, <1>12

-----------------------------------------------------------------------------
(***************************************************************************)
(* The steps of a command that change neither table.                       *)
(***************************************************************************)
Moved(c, r) ==
    /\ r \in JobState /\ job' = [job EXCEPT ![c] = r] /\ UNCHANGED database
    /\ JobInv(r)
    /\ \A k \in Contracts : MayInsert(r, k) => MayInsert(job[c], k) \/ ~HasSource(k)
    /\ \A k \in r.item : r.pc = "create" => assets[TokenOf[k]] = 0

LEMMA IdleJobInv ==
    /\ IdleJob \in JobState /\ [IdleJob EXCEPT !.pc = "list"] \in JobState
    /\ JobInv(IdleJob) /\ JobInv([IdleJob EXCEPT !.pc = "list"])
<1>1. NStatic \in Nat
  BY FillAssumption
<1>2. \A k \in Statics : k.n \in Int /\ k.n >= 1
  BY DEF Statics, Static
<1>3. IdleJob \in JobState /\ [IdleJob EXCEPT !.pc = "list"] \in JobState
  BY <1>1 DEF IdleJob, JobState
<1> QED BY <1>1, <1>2, <1>3 DEF IdleJob, JobInv, InPlace, AssetInHand, Accounts

LEMMA EndMoves ==
    ASSUME NEW c \in Commands, NEW r, r \in {IdleJob, [IdleJob EXCEPT !.pc = "list"]},
           Move(c, r), UNCHANGED database
    PROVE  Moved(c, r)
BY IdleJobInv DEF Moved, Move, MayInsert, IdleJob

LEMMA ListMoves ==
    ASSUME TypeOK, NEW c \in Commands, JobInv(job[c]), ListSources(c)
    PROVE  \E r : Moved(c, r)
<1> DEFINE r == [job[c] EXCEPT !.pc = "entry", !.dbSources = {k \in Contracts : HasSource(k)}]
<1>1. job[c] \in JobState /\ job[c] = [IdleJob EXCEPT !.pc = "list"]
  BY DEF TypeOK, ListSources, JobInv, InPlace, Working
<1>2. r \in JobState
  BY <1>1 DEF JobState
<1>3. \A k \in Statics : k.n \in Int /\ k.n >= 1
  BY DEF Statics, Static
<1>4. r.pc = "entry" /\ r.at = 1 /\ r.todo = {} /\ r.path = {} /\ r.item = {} /\ r.shown = {}
      /\ r.dbSources = {k \in Contracts : HasSource(k)}
  BY <1>1 DEF IdleJob, JobState
<1>5. JobInv(r)
  <2> HIDE DEF r
  <2>1. InPlace(r) /\ AssetInHand(r)
    BY <1>4 DEF InPlace, AtEntry, AssetInHand
  <2>2. Accounts(r)
    BY <1>3, <1>4 DEF Accounts
  <2> QED BY <2>1, <2>2 DEF JobInv
<1>6. Moved(c, r)
  BY <1>2, <1>4, <1>5 DEF Moved, ListSources, OnlyMoves, Move, MayInsert
<1> QED BY <1>6

LEMMA CrawlMoves ==
    ASSUME TypeOK, NEW c \in Commands, JobInv(job[c]), Crawl(c)
    PROVE  \E r : Moved(c, r)
<1> DEFINE j == job[c]
           markets == MarketsOf(j.at) \cap allMarkets
           r == [j EXCEPT !.pc = "markets", !.todo = markets, !.shown = @ \cup markets]
<1>1. j \in JobState /\ j.pc = "entry" /\ j.at \in Comptrollers /\ AtEntry(j) /\ j.item = {}
  BY DEF TypeOK, Crawl, JobInv, InPlace, Working
<1>2. j.at \in 1 .. NStatic
  BY <1>1, FillAssumption DEF Comptrollers
<1>3. markets \subseteq Markets /\ \A k \in markets : k \in Contracts /\ k.kind = "market" /\ ComptrollerOf[k.n] = j.at
  BY <1>2, KindsOfContracts
<1>4. r \in JobState
  BY <1>1, <1>3 DEF JobState
<1>5. r.pc = "markets" /\ r.todo = markets /\ r.shown = j.shown \cup markets /\ r.at = j.at /\ r.path = {}
      /\ r.item = {} /\ r.dbSources = j.dbSources /\ r.failed = j.failed
  BY <1>1 DEF JobState, AtEntry
<1>6. \A k \in Contracts : MayInsert(r, k) => MayInsert(j, k)
  <2> SUFFICES ASSUME NEW k \in Contracts, MayInsert(r, k) PROVE MayInsert(j, k)
    OBVIOUS
  <2>1. k \notin j.dbSources /\ Ahead(r, k)
    BY <1>5 DEF MayInsert
  <2>2. Ahead(j, k)
    BY <2>1, <1>1, <1>3, <1>5 DEF Ahead, AtEntry
  <2> QED BY <2>1, <2>2, <1>1 DEF MayInsert
<1>7. Accounts(r)
  <2>1. Accounts(j) /\ j.todo = {} /\ j.path = {}
    BY <1>1 DEF JobInv, AtEntry
  <2>2. \A k \in markets : k \notin Comets
    BY <1>3, KindsOfContracts
  <2> QED BY <2>1, <2>2, <1>1, <1>5 DEF Accounts, Settled
<1>8. InPlace(r) /\ AssetInHand(r)
  BY <1>2, <1>5 DEF InPlace, AtMarkets, AssetInHand
<1>9. Moved(c, r)
  BY <1>4, <1>5, <1>6, <1>7, <1>8 DEF Moved, JobInv, Crawl, OnlyMoves, Move, MarketsOf
<1> QED BY <1>9

LEMMA LookMarketMoves ==
    ASSUME TypeOK, NEW c \in Commands, JobInv(job[c]), LookMarket(c)
    PROVE  \E r : Moved(c, r)
<1> DEFINE j == job[c]
<1>1. j \in JobState /\ j.pc = "markets" /\ AtMarkets(j) /\ j.item = {} /\ Accounts(j)
  BY DEF TypeOK, LookMarket, JobInv, InPlace, Working
<1>2. PICK m \in j.todo :
         OnlyMoves(c, IF m \in j.dbSources THEN [j EXCEPT !.todo = @ \ {m}]
                      ELSE [j EXCEPT !.todo = @ \ {m}, !.pc = "asset", !.item = {m}])
  BY DEF LookMarket
<1> DEFINE r == IF m \in j.dbSources THEN [j EXCEPT !.todo = @ \ {m}]
                ELSE [j EXCEPT !.todo = @ \ {m}, !.pc = "asset", !.item = {m}]
<1>3. m \in Contracts /\ m.kind = "market" /\ m \in MarketsOf(j.at) /\ m \notin Comets
  BY <1>1, KindsOfContracts DEF AtMarkets
<1>4. r \in JobState
  BY <1>1, <1>2, <1>3 DEF JobState, Working
<1>5. /\ r.todo = j.todo \ {m} /\ r.at = j.at /\ r.path = {} /\ r.dbSources = j.dbSources
      /\ r.shown = j.shown /\ r.failed = j.failed
      /\ \/ m \in j.dbSources /\ r.pc = "markets" /\ r.item = {}
         \/ m \notin j.dbSources /\ r.pc = "asset" /\ r.item = {m}
  BY <1>1 DEF JobState, AtMarkets
<1>6. OnlyMoves(c, r)
  BY <1>2
<1> HIDE DEF r
<1>7. InPlace(r) /\ AssetInHand(r)
  BY <1>1, <1>3, <1>5 DEF InPlace, AtMarkets, AssetInHand, CreatesFor, Working
<1>8. Accounts(r)
  <2>1. \A k \in j.shown : Settled(r, k) \/ k \in r.todo \/ k \in r.path
    BY <1>1, <1>5 DEF Accounts, Settled, AtMarkets
  <2>2. \A p \in j.shown \cap Comets : \A k \in RewardsIn(p) :
           Settled(r, k) \/ p \in r.todo \/ (p \in r.path /\ r.pc = "rewards")
    BY <1>1, <1>3, <1>5 DEF Accounts, Settled, AtMarkets
  <2> QED BY <2>1, <2>2, <1>1, <1>5 DEF Accounts
<1>9. \A k \in Contracts : MayInsert(r, k) => MayInsert(j, k)
  BY <1>1, <1>3, <1>5 DEF MayInsert, Ahead, AtMarkets
<1>10. Moved(c, r)
  BY <1>4, <1>5, <1>6, <1>7, <1>8, <1>9 DEF Moved, JobInv, OnlyMoves, Move
<1> QED BY <1>10

LEMMA LookStaticMoves ==
    ASSUME TypeOK, NEW c \in Commands, JobInv(job[c]), LookStatic(c)
    PROVE  \E r : Moved(c, r)
<1> DEFINE j == job[c]
           r == IF Static(j.at) \in j.dbSources
                THEN [j EXCEPT !.pc = "entry", !.at = @ + 1]
                ELSE [j EXCEPT !.pc = "asset", !.item = {Static(j.at)}]
<1>1. /\ j \in JobState /\ j.pc \in {"entry", "markets"} /\ AtEntry(j) /\ j.item = {} /\ Accounts(j)
      /\ j.at \in 1 .. NStatic /\ NStatic \in Nat
      /\ j.pc = "entry" => j.at \notin Comptrollers
  <2>1. /\ j \in JobState /\ j.at <= NStatic
        /\ \/ j.pc = "entry" /\ j.at \notin Comptrollers
           \/ j.pc = "markets" /\ j.todo = {}
    BY DEF TypeOK, LookStatic
  <2>2. j.at \in 1 .. NStatic /\ NStatic \in Nat
    BY <2>1, FillAssumption DEF JobState
  <2>3. AtEntry(j) /\ j.item = {} /\ Accounts(j)
    BY <2>1 DEF JobInv, InPlace, AtMarkets, AtEntry, Working
  <2> QED BY <2>1, <2>2, <2>3
<1>2. Static(j.at) \in Contracts /\ Static(j.at).kind = "static" /\ Static(j.at).n = j.at
  BY <1>1, KindsOfContracts
<1>3. r \in JobState
  <2>1. j.at + 1 \in 1 .. NStatic + 1
    BY <1>1
  <2>2. [j EXCEPT !.pc = "entry", !.at = @ + 1] \in JobState
    BY <1>1, <2>1 DEF JobState
  <2>3. [j EXCEPT !.pc = "asset", !.item = {Static(j.at)}] \in JobState
    BY <1>1, <1>2 DEF JobState, Working
  <2> QED BY <2>2, <2>3
<1>4. /\ r.todo = {} /\ r.path = {} /\ r.dbSources = j.dbSources /\ r.shown = j.shown /\ r.failed = j.failed
      /\ \/ Static(j.at) \in j.dbSources /\ r.pc = "entry" /\ r.item = {} /\ r.at = j.at + 1
         \/ Static(j.at) \notin j.dbSources /\ r.pc = "asset" /\ r.item = {Static(j.at)} /\ r.at = j.at
  BY <1>1 DEF JobState, AtEntry
<1>5. OnlyMoves(c, r)
  BY DEF LookStatic
<1> HIDE DEF r
<1>6. InPlace(r) /\ AssetInHand(r)
  BY <1>1, <1>2, <1>4 DEF InPlace, AtEntry, AssetInHand, CreatesFor, Working
<1>7. Accounts(r)
  <2>1. ASSUME NEW k \in Statics, k.n < r.at PROVE HasSource(k)
    <3>1. k \in Contracts /\ k.n \in 1 .. NStatic /\ k = Static(k.n)
      BY KindsOfContracts
    <3>2. k.n < j.at \/ (k.n = j.at /\ k \in j.dbSources)
      BY <3>1, <2>1, <1>1, <1>4
    <3> QED BY <3>2, <1>1 DEF Accounts
  <2>2. \A k \in j.shown : Settled(r, k) \/ k \in r.todo \/ k \in r.path
    BY <1>1, <1>4 DEF Accounts, Settled, AtEntry
  <2>3. \A p \in j.shown \cap Comets : \A k \in RewardsIn(p) :
           Settled(r, k) \/ p \in r.todo \/ (p \in r.path /\ r.pc = "rewards")
    BY <1>1, <1>4 DEF Accounts, Settled, AtEntry
  <2> QED BY <2>1, <2>2, <2>3, <1>1, <1>4 DEF Accounts
<1>8. ASSUME NEW k \in Contracts, MayInsert(r, k) PROVE MayInsert(j, k)
  <2>1. CASE k.kind = "static"
    <3>1. k.n \in 1 .. NStatic /\ k = Static(k.n)
      BY <2>1, KindsOfContracts
    <3> QED BY <3>1, <2>1, <1>8, <1>1, <1>2, <1>4 DEF MayInsert, Ahead
  <2>2. CASE k.kind = "market"
    <3>1. ComptrollerOf[k.n] \in Comptrollers /\ ComptrollerOf[k.n] \in 1 .. NStatic
      BY <2>2, KindsOfContracts DEF Comptrollers
    <3> QED BY <3>1, <2>2, <1>8, <1>1, <1>2, <1>4 DEF MayInsert, Ahead
  <2>3. CASE k.kind \in {"comet", "rewards"}
    BY <2>3, <1>8, <1>1, <1>2, <1>4 DEF MayInsert, Ahead
  <2> QED BY <2>1, <2>2, <2>3, KindsOfContracts DEF Kinds
<1>9. Moved(c, r)
  BY <1>3, <1>4, <1>5, <1>6, <1>7, <1>8 DEF Moved, JobInv, OnlyMoves, Move
<1> QED BY <1>9

(* The files: a list is taken, a file is read, passed over, looked up.     *)
LEMMA TakeMoves ==
    ASSUME TypeOK, NEW c \in Commands, JobInv(job[c]), AtRoots(c),
           NEW list \in SUBSET Comets, TakeList(c, list), UNCHANGED database
    PROVE  \E r : Moved(c, r)
<1> DEFINE j == job[c]
           r == [j EXCEPT !.pc = "paths", !.todo = list, !.shown = @ \cup list]
<1>1. /\ j \in JobState /\ j.pc = "entry" /\ j.at = NStatic + 1 /\ AtEntry(j) /\ j.item = {} /\ Accounts(j)
      /\ NStatic \in Nat
  BY FillAssumption DEF TypeOK, AtRoots, JobInv, InPlace, Working
<1>a. \A k \in list : k \in Contracts /\ k.kind = "comet"
  BY KindsOfContracts
<1>2. r \in JobState
  BY <1>1, <1>a DEF JobState
<1>3. r.pc = "paths" /\ r.todo = list /\ r.shown = j.shown \cup list /\ r.at = j.at /\ r.path = {}
      /\ r.item = {} /\ r.dbSources = j.dbSources /\ r.failed = j.failed
  BY <1>1 DEF JobState, AtEntry
<1>4. job' = [job EXCEPT ![c] = r]
  BY DEF TakeList, Move
<1> HIDE DEF r
<1>5. InPlace(r) /\ AssetInHand(r)
  BY <1>1, <1>3 DEF InPlace, AtFiles, AssetInHand
<1>6. Accounts(r)
  BY <1>1, <1>3 DEF Accounts, Settled, AtEntry
<1>7. \A k \in Contracts : MayInsert(r, k) => MayInsert(j, k)
  BY <1>1, <1>a, <1>3 DEF MayInsert, Ahead, AtEntry
<1>8. Moved(c, r)
  BY <1>2, <1>3, <1>4, <1>5, <1>6, <1>7 DEF Moved, JobInv
<1> QED BY <1>8

LEMMA ReadRootsMoves ==
    ASSUME TypeOK, NEW c \in Commands, JobInv(job[c]), ReadRoots(c)
    PROVE  \E r : Moved(c, r)
<1> DEFINE j == job[c]
<1>1. j \in JobState /\ j.pc = "paths" /\ AtFiles(j) /\ j.path = {} /\ j.item = {} /\ Accounts(j)
  BY DEF TypeOK, ReadRoots, JobInv, InPlace, Working
<1>2. PICK p \in j.todo :
         OnlyMoves(c, [j EXCEPT !.pc = "rewards", !.path = {p}, !.todo = @ \ {p}])
  BY DEF ReadRoots
<1> DEFINE r == [j EXCEPT !.pc = "rewards", !.path = {p}, !.todo = @ \ {p}]
<1>3. p \in Comets
  BY <1>1, <1>2 DEF AtFiles
<1>4. r \in JobState
  BY <1>1, <1>3 DEF JobState
<1>5. r.pc = "rewards" /\ r.todo = j.todo \ {p} /\ r.path = {p} /\ r.shown = j.shown /\ r.at = j.at
      /\ r.item = {} /\ r.dbSources = j.dbSources /\ r.failed = j.failed
  BY <1>1 DEF JobState
<1>6. OnlyMoves(c, r)
  BY <1>2
<1> HIDE DEF r
<1>7. InPlace(r) /\ AssetInHand(r)
  BY <1>1, <1>3, <1>5 DEF InPlace, AtFiles, AtFile, AssetInHand
<1>8. Accounts(r)
  BY <1>1, <1>2, <1>5 DEF Accounts, Settled
<1>9. \A k \in Contracts : MayInsert(r, k) => MayInsert(j, k)
  BY <1>1, <1>2, <1>3, <1>5, KindsOfContracts DEF MayInsert, Ahead
<1>10. Moved(c, r)
  BY <1>4, <1>5, <1>6, <1>7, <1>8, <1>9 DEF Moved, JobInv, OnlyMoves, Move
<1> QED BY <1>10

LEMMA SkipFileMoves ==
    ASSUME TypeOK, NEW c \in Commands, JobInv(job[c]), SkipFile(c)
    PROVE  \E r : Moved(c, r)
<1> DEFINE j == job[c]
<1>1. j \in JobState /\ j.pc = "paths" /\ AtFiles(j) /\ j.path = {} /\ j.item = {} /\ Accounts(j)
  BY DEF TypeOK, SkipFile, JobInv, InPlace, Working
<1>2. PICK p \in j.todo :
         OnlyMoves(c, [j EXCEPT !.todo = @ \ {p}, !.failed = @ \cup {p} \cup RewardsIn(p)])
  BY DEF SkipFile
<1> DEFINE r == [j EXCEPT !.todo = @ \ {p}, !.failed = @ \cup {p} \cup RewardsIn(p)]
<1>3. p \in Comets /\ p \in Contracts /\ RewardsIn(p) \subseteq Contracts
  BY <1>1, <1>2, KindsOfContracts DEF AtFiles, JobState
<1>4. r \in JobState
  BY <1>1, <1>3 DEF JobState
<1>5. r.pc = "paths" /\ r.todo = j.todo \ {p} /\ r.path = {} /\ r.shown = j.shown /\ r.at = j.at
      /\ r.item = {} /\ r.dbSources = j.dbSources /\ r.failed = j.failed \cup {p} \cup RewardsIn(p)
  BY <1>1 DEF JobState
<1>6. OnlyMoves(c, r)
  BY <1>2
<1> HIDE DEF r
<1>7. InPlace(r) /\ AssetInHand(r)
  BY <1>1, <1>3, <1>5 DEF InPlace, AtFiles, AssetInHand
<1>8. Accounts(r)
  BY <1>1, <1>2, <1>5 DEF Accounts, Settled
<1>9. \A k \in Contracts : MayInsert(r, k) => MayInsert(j, k)
  BY <1>1, <1>2, <1>3, <1>5 DEF MayInsert, Ahead
<1>10. Moved(c, r)
  BY <1>4, <1>5, <1>6, <1>7, <1>8, <1>9 DEF Moved, JobInv, OnlyMoves, Move
<1> QED BY <1>10

LEMMA LookRewardsMoves ==
    ASSUME TypeOK, NEW c \in Commands, JobInv(job[c]), LookRewards(c)
    PROVE  \E r : Moved(c, r)
<1> DEFINE j == job[c]
<1>1. j \in JobState /\ j.pc = "rewards" /\ j.item = {} /\ Accounts(j)
  BY DEF TypeOK, LookRewards, JobInv, InPlace, Working
<1>2. PICK p \in Comets : AtFile(j, p)
  BY <1>1 DEF JobInv, InPlace, Working
<1> DEFINE missing == {k \in RewardsIn(p) : ~HasSource(k)}
           r == IF missing = {} THEN [j EXCEPT !.pc = "comet"]
                ELSE [j EXCEPT !.pc = "asset", !.item = missing]
<1>3. j.path = {p} /\ OnlyMoves(c, r)
  BY <1>2 DEF LookRewards, AtFile
<1>4. /\ missing \subseteq Contracts
      /\ \A k \in missing : missing = {k} /\ RewardsIn(p) = {k} /\ k.kind = "rewards"
  BY KindsOfContracts
<1>5. r \in JobState
  BY <1>1, <1>4 DEF JobState, Working
<1>6. /\ r.todo = j.todo /\ r.path = {p} /\ r.shown = j.shown /\ r.at = j.at
      /\ r.dbSources = j.dbSources /\ r.failed = j.failed
      /\ \/ missing = {} /\ r.pc = "comet" /\ r.item = {}
         \/ missing # {} /\ r.pc = "asset" /\ r.item = missing
  BY <1>1, <1>3 DEF JobState
<1> HIDE DEF r
<1>7. InPlace(r) /\ AssetInHand(r)
  <2>1. AtFile(r, p)
    BY <1>2, <1>6 DEF AtFile, AtFiles
  <2> QED BY <2>1, <1>2, <1>4, <1>6 DEF InPlace, AssetInHand, CreatesFor, Working
<1>8. Accounts(r)
  <2>1. \A q \in j.shown \cap Comets : \A k \in RewardsIn(q) :
           Settled(r, k) \/ q \in r.todo \/ (q \in r.path /\ r.pc = "rewards")
    BY <1>1, <1>3, <1>6 DEF Accounts, Settled
  <2> QED BY <2>1, <1>1, <1>3, <1>6 DEF Accounts, Settled
<1>9. \A k \in Contracts : MayInsert(r, k) => MayInsert(j, k) \/ ~HasSource(k)
  BY <1>1, <1>3, <1>6 DEF MayInsert, Ahead
<1>10. Moved(c, r)
  BY <1>3, <1>5, <1>6, <1>7, <1>8, <1>9 DEF Moved, JobInv, OnlyMoves, Move
<1> QED BY <1>10

LEMMA LookCometMoves ==
    ASSUME TypeOK, NEW c \in Commands, JobInv(job[c]), LookComet(c)
    PROVE  \E r : Moved(c, r)
<1> DEFINE j == job[c]
<1>1. j \in JobState /\ j.pc = "comet" /\ j.item = {} /\ Accounts(j)
  BY DEF TypeOK, LookComet, JobInv, InPlace, Working
<1>2. PICK p \in Comets : AtFile(j, p)
  BY <1>1 DEF JobInv, InPlace, Working
<1> DEFINE r == IF p \in j.dbSources THEN [j EXCEPT !.pc = "paths", !.path = {}]
                ELSE [j EXCEPT !.pc = "asset", !.item = {p}]
<1>3. j.path = {p} /\ OnlyMoves(c, r) /\ p \in Contracts /\ p.kind = "comet"
  <2>1. j.path = {p}
    BY <1>2 DEF AtFile
  <2>2. PICK q \in j.path :
           OnlyMoves(c, IF q \in j.dbSources THEN [j EXCEPT !.pc = "paths", !.path = {}]
                        ELSE [j EXCEPT !.pc = "asset", !.item = {q}])
    BY DEF LookComet
  <2>3. q = p
    BY <2>1, <2>2
  <2>4. OnlyMoves(c, r)
    BY <2>2, <2>3
  <2> QED BY <2>1, <2>4, KindsOfContracts
<1>4. r \in JobState
  BY <1>1, <1>3 DEF JobState, Working
<1>5. /\ r.todo = j.todo /\ r.shown = j.shown /\ r.at = j.at
      /\ r.dbSources = j.dbSources /\ r.failed = j.failed
      /\ \/ p \in j.dbSources /\ r.pc = "paths" /\ r.item = {} /\ r.path = {}
         \/ p \notin j.dbSources /\ r.pc = "asset" /\ r.item = {p} /\ r.path = {p}
  BY <1>1, <1>3 DEF JobState
<1> HIDE DEF r
<1>6. InPlace(r) /\ AssetInHand(r)
  BY <1>2, <1>3, <1>5 DEF InPlace, AssetInHand, CreatesFor, AtFile, AtFiles, Working
<1>7. Accounts(r)
  <2>1. \A k \in j.shown : Settled(r, k) \/ k \in r.todo \/ k \in r.path
    BY <1>1, <1>3, <1>5 DEF Accounts, Settled
  <2>2. \A q \in j.shown \cap Comets : \A k \in RewardsIn(q) :
           Settled(r, k) \/ q \in r.todo \/ (q \in r.path /\ r.pc = "rewards")
    BY <1>1, <1>3, <1>5 DEF Accounts, Settled
  <2> QED BY <2>1, <2>2, <1>1, <1>5 DEF Accounts
<1>8. \A k \in Contracts : MayInsert(r, k) => MayInsert(j, k)
  BY <1>1, <1>3, <1>5 DEF MayInsert, Ahead
<1>9. Moved(c, r)
  BY <1>3, <1>4, <1>5, <1>6, <1>7, <1>8 DEF Moved, JobInv, OnlyMoves, Move
<1> QED BY <1>9

(* The asset of the contract in hand is looked for.                        *)
LEMMA FindAssetMoves ==
    ASSUME TypeOK, NEW c \in Commands, JobInv(job[c]), FindAsset(c)
    PROVE  \E r : Moved(c, r)
<1> DEFINE j == job[c]
<1>1. j \in JobState /\ j.pc = "asset" /\ Accounts(j)
  BY DEF TypeOK, FindAsset, JobInv
<1>2. PICK k \in Contracts : j.item = {k} /\ CreatesFor(j, k)
  BY <1>1 DEF JobInv, InPlace, Working
<1>3. TokenOf[k] \in Tokens /\ assets[TokenOf[k]] \in Nat
  BY FillAssumption DEF TypeOK
<1>4. ASSUME NEW r \in JobState, OnlyMoves(c, r), r.pc \in {"create", "insert"}, AssetInHand(r),
             r.pc = "create" => assets[TokenOf[k]] = 0,
             r.at = j.at, r.todo = j.todo, r.path = j.path, r.item = j.item, r.dbSources = j.dbSources,
             r.shown = j.shown, r.failed = j.failed
      PROVE  Moved(c, r)
  <2>1. CreatesFor(r, k)
    BY <1>2, <1>4 DEF CreatesFor, AtMarkets, AtEntry, AtFile, AtFiles
  <2>2. InPlace(r)
    BY <2>1, <1>2, <1>4 DEF InPlace, Working
  <2>3. Accounts(r)
    BY <1>1, <1>4 DEF Accounts, Settled
  <2>4. \A x \in Contracts : MayInsert(r, x) => MayInsert(j, x)
    BY <1>1, <1>4 DEF MayInsert, Ahead
  <2> QED BY <2>2, <2>3, <2>4, <1>2, <1>4 DEF Moved, JobInv, OnlyMoves, Move
<1>5. ASSUME NEW i \in 1 .. assets[TokenOf[k]],
             OnlyMoves(c, [j EXCEPT !.pc = "insert", !.asset = {[token |-> TokenOf[k], row |-> i]}])
      PROVE  \E r : Moved(c, r)
  <2> DEFINE r == [j EXCEPT !.pc = "insert", !.asset = {[token |-> TokenOf[k], row |-> i]}]
  <2>1. [token |-> TokenOf[k], row |-> i] \in Asset
    BY <1>3 DEF Asset
  <2>2. r \in JobState
    BY <1>1, <2>1 DEF JobState, Working
  <2>3. /\ r.pc = "insert" /\ r.asset = {[token |-> TokenOf[k], row |-> i]}
        /\ r.at = j.at /\ r.todo = j.todo /\ r.path = j.path /\ r.item = j.item /\ r.dbSources = j.dbSources
        /\ r.shown = j.shown /\ r.failed = j.failed
    BY <1>1 DEF JobState
  <2> HIDE DEF r
  <2>4. AssetInHand(r)
    BY <2>3, <1>2 DEF AssetInHand
  <2>5. OnlyMoves(c, r)
    BY <1>5 DEF r
  <2>6. Moved(c, r)
    BY <1>4, <2>2, <2>3, <2>4, <2>5
  <2> QED BY <2>6
<1>6. ASSUME assets[TokenOf[k]] = 0, OnlyMoves(c, [j EXCEPT !.pc = "create"])
      PROVE  \E r : Moved(c, r)
  <2> DEFINE r == [j EXCEPT !.pc = "create"]
  <2>1. r \in JobState
    BY <1>1 DEF JobState, Working
  <2>2. /\ r.pc = "create"
        /\ r.at = j.at /\ r.todo = j.todo /\ r.path = j.path /\ r.item = j.item /\ r.dbSources = j.dbSources
        /\ r.shown = j.shown /\ r.failed = j.failed
    BY <1>1 DEF JobState
  <2>3. AssetInHand(r)
    BY <2>2 DEF AssetInHand
  <2>4. Moved(c, r)
    BY <1>4, <1>6, <2>1, <2>2, <2>3
  <2> QED BY <2>4
<1> QED BY <1>2, <1>5, <1>6 DEF FindAsset

(* A file is given up with the contract in hand and what it names.         *)
LEMMA GiveUpFileMoves ==
    ASSUME TypeOK, NEW c \in Commands, JobInv(job[c]), GiveUpFile(c)
    PROVE  \E r : Moved(c, r)
<1> DEFINE j == job[c]
           lost == j.path \cup UNION {RewardsIn(p) : p \in j.path}
           r == [j EXCEPT !.pc = "paths", !.path = {}, !.item = {}, !.asset = {},
                          !.failed = @ \cup j.path \cup UNION {RewardsIn(p) : p \in j.path}]
<1>1. j \in JobState /\ OnFile(c) /\ Accounts(j) /\ OnlyMoves(c, r)
  BY DEF TypeOK, GiveUpFile, JobInv
<1>2. PICK p \in Comets : AtFile(j, p) /\ j.item \subseteq {p} \cup RewardsIn(p)
                          /\ j.pc \notin {"idle", "list"}
  <2>1. CASE j.pc \in {"rewards", "comet"}
    BY <2>1 DEF JobInv, InPlace, Working
  <2>2. CASE j.pc \in Working /\ \E k \in j.item : k.kind \in {"rewards", "comet"}
    <3>1. PICK k \in Contracts : j.item = {k} /\ CreatesFor(j, k)
      BY <2>2 DEF JobInv, InPlace, Working
    <3>2. k.kind \in {"rewards", "comet"}
      BY <2>2, <3>1
    <3>3. CASE k.kind = "rewards"
      BY <2>2, <3>1, <3>3 DEF CreatesFor, Working
    <3>4. CASE k.kind = "comet"
      BY <2>2, <3>1, <3>4 DEF CreatesFor, AtFile, Working
    <3> QED BY <3>2, <3>3, <3>4
  <2> QED BY <1>1, <2>1, <2>2 DEF OnFile
<1>3. p \in Contracts /\ RewardsIn(p) \subseteq Contracts /\ j.path = {p} /\ lost = {p} \cup RewardsIn(p)
  BY <1>2, KindsOfContracts DEF AtFile
<1>4. r \in JobState
  <2>1. j.failed \cup j.path \cup UNION {RewardsIn(q) : q \in j.path} \subseteq Contracts
    BY <1>1, <1>3 DEF JobState
  <2> QED BY <1>1, <2>1 DEF JobState
<1>5. r.pc = "paths" /\ r.todo = j.todo /\ r.path = {} /\ r.shown = j.shown /\ r.at = j.at
      /\ r.item = {} /\ r.dbSources = j.dbSources /\ r.failed = j.failed \cup lost
  BY <1>1 DEF JobState
<1> HIDE DEF r, lost
<1>6. InPlace(r) /\ AssetInHand(r)
  BY <1>2, <1>5 DEF InPlace, AtFile, AtFiles, AssetInHand
<1>7. Accounts(r)
  <2>1. \A k \in j.shown : Settled(r, k) \/ k \in r.todo \/ k \in r.path
    BY <1>1, <1>2, <1>3, <1>5 DEF Accounts, Settled
  <2>2. \A q \in j.shown \cap Comets : \A k \in RewardsIn(q) :
           Settled(r, k) \/ q \in r.todo \/ (q \in r.path /\ r.pc = "rewards")
    BY <1>1, <1>2, <1>3, <1>5 DEF Accounts, Settled
  <2> QED BY <2>1, <2>2, <1>1, <1>5 DEF Accounts
<1>8. \A k \in Contracts : MayInsert(r, k) => MayInsert(j, k)
  BY <1>1, <1>2, <1>3, <1>5 DEF MayInsert, Ahead, AtFile, AtFiles
<1>9. OnlyMoves(c, r)
  BY <1>1
<1>10. Moved(c, r)
  BY <1>4, <1>5, <1>6, <1>7, <1>8, <1>9 DEF Moved, JobInv, OnlyMoves, Move
<1> QED BY <1>10

-----------------------------------------------------------------------------
(***************************************************************************)
(* What a step of one command means for the others and for the tables.     *)
(***************************************************************************)
TablesGrow ==
    /\ \A t \in Tokens : assets[t] <= assets'[t]
    /\ \A k \in Contracts : HasSource(k) => HasSource(k)'

LEMMA OthersKeep ==
    ASSUME TypeOK, assets' \in [Tokens -> Nat], TablesGrow,
           NEW c \in Commands, NEW r, r = job[c], r = job'[c], JobInv(r)
    PROVE  JobInv(r)'
<1>1. r \in JobState
  BY DEF TypeOK
<1>2. InPlace(r)'
  BY DEF JobInv, InPlace
<1>3. AssetInHand(r)'
  <2> SUFFICES ASSUME r.pc = "insert", NEW k \in r.item
               PROVE  \E i \in 1 .. assets'[TokenOf[k]] : r.asset = {[token |-> TokenOf[k], row |-> i]}
    BY DEF AssetInHand
  <2>1. PICK i \in 1 .. assets[TokenOf[k]] : r.asset = {[token |-> TokenOf[k], row |-> i]}
    BY DEF JobInv, AssetInHand
  <2>2. k \in Contracts /\ TokenOf[k] \in Tokens
    BY <1>1, FillAssumption DEF JobState
  <2>3. assets[TokenOf[k]] \in Nat /\ assets'[TokenOf[k]] \in Nat /\ assets[TokenOf[k]] <= assets'[TokenOf[k]]
    BY <2>2 DEF TypeOK, TablesGrow
  <2>4. i \in 1 .. assets'[TokenOf[k]]
    BY <2>3
  <2> QED BY <2>1, <2>4
<1>4. Accounts(r)'
  <2>1. r.dbSources \subseteq Contracts /\ r.shown \subseteq Contracts /\ Statics \subseteq Contracts
    BY <1>1, KindsOfContracts DEF JobState
  <2>2. \A k \in Contracts : Settled(r, k) => Settled(r, k)'
    BY DEF Settled, TablesGrow
  <2>3. \A p \in Comets : RewardsIn(p) \subseteq Contracts
    BY KindsOfContracts
  <2> QED BY <2>1, <2>2, <2>3 DEF JobInv, Accounts, TablesGrow
<1> QED BY <1>2, <1>3, <1>4 DEF JobInv

LEMMA InsertersAreFinite ==
    ASSUME NEW k \in Contracts
    PROVE  /\ IsFiniteSet(Commands) /\ Cardinality(Commands) \in Nat
           /\ IsFiniteSet(Inserters(k)) /\ Cardinality(Inserters(k)) \in Nat
           /\ Cardinality(Inserters(k)) <= Cardinality(Commands)
           /\ IsFiniteSet(Inserters(k)') /\ Cardinality(Inserters(k)') \in Nat
           /\ Cardinality(Inserters(k)') <= Cardinality(Commands)
<1>1. IsFiniteSet(Commands) /\ Cardinality(Commands) \in Nat
  BY FillAssumption, FS_CardinalityType
<1>2. Inserters(k) \in SUBSET Commands /\ Inserters(k)' \in SUBSET Commands
  BY DEF Inserters
<1>3. IsFiniteSet(Inserters(k)) /\ Cardinality(Inserters(k)) <= Cardinality(Commands)
  BY <1>1, <1>2, FS_Subset
<1>4. IsFiniteSet(Inserters(k)') /\ Cardinality(Inserters(k)') <= Cardinality(Commands)
  BY <1>1, <1>2, FS_Subset
<1> QED BY <1>1, <1>3, <1>4, FS_CardinalityType

LEMMA MovedKeeps ==
    ASSUME FillInv, NEW c \in Commands, NEW r, Moved(c, r),
           ~overlapped' => ~overlapped /\ \A d \in Commands : Running(d) => d = c
    PROVE  /\ job' \in [Commands -> JobState] /\ JobsInv' /\ Alone' /\ RepeatsInv'
           /\ SourcesAreUnique' /\ AssetsAreUnique' /\ SourceHasItsAsset'
<1>1. /\ TypeOK /\ job \in [Commands -> JobState] /\ r \in JobState
      /\ job' = [job EXCEPT ![c] = r] /\ assets' = assets /\ sources' = sources
  BY DEF FillInv, TypeOK, Moved, database
<1>2. job' \in [Commands -> JobState] /\ job'[c] = r /\ \A d \in Commands \ {c} : job'[d] = job[d]
  BY <1>1
<1>3. TablesGrow /\ assets' \in [Tokens -> Nat] /\ \A k \in Contracts : HasSource(k)' <=> HasSource(k)
  BY <1>1 DEF TablesGrow, HasSource, TypeOK
<1>4. JobsInv'
  <2>1. JobInv(r)'
    BY <1>1 DEF Moved, JobInv, InPlace, AssetInHand, Accounts, Settled, HasSource
  <2>2. ASSUME NEW d \in Commands \ {c} PROVE JobInv(job[d])'
    <3>1. JobInv(job[d])
      BY DEF FillInv, JobsInv
    <3> QED BY <3>1, <1>1, <1>2, <1>3, OthersKeep
  <2> QED BY <1>2, <2>1, <2>2 DEF JobsInv
<1>5. Alone'
  <2> SUFFICES ASSUME ~overlapped'
               PROVE  /\ \A a, b \in Commands : Running(a)' /\ Running(b)' => a = b
                      /\ \A d \in Commands, k \in Contracts : MayInsert(job'[d], k) => ~HasSource(k)
                      /\ \A d \in Commands, k \in Contracts :
                            job'[d].pc = "create" /\ k \in job'[d].item => assets[TokenOf[k]] = 0
    BY <1>1, <1>3 DEF Alone, MayInsert, Ahead
  <2>1. \A d \in Commands \ {c} : job[d].pc = "idle" /\ job'[d].pc = "idle"
    BY <1>2 DEF Running
  <2>2. \A a, b \in Commands : Running(a)' /\ Running(b)' => a = b
    BY <2>1 DEF Running
  <2>3. \A k \in Contracts : MayInsert(job[c], k) => ~HasSource(k)
    BY DEF FillInv, Alone
  <2>4. \A k \in Contracts : MayInsert(r, k) => ~HasSource(k)
    BY <2>3 DEF Moved
  <2>5. \A k \in r.item : r.pc = "create" => assets[TokenOf[k]] = 0
    BY DEF Moved
  <2> QED BY <1>2, <2>1, <2>2, <2>4, <2>5 DEF MayInsert
<1>6. RepeatsInv'
  <2> SUFFICES ASSUME NEW k \in Contracts
               PROVE  Len(sources[k]) + Cardinality(Inserters(k)') <= Cardinality(Commands)
    BY <1>1 DEF RepeatsInv
  <2>1. Len(sources[k]) \in Nat /\ (~HasSource(k) => Len(sources[k]) = 0)
    BY DEF FillInv, TypeOK, HasSource
  <2>2. CASE ~HasSource(k)
    BY <2>1, <2>2, InsertersAreFinite
  <2>3. CASE HasSource(k)
    <3>1. \A d \in Commands : MayInsert(job'[d], k) => MayInsert(job[d], k)
      BY <1>2, <2>3 DEF Moved
    <3>2. Inserters(k)' \in SUBSET Inserters(k)
      BY <3>1 DEF Inserters, MayInsert, Ahead
    <3>3. Cardinality(Inserters(k)') <= Cardinality(Inserters(k))
      BY <3>2, InsertersAreFinite, FS_Subset
    <3>4. Len(sources[k]) + Cardinality(Inserters(k)) <= Cardinality(Commands)
      BY DEF FillInv, RepeatsInv
    <3> QED BY <2>1, <3>3, <3>4, InsertersAreFinite
  <2> QED BY <2>2, <2>3
<1>7. SourcesAreUnique' /\ AssetsAreUnique' /\ SourceHasItsAsset'
  BY <1>1 DEF FillInv, SourcesAreUnique, AssetsAreUnique, SourceHasItsAsset
<1> QED BY <1>2, <1>4, <1>5, <1>6, <1>7

-----------------------------------------------------------------------------
(***************************************************************************)
(* The two inserts.                                                        *)
(***************************************************************************)
LEMMA CreateAssetKeeps ==
    ASSUME FillInv, NEW c \in Commands, CreateAsset(c)
    PROVE  /\ assets' \in [Tokens -> Nat] /\ job' \in [Commands -> JobState]
           /\ JobsInv' /\ Alone' /\ RepeatsInv'
           /\ SourcesAreUnique' /\ AssetsAreUnique' /\ SourceHasItsAsset'
<1> DEFINE j == job[c]
<1>1. /\ TypeOK /\ JobInv(j) /\ j \in JobState /\ j.pc = "create"
      /\ sources' = sources /\ overlapped' = overlapped
  BY DEF FillInv, JobsInv, TypeOK, CreateAsset
<1>2. PICK k \in Contracts : j.item = {k} /\ CreatesFor(j, k)
  BY <1>1 DEF JobInv, InPlace, Working
<1> DEFINE t == TokenOf[k]
           new == [token |-> t, row |-> assets[t] + 1]
<1>r. PICK r : r = [j EXCEPT !.pc = "insert", !.asset = {new}]
  OBVIOUS
<1>3. t \in Tokens /\ assets[t] \in Nat /\ assets \in [Tokens -> Nat]
  BY <1>1, FillAssumption DEF TypeOK
<1>4. assets' = [assets EXCEPT ![t] = @ + 1] /\ job' = [job EXCEPT ![c] = r]
  BY <1>2, <1>r DEF CreateAsset, Move
<1>5. r \in JobState
  <2>1. new \in Asset
    BY <1>3 DEF Asset
  <2> QED BY <2>1, <1>1, <1>r DEF JobState, Working
<1>6. /\ r.pc = "insert" /\ r.asset = {new}
      /\ r.at = j.at /\ r.todo = j.todo /\ r.path = j.path /\ r.item = j.item /\ r.dbSources = j.dbSources
      /\ r.shown = j.shown /\ r.failed = j.failed
  BY <1>1, <1>r DEF JobState
<1>7. assets' \in [Tokens -> Nat] /\ assets'[t] = assets[t] + 1 /\ \A u \in Tokens \ {t} : assets'[u] = assets[u]
  BY <1>3, <1>4
<1>8. TablesGrow /\ \A x \in Contracts : HasSource(x)' <=> HasSource(x)
  BY <1>1, <1>3, <1>7 DEF TablesGrow, HasSource
<1>9. job' \in [Commands -> JobState] /\ job'[c] = r /\ \A d \in Commands \ {c} : job'[d] = job[d]
  BY <1>1, <1>4, <1>5 DEF TypeOK
<1>10. JobsInv'
  <2>1. CreatesFor(r, k)
    BY <1>2, <1>6 DEF CreatesFor, AtMarkets, AtEntry, AtFile, AtFiles
  <2>2. InPlace(r)'
    BY <2>1, <1>2, <1>6 DEF InPlace, Working
  <2>3. AssetInHand(r)'
    <3>1. assets[t] + 1 \in 1 .. assets'[t]
      BY <1>3, <1>7
    <3> QED BY <3>1, <1>2, <1>6 DEF AssetInHand
  <2>4. Accounts(r)'
    BY <1>1, <1>6 DEF JobInv, Accounts, Settled, HasSource
  <2>5. ASSUME NEW d \in Commands \ {c} PROVE JobInv(job[d])'
    <3>1. JobInv(job[d])
      BY DEF FillInv, JobsInv
    <3>2. job'[d] = job[d]
      BY <1>9
    <3> QED BY <3>1, <3>2, <1>1, <1>7, <1>8, OthersKeep
  <2> QED BY <1>9, <2>2, <2>3, <2>4, <2>5 DEF JobsInv, JobInv
<1>11. \A d \in Commands, x \in Contracts : MayInsert(job'[d], x) <=> MayInsert(job[d], x)
  <2>1. \A x \in Contracts : MayInsert(r, x) <=> MayInsert(j, x)
    BY <1>1, <1>6 DEF MayInsert, Ahead
  <2> QED BY <2>1, <1>9
<1>12. /\ Alone' /\ AssetsAreUnique'
  <2> SUFFICES ASSUME ~overlapped
               PROVE  /\ \A a, b \in Commands : Running(a)' /\ Running(b)' => a = b
                      /\ \A d \in Commands, x \in Contracts : MayInsert(job'[d], x) => ~HasSource(x)
                      /\ \A d \in Commands, x \in Contracts :
                            job'[d].pc = "create" /\ x \in job'[d].item => assets'[TokenOf[x]] = 0
                      /\ \A u \in Tokens : assets'[u] <= 1
    BY <1>1, <1>8 DEF Alone, AssetsAreUnique, MayInsert, Ahead
  <2>1. \A d \in Commands \ {c} : job[d].pc = "idle"
    BY <1>1 DEF FillInv, Alone, Running
  <2>2. assets[t] = 0
    BY <1>1, <1>2 DEF FillInv, Alone
  <2>3. \A a, b \in Commands : Running(a)' /\ Running(b)' => a = b
    BY <2>1, <1>9 DEF Running
  <2>4. \A d \in Commands, x \in Contracts : MayInsert(job'[d], x) => ~HasSource(x)
    BY <1>11 DEF FillInv, Alone
  <2>5. \A d \in Commands : job'[d].pc # "create"
    BY <2>1, <1>6, <1>9
  <2>6. \A u \in Tokens : assets'[u] <= 1
    BY <2>2, <1>7 DEF FillInv, AssetsAreUnique
  <2> QED BY <2>3, <2>4, <2>5, <2>6
<1>13. RepeatsInv'
  <2>1. \A x \in Contracts : Inserters(x)' = Inserters(x)
    BY <1>11 DEF Inserters, MayInsert, Ahead
  <2> QED BY <2>1, <1>1 DEF FillInv, RepeatsInv
<1>14. SourcesAreUnique' /\ SourceHasItsAsset'
  <2>1. SourcesAreUnique'
    BY <1>1 DEF FillInv, SourcesAreUnique
  <2>2. ASSUME NEW x \in Contracts, NEW i \in 1 .. Len(sources[x])
        PROVE  sources[x][i].token = TokenOf[x] /\ sources[x][i].row \in 1 .. assets'[TokenOf[x]]
    <3>1. sources[x][i].token = TokenOf[x] /\ sources[x][i].row \in 1 .. assets[TokenOf[x]]
      BY DEF FillInv, SourceHasItsAsset
    <3>2. TokenOf[x] \in Tokens
      BY FillAssumption
    <3>3. assets[TokenOf[x]] \in Nat /\ assets'[TokenOf[x]] \in Nat /\ assets[TokenOf[x]] <= assets'[TokenOf[x]]
      BY <3>2, <1>3, <1>7, <1>8 DEF TablesGrow
    <3> QED BY <3>1, <3>3
  <2> QED BY <2>1, <2>2, <1>1 DEF SourceHasItsAsset
<1> QED BY <1>7, <1>9, <1>10, <1>12, <1>13, <1>14

(* After the insert a command goes on behind the contract.                 *)
LEMMA AfterInsert ==
    ASSUME TypeOK, NEW c \in Commands, JobInv(job[c]), InsertSource(c)
    PROVE  \E k \in Contracts, a \in Asset, r \in JobState :
              /\ job[c].item = {k} /\ job[c].pc = "insert"
              /\ a.token = TokenOf[k] /\ a.row \in 1 .. assets[TokenOf[k]]
              /\ sources' = [sources EXCEPT ![k] = Append(@, a)]
              /\ job' = [job EXCEPT ![c] = r]
              /\ InPlace(r) /\ r.pc # "insert" /\ r.pc # "create" /\ r.pc # "rewards" /\ r.item = {}
              /\ r.dbSources = job[c].dbSources /\ r.shown = job[c].shown /\ r.failed = job[c].failed
              /\ r.todo = job[c].todo
              /\ \A p \in job[c].path : p \in r.path \/ p = k
              /\ \A x \in Statics : x.n < r.at => x.n < job[c].at \/ x = k
              /\ \A x \in Contracts : MayInsert(r, x) => MayInsert(job[c], x) /\ x # k
<1> DEFINE j == job[c]
<1>1. j \in JobState /\ j.pc = "insert" /\ NStatic \in Nat
  BY FillAssumption DEF TypeOK, InsertSource
<1>2. PICK k \in Contracts : j.item = {k} /\ CreatesFor(j, k)
  BY <1>1 DEF JobInv, InPlace, Working
<1>3. PICK i \in 1 .. assets[TokenOf[k]] : j.asset = {[token |-> TokenOf[k], row |-> i]}
  BY <1>1, <1>2 DEF JobInv, AssetInHand
<1> DEFINE a == [token |-> TokenOf[k], row |-> i]
           r == After(j, k)
           next == [j EXCEPT !.item = {}, !.asset = {}]
<1>4. a \in Asset /\ a.token = TokenOf[k] /\ a.row \in 1 .. assets[TokenOf[k]]
  BY <1>1, <1>3 DEF JobState, Asset
<1>5. sources' = [sources EXCEPT ![k] = Append(@, a)] /\ job' = [job EXCEPT ![c] = r]
  BY <1>2, <1>3 DEF InsertSource, Move
<1>6. k.kind \in Kinds
  BY KindsOfContracts
<1>7. CASE k.kind = "market"
  <2>1. r = [next EXCEPT !.pc = "markets"]
    BY <1>7 DEF After
  <2>2. r \in JobState
    BY <1>1, <2>1 DEF JobState
  <2>3. r.pc = "markets" /\ r.item = {} /\ r.at = j.at /\ r.todo = j.todo /\ r.path = j.path
        /\ r.dbSources = j.dbSources /\ r.shown = j.shown /\ r.failed = j.failed
    BY <1>1, <2>1 DEF JobState
  <2> HIDE DEF r
  <2>4. AtMarkets(j) /\ ComptrollerOf[k.n] = j.at /\ k \notin j.todo
    BY <1>2, <1>7, KindsOfContracts DEF CreatesFor, AtMarkets
  <2>5. InPlace(r)
    BY <2>3, <2>4 DEF InPlace, AtMarkets
  <2>6. \A x \in Contracts : MayInsert(r, x) => MayInsert(j, x) /\ x # k
    BY <1>1, <1>7, <2>3, <2>4 DEF MayInsert, Ahead, AtMarkets
  <2> QED BY <1>1, <1>2, <1>4, <1>5, <2>2, <2>3, <2>5, <2>6
<1>8. CASE k.kind = "static"
  <2>1. r = [next EXCEPT !.pc = "entry", !.at = @ + 1]
    BY <1>8 DEF After
  <2>2. j.at \in 1 .. NStatic /\ k = Static(j.at) /\ k.n = j.at /\ AtEntry(j)
    BY <1>2, <1>8, KindsOfContracts DEF CreatesFor
  <2>3. r \in JobState
    <3>1. j.at + 1 \in 1 .. NStatic + 1
      BY <1>1, <2>2
    <3> QED BY <1>1, <2>1, <3>1 DEF JobState
  <2>4. r.pc = "entry" /\ r.item = {} /\ r.at = j.at + 1 /\ r.todo = j.todo /\ r.path = j.path
        /\ r.dbSources = j.dbSources /\ r.shown = j.shown /\ r.failed = j.failed
    BY <1>1, <2>1 DEF JobState
  <2> HIDE DEF r
  <2>5. InPlace(r)
    BY <2>2, <2>4 DEF InPlace, AtEntry
  <2>6. ASSUME NEW x \in Contracts, MayInsert(r, x) PROVE MayInsert(j, x) /\ x # k
    <3>1. x.kind = "static" => x.n \in 1 .. NStatic
      BY KindsOfContracts
    <3>2. x.kind = "market" => ComptrollerOf[x.n] \in 1 .. NStatic
      BY KindsOfContracts
    <3>3. x # k
      BY <1>8, <2>2, <2>4, <2>6 DEF MayInsert, Ahead, AtEntry
    <3> QED BY <1>1, <1>8, <2>2, <2>4, <2>6, <3>1, <3>2, <3>3 DEF MayInsert, Ahead, AtEntry
  <2>7. \A x \in Statics : x.n < r.at => x.n < j.at \/ x = k
    <3> SUFFICES ASSUME NEW x \in Statics, x.n < r.at PROVE x.n < j.at \/ x = k
      OBVIOUS
    <3>1. x \in Contracts /\ x.n \in 1 .. NStatic /\ x = Static(x.n)
      BY KindsOfContracts
    <3> QED BY <3>1, <2>2, <2>4
  <2> QED BY <1>1, <1>2, <1>4, <1>5, <2>3, <2>4, <2>5, <2>6, <2>7
<1>9. CASE k.kind = "rewards"
  <2>1. r = [next EXCEPT !.pc = "comet"]
    BY <1>9 DEF After
  <2>2. r \in JobState
    BY <1>1, <2>1 DEF JobState
  <2>3. r.pc = "comet" /\ r.item = {} /\ r.at = j.at /\ r.todo = j.todo /\ r.path = j.path
        /\ r.dbSources = j.dbSources /\ r.shown = j.shown /\ r.failed = j.failed
    BY <1>1, <2>1 DEF JobState
  <2> HIDE DEF r
  <2>4. PICK p \in Comets : AtFile(j, p)
    BY <1>2, <1>9 DEF CreatesFor
  <2>5. InPlace(r)
    BY <2>3, <2>4 DEF InPlace, AtFile, AtFiles
  <2>6. \A x \in Contracts : MayInsert(r, x) => MayInsert(j, x) /\ x # k
    BY <1>1, <1>9, <2>3 DEF MayInsert, Ahead
  <2> QED BY <1>1, <1>2, <1>4, <1>5, <2>2, <2>3, <2>5, <2>6
<1>10. CASE k.kind = "comet"
  <2>1. r = [next EXCEPT !.pc = "paths", !.path = {}]
    BY <1>10 DEF After
  <2>2. r \in JobState
    BY <1>1, <2>1 DEF JobState
  <2>3. r.pc = "paths" /\ r.item = {} /\ r.at = j.at /\ r.todo = j.todo /\ r.path = {}
        /\ r.dbSources = j.dbSources /\ r.shown = j.shown /\ r.failed = j.failed
    BY <1>1, <2>1 DEF JobState
  <2> HIDE DEF r
  <2>4. AtFile(j, k)
    BY <1>2, <1>10 DEF CreatesFor
  <2>5. InPlace(r)
    BY <2>3, <2>4 DEF InPlace, AtFile, AtFiles
  <2>6. \A x \in Contracts : MayInsert(r, x) => MayInsert(j, x) /\ x # k
    BY <1>1, <1>10, <2>3, <2>4 DEF MayInsert, Ahead, AtFile, AtFiles
  <2> QED BY <1>1, <1>2, <1>4, <1>5, <2>2, <2>3, <2>4, <2>5, <2>6 DEF AtFile
<1> QED BY <1>6, <1>7, <1>8, <1>9, <1>10 DEF Kinds

LEMMA InsertSourceKeeps ==
    ASSUME FillInv, NEW c \in Commands, InsertSource(c)
    PROVE  /\ sources' \in [Contracts -> Seq(Asset)] /\ job' \in [Commands -> JobState]
           /\ JobsInv' /\ Alone' /\ RepeatsInv'
           /\ SourcesAreUnique' /\ AssetsAreUnique' /\ SourceHasItsAsset'
<1> DEFINE j == job[c]
<1>1. TypeOK /\ JobInv(j) /\ assets' = assets /\ overlapped' = overlapped
  BY DEF FillInv, JobsInv, InsertSource
<1>2. PICK k \in Contracts, a \in Asset, r \in JobState :
         /\ j.item = {k} /\ j.pc = "insert"
         /\ a.token = TokenOf[k] /\ a.row \in 1 .. assets[TokenOf[k]]
         /\ sources' = [sources EXCEPT ![k] = Append(@, a)]
         /\ job' = [job EXCEPT ![c] = r]
         /\ InPlace(r) /\ r.pc # "insert" /\ r.pc # "create" /\ r.pc # "rewards" /\ r.item = {}
         /\ r.dbSources = j.dbSources /\ r.shown = j.shown /\ r.failed = j.failed
         /\ r.todo = j.todo
         /\ \A p \in j.path : p \in r.path \/ p = k
         /\ \A x \in Statics : x.n < r.at => x.n < j.at \/ x = k
         /\ \A x \in Contracts : MayInsert(r, x) => MayInsert(j, x) /\ x # k
  BY <1>1, AfterInsert
<1>3. sources \in [Contracts -> Seq(Asset)] /\ sources[k] \in Seq(Asset)
  BY <1>1 DEF TypeOK
<1>4. /\ Append(sources[k], a) \in Seq(Asset) /\ Len(Append(sources[k], a)) = Len(sources[k]) + 1
      /\ Append(sources[k], a) # << >> /\ Len(sources[k]) \in Nat
      /\ \A i \in 1 .. Len(sources[k]) : Append(sources[k], a)[i] = sources[k][i]
      /\ Append(sources[k], a)[Len(sources[k]) + 1] = a
  BY <1>3, AppendProperties, LenProperties
<1>5. /\ sources' \in [Contracts -> Seq(Asset)] /\ sources'[k] = Append(sources[k], a)
      /\ \A x \in Contracts \ {k} : sources'[x] = sources[x]
  BY <1>2, <1>3, <1>4
<1>6. /\ HasSource(k)' /\ \A x \in Contracts \ {k} : HasSource(x)' <=> HasSource(x)
      /\ \A x \in Contracts : HasSource(x) => HasSource(x)'
  BY <1>4, <1>5 DEF HasSource
<1>7. TablesGrow /\ assets' \in [Tokens -> Nat]
  BY <1>1, <1>6 DEF TablesGrow, TypeOK
<1>8. job' \in [Commands -> JobState] /\ job'[c] = r /\ \A d \in Commands \ {c} : job'[d] = job[d]
  BY <1>1, <1>2 DEF TypeOK
<1>9. JobsInv'
  <2>1. InPlace(r)' /\ AssetInHand(r)'
    BY <1>2 DEF InPlace, AssetInHand
  <2>2. \A x \in Contracts : Settled(j, x) => HasSource(x)' \/ x \in r.failed
    BY <1>2, <1>6 DEF Settled
  <2>3. /\ r.dbSources \subseteq Contracts /\ r.shown \subseteq Contracts /\ Statics \subseteq Contracts
        /\ \A p \in Comets : RewardsIn(p) \subseteq Contracts
    BY KindsOfContracts DEF JobState
  <2>4. Accounts(j) /\ j.pc # "rewards"
    BY <1>1, <1>2 DEF JobInv
  <2>5. /\ \A x \in r.dbSources : HasSource(x)'
        /\ \A x \in Statics : x.n < r.at => HasSource(x)'
    BY <1>2, <1>6, <2>3, <2>4 DEF Accounts
  <2>6. \A x \in r.shown : HasSource(x)' \/ x \in r.failed \/ x \in r.todo \/ x \in r.path
    BY <1>2, <1>6, <2>2, <2>3, <2>4 DEF Accounts
  <2>7. \A p \in r.shown \cap Comets : \A x \in RewardsIn(p) : HasSource(x)' \/ x \in r.failed \/ p \in r.todo
    BY <1>2, <2>2, <2>3, <2>4 DEF Accounts
  <2>8. Accounts(r)'
    BY <2>5, <2>6, <2>7 DEF Accounts, Settled
  <2>9. ASSUME NEW d \in Commands \ {c} PROVE JobInv(job[d])'
    <3>1. JobInv(job[d])
      BY DEF FillInv, JobsInv
    <3>2. job'[d] = job[d]
      BY <1>8
    <3> QED BY <3>1, <3>2, <1>1, <1>7, OthersKeep
  <2> QED BY <1>8, <2>1, <2>8, <2>9 DEF JobsInv, JobInv
<1>10. MayInsert(j, k)
  BY <1>2 DEF MayInsert
<1>11. Alone' /\ SourcesAreUnique'
  <2> SUFFICES ASSUME ~overlapped
               PROVE  /\ \A a1, a2 \in Commands : Running(a1)' /\ Running(a2)' => a1 = a2
                      /\ \A d \in Commands, x \in Contracts : MayInsert(job'[d], x) => ~HasSource(x)'
                      /\ \A d \in Commands : job'[d].pc # "create"
                      /\ \A x \in Contracts : Len(sources'[x]) <= 1
    BY <1>1 DEF Alone, SourcesAreUnique, MayInsert, Ahead
  <2>1. \A d \in Commands \ {c} : job[d].pc = "idle"
    BY <1>2 DEF FillInv, Alone, Running
  <2>2. \A a1, a2 \in Commands : Running(a1)' /\ Running(a2)' => a1 = a2
    BY <2>1, <1>8 DEF Running
  <2>3. \A x \in Contracts : MayInsert(j, x) => ~HasSource(x)
    BY DEF FillInv, Alone
  <2>4. \A x \in Contracts : MayInsert(r, x) => ~HasSource(x)'
    BY <2>3, <1>2, <1>6
  <2>5. \A d \in Commands, x \in Contracts : MayInsert(job'[d], x) => ~HasSource(x)'
    BY <2>1, <2>4, <1>8 DEF MayInsert
  <2>6. \A d \in Commands : job'[d].pc # "create"
    BY <2>1, <1>2, <1>8
  <2>7. Len(sources[k]) = 0
    BY <2>3, <1>3, <1>10 DEF HasSource
  <2>8. \A x \in Contracts : Len(sources'[x]) <= 1
    BY <2>7, <1>4, <1>5 DEF FillInv, SourcesAreUnique
  <2> QED BY <2>2, <2>5, <2>6, <2>8
<1>12. RepeatsInv'
  <2> SUFFICES ASSUME NEW x \in Contracts
               PROVE  Len(sources'[x]) + Cardinality(Inserters(x)') <= Cardinality(Commands)
    BY DEF RepeatsInv
  <2>1. Len(sources[x]) + Cardinality(Inserters(x)) <= Cardinality(Commands)
    BY DEF FillInv, RepeatsInv
  <2>2. \A d \in Commands : MayInsert(job'[d], x) => MayInsert(job[d], x) /\ ~(d = c /\ x = k)
    BY <1>2, <1>8
  <2>3. CASE x = k
    <3>1. Inserters(x)' \in SUBSET (Inserters(x) \ {c})
      BY <2>2, <2>3 DEF Inserters, MayInsert, Ahead
    <3>2. c \in Inserters(x)
      BY <1>10, <2>3 DEF Inserters
    <3>3. IsFiniteSet(Inserters(x) \ {c}) /\ Cardinality(Inserters(x) \ {c}) = Cardinality(Inserters(x)) - 1
      BY <3>2, InsertersAreFinite, FS_RemoveElement
    <3>4. Cardinality(Inserters(x)') <= Cardinality(Inserters(x)) - 1
      BY <3>1, <3>3, FS_Subset
    <3>5. Len(sources'[x]) = Len(sources[x]) + 1 /\ Len(sources[x]) \in Nat
      BY <2>3, <1>4, <1>5
    <3> QED BY <2>1, <3>4, <3>5, InsertersAreFinite
  <2>4. CASE x # k
    <3>1. Inserters(x)' \in SUBSET Inserters(x)
      BY <2>2 DEF Inserters, MayInsert, Ahead
    <3>2. Cardinality(Inserters(x)') <= Cardinality(Inserters(x))
      BY <3>1, InsertersAreFinite, FS_Subset
    <3>3. sources'[x] = sources[x] /\ Len(sources[x]) \in Nat
      BY <2>4, <1>3, <1>5, LenProperties
    <3> QED BY <2>1, <3>2, <3>3, InsertersAreFinite
  <2> QED BY <2>3, <2>4
<1>13. AssetsAreUnique' /\ SourceHasItsAsset'
  <2>1. AssetsAreUnique'
    BY <1>1 DEF FillInv, AssetsAreUnique
  <2>2. ASSUME NEW x \in Contracts, NEW i \in 1 .. Len(sources'[x])
        PROVE  sources'[x][i].token = TokenOf[x] /\ sources'[x][i].row \in 1 .. assets[TokenOf[x]]
    <3>1. \A n \in 1 .. Len(sources[x]) :
             sources[x][n].token = TokenOf[x] /\ sources[x][n].row \in 1 .. assets[TokenOf[x]]
      BY DEF FillInv, SourceHasItsAsset
    <3>2. CASE x = k /\ i = Len(sources[k]) + 1
      BY <3>2, <1>2, <1>4, <1>5
    <3>3. CASE ~(x = k /\ i = Len(sources[k]) + 1)
      <4>1. i \in 1 .. Len(sources[x]) /\ sources'[x][i] = sources[x][i]
        BY <3>3, <1>4, <1>5
      <4> QED BY <3>1, <4>1
    <3> QED BY <3>2, <3>3
  <2> QED BY <2>1, <2>2, <1>1 DEF SourceHasItsAsset
<1> QED BY <1>5, <1>8, <1>9, <1>11, <1>12, <1>13

-----------------------------------------------------------------------------
(***************************************************************************)
(* The invariant and the theorems.                                         *)
(***************************************************************************)
LEMMA FaultsHaveTypes ==
    ASSUME TypeOK, NoFault \/ \E f \in FaultKinds : Fault(f)
    PROVE  faultsLeft' \in Nat
BY DEF TypeOK, NoFault, Fault

LEMMA FillInvInit == Init => FillInv
<1> SUFFICES ASSUME Init PROVE FillInv
  OBVIOUS
<1>1. TypeOK
  <2>1. faultsLeft \in Nat /\ changesLeft \in Nat
    BY FillAssumption DEF Init
  <2>2. sources \in [Contracts -> Seq(Asset)]
    BY DEF Init
  <2>3. job \in [Commands -> JobState]
    BY IdleJobInv DEF Init
  <2> QED BY <2>1, <2>2, <2>3 DEF Init, TypeOK
<1>2. JobsInv
  BY IdleJobInv DEF Init, JobsInv
<1>3. Alone
  BY DEF Init, Alone, Running, MayInsert, IdleJob
<1>4. RepeatsInv
  <2> SUFFICES ASSUME NEW k \in Contracts
               PROVE  Len(sources[k]) + Cardinality(Inserters(k)) <= Cardinality(Commands)
    BY DEF RepeatsInv
  <2>1. Len(sources[k]) = 0
    BY DEF Init
  <2> QED BY <2>1, InsertersAreFinite
<1>5. SourcesAreUnique /\ AssetsAreUnique /\ SourceHasItsAsset
  <2>1. \A k \in Contracts : TokenOf[k] \in Tokens /\ sources[k] = << >> /\ Len(sources[k]) = 0
    BY FillAssumption DEF Init
  <2> QED BY <2>1 DEF Init, SourcesAreUnique, AssetsAreUnique, SourceHasItsAsset
<1> QED BY <1>1, <1>2, <1>3, <1>4, <1>5 DEF FillInv

(* The steps that change no table, and whose command was running before.   *)
Reading(c) ==
    \/ ListSources(c) \/ Crawl(c) \/ LookMarket(c) \/ LookStatic(c)
    \/ UseCachedList(c) \/ FetchList(c) \/ ReadRoots(c) \/ SkipFile(c)
    \/ LookRewards(c) \/ LookComet(c) \/ Complete(c)
    \/ FindAsset(c) \/ GiveUpFile(c) \/ Abort(c) \/ Crash(c)

LEMMA ReadingMoves ==
    ASSUME FillInv, NEW c \in Commands, Reading(c)
    PROVE  \E r : Moved(c, r)
<1>1. TypeOK /\ JobInv(job[c])
  BY DEF FillInv, JobsInv
<1>2. CASE UseCachedList(c)
  <2>1. PICK list \in cachedList : TakeList(c, list)
    BY <1>2 DEF UseCachedList
  <2>2. list \in SUBSET Comets /\ AtRoots(c) /\ UNCHANGED database
    BY <1>1, <1>2, <2>1 DEF UseCachedList, TypeOK
  <2> QED BY <1>1, <2>1, <2>2, TakeMoves
<1>3. CASE FetchList(c)
  <2>1. PICK list \in SUBSET published : TakeList(c, list)
    BY <1>3 DEF FetchList
  <2>2. list \in SUBSET Comets /\ AtRoots(c) /\ UNCHANGED database
    BY <1>1, <1>3, <2>1 DEF FetchList, TypeOK
  <2> QED BY <1>1, <2>1, <2>2, TakeMoves
<1>4. CASE Complete(c) \/ Abort(c) \/ Crash(c)
  <2>1. OnlyMoves(c, IdleJob)
    BY <1>4 DEF Complete, Abort, Crash
  <2>2. Moved(c, IdleJob)
    BY <2>1, EndMoves DEF OnlyMoves
  <2> QED BY <2>2
<1> QED BY <1>1, <1>2, <1>3, <1>4, ListMoves, CrawlMoves, LookMarketMoves, LookStaticMoves, ReadRootsMoves,
        SkipFileMoves, LookRewardsMoves, LookCometMoves, FindAssetMoves, GiveUpFileMoves DEF Reading

LEMMA ReadingLeaves ==
    ASSUME TypeOK, NEW c \in Commands, Reading(c)
    PROVE  /\ UNCHANGED <<mayRun, environment, overlapped>> /\ Running(c)
           /\ faultsLeft' \in Nat /\ cachedList' \in SUBSET SUBSET Comets
<1>1. UNCHANGED <<mayRun, environment, overlapped>> /\ Running(c)
  BY DEF Reading, ListSources, Crawl, LookMarket, LookStatic, UseCachedList, FetchList, AtRoots, ReadRoots, SkipFile,
     LookRewards, LookComet, Complete, FindAsset, GiveUpFile, Abort, Crash, OnlyMoves, Running, OnFile, Working
<1>2. faultsLeft' \in Nat
  <2>1. NoFault \/ \E f \in FaultKinds : Fault(f)
    BY DEF Reading, ListSources, Crawl, LookMarket, LookStatic, UseCachedList, FetchList, ReadRoots, SkipFile,
       LookRewards, LookComet, Complete, FindAsset, GiveUpFile, Abort, Crash, NoFault, FaultKinds
  <2> QED BY <2>1, FaultsHaveTypes
<1>3. cachedList' \in SUBSET SUBSET Comets
  <2>1. CASE FetchList(c)
    BY <2>1 DEF FetchList, TypeOK
  <2>2. CASE ~FetchList(c)
    <3>1. cachedList' = cachedList
      BY <2>2 DEF Reading, ListSources, Crawl, LookMarket, LookStatic, UseCachedList, ReadRoots, SkipFile,
         LookRewards, LookComet, Complete, FindAsset, GiveUpFile, Abort, Crash, OnlyMoves
    <3> QED BY <3>1 DEF TypeOK
  <2> QED BY <2>1, <2>2
<1> QED BY <1>1, <1>2, <1>3

LEMMA JobsStand ==
    ASSUME FillInv, UNCHANGED <<database, job, overlapped>>
    PROVE  /\ JobsInv' /\ Alone' /\ RepeatsInv'
           /\ SourcesAreUnique' /\ AssetsAreUnique' /\ SourceHasItsAsset'
<1>1. JobsInv' /\ Alone'
  BY DEF FillInv, database, JobsInv, JobInv, InPlace, AssetInHand, Accounts, Settled, HasSource, Alone, Running,
     MayInsert, Ahead
<1>2. RepeatsInv'
  BY DEF FillInv, database, RepeatsInv, Inserters, MayInsert, Ahead
<1> QED BY <1>1, <1>2 DEF FillInv, database, SourcesAreUnique, AssetsAreUnique, SourceHasItsAsset

LEMMA FillInvStep == FillInv /\ [Next]_vars => FillInv'
<1> SUFFICES ASSUME FillInv, [Next]_vars PROVE FillInv'
  OBVIOUS
<1>1. TypeOK
  BY DEF FillInv
<1>2. ASSUME NEW c \in Commands, Start(c) PROVE FillInv'
  <2>1. Moved(c, [IdleJob EXCEPT !.pc = "list"])
    BY <1>2, EndMoves DEF Start
  <2>2. ~overlapped' => ~overlapped /\ \A d \in Commands : Running(d) => d = c
    BY <1>2 DEF Start
  <2> QED BY <1>1, <1>2, <2>1, <2>2, MovedKeeps DEF FillInv, Start, TypeOK, environment, database
<1>3. ASSUME NEW c \in Commands, Reading(c) PROVE FillInv'
  <2>1. PICK r : Moved(c, r)
    BY <1>3, ReadingMoves
  <2>2. UNCHANGED <<mayRun, environment, overlapped>> /\ Running(c)
        /\ faultsLeft' \in Nat /\ cachedList' \in SUBSET SUBSET Comets
    BY <1>1, <1>3, ReadingLeaves
  <2>3. ~overlapped' => ~overlapped /\ \A d \in Commands : Running(d) => d = c
    BY <2>2 DEF FillInv, Alone
  <2>4. UNCHANGED database
    BY <2>1 DEF Moved
  <2> QED BY <1>1, <2>1, <2>2, <2>3, <2>4, MovedKeeps DEF FillInv, TypeOK, environment, database
<1>4. ASSUME NEW c \in Commands, CreateAsset(c) PROVE FillInv'
  BY <1>1, <1>4, CreateAssetKeeps DEF FillInv, CreateAsset, NoFault, TypeOK, environment
<1>5. ASSUME NEW c \in Commands, InsertSource(c) PROVE FillInv'
  BY <1>1, <1>5, InsertSourceKeeps DEF FillInv, InsertSource, NoFault, TypeOK, environment
<1>6. CASE ListMarket \/ Publish \/ Expire
  <2>1. UNCHANGED <<database, job, overlapped>>
    BY <1>6 DEF ListMarket, Publish, Expire
  <2>2. changesLeft' \in Nat /\ allMarkets' \subseteq Markets /\ published' \subseteq Comets
        /\ cachedList' \in SUBSET SUBSET Comets /\ UNCHANGED <<faultsLeft, mayRun>>
    BY <1>1, <1>6 DEF ListMarket, Publish, Expire, WorldChanges, environment, TypeOK
  <2> QED BY <1>1, <2>1, <2>2, JobsStand DEF FillInv, TypeOK, database
<1>7. CASE UNCHANGED vars
  <2>1. UNCHANGED <<database, job, overlapped>>
    BY <1>7 DEF vars
  <2> QED BY <1>1, <1>7, <2>1, JobsStand DEF FillInv, TypeOK, vars, environment, database
<1> QED BY <1>2, <1>3, <1>4, <1>5, <1>6, <1>7 DEF Next, CommandStep, Reading

(* Every variable keeps its type; a command creates a source only for the  *)
(* contract, and with the state, that its place in the run calls for.      *)
THEOREM FillTypes == Spec => []TypeOK
<1>1. FillInv => TypeOK
  BY DEF FillInv
<1> QED BY <1>1, FillInvInit, FillInvStep, PTL DEF Spec

(* Commands that run one after the other insert a contract once, whatever  *)
(* failed in between, however old the list they compare with, and whatever *)
(* other kinds of contracts there are.                                     *)
THEOREM OneSourceEach == Spec => []SourcesAreUnique
<1>1. FillInv => SourcesAreUnique
  BY DEF FillInv
<1> QED BY <1>1, FillInvInit, FillInvStep, PTL DEF Spec

(* And they create one asset for a token, although a run may break off     *)
(* between the two inserts.                                                *)
THEOREM OneAssetEach == Spec => []AssetsAreUnique
<1>1. FillInv => AssetsAreUnique
  BY DEF FillInv
<1> QED BY <1>1, FillInvInit, FillInvStep, PTL DEF Spec

(* A source is never inserted without its asset, of the contract's token,  *)
(* overlapping commands or not.                                            *)
THEOREM AssetComesFirst == Spec => []SourceHasItsAsset
<1>1. FillInv => SourceHasItsAsset
  BY DEF FillInv
<1> QED BY <1>1, FillInvInit, FillInvStep, PTL DEF Spec

(* However many commands overlap, in whatever way and over however many    *)
(* runs, a contract is inserted no more often than there are commands.     *)
THEOREM OneSourcePerCommand == Spec => []RepeatsAreBounded
<1>1. FillInv => RepeatsAreBounded
  <2> SUFFICES ASSUME FillInv, NEW k \in Contracts PROVE Len(sources[k]) <= Cardinality(Commands)
    BY DEF RepeatsAreBounded
  <2>1. Len(sources[k]) + Cardinality(Inserters(k)) <= Cardinality(Commands)
    BY DEF FillInv, RepeatsInv
  <2>2. Len(sources[k]) \in Nat
    BY LenProperties DEF FillInv, TypeOK
  <2> QED BY <2>1, <2>2, InsertersAreFinite
<1> QED BY <1>1, FillInvInit, FillInvStep, PTL DEF Spec

(* A run that ends as completed has passed nothing over: every entry of    *)
(* sources.ts, every market and every file it was shown has its source or  *)
(* is in the log as failed.                                                *)
THEOREM CompletedIsComplete == Spec => CompletedFillMissesNothing
<1>1. FillInv /\ [Next]_vars =>
         [\A c \in Commands : Complete(c) =>
            \A k \in Statics \cup job[c].shown \cup UNION {RewardsIn(p) : p \in job[c].shown \cap Comets} :
               HasSource(k) \/ k \in job[c].failed]_vars
  <2> SUFFICES ASSUME FillInv, NEW c \in Commands, Complete(c),
                      NEW k \in Statics \cup job[c].shown \cup UNION {RewardsIn(p) : p \in job[c].shown \cap Comets}
               PROVE  HasSource(k) \/ k \in job[c].failed
    OBVIOUS
  <2>1. /\ job[c].pc = "paths" /\ job[c].todo = {} /\ job[c].path = {} /\ job[c].item = {}
        /\ job[c].at = NStatic + 1 /\ Accounts(job[c])
    BY DEF FillInv, JobsInv, JobInv, InPlace, AtFiles, Complete, Working
  <2>2. CASE k \in Statics
    <3>1. k.n \in 1 .. NStatic /\ NStatic \in Nat
      BY <2>2, FillAssumption, KindsOfContracts
    <3>2. k.n < job[c].at
      BY <2>1, <3>1
    <3> QED BY <2>1, <2>2, <3>2 DEF Accounts
  <2>3. CASE k \in job[c].shown
    BY <2>1, <2>3 DEF Accounts, Settled
  <2>4. ASSUME NEW p \in job[c].shown \cap Comets, k \in RewardsIn(p)
        PROVE  HasSource(k) \/ k \in job[c].failed
    BY <2>1, <2>4 DEF Accounts, Settled
  <2> QED BY <2>2, <2>3, <2>4
<1> QED BY <1>1, FillInvInit, FillInvStep, PTL DEF Spec, CompletedFillMissesNothing
=============================================================================
