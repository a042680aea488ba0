------------------------------ MODULE SourceFill ------------------------------
(***************************************************************************)
(* The source:fill command, which finds the contracts to collect and       *)
(* inserts the missing rows of the tables `source' and `asset':            *)
(* SourceFillCommand.run with AssetService.findOrCreate,                   *)
(* SourceService.createWithAsset, the reads of ContractService, and        *)
(* GithubService with its list cached in a file.                           *)
(*                                                                         *)
(* A command is a process.  It compares what it finds with the sources it  *)
(* listed when it began (the rewards contracts alone are looked up when    *)
(* they come), looks for an asset before it creates one, and no constraint *)
(* of either table refuses a second row.  A step is what happens between   *)
(* two accesses to the database, the cached file or the outside world that *)
(* another command may observe.                                            *)
(***************************************************************************)
EXTENDS Integers, Sequences, FiniteSets

CONSTANTS
    Commands,    \* processes that may run the command, one run after the other
    NStatic,     \* the entries of sources.ts are 1 .. NStatic, in their order
    NMarkets,    \* the cToken markets of the Comptrollers are 1 .. NMarkets
    ComptrollerOf, \* [1 .. NMarkets -> 1 .. NStatic], the Comptroller that lists a market
    NPaths,      \* the roots.json files, one per Comet market, are 1 .. NPaths
    NRewards,    \* the rewards contracts are 1 .. NRewards
    RewardsOf,   \* [1 .. NPaths -> 0 .. NRewards], what a file says; 0 for none
    Unsupported, \* files of a network that has no provider
    Tokens,      \* address and network of the assets' tokens
    TokenOf,     \* [Contracts -> Tokens]
    Faults,      \* what may go wrong, a subset of FaultKinds
    MaxFaults,   \* bound: failures and crashes in a behaviour
    MaxChanges   \* bound: markets listed and files committed in a behaviour

(* What a row of `source' stands for.                                      *)
Kinds == {"static", "market", "comet", "rewards"}
Static(i) == [kind |-> "static", n |-> i]
Market(i) == [kind |-> "market", n |-> i]
Comet(i) == [kind |-> "comet", n |-> i]
Rewards(i) == [kind |-> "rewards", n |-> i]

Statics == {Static(i) : i \in 1 .. NStatic}
Markets == {Market(i) : i \in 1 .. NMarkets}
Comets == {Comet(i) : i \in 1 .. NPaths}
Contracts == Statics \cup Markets \cup Comets \cup {Rewards(i) : i \in 1 .. NRewards}
FaultKinds == {"rpc", "db", "github", "file", "crash"}

ASSUME FillAssumption ==
    /\ IsFiniteSet(Commands)
    /\ NStatic \in Nat /\ NMarkets \in Nat /\ NPaths \in Nat /\ NRewards \in Nat
    /\ ComptrollerOf \in [1 .. NMarkets -> 1 .. NStatic]
    /\ RewardsOf \in [1 .. NPaths -> 0 .. NRewards]
    /\ Unsupported \subseteq Comets
    /\ TokenOf \in [Contracts -> Tokens]
    /\ Faults \subseteq FaultKinds /\ MaxFaults \in Nat /\ MaxChanges \in Nat

Comptrollers == {ComptrollerOf[m] : m \in 1 .. NMarkets}
(* The rewards contract that the file of a Comet market names, if any.     *)
RewardsIn(k) == {Rewards(i) : i \in {RewardsOf[k.n]} \ {0}}

VARIABLES
    faultsLeft, \* failures that may still happen
    changesLeft, \* changes of the outside world that may still happen
    allMarkets, \* the markets the Comptrollers list, on their chain
    published,  \* the roots.json files in the repository
    cachedList, \* the list in .github-cache.json, {} when there is none of 30 minutes
    mayRun,     \* the commands of this behaviour
    assets,     \* table asset: how many rows a token has
    sources,    \* table source: of every contract, the assets of its rows
    job,        \* the local state of every command
    overlapped  \* history: two commands have run at the same time

environment == <<changesLeft, allMarkets, published>>
database == <<assets, sources>>
vars == <<faultsLeft, mayRun, environment, cachedList, database, job, overlapped>>

HasSource(k) == sources[k] # << >>
(* An asset is known by its token and its place among the token's rows.    *)
Asset == [token: Tokens, row: Nat]

(***************************************************************************)
(* Local state of a command.                                               *)
(*   at         the entry of sources.ts; NStatic + 1 past the last one     *)
(*   dbSources  the contracts that had a source when the command began     *)
(*   todo       the markets of the Comptroller, then the files, still to do *)
(*   path       the Comet market whose file is being worked on             *)
(*   item       the contract a source is being created for; asset, its asset *)
(*   shown, failed   history: what the run was shown and gave up on       *)
(***************************************************************************)
Working == {"asset", "create", "insert"}
JobState ==
    [pc: {"idle", "list", "entry", "markets", "paths", "rewards", "comet"} \cup Working,
     at: 1 .. NStatic + 1, dbSources: SUBSET Contracts, todo: SUBSET Contracts,
     path: SUBSET Comets, item: SUBSET Contracts, asset: SUBSET Asset,
     shown: SUBSET Contracts, failed: SUBSET Contracts]
IdleJob ==
    [pc |-> "idle", at |-> 1, dbSources |-> {}, todo |-> {}, path |-> {}, item |-> {},
     asset |-> {}, shown |-> {}, failed |-> {}]

Running(c) == job[c].pc # "idle"

TypeOK ==
    /\ faultsLeft \in Nat /\ changesLeft \in Nat /\ mayRun \subseteq Commands
    /\ allMarkets \subseteq Markets /\ published \subseteq Comets
    /\ cachedList \in SUBSET SUBSET Comets
    /\ assets \in [Tokens -> Nat]
    /\ sources \in [Contracts -> Seq(Asset)]
    /\ job \in [Commands -> JobState]
    /\ overlapped \in BOOLEAN

(* Before the initial seed the tables are empty.                           *)
Init ==
    /\ faultsLeft \in 0 .. MaxFaults /\ changesLeft \in 0 .. MaxChanges /\ mayRun \in SUBSET Commands
    /\ allMarkets \in SUBSET Markets /\ published \in SUBSET Comets
    /\ cachedList = {}
    /\ assets = [t \in Tokens |-> 0] /\ sources = [k \in Contracts |-> << >>]
    /\ job = [c \in Commands |-> IdleJob]
    /\ overlapped = FALSE

-----------------------------------------------------------------------------
Fault(f) == f \in Faults /\ faultsLeft > 0 /\ faultsLeft' = faultsLeft - 1
NoFault == UNCHANGED faultsLeft
Move(c, r) == job' = [job EXCEPT ![c] = r]
OnlyMoves(c, r) == Move(c, r) /\ UNCHANGED <<mayRun, environment, cachedList, database, overlapped>>

Start(c) ==
    /\ c \in mayRun /\ ~Running(c)
    /\ Move(c, [IdleJob EXCEPT !.pc = "list"])
    /\ overlapped' = (overlapped \/ \E d \in Commands : Running(d))
    /\ UNCHANGED <<faultsLeft, mayRun, environment, cachedList, database>>

(* Mutant: a market is listed under its two algorithms, and not found.     *)
ListWithoutMarkets(c) ==
    /\ job[c].pc = "list" /\ NoFault
    /\ OnlyMoves(c, [job[c] EXCEPT !.pc = "entry",
                                   !.dbSources = {k \in Contracts \ Markets : HasSource(k)}])

(* listAll, once.                                                          *)
ListSources(c) ==
    /\ job[c].pc = "list" /\ NoFault
    /\ OnlyMoves(c, [job[c] EXCEPT !.pc = "entry",
                                   !.dbSources = {k \in Contracts : HasSource(k)}])

-----------------------------------------------------------------------------
(***************************************************************************)
(* The entries of sources.ts.  A Comptroller is crawled before its own     *)
(* entry is looked up.                                                     *)
(***************************************************************************)
Crawl(c) ==
    LET markets == {Market(m) : m \in {i \in 1 .. NMarkets : ComptrollerOf[i] = job[c].at}}
                       \cap allMarkets
    IN  /\ job[c].pc = "entry" /\ job[c].at \in Comptrollers /\ NoFault
        /\ OnlyMoves(c, [job[c] EXCEPT !.pc = "markets", !.todo = markets,
                                       !.shown = @ \cup markets])

(* A contract that was listed at the start is left alone; for another one  *)
(* the creation block, the symbol and the token are read.                  *)
LookMarket(c) ==
    /\ job[c].pc = "markets" /\ NoFault
    /\ \E m \in job[c].todo :
          LET looked == [job[c] EXCEPT !.todo = @ \ {m}]
          IN  OnlyMoves(c, IF m \in job[c].dbSources THEN looked
                           ELSE [looked EXCEPT !.pc = "asset", !.item = {m}])

LookStatic(c) ==
    /\ \/ job[c].pc = "entry" /\ job[c].at \notin Comptrollers
       \/ job[c].pc = "markets" /\ job[c].todo = {}
    /\ job[c].at <= NStatic /\ NoFault
    /\ OnlyMoves(c, IF Static(job[c].at) \in job[c].dbSources
                    THEN [job[c] EXCEPT !.pc = "entry", !.at = @ + 1]
                    ELSE [job[c] EXCEPT !.pc = "asset", !.item = {Static(job[c].at)}])

-----------------------------------------------------------------------------
(***************************************************************************)
(* The roots.json files.  listAllRootsJson answers from the file while it  *)
(* is fresh, then from the tree of the repository, then by reading the     *)
(* directories one by one, where one that cannot be read counts as empty.  *)
(***************************************************************************)
AtRoots(c) == job[c].pc = "entry" /\ job[c].at = NStatic + 1

TakeList(c, list) ==
    Move(c, [job[c] EXCEPT !.pc = "paths", !.todo = list, !.shown = @ \cup list])

UseCachedList(c) ==
    /\ AtRoots(c)
    /\ \E list \in cachedList : TakeList(c, list)
    /\ UNCHANGED <<faultsLeft, mayRun, environment, cachedList, database, overlapped>>

FetchList(c) ==
    /\ AtRoots(c) /\ cachedList = {}
    /\ \/ NoFault /\ TakeList(c, published) /\ cachedList' = {published}
       \/ Fault("file") /\ TakeList(c, published) /\ UNCHANGED cachedList
       \/ /\ Fault("github")
          /\ \E list \in SUBSET published : TakeList(c, list) /\ cachedList' = {list}
    /\ UNCHANGED <<mayRun, environment, database, overlapped>>

(* The file is read, and the market named in it.                           *)
ReadRoots(c) ==
    /\ job[c].pc = "paths" /\ NoFault
    /\ \E p \in job[c].todo \ Unsupported :
          OnlyMoves(c, [job[c] EXCEPT !.pc = "rewards", !.path = {p}, !.todo = @ \ {p}])

(* Mutant: a file that fails ends the command.                             *)
EndAtBadFile(c) ==
    /\ job[c].pc = "paths"
    /\ \E p \in job[c].todo :
          /\ (p \in Unsupported /\ NoFault) \/ Fault("github") \/ Fault("rpc")
          /\ OnlyMoves(c, IdleJob)

(* Whatever fails about a file, the next one follows.                      *)
SkipFile(c) ==
    /\ job[c].pc = "paths"
    /\ \E p \in job[c].todo :
          /\ (p \in Unsupported /\ NoFault) \/ Fault("github") \/ Fault("rpc")
          /\ OnlyMoves(c, [job[c] EXCEPT !.todo = @ \ {p}, !.failed = @ \cup {p} \cup RewardsIn(p)])

(* Mutant: the rewards contract too is compared with the list of the start. *)
LookRewardsInList(c) ==
    /\ job[c].pc = "rewards" /\ NoFault
    /\ \E p \in job[c].path :
          LET missing == RewardsIn(p) \ job[c].dbSources
          IN  OnlyMoves(c, IF missing = {} THEN [job[c] EXCEPT !.pc = "comet"]
                           ELSE [job[c] EXCEPT !.pc = "asset", !.item = missing])

(* The rewards contract is shared by the markets of a network, and is      *)
(* looked up in the table.                                                 *)
LookRewards(c) ==
    /\ job[c].pc = "rewards" /\ NoFault
    /\ \E p \in job[c].path :
          LET missing == {k \in RewardsIn(p) : ~HasSource(k)}
          IN  OnlyMoves(c, IF missing = {} THEN [job[c] EXCEPT !.pc = "comet"]
                           ELSE [job[c] EXCEPT !.pc = "asset", !.item = missing])

LookComet(c) ==
    /\ job[c].pc = "comet" /\ NoFault
    /\ \E p \in job[c].path :
          OnlyMoves(c, IF p \in job[c].dbSources
                       THEN [job[c] EXCEPT !.pc = "paths", !.path = {}]
                       ELSE [job[c] EXCEPT !.pc = "asset", !.item = {p}])

(* The last file is done: "Filling of source table completed".             *)
Complete(c) ==
    /\ job[c].pc = "paths" /\ job[c].todo = {} /\ NoFault
    /\ OnlyMoves(c, IdleJob)

-----------------------------------------------------------------------------
(***************************************************************************)
(* Creating a source: findOrCreate, then createWithAsset.                  *)
(***************************************************************************)
(* Mutant: the asset is not looked for.                                    *)
FindNoAsset(c) ==
    /\ job[c].pc = "asset" /\ NoFault
    /\ OnlyMoves(c, [job[c] EXCEPT !.pc = "create"])

FindAsset(c) ==
    /\ job[c].pc = "asset" /\ NoFault
    /\ \E k \in job[c].item :
          \/ \E i \in 1 .. assets[TokenOf[k]] :
                OnlyMoves(c, [job[c] EXCEPT !.pc = "insert",
                                            !.asset = {[token |-> TokenOf[k], row |-> i]}])
          \/ /\ assets[TokenOf[k]] = 0
             /\ OnlyMoves(c, [job[c] EXCEPT !.pc = "create"])

CreateAsset(c) ==
    /\ job[c].pc = "create" /\ NoFault
    /\ \E k \in job[c].item :
          LET new == [token |-> TokenOf[k], row |-> assets[TokenOf[k]] + 1]
          IN  /\ assets' = [assets EXCEPT ![TokenOf[k]] = @ + 1]
              /\ Move(c, [job[c] EXCEPT !.pc = "insert", !.asset = {new}])
    /\ UNCHANGED <<mayRun, environment, cachedList, sources, overlapped>>

(* Where the command goes on after the source of a contract.               *)
After(r, k) ==
    LET next == [r EXCEPT !.item = {}, !.asset = {}]
    IN  CASE k.kind = "market" -> [next EXCEPT !.pc = "markets"]
          [] k.kind = "static" -> [next EXCEPT !.pc = "entry", !.at = @ + 1]
          [] k.kind = "rewards" -> [next EXCEPT !.pc = "comet"]
          [] k.kind = "comet" -> [next EXCEPT !.pc = "paths", !.path = {}]

InsertSource(c) ==
    /\ job[c].pc = "insert" /\ NoFault
    /\ \E k \in job[c].item, a \in job[c].asset :
          /\ sources' = [sources EXCEPT ![k] = Append(@, a)]
          /\ Move(c, After(job[c], k))
    /\ UNCHANGED <<mayRun, environment, cachedList, assets, overlapped>>

-----------------------------------------------------------------------------
(***************************************************************************)
(* Failures.  One that concerns an entry or a crawled market is caught     *)
(* around the whole command; one that concerns a file, around the file.    *)
(***************************************************************************)
OnFile(c) ==
    \/ job[c].pc \in {"rewards", "comet"}
    \/ job[c].pc \in Working /\ \E k \in job[c].item : k.kind \in {"rewards", "comet"}

(* Mutant: a failure that concerns a file ends the command as completed.   *)
GiveUpFiles(c) ==
    /\ OnFile(c)
    /\ Fault("rpc") \/ Fault("db")
    /\ OnlyMoves(c, [job[c] EXCEPT !.pc = "paths", !.todo = {}, !.path = {}, !.item = {},
                                   !.asset = {}, !.failed = @ \cup job[c].path])

GiveUpFile(c) ==
    /\ OnFile(c)
    /\ Fault("rpc") \/ Fault("db")
    /\ OnlyMoves(c, [job[c] EXCEPT !.pc = "paths", !.path = {}, !.item = {}, !.asset = {},
                                   !.failed = @ \cup job[c].path
                                                \cup UNION {RewardsIn(p) : p \in job[c].path}])

Abort(c) ==
    /\ \/ job[c].pc = "list" /\ Fault("db")
       \/ job[c].pc = "entry" /\ job[c].at \in Comptrollers /\ Fault("rpc")
       \/ job[c].pc = "markets" /\ ~(job[c].todo \subseteq job[c].dbSources) /\ Fault("rpc")
       \/ job[c].pc \in Working /\ ~OnFile(c) /\ Fault("db")
    /\ OnlyMoves(c, IdleJob)

Crash(c) ==
    /\ Running(c) /\ Fault("crash")
    /\ OnlyMoves(c, IdleJob)

-----------------------------------------------------------------------------
(* The outside world: a Comptroller lists a market, a Comet deployment is  *)
(* committed, 30 minutes pass.                                             *)
WorldChanges == changesLeft > 0 /\ changesLeft' = changesLeft - 1

ListMarket ==
    /\ WorldChanges
    /\ \E m \in Markets \ allMarkets : allMarkets' = allMarkets \cup {m}
    /\ UNCHANGED <<faultsLeft, mayRun, published, cachedList, database, job, overlapped>>

Publish ==
    /\ WorldChanges
    /\ \E p \in Comets \ published : published' = published \cup {p}
    /\ UNCHANGED <<faultsLeft, mayRun, allMarkets, cachedList, database, job, overlapped>>

Expire ==
    /\ cachedList # {} /\ cachedList' = {}
    /\ UNCHANGED <<faultsLeft, mayRun, environment, database, job, overlapped>>

CommandStep(c) ==
    \/ ListSources(c) \/ Crawl(c) \/ LookMarket(c) \/ LookStatic(c)
    \/ UseCachedList(c) \/ FetchList(c) \/ ReadRoots(c) \/ SkipFile(c)
    \/ LookRewards(c) \/ LookComet(c) \/ Complete(c)
    \/ FindAsset(c) \/ CreateAsset(c) \/ InsertSource(c)
    \/ GiveUpFile(c) \/ Abort(c)

Next ==
    \/ ListMarket \/ Publish \/ Expire
    \/ \E c \in Commands : Start(c) \/ CommandStep(c) \/ Crash(c)

Spec == Init /\ [][Next]_vars

(* A remote call returns or times out, so a command that runs goes on; and *)
(* 30 minutes pass.  Nothing makes a person start the command.             *)
Fairness ==
    /\ \A c \in Commands : WF_vars(CommandStep(c))
    /\ WF_vars(Expire)

FairSpec == Spec /\ Fairness

-----------------------------------------------------------------------------
(***************************************************************************)
(* Properties.                                                             *)
(***************************************************************************)
(* README, "inserts missing rows": as long as commands ran one at a time a *)
(* contract has one source, although all but the rewards contracts are     *)
(* compared with a list that is as old as the command, and whatever run    *)
(* broke off before.                                                       *)
SourcesAreUnique ==
    ~overlapped => \A k \in Contracts : Len(sources[k]) <= 1

(* And a token has one asset, whichever of the four kinds of contract came *)
(* first, and although a run may break off between asset and source.       *)
AssetsAreUnique ==
    ~overlapped => \A t \in Tokens : assets[t] <= 1

(* Two commands at once insert a contract twice; no sequence of runs and   *)
(* failures inserts it more often than there are commands to overlap.      *)
RepeatsAreBounded ==
    \A k \in Contracts : Len(sources[k]) <= Cardinality(Commands)

(* The asset of a source is a row of the table, of the contract's token.   *)
SourceHasItsAsset ==
    \A k \in Contracts : \A i \in 1 .. Len(sources[k]) :
        sources[k][i].token = TokenOf[k] /\ sources[k][i].row \in 1 .. assets[TokenOf[k]]

(* "Filling of source table completed": every entry, every market and      *)
(* every file the run was shown has its source, or the log of the run says *)
(* that it failed; nothing is passed over because a neighbour existed,     *)
(* failed, or was adopted from a run that broke off.                       *)
CompletedFillMissesNothing ==
    [][\A c \in Commands : Complete(c) =>
         \A k \in Statics \cup job[c].shown \cup UNION {RewardsIn(p) : p \in job[c].shown \cap Comets} :
            HasSource(k) \/ k \in job[c].failed]_vars

(* Once failures end, running the command again and again fills the table, *)
(* whatever partial list of files an earlier run has left in the cache.    *)
Wanted ==
    Statics \cup allMarkets \cup UNION {{p} \cup RewardsIn(p) : p \in published \ Unsupported}
RerunsFill ==
    []<>(\E c \in Commands : job[c].pc = "list") => <>[](\A k \in Wanted : HasSource(k))
=============================================================================
