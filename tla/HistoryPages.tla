----------------------------- MODULE HistoryPages -----------------------------
(***************************************************************************)
(* The read side of the history API: HistoryController, HistoryService and *)
(* the listings of ReservesRepository, IncomesRepository and               *)
(* SpendsRepository.                                                       *)
(*                                                                         *)
(* A listing is sorted by date alone, so PostgreSQL may return the rows of *)
(* one day in another order each time, and it is cut into pages that are   *)
(* read, and with the v2 endpoints cached for an hour, one by one, while   *)
(* the collectors insert rows and an administrator deletes them.  The rows *)
(* and their number are two queries without a transaction.                 *)
(*                                                                         *)
(* Amounts are abstracted to what they are computed from: a difference to  *)
(* the row it subtracts, a price of COMP to its day.                       *)
(***************************************************************************)
EXTENDS Integers, Sequences, FiniteSets, SequencesExt

CONSTANTS
    Clients,   \* who reads a listing page by page
    Endpoints, \* a subset of AllEndpoints
    Sources,   \* the sources an endpoint selects
    NDays,     \* the days are 1 .. NDays
    PageSize,  \* the limit (perPage) of a client
    MaxRows,   \* bound: inserts into the tables in a behaviour
    MaxClears  \* bound: deletions by an administrator

AllEndpoints ==
    {"treasury", "revenue", "v2/treasury", "v2/revenue", "v2/stats", "v2/incentives"}

ASSUME PagesAssumption ==
    /\ Endpoints \subseteq AllEndpoints
    /\ NDays \in Nat /\ PageSize \in Nat \ {0} /\ MaxRows \in Nat /\ MaxClears \in Nat

Days == 1 .. NDays
Cached == {"v2/treasury", "v2/revenue", "v2/stats", "v2/incentives"}
Merged == {"v2/stats", "v2/incentives"}

VARIABLES
    endpoint,  \* the endpoint of this behaviour, and the order it is asked for
    order,
    rows,      \* the listed table: incomes for statistics, reserves otherwise
    spends,    \* table spends
    compPrices, \* the days table price has a price of COMP for
    version,   \* history: inserts so far
    clears,    \* history: deletions so far
    cache,     \* Redis: by offset, {} or the page stored in the last hour
    client     \* every client with the request it has in progress

tables == <<rows, spends, compPrices, version, clears>>
vars == <<endpoint, order, tables, cache, client>>

-----------------------------------------------------------------------------
(***************************************************************************)
(* Listings.                                                               *)
(***************************************************************************)
Before(a, b) == IF order = "ASC" THEN a.date <= b.date ELSE a.date >= b.date

(* ORDER BY date: any order within a day.                                  *)
Listings(table) ==
    {s \in SetToSeqs(table) : \A i \in 1 .. Len(s) - 1 : Before(s[i], s[i + 1])}

(* The rows of a day, and those listed before them.                        *)
OfDay(d) == {r \in rows : r.date = d}
AheadOf(d) == {r \in rows : IF order = "ASC" THEN r.date < d ELSE r.date > d}
DayRows == [d \in Days |-> Cardinality(OfDay(d))]
RowsAhead == [d \in Days |-> Cardinality(AheadOf(d))]

(* The page of a client, cut out by limit and offset (perPage and page).   *)
Window(s, offset) ==
    SubSeq(s, offset + 1, IF offset + PageSize < Len(s) THEN offset + PageSize ELSE Len(s))

(* The id of the latest row, as a set: {} when there is none.              *)
LatestOf(table) ==
    {r.id : r \in {x \in table :
        \A q \in table : q.date < x.date \/ (q.date = x.date /\ q.id <= x.id)}}

(* LAG over the rows of a source by date and id: the row a row is the      *)
(* difference to, {} for the first, which shows its stored value.          *)
Lag(r) ==
    LatestOf({q \in rows : q.source = r.source
                           /\ (q.date < r.date \/ (q.date = r.date /\ q.id < r.id))})

(* Mutant: the rows of a source are subtracted in the order of the page.   *)
DifferenceUnsorted(page, i) ==
    LET earlier == {j \in 1 .. i - 1 : page[j].source = page[i].source}
    IN  {page[j].id : j \in {k \in earlier : \A l \in earlier : l <= k}}

(* Revenue: the rows of a source on the page are sorted by date, and all   *)
(* but the first become the difference to the one before.                  *)
DifferenceOnPage(page, i) ==
    LET precedes(j, k) == page[j].date < page[k].date \/ (page[j].date = page[k].date /\ j < k)
        earlier == {j \in DOMAIN page : page[j].source = page[i].source /\ precedes(j, i)}
    IN  {page[j].id : j \in {k \in earlier : \A l \in earlier : ~precedes(k, l)}}

SpendsOf(r) == {s \in spends : s.source = r.source /\ s.date = r.date}

(* An entry of a page: its row, the row it is the difference to, the row   *)
(* of spends it is merged with, and the day of its price of COMP or 0.     *)
Entry(r, since, spent, price) ==
    [id |-> r.id, source |-> r.source, date |-> r.date,
     since |-> since, spends |-> spent, price |-> price]

(* COALESCE(latest spends' price, price of the day, 0): the latest row of  *)
(* spends, if there is one, decides.  Its price is never null, and one     *)
(* without a price holds 0, which keeps the price of the day from being    *)
(* used.                                                                   *)
HasPrice(r) ==
    IF SpendsOf(r) = {} THEN r.date \in compPrices
    ELSE \E s \in SpendsOf(r) : s.id \in LatestOf(SpendsOf(r)) /\ s.priced
OwnPrice(r) == IF HasPrice(r) THEN r.date ELSE 0

(* Mutant: the entries before the first price stay without one.            *)
FillForward(data) ==
    FoldLeft(LAMBDA acc, e :
               LET filled == IF e.price = 0 THEN [e EXCEPT !.price = acc.previous] ELSE e
               IN  [data |-> Append(acc.data, filled), previous |-> filled.price],
             [data |-> << >>, previous |-> 0], data).data

(* previousPrice and firstPrice when i entries have been passed.           *)
PreviousPrice(data) ==
    LET previous[i \in 0 .. Len(data)] ==
          IF i = 0 THEN 0 ELSE IF data[i].price # 0 THEN data[i].price ELSE previous[i - 1]
    IN  previous
FirstPrice(data) ==
    LET first[i \in 0 .. Len(data)] ==
          IF i = 0 THEN 0 ELSE IF first[i - 1] # 0 THEN first[i - 1] ELSE data[i].price
    IN  first

(* getIncentiveHistory: an entry without a price takes the one before it   *)
(* on its page, and those before the first price take that one.            *)
FillPrices(data) ==
    LET previous == PreviousPrice(data)
        first == FirstPrice(data)[Len(data)]
    IN  [i \in DOMAIN data |->
            [data[i] EXCEPT !.price = IF previous[i] # 0 THEN previous[i] ELSE first]]

-----------------------------------------------------------------------------
(***************************************************************************)
(* A request reads the rows and, beside them, their number; for the        *)
(* statistics the spends instead, which are then merged by day.            *)
(***************************************************************************)
(* The last five fields are history: how much had been inserted when the   *)
(* rows and their number (or the spends) were read, what had been deleted, *)
(* how many rows every day had, and how many were listed before them.      *)
NoCount == [d \in Days |-> 0]
NoPage == [data |-> << >>, total |-> 0, version |-> 0, besides |-> 0, clears |-> {},
           dates |-> NoCount, ahead |-> NoCount]
IdleClient ==
    [pc |-> "idle", offset |-> 0, pages |-> << >>, page |-> NoPage, found |-> {}, unread |-> {}]

Row == [id: Nat, source: Sources, date: Days]
Spent == [id: Nat, source: Sources, date: Days, priced: BOOLEAN]
Shape == [id: Nat, source: Sources, date: Days, since: SUBSET Nat, spends: SUBSET Nat, price: Nat]
Page == [data: Seq(Shape), total: 0 .. MaxRows, version: Nat, besides: Nat, clears: SUBSET Nat,
         dates: [Days -> Nat], ahead: [Days -> Nat]]
ClientState ==
    [pc: {"idle", "ask", "read", "walked"}, offset: Nat, pages: Seq(Page), page: Page,
     found: SUBSET Spent, unread: SUBSET {"rows", "count", "spends"}]

(* No walk is longer than the table can grow.                              *)
Offsets == {i * PageSize : i \in 0 .. MaxRows}

TypeOK ==
    /\ endpoint \in Endpoints /\ order \in {"ASC", "DESC"}
    /\ rows \in SUBSET Row /\ spends \in SUBSET Spent /\ compPrices \in SUBSET Days
    /\ version \in 0 .. MaxRows /\ clears \in 0 .. MaxClears
    /\ cache \in [Offsets -> SUBSET Page]
    /\ client \in [Clients -> ClientState]

Init ==
    /\ endpoint \in Endpoints /\ order \in {"ASC", "DESC"}
    /\ rows = {} /\ spends = {} /\ compPrices = {}
    /\ version = 0 /\ clears = 0
    /\ cache = [o \in Offsets |-> {}]
    /\ client = [c \in Clients |-> IdleClient]

Move(c, r) == client' = [client EXCEPT ![c] = r]
OnlyMoves(c, r) == Move(c, r) /\ UNCHANGED <<endpoint, order, tables, cache>>

(* The first page is asked for without an offset.                          *)
StartWalk(c) ==
    /\ client[c].pc \in {"idle", "walked"}
    /\ OnlyMoves(c, [IdleClient EXCEPT !.pc = "ask"])

(* A client goes on until offset and limit reach the total of the page.    *)
Taken(c, page) ==
    [IdleClient EXCEPT
       !.pc = IF client[c].offset + PageSize < page.total THEN "ask" ELSE "walked",
       !.offset = client[c].offset + PageSize, !.pages = Append(client[c].pages, page)]

(* The key of a page names the endpoint, the limit, the offset and the     *)
(* order.  A page of the last hour is returned as it is.                   *)
AnswerFromCache(c) ==
    /\ client[c].pc = "ask" /\ endpoint \in Cached
    /\ \E page \in cache[client[c].offset] : OnlyMoves(c, Taken(c, page))

Compute(c) ==
    /\ client[c].pc = "ask"
    /\ endpoint \in Cached => cache[client[c].offset] = {}
    /\ OnlyMoves(c, [client[c] EXCEPT
                       !.pc = "read",
                       !.unread = {"rows", IF endpoint = "v2/stats" THEN "spends" ELSE "count"}])

EntryOf(page, i) ==
    CASE endpoint = "v2/incentives" ->
           Entry(page[i], Lag(page[i]), LatestOf(SpendsOf(page[i])), OwnPrice(page[i]))
      [] endpoint \in {"revenue", "v2/revenue"} ->
           Entry(page[i], DifferenceOnPage(page, i), {}, 0)
      [] OTHER -> Entry(page[i], {}, {}, 0)

(* Mutant: every row of spends of the day is joined.                       *)
JoinAll(listing) ==
    FoldLeft(LAMBDA acc, r :
               IF endpoint = "v2/incentives" /\ Cardinality(SpendsOf(r)) > 1
               THEN acc \o <<r, r>> ELSE Append(acc, r),
             << >>, listing)

(* The joins of the incentives add no row: ROW_NUMBER leaves one row of    *)
(* spends, and one price, of a day.                                        *)
Join(listing) == listing

EntriesOf(listing, offset) ==
    LET window == Window(Join(listing), offset)
    IN  [i \in DOMAIN window |-> EntryOf(window, i)]
DataOf(listing, offset) ==
    IF endpoint = "v2/incentives" THEN FillPrices(EntriesOf(listing, offset))
    ELSE EntriesOf(listing, offset)

ReadRows(c) ==
    /\ client[c].pc = "read" /\ "rows" \in client[c].unread
    /\ \E listing \in Listings(rows) :
          OnlyMoves(c, [client[c] EXCEPT
             !.unread = @ \ {"rows"},
             !.page = [client[c].page EXCEPT
                 !.data = DataOf(listing, client[c].offset),
                 !.version = version, !.clears = @ \cup {clears},
                 !.total = IF endpoint = "v2/stats" THEN Cardinality(rows) ELSE @,
                 !.dates = DayRows, !.ahead = RowsAhead]])

(* getManyAndCount counts after it has read; the incentives do both at once. *)
ReadCount(c) ==
    /\ client[c].pc = "read" /\ "count" \in client[c].unread
    /\ endpoint = "v2/incentives" \/ "rows" \notin client[c].unread
    /\ OnlyMoves(c, [client[c] EXCEPT
           !.unread = @ \ {"count"},
           !.page = [client[c].page EXCEPT !.total = Cardinality(rows), !.besides = version,
                                           !.clears = @ \cup {clears}]])

(* Of several rows of a day the last of the listing is found, that is any. *)
ReadSpends(c) ==
    /\ client[c].pc = "read" /\ "spends" \in client[c].unread
    /\ \E found \in SUBSET spends :
          /\ \A s \in spends : Cardinality(found \cap SpendsOf(s)) = 1
          /\ OnlyMoves(c, [client[c] EXCEPT
                 !.unread = @ \ {"spends"}, !.found = found,
                 !.page = [client[c].page EXCEPT !.besides = version, !.clears = @ \cup {clears}]])

Merge(found, e) == {s.id : s \in {x \in found : x.source = e.source /\ x.date = e.date}}

(* The incentives answer an empty page with a total of 0, and the          *)
(* statistics are merged.                                                  *)
Answer(c) ==
    LET page == client[c].page
    IN  CASE endpoint = "v2/incentives" /\ page.data = << >> -> [page EXCEPT !.total = 0]
          [] endpoint = "v2/stats" ->
               [page EXCEPT !.data = [i \in DOMAIN page.data |->
                  [page.data[i] EXCEPT !.spends = Merge(client[c].found, page.data[i])]]]
          [] OTHER -> page

Respond(c) ==
    /\ client[c].pc = "read" /\ client[c].unread = {}
    /\ Move(c, Taken(c, Answer(c)))
    /\ cache' = IF endpoint \in Cached THEN [cache EXCEPT ![client[c].offset] = {Answer(c)}]
                ELSE cache
    /\ UNCHANGED <<endpoint, order, tables>>

RequestFails(c) ==
    /\ client[c].pc = "read"
    /\ OnlyMoves(c, IdleClient)

Expire ==
    /\ \E o \in Offsets : cache[o] # {} /\ cache' = [cache EXCEPT ![o] = {}]
    /\ UNCHANGED <<endpoint, order, tables, client>>

-----------------------------------------------------------------------------
(***************************************************************************)
(* The collectors and the administrator.                                   *)
(***************************************************************************)
Grows == version < MaxRows /\ version' = version + 1

(* A row may be of any day: two processes collect at their own pace, and a *)
(* checkpoint that was not written makes days be stored again.             *)

(* saveStats stores the spends of a day before its incomes, with a price.  *)
StoreSpends ==
    /\ endpoint \in Merged /\ Grows
    /\ \E s \in Sources, d \in Days :
          spends' = spends \cup {[id |-> version + 1, source |-> s, date |-> d, priced |-> TRUE]}
    /\ UNCHANGED <<endpoint, order, rows, compPrices, clears, cache, client>>

(* Mutant: the incomes of a day are stored before its spends.              *)
StoreRowFirst ==
    /\ Grows
    /\ \E s \in Sources, d \in Days :
          rows' = rows \cup {[id |-> version + 1, source |-> s, date |-> d]}
    /\ UNCHANGED <<endpoint, order, spends, compPrices, clears, cache, client>>

(* Incomes come after their spends, as StatsSync has it (SpendsComeFirst). *)
StoreRow ==
    /\ Grows
    /\ \E s \in Sources, d \in Days :
          /\ endpoint = "v2/stats" /\ clears = 0 =>
               \E q \in spends : q.source = s /\ q.date = d
          /\ rows' = rows \cup {[id |-> version + 1, source |-> s, date |-> d]}
    /\ UNCHANGED <<endpoint, order, spends, compPrices, clears, cache, client>>

StorePrice ==
    /\ endpoint = "v2/incentives" /\ Grows
    /\ \E d \in Days \ compPrices : compPrices' = compPrices \cup {d}
    /\ UNCHANGED <<endpoint, order, rows, spends, clears, cache, client>>

(* Reserves are deleted by their sources, the two tables of the statistics *)
(* each on its own.                                                        *)
Clear ==
    /\ clears < MaxClears /\ clears' = clears + 1
    /\ \/ /\ endpoint # "v2/stats" /\ UNCHANGED spends
          /\ \E some \in SUBSET Sources : rows' = {r \in rows : r.source \notin some}
       \/ endpoint = "v2/stats" /\ rows' = {} /\ UNCHANGED spends
       \/ endpoint \in Merged /\ spends' = {} /\ UNCHANGED rows
    /\ UNCHANGED <<endpoint, order, compPrices, version, cache, client>>

Next ==
    \/ StoreRow \/ StoreSpends \/ StorePrice \/ Clear \/ Expire
    \/ \E c \in Clients :
          \/ StartWalk(c) \/ AnswerFromCache(c) \/ Compute(c) \/ ReadRows(c)
          \/ ReadCount(c) \/ ReadSpends(c) \/ Respond(c) \/ RequestFails(c)

Spec == Init /\ [][Next]_vars

-----------------------------------------------------------------------------
(***************************************************************************)
(* Properties.                                                             *)
(***************************************************************************)
Walked(c) == client[c].pc = "walked"
(* What the pages show of a day: the places of its rows, and how many.     *)
Shown(pages, d) ==
    {x \in UNION {{i} \X DOMAIN pages[i].data : i \in DOMAIN pages} :
        pages[x[1]].data[x[2]].date = d}
OnDay(pages, d) == Cardinality(Shown(pages, d))

(* No page is older than the one before it, no number older than its page, *)
(* and nothing was deleted.                                                *)
GrewOnly(pages) ==
    /\ \E k \in 0 .. MaxClears : \A i \in DOMAIN pages : pages[i].clears = {k}
    /\ \A i \in DOMAIN pages : pages[i].version <= pages[i].besides
    /\ \A i \in 1 .. Len(pages) - 1 : pages[i].version <= pages[i + 1].version
StoodStill(pages) ==
    \A i \in DOMAIN pages : pages[i].version = pages[1].version /\ pages[i].besides = pages[1].version

(* A walk over the pages shows of every day as many rows as the day had    *)
(* when it began, although rows of a day may change places between two     *)
(* pages, rows of earlier days are inserted, and pages come from the cache *)
(* (as long as none is older than the page before it).  If nothing was     *)
(* inserted it shows no more.                                              *)
WalkMissesNothing ==
    \A c \in Clients :
        Walked(c) /\ GrewOnly(client[c].pages) =>
            \A d \in Days :
                /\ OnDay(client[c].pages, d) >= client[c].pages[1].dates[d]
                /\ StoodStill(client[c].pages) =>
                     OnDay(client[c].pages, d) = client[c].pages[1].dates[d]

(* Revenue and incentives compute the same difference of a row, one within *)
(* the page and one over the table, except for the first row of its source *)
(* on a page, and days that were stored twice.                             *)
OncePerDay == \A r, q \in rows : r.source = q.source /\ r.date = q.date => r = q
RevenueAgreesInsideAPage ==
    [][\A c \in Clients :
         ReadRows(c) /\ endpoint \in {"revenue", "v2/revenue"} /\ OncePerDay =>
            LET data == client'[c].page.data
            IN  \A i \in DOMAIN data :
                  \/ data[i].since = Lag(data[i])
                  \/ /\ data[i].since = {}
                     /\ \A j \in DOMAIN data :
                          data[j].source = data[i].source => data[j].date >= data[i].date]_vars

(* An entry of the incentives has the price of its day, or of the nearest  *)
(* entry before it on the page that has one, or else of the nearest after; *)
(* none is left without a price while another has one.                     *)
PricesComeFromNeighbours ==
    [][\A c \in Clients :
         ReadRows(c) /\ endpoint = "v2/incentives" =>
            LET data == client'[c].page.data
                own(i) == OwnPrice(data[i]) # 0
            IN  \A i \in DOMAIN data :
                  IF \A j \in DOMAIN data : ~own(j) THEN data[i].price = 0
                  ELSE \E j \in DOMAIN data :
                         /\ own(j) /\ data[i].price = data[j].date
                         /\ \/ j <= i /\ \A k \in j + 1 .. i : ~own(k)
                            \/ j > i /\ \A k \in 1 .. j - 1 : ~own(k)]_vars

(* Spends are stored before incomes, so an entry of the statistics lacks   *)
(* its spends only if its incomes were stored while the request was        *)
(* reading, or somebody deleted them.                                      *)
StatsHaveTheirSpends ==
    \A c \in Clients :
        endpoint = "v2/stats" =>
            \A i \in DOMAIN client[c].pages :
                LET page == client[c].pages[i]
                IN  page.clears = {0} =>
                      \A e \in {page.data[j] : j \in DOMAIN page.data} :
                          e.id <= page.besides => e.spends # {}
=============================================================================
