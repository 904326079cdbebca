----------------------------- MODULE FestivalFeed -----------------------------
(****************************************************************************)
(* The festivals of KTO as the app shows them (feed/services/kto_channels):  *)
(* the ten cards of the channel "festa", served from redis while a task of   *)
(* the process fetches a new list, and the pool of all running festivals     *)
(* that the agent searches, computed again from the cached list when the     *)
(* day has changed.  Calls of the app and the warming script overlap, page   *)
(* through a listing KTO may change, and may fail, time out or be cancelled; *)
(* the process may restart.  A day is an integer; a card keeps the days left *)
(* that were counted when it was made, not the day the festival ends.        *)
(****************************************************************************)
EXTENDS Integers, Sequences, FiniteSets

CONSTANTS
    NoList,
    Festivals,
    Begins, Ends,              \* the first and the last day of each festival
    Pictured,                  \* the festivals KTO has a picture of
    Listings,                  \* what KTO may list, in its order
    Slots,                     \* calls that can be under way at once
    FestaCards, PageRows, MaxPages, PoolWave,
    FestaWindow, PoolWindow,   \* how many days ago a listed festival may begin
    FestaTtl, PoolTtl,         \* days a stored list is kept
    MaxDay, MaxFailures          \* bounds: the clock, failures of every kind

ASSUME FestivalAssumption ==
    /\ Begins \in [Festivals -> Int] /\ Ends \in [Festivals -> Int]
    /\ \A f \in Festivals : Begins[f] <= Ends[f]
    /\ Pictured \subseteq Festivals
    /\ Listings # {} /\ Listings \subseteq Seq(Festivals)
    /\ {FestaCards, PageRows, MaxPages, PoolWave, FestaTtl, PoolTtl} \subseteq Nat \ {0}
    /\ {FestaWindow, PoolWindow, MaxDay, MaxFailures} \subseteq Nat

VARIABLES
    day,         \* today in Korea
    stored,       \* the stored list of each cache, or NoList
    calls,       \* the fetches under way
    refreshing,  \* _refreshing holds "festa"
    served,      \* the list the last step served a request, or NoList
    failures

festivalVars == <<day, stored, calls, refreshing, served, failures>>

Caches == {"festa", "pool"}
Days == 0..MaxDay
Window == [festa |-> FestaWindow, pool |-> PoolWindow]
Wave == [festa |-> 1, pool |-> PoolWave]
Ttl == [festa |-> FestaTtl, pool |-> PoolTtl]

Idle == [at |-> "idle"]

FestivalInit ==
    /\ day = 0
    /\ stored = [c \in Caches |-> NoList]
    /\ calls = [s \in Slots |-> Idle]
    /\ refreshing = FALSE
    /\ served = NoList
    /\ failures = 0

---------------------------------------------------------------------------
\* The lists.

\* Page p of a listing, of the festivals that begin in a call's window: its rows,
\* each with its page and its index in the listing.
Page(listing, first, p) ==
    LET listed == {i \in DOMAIN listing : Begins[listing[i]] >= first}
        row(i) == Cardinality({j \in listed : j <= i})
    IN  {[place |-> <<p, i>>, id |-> listing[i]] :
            i \in {j \in listed : (p - 1) * PageRows < row(j) /\ row(j) <= p * PageRows}}

Before(p, q) == p[1] < q[1] \/ (p[1] = q[1] /\ p[2] < q[2])

\* Those of the rows that come before r: fewer days left, or as many and an earlier place.
Ahead(rows, r) == {q \in rows : q.left < r.left \/ (q.left = r.left /\ Before(q.place, r.place))}

\* Cards with fewest days left first, in the order of the rows among equals.
Sorted(rows) ==
    LET nth(n) == CHOOSE r \in rows : Cardinality(Ahead(rows, r)) = n - 1
    IN  [n \in 1..Cardinality(rows) |-> [id |-> nth(n).id, left |-> nth(n).left]]

Running(items, today) ==
    {r \in items : r.id \in Pictured /\ Begins[r.id] <= today /\ today <= Ends[r.id]}

\* _festival_cards: of the rows of one festival the first.
FestivalCards(items, today) ==
    LET rows == Running(items, today)
        new == {r \in rows : ~\E q \in rows : q.id = r.id /\ Before(q.place, r.place)}
    IN  Sorted({[id |-> r.id, left |-> Ends[r.id] - today, place |-> r.place] : r \in new})

CardsOf(cache, items, today) ==
    LET cards == FestivalCards(items, today)
    IN  IF cache = "festa" THEN SubSeq(cards, 1, IF Len(cards) < FestaCards THEN Len(cards) ELSE FestaCards)
                           ELSE cards

\* A stored pool whose cards are served on a later day as they are.
RevalidatedNot(doc, today) == doc.cards

Revalidated(doc, today) ==
    LET later == today - doc.date
        running == {i \in DOMAIN doc.cards : doc.cards[i].left >= later}
    IN  Sorted({[id |-> doc.cards[i].id, left |-> doc.cards[i].left - later, place |-> <<0, i>>] :
                   i \in running})

---------------------------------------------------------------------------
\* A fetch: from a call of load_* to its answer.

Idles(s) == calls[s] = Idle
Ended(s) == calls' = [calls EXCEPT ![s] = Idle]

Fetch(cache, who, stale) ==
    [at |-> "fetch", cache |-> cache, who |-> who, from |-> day, page |-> 1,
     items |-> {}, stale |-> stale, cards |-> <<>>, date |-> day]

Serve(cache, began, cards) == served' = [cache |-> cache, began |-> began, cards |-> cards]

Spawned(s, cache, who, stale) == calls' = [calls EXCEPT ![s] = Fetch(cache, who, stale)]

\* An old list is served at once and one task of the process fetches a new one.
SpawnRefresh(s) ==
    /\ ~refreshing
    /\ Spawned(s, "festa", "refresh", <<>>)
    /\ refreshing' = TRUE

LoadFestaChannel(s) ==
    /\ Idles(s)
    /\ IF stored["festa"] = NoList
         THEN Spawned(s, "festa", "request", <<>>) /\ served' = NoList /\ UNCHANGED refreshing
         ELSE /\ Serve("festa", day, stored["festa"].cards)
              /\ IF stored["festa"].date # day /\ ~refreshing THEN SpawnRefresh(s)
                                                             ELSE UNCHANGED <<calls, refreshing>>
    /\ UNCHANGED <<day, stored, failures>>

LoadPool(s) ==
    /\ Idles(s)
    /\ IF stored["pool"] # NoList /\ stored["pool"].date = day
         THEN Serve("pool", day, stored["pool"].cards) /\ UNCHANGED calls
         ELSE /\ Spawned(s, "pool", "request",
                         IF stored["pool"] = NoList THEN <<>> ELSE Revalidated(stored["pool"], day))
              /\ served' = NoList
    /\ UNCHANGED <<day, stored, refreshing, failures>>

\* The script warm_channels: a process of its own, which knows no _refreshing.
WarmAllChannels(s) ==
    /\ Idles(s)
    /\ Spawned(s, "festa", "warm", <<>>)
    /\ served' = NoList
    /\ UNCHANGED <<day, stored, refreshing, failures>>

\* The pages a call is answered when KTO lists listed[p] at page p, together.
PageOf(c, listed, p) == Page(listed[p], c.from - Window[c.cache], p)
Gathered(c, listed) == UNION {PageOf(c, listed, p) : p \in DOMAIN listed}

\* One gather of pages; KTO may list something else at each.  Past the last of them
\* the cards are made for the day the call began and dated with the day it is now.
FetchWave(s) ==
    /\ calls[s].at = "fetch"
    /\ LET c == calls[s]
           pages == {p \in c.page..MaxPages : p < c.page + Wave[c.cache]}
       IN  \E listed \in [pages -> Listings] :
             LET items == c.items \cup Gathered(c, listed)
             IN  IF MaxPages \in pages \/ \E p \in pages : Cardinality(PageOf(c, listed, p)) < PageRows
                   THEN calls' = [calls EXCEPT ![s] = [@ EXCEPT !.at = "set", !.items = {}, !.page = 0,
                                                                !.date = day,
                                                                !.cards = CardsOf(c.cache, items, c.from)]]
                   ELSE calls' = [calls EXCEPT ![s] = [@ EXCEPT !.items = items,
                                                                !.page = c.page + Cardinality(pages)]]
    /\ served' = NoList
    /\ UNCHANGED <<day, stored, refreshing, failures>>

\* What the end of a call leaves: the guard is released by the task that took
\* it, a request is answered.
Released(c) == refreshing' = (refreshing /\ c.who # "refresh")

Answers(c, cards) ==
    IF c.who = "request" THEN Serve(c.cache, c.from, cards)
                         ELSE served' = NoList

\* The list is stored only where there is none.
StoreIfNone(s) ==
    /\ calls[s].at = "set"
    /\ stored' = IF stored[calls[s].cache] # NoList THEN stored
                ELSE [stored EXCEPT ![calls[s].cache] = [date |-> calls[s].date, cards |-> calls[s].cards]]
    /\ Answers(calls[s], calls[s].cards)
    /\ Released(calls[s])
    /\ Ended(s)
    /\ UNCHANGED <<day, failures>>

Store(s) ==
    /\ calls[s].at = "set"
    /\ stored' = [stored EXCEPT ![calls[s].cache] = [date |-> calls[s].date, cards |-> calls[s].cards]]
    /\ Answers(calls[s], calls[s].cards)
    /\ Released(calls[s])
    /\ Ended(s)
    /\ UNCHANGED <<day, failures>>

---------------------------------------------------------------------------
\* What may fail.

Spent == failures < MaxFailures /\ failures' = failures + 1

\* redis does not store: the cards are served all the same.
StoreFails(s) ==
    /\ calls[s].at = "set"
    /\ Spent
    /\ Answers(calls[s], calls[s].cards)
    /\ Released(calls[s])
    /\ Ended(s)
    /\ UNCHANGED <<day, stored>>

\* KTO raises, or the timeout of the agent's call passes: the pool falls back on
\* the revalidated list, anything else raises.
FetchFails(s) ==
    /\ calls[s].at = "fetch"
    /\ Spent
    /\ IF calls[s].stale # <<>> THEN Answers(calls[s], calls[s].stale) ELSE served' = NoList
    /\ Released(calls[s])
    /\ Ended(s)
    /\ UNCHANGED <<day, stored>>

\* wait_for of the home screen gives up on a channel that is not stored yet.
CancelFesta(s) ==
    /\ calls[s].at # "idle"
    /\ calls[s].cache = "festa" /\ calls[s].who = "request"
    /\ Spent
    /\ Ended(s)
    /\ served' = NoList
    /\ UNCHANGED <<day, stored, refreshing>>

\* redis does not answer the read: the list is fetched.
ReadFails(s, cache) ==
    /\ Idles(s)
    /\ Spent
    /\ Spawned(s, cache, "request", <<>>)
    /\ served' = NoList
    /\ UNCHANGED <<day, stored, refreshing>>

\* The process ends with its tasks and its guard; the script's task lives on.
Restart ==
    /\ Spent
    /\ calls' = [s \in Slots |-> IF calls[s].at # "idle" /\ calls[s].who = "warm" THEN calls[s] ELSE Idle]
    /\ refreshing' = FALSE
    /\ served' = NoList
    /\ UNCHANGED <<day, stored>>

---------------------------------------------------------------------------
\* Time.  A list dies within the last day of its time to live.  A fetch lasts
\* minutes, so no call outlives two midnights.

Alive(cache) == stored[cache] # NoList /\ day < stored[cache].date + Ttl[cache]

ExpireList(cache) ==
    /\ stored[cache] # NoList /\ ~Alive(cache)
    /\ stored' = [stored EXCEPT ![cache] = NoList]
    /\ served' = NoList
    /\ UNCHANGED <<day, calls, refreshing, failures>>

NewDay ==
    /\ day < MaxDay
    /\ \A s \in Slots : calls[s].at # "idle" => calls[s].from = day
    /\ day' = day + 1
    /\ stored' = [c \in Caches |-> IF Alive(c) THEN stored[c] ELSE NoList]
    /\ served' = NoList
    /\ UNCHANGED <<calls, refreshing, failures>>

FestivalNext ==
    \/ \E s \in Slots :
         \/ LoadFestaChannel(s) \/ LoadPool(s) \/ WarmAllChannels(s)
         \/ FetchWave(s) \/ Store(s) \/ StoreFails(s) \/ FetchFails(s) \/ CancelFesta(s)
         \/ \E c \in Caches : ReadFails(s, c)
    \/ \E c \in Caches : ExpireList(c)
    \/ Restart
    \/ NewDay

\* Every call to KTO and redis has a timeout, so every fetch ends: this is weak
\* fairness of the steps FetchWave and Store of each call, which are enabled
\* until it has ended.
FestivalFairness == \A s \in Slots : []<>Idles(s)

---------------------------------------------------------------------------
\* Properties.

\* The guard of the refresh is up exactly while a refresh is under way, and there
\* are never two, whether the list could be stored, the fetch failed or the
\* process was restarted.
OneRefresh ==
    Cardinality({s \in Slots : calls[s].at # "idle" /\ calls[s].who = "refresh"}) = (IF refreshing THEN 1 ELSE 0)

\* The agent is never given a festival that ended more than a day before it
\* asked, nor a count of days that is off by more than one, however old the
\* stored pool is: load_festival_pool counts the days again from the date of the
\* list, which is one late when the list was fetched across midnight.
PoolIsOfToday ==
    served # NoList /\ served.cache = "pool" =>
        \A i \in DOMAIN served.cards :
            LET c == served.cards[i] IN
            /\ Ends[c.id] >= served.began - 1
            /\ c.left - (Ends[c.id] - served.began) \in {0, 1}

\* The channel serves a list as it was made, so its cards may have ended; but
\* never more than the three days a list is kept and the day it was fetched on.
FestaIsRecent ==
    served # NoList /\ served.cache = "festa" =>
        \A i \in DOMAIN served.cards : Ends[served.cards[i].id] >= served.began - FestaTtl - 1

\* A festival that moves between the pages of one fetch, or lies in two pages
\* of one gather, is one card.
ListedOnce ==
    served # NoList =>
        \A i, j \in DOMAIN served.cards : served.cards[i].id = served.cards[j].id => i = j

\* What is served of the festivals can still be visited, or could the day before,
\* and is fetched by one task at a time.
FestivalsAreCurrent == OneRefresh /\ PoolIsOfToday /\ FestaIsRecent /\ ListedOnce

\* Visitors of a new day are served the list of another one at once, and the
\* refresh they start has its list stored, unless something fails: the guard
\* lets one through, no list of the day before takes its place in between.
FestaCatchesUp ==
    \A d \in Days \ {0} :
        (\E s \in Slots : calls[s].at # "idle" /\ calls[s].who = "refresh" /\ calls[s].from = d)
            ~> (failures > 0 \/ (stored["festa"] # NoList /\ stored["festa"].date >= d))
================================================================================
