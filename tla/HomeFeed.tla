------------------------------- MODULE HomeFeed -------------------------------
(****************************************************************************)
(* The lists of the home screen and the map (feed/services, map/services):   *)
(* channels and rankings computed from the table spots, each kept in redis   *)
(* for a while, the trending ranking being made of lists that are kept       *)
(* themselves.  The pipeline shows and hides spots between any two requests. *)
(* The feed of overseas posts is another screen, and the fetches behind the  *)
(* channel "festa" run beside both: what they can leave in the channel is    *)
(* FestaLists here.  A behaviour is about one of the three, so that TLC does *)
(* not interleave what cannot interact.  A request is one step: its queries  *)
(* each read what is committed, and only the show flag changes under them.   *)
(* A redis that does not answer is one whose key has expired.                *)
(****************************************************************************)
EXTENDS Spots, ExplorePosts, FestivalFeed, SequencesExt, FiniteSetsExt

CONSTANTS
    Photo,              \* spots that have a first image
    Signal,             \* the score of a spot in a channel, or None: it misses a cut
    Nearness,           \* the score of a spot among those nearby
    Aesthetic, Rate,    \* aesthetic_score, concentration_rate, or None
    Shuffle,            \* md5 of the content id
    Embedded,           \* spots with an embedding
    Between,            \* the distance of two embeddings
    Regions, Here, Radius,
    FestaLists,         \* what the channel festa may hold, ids
    SavedLists,         \* what a user may have saved, newest first
    Course,             \* the slots of the week's program: a category and a count
    Program,            \* its sigungu
    TrendingPattern, NearbyPattern,
    CardCount, TasteLimit, MapLimit, SeedLimit, MinTasteSeeds, NeighborOverfetch,
    MaxLoads, MaxFlags  \* bounds: requests of the home screen, spots the pipeline flags

SignalKeys == {"spot", "cafe", "food", "hidden"}
Pools == <<"spot", "cafe", "food">>
HomeCategories == {"all", "spot", "cafe", "food"}

ASSUME HomeAssumption ==
    /\ Photo \subseteq Ids /\ Embedded \subseteq Ids /\ {Here, Radius} \subseteq Int
    /\ DOMAIN Signal = SignalKeys /\ \A key \in SignalKeys, s \in Ids : Signal[key][s] \in Int \cup {None}
    /\ \A s \in Ids : {Aesthetic[s], Rate[s]} \subseteq Int \cup {None} /\ {Nearness[s], Shuffle[s]} \subseteq Int
    /\ \A a \in Embedded, s \in Ids : Between[a][s] \in Int
    /\ FestaLists \subseteq Seq(Ids) /\ SavedLists \subseteq Seq(Ids)
    /\ \A list \in FestaLists : IsInjective(list)
    /\ Course \in Seq([category : NearbyCategory, count : Nat])
    /\ \A i, j \in DOMAIN Course : Course[i].category = Course[j].category => i = j
    /\ Range(TrendingPattern) = {"spot", "cafe", "food", "festa"}
    /\ Range(NearbyPattern) = {"spot", "cafe", "food"}
    /\ {TrendingPattern, NearbyPattern} \subseteq Seq(STRING)
    /\ {CardCount, TasteLimit, MapLimit, MinTasteSeeds, NeighborOverfetch} \subseteq Nat \ {0}
    /\ MinTasteSeeds <= SeedLimit /\ {SeedLimit, MaxLoads, MaxFlags} \subseteq Nat

VARIABLES
    screen,    \* what a behaviour is about: "home", "explore" or "festivals"
    visible,   \* spots with show_flag = 1
    redis,     \* the kept list of each key, or None
    answer,    \* what the last step answered, or None
    loads

homeVars == <<screen, visible, redis, answer, loads>>
vars == <<homeVars, postVars, festivalVars>>

SignalKey(key, region) == <<"sig", key, region>>
Keys ==
    {SignalKey(key, region) : key \in SignalKeys, region \in Regions \cup {None}} \cup
    {<<name, cat>> : name \in {"nearby", "trending"}, cat \in HomeCategories} \cup
    {<<"picks", cat>> : cat \in HomeCategories \cup {"hidden", "festa"}} \cup {<<"curation">>}

Init ==
    /\ screen \in {"home", "explore", "festivals"}
    /\ visible = Ids
    /\ redis = [k \in Keys |-> None]
    /\ answer = None
    /\ loads = 0
    /\ PostsInit /\ FestivalInit
    /\ screen # "explore" => listed = Posts /\ session.seed = Min(Seeds)

Shown == visible \cap Photo

---------------------------------------------------------------------------
\* The channels of signals (signal_channels.py).

Fence(key, s) == IF key \in {"spot", "hidden"} THEN InTravelPool(s) ELSE In(key, s)

\* _channel_sql: the best of each sigungu of a region, or of each region.
SignalRows(key, region) ==
    LET rows == {s \in Shown : /\ Signal[key][s] # None /\ Fence(key, s)
                               /\ region # None => Sido[s] = region}
        score == [s \in Ids |-> IF Signal[key][s] = None THEN 0 ELSE -Signal[key][s]]
    IN  Take(Ordered(FirstOfGroups(rows, IF region = None THEN Sido ELSE Sigungu, score), score),
             CardCount)

\* _query: the region first, then the country fills up.
Query(key, region) ==
    LET scoped == IF region # None /\ key # "hidden" THEN SignalRows(key, region) ELSE <<>>
        national == Only(SignalRows(key, None), Ids \ Range(scoped))
    IN  Take(scoped \o national, CardCount)

RegionOf(key, region) == IF key = "hidden" THEN None ELSE region

\* load_signal_channel_cached: only a list with cards is kept.
SignalList(key, region) ==
    LET kept == redis[SignalKey(key, RegionOf(key, region))]
    IN  IF kept # None THEN kept ELSE Query(key, RegionOf(key, region))

\* Of the lists a request computes, those with cards are kept.
WithSignals(asked) ==
    [k \in Keys |-> IF /\ redis[k] = None
                       /\ \E a \in asked : /\ k = SignalKey(a[1], RegionOf(a[1], a[2]))
                                           /\ Query(a[1], RegionOf(a[1], a[2])) # <<>>
                      THEN Query(k[2], k[3]) ELSE redis[k]]

---------------------------------------------------------------------------
\* interleave: every slot of the pattern takes the first card of its pool that
\* is not out yet, or of the first pool of the pattern that has one; after the
\* pattern the slots go round until the limit or until no pool has a card left.

Fresh(pools, name, out) ==
    IF name \in DOMAIN pools THEN Only(pools[name], Ids \ Range(out)) ELSE <<>>

\* A card of the first of the names that has one.
OneOf(pools, names, out) ==
    LET with == {i \in DOMAIN names : Fresh(pools, names[i], out) # <<>>}
    IN  IF with = {} THEN <<>> ELSE <<Fresh(pools, names[Min(with)], out)[1]>>

Slot(pools, names, out, limit) == IF Len(out) >= limit THEN out ELSE out \o OneOf(pools, names, out)

\* The slots in turn, each of the names it may take a card of.
Pass(pools, slots, limit, start) ==
    LET out[n \in 0..Len(slots)] == IF n = 0 THEN start ELSE Slot(pools, slots[n], out[n - 1], limit)
    IN  out[Len(slots)]

FirstPass(pools, pattern, limit) ==
    Pass(pools, [i \in DOMAIN pattern |-> <<pattern[i]>> \o pattern], limit, <<>>)

\* One pass over the pattern and no more.
InterleavedOnce(pools, pattern, limit) == FirstPass(pools, pattern, limit)

Interleaved(pools, pattern, limit) ==
    LET out[round \in 0..limit] ==
            IF round = 0 THEN FirstPass(pools, pattern, limit)
            ELSE Pass(pools, [i \in DOMAIN pattern |-> <<pattern[i]>>], limit, out[round - 1])
    IN  out[limit]

\* load_trending and load_nearby_ranked of pools: all of them, or one category.
Ranked(cat, pools, pattern) ==
    IF cat = "all" THEN Interleaved(pools, pattern, CardCount) ELSE Take(pools[cat], CardCount)

---------------------------------------------------------------------------
\* Requests.

Answered(kind, cards) == answer' = [kind |-> kind, cards |-> cards]

Kept(key, kind, cards) ==
    /\ redis' = [redis EXCEPT ![key] = cards]
    /\ Answered(kind, cards)

\* GET /home/channels/{key} of a channel of signals.
LoadSignal(key, region) ==
    /\ Answered("signal", SignalList(key, region))
    /\ redis' = WithSignals({<<key, region>>})

\* The cards as the channel festa holds them.
AnyDetails(ids) == ids

\* A card whose spot cannot be opened loses its id.
DropUnresolvableDetails(ids) == [i \in DOMAIN ids |-> IF ids[i] \in visible THEN ids[i] ELSE None]

\* The festivals near the reader first, those without a place last.
SortFestaByDistance(ids) ==
    Ordered(Range(ids), [s \in Ids |-> IF Place[s] = None THEN 1000 ELSE Distance(s, Here)])

LoadFesta(ids, located) ==
    /\ Answered("festa", DropUnresolvableDetails(IF located THEN SortFestaByDistance(ids) ELSE ids))
    /\ UNCHANGED redis

\* GET /home/channels: which channels have cards; festa is left out when it has none.
LoadMetas(region, festa) ==
    LET asked == {<<"spot", region>>, <<"cafe", region>>, <<"food", region>>, <<"hidden", None>>}
    IN  /\ answer' = [kind |-> "metas",
                      open |-> {a[1] : a \in {b \in asked : SignalList(b[1], b[2]) # <<>>}}
                               \cup (IF festa # <<>> THEN {"festa"} ELSE {})]
        /\ redis' = WithSignals(asked)

LoadTrending(cat, festa) ==
    LET key == <<"trending", cat>>
        wanted == IF cat = "all" THEN Range(Pools) ELSE {cat}
        pools == [name \in wanted \cup {"festa"} |->
                    IF name = "festa" THEN festa ELSE SignalList(name, None)]
    IN  IF redis[key] # None THEN Answered("ranking", redis[key]) /\ UNCHANGED redis
        ELSE LET cards == Ranked(cat, pools, TrendingPattern)
                 asked == {<<name, None>> : name \in wanted}
             IN  /\ redis' = [WithSignals(asked) EXCEPT ![key] = cards]
                 /\ answer' = [kind |-> "ranking", cards |-> cards,
                               pools |-> IF cat = "all" THEN pools ELSE [name \in {cat} |-> pools[name]]]

NearbyRows(pool) ==
    LET near == {s \in Shown : /\ Fence(pool, s)
                               /\ Place[s] # None /\ Distance(s, Here) <= Radius}
    IN  Take(Ordered(near, [s \in Ids |-> IF Place[s] = None THEN 0
                                          ELSE Distance(s, Here) - 1000 * Nearness[s]]), CardCount)

LoadNearby(cat) ==
    LET key == <<"nearby", cat>>
        pools == [name \in (IF cat = "all" THEN Range(Pools) ELSE {cat}) |-> NearbyRows(name)]
        cards == Ranked(cat, pools, NearbyPattern)
    IN  IF redis[key] # None THEN Answered("ranking", redis[key]) /\ UNCHANGED redis
        ELSE /\ redis' = [redis EXCEPT ![key] = cards]
             /\ answer' = [kind |-> "ranking", cards |-> cards, pools |-> pools]

\* One card of a sigungu: the busiest or the quietest, or the first of the shuffle.
TastePicks(cat) ==
    LET rated == cat \in {"all", "spot", "hidden"}
        fits(s) == CASE cat \in {"all", "spot", "hidden"} -> In("attraction", s)
                     [] cat = "festa" -> Code[s].l1 = "EV"
                     [] OTHER -> In(cat, s)
        rows == {s \in Shown \cap Embedded : fits(s) /\ (rated => Rate[s] # None)}
        key == [s \in Ids |-> IF ~rated THEN Shuffle[s] ELSE IF Rate[s] = None THEN 0
                              ELSE IF cat = "hidden" THEN Rate[s] ELSE -Rate[s]]
    IN  Take(Ordered(FirstOfGroups(rows, Sigungu, key), key), CardCount)

LoadTastePicks(cat) ==
    LET key == <<"picks", cat>>
    IN  Kept(key, "picks", IF redis[key] # None THEN redis[key] ELSE TastePicks(cat))

CurationSlot(slot) ==
    Take(Ordered({s \in Shown : Sigungu[s] = Program /\ In(slot.category, s)},
                 [s \in Ids |-> IF Aesthetic[s] = None THEN 1000 ELSE -Aesthetic[s]]), slot.count)

Curated ==
    LET cards[n \in 0..Len(Course)] == IF n = 0 THEN <<>> ELSE cards[n - 1] \o CurationSlot(Course[n])
    IN  cards[Len(Course)]

LoadCuration ==
    LET key == <<"curation">>
    IN  Kept(key, "curation", IF redis[key] # None THEN redis[key] ELSE Curated)

---------------------------------------------------------------------------
\* Recommendations: the neighbours of the middle of what the user saved, each
\* with the saved spot it is most like.

ClosestOf(seeds, s) ==
    CHOOSE a \in seeds : \A b \in seeds : Between[a][s] < Between[b][s] \/ (Between[a][s] = Between[b][s] /\ a <= b)

TasteNeighbors(seeds) ==
    LET known == seeds \cap Embedded
        rows == {s \in (Shown \cap Embedded) \ seeds : In("attraction", s)}
        far == [s \in Ids |-> Total(known, [a \in known |-> Between[a][s]])]
    IN  IF known = {} THEN <<>> ELSE Take(Ordered(rows, far), TasteLimit * NeighborOverfetch)

\* _diversified: the first neighbour of each saved spot, then the others.
Diversified(rows, seeds, limit) ==
    LET first == InOrder({i \in DOMAIN rows :
                            \A j \in 1..(i - 1) : ClosestOf(seeds, rows[j]) # ClosestOf(seeds, rows[i])})
        later == InOrder(DOMAIN rows \ Range(first))
    IN  Take([i \in DOMAIN rows |-> rows[(first \o later)[i]]], limit)

LoadRecommendations(saved) ==
    LET seeds == Take(Only(saved, visible), SeedLimit)
        rows == TasteNeighbors(Range(seeds))
        known == Range(seeds) \cap Embedded
    IN  /\ answer' = IF Len(seeds) < MinTasteSeeds
                       THEN [kind |-> "unready", saved |-> Len(seeds)]
                       ELSE [kind |-> "taste", cards |-> Diversified(rows, known, TasteLimit),
                             rows |-> rows, seeds |-> known]
        /\ UNCHANGED redis

\* GET /map/nearby: the nearest spots of a category, each with the group its
\* marker is drawn in.
MapNearby(cat) ==
    LET near == {s \in Shown : In(cat, s) /\ Place[s] # None /\ Distance(s, Here) <= Radius}
        rows == Take(Ordered(near, [s \in Ids |-> IF Place[s] = None THEN 0 ELSE Distance(s, Here)]), MapLimit)
    IN  /\ answer' = [kind |-> "map", category |-> cat, cards |-> rows,
                      groups |-> [i \in DOMAIN rows |-> Derived(rows[i])]]
        /\ UNCHANGED redis

---------------------------------------------------------------------------
Request ==
    /\ screen = "home"
    /\ loads < MaxLoads
    /\ loads' = loads + 1
    /\ \/ \E key \in SignalKeys, region \in Regions \cup {None} : LoadSignal(key, region)
       \/ \E ids \in FestaLists, located \in BOOLEAN : LoadFesta(ids, located)
       \/ \E region \in Regions \cup {None}, festa \in FestaLists : LoadMetas(region, festa)
       \/ \E cat \in HomeCategories, festa \in FestaLists : LoadTrending(cat, festa)
       \/ \E cat \in HomeCategories : LoadNearby(cat)
       \/ \E cat \in HomeCategories \cup {"hidden", "festa"} : LoadTastePicks(cat)
       \/ LoadCuration
       \/ \E saved \in SavedLists : LoadRecommendations(saved)
       \/ \E cat \in NearbyCategory : MapNearby(cat)
    /\ UNCHANGED <<screen, visible, postVars, festivalVars>>

\* The pipeline hides a spot or shows it again.
ShowFlag(s) ==
    /\ screen = "home"
    /\ changes < MaxFlags
    /\ changes' = changes + 1
    /\ visible' = IF s \in visible THEN visible \ {s} ELSE visible \cup {s}
    /\ answer' = None
    /\ UNCHANGED <<screen, redis, loads, listed, session, festivalVars>>

Expire(key) ==
    /\ redis[key] # None
    /\ redis' = [redis EXCEPT ![key] = None]
    /\ answer' = None
    /\ UNCHANGED <<screen, visible, loads, postVars, festivalVars>>

Explore == screen = "explore" /\ PostsNext /\ UNCHANGED <<homeVars, festivalVars>>

FetchFestivals == screen = "festivals" /\ FestivalNext /\ UNCHANGED <<homeVars, postVars>>

Next ==
    \/ Request \/ (\E s \in Ids : ShowFlag(s)) \/ (\E key \in Keys : Expire(key))
    \/ Explore \/ FetchFestivals

Spec == Init /\ [][Next]_vars /\ FestivalFairness

---------------------------------------------------------------------------
\* Properties.

Cards == IF answer # None /\ answer.kind \notin {"metas", "unready"} THEN answer.cards ELSE <<>>

\* No list of the app shows a spot twice: not a channel that fills up a region
\* from the country, not a ranking of pools that hold the same spot, not the
\* slots of the curation, whose categories must be disjoint.
NoCardTwice ==
    \A i, j \in DOMAIN Cards : Cards[i] = Cards[j] /\ Cards[i] # None => i = j

\* A ranking is as long as its pools allow: no pool that runs dry, and no card
\* that was already taken, leaves a hole while another pool has cards.
RankingIsFull ==
    answer # None /\ answer.kind = "ranking" /\ "pools" \in DOMAIN answer =>
        LET all == UNION {Range(answer.pools[name]) : name \in DOMAIN answer.pools}
        IN  Len(answer.cards) = IF Cardinality(all) < CardCount THEN Cardinality(all) ELSE CardCount

\* What the query of a category finds is of that category for the function that
\* labels the row: the two tables of categories.py agree on every spot.
GroupIsCategory ==
    answer # None /\ answer.kind = "map" => Range(answer.groups) \subseteq {answer.category}

\* The recommendations are of as many of the saved spots as there are neighbours of.
RecommendedSpread ==
    answer # None /\ answer.kind = "taste" =>
        LET like(cards) == {ClosestOf(answer.seeds, cards[i]) : i \in DOMAIN cards}
            all == like(answer.rows)
        IN  Cardinality(like(answer.cards))
              = IF Cardinality(all) < TasteLimit THEN Cardinality(all) ELSE TasteLimit

\* The lists of the home screen and the map are whole, without repetition and of
\* what they say they are.
RankingsHold == NoCardTwice /\ RankingIsFull /\ GroupIsCategory /\ RecommendedSpread

\* A festival of the channel that can be opened or saved is a spot of the app,
\* although KTO's list and the table of spots come from different runs.
FestaOpens ==
    answer # None /\ answer.kind = "festa" =>
        \A i \in DOMAIN answer.cards : answer.cards[i] = None \/ answer.cards[i] \in visible

\* A reader who pages to the end sees every post that stays in the feed once.
PagedWhole == PagedOnce /\ PagedAll
================================================================================
