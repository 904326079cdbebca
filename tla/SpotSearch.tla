------------------------------ MODULE SpotSearch ------------------------------
(****************************************************************************)
(* The queries by which the agent finds spots (agent/repositories.py,        *)
(* services/retrieve.py, services/scene.py, services/photo.py and            *)
(* spots/services/search.py).  `shown` is the set of spots with              *)
(* show_flag = 1 when the query runs.  What the queries read besides does    *)
(* not change during a behaviour.                                            *)
(****************************************************************************)
EXTENDS Itinerary, RegionHints

CONSTANTS
    Photo,          \* spots that have a first image
    Addr,           \* addr1, as words, or NoRegion
    Title,          \* the words of a title
    Rate,           \* concentration_rate, or None
    Moods,          \* spot_moods
    Score,          \* rank_score of a theme: what buzz and pictures say of a spot
    Embedded,       \* spots with a row in spot_embeddings
    Fit,            \* those whose row is of their current image
    Vector,         \* where an embedding is, on a line
    Codes,          \* the codes of lcls_systm_codes by a word of their names
    Eats,           \* what a word asks to eat: "food", "cafe" or None
    Dish,           \* the dish a word for food names, or None
    Levels,         \* the two levels above a code
    CandidateLimit, ResultLimit, TitleLimit, MatchLimit,
    KeepRatio       \* the share, of 100, that counts as quiet, and as popular

Themes == {"spot", "food", "cafe"}

ASSUME SearchAssumption ==
    /\ Photo \subseteq Ids /\ Embedded \subseteq Ids /\ Fit \subseteq Embedded
    /\ {DOMAIN Addr, DOMAIN Title, DOMAIN Rate, DOMAIN Moods} = {Ids}
    /\ \A s \in Ids : Addr[s] = NoRegion \/ Addr[s] \in Seq(STRING) \ {<<>>}
    /\ DOMAIN Vector = Embedded /\ \A s \in Embedded : Vector[s] \in Int
    /\ DOMAIN Eats = DOMAIN Codes /\ DOMAIN Dish = DOMAIN Codes
    /\ \A word \in DOMAIN Eats : /\ Eats[word] \in {"food", "cafe", None}
                                 /\ Eats[word] # "food" => Dish[word] = None
    /\ \A s \in Ids : Rate[s] \in Int \cup {None} /\ \A theme \in Themes : Score[theme][s] \in Int
    /\ {CandidateLimit, ResultLimit, TitleLimit, MatchLimit} \subseteq Nat \ {0}
    /\ KeepRatio \in 1..99

INDOOR_L2 == {"VE06", "VE07"}
INDOOR_L3 == {"VE020400", "VE120300"}
Indoor(s) == Code[s].l2 \in INDOOR_L2 \/ Code[s].l3 \in INDOOR_L3

\* in_travel_pool of categories.py: the pool of sights as a code tells it.
InTravelPoolCode(code) ==
    \/ Levels[code].l1 \in Tourist
    \/ Levels[code].l1 = "VE" /\ Levels[code].l2 \notin TravelExcludedVE

---------------------------------------------------------------------------
\* What the words of a question ask for.

\* resolve_category_codes
ResolveCodes(words) == UNION {Codes[words[i]] : i \in DOMAIN words}

\* food_word: all of the words are of one kind of eating.
FoodWord(words) ==
    LET picked == {Eats[words[i]] : i \in DOMAIN words}
    IN  IF Cardinality(picked) = 1 THEN CHOOSE kind \in picked : TRUE ELSE None

\* food_action: all of the codes are.
FoodAction(codes) ==
    LET cafe == {code \in codes : Levels[code].l2 = "FD05" \/ code = "FD030100"}
    IN  IF codes = {} \/ \E code \in codes : Levels[code].l1 # "FD" THEN None
        ELSE IF cafe = codes THEN "cafe" ELSE "food"

---------------------------------------------------------------------------
\* find_candidates

\* CandidateQuery and its defaults; no codes, regions, moods or title terms
\* means no such condition.
Query == [pool |-> "travel", theme |-> "spot", codes |-> {}, scope |-> {}, order |-> "id",
          rated |-> FALSE, ceiling |-> 100, floor |-> 0, at |-> None,
          indoor |-> FALSE, moods |-> {}, title |-> {}]

InPool(pool, s) == IF pool = "travel" THEN InTravelPool(s) ELSE In(pool, s)

\* The rows of _CANDIDATE_SQL before the percentile cuts them.
Matches(q, shown) ==
    {s \in shown \cap Photo :
        /\ InPool(q.pool, s)
        /\ q.codes = {} \/ Code[s].l3 \in q.codes
        /\ q.scope = {} \/ Within(Addr[s], q.scope)
        /\ q.title \subseteq Title[s]
        /\ q.indoor => Indoor(s)
        /\ q.moods = {} \/ Moods[s] \cap q.moods # {}
        /\ q.order = "distance" => Place[s] # None
        /\ q.rated => Rate[s] # None}

\* round(greatest(1, cume_dist * 100)) among the rows of the query: halves away
\* from zero, in integers.
Percentile(s, rows) ==
    LET below == Cardinality({t \in rows : Rate[t] <= Rate[s]})
        hundredth == (200 * below + Cardinality(rows)) \div (2 * Cardinality(rows))
    IN  IF hundredth < 1 THEN 1 ELSE hundredth

OrderKey(q) ==
    CASE q.order = "id" -> [s \in Ids |-> -Score[q.theme][s]]
      [] q.order = "rate_asc" -> [s \in Ids |-> IF Rate[s] = None THEN 0 ELSE Rate[s]]
      [] q.order = "rate_desc" -> [s \in Ids |-> IF Rate[s] = None THEN 0 ELSE -Rate[s]]
      [] q.order = "distance" -> [s \in Ids |-> IF Place[s] = None THEN 0 ELSE Distance(s, q.at)]

FindCandidates(q, shown) ==
    LET rows == Matches(q, shown)
        kept == {s \in rows : q.rated => Percentile(s, rows) \in q.floor..q.ceiling}
    IN  Take(Ordered(kept, OrderKey(q)), CandidateLimit)

\* candidate_order
CandidateOrder(preference, near) ==
    CASE near -> "distance"
      [] ~near /\ preference = "quiet" -> "rate_asc"
      [] ~near /\ preference = "popular" -> "rate_desc"
      [] ~near /\ preference = "any" -> "id"

\* Slip: when the cut leaves nothing, nothing is given.
SearchCandidatesOnce(q, preference, near, shown) ==
    LET base == [q EXCEPT !.order = CandidateOrder(preference, near), !.rated = preference # "any"]
        within == [base EXCEPT !.ceiling = IF preference = "quiet" THEN KeepRatio ELSE 100,
                               !.floor = IF preference = "popular" THEN 100 - KeepRatio ELSE 0]
    IN  FindCandidates(within, shown)

\* search_candidates: the cut of the crowd preference, then without it.
SearchCandidates(q, preference, near, shown) ==
    LET base == [q EXCEPT !.order = CandidateOrder(preference, near), !.rated = preference # "any"]
        within == [base EXCEPT !.ceiling = IF preference = "quiet" THEN KeepRatio ELSE 100,
                               !.floor = IF preference = "popular" THEN 100 - KeepRatio ELSE 0]
        first == FindCandidates(within, shown)
    IN  IF preference = "any" THEN FindCandidates(base, shown)
        ELSE IF first # <<>> THEN first ELSE FindCandidates(base, shown)

\* search_food: the same, in the pool of what is eaten.
SearchFood(q, action, preference, near, shown) ==
    LET kind == IF action = "cafe" THEN "cafe" ELSE "food"
    IN  SearchCandidates([q EXCEPT !.pool = kind, !.theme = kind, !.codes = {}], preference, near, shown)

---------------------------------------------------------------------------
\* By title, by id and by picture.

\* load_candidates_by_ids, in the order of the ids.
Briefs(ids, shown) == Only(ids, shown \cap Photo)

\* The rows as they were first met.
Distinct(rows) ==
    LET first == InOrder({i \in DOMAIN rows : \A j \in 1..(i - 1) : rows[j] # rows[i]})
    IN  [n \in DOMAIN first |-> rows[first[n]]]

Occurs(part, addr) ==
    \E i \in 0..(Len(addr) - Len(part)) : SubSeq(addr, i + 1, i + Len(part)) = part

\* ILIKE '%region%': the region is looked for anywhere in the address.
Near(part, s) == part = NoRegion \/ (Addr[s] # NoRegion /\ Occurs(part, Addr[s]))

\* search_spots_by_title for a word that is in the title.
TitleRows(word, prefix, shown) ==
    Take(InOrder({s \in shown : word \in Title[s] /\ Near(prefix, s)}), TitleLimit)

\* search_by_title: every word in every region, then the address again.
SearchByTitle(words, scope, shown) ==
    LET places == IF scope = {} THEN <<NoRegion>> ELSE SetToSeq(scope)
        found == FlattenSeq([i \in DOMAIN words |->
                     FlattenSeq([j \in DOMAIN places |-> TitleRows(words[i], places[j], shown)])])
        rows == Briefs(Distinct(found), shown)
    IN  Only(rows, {s \in Ids : scope = {} \/ Within(Addr[s], scope)})

\* match_spots_by_vector: the nearest embeddings, of sights only.
Matching(vector, limit, scope, shown) ==
    LET rows == {s \in shown \cap Photo \cap Embedded :
                    InTravelPool(s) /\ (scope = {} \/ Within(Addr[s], scope))}
        key == [s \in Ids |-> IF s \notin Embedded THEN 0
                              ELSE IF Vector[s] < vector THEN vector - Vector[s] ELSE Vector[s] - vector]
    IN  Take(Ordered(rows, key), limit)

\* match_spots_by_centroid: of the average of the seeds, without the excluded.
Centroid(seeds) == Total(seeds, Vector) \div Cardinality(seeds)

MatchingCentroid(seeds, excluded, limit, scope, shown) ==
    Matching(Centroid(seeds), limit, scope, shown \ excluded)

\* embedded_spot_ids: in a region, of any kind, those with a current embedding.
EmbeddedIn(scope, limit, shown) ==
    Take(InOrder({s \in shown \cap Fit : Within(Addr[s], scope)}), limit)
================================================================================
