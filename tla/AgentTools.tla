------------------------------ MODULE AgentTools ------------------------------
(****************************************************************************)
(* The tools the model of the agent may call (agent/tools).  A call names a  *)
(* tool and its arguments; what a tool returns are rows for the cards, the   *)
(* anchors of the next turn, a fact that only it can know, and whether the   *)
(* turn is over.  `ctx` is what a tool works with: the position, the picture *)
(* and the user of the request, the spots that are shown, and whether the    *)
(* services outside answer.                                                  *)
(****************************************************************************)
EXTENDS PlaceResolve

CONSTANTS
    SceneVector,    \* where a picture of a scene is
    Festivals,      \* the pool of today's festivals, as spots
    Label,          \* the words of the region a festival's card names
    Begins,         \* the words of addresses that a word of a hint begins
    NaverSays, KtoSays,
    AnchorRadius, NearbyLimit,
    MinSeeds, SeedLimit, SavedShown,
    Seeds, Neighbours, TopRegions, SimilarShown,
    TopPerRegion, MaxRegions, ProfileShown,
    MaxRegionHints, MaxDays

ASSUME ToolsAssumption ==
    /\ MaxDays \in Nat \ {0, 1} /\ MinSeeds \in Nat \ {0} /\ {SeedLimit, SavedShown} \subseteq Nat
    /\ MaxRegionHints \in Nat \ {0}
    /\ {Seeds, Neighbours, TopRegions, SimilarShown, TopPerRegion, MaxRegions, ProfileShown} \subseteq Nat
    /\ \A scene \in DOMAIN SceneVector : SceneVector[scene] \in Int
    /\ {DOMAIN NaverSays, DOMAIN KtoSays} = {DOMAIN Queries}
    /\ \A name \in DOMAIN Queries : /\ NaverSays[name] \in Seq(Range(NaverSays[name]))
                                   /\ KtoSays[name] \in Seq(Range(KtoSays[name]))
    /\ None \notin Ids /\ None \notin {"region", "quiet", "popular", "food", "cafe"}

\* CATALOG
ToolNames ==
    {"category_search", "title_search", "compare_regions", "region_profile", "plan_itinerary",
     "similar_region", "from_saved", "resolve_place", "spot_detail", "festival", "photo_match",
     "uploaded_photo", "nearby", "related", "concentration", "abroad", "unsupported"}

CarriesFacts == {"spot_detail", "concentration"}

\* A call, and the arguments it leaves out; days = 0 stands for none.
Call == [name : ToolNames, hints : Seq(Seq(STRING)), words : Seq(STRING), moods : SUBSET STRING,
         crowd : {"any", "quiet", "popular"}, indoor : BOOLEAN, near : BOOLEAN, days : Int,
         spot : Ids \cup {None}, kind : STRING \cup {None}]

Blank == [name |-> "unsupported", hints |-> <<>>, words |-> <<>>, moods |-> {}, crowd |-> "any",
          indoor |-> FALSE, near |-> FALSE, days |-> 0, spot |-> None, kind |-> None]

HintsOf(call) == Take(call.hints, MaxRegionHints)
IsPlace(call, ctx) == call.near /\ ctx.at # None

Fact(of) == [of |-> of, days |-> <<>>, missing |-> {}, short |-> {}, unsupported |-> {}]
Result(rows) == [rows |-> rows, fact |-> None, anchors |-> <<>>, stop |-> FALSE, late |-> FALSE]
Nothing == Result(<<>>)
Told(of) == [Nothing EXCEPT !.fact = Fact(of)]
Stopped(of) == [Told(of) EXCEPT !.stop = TRUE]
TooLate == [Nothing EXCEPT !.late = TRUE]     \* TIMED_OUT
OutOfScope == "out of scope"
Unavailable == "unavailable"

\* _prefixes: hints were given and none of them is a region.
Unread(call) == HintsOf(call) # <<>> /\ Scope(HintsOf(call)) = {}

---------------------------------------------------------------------------
\* Search by kind, by title, by scene and by picture.

CategorySearch(call, ctx) ==
    LET scope == Scope(HintsOf(call))
        codes == ResolveCodes(call.words)
        eating == IF FoodAction(codes) # None THEN FoodAction(codes) ELSE FoodWord(call.words)
        readable == call.moods # {} \/ eating # None \/ \E code \in codes : InTravelPoolCode(code)
        near == IsPlace(call, ctx)
        q == [Query EXCEPT !.scope = scope, !.at = ctx.at, !.indoor = call.indoor, !.moods = call.moods]
    IN  IF Unread(call) THEN Nothing
        ELSE IF call.words # <<>> /\ ~readable THEN Stopped("unreadable")
        ELSE IF ~(readable \/ scope # {} \/ near \/ call.indoor \/ call.crowd # "any")
          THEN Stopped("no axis")
        ELSE IF eating # None /\ scope = {} /\ ~near THEN Stopped("food needs place")
        ELSE IF eating # None THEN Result(SearchFood(q, eating, call.crowd, near, ctx.shown))
        ELSE Result(SearchCandidates([q EXCEPT !.codes = codes], call.crowd, near, ctx.shown))

TitleSearch(call, ctx) ==
    IF call.words = <<>> \/ Unread(call) THEN Nothing
    ELSE Result(SearchByTitle(call.words, Scope(HintsOf(call)), ctx.shown))

PhotoMatch(call, ctx) ==
    IF call.kind \notin DOMAIN SceneVector \/ Unread(call) THEN Nothing
    ELSE Result(Briefs(Matching(SceneVector[call.kind], MatchLimit, Scope(HintsOf(call)), ctx.shown), ctx.shown))

\* A hint that cannot be read is not refused here: the whole country is matched.
UploadedPhoto(call, ctx) ==
    IF ctx.photo = None THEN Nothing
    ELSE Result(Briefs(Matching(ctx.photo, MatchLimit, Scope(HintsOf(call)), ctx.shown), ctx.shown))

---------------------------------------------------------------------------
\* Regions: compared, described, and others like them.

RegionRows(hint, words, ctx) ==
    LET scope == Scope(<<hint>>)
    IN  IF scope = {} THEN <<>>
        ELSE SearchCandidates([Query EXCEPT !.scope = scope, !.codes = ResolveCodes(words)],
                              "any", FALSE, ctx.shown)

CompareRegions(call, ctx) ==
    LET hints == Take(HintsOf(call), MaxRegions)
    IN  IF Len(hints) < 2 THEN Nothing
        ELSE Result(FlattenSeq([i \in DOMAIN hints |->
                        Take(RegionRows(hints[i], call.words, ctx), TopPerRegion)]))

RegionProfile(call, ctx) ==
    IF call.hints = <<>> \/ Unread(call) THEN Nothing
    ELSE Result(Take(SearchCandidates([Query EXCEPT !.scope = Scope(HintsOf(call))], "any", FALSE, ctx.shown),
                     ProfileShown))

\* _sido: the first word of the address.
SidoOfRow(s) == IF Addr[s] = NoRegion THEN NoRegion ELSE Addr[s][1]

\* _vote: the neighbours of every seed that lie in no province of a seed.
Vote(seeds, source, ctx) ==
    Only(Distinct(FlattenSeq([i \in DOMAIN seeds |->
             Briefs(Matching(Vector[seeds[i]], Neighbours, {}, ctx.shown), ctx.shown)])),
         {s \in Ids : SidoOfRow(s) \notin source})

\* Provinces by how many of the rows they have, the first met before the others.
Tally(rows) ==
    LET sidos == [i \in DOMAIN rows |-> SidoOfRow(rows[i])]
        names == Distinct(Only(sidos, Range(sidos) \ {NoRegion}))
        of == [n \in DOMAIN names |-> Only(rows, {s \in Ids : SidoOfRow(s) = names[n]})]
        order == Ordered(DOMAIN names, [n \in DOMAIN names |-> -Len(of[n])])
    IN  [n \in DOMAIN names |-> of[order[n]]]

SimilarRegion(call, ctx) ==
    LET seeds == Briefs(EmbeddedIn(Scope(HintsOf(call)), Seeds, ctx.shown), ctx.shown)
        source == {SidoOfRow(seeds[i]) : i \in DOMAIN seeds} \ {NoRegion}
        ranked == Take(Tally(Vote(seeds, source, ctx)), TopRegions)
    IN  IF call.hints = <<>> \/ Unread(call) \/ seeds = <<>> THEN Nothing
        ELSE Result(Take(FlattenSeq([i \in DOMAIN ranked |-> Take(ranked[i], TopRegions)]), SimilarShown))

---------------------------------------------------------------------------
\* What the user saved.

\* Slip: only what the average was made of is left out.
ExcludedSeeds(seeds, saved) == seeds
\* saved_content_ids: everything saved is left out, the hidden and the old as well.
Excluded(seeds, saved) == IF saved = {} THEN seeds ELSE saved

FromSaved(call, ctx) ==
    LET listed == Take(Only(ctx.saved, ctx.shown), SeedLimit)
        seeds == Only(listed, Embedded)
        found == MatchingCentroid(Range(seeds), Excluded(Range(seeds), Range(ctx.saved)), SavedShown,
                                  Scope(HintsOf(call)), ctx.shown)
    IN  IF ctx.saved = None THEN Told("anonymous")
        ELSE IF Len(seeds) < MinSeeds THEN Told("too few")
        ELSE IF Unread(call) THEN Nothing
        ELSE Result(Briefs(found, ctx.shown))

---------------------------------------------------------------------------
\* An itinerary.

DaysOf(call) == IF call.days < 1 THEN 2 ELSE IF call.days > MaxDays THEN MaxDays ELSE call.days

OutsidePool(word) == Codes[word] # {} /\ ~\E code \in Codes[word] : InTravelPoolCode(code)

\* _crowd
CrowdOf(call) == IF call.crowd \in {"quiet", "popular"} THEN call.crowd ELSE "any"

\* _meal_words
MealWords == {word \in DOMAIN Eats : Eats[word] # None}

SlotKey(word) == <<Eats[word], IF Eats[word] = "food" THEN Dish[word] ELSE None>>

\* _slots: a dish has a pool of its own, else one pool for each kind of eating;
\* the first word of each stands for it.
Slots(eating) ==
    LET first == InOrder({i \in DOMAIN eating : \A j \in 1..(i - 1) : SlotKey(eating[j]) # SlotKey(eating[i])})
    IN  [n \in DOMAIN first |-> eating[first[n]]]

MealPool(word, scope, crowd, ctx) ==
    LET dish == IF Eats[word] = "food" /\ Dish[word] # None THEN {Dish[word]} ELSE {}
        q == [Query EXCEPT !.scope = scope, !.title = dish]
    IN  WithoutOutliers(Placed(SearchFood(q, Eats[word], crowd, FALSE, ctx.shown)))

Pools(call, scope, ctx) ==
    LET eating == Slots(Only(call.words, MealWords))
    IN  [i \in DOMAIN eating |-> [word |-> eating[i], pool |-> MealPool(eating[i], scope, CrowdOf(call), ctx)]]

Sights(call, scope, usable, ctx) ==
    LET q == [Query EXCEPT !.scope = scope, !.codes = ResolveCodes(usable)]
    IN  WithoutOutliers(Placed(SearchCandidates(q, CrowdOf(call), FALSE, ctx.shown)))

Missing(pools, sights, usable) ==
    {pools[i].word : i \in {j \in DOMAIN pools : pools[j].pool = <<>>}}
        \cup (IF sights = <<>> THEN Range(usable) ELSE {})

Planned(plan, missing, unsupported) ==
    IF plan.days = <<>> THEN Nothing
    ELSE [Result(FlattenSeq(plan.days)) EXCEPT !.fact =
             [of |-> "plan", days |-> plan.days, missing |-> missing, short |-> plan.short,
              unsupported |-> unsupported]]

PlanFrom(call, seeing, usable, pools, sights) ==
    Planned(Assemble(sights, Only(pools, {p \in Range(pools) : p.pool # <<>>}), DaysOf(call)),
            Missing(pools, sights, usable), Range(seeing) \ Range(usable))

PlanIn(call, scope, ctx) ==
    LET seeing == Only(call.words, Range(call.words) \ MealWords)
        usable == SelectSeq(seeing, LAMBDA word : ~OutsidePool(word))
    IN  IF scope = {} THEN Told("unknown region")
        ELSE PlanFrom(call, seeing, usable, Pools(call, scope, ctx), Sights(call, scope, usable, ctx))

PlanItinerary(call, ctx) ==
    IF call.hints = <<>> THEN Told("needs region") ELSE PlanIn(call, Scope(<<call.hints[1]>>), ctx)

---------------------------------------------------------------------------
\* Places by name and spots by id.

\* _named: a name has a letter.
Lettered(words) == Only(words, DOMAIN Queries)

\* A hint is one text; it has words.
NamedPlaces(call) ==
    LET names == Lettered(call.words)
    IN  [i \in DOMAIN names |->
            [name |-> names[i], type |-> call.kind, hint |-> IF call.hints = <<>> THEN <<>> ELSE call.hints[1]]]

\* A place that was not found has no spot, and no row.
FindPlaces(call, ctx) ==
    LET places == NamedPlaces(call)
        says(name) == IF ctx.up THEN NaverSays[name] ELSE <<>>
        knows(name) == IF ctx.up THEN KtoSays[name] ELSE <<>>
        spots == [i \in DOMAIN places |->
                     ResolvePlace(places[i], places, says(places[i].name), knows(places[i].name), ctx.shown).spot]
    IN  IF call.words = <<>> THEN Nothing
        ELSE IF places = <<>> THEN [Nothing EXCEPT !.stop = TRUE]
        ELSE Result(Briefs(spots, ctx.shown))

\* A spot that is not shown is an observation, and here the observation is the fact.
Detail(call, ctx) ==
    [Told(IF call.spot \in ctx.shown THEN "detail" ELSE "not a spot") EXCEPT
        !.anchors = Briefs(<<call.spot>>, ctx.shown)]

Concentration(call, ctx) ==
    LET row == Briefs(<<call.spot>>, ctx.shown)
    IN  [Told(IF row = <<>> THEN "no anchor" ELSE "crowd") EXCEPT !.anchors = row]

NearbyPool(kind, s) == IF kind = "nearby" THEN InTravelPool(s) ELSE In(kind, s)

NearbySpots(at, kind, shown) ==
    LET rows == {s \in shown \cap Photo : Place[s] # None /\ Distance(s, at) <= AnchorRadius /\ NearbyPool(kind, s)}
    IN  Take(Ordered(rows, [s \in Ids |-> IF Place[s] = None THEN 0 ELSE Distance(s, at)]), NearbyLimit)

Nearby(call, ctx) ==
    LET row == Briefs(<<call.spot>>, ctx.shown)
        at == IF row = <<>> THEN ctx.at ELSE Place[row[1]]
        kind == IF call.kind \in {"food", "cafe"} THEN call.kind ELSE "nearby"
        kept == SelectSeq(NearbySpots(at, kind, ctx.shown), LAMBDA s : s \notin Range(row))
    IN  IF at = None THEN Nothing ELSE Result(Briefs(Take(kept, ResultLimit), ctx.shown))

Related(call, ctx) ==
    LET row == Briefs(<<call.spot>>, ctx.shown)
        matches == Matching(Vector[row[1]], ResultLimit + 1, {}, ctx.shown)
    IN  IF row = <<>> \/ Range(row) \cap Embedded = {} THEN Nothing
        ELSE Result(Briefs(Take(SelectSeq(matches, LAMBDA s : s # row[1]), ResultLimit), ctx.shown))

---------------------------------------------------------------------------
\* Festivals, and what the agent does not do.

\* _covers: every word of the hint begins a word of the label.
HintCovers(hint, s) == \A i \in DOMAIN hint : Begins[hint[i]] \cap Label[s] # {}

Festival(call, ctx) ==
    LET openable == Only(Festivals, ctx.shown)
        scoped == SelectSeq(openable, LAMBDA s : \E i \in DOMAIN call.hints : HintCovers(call.hints[i], s))
        cards == IF call.hints # <<>> /\ scoped # <<>> THEN scoped ELSE openable
    IN  Result(Briefs(Take(cards, ResultLimit), ctx.shown))

Refusal(call, ctx) ==
    CASE call.name = "unsupported" -> OutOfScope
      [] call.name = "abroad" -> IF Unread(call) THEN OutOfScope ELSE None
      [] call.name = "festival" -> IF ctx.up THEN None ELSE Unavailable
      [] OTHER -> None

Run(call, ctx) ==
    CASE call.name = "category_search" -> CategorySearch(call, ctx)
      [] call.name = "title_search" -> TitleSearch(call, ctx)
      [] call.name = "photo_match" -> PhotoMatch(call, ctx)
      [] call.name = "uploaded_photo" -> UploadedPhoto(call, ctx)
      [] call.name = "compare_regions" -> CompareRegions(call, ctx)
      [] call.name = "region_profile" -> RegionProfile(call, ctx)
      [] call.name = "similar_region" -> SimilarRegion(call, ctx)
      [] call.name = "from_saved" -> FromSaved(call, ctx)
      [] call.name = "plan_itinerary" -> PlanItinerary(call, ctx)
      [] call.name = "resolve_place" -> FindPlaces(call, ctx)
      [] call.name = "spot_detail" -> Detail(call, ctx)
      [] call.name = "concentration" -> Concentration(call, ctx)
      [] call.name = "nearby" -> Nearby(call, ctx)
      [] call.name = "related" -> Related(call, ctx)
      [] call.name = "festival" -> Festival(call, ctx)
      [] call.name = "abroad" -> Nothing
================================================================================
