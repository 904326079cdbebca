----------------------------- MODULE MCTravelTurns -----------------------------
EXTENDS TravelTurns


K(l1, l2, l3) == [lodging |-> FALSE, l1 |-> l1, l2 |-> l2, l3 |-> l3]

\* 1 a temple and 7 a bridge in Yeosu (7 with the merged address), 2 a museum in
\* Suncheon, 3 and 4 a soup house and a cafe and 8 a ski run in Yeosu, 5 a valley
\* and 6 a temple in Suwon, 9 a park in the city of Gwangju (with
\* the merged address).
MCCode == <<K("HS", "HS01", "HS010100"), K("VE", "VE06", "VE060100"), K("FD", "FD01", "FD010100"),
            K("FD", "FD05", "FD050100"), K("NA", "NA01", "NA010100"), K("HS", "HS01", "HS010100"),
            K("NA", "NA02", "NA020100"), K("LS", "LS01", "LS010100"), K("NA", "NA02", "NA020100")>>
MCAddr == <<<<"jeonnam", "yeosu">>, <<"jeonnam", "suncheon">>, <<"jeonnam", "yeosu">>, <<"jeonnam", "yeosu">>,
            <<"gyeonggi", "suwon", "jangan">>, <<"gyeonggi", "suwon", "paldal">>, <<"merged", "yeosu">>,
            <<"jeonnam", "yeosu">>, <<"merged", "buk">>>>
MCNull == [s \in 1..9 |-> None]
MCPlace == <<0, 20, 2, 3, 200, 205, 1, 4, 30>>
MCPhoto == 1..9
MCTitle == [s \in 1..9 |-> CASE s = 3 -> {"gukbap"} [] s \in {1, 6} -> {"temple"} [] OTHER -> {}]
MCRate == <<30, 10, 20, None, 50, 55, 5, None, 40>>
MCMoods == [s \in 1..9 |-> IF s \in {1, 6, 7} THEN {"sea"} ELSE {}]
MCScore == [theme \in {"spot", "food", "cafe"} |-> <<9, 3, 5, 1, 7, 8, 2, 0, 4>>]
MCEmbedded == {1, 2, 5, 6, 7, 9}
MCFit == {1, 2, 5, 6, 7}
MCVector == (1 :> 10 @@ 2 :> 14 @@ 5 :> 12 @@ 6 :> 40 @@ 7 :> 11 @@ 9 :> 16)

MCCodes == [museum |-> {"VE060100"}, food |-> {}, cafe |-> {"FD050100"}, gukbap |-> {},
            ski |-> {"LS010100"}, temple |-> {"HS010100"}, hotel |-> {}]
MCEats == [word \in DOMAIN MCCodes |-> CASE word \in {"food", "gukbap"} -> "food" [] word = "cafe" -> "cafe" [] OTHER -> None]
MCDish == [word \in DOMAIN MCCodes |-> IF word = "gukbap" THEN "gukbap" ELSE None]
MCLevels == ("VE060100" :> [l1 |-> "VE", l2 |-> "VE06"] @@ "FD050100" :> [l1 |-> "FD", l2 |-> "FD05"]
             @@ "LS010100" :> [l1 |-> "LS", l2 |-> "LS01"] @@ "HS010100" :> [l1 |-> "HS", l2 |-> "HS01"])

MCNamed == (<<"jeonnam">> :> {<<"jeonnam">>} @@ <<"yeosu">> :> {<<"jeonnam", "yeosu">>}
            @@ <<"gwangju">> :> {<<"gwangju">>, <<"gyeonggi", "gwangju">>}
            @@ <<"suwon">> :> {<<"gyeonggi", "suwon", "jangan">>, <<"gyeonggi", "suwon", "paldal">>}
            @@ <<"junggu">> :> {<<"seoul", "junggu">>, <<"busan", "junggu">>})
MCMerged == [sido \in {"jeonnam", "gwangju", "gyeonggi", "seoul", "busan", "merged"} |->
                IF sido \in {"jeonnam", "gwangju"} THEN "merged" ELSE NoRegion]
MCLabel == [s \in 1..9 |-> Range(MCAddr[s])]
MCBegins == [word \in {"suwon", "yeosu", "jeonnam"} |-> {word}]

MCSceneVector == [snow |-> 13]
MCFestivals == <<5, 1>>
MCLike(like) == [s \in 1..9 |-> IF s \in DOMAIN like THEN like[s] ELSE 0]
MCLikeness == [palace |-> MCLike(6 :> 100 @@ 1 :> 70), arch |-> MCLike(7 :> 50), gate |-> MCLike(4 :> 10)]
MCQueries == [palace |-> <<"palace">>, arch |-> <<"arch">>, gate |-> <<"gate">>]
MCPreferred == [type \in {"attraction", "restaurant"} |-> {1, 3, 6}]
MCNaverSays == [palace |-> <<[addr |-> <<"gyeonggi", "suwon">>, at |-> 204]>>,
                arch |-> <<[addr |-> <<"jeonnam", "yeosu">>, at |-> 500]>>, gate |-> <<>>]
MCKtoSays == [palace |-> <<>>, arch |-> <<>>,
              gate |-> <<[addr |-> <<"gyeonggi", "suwon">>, spot |-> 5]>>]

MCUsers == {[at |-> None, photo |-> None, saved |-> None],
            [at |-> 1, photo |-> 12, saved |-> None],
            [at |-> None, photo |-> None, saved |-> <<2, 1, 5, 7>>]}

Of(name) == [Blank EXCEPT !.name = name]
In1(name, hints) == [Of(name) EXCEPT !.hints = hints]
Yeosu == <<"yeosu">>
Jeonnam == <<"jeonnam">>
MCCalls ==
    {In1("category_search", <<Jeonnam>>),
     In1("category_search", <<Jeonnam, Yeosu>>),
     In1("category_search", <<<<"gwangju">>, Yeosu>>),
     In1("category_search", <<<<"junggu">>>>),
     [In1("category_search", <<<<"suwon">>>>) EXCEPT !.indoor = TRUE],
     [In1("category_search", <<Jeonnam>>) EXCEPT !.crowd = "quiet", !.moods = {"sea"}],
     [Of("category_search") EXCEPT !.crowd = "quiet", !.near = TRUE],
     [Of("category_search") EXCEPT !.words = <<"food">>],
     [Of("category_search") EXCEPT !.words = <<"hotel">>],
     Of("category_search"),
     [In1("category_search", <<Yeosu>>) EXCEPT !.words = <<"food">>, !.crowd = "popular"],
     [In1("category_search", <<Jeonnam>>) EXCEPT !.words = <<"museum">>],
     [In1("title_search", <<Yeosu>>) EXCEPT !.words = <<"temple">>],
     [In1("photo_match", <<<<"suwon">>>>) EXCEPT !.kind = "snow"],
     In1("compare_regions", <<Jeonnam, <<"suwon">>>>),
     In1("region_profile", <<<<"suwon">>>>),
     [In1("plan_itinerary", <<Yeosu>>) EXCEPT !.days = 1, !.words = <<"gukbap", "food", "cafe">>],
     [In1("plan_itinerary", <<Yeosu>>) EXCEPT !.days = 3, !.words = <<"gukbap", "food", "food", "ski">>, !.crowd = "quiet"],
     Of("plan_itinerary"),
     In1("similar_region", <<<<"suwon">>>>),
     In1("from_saved", <<>>),
     In1("from_saved", <<Jeonnam>>),
     [In1("resolve_place", <<Jeonnam>>) EXCEPT !.words = <<"palace">>, !.kind = "attraction"],
     [In1("resolve_place", <<Jeonnam>>) EXCEPT !.words = <<"arch">>, !.kind = "restaurant"],
     [In1("resolve_place", <<Jeonnam>>) EXCEPT !.words = <<"gate">>, !.kind = "attraction"],
     [Of("resolve_place") EXCEPT !.words = <<"123">>, !.kind = "attraction"],
     [Of("spot_detail") EXCEPT !.spot = 1],
     [Of("related") EXCEPT !.spot = 2],
     In1("festival", <<<<"suwon">>>>),
     In1("abroad", <<<<"paris">>>>),
     In1("uploaded_photo", <<<<"paris">>>>)}
MCRounds ==
    {<<call>> : call \in MCCalls}
    \cup {<<In1("category_search", <<Jeonnam>>), In1("category_search", <<Jeonnam>>)>>,
          <<[Of("category_search") EXCEPT !.words = <<"hotel">>], In1("category_search", <<Jeonnam>>)>>,
          <<[Of("concentration") EXCEPT !.spot = 2], In1("region_profile", <<<<"suwon">>>>), Of("unsupported")>>}

\* The outside world of the instance agrees with its table.
ASSUME AddressesAgree
================================================================================
