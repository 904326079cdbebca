------------------------------ MODULE MCHomeFeed ------------------------------
(* Eight spots of two regions and three sigungus: three sights, two            *)
(* restaurants, two cafes, one of which KTO lists as a restaurant, and a       *)
(* festival that is also a sight.  Five posts, some of one key.  Three          *)
(* festivals of KTO, one over on the first day; one moves between the pages.    *)
EXTENDS HomeFeed

CONSTANTS r1, r2, g1, g2, g3, f1, f2, f3

C(lodging, l1, l2, l3) == [lodging |-> lodging, l1 |-> l1, l2 |-> l2, l3 |-> l3]

MCCode == <<C(FALSE, "HS", None, None), C(FALSE, "VE", "VE06", None), C(FALSE, "NA", "NA01", None),
            C(FALSE, "FD", "FD01", "FD010100"), C(FALSE, "FD", "FD03", None),
            C(FALSE, "FD", "FD03", "FD030100"), C(FALSE, "FD", "FD05", None),
            C(FALSE, "VE", "VE01", None)>>
MCSido == <<r1, r1, r2, r1, r2, r1, r2, r1>>
MCSigungu == <<g1, g2, g3, g1, g3, g1, g3, g1>>
MCPlace == <<0, 1, 3, 0, 2, 1, 0, None>>
MCPhoto == 1..8
MCSignal ==
    [spot |-> <<3, 2, 1, None, None, None, None, 4>>, cafe |-> <<1, 1, 1, 1, 1, 2, 3, 1>>,
     food |-> <<1, 1, 1, 3, 2, 4, 1, 1>>, hidden |-> <<1, 2, 3, None, None, None, None, None>>]
MCNearness == <<1, 2, 3, 1, 2, 2, 1, 0>>
MCAesthetic == <<1, 2, 3, 1, 2, 2, None, 1>>
MCRate == <<50, 20, 80, None, None, None, None, 10>>
MCShuffle == <<8, 7, 6, 5, 4, 3, 2, 1>>
MCEmbedded == {1, 2, 3, 4, 6, 8}
MCTaste == <<5, 0, 3, 4, 0, 20, 0, 26>>
MCBetween == [a \in 1..8 |-> [b \in 1..8 |-> IF MCTaste[a] < MCTaste[b] THEN MCTaste[b] - MCTaste[a]
                                                                      ELSE MCTaste[a] - MCTaste[b]]]
MCRegions == {r1}
MCFestaLists == {<<>>, <<8, 3>>}
MCSavedLists == {<<1>>, <<4, 6, 7>>}
MCCourse == <<[category |-> "attraction", count |-> 1], [category |-> "food", count |-> 2],
              [category |-> "cafe", count |-> 2]>>
MCTrending == <<"spot", "cafe", "spot", "food", "festa">>
MCNearby == <<"spot", "cafe", "food">>
MCKey == <<<<5, 4, 3, 2, 2>>, <<1, 1, 3, 2, 1>>>>
MCCountry == <<"fr", "fr", "it", "fr", "it">>
MCFestivals == {f1, f2, f3}
MCBegins == [f \in MCFestivals |-> IF f = f3 THEN 1 ELSE 0]
MCEnds == (f1 :> 0) @@ (f2 :> 2) @@ (f3 :> 9)
MCPictured == MCFestivals
MCListings == {<<f1, f2, f3>>, <<f3, f1, f2>>}
================================================================================
