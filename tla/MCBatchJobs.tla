---- MODULE MCBatchJobs ----
(* A small instance of BatchJobs for TLC. *)
EXTENDS BatchJobs, TLC

CONSTANTS park, beach, market, gangnam, haeundae, jeju, seoul, cafe, food, b1, b2, kr, fr, it, f1, f2

(* Two spots of one name in one sigungu, and one of the same name in another. *)
MCSigungus == <<gangnam, haeundae>>
MCSigunguOf == (park :> gangnam @@ beach :> gangnam @@ market :> haeundae)
MCCalled == (park :> "park" @@ beach :> "park" @@ market :> "market")
MCNormal == ("Park" :> "park" @@ "p ark" :> "park" @@ "market" :> "market")
Told(name, ahead, rate) == [name |-> name, ahead |-> ahead, rate |-> rate]
MCForecasts == { <<>>,
    <<Told("Park", 0, 1), Told("Park", 1, 2), Told("p ark", 0, 2)>>,
    <<Told("market", 1, 1), Told("Park", 0, NoRate), Told("Park", 1, 3)>> }

(* Posts: one that both orders return, two without a link, one of another blog. *)
MCRegions == <<jeju, seoul>>
MCRegionAt == <<jeju, jeju, seoul>>
MCThemes == <<cafe, food>>
PostOf(link, blog, recent, names) == [link |-> link, blog |-> blog, recent |-> recent, names |-> names]
P1 == PostOf("l1", b1, TRUE, {1, 2})
P2 == PostOf("l2", b1, FALSE, {1, 3})
P3 == PostOf(NoLink, NoLink, TRUE, {1, 2})
MCPosts == {P1, P2, P3}
MCSearches == {<<P1, P3>>, <<P2, P1>>}

(* Three countries, so that one may fail; post 1 is in two of them. *)
MCCountries == <<kr, fr, it>>
MCOf == (kr :> {1} @@ fr :> {1, 2} @@ it :> {3})
MCUndecodable == {[file |-> f2, thumb |-> TRUE]}
MCIntro == <<3, 0, 3>>
====
