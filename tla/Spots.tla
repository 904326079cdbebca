-------------------------------- MODULE Spots ---------------------------------
(****************************************************************************)
(* The rows of the table spots as the queries of the app read them: what     *)
(* does not change during a behaviour (the place, the KTO classification,    *)
(* the region) and the categories the app makes of the classification        *)
(* (spots/categories.py), which exist twice: as a condition of SQL and as a  *)
(* function of a row that was read.  An id is a number, in the order         *)
(* ORDER BY content_id gives.                                                *)
(****************************************************************************)
EXTENDS Integers, Sequences, FiniteSets, TLC

CONSTANTS
    None,
    SpotCount,
    Code,      \* lodging, and the three levels of KTO's classification or None
    Sido,      \* ldong_regn_cd, or None
    Sigungu,   \* ldong_signgu_cd, or None
    Place      \* where a spot is on a line, or None

Ids == 1..SpotCount

\* A code begins with the code of the level above it, by which in_travel_pool and
\* food_action read the levels off a code.
Nested(code) ==
    /\ code.l2 \in {"FD01", "FD02", "FD03", "FD05"} => code.l1 = "FD"
    /\ code.l3 = "FD030100" => code.l2 = "FD03"

ASSUME SpotsAssumption ==
    /\ SpotCount \in Nat
    /\ {DOMAIN Code, DOMAIN Sido, DOMAIN Sigungu, DOMAIN Place} = {Ids}
    /\ \A s \in Ids : Place[s] = None \/ Place[s] \in Int
    /\ \A s, t \in Ids : Sigungu[s] = Sigungu[t] /\ Sigungu[s] # None => Sido[s] = Sido[t]
    /\ \A s \in Ids : Nested(Code[s])

NearbyCategory == {"attraction", "food", "cafe", "leisure", "shopping"}

ExcludedVE == {"VE06", "VE07", "VE08", "VE09", "VE10", "VE11"}
TravelExcludedVE == {"VE08", "VE09", "VE10", "VE11"}
Tourist == {"HS", "NA", "EX"}

Sight(s, excluded) ==
    /\ ~Code[s].lodging
    /\ Code[s].l1 \in Tourist \/ (Code[s].l1 = "VE" /\ Code[s].l2 \notin excluded)

\* category_predicate: a NULL level fails a condition of SQL unless the
\* condition asks for it; here None is a value like another.
In(cat, s) ==
    CASE cat = "attraction" -> Sight(s, ExcludedVE)
      [] cat = "food" -> Code[s].l2 \in {"FD01", "FD02", "FD03"} /\ Code[s].l3 # "FD030100"
      [] cat = "cafe" -> Code[s].l2 = "FD05" \/ Code[s].l3 = "FD030100"
      [] cat = "leisure" -> Code[s].l1 = "LS"
      [] cat = "shopping" -> Code[s].l1 = "SH" /\ Code[s].l2 # "SH04"

InTravelPool(s) == Sight(s, TravelExcludedVE)

\* derive_category: what a card says its spot is.
Derived(s) ==
    LET l1 == Code[s].l1  l2 == Code[s].l2  l3 == Code[s].l3
    IN  IF l2 = "FD05" \/ l3 = "FD030100" THEN "cafe"
        ELSE IF l2 \in {"FD01", "FD02", "FD03"} /\ l3 # "FD030100" THEN "food"
        ELSE IF l1 \in Tourist \/ (l1 = "VE" /\ l2 \notin ExcludedVE) THEN "attraction"
        ELSE IF l1 = "LS" THEN "leisure"
        ELSE IF l1 = "SH" /\ l2 # "SH04" THEN "shopping"
        ELSE None

---------------------------------------------------------------------------
\* ORDER BY key, content_id and LIMIT, as the queries use them.

Take(seq, n) == SubSeq(seq, 1, IF Len(seq) < n THEN Len(seq) ELSE n)

Sooner(S, key, s) == {t \in S : key[t] < key[s] \/ (key[t] = key[s] /\ t < s)}

Ordered(S, key) ==
    LET standings == {<<Cardinality(Sooner(S, key, s)) + 1, s>> : s \in S}
    IN  [n \in 1..Cardinality(S) |-> CHOOSE s \in S : <<n, s>> \in standings]

InOrder(S) == Ordered(S, [s \in S |-> s])

\* The elements of a list that are of S, in the order of the list.
Only(seq, S) ==
    LET at == InOrder({i \in DOMAIN seq : seq[i] \in S})
    IN  [n \in DOMAIN at |-> seq[at[n]]]

\* sum(key)
Total(S, key) ==
    LET all == InOrder(S)
        sum[n \in 0..Len(all)] == IF n = 0 THEN 0 ELSE sum[n - 1] + key[all[n]]
    IN  sum[Len(all)]

\* DISTINCT ON (group) ... ORDER BY key: the first of each group.
FirstOfGroups(S, group, key) ==
    {s \in S : \A t \in S : group[t] = group[s] =>
                 key[s] < key[t] \/ (key[s] = key[t] /\ s <= t)}

Distance(s, at) == IF Place[s] < at THEN at - Place[s] ELSE Place[s] - at
================================================================================
