------------------------------ MODULE Itinerary ------------------------------
(****************************************************************************)
(* The days of a trip (agent/tools/itinerary.py): sights near one another    *)
(* are chained into days, and every kind of meal asked for takes one place   *)
(* of a day.  Spots are numbers, and where a spot is is a point of a line;   *)
(* a meal is the word it was asked with and the spots that serve it, best    *)
(* first.                                                                    *)
(****************************************************************************)
EXTENDS Spots, SequencesExt, FiniteSetsExt

CONSTANTS
    PerDay,      \* PER_DAY
    Outlier      \* OUTLIER_KM

ASSUME ItineraryAssumption == PerDay \in Nat \ {0, 1} /\ Outlier \in Nat

Apart(s, t) == Distance(s, Place[t])

\* _placed
Placed(rows) == Only(rows, {s \in Ids : Place[s] # None})

\* _without_outliers: what is far from the middle of the rows is shaken off.
WithoutOutliers(rows) ==
    LET places == SortSeq([i \in DOMAIN rows |-> Place[rows[i]]], <)
        middle == places[Len(rows) \div 2 + 1]
        kept == Only(rows, {s \in Range(rows) : Distance(s, middle) <= Outlier})
    IN  IF Len(rows) < 3 \/ kept = <<>> THEN rows ELSE kept

\* The first of the rows nearest to s.
NearestOf(s, rows, positions) ==
    Min({i \in positions : \A j \in positions : Apart(rows[i], s) <= Apart(rows[j], s)})

Nearest(s, rows) == rows[NearestOf(s, rows, DOMAIN rows)]

\* From the last row of the path on to the nearest of the others.
Onward(rows, path) ==
    Append(path, IF path = <<>> THEN 1 ELSE NearestOf(rows[Last(path)], rows, DOMAIN rows \ Range(path)))

\* _chain: from the first row always on to the nearest of the others; what the
\* rows hold twice is visited twice.
Chain(rows) ==
    LET path[n \in 0..Len(rows)] == IF n = 0 THEN <<>> ELSE Onward(rows, path[n - 1])
    IN  [i \in DOMAIN rows |-> rows[path[Len(rows)][i]]]

---------------------------------------------------------------------------
\* _one_of_each: each pool gives the spot nearest to the head of the day that
\* no day has yet; a pool that has none is short.

\* The spots of a day are not taken from the other pools.
WithMealAgain(day, plan, i) ==
    LET left == plan.meals[i].pool
    IN  IF left = <<>> THEN [plan EXCEPT !.short = @ \cup {plan.meals[i].word}]
        ELSE [plan EXCEPT !.meals[i].pool = Remove(@, Nearest(day[1], left)),
                          !.picked = Append(@, Nearest(day[1], left))]

WithMeal(day, plan, i) ==
    LET left == Only(plan.meals[i].pool, Ids \ plan.taken)
    IN  IF left = <<>> THEN [plan EXCEPT !.short = @ \cup {plan.meals[i].word}]
        ELSE [plan EXCEPT !.taken = @ \cup {Nearest(day[1], left)},
                          !.picked = Append(@, Nearest(day[1], left))]

OneOfEach(day, picks, plan) ==
    LET fed[n \in 0..Len(picks)] == IF n = 0 THEN plan ELSE WithMeal(day, fed[n - 1], picks[n])
    IN  fed[Len(picks)]

Leg(sights, day, perDay) ==
    SubSeq(sights, (day - 1) * perDay + 1, IF day * perDay < Len(sights) THEN day * perDay ELSE Len(sights))

\* The kinds of meal whose turn it is.
Picks(kinds, day, perMeal) == [slot \in 1..perMeal |-> (((day - 1) * perMeal + slot - 1) % kinds) + 1]

\* One day of the loop: a leg of the sights, then the meals whose turn it is,
\* then the whole day chained again.  A day with no sight left ends the plan.
WithDay(plan, sights, day, perMeal) ==
    LET leg == Leg(sights, day, PerDay - perMeal)
        picks == Picks(Len(plan.meals), day, perMeal)
        chosen == OneOfEach(leg, picks, [plan EXCEPT !.picked = <<>>])
    IN  IF leg = <<>> THEN plan
        ELSE [chosen EXCEPT !.days = Append(@, Chain(leg \o chosen.picked)),
                            !.served = @ \cup Range(picks)]

\* Lines 242-244: neither is a kind whose turn never came.
Short(plan) ==
    plan.short \cup {plan.meals[i].word : i \in DOMAIN plan.meals \ plan.served}

\* _assemble: without a sight the first kind of meal becomes the frame.
Assemble(sights, meals, days) ==
    LET bare == sights = <<>> /\ meals # <<>>
        frame == IF bare THEN meals[1].pool ELSE sights
        left == IF bare THEN Tail(meals) ELSE meals
        perMeal == IF Len(left) < PerDay - 1 THEN Len(left) ELSE PerDay - 1
        ordered == Chain(Take(frame, days * (PerDay - perMeal)))
        plan[day \in 0..days] ==
            IF day = 0 THEN [days |-> <<>>, meals |-> left, taken |-> Range(ordered),
                             short |-> {}, served |-> {}, picked |-> <<>>]
            ELSE WithDay(plan[day - 1], ordered, day, perMeal)
    IN  [days |-> plan[days].days, short |-> IF ordered = <<>> THEN {} ELSE Short(plan[days])]
================================================================================
