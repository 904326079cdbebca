------------------------------ MODULE TravelTurns ------------------------------
(****************************************************************************)
(* The turns of a conversation as the search entry runs them                 *)
(* (agent/search.py, agent/toolloop.py): the user says something, sends a    *)
(* picture or taps a chip or a card of the last answer; a tap or a picture   *)
(* settles the first call, the model chooses the others, round by round,     *)
(* and the answer is made of what the tools gave.  The pipeline hides and    *)
(* shows spots meanwhile.                                                    *)
(*                                                                           *)
(* ChatTurn.tla models the same turns from outside: how the stream of a turn *)
(* is produced, limited and cut off.  Here it is what a turn finds.          *)
(****************************************************************************)
EXTENDS TurnIntent, ToolDialogue

CONSTANTS
    Users,          \* the requests' [at, photo, saved]: each may be None
    Rounds,         \* what the model may choose in a round: sequences of calls
    MaxCalls,       \* MAX_TOOL_CALLS
    MaxPerRound,    \* MAX_CALLS_PER_ROUND
    MaxRounds,      \* bound: rounds of a turn; a repeated call is no call made, and
                    \* only the time of the turn (TOTAL_BUDGET_SECONDS) ends them
    MaxTurns,       \* bound: turns of the conversation
    MaxChanges      \* bound: changes of the pipeline

ASSUME TurnsAssumption ==
    /\ {MaxCalls, MaxPerRound} \subseteq Nat \ {0} /\ {MaxRounds, MaxTurns, MaxChanges} \subseteq Nat
    /\ Rounds \subseteq Seq(Call) /\ \A round \in Rounds : Len(round) \in 1..MaxPerRound
    /\ \A round \in Rounds : \A i \in DOMAIN round :
          round[i].name \in Searches => Range(round[i].words) \subseteq DOMAIN Codes
    /\ Users \subseteq [at : Int \cup {None}, photo : Int \cup {None}, saved : Seq(Ids) \cup {None}]

VARIABLES
    shown,       \* spots with show_flag = 1
    changes,
    turns,       \* turns begun
    request,     \* the user of the running or the last turn
    open,        \* the turn is running
    picked,      \* calls of the round that were not observed yet
    trace,       \* Trace: calls made and what they gave
    dialogue,    \* turns told to the model
    answer       \* the answer of the last turn, or None

vars == <<shown, changes, turns, request, open, picked, trace, dialogue, answer>>

NoTrace == [calls |-> <<>>, steps |-> <<>>, rows |-> <<>>, facts |-> <<>>, anchors |-> <<>>,
            rounds |-> 0, halt |-> FALSE]
Located == request.at # None
Ctx(up) == [at |-> request.at, photo |-> request.photo, saved |-> request.saved, shown |-> shown, up |-> up]

Init ==
    /\ shown = Ids /\ changes = 0 /\ turns = 0
    /\ request \in Users
    /\ open = FALSE /\ picked = <<>> /\ trace = NoTrace /\ dialogue = <<>> /\ answer = None

---------------------------------------------------------------------------
\* A turn begins.  The opening call is made before the model is asked.

Begin(user, opening) ==
    /\ ~open /\ turns < MaxTurns
    /\ open' = TRUE /\ turns' = turns + 1
    /\ request' = user
    /\ picked' = opening
    /\ dialogue' = IF opening = <<>> THEN <<UserTurn>> ELSE <<UserTurn, CallTurn(opening)>>
    /\ trace' = NoTrace
    /\ answer' = None
    /\ UNCHANGED <<shown, changes>>

\* _opening: words leave the first call to the model; a picture, with words or
\* without, is first matched in the whole country.
Say(user) == Begin(user, IF user.photo # None THEN <<PhotoCall(<<>>)>> ELSE <<>>)

TapChip(i) ==
    /\ answer # None
    /\ Begin(request, <<ChipOpening(answer.intent, answer.chips[i], request.photo)>>)

TapCard(i, action) ==
    /\ answer # None
    /\ Begin([request EXCEPT !.photo = None], <<AnchorCall(action, answer.spots[i])>>)

---------------------------------------------------------------------------
\* The loop of route.

\* The model is asked, unless the calls are used up or a round was halted; an
\* opening call that halts the turn does not keep it from being asked once.
Asked ==
    /\ picked = <<>>
    /\ Len(trace.calls) < MaxCalls
    /\ ~trace.halt \/ trace.rounds = 0

Decide(round) ==
    /\ open /\ Asked /\ trace.rounds < MaxRounds
    /\ picked' = round
    /\ dialogue' = Append(dialogue, CallTurn(round))
    /\ trace' = [trace EXCEPT !.rounds = @ + 1]
    /\ UNCHANGED <<shown, changes, turns, request, open, answer>>

\* _observe: whether the call is made.
Accepted(call) ==
    /\ ~trace.halt
    /\ Len(trace.calls) < MaxCalls
    /\ call \notin Range(trace.calls)

Observed ==
    /\ open /\ picked # <<>>
    /\ picked' = Tail(picked)
    /\ dialogue' = Append(dialogue, Observation(Head(picked)))
    /\ UNCHANGED <<shown, changes, turns, request, open, answer>>

\* REPEATED, HALTED, or no call left.
Declined ==
    /\ Observed
    /\ ~Accepted(Head(picked))
    /\ UNCHANGED trace

\* _run_one after the tool has returned.
Traced(call, result) ==
    [calls |-> Append(trace.calls, call),
     steps |-> Append(trace.steps, result),
     rounds |-> trace.rounds,
     halt |-> trace.halt \/ result.stop,
     facts |-> IF result.fact = None THEN trace.facts ELSE Append(trace.facts, result.fact),
     anchors |-> trace.anchors \o SelectSeq(result.anchors, LAMBDA s : s \notin Range(trace.anchors)),
     rows |-> IF call.name \in CarriesFacts THEN trace.rows
              ELSE trace.rows \o SelectSeq(result.rows, LAMBDA s : s \notin Range(trace.rows))]

RunOne(up) ==
    LET call == Head(picked)
    IN  /\ Observed
        /\ Accepted(call)
        /\ Refusal(call, Ctx(up)) = None
        /\ trace' = Traced(call, Run(call, Ctx(up)))

\* The tool has not returned in time: the call counts and gives nothing.
TimedOut ==
    /\ Observed
    /\ Accepted(Head(picked))
    /\ trace' = Traced(Head(picked), TooLate)

---------------------------------------------------------------------------
\* A turn ends.

End(response) ==
    /\ open /\ open' = FALSE
    /\ picked' = <<>>
    /\ dialogue' = <<>>
    /\ answer' = response
    /\ UNCHANGED <<shown, changes, turns, request, trace>>

\* A tool refuses the whole turn.
Refused(up) ==
    /\ picked # <<>>
    /\ Accepted(Head(picked))
    /\ Refusal(Head(picked), Ctx(up)) # None
    /\ End(Failure(Refusal(Head(picked), Ctx(up))))

\* 429 of the model's service is not caught by the loop.
RateLimited ==
    /\ Asked
    /\ End(Failure("rate limited"))

\* The model is done or down, the time or the calls are used up, or the turn
\* was halted: the answer is made of what there is.
Respond ==
    /\ picked = <<>>
    /\ End(AnswerOf(trace, Located))

\* The daily pipeline hides a spot or shows it again.
ShowFlag(s) ==
    /\ changes < MaxChanges
    /\ changes' = changes + 1
    /\ shown' = IF s \in shown THEN shown \ {s} ELSE shown \cup {s}
    /\ UNCHANGED <<turns, request, open, picked, trace, dialogue, answer>>

Next ==
    \/ \E user \in Users : Say(user)
    \/ \E i \in IF answer = None THEN {} ELSE DOMAIN answer.chips : TapChip(i)
    \/ \E i \in IF answer = None THEN {} ELSE DOMAIN answer.spots, action \in AnchorActions : TapCard(i, action)
    \/ \E round \in Rounds : Decide(round)
    \/ Declined
    \/ \E up \in BOOLEAN : RunOne(up) \/ Refused(up)
    \/ TimedOut
    \/ RateLimited
    \/ Respond
    \/ \E s \in Ids : ShowFlag(s)

Spec == Init /\ [][Next]_vars

---------------------------------------------------------------------------
\* Properties.

CallsOf(names) == {i \in DOMAIN trace.calls : trace.calls[i].name \in names}
RowsOf(i) == Range(trace.steps[i].rows)

\* A spot lies in a region, by its old name or by the merged one.
Lies(s, region) ==
    /\ Addr[s] # NoRegion
    /\ \/ IsPrefix(region, Addr[s])
       \/ /\ Merged[region[1]] # NoRegion /\ Addr[s][1] = Merged[region[1]]
          /\ IsPrefix(Tail(region), Tail(Addr[s]))

\* ... in a region the hints name, and do not narrow to a part of it.
InNamed(s, hints) ==
    \E region \in Resolved(hints) :
        Lies(s, region) /\ ~\E narrow \in Resolved(hints) : Covers(region, narrow)

\* What the user said of the region a tool keeps to: the first hint alone for a
\* plan, each hint for itself in a comparison.
Asking(call) ==
    CASE call.name = "plan_itinerary" -> {<<call.hints[1]>>}
      [] call.name = "compare_regions" -> {<<call.hints[i]>> : i \in DOMAIN call.hints}
      [] OTHER -> {HintsOf(call)}

Regional == {"category_search", "title_search", "photo_match", "compare_regions",
             "region_profile", "plan_itinerary", "from_saved"}

StaysIn(call, step) ==
    call.name \in Regional /\ call.hints # <<>> =>
        \A s \in Range(step.rows) : \E hints \in Asking(call) : InNamed(s, hints)

\* A search for a region and nothing else has every sight of it, or is full.
Whole(call, step, spots) ==
    /\ call = [Blank EXCEPT !.name = "category_search", !.hints = call.hints]
    /\ ~step.late /\ ~step.stop /\ ~Unread(call) /\ Len(step.rows) < CandidateLimit
    => \A s \in spots \cap Photo : InTravelPool(s) /\ InNamed(s, HintsOf(call)) => s \in Range(step.rows)

\* Where the hints name one province, under the one name it has.
Elsewhere(call, step) ==
    \A region \in Resolved(HintsOf(call)) :
        /\ call.name = "similar_region" /\ Merged[region[1]] = NoRegion
        /\ \A other \in Resolved(HintsOf(call)) : other[1] = region[1]
        => \A s \in Range(step.rows) : SidoOfRow(s) # region[1]

InProvince(call, step) ==
    call.name = "resolve_place" =>
        \A i \in DOMAIN NamedPlaces(call) :
            LET sido == PlaceSido(NamedPlaces(call)[i])
            IN  sido # NoRegion => \A s \in Range(step.rows) : Addr[s] # NoRegion /\ Addr[s][1] \in {sido, Merged[sido]}

\* No tool answers for another region than it was asked for, or for part of it.
\* A province that was named with one of its cities does not widen the search to
\* it, and a name that cannot be read never becomes a search of the whole country;
\* a search for a region alone finds every sight of it, those whose address has
\* the merged name of the province as well; a region like another one lies in
\* another province; and a place that is named with its province is never found
\* in another one, wherever the answer came from.
RegionsKept ==
    \A i \in DOMAIN trace.calls :
        LET call == trace.calls[i]  step == trace.steps[i]
        IN  /\ StaysIn(call, step)
            /\ changes = 0 => Whole(call, step, shown)
            /\ Elsewhere(call, step)
            /\ InProvince(call, step)

\* What Naver and KTO say of an address is what the table says: a spot of the same
\* city as a hit and close by it lies in the hit's province, and so does the spot
\* that KTO itself gives with an address.
AddressesAgree ==
    /\ \A name \in DOMAIN NaverSays : \A hit \in Range(NaverSays[name]) : \A s \in Ids :
          /\ Place[s] # None /\ Distance(s, hit.at) <= CloseBy
          /\ Near(<<IF Len(hit.addr) > 1 THEN hit.addr[2] ELSE hit.addr[1]>>, s)
          => Addr[s] # NoRegion /\ Addr[s][1] \in {hit.addr[1], Merged[hit.addr[1]]}
    /\ \A name \in DOMAIN KtoSays : \A item \in Range(KtoSays[name]) :
          item.spot \in Ids => /\ Addr[item.spot] # NoRegion
                               /\ Addr[item.spot][1] \in {item.addr[1], Merged[item.addr[1]]}

\* A search looks among the sights, or among what is eaten when all its words or
\* all their codes are of one kind of that.
Meant(kind, words) == (words # <<>> /\ \A word \in Range(words) : Eats[word] = kind) \/ FoodAction(ResolveCodes(words)) = kind

OfKind(call, step) ==
    call.name = "category_search" =>
        \A s \in Range(step.rows) :
            /\ call.indoor => Indoor(s)
            /\ call.moods # {} => Moods[s] \cap call.moods # {}
            /\ \/ InTravelPool(s) /\ (ResolveCodes(call.words) # {} => Code[s].l3 \in ResolveCodes(call.words))
               \/ \E kind \in {"food", "cafe"} : Meant(kind, call.words) /\ In(kind, s)

Fits(call, spots) ==
    {s \in spots \cap Photo :
        /\ InTravelPool(s) /\ Rate[s] # None
        /\ call.hints = <<>> \/ InNamed(s, HintsOf(call))
        /\ call.moods = {} \/ Moods[s] \cap call.moods # {}
        /\ call.indoor => Indoor(s)}

Quietest(call, step, spots, near) ==
    /\ call.name = "category_search" /\ call.crowd = "quiet" /\ call.words = <<>>
    /\ ~step.late /\ ~Unread(call) /\ ~near
    => /\ Fits(call, spots) # {} => step.rows # <<>>
       /\ \A s \in Range(step.rows), t \in Fits(call, spots) \ Range(step.rows) : Rate[s] <= Rate[t]

\* Every spot of a search is of the kind, the mood and under the roof that were
\* asked for, whichever of the pools and fallbacks it came from; and who asks for
\* quiet gets the quietest there is: the cut at KeepRatio never empties a search,
\* and a place that is not shown is not calmer than one that is.
ConditionsKept ==
    \A i \in DOMAIN trace.calls :
        LET call == trace.calls[i]  step == trace.steps[i]
        IN  /\ OfKind(call, step)
            /\ changes = 0 => Quietest(call, step, shown, IsPlace(call, Ctx(TRUE)))

Plans == {i \in CallsOf({"plan_itinerary"}) : trace.steps[i].fact # None /\ trace.steps[i].fact.of = "plan"}

\* No day of an itinerary leads to a place another visit has already led to,
\* though the pools of the meals overlap, and every kind of meal that was asked
\* for is on a day of the plan or the plan says that it is not.
Serves(s, word) == In(Eats[word], s) /\ (Dish[word] # None => Dish[word] \in Title[s])

Honored(words, fact) ==
    LET days == fact.days
    IN  /\ \A d, e \in DOMAIN days : \A i \in DOMAIN days[d], k \in DOMAIN days[e] :
              days[d][i] = days[e][k] => d = e /\ i = k
        /\ \A word \in words \cap MealWords :
              \/ \E d \in DOMAIN days : \E s \in Range(days[d]) : Serves(s, word)
              \/ \E other \in words \cap (fact.missing \cup fact.short) :
                    Eats[other] = Eats[word] /\ Dish[other] = Dish[word]

PlanKept == \A i \in Plans : Honored(Range(trace.calls[i].words), trace.steps[i].fact)

\* What the user has saved is not recommended to them, not even what was saved
\* too long ago to be one of the seeds.
SavedNeverRecommended ==
    \A i \in CallsOf({"from_saved"}) : request.saved # None => RowsOf(i) \cap Range(request.saved) = {}

\* The search a chip starts is the search that was answered with one condition
\* changed: nothing else that the user had said is lost or added.
Replayed(next, last, chip) ==
    /\ next.name = last.name /\ next.words = last.words /\ next.moods = last.moods
    /\ next.name = "plan_itinerary" => DaysOf(next) = DaysOf(last)
    /\ chip.crowd = None => next.crowd = last.crowd
    /\ ~chip.indoor => next.indoor = last.indoor
    /\ ~chip.near => next.near \in {last.near, last.near /\ Located}
    /\ chip.drop = None => next.hints = last.hints

ChipReplay ==
    \A i \in IF answer = None THEN {} ELSE DOMAIN answer.chips :
        LET last == Last(trace.calls)
        IN  TapChip(i) /\ request.photo = None /\ last.name \in {"category_search", "plan_itinerary"}
            => Replayed(Head(picked'), last, answer.chips[i])

ChipReplays == [][ChipReplay]_vars

\* Whenever the model is asked, the dialogue is one its service accepts: every
\* call has its one answer, under its own id and before the next round, whether
\* it was made, repeated, halted or too late, and in the form of Gemini the
\* answers of a round are one content.
DialogueAccepted == picked = <<>> => OpenAiAccepts(dialogue) /\ GeminiAccepts(dialogue)
===============================================================================
