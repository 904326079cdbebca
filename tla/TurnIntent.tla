------------------------------ MODULE TurnIntent ------------------------------
(****************************************************************************)
(* From the calls of a turn to its answer, and from the answer's chips to    *)
(* the first call of the next turn (toolloop.py, services/refine.py,         *)
(* services/suggest.py, services/answer.py).  The intent is what the app     *)
(* keeps of a search; a chip is a patch of it.                               *)
(*                                                                           *)
(* An intent made of calls names no places, so that the chip that gives the  *)
(* region up is never held back for them (drop_leaves_named_place_only).     *)
(****************************************************************************)
EXTENDS AgentTools

Searches == {"category_search", "title_search", "photo_match", "festival", "plan_itinerary"}
AllAxes == {"crowd", "indoor", "near", "region", "category"}
MAX_SUGGESTIONS == 3

NoIntent == [festival |-> FALSE, hints |-> <<>>, words |-> <<>>, moods |-> {}, crowd |-> "any",
             indoor |-> FALSE, near |-> FALSE, days |-> 0]

\* _last_regions
LastRegions(calls) ==
    LET named == {i \in DOMAIN calls : calls[i].hints # <<>>}
    IN  IF named = {} THEN <<>> ELSE calls[Max(named)].hints

\* intent_of: the last search alone is read.
IntentOf(calls) ==
    LET searched == {i \in DOMAIN calls : calls[i].name \in Searches}
        last == calls[Max(searched)]
    IN  IF searched = {} THEN [NoIntent EXCEPT !.hints = LastRegions(calls)]
        ELSE [festival |-> last.name = "festival", hints |-> last.hints, words |-> last.words,
              moods |-> last.moods, crowd |-> last.crowd, indoor |-> last.indoor, near |-> last.near,
              days |-> IF last.name = "plan_itinerary" THEN DaysOf(last) ELSE 0]

\* Slip: the moods of a search are left behind.
CallWithoutMoods(intent) ==
    IF intent.festival THEN [Blank EXCEPT !.name = "festival", !.hints = intent.hints]
    ELSE [name |-> IF intent.days # 0 THEN "plan_itinerary" ELSE "category_search",
          hints |-> intent.hints, words |-> intent.words, moods |-> {}, crowd |-> intent.crowd,
          indoor |-> intent.indoor, near |-> intent.near, days |-> intent.days, spot |-> None, kind |-> None]

\* call_from_intent
CallFromIntent(intent) ==
    IF intent.festival THEN [Blank EXCEPT !.name = "festival", !.hints = intent.hints]
    ELSE [name |-> IF intent.days # 0 THEN "plan_itinerary" ELSE "category_search",
          hints |-> intent.hints, words |-> intent.words, moods |-> intent.moods, crowd |-> intent.crowd,
          indoor |-> intent.indoor, near |-> intent.near, days |-> intent.days, spot |-> None, kind |-> None]

---------------------------------------------------------------------------
\* Chips.

NoPatch == [label |-> None, crowd |-> None, indoor |-> FALSE, near |-> FALSE, drop |-> None]

\* apply_patch, for the patches a chip carries: the region is the axis that is dropped.
ApplyPatch(intent, patch) ==
    [intent EXCEPT !.crowd = IF patch.crowd = None THEN @ ELSE patch.crowd,
                   !.indoor = @ \/ patch.indoor,
                   !.near = @ \/ patch.near,
                   !.hints = IF patch.drop = "region" THEN <<>> ELSE @]

\* _axes: what was saved is not in the intent, and a plan needs its region.
Axes(calls, intent) ==
    IF calls # <<>> /\ Last(calls).name = "from_saved" THEN {}
    ELSE IF intent.days # 0 THEN {"crowd"} ELSE AllAxes

Releasable(intent, axes) == "region" \in axes /\ intent.hints # <<>>

\* derive
Derive(intent, located, axes, indoorAvailable) ==
    LET crowd == IF "crowd" \notin axes \/ intent.crowd = "popular" THEN <<>>
                 ELSE <<[NoPatch EXCEPT !.label = "crowd", !.crowd = IF intent.crowd = "any" THEN "quiet" ELSE "popular"]>>
        indoor == IF "indoor" \in axes /\ ~intent.indoor /\ indoorAvailable
                  THEN <<[NoPatch EXCEPT !.label = "indoor", !.indoor = TRUE]>> ELSE <<>>
        near == IF "near" \in axes /\ located /\ ~intent.near
                THEN <<[NoPatch EXCEPT !.label = "near", !.near = TRUE]>> ELSE <<>>
        chips == crowd \o indoor \o near
    IN  IF intent.festival THEN <<>>
        ELSE IF Releasable(intent, axes)
          THEN Append(Take(chips, MAX_SUGGESTIONS - 1), [NoPatch EXCEPT !.label = "zoom out", !.drop = "region"])
          ELSE Take(chips, MAX_SUGGESTIONS)

\* derive_for_zero
DeriveForZero(intent, axes) ==
    IF Releasable(intent, axes) THEN <<[NoPatch EXCEPT !.label = "widen", !.drop = "region"]>> ELSE <<>>

---------------------------------------------------------------------------
\* The first call of a turn, when a tap or a picture settles it.

\* ANCHOR_CALLS
AnchorActions == {"food", "cafe", "nearby", "related", "crowd"}
AnchorCall(action, s) ==
    [Blank EXCEPT !.spot = s,
                  !.name = CASE action \in {"food", "cafe", "nearby"} -> "nearby"
                             [] action = "related" -> "related"
                             [] action = "crowd" -> "concentration",
                  !.kind = IF action \in {"food", "cafe", "nearby"} THEN action ELSE None]

\* _photo_call: of the chip only the region is left.
PhotoCall(hints) == [Blank EXCEPT !.name = "uploaded_photo", !.hints = hints]

\* _opening of a chip.
ChipOpening(intent, patch, photo) ==
    LET patched == ApplyPatch(intent, patch)
    IN  IF photo # None THEN PhotoCall(patched.hints) ELSE CallFromIntent(patched)

---------------------------------------------------------------------------
\* The answer.

\* applied_conditions
Conditions(intent, axes) ==
    {axis \in axes : CASE axis = "region" -> intent.hints # <<>>
                       [] axis = "category" -> intent.words # <<>> \/ intent.moods # {}
                       [] axis = "indoor" -> intent.indoor
                       [] axis = "crowd" -> intent.crowd # "any"
                       [] axis = "near" -> intent.near}

\* searched_intent
Searched(intent, located) == [intent EXCEPT !.near = @ /\ located]

Answer(kind, spots, intent, facts, chips) ==
    [kind |-> kind, spots |-> spots, intent |-> intent, facts |-> facts, chips |-> chips]
Failure(why) == Answer(why, <<>>, NoIntent, <<>>, <<>>)

\* zero_response: with no condition to give up the turn fails.
ZeroAnswer(intent, located, axes) ==
    LET searched == Searched(intent, located)
    IN  IF Conditions(searched, axes) = {} THEN Failure("no results")
        ELSE Answer("zero", <<>>, searched, <<>>, DeriveForZero(searched, axes))

\* respond
AnswerOf(trace, located) ==
    LET intent == IntentOf(trace.calls)
        axes == Axes(trace.calls, intent)
        spots == Take(trace.rows, ResultLimit)
        roofed == \E i \in DOMAIN trace.rows : Indoor(trace.rows[i])
    IN  IF trace.calls = <<>> THEN Answer("talk", <<>>, NoIntent, <<>>, <<>>)
        ELSE IF trace.rows = <<>> /\ trace.facts # <<>>
          THEN Answer("facts", trace.anchors, intent, trace.facts, <<>>)
        ELSE IF trace.rows = <<>> THEN ZeroAnswer(intent, located, axes)
        ELSE Answer("found", spots, intent, trace.facts, Derive(intent, located, axes, roofed))
================================================================================
