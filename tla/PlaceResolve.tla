----------------------------- MODULE PlaceResolve -----------------------------
(****************************************************************************)
(* A place named in a question, looked for in the table spots, then at       *)
(* Naver, then at KTO (agent/services/resolve.py).  Of what is found, the    *)
(* best status wins, and a match is only good in the province the question   *)
(* names: the place's own, or any that the places of the question name.      *)
(*                                                                           *)
(* A place is its name, its type and its region hint (words, or <<>>).  What *)
(* Naver answers for a name, and what KTO does, are sequences of records     *)
(* with an address, and a position or the id of a spot.                      *)
(****************************************************************************)
EXTENDS SpotSearch

CONSTANTS
    Likeness,     \* word_similarity * 100 of a name to a title
    Queries,      \* the ways a name is asked, without its region among them
    Preferred,    \* spots whose content type is that of a place type
    CloseBy       \* NAVER_PROMOTE_MAX_KM

ASSUME PlaceAssumption ==
    /\ \A query \in DOMAIN Likeness : \A s \in Ids : Likeness[query][s] \in Nat
    /\ DOMAIN Queries \subseteq DOMAIN Likeness
    /\ \A name \in DOMAIN Queries : Queries[name] \in Seq(DOMAIN Likeness)

MATCH_CONFIDENCE == 60
AMBIGUOUS_CONFIDENCE == 45
WORD_SIMILARITY == 40
Commercial == {"restaurant", "cafe", "hotel"}
StatusRank == [matched |-> 3, naver_only |-> 2, ambiguous |-> 1, unmatched |-> 0]

Unmatched == [status |-> "unmatched", confidence |-> 0, spot |-> None]
Found(status, confidence, s) == [status |-> status, confidence |-> confidence, spot |-> s]

\* RegionContext.place_sido: the first token of the hint that means a province.
\* The whole hint is the first of them, then its words.
PlaceSido(place) ==
    LET tokens == <<place.hint>> \o [i \in DOMAIN place.hint |-> <<place.hint[i]>>]
        meant == {i \in DOMAIN tokens : SidoOf(tokens[i]) # NoRegion}
    IN  IF meant = {} THEN NoRegion ELSE SidoOf(tokens[Min(meant)])

\* allowed_for
AllowedFor(place, places) ==
    IF PlaceSido(place) # NoRegion THEN {PlaceSido(place)}
    ELSE {PlaceSido(places[i]) : i \in DOMAIN places} \ {NoRegion}

\* _sido_ok
SidoOk(addr, allowed) == allowed = {} \/ (addr # NoRegion /\ addr[1] \in allowed)

\* search_spots_by_title for a name: by likeness, then by the type preferred.
LikeRows(query, region, type, shown) ==
    LET rows == {s \in shown : Likeness[query][s] >= WORD_SIMILARITY /\ Near(region, s)}
        key == [s \in Ids |-> -2 * Likeness[query][s] - (IF s \in Preferred[type] THEN 1 ELSE 0)]
    IN  Take(Ordered(rows, key), 3)

\* _kto_local: every spelling in every region until one has rows; the first row
\* like enough is the match, else the most like of those seen may be ambiguous.
Regions(place, allowed) ==
    LET hinted == IF place.hint = <<>> THEN <<>> ELSE <<<<Last(place.hint)>>>>
        sidos == SetToSeq({<<sido>> : sido \in allowed} \ Range(hinted))
    IN  IF hinted \o sidos = <<>> THEN <<NoRegion>> ELSE hinted \o sidos

RowsSeen(place, allowed, query, shown) ==
    LET regions == Regions(place, allowed)
        answers == {i \in DOMAIN regions : LikeRows(query, regions[i], place.type, shown) # <<>>}
    IN  IF answers = {} THEN <<>>
        ELSE Only(LikeRows(query, regions[Min(answers)], place.type, shown),
                  {s \in Ids : SidoOk(Addr[s], allowed)})

BestLocal(rows) ==
    LET matches == {i \in DOMAIN rows : rows[i].like >= MATCH_CONFIDENCE}
        best == {i \in DOMAIN rows : \A j \in DOMAIN rows : rows[j].like <= rows[i].like}
    IN  IF matches # {} THEN Found("matched", rows[Min(matches)].like, rows[Min(matches)].spot)
        ELSE IF best # {} /\ rows[Min(best)].like >= AMBIGUOUS_CONFIDENCE
          THEN Found("ambiguous", rows[Min(best)].like, rows[Min(best)].spot)
          ELSE Unmatched

Liked(query, seen) == [j \in DOMAIN seen |-> [spot |-> seen[j], like |-> Likeness[query][seen[j]]]]

KtoLocal(place, allowed, shown) ==
    LET asked == Queries[place.name]
    IN  BestLocal(FlattenSeq([i \in DOMAIN asked |->
            Liked(asked[i], RowsSeen(place, allowed, asked[i], shown))]))

\* _from_naver: the first hit of the province, promoted to a spot of the same
\* name within CloseBy of it, if there is one.
FromNaver(place, allowed, hits, shown) ==
    LET good == Only(hits, {h \in Range(hits) : SidoOk(h.addr, allowed)})
        hit == good[1]
        region == <<IF Len(hit.addr) > 1 THEN hit.addr[2] ELSE hit.addr[1]>>
        rows == Only(LikeRows(place.name, region, place.type, shown),
                     {s \in Ids : Place[s] # None /\ Distance(s, hit.at) <= CloseBy})
    IN  IF good = <<>> THEN Unmatched
        ELSE IF rows # <<>> THEN Found("matched", 90, rows[1]) ELSE Found("naver_only", 70, None)

\* _kto_api_fallback: the first of KTO's answers that lies in the province.
KtoFallback(place, allowed, items) ==
    LET good == Only(items, {item \in Range(items) : SidoOk(item.addr, allowed)})
    IN  IF good = <<>> THEN Unmatched ELSE Found("matched", 65, good[1].spot)

\* _pick
Pick(current, candidate) ==
    LET rank == StatusRank[candidate.status] - StatusRank[current.status]
    IN  IF rank > 0 \/ (rank = 0 /\ candidate.confidence > current.confidence) THEN candidate ELSE current

\* resolve_places for one of the places: a shop is asked of Naver first, a sight
\* only when the table has no match; KTO when nothing was found.
FoundFirst(place, local, derived) ==
    IF place.type = "region" THEN Unmatched
    ELSE IF place.type \in Commercial
      THEN IF derived.status = "unmatched" THEN local ELSE derived
    ELSE IF local.status = "matched" THEN local ELSE Pick(local, derived)

OrElse(found, fallback) == IF found.status = "unmatched" THEN Pick(found, fallback) ELSE found

ResolvePlace(place, places, hits, items, shown) ==
    LET allowed == AllowedFor(place, places)
    IN  OrElse(FoundFirst(place, KtoLocal(place, allowed, shown), FromNaver(place, allowed, hits, shown)),
               KtoFallback(place, allowed, items))
================================================================================
