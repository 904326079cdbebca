------------------------------ MODULE SavedSpots ------------------------------
(***************************************************************************)
(* The saved spots of one user: the rows of user_saved_spots with the      *)
(* handlers of spots/services/saved.py, and what the app shows of them:    *)
(* the query of the list, the mutations of queries.ts and the bookmark of  *)
(* use-save-optimistic.ts, one for each spot.  Requests reach the server   *)
(* in any order; a bookmark's state lives until its screen is left, which  *)
(* is not modelled, nor is the login that a first tap may ask for.         *)
(***************************************************************************)
EXTENDS Naturals, Sequences, SequencesExt

CONSTANTS
    Place,       \* spots with a bookmark on some screen
    PageLimit,   \* SAVED_PAGE_LIMIT: the app reads one page
    Unknown,
    MaxTaps,     \* bound: taps on bookmarks and removals from the list
    MaxTroubles  \* bound: lost requests, failed fetches, spots hidden

ASSUME SavedAssumption ==
    /\ PageLimit \in Nat \ {0} /\ MaxTaps \in Nat /\ MaxTroubles \in Nat

VARIABLES
    kept,        \* the user's rows, newest first
    onShow,      \* spots with show_flag = 1
    list,        \* the data of the query, or Unknown
    fetch,       \* the query's fetch: none, asked for, or with the page it has read
    optimistic,  \* of each bookmark: what was tapped, or Unknown
    requests,    \* the requests in flight, by number
    disturbed,   \* spots with requests that overlapped, or hidden
    taps, troubles

savedVars == <<kept, onShow, list, fetch, optimistic, requests, disturbed, taps, troubles>>

NoFetch == [at |-> "none", page |-> <<>>]
Asked   == [at |-> "asked", page |-> <<>>]

SavedInit ==
    /\ kept = <<>> /\ onShow = Place
    /\ list = Unknown /\ fetch = Asked
    /\ optimistic = [s \in Place |-> Unknown]
    /\ requests = <<>> /\ disturbed = {}
    /\ taps = 0 /\ troubles = 0

Bother == troubles < MaxTroubles /\ troubles' = troubles + 1

\* list_saved_spots without a cursor: the newest that can be opened.
FirstPage ==
    LET rows == SelectSeq(kept, LAMBDA s : s \in onShow)
    IN  SubSeq(rows, 1, IF Len(rows) < PageLimit THEN Len(rows) ELSE PageLimit)

\* useIsSaved of some list.
Listed(data, s) == data # Unknown /\ \E i \in DOMAIN data : data[i] = s

\* What a bookmark shows.
Bookmarked(s) == IF optimistic[s] = Unknown THEN Listed(list, s) ELSE optimistic[s]

\* Every render drops an optimistic value that the list has caught up with.
Rendered(data, values) ==
    [s \in Place |-> IF values[s] = Listed(data, s) THEN Unknown ELSE values[s]]

ShowList(data, values) == list' = data /\ optimistic' = Rendered(data, values)

UnderWay(s) == \E i \in DOMAIN requests : requests[i].at # "over" /\ requests[i].spot = s

\* mutate: an unsave cancels the fetch in flight and takes the card away at once.
Mutate(s, op, tapped, values) ==
    /\ taps < MaxTaps /\ taps' = taps + 1
    /\ requests' = Append(requests, [spot |-> s, op |-> op, at |-> "sent", tapped |-> tapped,
                                     before |-> list])
    /\ disturbed' = IF UnderWay(s) THEN disturbed \cup {s} ELSE disturbed
    /\ IF op = "unsave"
         THEN /\ fetch' = NoFetch
              /\ ShowList(IF list = Unknown THEN list ELSE SelectSeq(list, LAMBDA x : x # s), values)
         ELSE UNCHANGED fetch /\ ShowList(list, values)
    /\ UNCHANGED <<kept, onShow, troubles>>

\* A tap on a bookmark asks for the opposite of what it shows.
Toggle(s) ==
    LET next == ~Bookmarked(s)
    IN  Mutate(s, IF next THEN "save" ELSE "unsave", TRUE, [optimistic EXCEPT ![s] = next])

\* The list's own removal.
RemoveCard(s) == Listed(list, s) /\ Mutate(s, "unsave", FALSE, optimistic)

Mark(i, at) == requests' = [requests EXCEPT ![i].at = at]

\* save_spot: a row of its own, or the one that is there, or a 404.
SaveSpot(i) ==
    LET s == requests[i].spot
    IN  /\ requests[i].at = "sent" /\ requests[i].op = "save"
        /\ kept' = IF s \in onShow /\ ~Listed(kept, s) THEN <<s>> \o kept ELSE kept
        /\ Mark(i, IF s \in onShow THEN "served" ELSE "refused")
        /\ UNCHANGED <<onShow, list, fetch, optimistic, disturbed, taps, troubles>>

\* unsave_spot.
UnsaveSpot(i) ==
    /\ requests[i].at = "sent" /\ requests[i].op = "unsave"
    /\ kept' = SelectSeq(kept, LAMBDA s : s # requests[i].spot)
    /\ Mark(i, "served")
    /\ UNCHANGED <<onShow, list, fetch, optimistic, disturbed, taps, troubles>>

\* The answer arrives: the list is asked for again.
MutationDone(i) ==
    /\ requests[i].at = "served"
    /\ Mark(i, "over")
    /\ fetch' = Asked
    /\ UNCHANGED <<kept, onShow, list, optimistic, disturbed, taps, troubles>>

\* A failed save does not ask again, a failed unsave puts the old list back
\* and does; a bookmark forgets what was tapped.
RolledBack(i, values) ==
    LET me == requests[i]
    IN  /\ Mark(i, "over")
        /\ IF me.op = "unsave"
             THEN /\ fetch' = Asked
                  /\ ShowList(IF me.before = Unknown THEN list ELSE me.before, values)
             ELSE UNCHANGED fetch /\ ShowList(list, values)
        /\ UNCHANGED <<kept, onShow, disturbed, taps>>

\* Slip: the bookmark keeps what was tapped.
ForgetNothing(i) == optimistic

Forget(i) == IF requests[i].tapped THEN [optimistic EXCEPT ![requests[i].spot] = Unknown] ELSE optimistic

MutationRefused(i) ==
    /\ requests[i].at = "refused"
    /\ RolledBack(i, Forget(i))
    /\ UNCHANGED troubles

\* The request is lost on its way, or its answer is.
MutationLost(i) ==
    /\ requests[i].at \in {"sent", "served"}
    /\ Bother
    /\ RolledBack(i, Forget(i))

\* The query: a fetch for a stale list when a screen opens, and what it brings.
Refetch ==
    /\ fetch = NoFetch
    /\ fetch' = Asked
    /\ UNCHANGED <<kept, onShow, list, optimistic, requests, disturbed, taps, troubles>>

ReadPage ==
    /\ fetch = Asked
    /\ fetch' = [at |-> "read", page |-> FirstPage]
    /\ UNCHANGED <<kept, onShow, list, optimistic, requests, disturbed, taps, troubles>>

FetchArrives ==
    /\ fetch.at = "read"
    /\ ShowList(fetch.page, optimistic)
    /\ fetch' = NoFetch
    /\ UNCHANGED <<kept, onShow, requests, disturbed, taps, troubles>>

FetchLost ==
    /\ fetch # NoFetch /\ Bother
    /\ fetch' = NoFetch
    /\ UNCHANGED <<kept, onShow, list, optimistic, requests, disturbed, taps>>

\* The pipeline hides a spot.
HideSpot(s) ==
    /\ s \in onShow /\ Bother
    /\ onShow' = onShow \ {s}
    /\ disturbed' = disturbed \cup {s}
    /\ UNCHANGED <<kept, list, fetch, optimistic, requests, taps>>

RequestStep(i) == SaveSpot(i) \/ UnsaveSpot(i) \/ MutationDone(i) \/ MutationRefused(i)

SavedNext ==
    \/ \E s \in Place : Toggle(s) \/ RemoveCard(s) \/ HideSpot(s)
    \/ \E i \in DOMAIN requests : RequestStep(i) \/ MutationLost(i)
    \/ Refetch \/ ReadPage \/ FetchArrives \/ FetchLost

\* Requests are answered, and the user comes back to a screen of the app.
SavedFairness ==
    /\ \A i \in 1..MaxTaps : WF_savedVars(i \in DOMAIN requests /\ RequestStep(i))
    /\ WF_savedVars(Refetch) /\ WF_savedVars(ReadPage) /\ WF_savedVars(FetchArrives)

---------------------------------------------------------------------------
\* Properties.

\* When the taps are over the app shows what the server has: the list is its
\* first page, whatever was rolled back or lost in between, no bookmark shows a
\* spot as saved that is not, and none of the page as not saved, unless requests
\* for the spot overlapped or it was hidden.
SavedAgrees ==
    <>[](/\ list = FirstPage
         /\ \A s \in Place \ disturbed :
              /\ Bookmarked(s) => Listed(kept, s)
              /\ Listed(FirstPage, s) => Bookmarked(s))
=============================================================================
