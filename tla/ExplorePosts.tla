----------------------------- MODULE ExplorePosts -----------------------------
(****************************************************************************)
(* The endless feed of overseas posts (feed/services/posts.py): a page is    *)
(* the next posts below a cursor in an order drawn from a seed, its posts    *)
(* are then rearranged so that two of one country do not touch, and the      *)
(* cursor of the next page is taken from the page as it was read.  Between   *)
(* two pages a post may be hidden, lose or get back its matches, or appear.  *)
(****************************************************************************)
EXTENDS Integers, Sequences

CONSTANTS
    Posts,       \* ids of overseas_spots
    Seeds,
    Key,         \* the shuffle key of a post under a seed
    Country,
    PostLimit,   \* posts of a page
    MaxChanges   \* bound: how often the pipeline and the admin touch a post

ASSUME PostsAssumption ==
    /\ Posts \subseteq Nat \ {0}
    /\ Key \in [Seeds -> [Posts -> Nat]]
    /\ DOMAIN Country = Posts
    /\ PostLimit \in Nat \ {0} /\ MaxChanges \in Nat

VARIABLES
    listed,    \* the posts _PAGE_SQL would show
    session,   \* what a reader has been shown, and the cursor it holds
    changes

postVars == <<listed, session, changes>>

Start == 0    \* the cursor of the first page

PostsInit ==
    /\ listed \in SUBSET Posts
    /\ \E seed \in Seeds : session = [seed |-> seed, cursor |-> Start, shown |-> <<>>, more |-> TRUE,
                                      steady |-> listed]
    /\ changes = 0

\* ORDER BY shuffle_key DESC, id DESC.
Above(seed, p, q) == Key[seed][p] > Key[seed][q] \/ (Key[seed][p] = Key[seed][q] /\ p > q)

\* Below the cursor, which holds the key and the id of a post that may since
\* have left the feed.
BelowKey(seed, cursor, p) == cursor = Start \/ Key[seed][p] < Key[seed][cursor]

Below(seed, cursor, p) == cursor = Start \/ Above(seed, cursor, p)

\* ORDER BY and LIMIT: the posts below the cursor in their order, and those left
\* out come after a page that is full.  There is one such sequence.
FetchPostsPage(seed, cursor, limit) ==
    LET rows == {p \in listed : Below(seed, cursor, p)}
    IN  {page \in UNION {[1..n -> rows] : n \in 0..limit} :
            /\ \A i, j \in DOMAIN page : i < j => Above(seed, page[i], page[j])
            /\ \A p \in rows \ {page[i] : i \in DOMAIN page} :
                  Len(page) = limit /\ \A i \in DOMAIN page : Above(seed, page[i], p)}

\* _spread_countries: a post of the country before it changes places with the
\* next one of another country.
SpreadCountries(page) ==
    LET spread[i \in 0..Len(page)] ==
          IF i <= 1 THEN page
          ELSE LET out == spread[i - 1]
                   other == {j \in (i + 1)..Len(page) : Country[out[j]] # Country[out[i - 1]]}
               IN  IF Country[out[i]] # Country[out[i - 1]] \/ other = {} THEN out
                   ELSE LET j == CHOOSE j \in other : \A k \in other : j <= k
                        IN  [out EXCEPT ![i] = out[j], ![j] = out[i]]
    IN  spread[Len(page)]

\* The cursor is the last post of the page as it was read, not as it is shown.
PageTail(page) == page[Len(page)]

ListPosts ==
    /\ session.more
    /\ \E rows \in FetchPostsPage(session.seed, session.cursor, PostLimit + 1) :
         LET more == Len(rows) > PostLimit
             page == IF more THEN SubSeq(rows, 1, PostLimit) ELSE rows
         IN  session' = [session EXCEPT !.shown = @ \o SpreadCountries(page),
                                        !.more = more,
                                        !.cursor = IF more THEN PageTail(page) ELSE @]
    /\ UNCHANGED <<listed, changes>>

\* The matches are computed again, the admin hides a post, a spot is hidden.
PostChanges(p) ==
    /\ changes < MaxChanges
    /\ session.more
    /\ listed' = IF p \in listed THEN listed \ {p} ELSE listed \cup {p}
    /\ session' = [session EXCEPT !.steady = @ \ {p}]
    /\ changes' = changes + 1

PostsNext == ListPosts \/ \E p \in Posts : PostChanges(p)

---------------------------------------------------------------------------
ShownPosts == {session.shown[i] : i \in DOMAIN session.shown}

\* No post is shown twice in one scroll, whatever comes and goes between two
\* pages and although each page is rearranged after its cursor was taken.
PagedOnce == \A i, j \in DOMAIN session.shown : session.shown[i] = session.shown[j] => i = j

\* A reader who scrolls to the end has been shown every post that was in the
\* feed all the while, also those whose key equals another's.
PagedAll == ~session.more => session.steady \subseteq ShownPosts
================================================================================
