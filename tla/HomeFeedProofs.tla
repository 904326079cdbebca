--------------------------- MODULE HomeFeedProofs ---------------------------
(***************************************************************************)
(* What a reader who pages through the explore feed is shown, for any      *)
(* posts, keys, page sizes and changes of the feed between two pages; that *)
(* the festivals served are of today or of the day before, fetched by one  *)
(* task at a time; that their cards lead to spots that are shown; and that *)
(* no list or ranking of the home screen repeats a spot or loses one.      *)
(***************************************************************************)
EXTENDS HomeFeed, SpotsProofs

---------------------------------------------------------------------------
\* The pages of the explore feed.

\* The ways to show the posts of a page.
Shuffles(page) ==
    {out \in [1..Len(page) -> Posts] :
        /\ \A i \in 1..Len(page) : \E k \in 1..Len(page) : out[k] = page[i]
        /\ \A i \in 1..Len(page) : \E k \in 1..Len(page) : out[i] = page[k]
        /\ \A i, k \in 1..Len(page) : out[i] = out[k] => i = k}

LEMMA SwapShuffles ==
    ASSUME NEW page, NEW out \in Shuffles(page), NEW i \in 1..Len(page), NEW k \in 1..Len(page)
    PROVE  [out EXCEPT ![i] = out[k], ![k] = out[i]] \in Shuffles(page)
<1> DEFINE new == [out EXCEPT ![i] = out[k], ![k] = out[i]]
           from == [x \in 1..Len(page) |-> IF x = k THEN i ELSE IF x = i THEN k ELSE x]
<1>1. out \in [1..Len(page) -> Posts]
  BY DEF Shuffles
<1>2. from \in [1..Len(page) -> 1..Len(page)]
  OBVIOUS
<1>3. \A x \in 1..Len(page) : new[x] = out[from[x]] /\ from[from[x]] = x
  BY <1>1
<1>4. new \in [1..Len(page) -> Posts]
  BY <1>1
<1> HIDE DEF new, from
<1>5. ASSUME NEW x \in 1..Len(page)
      PROVE  /\ \E y \in 1..Len(page) : new[y] = page[x]
             /\ \E y \in 1..Len(page) : new[x] = page[y]
  <2>1. PICK y \in 1..Len(page) : out[y] = page[x]
    BY DEF Shuffles
  <2>2. from[y] \in 1..Len(page) /\ new[from[y]] = page[x]
    BY <1>2, <1>3, <2>1
  <2>3. PICK z \in 1..Len(page) : out[from[x]] = page[z]
    BY <1>2 DEF Shuffles
  <2> QED
    BY <1>3, <2>2, <2>3
<1>6. ASSUME NEW x \in 1..Len(page), NEW y \in 1..Len(page), new[x] = new[y]
      PROVE  x = y
  <2>1. \A a, b \in 1..Len(page) : out[a] = out[b] => a = b
    BY DEF Shuffles
  <2>2. from[x] \in 1..Len(page) /\ from[y] \in 1..Len(page) /\ out[from[x]] = out[from[y]]
    BY <1>2, <1>3, <1>6
  <2>3. from[x] = from[y]
    BY <2>1, <2>2
  <2> QED
    BY <1>3, <2>3
<1>7. new \in Shuffles(page)
  BY <1>4, <1>5, <1>6 DEF Shuffles
<1> QED
  BY <1>7 DEF new

\* A page is shown rearranged, and whole.
LEMMA SpreadShuffles ==
    ASSUME NEW page \in Seq(Posts), \A i, k \in 1..Len(page) : page[i] = page[k] => i = k
    PROVE  SpreadCountries(page) \in Shuffles(page)
<1> DEFINE X == Shuffles(page)
           n == Len(page)
           Others(out, i) == {j \in (i + 1)..Len(page) : Country[out[j]] # Country[out[i - 1]]}
           Swapped(out, i) ==
              IF i <= 1 THEN page
              ELSE IF Country[out[i]] # Country[out[i - 1]] \/ Others(out, i) = {} THEN out
              ELSE LET j == CHOOSE j \in Others(out, i) : \A k \in Others(out, i) : j <= k
                   IN  [out EXCEPT ![i] = out[j], ![j] = out[i]]
           step == [i \in 1..n |-> [out \in X |-> Swapped(out, i)]]
           IsSpread(g) == g = [i \in 0..Len(page) |->
              IF i <= 1 THEN page
              ELSE LET out == g[i - 1]
                       other == {j \in (i + 1)..Len(page) : Country[out[j]] # Country[out[i - 1]]}
                   IN  IF Country[out[i]] # Country[out[i - 1]] \/ other = {} THEN out
                       ELSE LET j == CHOOSE j \in other : \A k \in other : j <= k
                            IN  [out EXCEPT ![i] = out[j], ![j] = out[i]]]
<1>1. n \in Nat /\ page \in [1..n -> Posts]
  BY LenProperties
<1>2. page \in X
  BY <1>1 DEF Shuffles
<1>3. ASSUME NEW i \in 1..n, NEW out \in X PROVE Swapped(out, i) \in X
  <2>1. CASE i <= 1
    BY <1>2, <2>1
  <2>2. CASE ~(i <= 1) /\ (Country[out[i]] # Country[out[i - 1]] \/ Others(out, i) = {})
    BY <2>2
  <2>3. CASE ~(i <= 1) /\ ~(Country[out[i]] # Country[out[i - 1]] \/ Others(out, i) = {})
    <3>1. Others(out, i) \subseteq Nat /\ Others(out, i) # {} /\ Others(out, i) \subseteq 1..n
      BY <1>1, <2>3
    <3>2. PICK j : j = CHOOSE x \in Others(out, i) : \A k \in Others(out, i) : x <= k
      OBVIOUS
    <3>3. j \in Others(out, i)
      <4> HIDE DEF Others
      <4> QED
        BY <3>1, <3>2, LeastOf
    <3>4. j \in 1..n
      BY <3>1, <3>3
    <3>5. Swapped(out, i) = [out EXCEPT ![i] = out[j], ![j] = out[i]]
      BY <2>3, <3>2
    <3>6. [out EXCEPT ![i] = out[j], ![j] = out[i]] \in X
      BY <3>4, SwapShuffles
    <3> HIDE DEF Swapped, X
    <3> QED
      BY <3>5, <3>6
  <2> QED
    BY <2>1, <2>2, <2>3
<1>4. step \in [1..n -> [X -> X]]
  <2> HIDE DEF Swapped, X
  <2> QED
    BY <1>3
<1>5. PICK f : f \in [0..n -> X] /\ f[0] = page /\ \A i \in 1..n : f[i] = step[i][f[i - 1]]
  <2> HIDE DEF step, X, n
  <2>1. PICK f : Steps(f, n, X, page, step)
    BY <1>1, <1>2, <1>4, Iterated
  <2> QED
    BY <2>1 DEF Steps
<1>6. \A i \in 1..n : f[i] = Swapped(f[i - 1], i)
  <2> SUFFICES ASSUME NEW i \in 1..n PROVE f[i] = Swapped(f[i - 1], i)
    OBVIOUS
  <2>1. f[i - 1] \in X
    <3>1. i - 1 \in 0..n
      BY <1>1
    <3> HIDE DEF X, step, n
    <3> QED
      BY ONLY <1>5, <3>1
  <2> HIDE DEF Swapped, X
  <2> QED
    BY <1>5, <2>1
<1>7. IsSpread(f)
  <2>0. Swapped(f[0 - 1], 0) = page
    OBVIOUS
  <2>1. \A i \in 0..n : f[i] = Swapped(f[i - 1], i)
    <3> HIDE DEF Swapped, X
    <3> SUFFICES ASSUME NEW i \in 0..n PROVE f[i] = Swapped(f[i - 1], i)
      OBVIOUS
    <3>1. CASE i = 0
      BY <1>5, <2>0, <3>1
    <3>2. CASE i \in 1..n
      BY <1>6, <3>2
    <3> QED
      BY <1>1, <3>1, <3>2
  <2>2. f = [i \in 0..n |-> Swapped(f[i - 1], i)]
    <3> HIDE DEF Swapped, X
    <3> QED
      BY <1>5, <2>1
  <2> QED
    BY <2>2
<1>8. PICK g : g = CHOOSE h : IsSpread(h)
  OBVIOUS
<1>9. IsSpread(g)
  <2> HIDE DEF IsSpread
  <2> QED
    BY <1>7, <1>8
<1>10. SpreadCountries(page) = g[Len(page)]
  BY <1>8 DEF SpreadCountries
<1>11. \A i \in 0..n : g[i] = Swapped(g[i - 1], i)
  BY <1>9
<1> DEFINE T == {i \in 0..n : g[i] \notin X}
<1>12. T = {}
  <2>1. SUFFICES ASSUME T # {} PROVE FALSE
    OBVIOUS
  <2>2. T \subseteq Nat
    BY <1>1
  <2>3. PICK m \in T : \A k \in T : m <= k
    <3> HIDE DEF T
    <3> QED
      BY <2>1, <2>2, LeastOf
  <2>4. m # 0
    <3>1. SUFFICES ASSUME m = 0 PROVE FALSE
      OBVIOUS
    <3>2. Swapped(g[0 - 1], 0) = page
      OBVIOUS
    <3> HIDE DEF Swapped, X
    <3> QED
      BY <1>2, <1>11, <2>3, <3>1, <3>2
  <2>5. m \in 1..n /\ m - 1 \in 0..n /\ ~(m <= m - 1)
    BY <1>1, <2>3, <2>4
  <2>6. g[m - 1] \in X
    BY <2>3, <2>5
  <2>7. g[m] = Swapped(g[m - 1], m)
    BY <1>11, <2>3
  <2>8. g[m] \in X
    <3> HIDE DEF Swapped, X
    <3> QED
      BY <1>3, <2>5, <2>6, <2>7
  <2> QED
    BY <2>3, <2>8
<1> QED
  BY <1>1, <1>10, <1>12

\* Below in an order: what a page is taken from.
LEMMA PostsOrdered ==
    ASSUME NEW seed \in Seeds
    PROVE  /\ \A p \in Posts : ~Above(seed, p, p)
           /\ \A p, q \in Posts : Above(seed, p, q) => ~Above(seed, q, p)
           /\ \A p, q, r \in Posts : Above(seed, p, q) /\ Above(seed, q, r) => Above(seed, p, r)
<1>1. Posts \subseteq Nat /\ \A p \in Posts : Key[seed][p] \in Nat
  BY PostsAssumption DEF PostsAssumption
<1> QED
  BY <1>1 DEF Above

LEMMA PageConstants ==
    Posts \subseteq Nat \ {0} /\ PostLimit \in Nat \ {0} /\ Start \notin Posts
BY PostsAssumption DEF PostsAssumption, Start

\* A post the reader has scrolled past, for a cursor and a seed.
Passed(seed, cursor, p) == cursor # Start /\ (p = cursor \/ Above(seed, p, cursor))

PagedTyped ==
    /\ listed \subseteq Posts
    /\ session \in [seed : Seeds, cursor : Posts \cup {Start}, shown : Seq(Posts), more : BOOLEAN,
                    steady : SUBSET listed]

\* Until the end, what was shown is above the cursor, and what stayed in the feed is
\* below it or was shown.
CursorDivides ==
    session.more =>
        /\ \A i \in DOMAIN session.shown : Passed(session.seed, session.cursor, session.shown[i])
        /\ \A p \in session.steady : Below(session.seed, session.cursor, p) \/ p \in ShownPosts

PagedInv == PagedTyped /\ CursorDivides /\ PagedOnce /\ PagedAll

LEMMA PagesStart == PostsInit => PagedInv
<1> SUFFICES ASSUME PostsInit PROVE PagedInv
  OBVIOUS
<1>1. PICK seed \in Seeds : session = [seed |-> seed, cursor |-> Start, shown |-> <<>>, more |-> TRUE,
                                     steady |-> listed]
  BY DEF PostsInit
<1>2. << >> \in Seq(Posts) /\ DOMAIN << >> = {}
  OBVIOUS
<1>3. listed \subseteq Posts
  BY DEF PostsInit
<1>4. PagedTyped
  BY <1>1, <1>2, <1>3 DEF PagedTyped
<1>5. CursorDivides /\ PagedOnce /\ PagedAll
  BY <1>1, <1>2 DEF CursorDivides, PagedOnce, PagedAll, Below
<1> QED
  BY <1>4, <1>5 DEF PagedInv

\* What a page read is, and what it leaves out.
LEMMA PageRead ==
    ASSUME NEW seed \in Seeds, NEW cursor, listed \subseteq Posts, NEW limit \in Nat,
           NEW page \in FetchPostsPage(seed, cursor, limit)
    PROVE  /\ page \in Seq(Posts) /\ Len(page) <= limit
           /\ \A i \in 1..Len(page) : page[i] \in listed /\ Below(seed, cursor, page[i])
           /\ \A i, k \in 1..Len(page) : i < k => Above(seed, page[i], page[k])
           /\ \A i, k \in 1..Len(page) : page[i] = page[k] => i = k
           /\ \A p \in listed : Below(seed, cursor, p) =>
                \/ \E i \in 1..Len(page) : page[i] = p
                \/ Len(page) = limit /\ \A i \in 1..Len(page) : Above(seed, page[i], p)
<1> DEFINE rows == {p \in listed : Below(seed, cursor, p)}
<1>1. PICK n \in 0..limit : page \in [1..n -> rows]
  BY DEF FetchPostsPage
<1>2. /\ \A i, k \in DOMAIN page : i < k => Above(seed, page[i], page[k])
      /\ \A p \in rows \ {page[i] : i \in DOMAIN page} :
            Len(page) = limit /\ \A i \in DOMAIN page : Above(seed, page[i], p)
  BY DEF FetchPostsPage
<1>3. page \in Seq(rows)
  <2> HIDE DEF rows
  <2> QED
    BY <1>1, SeqDef
<1>4. DOMAIN page = 1..Len(page) /\ Len(page) = n /\ DOMAIN page = 1..n
  BY <1>1, <1>3, LenProperties
<1>5. page \in Seq(Posts)
  BY <1>3, SeqMonotonic
<1>6. \A i \in 1..Len(page) : page[i] \in rows
  BY <1>1, <1>4
<1>7. ASSUME NEW i \in 1..Len(page), NEW k \in 1..Len(page), page[i] = page[k]
      PROVE  i = k
  <2>1. ~(i < k) /\ ~(k < i)
    BY <1>2, <1>4, <1>6, <1>7, PostsOrdered
  <2> QED
    BY <1>1, <1>4, <2>1
<1> QED
  BY <1>1, <1>2, <1>4, <1>5, <1>6, <1>7

\* One page more.
LEMMA PageShown ==
    ASSUME PagedInv, ListPosts
    PROVE  PagedInv'
<1>1. PICK seed, cursor, old, steady :
        /\ session = [seed |-> seed, cursor |-> cursor, shown |-> old, more |-> TRUE, steady |-> steady]
        /\ seed \in Seeds /\ cursor \in Posts \cup {Start} /\ old \in Seq(Posts) /\ steady \subseteq listed
  BY DEF PagedInv, PagedTyped, ListPosts
<1>2. PICK rows \in FetchPostsPage(seed, cursor, PostLimit + 1) :
        LET more == Len(rows) > PostLimit
            page == IF more THEN SubSeq(rows, 1, PostLimit) ELSE rows
        IN  session' = [session EXCEPT !.shown = @ \o SpreadCountries(page), !.more = more,
                                       !.cursor = IF more THEN PageTail(page) ELSE @]
  BY <1>1 DEF ListPosts
<1>3. PICK more, page : more = (Len(rows) > PostLimit) /\ page = IF more THEN SubSeq(rows, 1, PostLimit) ELSE rows
  OBVIOUS
<1>4. PICK spread, tail : spread = SpreadCountries(page) /\ tail = IF more THEN PageTail(page) ELSE cursor
  OBVIOUS
<1>5. session' = [seed |-> seed, cursor |-> tail, shown |-> old \o spread, more |-> more, steady |-> steady]
  BY <1>1, <1>2, <1>3, <1>4
<1>6. listed \subseteq Posts /\ listed' = listed
  BY DEF PagedInv, PagedTyped, ListPosts
<1>7. /\ rows \in Seq(Posts) /\ Len(rows) <= PostLimit + 1
      /\ \A i \in 1..Len(rows) : rows[i] \in listed /\ Below(seed, cursor, rows[i])
      /\ \A i, k \in 1..Len(rows) : i < k => Above(seed, rows[i], rows[k])
      /\ \A i, k \in 1..Len(rows) : rows[i] = rows[k] => i = k
      /\ \A p \in listed : Below(seed, cursor, p) =>
           \/ \E i \in 1..Len(rows) : rows[i] = p
           \/ Len(rows) = PostLimit + 1 /\ \A i \in 1..Len(rows) : Above(seed, rows[i], p)
  <2>1. PICK limit \in Nat : limit = PostLimit + 1
    BY PageConstants
  <2>2. rows \in FetchPostsPage(seed, cursor, limit)
    BY <2>1
  <2> QED
    BY <1>1, <1>6, <2>1, <2>2, PageRead
<1>8. Len(rows) \in Nat /\ PostLimit \in Nat \ {0} /\ more \in BOOLEAN
  BY <1>3, <1>7, LenProperties, PageConstants
<1>9. /\ page \in Seq(Posts) /\ Len(page) \in Nat /\ Len(page) <= Len(rows)
      /\ \A i \in 1..Len(page) : page[i] = rows[i]
      /\ more => Len(page) = PostLimit /\ Len(rows) = PostLimit + 1
      /\ ~more => page = rows
  <2>1. CASE more
    <3>0. Len(rows) > PostLimit
      BY <1>3, <2>1
    <3>1. Len(rows) = PostLimit + 1 /\ 1..PostLimit \subseteq 1..Len(rows)
      BY <1>7, <1>8, <3>0
    <3>2. \A i \in 1..PostLimit : rows[i] \in Posts
      BY <1>7, <3>1, ElementOfSeq
    <3>3. page = SubSeq(rows, 1, PostLimit) /\ 1 \in Int /\ PostLimit \in Int
      BY <1>3, <1>8, <2>1
    <3>4. /\ page \in Seq(Posts) /\ Len(page) = IF 1 <= PostLimit THEN PostLimit - 1 + 1 ELSE 0
          /\ \A i \in 1..(PostLimit - 1 + 1) : page[i] = rows[1 + i - 1]
      BY <3>2, <3>3, SubSeqProperties
    <3>5. Len(page) = PostLimit /\ \A i \in 1..PostLimit : page[i] = rows[i]
      BY <1>8, <3>4
    <3> QED
      BY <1>8, <2>1, <3>1, <3>4, <3>5
  <2>2. CASE ~more
    BY <1>3, <1>7, <1>8, <2>2
  <2> QED
    BY <2>1, <2>2
<1>10. \A i, k \in 1..Len(page) : page[i] = page[k] => i = k
  BY <1>7, <1>8, <1>9
<1>11. spread \in Shuffles(page)
  BY <1>4, <1>9, <1>10, SpreadShuffles
<1>12. /\ spread \in Seq(Posts) /\ Len(spread) = Len(page)
       /\ \A i \in 1..Len(page) : \E k \in 1..Len(page) : spread[i] = page[k]
       /\ \A i \in 1..Len(page) : \E k \in 1..Len(page) : spread[k] = page[i]
       /\ \A i, k \in 1..Len(page) : spread[i] = spread[k] => i = k
  <2>1. spread \in [1..Len(page) -> Posts]
    BY <1>11 DEF Shuffles
  <2>2. spread \in Seq(Posts)
    BY <1>9, <2>1, SeqDef
  <2>3. Len(spread) = Len(page)
    BY <1>9, <2>1, <2>2, LenProperties
  <2> QED
    BY <1>11, <2>2, <2>3 DEF Shuffles
<1>13. PICK new : new = old \o spread
  OBVIOUS
<1>14. /\ new \in Seq(Posts) /\ Len(old) \in Nat /\ Len(new) = Len(old) + Len(page)
       /\ DOMAIN new = 1..Len(new) /\ DOMAIN old = 1..Len(old)
       /\ \A i \in 1..Len(old) : new[i] = old[i]
       /\ \A i \in 1..Len(page) : new[Len(old) + i] = spread[i]
  <2>1. /\ new \in Seq(Posts) /\ Len(new) = Len(old) + Len(spread) /\ Len(old) \in Nat
        /\ \A i \in 1..(Len(old) + Len(spread)) : new[i] = IF i <= Len(old) THEN old[i] ELSE spread[i - Len(old)]
    BY <1>1, <1>12, <1>13, ConcatProperties, LenProperties
  <2>2. DOMAIN new = 1..Len(new) /\ DOMAIN old = 1..Len(old)
    BY <1>1, <2>1, LenProperties
  <2>3. ASSUME NEW i \in 1..Len(page) PROVE new[Len(old) + i] = spread[i]
    <3>1. PICK j : j = Len(old) + i
      OBVIOUS
    <3>2. j \in 1..(Len(old) + Len(spread)) /\ ~(j <= Len(old)) /\ j - Len(old) = i
      <4>1. Len(page) \in Nat /\ Len(old) \in Nat /\ Len(spread) = Len(page)
        BY <1>9, <1>12, <2>1
      <4> QED
        BY <3>1, <4>1
    <3>3. new[j] = spread[j - Len(old)]
      BY <2>1, <3>2
    <3> QED
      BY <3>1, <3>2, <3>3
  <2>4. ASSUME NEW i \in 1..Len(old) PROVE new[i] = old[i]
    BY <1>9, <1>12, <2>1, <2>4
  <2> QED
    BY <1>12, <2>1, <2>2, <2>3, <2>4
<1>15. \A i \in 1..Len(new) : i \in 1..Len(old) \/ \E k \in 1..Len(page) : i = Len(old) + k
  <2> SUFFICES ASSUME NEW i \in 1..Len(new), i \notin 1..Len(old)
               PROVE  \E k \in 1..Len(page) : i = Len(old) + k
    OBVIOUS
  <2>1. i - Len(old) \in 1..Len(page) /\ i = Len(old) + (i - Len(old))
    BY <1>9, <1>14
  <2> QED
    BY <2>1
<1>16. /\ \A i \in 1..Len(old) : old[i] \in Posts /\ Passed(seed, cursor, old[i])
       /\ \A p \in steady : Below(seed, cursor, p) \/ \E i \in 1..Len(old) : old[i] = p
       /\ \A i, k \in 1..Len(old) : old[i] = old[k] => i = k
  <2>1. \A i \in 1..Len(old) : old[i] \in Posts
    BY <1>1, ElementOfSeq
  <2> QED
    BY <1>1, <1>14, <2>1 DEF PagedInv, CursorDivides, PagedOnce, ShownPosts
<1>17. \A k \in 1..Len(page) : page[k] \in Posts /\ page[k] \in listed /\ Below(seed, cursor, page[k])
  BY <1>6, <1>7, <1>8, <1>9
<1>18. ASSUME NEW i \in 1..Len(old), NEW k \in 1..Len(page) PROVE old[i] # page[k]
  <2>1. cursor # Start /\ cursor \in Posts /\ (old[i] = cursor \/ Above(seed, old[i], cursor))
    BY <1>1, <1>16 DEF Passed
  <2>2. Above(seed, cursor, page[k])
    BY <1>17, <2>1 DEF Below
  <2> QED
    BY <1>1, <1>16, <1>17, <2>1, <2>2, PostsOrdered
<1>19. ASSUME NEW i \in 1..Len(new), NEW j \in 1..Len(new), new[i] = new[j]
       PROVE  i = j
  <2>1. CASE i \in 1..Len(old) /\ j \in 1..Len(old)
    BY <1>14, <1>16, <1>19, <2>1
  <2>2. ASSUME NEW a \in 1..Len(old), NEW b \in 1..Len(page) PROVE new[a] # new[Len(old) + b]
    <3>1. PICK k \in 1..Len(page) : spread[b] = page[k]
      BY <1>12
    <3> QED
      BY <1>14, <1>18, <3>1
  <2>3. CASE i \notin 1..Len(old) /\ j \notin 1..Len(old)
    <3>1. PICK a \in 1..Len(page), b \in 1..Len(page) : i = Len(old) + a /\ j = Len(old) + b
      BY <1>15, <2>3
    <3>2. spread[a] = spread[b]
      BY <1>14, <1>19, <3>1
    <3> QED
      BY <1>12, <3>1, <3>2
  <2> QED
    BY <1>15, <1>19, <2>1, <2>2, <2>3
<1>20. ASSUME NEW p, \E k \in 1..Len(page) : page[k] = p
       PROVE  \E i \in 1..Len(new) : new[i] = p
  <2>1. PICK k \in 1..Len(page) : spread[k] = p
    BY <1>12, <1>20
  <2>2. Len(old) + k \in 1..Len(new) /\ new[Len(old) + k] = p
    BY <1>9, <1>14, <2>1
  <2> QED
    BY <2>2
<1>21. \A p \in steady : Below(seed, cursor, p) \/ \E i \in 1..Len(new) : new[i] = p
  <2>1. \A i \in 1..Len(old) : i \in 1..Len(new)
    BY <1>9, <1>14
  <2> QED
    BY <1>14, <1>16, <2>1
<1>22. CASE ~more
  <2>1. ASSUME NEW p \in steady PROVE \E i \in 1..Len(new) : new[i] = p
    <3>1. Len(rows) # PostLimit + 1
      <4>1. ~(Len(rows) > PostLimit)
        BY <1>3, <1>22
      <4> QED
        BY <1>8, <4>1
    <3>2. Below(seed, cursor, p) => \E k \in 1..Len(page) : page[k] = p
      BY <1>1, <1>7, <1>9, <1>22, <3>1
    <3> QED
      BY <1>20, <1>21, <3>2
  <2>2. PagedTyped'
    BY <1>1, <1>4, <1>5, <1>6, <1>8, <1>13, <1>14, <1>22 DEF PagedTyped
  <2>3. CursorDivides'
    BY <1>5, <1>22 DEF CursorDivides
  <2>4. PagedOnce'
    BY <1>5, <1>13, <1>14, <1>19 DEF PagedOnce
  <2>5. PagedAll'
    BY <1>5, <1>13, <1>14, <2>1 DEF PagedAll, ShownPosts
  <2> QED
    BY <2>2, <2>3, <2>4, <2>5 DEF PagedInv
<1>23. CASE more
  <2>1. /\ tail = page[PostLimit] /\ tail \in Posts /\ tail # Start /\ PostLimit \in 1..Len(page)
        /\ Below(seed, cursor, tail)
    BY <1>4, <1>8, <1>9, <1>17, <1>23, PageConstants DEF PageTail
  <2>2. \A k \in 1..Len(page) : page[k] = tail \/ Above(seed, page[k], tail)
    <3> SUFFICES ASSUME NEW k \in 1..Len(page), k # PostLimit PROVE Above(seed, page[k], tail)
      BY <2>1
    <3>1. k < PostLimit /\ k \in 1..Len(rows) /\ PostLimit \in 1..Len(rows)
      BY <1>8, <1>9, <1>23
    <3> QED
      BY <1>7, <1>9, <2>1, <3>1
  <2>3. ASSUME NEW i \in 1..Len(new) PROVE Passed(seed, tail, new[i])
    <3>1. CASE i \in 1..Len(old)
      <4>1. cursor # Start /\ cursor \in Posts /\ (old[i] = cursor \/ Above(seed, old[i], cursor))
        BY <1>1, <1>16, <3>1 DEF Passed
      <4>2. Above(seed, cursor, tail)
        BY <2>1, <4>1 DEF Below
      <4>3. Above(seed, old[i], tail)
        BY <1>1, <1>16, <2>1, <3>1, <4>1, <4>2, PostsOrdered
      <4> QED
        BY <1>14, <2>1, <3>1, <4>3 DEF Passed
    <3>2. CASE i \notin 1..Len(old)
      <4>1. PICK k \in 1..Len(page) : i = Len(old) + k
        BY <1>15, <3>2
      <4>2. PICK j \in 1..Len(page) : spread[k] = page[j]
        BY <1>12
      <4> QED
        BY <1>14, <2>1, <2>2, <4>1, <4>2 DEF Passed
    <3> QED
      BY <3>1, <3>2
  <2>4. ASSUME NEW p \in steady PROVE Below(seed, tail, p) \/ \E i \in 1..Len(new) : new[i] = p
    <3>1. SUFFICES ASSUME Below(seed, cursor, p) PROVE Below(seed, tail, p) \/ \E i \in 1..Len(new) : new[i] = p
      BY <1>21
    <3>2. PostLimit \in 1..Len(rows) /\ rows[PostLimit] = tail
      BY <1>8, <1>9, <1>23, <2>1
    <3>3. CASE \A i \in 1..Len(rows) : Above(seed, rows[i], p)
      BY <3>2, <3>3 DEF Below
    <3>4. CASE \E i \in 1..Len(rows) : rows[i] = p
      <4>1. PICK i \in 1..Len(rows) : rows[i] = p
        BY <3>4
      <4>2. CASE i \in 1..Len(page)
        BY <1>9, <1>20, <4>1, <4>2
      <4>3. CASE i \notin 1..Len(page)
        <5>1. PostLimit < i
          BY <1>8, <1>9, <1>23, <4>3
        <5>2. Above(seed, tail, p)
          BY <1>7, <3>2, <4>1, <5>1
        <5> QED
          BY <5>2 DEF Below
      <4> QED
        BY <4>2, <4>3
    <3> QED
      BY <1>1, <1>7, <3>1, <3>3, <3>4
  <2>5. PagedTyped'
    BY <1>1, <1>5, <1>6, <1>8, <1>13, <1>14, <2>1 DEF PagedTyped
  <2>6. CursorDivides'
    BY <1>5, <1>13, <1>14, <2>3, <2>4 DEF CursorDivides, ShownPosts
  <2>7. PagedOnce'
    BY <1>5, <1>13, <1>14, <1>19 DEF PagedOnce
  <2>8. PagedAll'
    BY <1>5, <1>23 DEF PagedAll
  <2> QED
    BY <2>5, <2>6, <2>7, <2>8 DEF PagedInv
<1> QED
  BY <1>8, <1>22, <1>23

\* A post that comes or goes is not counted on any more.
LEMMA PostMoved ==
    ASSUME PagedInv, NEW p \in Posts, PostChanges(p)
    PROVE  PagedInv'
<1>1. /\ session' = [session EXCEPT !.steady = @ \ {p}] /\ session.more
      /\ listed' = IF p \in listed THEN listed \ {p} ELSE listed \cup {p}
  BY DEF PostChanges
<1>2. /\ session \in [seed : Seeds, cursor : Posts \cup {Start}, shown : Seq(Posts), more : BOOLEAN,
                      steady : SUBSET listed]
      /\ listed \subseteq Posts
  BY DEF PagedInv, PagedTyped
<1>3. /\ session'.seed = session.seed /\ session'.cursor = session.cursor /\ session'.shown = session.shown
      /\ session'.more = session.more /\ session'.steady = session.steady \ {p}
  BY <1>1, <1>2
<1>4. listed' \subseteq Posts /\ session.steady \ {p} \subseteq listed'
  BY <1>1, <1>2
<1>5. PagedTyped'
  BY <1>1, <1>2, <1>4 DEF PagedTyped
<1>6. CursorDivides' /\ PagedOnce' /\ PagedAll'
  BY <1>1, <1>3 DEF PagedInv, CursorDivides, PagedOnce, PagedAll, ShownPosts
<1> QED
  BY <1>5, <1>6 DEF PagedInv

---------------------------------------------------------------------------
\* The refresh of the festivals.

Refreshes(c) == c.at # "idle" /\ c.who = "refresh"

\* A call has what tells whether it is the refresh, and the guard is up for one.
GuardInv ==
    /\ DOMAIN calls = Slots /\ refreshing \in BOOLEAN
    /\ \A s \in Slots : calls[s].at # "idle" => {"at", "who"} \subseteq DOMAIN calls[s]
    /\ \A s, t \in Slots : Refreshes(calls[s]) /\ Refreshes(calls[t]) => s = t
    /\ refreshing <=> \E s \in Slots : Refreshes(calls[s])

\* A slot whose call goes on, begins or ends, with the guard it leaves.
LEMMA SlotMoves ==
    ASSUME GuardInv, NEW s \in Slots, NEW c, calls' = [calls EXCEPT ![s] = c], refreshing' \in BOOLEAN,
           c.at # "idle" => {"at", "who"} \subseteq DOMAIN c,
           \/ Refreshes(c) = Refreshes(calls[s]) /\ refreshing' = refreshing
           \/ Refreshes(c) /\ ~refreshing /\ refreshing'
           \/ ~Refreshes(c) /\ Refreshes(calls[s]) /\ ~refreshing'
    PROVE  GuardInv'
<1>1. DOMAIN calls' = Slots /\ calls'[s] = c /\ \A t \in Slots \ {s} : calls'[t] = calls[t]
  BY DEF GuardInv
<1> QED
  BY <1>1 DEF GuardInv

LEMMA GuardStart == FestivalInit => GuardInv
<1> SUFFICES ASSUME FestivalInit PROVE GuardInv
  OBVIOUS
<1>1. Idle.at = "idle"
  BY DEF Idle
<1>2. DOMAIN calls = Slots /\ refreshing = FALSE /\ \A s \in Slots : calls[s] = Idle
  BY DEF FestivalInit
<1>3. \A s \in Slots : calls[s].at = "idle"
  BY <1>1, <1>2
<1> QED
  BY <1>2, <1>3 DEF GuardInv, Refreshes

LEMMA CallBegins ==
    ASSUME GuardInv, NEW s \in Slots, Idles(s), NEW cache, NEW who, NEW stale,
           Spawned(s, cache, who, stale),
           \/ who # "refresh" /\ refreshing' = refreshing
           \/ who = "refresh" /\ ~refreshing /\ refreshing' = TRUE
    PROVE  GuardInv'
<1>1. PICK c : c = Fetch(cache, who, stale)
  OBVIOUS
<1>2. c.at = "fetch" /\ c.who = who /\ {"at", "who"} \subseteq DOMAIN c
  BY <1>1 DEF Fetch
<1>3. calls' = [calls EXCEPT ![s] = c] /\ ~Refreshes(calls[s]) /\ refreshing \in BOOLEAN
  BY <1>1 DEF Spawned, Idles, Idle, Refreshes, GuardInv
<1> QED
  BY <1>2, <1>3, SlotMoves DEF Refreshes

LEMMA CallEnds ==
    ASSUME GuardInv, NEW s \in Slots, calls[s].at # "idle", Ended(s),
           \/ Released(calls[s])
           \/ calls[s].who # "refresh" /\ refreshing' = refreshing
    PROVE  GuardInv'
<1>1. calls' = [calls EXCEPT ![s] = Idle] /\ Idle.at = "idle" /\ refreshing \in BOOLEAN
  BY DEF Ended, Idle, GuardInv
<1>2. CASE Refreshes(calls[s])
  BY <1>1, <1>2, SlotMoves DEF Released, Refreshes
<1>3. CASE ~Refreshes(calls[s])
  BY <1>1, <1>3, SlotMoves DEF Released, Refreshes
<1> QED
  BY <1>2, <1>3

LEMMA WaveGoesOn ==
    ASSUME GuardInv, NEW s \in Slots, FetchWave(s)
    PROVE  GuardInv'
<1>1. calls[s].at = "fetch" /\ refreshing' = refreshing /\ {"at", "who"} \subseteq DOMAIN calls[s]
  BY DEF FetchWave, GuardInv
<1>2. PICK c : /\ calls' = [calls EXCEPT ![s] = c] /\ c.at \in {"fetch", "set"} /\ c.who = calls[s].who
               /\ DOMAIN c = DOMAIN calls[s]
  <2>1. PICK items, cards, page :
          \/ calls' = [calls EXCEPT ![s] = [@ EXCEPT !.at = "set", !.items = {}, !.page = 0,
                                                    !.date = day, !.cards = cards]]
          \/ calls' = [calls EXCEPT ![s] = [@ EXCEPT !.items = items, !.page = page]]
    BY DEF FetchWave
  <2>2. CASE calls' = [calls EXCEPT ![s] = [@ EXCEPT !.at = "set", !.items = {}, !.page = 0,
                                                   !.date = day, !.cards = cards]]
    <3>1. PICK c : c = [calls[s] EXCEPT !.at = "set", !.items = {}, !.page = 0, !.date = day, !.cards = cards]
      OBVIOUS
    <3>2. c.at = "set" /\ c.who = calls[s].who /\ DOMAIN c = DOMAIN calls[s]
      BY <1>1, <3>1
    <3>3. calls' = [calls EXCEPT ![s] = c]
      BY <2>2, <3>1
    <3> QED
      BY <3>2, <3>3
  <2>3. CASE calls' = [calls EXCEPT ![s] = [@ EXCEPT !.items = items, !.page = page]]
    <3>1. PICK c : c = [calls[s] EXCEPT !.items = items, !.page = page]
      OBVIOUS
    <3>2. c.at = "fetch" /\ c.who = calls[s].who /\ DOMAIN c = DOMAIN calls[s]
      BY <1>1, <3>1
    <3>3. calls' = [calls EXCEPT ![s] = c]
      BY <2>3, <3>1
    <3> QED
      BY <3>2, <3>3
  <2> QED
    BY <2>1, <2>2, <2>3
<1> QED
  BY <1>1, <1>2, SlotMoves DEF Refreshes, GuardInv

\* The tasks that end with the process take its guard with them.
LEMMA ProcessRestarts ==
    ASSUME GuardInv, Restart
    PROVE  GuardInv'
<1>1. /\ refreshing' = FALSE
      /\ calls' = [s \in Slots |-> IF calls[s].at # "idle" /\ calls[s].who = "warm" THEN calls[s] ELSE Idle]
  BY DEF Restart
<1>2. \A s \in Slots : calls'[s] = Idle \/ (calls'[s] = calls[s] /\ calls[s].who = "warm")
  BY <1>1
<1>3. \A s \in Slots : ~Refreshes(calls'[s])
  BY <1>2 DEF Refreshes, Idle
<1> QED
  BY <1>1, <1>2, <1>3 DEF GuardInv, Idle

LEMMA GuardStep ==
    ASSUME GuardInv, FestivalNext
    PROVE  GuardInv'
<1>1. ASSUME NEW s \in Slots, LoadFestaChannel(s) \/ LoadPool(s) \/ WarmAllChannels(s) \/ \E c \in Caches : ReadFails(s, c)
      PROVE  GuardInv'
  <2>1. CASE \E cache, stale : Spawned(s, cache, "request", stale) /\ refreshing' = refreshing
    BY <1>1, <2>1, CallBegins DEF LoadFestaChannel, LoadPool, WarmAllChannels, ReadFails
  <2>2. CASE SpawnRefresh(s)
    BY <1>1, <2>2, CallBegins DEF SpawnRefresh, LoadFestaChannel, LoadPool, WarmAllChannels, ReadFails
  <2>3. CASE WarmAllChannels(s)
    BY <2>3, CallBegins DEF WarmAllChannels
  <2>4. CASE UNCHANGED <<calls, refreshing>>
    BY <2>4 DEF GuardInv
  <2> QED
    BY <1>1, <2>1, <2>2, <2>3, <2>4 DEF LoadFestaChannel, LoadPool, ReadFails
<1>2. ASSUME NEW s \in Slots, Store(s) \/ StoreFails(s) \/ FetchFails(s) \/ CancelFesta(s)
      PROVE  GuardInv'
  BY <1>2, CallEnds DEF Store, StoreFails, FetchFails, CancelFesta
<1>3. CASE (\E c \in Caches : ExpireList(c)) \/ NewDay
  BY <1>3 DEF ExpireList, NewDay, GuardInv
<1> QED
  BY <1>1, <1>2, <1>3, WaveGoesOn, ProcessRestarts DEF FestivalNext

\* The guard counts the refreshes.
LEMMA GuardCounts == GuardInv => OneRefresh
<1> SUFFICES ASSUME GuardInv PROVE OneRefresh
  OBVIOUS
<1> DEFINE S == {s \in Slots : Refreshes(calls[s])}
<1>1. CASE refreshing
  <2>1. PICK s \in Slots : Refreshes(calls[s])
    BY <1>1 DEF GuardInv
  <2>2. S = {s}
    BY <2>1 DEF GuardInv
  <2>3. Cardinality(S) = 1
    BY <2>2, FS_Singleton
  <2> QED
    BY <1>1, <2>3 DEF OneRefresh, Refreshes
<1>2. CASE ~refreshing
  <2>1. S = {}
    BY <1>2 DEF GuardInv
  <2>2. Cardinality(S) = 0
    BY <2>1, FS_EmptySet
  <2> QED
    BY <1>2, <2>2 DEF OneRefresh, Refreshes
<1> QED
  BY <1>1, <1>2

---------------------------------------------------------------------------
\* The lists of festivals.

Places == Int \X Int
Rows == [place : Places, id : Festivals]
CardRows == [id : Festivals, left : Int, place : Places]
FestivalCard == [id : Festivals, left : Int]

\* Rows of a fetch or of a list, each with a place of its own.
Placed(rows) == IsFiniteSet(rows) /\ \A q, r \in rows : q.place = r.place => q = r

\* The cards of a list, one for each of the rows and of nothing else.
CardsAreOf(cards, rows, nth) ==
    /\ cards \in Seq(FestivalCard) /\ DOMAIN cards = 1..Len(cards)
    /\ nth \in [DOMAIN cards -> rows]
    /\ \A m, n \in DOMAIN cards : nth[m] = nth[n] => m = n
    /\ \A n \in DOMAIN cards : cards[n].id = nth[n].id /\ cards[n].left = nth[n].left

\* The sort is a permutation: a row is counted by those ahead of it, no two by as many.
LEMMA SortedCards ==
    ASSUME NEW rows \in SUBSET CardRows, Placed(rows)
    PROVE  \E nth : CardsAreOf(Sorted(rows), rows, nth)
<1> DEFINE N == Cardinality(rows)
           rank == [r \in rows |-> Cardinality(Ahead(rows, r))]
<1>1. IsFiniteSet(rows) /\ N \in Nat
  BY FS_CardinalityType DEF Placed
<1>2. \A r \in rows : r.left \in Int /\ r.place[1] \in Int /\ r.place[2] \in Int
                      /\ r.place = <<r.place[1], r.place[2]>>
  BY DEF CardRows, Places
<1>3. ASSUME NEW r \in rows
      PROVE  /\ IsFiniteSet(Ahead(rows, r)) /\ Ahead(rows, r) \subseteq rows \ {r}
             /\ Cardinality(Ahead(rows, r)) \in 0..(N - 1)
  <2>1. Ahead(rows, r) \subseteq rows \ {r}
    BY <1>2 DEF Ahead, Before
  <2>2. IsFiniteSet(rows \ {r}) /\ Cardinality(rows \ {r}) = N - 1
    BY <1>1, FS_RemoveElement
  <2>3. IsFiniteSet(Ahead(rows, r)) /\ Cardinality(Ahead(rows, r)) <= N - 1
    BY <2>1, <2>2, FS_Subset
  <2>4. Cardinality(Ahead(rows, r)) \in Nat
    BY <2>3, FS_CardinalityType
  <2> QED
    BY <1>1, <2>1, <2>3, <2>4
<1>4. ASSUME NEW q \in rows, NEW r \in rows, q \in Ahead(rows, r)
      PROVE  Cardinality(Ahead(rows, q)) # Cardinality(Ahead(rows, r))
  <2>1. Ahead(rows, q) \subseteq Ahead(rows, r)
    BY <1>2, <1>4 DEF Ahead, Before
  <2>2. q \notin Ahead(rows, q)
    BY <1>3
  <2>3. Ahead(rows, q) # Ahead(rows, r)
    BY <1>4, <2>2
  <2> QED
    BY <1>3, <2>1, <2>3, FS_Subset
<1>5. ASSUME NEW q \in rows, NEW r \in rows, q # r
      PROVE  q \in Ahead(rows, r) \/ r \in Ahead(rows, q)
  <2>1. q.place # r.place
    BY <1>5 DEF Placed
  <2>2. q.place[1] # r.place[1] \/ q.place[2] # r.place[2]
    BY <1>2, <2>1
  <2> QED
    BY <1>2, <2>2 DEF Ahead, Before
<1>6. rank \in Injection(rows, 0..(N - 1))
  <2>1. rank \in [rows -> 0..(N - 1)]
    BY <1>3
  <2>2. \A q, r \in rows : rank[q] = rank[r] => q = r
    BY <1>4, <1>5
  <2> QED
    BY <2>1, <2>2 DEF Injection, IsInjective
<1>7. IsFiniteSet(0..(N - 1)) /\ Cardinality(0..(N - 1)) = N
  BY <1>1, FS_Interval
<1>8. rank \in Surjection(rows, 0..(N - 1))
  <2> HIDE DEF rank
  <2> QED
    BY <1>6, <1>7, FS_Injection
<1>9. \A n \in 1..N : \E r \in rows : Cardinality(Ahead(rows, r)) = n - 1
  <2>1. \A k \in 0..(N - 1) : \E r \in rows : rank[r] = k
    BY <1>8 DEF Surjection
  <2>2. \A n \in 1..N : n - 1 \in 0..(N - 1)
    BY <1>1
  <2>3. \A k \in 0..(N - 1) : \E r \in rows : Cardinality(Ahead(rows, r)) = k
    BY <2>1
  <2> HIDE DEF rank, N
  <2> QED
    BY <2>2, <2>3
<1> DEFINE nth == [n \in 1..N |-> CHOOSE r \in rows : Cardinality(Ahead(rows, r)) = n - 1]
<1>10. \A n \in 1..N : nth[n] \in rows /\ Cardinality(Ahead(rows, nth[n])) = n - 1
  BY <1>9
<1>11. Sorted(rows) = [n \in 1..N |-> [id |-> nth[n].id, left |-> nth[n].left]]
  BY DEF Sorted
<1> HIDE DEF nth, N
<1>12. \A n \in 1..N : nth[n].id \in Festivals /\ nth[n].left \in Int
  BY <1>10 DEF CardRows
<1>13. Sorted(rows) \in Seq(FestivalCard) /\ Len(Sorted(rows)) = N /\ DOMAIN Sorted(rows) = 1..N
  <2>1. Sorted(rows) \in [1..N -> FestivalCard]
    BY <1>11, <1>12 DEF FestivalCard
  <2>2. Sorted(rows) \in Seq(FestivalCard)
    BY <1>1, <2>1, SeqDef
  <2> QED
    BY <1>1, <2>1, <2>2, LenProperties
<1>14. nth \in [1..N -> rows]
  BY <1>10 DEF nth
<1>15. \A m, n \in 1..N : nth[m] = nth[n] => m = n
  BY <1>1, <1>10
<1>16. CardsAreOf(Sorted(rows), rows, nth)
  <2>1. PICK cards : cards = Sorted(rows)
    OBVIOUS
  <2>2. cards \in Seq(FestivalCard) /\ DOMAIN cards = 1..Len(cards) /\ DOMAIN cards = 1..N
    BY <1>13, <2>1
  <2>3. \A n \in 1..N : cards[n] = [id |-> nth[n].id, left |-> nth[n].left]
    BY <1>11, <2>1
  <2>4. ASSUME NEW n \in 1..N PROVE cards[n].id = nth[n].id /\ cards[n].left = nth[n].left
    <3>1. cards[n] = [id |-> nth[n].id, left |-> nth[n].left]
      BY <2>3
    <3> QED
      BY ONLY <3>1
  <2> QED
    BY <1>14, <1>15, <2>1, <2>2, <2>4 DEF CardsAreOf
<1> QED
  BY <1>16

\* A list made for the day d: the days left are counted from it, no festival has
\* ended, and each is there once.
MadeFor(cards, d) ==
    /\ cards \in Seq(FestivalCard)
    /\ \A i \in DOMAIN cards : cards[i].left = Ends[cards[i].id] - d /\ cards[i].left >= 0
    /\ \A i, j \in DOMAIN cards : cards[i].id = cards[j].id => i = j

LEMMA MadeOfRows ==
    ASSUME NEW d \in Int, NEW rows \in SUBSET CardRows, Placed(rows),
           \A r \in rows : r.left = Ends[r.id] - d /\ r.left >= 0,
           \A q, r \in rows : q.id = r.id => q = r
    PROVE  MadeFor(Sorted(rows), d)
<1>1. PICK cards, nth : cards = Sorted(rows) /\ CardsAreOf(cards, rows, nth)
  BY SortedCards
<1> QED
  BY <1>1 DEF CardsAreOf, MadeFor

LEMMA MadeFirst ==
    ASSUME NEW d \in Int, NEW cards, MadeFor(cards, d), NEW n \in Nat, n <= Len(cards)
    PROVE  MadeFor(SubSeq(cards, 1, n), d)
<1>1. cards \in Seq(FestivalCard) /\ Len(cards) \in Nat /\ DOMAIN cards = 1..Len(cards)
  BY LenProperties DEF MadeFor
<1>2. PICK first : first = SubSeq(cards, 1, n)
  OBVIOUS
<1>3. first \in Seq(FestivalCard) /\ Len(first) = n /\ \A i \in 1..n : first[i] = cards[i]
  BY <1>1, <1>2, SubSeqProperties
<1>4. DOMAIN first = 1..n /\ 1..n \subseteq DOMAIN cards
  BY <1>1, <1>3, LenProperties
<1> QED
  BY <1>2, <1>3, <1>4 DEF MadeFor

LEMMA CardsMade ==
    ASSUME NEW cache \in Caches, NEW items \in SUBSET Rows, Placed(items), NEW d \in Int
    PROVE  MadeFor(CardsOf(cache, items, d), d)
<1> DEFINE rows == Running(items, d)
           new == {r \in rows : ~\E q \in rows : q.id = r.id /\ Before(q.place, r.place)}
           made == {[id |-> r.id, left |-> Ends[r.id] - d, place |-> r.place] : r \in new}
<1>1. new \in SUBSET items /\ IsFiniteSet(new)
  <2>1. new \in SUBSET items
    BY DEF Running
  <2> QED
    BY <2>1, FS_Subset DEF Placed
<1>2. \A r \in new : r.id \in Festivals /\ r.place \in Places /\ Ends[r.id] \in Int /\ d <= Ends[r.id]
  BY <1>1, FestivalAssumption DEF Rows, Running, FestivalAssumption
<1>3. \A q, r \in new : q.id = r.id => q = r
  <2> SUFFICES ASSUME NEW q \in new, NEW r \in new, q.id = r.id PROVE q = r
    OBVIOUS
  <2>1. q \in rows /\ r \in rows /\ ~Before(q.place, r.place) /\ ~Before(r.place, q.place)
    OBVIOUS
  <2>2. q.place \in Int \X Int /\ r.place \in Int \X Int
    BY <1>2 DEF Places
  <2>3. q.place = r.place
    BY <2>1, <2>2 DEF Before
  <2> QED
    BY <1>1, <2>3 DEF Placed
<1>4. made \in SUBSET CardRows
  <2> HIDE DEF new
  <2> QED
    BY <1>2 DEF CardRows
<1>5. IsFiniteSet(made)
  <2> DEFINE f == [r \in new |-> [id |-> r.id, left |-> Ends[r.id] - d, place |-> r.place]]
  <2> HIDE DEF new
  <2>1. f \in Surjection(new, made)
    BY DEF Surjection
  <2> QED
    BY <1>1, <2>1, FS_Surjection
<1>6. \A m \in made : \E r \in new : m.id = r.id /\ m.place = r.place /\ m.left = Ends[r.id] - d
  <2> HIDE DEF new
  <2> QED
    OBVIOUS
<1>7. \A q, r \in made : q.id = r.id \/ q.place = r.place => q = r
  <2>1. \A q, r \in new : q.place = r.place => q = r
    BY <1>1 DEF Placed
  <2> HIDE DEF new
  <2> QED
    BY <1>3, <2>1
<1>8. \A r \in made : r.left = Ends[r.id] - d /\ r.left >= 0
  BY <1>2, <1>6
<1>9. FestivalCards(items, d) = Sorted(made)
  BY DEF FestivalCards
<1>10. MadeFor(Sorted(made), d)
  <2> HIDE DEF made
  <2> QED
    BY <1>4, <1>5, <1>7, <1>8, MadeOfRows DEF Placed
<1>11. PICK cards : cards = FestivalCards(items, d)
  OBVIOUS
<1>12. MadeFor(cards, d) /\ Len(cards) \in Nat
  BY <1>9, <1>10, <1>11, LenProperties DEF MadeFor
<1>13. CASE cache = "festa" /\ FestaCards <= Len(cards)
  <2>1. CardsOf(cache, items, d) = SubSeq(cards, 1, FestaCards)
    BY <1>11, <1>12, <1>13, FestivalAssumption DEF CardsOf, FestivalAssumption
  <2> QED
    BY <1>12, <1>13, <2>1, MadeFirst, FestivalAssumption DEF FestivalAssumption
<1>14. CASE cache = "festa" /\ ~(FestaCards <= Len(cards))
  <2>1. CardsOf(cache, items, d) = SubSeq(cards, 1, Len(cards))
    BY <1>11, <1>12, <1>14, FestivalAssumption DEF CardsOf, FestivalAssumption
  <2> QED
    BY <1>12, <2>1, MadeFirst
<1>15. CASE cache # "festa"
  BY <1>11, <1>12, <1>15 DEF CardsOf
<1> QED
  BY <1>13, <1>14, <1>15

\* A list kept with a date is of that day or of the day before: it may have been
\* fetched over midnight.
ListOk(cards, date) == \E d \in {date - 1, date} : MadeFor(cards, d)

LEMMA ListRevalidated ==
    ASSUME NEW doc, doc.date \in Int, ListOk(doc.cards, doc.date), NEW today \in Int
    PROVE  ListOk(Revalidated(doc, today), today)
<1>1. PICK d \in {doc.date - 1, doc.date} : MadeFor(doc.cards, d)
  BY DEF ListOk
<1>2. PICK cards, later : cards = doc.cards /\ later = today - doc.date
  OBVIOUS
<1>3. MadeFor(cards, d) /\ d \in Int /\ later \in Int /\ d + later \in {today - 1, today}
  BY <1>1, <1>2
<1>4. cards \in Seq(FestivalCard) /\ Len(cards) \in Nat /\ DOMAIN cards = 1..Len(cards)
  BY <1>3, LenProperties DEF MadeFor
<1> DEFINE running == {i \in DOMAIN cards : cards[i].left >= later}
           made == {[id |-> cards[i].id, left |-> cards[i].left - later, place |-> <<0, i>>] : i \in running}
<1>5. IsFiniteSet(running) /\ running \subseteq 1..Len(cards)
  <2>1. running \in SUBSET (1..Len(cards)) /\ IsFiniteSet(1..Len(cards))
    BY <1>4, FS_Interval
  <2> QED
    BY <2>1, FS_Subset
<1>6. \A i \in running : /\ cards[i].id \in Festivals /\ Ends[cards[i].id] \in Int
                         /\ cards[i].left = Ends[cards[i].id] - d /\ cards[i].left >= later /\ i \in Int
  <2> SUFFICES ASSUME NEW i \in running
               PROVE  /\ cards[i].id \in Festivals /\ Ends[cards[i].id] \in Int
                      /\ cards[i].left = Ends[cards[i].id] - d /\ cards[i].left >= later /\ i \in Int
    OBVIOUS
  <2>1. i \in 1..Len(cards) /\ i \in DOMAIN cards /\ cards[i].left >= later
    BY <1>4
  <2>2. cards[i] \in FestivalCard
    BY <1>4, <2>1, ElementOfSeq
  <2>3. Ends[cards[i].id] \in Int
    BY <2>2, FestivalAssumption DEF FestivalCard, FestivalAssumption
  <2> QED
    BY <1>3, <2>1, <2>2, <2>3 DEF FestivalCard, MadeFor
<1>7. \A i, j \in running : cards[i].id = cards[j].id => i = j
  BY <1>3 DEF MadeFor
<1> HIDE DEF running
<1>8. made \in SUBSET CardRows
  BY <1>3, <1>6 DEF CardRows, Places
<1>9. IsFiniteSet(made)
  <2> DEFINE f == [i \in running |-> [id |-> cards[i].id, left |-> cards[i].left - later, place |-> <<0, i>>]]
  <2>1. f \in Surjection(running, made)
    BY DEF Surjection
  <2> QED
    BY <1>5, <2>1, FS_Surjection
<1>10. \A m \in made : \E i \in running : m.id = cards[i].id /\ m.place = <<0, i>> /\ m.left = cards[i].left - later
                                          /\ m = [id |-> cards[i].id, left |-> cards[i].left - later, place |-> <<0, i>>]
  OBVIOUS
<1>11. \A q, r \in made : q.id = r.id \/ q.place = r.place => q = r
  BY <1>7, <1>10
<1>12. \A r \in made : r.left = Ends[r.id] - (d + later) /\ r.left >= 0
  BY <1>3, <1>6, <1>10
<1>13. Revalidated(doc, today) = Sorted(made)
  BY <1>2 DEF Revalidated, running
<1>14. MadeFor(Sorted(made), d + later)
  <2> HIDE DEF made
  <2> QED
    BY <1>3, <1>8, <1>9, <1>11, <1>12, MadeOfRows DEF Placed
<1> QED
  BY <1>3, <1>13, <1>14 DEF ListOk

---------------------------------------------------------------------------
\* The rows of a fetch.

\* What the pages before page p brought.
FoundOk(items, p) ==
    /\ items \subseteq Rows /\ Placed(items) /\ p \in Nat
    /\ \A r \in items : r.place[1] < p

LEMMA OnePage ==
    ASSUME NEW listing \in Listings, NEW first \in Int, NEW p \in Int
    PROVE  /\ Page(listing, first, p) \subseteq Rows /\ Placed(Page(listing, first, p))
           /\ \A r \in Page(listing, first, p) : r.place[1] = p
<1> DEFINE shown == {i \in DOMAIN listing : Begins[listing[i]] >= first}
           row(i) == Cardinality({j \in shown : j <= i})
           I == {j \in shown : (p - 1) * PageRows < row(j) /\ row(j) <= p * PageRows}
           rows == {[place |-> <<p, i>>, id |-> listing[i]] : i \in I}
<1>1. listing \in Seq(Festivals) /\ Len(listing) \in Nat /\ DOMAIN listing = 1..Len(listing)
  BY FestivalAssumption, LenProperties DEF FestivalAssumption
<1>2. I \in SUBSET (1..Len(listing))
  BY <1>1
<1>3. IsFiniteSet(I)
  <2>1. IsFiniteSet(1..Len(listing))
    BY <1>1, FS_Interval
  <2> HIDE DEF I
  <2> QED
    BY <1>2, <2>1, FS_Subset
<1>4. \A i \in I : i \in Int /\ listing[i] \in Festivals
  BY <1>1, <1>2, ElementOfSeq
<1>5. Page(listing, first, p) = rows
  BY DEF Page
<1> HIDE DEF I
<1>6. rows \subseteq Rows /\ \A r \in rows : r.place[1] = p
  BY <1>4 DEF Rows, Places
<1>7. \A q, r \in rows : q.place = r.place => q = r
  OBVIOUS
<1>8. IsFiniteSet(rows)
  <2> DEFINE f == [i \in I |-> [place |-> <<p, i>>, id |-> listing[i]]]
  <2>1. f \in Surjection(I, rows)
    BY DEF Surjection
  <2> QED
    BY <1>3, <2>1, FS_Surjection
<1> HIDE DEF rows
<1> QED
  BY <1>5, <1>6, <1>7, <1>8 DEF Placed

\* A gather of the pages from p up to m.
LEMMA GatherFound ==
    ASSUME NEW items, NEW p, FoundOk(items, p), NEW m \in Int, NEW c, c.from - Window[c.cache] \in Int,
           NEW pages, pages = p..m, NEW asked \in [pages -> Listings]
    PROVE  FoundOk(items \cup Gathered(c, asked), p + Cardinality(pages))
<1> DEFINE got == [n \in pages |-> PageOf(c, asked, n)]
           more == UNION {got[n] : n \in pages}
<1>1. p \in Nat /\ items \subseteq Rows /\ Placed(items) /\ \A r \in items : r.place[1] < p
  BY DEF FoundOk
<1>2. \A n \in pages : /\ n \in Int /\ got[n] \subseteq Rows /\ Placed(got[n])
                      /\ \A r \in got[n] : r.place[1] = n
  <2> SUFFICES ASSUME NEW n \in pages
               PROVE  /\ n \in Int /\ got[n] \subseteq Rows /\ Placed(got[n])
                      /\ \A r \in got[n] : r.place[1] = n
    OBVIOUS
  <2>1. n \in Int /\ asked[n] \in Listings /\ got[n] = Page(asked[n], c.from - Window[c.cache], n)
    BY <1>1 DEF PageOf
  <2> QED
    BY <2>1, OnePage
<1>3. pages = p..m /\ IsFiniteSet(pages) /\ Cardinality(pages) = IF p > m THEN 0 ELSE m - p + 1
  BY <1>1, FS_Interval
<1>4. IsFiniteSet(more)
  <2> DEFINE sets == {got[n] : n \in pages}
             f == [n \in pages |-> got[n]]
  <2>1. f \in Surjection(pages, sets)
    BY DEF Surjection
  <2>2. IsFiniteSet(sets)
    BY <1>3, <2>1, FS_Surjection
  <2>3. \A T \in sets : IsFiniteSet(T)
    BY <1>2 DEF Placed
  <2> HIDE DEF sets
  <2>4. IsFiniteSet(UNION sets)
    BY <2>2, <2>3, FS_UNION
  <2> QED
    BY <2>4 DEF sets
<1>5. \A r \in more : \E n \in pages : r \in got[n] /\ r.place[1] = n
  BY <1>2
<1>6. more \subseteq Rows /\ \A q, r \in more : q.place = r.place => q = r
  BY <1>2, <1>5 DEF Placed
<1>7. \A r \in more : p <= r.place[1] /\ r.place[1] < p + Cardinality(pages)
  BY <1>1, <1>3, <1>5
<1> HIDE DEF more, got
<1>8. IsFiniteSet(items \cup more)
  BY <1>1, <1>4, FS_Union DEF Placed
<1>9. \A q, r \in items \cup more : q.place = r.place => q = r
  <2>1. \A q \in items : \A r \in more : q.place[1] \in Int /\ r.place[1] \in Int /\ q.place[1] < r.place[1]
    BY <1>1, <1>6, <1>7 DEF Rows, Places
  <2>2. \A q \in items : \A r \in more : q.place # r.place
    BY <2>1
  <2> QED
    BY <1>1, <1>6, <2>2 DEF Placed
<1>10. \A r \in items \cup more : r.place[1] < p + Cardinality(pages)
  <2>1. \A r \in items : r.place[1] \in Int
    BY <1>1 DEF Rows, Places
  <2> QED
    BY <1>1, <1>3, <1>7, <2>1
<1>11. Gathered(c, asked) = more
  BY DEF Gathered, more, got
<1>12. FoundOk(items \cup more, p + Cardinality(pages))
  BY <1>1, <1>3, <1>6, <1>8, <1>9, <1>10 DEF FoundOk, Placed
<1> QED
  BY <1>11, <1>12

---------------------------------------------------------------------------
\* What is kept of the festivals, what a call holds and what is served.

StoredOk(doc, cache, today) ==
    doc # NoList =>
        /\ doc.date \in Int /\ doc.date <= today /\ today <= doc.date + Ttl[cache]
        /\ ListOk(doc.cards, doc.date)

CallOk(c, today) ==
    c.at # "idle" =>
        /\ DOMAIN c = {"at", "cache", "who", "from", "page", "items", "stale", "cards", "date"}
        /\ c.at \in {"fetch", "set"} /\ c.cache \in Caches
        /\ c.from \in {today - 1, today} /\ ListOk(c.stale, c.from)
        /\ c.at = "fetch" => FoundOk(c.items, c.page)
        /\ c.at = "set" => MadeFor(c.cards, c.from) /\ c.date \in {c.from, c.from + 1} /\ c.date <= today

ServedOk(list) ==
    list # NoList =>
        \E d \in Int : /\ MadeFor(list.cards, d) /\ list.began \in Int
                       /\ d >= list.began - FestaTtl - 1
                       /\ list.cache = "pool" => d \in {list.began - 1, list.began}

ListsInv ==
    /\ day \in Nat /\ DOMAIN stored = Caches /\ DOMAIN calls = Slots
    /\ \A c \in Caches : StoredOk(stored[c], c, day)
    /\ \A s \in Slots : CallOk(calls[s], day)
    /\ ServedOk(served)

LEMMA ListsCurrent == ListsInv => PoolIsOfToday /\ FestaIsRecent /\ ListedOnce
<1> SUFFICES ASSUME ListsInv, served # NoList PROVE PoolIsOfToday /\ FestaIsRecent /\ ListedOnce
  BY DEF PoolIsOfToday, FestaIsRecent, ListedOnce
<1>1. PICK d \in Int : /\ MadeFor(served.cards, d) /\ served.began \in Int
                       /\ d >= served.began - FestaTtl - 1
                       /\ served.cache = "pool" => d \in {served.began - 1, served.began}
  BY DEF ListsInv, ServedOk
<1>2. PICK cards, began : cards = served.cards /\ began = served.began
  OBVIOUS
<1>3. ASSUME NEW i \in DOMAIN cards
      PROVE  /\ Ends[cards[i].id] \in Int /\ cards[i].left \in Int
             /\ cards[i].left = Ends[cards[i].id] - d /\ cards[i].left >= 0
  <2>1. MadeFor(cards, d)
    BY <1>1, <1>2
  <2>2. cards[i] \in FestivalCard
    BY <2>1, LenProperties, ElementOfSeq DEF MadeFor
  <2> QED
    BY <2>1, <2>2, FestivalAssumption DEF MadeFor, FestivalCard, FestivalAssumption
<1>4. FestaTtl \in Nat
  BY FestivalAssumption DEF FestivalAssumption
<1>5. PoolIsOfToday
  <2>1. served.cache = "pool" => \A i \in DOMAIN cards :
           Ends[cards[i].id] >= began - 1 /\ cards[i].left - (Ends[cards[i].id] - began) \in {0, 1}
    BY <1>1, <1>2, <1>3
  <2> QED
    BY <1>2, <2>1 DEF PoolIsOfToday
<1>6. FestaIsRecent
  <2>1. \A i \in DOMAIN cards : Ends[cards[i].id] >= began - FestaTtl - 1
    BY <1>1, <1>2, <1>3, <1>4
  <2> QED
    BY <1>2, <2>1 DEF FestaIsRecent
<1>7. ListedOnce
  BY <1>1 DEF MadeFor, ListedOnce
<1> QED
  BY <1>5, <1>6, <1>7

---------------------------------------------------------------------------
\* The steps.

LEMMA CallsMove ==
    ASSUME ListsInv, NEW s \in Slots, NEW c, CallOk(c, day), calls' = [calls EXCEPT ![s] = c]
    PROVE  DOMAIN calls' = Slots /\ \A t \in Slots : CallOk(calls'[t], day)
<1>1. DOMAIN calls' = Slots /\ calls'[s] = c /\ \A t \in Slots \ {s} : calls'[t] = calls[t]
  BY DEF ListsInv
<1> QED
  BY <1>1 DEF ListsInv

LEMMA EmptyList == \A d \in Int : ListOk(<< >>, d)
<1>1. \A d \in Int : MadeFor(<< >>, d)
  BY EmptySeq DEF MadeFor
<1> QED
  BY <1>1 DEF ListOk

LEMMA IdleOk == CallOk(Idle, day)
BY DEF CallOk, Idle

LEMMA ListServed ==
    ASSUME NEW cache \in Caches, NEW began \in Int, NEW cards, NEW d \in Int, MadeFor(cards, d),
           d >= began - FestaTtl - 1, cache = "pool" => d \in {began - 1, began}, NEW list,
           list = [cache |-> cache, began |-> began, cards |-> cards]
    PROVE  ServedOk(list)
<1>1. list.cache = cache /\ list.began = began /\ list.cards = cards
  OBVIOUS
<1> QED
  BY <1>1 DEF ServedOk

\* What a call answers: its own list or the one it fell back on.
LEMMA CallAnswers ==
    ASSUME ListsInv, NEW s \in Slots, calls[s].at # "idle", NEW cards, ListOk(cards, calls[s].from),
           Answers(calls[s], cards)
    PROVE  ServedOk(served')
<1>1. PICK c : c = calls[s]
  OBVIOUS
<1>2. c.cache \in Caches /\ c.from \in Int /\ FestaTtl \in Nat
  <2>1. CallOk(c, day) /\ c.at # "idle" /\ day \in Nat
    BY <1>1 DEF ListsInv
  <2>2. FestaTtl \in Nat
    BY FestivalAssumption DEF FestivalAssumption
  <2> QED
    BY <2>1, <2>2 DEF CallOk
<1>3. PICK d \in {c.from - 1, c.from} : MadeFor(cards, d)
  BY <1>1 DEF ListOk
<1>4. served' = NoList \/ served' = [cache |-> c.cache, began |-> c.from, cards |-> cards]
  BY <1>1 DEF Answers, Serve
<1>5. d \in Int /\ d >= c.from - FestaTtl - 1
  BY <1>2, <1>3
<1>6. CASE served' = NoList
  BY <1>6 DEF ServedOk
<1>7. CASE served' = [cache |-> c.cache, began |-> c.from, cards |-> cards]
  BY <1>2, <1>3, <1>5, <1>7, ListServed
<1> QED
  BY <1>4, <1>6, <1>7

\* A call begins.
LEMMA FetchOk ==
    ASSUME ListsInv, NEW cache \in Caches, NEW who, NEW stale, ListOk(stale, day)
    PROVE  CallOk(Fetch(cache, who, stale), day)
<1>1. PICK c : c = Fetch(cache, who, stale)
  OBVIOUS
<1>2. /\ DOMAIN c = {"at", "cache", "who", "from", "page", "items", "stale", "cards", "date"}
      /\ c.at = "fetch" /\ c.cache = cache /\ c.from = day /\ c.page = 1
  BY <1>1 DEF Fetch
<1>3. c.items = {} /\ c.stale = stale
  BY <1>1 DEF Fetch
<1>4. FoundOk({}, 1)
  BY FS_EmptySet DEF FoundOk, Placed
<1> QED
  BY <1>1, <1>2, <1>3, <1>4 DEF CallOk

LEMMA CallSpawned ==
    ASSUME ListsInv, NEW s \in Slots, NEW cache \in Caches, NEW who, NEW stale, ListOk(stale, day),
           Spawned(s, cache, who, stale), UNCHANGED <<day, stored>>, ServedOk(served')
    PROVE  ListsInv'
<1>1. PICK c : c = Fetch(cache, who, stale)
  OBVIOUS
<1>2. CallOk(c, day) /\ calls' = [calls EXCEPT ![s] = c]
  BY <1>1, FetchOk DEF Spawned
<1>3. DOMAIN calls' = Slots /\ \A t \in Slots : CallOk(calls'[t], day)
  BY <1>2, CallsMove
<1> QED
  BY <1>3 DEF ListsInv

\* A call ends, and leaves a list or not.
LEMMA CallOver ==
    ASSUME ListsInv, NEW s \in Slots, Ended(s), day' = day, ServedOk(served'),
           \/ stored' = stored
           \/ \E c \in Caches : \E doc : stored' = [stored EXCEPT ![c] = doc] /\ StoredOk(doc, c, day)
    PROVE  ListsInv'
<1>1. DOMAIN calls' = Slots /\ \A t \in Slots : CallOk(calls'[t], day)
  BY CallsMove, IdleOk DEF Ended
<1>2. DOMAIN stored' = Caches /\ \A c \in Caches : StoredOk(stored'[c], c, day)
  <2>1. CASE stored' = stored
    BY <2>1 DEF ListsInv
  <2>2. ASSUME NEW c \in Caches, NEW doc, stored' = [stored EXCEPT ![c] = doc], StoredOk(doc, c, day)
        PROVE  DOMAIN stored' = Caches /\ \A k \in Caches : StoredOk(stored'[k], k, day)
    <3>1. DOMAIN stored' = Caches /\ stored'[c] = doc /\ \A k \in Caches \ {c} : stored'[k] = stored[k]
      BY <2>2 DEF ListsInv
    <3> QED
      BY <2>2, <3>1 DEF ListsInv
  <2> QED
    BY <2>1, <2>2
<1> QED
  BY <1>1, <1>2 DEF ListsInv

LEMMA FestaLoaded == ASSUME ListsInv, NEW s \in Slots, LoadFestaChannel(s) PROVE ListsInv'
<1>1. UNCHANGED <<day, stored>> /\ day \in Int /\ "festa" \in Caches
  BY DEF LoadFestaChannel, ListsInv, Caches
<1>2. CASE stored["festa"] = NoList
  <2>1. Spawned(s, "festa", "request", <<>>) /\ served' = NoList
    BY <1>2 DEF LoadFestaChannel
  <2>2. ServedOk(served')
    BY <2>1 DEF ServedOk
  <2> QED
    BY <1>1, <2>1, <2>2, CallSpawned, EmptyList
<1>3. CASE stored["festa"] # NoList
  <2>1. PICK cards, date : cards = stored["festa"].cards /\ date = stored["festa"].date
    OBVIOUS
  <2>2. served' = [cache |-> "festa", began |-> day, cards |-> cards]
    BY <1>3, <2>1 DEF LoadFestaChannel, Serve
  <2>3. date \in Int /\ day <= date + FestaTtl /\ ListOk(cards, date) /\ FestaTtl \in Nat
    BY <1>1, <1>3, <2>1, FestivalAssumption DEF ListsInv, StoredOk, Ttl, FestivalAssumption
  <2>4. PICK d \in {date - 1, date} : MadeFor(cards, d)
    BY <2>3 DEF ListOk
  <2>5. d \in Int /\ d >= day - FestaTtl - 1
    BY <1>1, <2>3
  <2>6. ServedOk(served')
    BY <1>1, <2>2, <2>4, <2>5, ListServed
  <2>7. CASE SpawnRefresh(s)
    BY <1>1, <2>6, <2>7, CallSpawned, EmptyList DEF SpawnRefresh
  <2>8. CASE UNCHANGED calls
    BY <1>1, <2>6, <2>8 DEF ListsInv
  <2> QED
    BY <1>3, <2>7, <2>8 DEF LoadFestaChannel
<1> QED
  BY <1>2, <1>3

LEMMA PoolLoaded == ASSUME ListsInv, NEW s \in Slots, LoadPool(s) PROVE ListsInv'
<1>1. UNCHANGED <<day, stored>> /\ day \in Int /\ "pool" \in Caches
  BY DEF LoadPool, ListsInv, Caches
<1>2. PICK doc : doc = stored["pool"]
  OBVIOUS
<1>3. doc # NoList => doc.date \in Int /\ ListOk(doc.cards, doc.date) /\ FestaTtl \in Nat
  BY <1>1, <1>2, FestivalAssumption DEF ListsInv, StoredOk, FestivalAssumption
<1>4. CASE doc # NoList /\ doc.date = day
  <2>1. PICK cards : cards = doc.cards
    OBVIOUS
  <2>2. served' = [cache |-> "pool", began |-> day, cards |-> cards] /\ UNCHANGED calls
    BY <1>2, <1>4, <2>1 DEF LoadPool, Serve
  <2>3. PICK d \in {day - 1, day} : MadeFor(cards, d)
    BY <1>3, <1>4, <2>1 DEF ListOk
  <2>4. d \in Int /\ d >= day - FestaTtl - 1
    BY <1>1, <1>3, <1>4
  <2>5. ServedOk(served')
    BY <1>1, <2>2, <2>3, <2>4, ListServed
  <2> QED
    BY <1>1, <2>2, <2>5 DEF ListsInv
<1>5. CASE ~(doc # NoList /\ doc.date = day)
  <2>1. PICK stale : stale = IF doc = NoList THEN <<>> ELSE Revalidated(doc, day)
    OBVIOUS
  <2>2. Spawned(s, "pool", "request", stale) /\ served' = NoList
    BY <1>2, <1>5, <2>1 DEF LoadPool
  <2>3. ListOk(stale, day)
    BY <1>1, <1>3, <2>1, EmptyList, ListRevalidated
  <2>4. ServedOk(served')
    BY <2>2 DEF ServedOk
  <2> QED
    BY <1>1, <2>2, <2>3, <2>4, CallSpawned
<1> QED
  BY <1>4, <1>5

LEMMA WaveFetched == ASSUME ListsInv, NEW s \in Slots, FetchWave(s) PROVE ListsInv'
<1> DEFINE c == calls[s]
           pages == {p \in c.page..MaxPages : p < c.page + Wave[c.cache]}
<1>2. /\ c.at = "fetch" /\ c.cache \in Caches /\ c.from \in {day - 1, day} /\ day \in Int
      /\ DOMAIN c = {"at", "cache", "who", "from", "page", "items", "stale", "cards", "date"}
      /\ ListOk(c.stale, c.from) /\ FoundOk(c.items, c.page)
  BY DEF FetchWave, ListsInv, CallOk
<1>3. UNCHANGED <<day, stored>> /\ ServedOk(served')
  BY DEF FetchWave, ServedOk
<1>5. c.page \in Nat /\ c.from - Window[c.cache] \in Int /\ Wave[c.cache] \in Nat \ {0}
      /\ MaxPages \in Nat /\ c.from \in Int
  <2>1. {PoolWave, MaxPages} \subseteq Nat \ {0} /\ {FestaWindow, PoolWindow} \subseteq Nat
    BY FestivalAssumption DEF FestivalAssumption
  <2>2. Wave[c.cache] \in Nat \ {0} /\ Window[c.cache] \in Nat
    <3>1. c.cache = "festa" \/ c.cache = "pool"
      BY <1>2 DEF Caches
    <3>2. Wave["festa"] = 1 /\ Wave["pool"] = PoolWave
      BY DEF Wave
    <3>3. Window["festa"] = FestaWindow /\ Window["pool"] = PoolWindow
      BY DEF Window
    <3> QED
      BY <2>1, <3>1, <3>2, <3>3
  <2>3. c.page \in Nat /\ c.from \in Int
    BY <1>2 DEF FoundOk
  <2> QED
    BY <2>1, <2>2, <2>3
<1>6. PICK m \in Int : pages = c.page..m
  <2>1. CASE c.page + Wave[c.cache] <= MaxPages
    <3>1. pages = c.page..(c.page + Wave[c.cache] - 1)
      BY <1>5, <2>1
    <3> QED
      BY <1>5, <3>1
  <2>2. CASE ~(c.page + Wave[c.cache] <= MaxPages)
    <3>1. pages = c.page..MaxPages
      BY <1>5, <2>2
    <3> QED
      BY <1>5, <3>1
  <2> QED
    BY <2>1, <2>2
<1>7. PICK asked \in [pages -> Listings] :
         \/ calls' = [calls EXCEPT ![s] = [@ EXCEPT !.at = "set", !.items = {}, !.page = 0, !.date = day,
                         !.cards = CardsOf(c.cache, c.items \cup Gathered(c, asked), c.from)]]
         \/ calls' = [calls EXCEPT ![s] = [@ EXCEPT !.items = c.items \cup Gathered(c, asked),
                                                   !.page = c.page + Cardinality(pages)]]
  BY DEF FetchWave
<1> DEFINE items == c.items \cup Gathered(c, asked)
<1>8. FoundOk(items, c.page + Cardinality(pages))
  <2> HIDE DEF pages
  <2> QED
    BY <1>2, <1>5, <1>6, <1>7, GatherFound
<1> HIDE DEF pages
<1>10. PICK cards : cards = CardsOf(c.cache, items, c.from)
  OBVIOUS
<1>11. MadeFor(cards, c.from)
  BY <1>2, <1>5, <1>8, <1>10, CardsMade DEF FoundOk
<1>12. PICK d : calls' = [calls EXCEPT ![s] = d] /\ CallOk(d, day)
  <2>1. CASE calls' = [calls EXCEPT ![s] = [@ EXCEPT !.at = "set", !.items = {}, !.page = 0,
                                                     !.date = day, !.cards = CardsOf(c.cache, items, c.from)]]
    <3>1. PICK d : d = [c EXCEPT !.at = "set", !.items = {}, !.page = 0, !.date = day, !.cards = cards]
      OBVIOUS
    <3>2. DOMAIN d = DOMAIN c /\ d.at = "set" /\ d.cache = c.cache /\ d.from = c.from
      BY <1>2, <3>1
    <3>3. d.stale = c.stale /\ d.cards = cards /\ d.date = day
      BY <1>2, <3>1
    <3>4. day \in {c.from, c.from + 1}
      BY <1>2, <1>5
    <3>5. CallOk(d, day)
      BY <1>2, <1>11, <3>2, <3>3, <3>4 DEF CallOk
    <3>6. calls' = [calls EXCEPT ![s] = d]
      BY <1>10, <2>1, <3>1
    <3> QED
      BY <3>5, <3>6
  <2>2. CASE calls' = [calls EXCEPT ![s] = [@ EXCEPT !.items = items, !.page = c.page + Cardinality(pages)]]
    <3>1. PICK d : d = [c EXCEPT !.items = items, !.page = c.page + Cardinality(pages)]
      OBVIOUS
    <3>2. /\ DOMAIN d = DOMAIN c /\ d.at = "fetch" /\ d.cache = c.cache /\ d.from = c.from
          /\ d.stale = c.stale /\ d.items = items /\ d.page = c.page + Cardinality(pages)
      BY <1>2, <3>1
    <3>3. CallOk(d, day)
      BY <1>2, <1>8, <3>2 DEF CallOk
    <3>4. calls' = [calls EXCEPT ![s] = d]
      BY <2>2, <3>1
    <3> QED
      BY <3>3, <3>4
  <2> QED
    BY <1>7, <2>1, <2>2
<1>13. DOMAIN calls' = Slots /\ \A t \in Slots : CallOk(calls'[t], day)
  BY <1>12, CallsMove
<1> QED
  BY <1>3, <1>13 DEF ListsInv

LEMMA ListStored == ASSUME ListsInv, NEW s \in Slots, Store(s) \/ StoreFails(s) PROVE ListsInv'
<1>1. PICK c : c = calls[s]
  OBVIOUS
<1>2. /\ c.at = "set" /\ c.cache \in Caches /\ c.from \in {day - 1, day} /\ day \in Int
      /\ MadeFor(c.cards, c.from) /\ c.date \in {c.from, c.from + 1} /\ c.date <= day
  BY <1>1 DEF Store, StoreFails, ListsInv, CallOk
<1>3. ListOk(c.cards, c.from) /\ ListOk(c.cards, c.date) /\ c.from \in Int /\ c.date \in Int
  BY <1>2 DEF ListOk
<1>4. ServedOk(served') /\ Ended(s) /\ day' = day
  BY <1>1, <1>2, <1>3, CallAnswers DEF Store, StoreFails
<1>5. PICK doc : doc = [date |-> c.date, cards |-> c.cards]
  OBVIOUS
<1>6. StoredOk(doc, c.cache, day)
  <2>1. Ttl[c.cache] \in Nat \ {0}
    BY <1>2, FestivalAssumption DEF Caches, Ttl, FestivalAssumption
  <2> QED
    BY <1>2, <1>3, <1>5, <2>1 DEF StoredOk
<1>7. stored' = stored \/ stored' = [stored EXCEPT ![c.cache] = doc]
  BY <1>1, <1>5 DEF Store, StoreFails
<1> QED
  BY <1>2, <1>4, <1>6, <1>7, CallOver

LEMMA FetchFailed == ASSUME ListsInv, NEW s \in Slots, FetchFails(s) PROVE ListsInv'
<1>1. calls[s].at = "fetch" /\ ListOk(calls[s].stale, calls[s].from)
  BY DEF FetchFails, ListsInv, CallOk
<1>2. ServedOk(served')
  BY <1>1, CallAnswers DEF FetchFails, ServedOk
<1> QED
  BY <1>2, CallOver DEF FetchFails

\* A list dies by itself, or with its last day.
LEMMA DayPasses == ASSUME ListsInv, NewDay PROVE ListsInv'
<1>1. day \in Nat /\ day' = day + 1 /\ UNCHANGED calls /\ ServedOk(served')
  BY DEF NewDay, ListsInv, ServedOk
<1>2. DOMAIN stored' = Caches /\ \A c \in Caches : StoredOk(stored'[c], c, day + 1)
  <2>1. stored' = [c \in Caches |-> IF Alive(c) THEN stored[c] ELSE NoList]
    BY DEF NewDay
  <2>2. ASSUME NEW c \in Caches PROVE StoredOk(stored'[c], c, day + 1)
    <3>1. CASE stored'[c] = NoList
      BY <3>1 DEF StoredOk
    <3>2. CASE stored'[c] = stored[c] /\ Alive(c)
      <4>1. PICK doc : doc = stored[c]
        OBVIOUS
      <4>2. /\ doc # NoList /\ day < doc.date + Ttl[c] /\ doc.date \in Int /\ doc.date <= day
            /\ ListOk(doc.cards, doc.date) /\ Ttl[c] \in Nat
        BY <3>2, <4>1, FestivalAssumption DEF Alive, ListsInv, StoredOk, Caches, Ttl, FestivalAssumption
      <4> QED
        BY <1>1, <3>2, <4>1, <4>2 DEF StoredOk
    <3> QED
      BY <2>1, <3>1, <3>2
  <2> QED
    BY <2>1, <2>2
<1>3. \A s \in Slots : CallOk(calls[s], day + 1)
  <2> SUFFICES ASSUME NEW s \in Slots, calls[s].at # "idle" PROVE CallOk(calls[s], day + 1)
    BY DEF CallOk
  <2>1. PICK c : c = calls[s]
    OBVIOUS
  <2>2. CallOk(c, day) /\ c.from = day /\ c.at # "idle"
    BY <2>1 DEF NewDay, ListsInv
  <2> QED
    BY <1>1, <2>1, <2>2 DEF CallOk
<1> QED
  BY <1>1, <1>2, <1>3 DEF ListsInv

LEMMA ListsStart == FestivalInit => ListsInv
<1> SUFFICES ASSUME FestivalInit PROVE ListsInv
  OBVIOUS
<1>1. \A c \in Caches : StoredOk(stored[c], c, day)
  BY DEF FestivalInit, StoredOk
<1>2. \A s \in Slots : CallOk(calls[s], day)
  BY IdleOk DEF FestivalInit
<1> QED
  BY <1>1, <1>2 DEF FestivalInit, ListsInv, ServedOk

LEMMA ListsStep == ASSUME ListsInv, FestivalNext PROVE ListsInv'
<1>1. ASSUME NEW s \in Slots, WarmAllChannels(s) \/ \E c \in Caches : ReadFails(s, c) PROVE ListsInv'
  <2>1. day \in Int /\ "festa" \in Caches /\ ServedOk(served') /\ UNCHANGED <<day, stored>>
    BY <1>1 DEF WarmAllChannels, ReadFails, ListsInv, Caches, ServedOk
  <2> QED
    BY <1>1, <2>1, CallSpawned, EmptyList DEF WarmAllChannels, ReadFails
<1>2. ASSUME NEW s \in Slots, CancelFesta(s) PROVE ListsInv'
  BY <1>2, CallOver DEF CancelFesta, ServedOk
<1>3. ASSUME NEW c \in Caches, ExpireList(c) PROVE ListsInv'
  <2>1. /\ DOMAIN stored' = Caches /\ stored'[c] = NoList /\ ServedOk(served') /\ UNCHANGED <<day, calls>>
        /\ \A k \in Caches \ {c} : stored'[k] = stored[k]
    BY <1>3 DEF ExpireList, ListsInv, ServedOk
  <2>2. \A k \in Caches : StoredOk(stored'[k], k, day)
    BY <2>1 DEF ListsInv, StoredOk
  <2> QED
    BY <2>1, <2>2 DEF ListsInv
<1>4. CASE Restart
  <2>1. calls' = [s \in Slots |-> IF calls[s].at # "idle" /\ calls[s].who = "warm" THEN calls[s] ELSE Idle]
    BY <1>4 DEF Restart
  <2>2. DOMAIN calls' = Slots /\ \A s \in Slots : CallOk(calls'[s], day)
    BY <2>1, IdleOk DEF ListsInv
  <2>3. UNCHANGED <<day, stored>> /\ ServedOk(served')
    BY <1>4 DEF Restart, ServedOk
  <2> QED
    BY <2>2, <2>3 DEF ListsInv
<1> QED
  BY <1>1, <1>2, <1>3, <1>4, FestaLoaded, PoolLoaded, WaveFetched, ListStored, FetchFailed, DayPasses
     DEF FestivalNext

---------------------------------------------------------------------------
\* The ranking of several pools.

AllCards(pools) == UNION {Range(pools[name]) : name \in DOMAIN pools}

PoolsOfLists(pools) == \A name \in DOMAIN pools : pools[name] \in Lists

\* What a ranking is while it is filled.
Filling(out, pools, limit) == out \in Lists /\ Range(out) \subseteq AllCards(pools) /\ Len(out) <= limit

\* One of the names has a card that is not out yet.
HasMore(out, pools, names) ==
    \E i \in DOMAIN names : names[i] \in DOMAIN pools /\ \E s \in Range(pools[names[i]]) : s \notin Range(out)

LEMMA FreshCards ==
    ASSUME NEW pools, PoolsOfLists(pools), NEW name, NEW out \in Lists
    PROVE  LET fresh == Fresh(pools, name, out)
           IN  /\ fresh \in Lists
               /\ \A s \in Range(fresh) : s \in AllCards(pools) /\ s \notin Range(out)
               /\ name \in DOMAIN pools => \A s \in Range(pools[name]) : s \in Range(out) \/ s \in Range(fresh)
<1> PICK fresh : fresh = Fresh(pools, name, out)
  OBVIOUS
<1>1. CASE name \notin DOMAIN pools
  <2>1. fresh = <<>>
    BY <1>1 DEF Fresh
  <2> QED
    BY <1>1, <2>1, NoneListed
<1>2. CASE name \in DOMAIN pools
  <2> PICK pool : pool = pools[name]
    OBVIOUS
  <2>1. pool \in Lists
    BY <1>2 DEF PoolsOfLists
  <2>2. fresh = Only(pool, Ids \ Range(out))
    BY <1>2 DEF Fresh
  <2> PICK rest : rest = Ids \ Range(out)
    OBVIOUS
  <2>3. fresh \in Lists /\ Range(fresh) = Range(pool) \cap rest
    BY <2>1, <2>2, OnlyList
  <2>4. Range(pool) \subseteq Ids
    BY <2>1, PartsOfList
  <2>5. \A s \in Range(pool) : s \in AllCards(pools)
    BY <1>2 DEF AllCards
  <2>6. \A s \in Range(fresh) : s \in Range(pool) /\ s \in rest
    BY <2>3
  <2>7. \A s \in Range(pool) : s \in rest => s \in Range(fresh)
    BY <2>3
  <2> QED
    BY <2>3, <2>4, <2>5, <2>6, <2>7
<1> QED
  BY <1>1, <1>2

LEMMA OneOfNames ==
    ASSUME NEW pools, PoolsOfLists(pools), NEW X, NEW names \in Seq(X), NEW out \in Lists
    PROVE  LET one == OneOf(pools, names, out)
           IN  /\ one \in Lists /\ Len(one) \in {0, 1}
               /\ \A s \in Range(one) : s \in AllCards(pools) /\ s \notin Range(out)
               /\ Len(one) = 0 => ~HasMore(out, pools, names) /\ one = <<>>
<1> PICK one : one = OneOf(pools, names, out)
  OBVIOUS
<1> PICK with : with = {i \in DOMAIN names : Fresh(pools, names[i], out) # <<>>}
  OBVIOUS
<1>1. CASE with = {}
  <2>1. one = <<>>
    BY <1>1 DEF OneOf
  <2>2. ~HasMore(out, pools, names)
    <3> SUFFICES ASSUME NEW i \in DOMAIN names, names[i] \in DOMAIN pools,
                        NEW s \in Range(pools[names[i]]), s \notin Range(out)
                 PROVE  FALSE
      BY DEF HasMore
    <3> PICK fresh : fresh = Fresh(pools, names[i], out)
      OBVIOUS
    <3>1. fresh = <<>>
      BY <1>1
    <3>2. s \in Range(fresh)
      BY FreshCards
    <3> QED
      BY <3>1, <3>2, NoneListed
  <2> QED
    BY <2>1, <2>2, NoneListed
<1>2. CASE with # {}
  <2>1. with \in SUBSET Nat
    BY LenProperties
  <2>2. \E m \in with : \A k \in with : m <= k
    BY <1>2, <2>1, LeastOf
  <2> PICK m : m = Min(with)
    OBVIOUS
  <2>3. m \in with
    BY <2>2 DEF Min
  <2> PICK fresh : fresh = Fresh(pools, names[m], out)
    OBVIOUS
  <2>4. fresh # <<>>
    BY <2>3
  <2>5. fresh \in Lists /\ \A s \in Range(fresh) : s \in AllCards(pools) /\ s \notin Range(out)
    BY FreshCards
  <2>6. Len(fresh) \in Nat /\ Len(fresh) # 0 /\ Range(fresh) = {fresh[i] : i \in 1..Len(fresh)}
        /\ \A i \in 1..Len(fresh) : fresh[i] \in Ids
    BY <2>4, <2>5, PartsOfList, EmptySeq
  <2> PICK first : first = fresh[1]
    OBVIOUS
  <2>7. first \in Ids /\ first \in Range(fresh)
    <3>1. 1 \in 1..Len(fresh)
      BY ONLY <2>6
    <3> PICK all : all = Range(fresh)
      OBVIOUS
    <3> QED
      BY <2>6, <3>1
  <2>8. one = <<first>>
    BY <1>2 DEF OneOf
  <2>9. one \in Lists /\ Len(one) = 1 /\ Range(one) = {first}
    BY <2>7, <2>8, OneListed
  <2> QED
    BY <2>5, <2>7, <2>9
<1> QED
  BY <1>1, <1>2

\* A slot adds a card, or the ranking is full, or none of its names has one.
LEMMA SlotFills ==
    ASSUME NEW pools, PoolsOfLists(pools), NEW X, NEW names \in Seq(X), NEW limit \in Nat,
           NEW out, Filling(out, pools, limit)
    PROVE  LET next == Slot(pools, names, out, limit)
           IN  /\ Filling(next, pools, limit)
               /\ \/ next = out /\ (Len(out) = limit \/ ~HasMore(out, pools, names))
                  \/ Len(next) = Len(out) + 1
<1> PICK next : next = Slot(pools, names, out, limit)
  OBVIOUS
<1>1. out \in Lists /\ Len(out) \in Nat /\ Len(out) <= limit /\ Range(out) \subseteq AllCards(pools)
  BY PartsOfList DEF Filling
<1>2. CASE Len(out) >= limit
  <2>1. next = out
    BY <1>2 DEF Slot
  <2>2. Len(out) = limit
    BY <1>1, <1>2
  <2> QED
    BY <2>1, <2>2
<1>3. CASE ~(Len(out) >= limit)
  <2> PICK one : one = OneOf(pools, names, out)
    OBVIOUS
  <2>1. /\ one \in Lists /\ Len(one) \in {0, 1}
        /\ \A s \in Range(one) : s \in AllCards(pools) /\ s \notin Range(out)
        /\ Len(one) = 0 => ~HasMore(out, pools, names) /\ one = <<>>
    BY <1>1, OneOfNames
  <2>2. next = out \o one
    BY <1>3 DEF Slot
  <2>3. Range(out) \cap Range(one) = {}
    <3> PICK old : old = Range(out)
      OBVIOUS
    <3> PICK new : new = Range(one)
      OBVIOUS
    <3> QED
      BY <2>1
  <2>4. next \in Lists /\ Len(next) = Len(out) + Len(one) /\ Range(next) = Range(out) \cup Range(one)
    BY <1>1, <2>1, <2>2, <2>3, JoinedList
  <2>5. Range(next) \subseteq AllCards(pools)
    <3> PICK old : old = Range(out)
      OBVIOUS
    <3> PICK new : new = Range(one)
      OBVIOUS
    <3> QED
      BY <1>1, <2>1, <2>4
  <2>6. Len(next) <= limit
    <3> PICK some \in Nat : some = Len(one)
      BY <2>1
    <3> PICK old \in Nat : old = Len(out)
      BY <1>1
    <3>1. some <= 1
      BY <2>1
    <3>2. old < limit
      BY <1>3
    <3>3. old + some <= limit
      BY ONLY <3>1, <3>2, limit \in Nat, old \in Nat, some \in Nat
    <3>4. Len(next) = old + some
      BY <2>4
    <3> QED
      BY ONLY <3>3, <3>4
  <2>7. Filling(next, pools, limit)
    BY <2>4, <2>5, <2>6 DEF Filling
  <2>8. CASE Len(one) = 0
    <3>1. next = out
      BY <1>1, <2>1, <2>2, <2>8, PartsOfList, ConcatEmptySeq
    <3> QED
      BY <2>1, <2>7, <2>8, <3>1
  <2>9. CASE Len(one) = 1
    BY <2>4, <2>7, <2>9
  <2> QED
    BY <2>1, <2>8, <2>9
<1> QED
  BY <1>2, <1>3

\* As many cards as the pools have, or as the ranking takes.
Whole(pools, limit) ==
    IF Cardinality(AllCards(pools)) < limit THEN Cardinality(AllCards(pools)) ELSE limit

LEMMA CardsFinite ==
    ASSUME NEW pools, PoolsOfLists(pools)
    PROVE  AllCards(pools) \subseteq Ids /\ IsFiniteSet(AllCards(pools)) /\ Cardinality(AllCards(pools)) \in Nat
<1>1. ASSUME NEW s \in AllCards(pools) PROVE s \in Ids
  <2>1. PICK name \in DOMAIN pools : s \in Range(pools[name])
    BY DEF AllCards
  <2> PICK pool : pool = pools[name]
    OBVIOUS
  <2>2. pool \in Lists
    BY DEF PoolsOfLists
  <2>3. Range(pool) \subseteq Ids
    BY <2>2, PartsOfList
  <2> QED
    BY <2>1, <2>3
<1>2. AllCards(pools) \subseteq Ids
  BY <1>1
<1> QED
  BY <1>2, IdsFinite, FS_CardinalityType

\* No ranking is longer, and one that holds every card is as long.
LEMMA FillingBounded ==
    ASSUME NEW pools, PoolsOfLists(pools), NEW limit \in Nat, NEW out, Filling(out, pools, limit)
    PROVE  /\ Whole(pools, limit) \in Nat /\ Whole(pools, limit) <= limit /\ Len(out) \in Nat
           /\ Len(out) <= Whole(pools, limit)
           /\ Len(out) = limit \/ AllCards(pools) \subseteq Range(out) => Len(out) = Whole(pools, limit)
<1> PICK all : all = AllCards(pools)
  OBVIOUS
<1> PICK mine : mine = Range(out)
  OBVIOUS
<1>1. IsFiniteSet(all) /\ Cardinality(all) \in Nat
  BY CardsFinite
<1>2. out \in Lists /\ mine \subseteq all /\ Len(out) <= limit
  BY DEF Filling
<1>3. Cardinality(mine) = Len(out) /\ Len(out) \in Nat
  BY <1>2, ListCounted, PartsOfList
<1>4. Cardinality(mine) <= Cardinality(all)
  BY ONLY <1>1, <1>2, FS_Subset
<1> PICK c \in Nat : c = Cardinality(all)
  BY <1>1
<1> PICK l \in Nat : l = Len(out)
  BY <1>3
<1> PICK w : w = Whole(pools, limit)
  OBVIOUS
<1>5. w = IF c < limit THEN c ELSE limit
  BY DEF Whole
<1>6. l <= c /\ l <= limit
  BY <1>2, <1>3, <1>4
<1>7. all \subseteq mine => l = c
  <2> HAVE all \subseteq mine
  <2>1. all = mine
    BY <1>2
  <2> QED
    BY <1>3, <2>1
<1>8. w \in Nat /\ w <= limit /\ l <= w /\ (l = limit \/ all \subseteq mine => l = w)
  BY ONLY <1>5, <1>6, <1>7, c \in Nat, l \in Nat, limit \in Nat
<1> QED
  BY <1>8

\* A pass lists nothing twice and loses nothing, and adds a card unless the ranking is
\* full or none of its slots has one.
LEMMA PassFills ==
    ASSUME NEW pools, PoolsOfLists(pools), NEW X, NEW slots \in Seq(Seq(X)), NEW limit \in Nat,
           NEW start, Filling(start, pools, limit)
    PROVE  LET end == Pass(pools, slots, limit, start)
           IN  /\ Filling(end, pools, limit) /\ Len(start) <= Len(end)
               /\ Len(end) = Len(start) =>
                    Len(start) = limit \/ \A i \in 1..Len(slots) : ~HasMore(start, pools, slots[i])
<1> PICK N : N = Len(slots)
  OBVIOUS
<1>1. N \in Nat /\ \A i \in 1..N : slots[i] \in Seq(X)
  BY LenProperties, ElementOfSeq
<1> DEFINE F == {list \in Lists : Filling(list, pools, limit)}
           step == [i \in 1..N |-> [list \in F |-> Slot(pools, slots[i], list, limit)]]
<1>2. ASSUME NEW i \in 1..N, NEW list \in F
      PROVE  LET next == Slot(pools, slots[i], list, limit)
             IN  /\ next \in F
                 /\ \/ next = list /\ (Len(list) = limit \/ ~HasMore(list, pools, slots[i]))
                    \/ Len(next) = Len(list) + 1
  <2>1. slots[i] \in Seq(X) /\ Filling(list, pools, limit)
    BY <1>1
  <2> PICK names : names = slots[i]
    OBVIOUS
  <2> PICK next : next = Slot(pools, names, list, limit)
    OBVIOUS
  <2>2. /\ Filling(next, pools, limit)
        /\ \/ next = list /\ (Len(list) = limit \/ ~HasMore(list, pools, names))
           \/ Len(next) = Len(list) + 1
    BY <2>1, SlotFills
  <2>3. next \in F
    BY <2>2 DEF Filling
  <2> QED
    BY <2>2, <2>3
<1>3. start \in F
  BY DEF Filling
<1>4. \A list \in F : Len(list) \in Nat
  BY PartsOfList
<1> HIDE DEF F
<1>5. step \in [1..N -> [F -> F]]
  BY <1>2
<1>6. PICK f : f \in [0..N -> F] /\ f[0] = start /\ \A i \in 1..N : f[i] = step[i][f[i - 1]]
  <2> HIDE DEF step
  <2>1. \E f : Steps(f, N, F, start, step)
    BY ONLY <1>1, <1>3, <1>5, Iterated
  <2> QED
    BY <2>1 DEF Steps
<1>7. ASSUME NEW i \in 1..N
      PROVE  i - 1 \in 0..N /\ f[i - 1] \in F /\ f[i] = Slot(pools, slots[i], f[i - 1], limit)
  <2>1. i - 1 \in 0..N
    BY <1>1
  <2>2. f[i - 1] \in F
    BY <1>6, <2>1
  <2>3. step[i][f[i - 1]] = Slot(pools, slots[i], f[i - 1], limit)
    BY <2>2
  <2> QED
    BY <1>6, <2>1, <2>2, <2>3
<1> HIDE DEF step
<1> PICK end : end = Pass(pools, slots, limit, start)
  OBVIOUS
<1>8. end = f[N]
  <2> DEFINE Fits(out) == out = [n \in 0..N |-> IF n = 0 THEN start ELSE Slot(pools, slots[n], out[n - 1], limit)]
  <2>1. Fits(f)
    <3>1. \A n \in 0..N : f[n] = IF n = 0 THEN start ELSE Slot(pools, slots[n], f[n - 1], limit)
      BY <1>1, <1>6, <1>7
    <3> QED
      BY <1>6, <3>1
  <2> PICK out : out = CHOOSE g : Fits(g)
    OBVIOUS
  <2>2. Fits(out)
    <3> HIDE DEF Fits
    <3> QED
      BY <2>1
  <2>3. \A n \in 0..N : out[n] = IF n = 0 THEN start ELSE Slot(pools, slots[n], out[n - 1], limit)
    BY <2>2
  <2>4. out[0] = f[0] /\ \A i \in 1..N : out[i - 1] = f[i - 1] => out[i] = f[i]
    <3>1. out[0] = f[0]
      BY <1>1, <1>6, <2>3
    <3>2. ASSUME NEW i \in 1..N, out[i - 1] = f[i - 1] PROVE out[i] = f[i]
      <4>1. i \in 0..N /\ i # 0
        BY <1>1
      <4> QED
        BY <1>7, <2>3, <3>2, <4>1
    <3> QED
      BY <3>1, <3>2
  <2>5. \A n \in 0..N : out[n] = f[n]
    <3>1. N \in Nat
      BY <1>1
    <3>2. out[0] = f[0]
      BY <2>4
    <3>3. \A i \in 1..N : out[i - 1] = f[i - 1] => out[i] = f[i]
      BY <2>4
    <3>4. KeepsPace(out, f, N)
      BY ONLY <3>2, <3>3 DEF KeepsPace
    <3>5. AgreeUpTo(out, f, N)
      BY ONLY <3>1, <3>4, IteratedAlike
    <3> QED
      BY ONLY <3>5 DEF AgreeUpTo
  <2>6. end = out[N]
    BY DEF Pass
  <2> QED
    BY <1>1, <2>5, <2>6
<1> DEFINE Same(list, n) ==
             /\ Len(start) <= Len(list)
             /\ Len(list) = Len(start) =>
                  /\ list = start
                  /\ Len(start) = limit \/ \A i \in 1..n : ~HasMore(start, pools, slots[i])
<1>9. \A n \in 0..N : Same(f[n], n)
  <2> DEFINE T == {n \in 0..N : ~Same(f[n], n)}
  <2> SUFFICES ASSUME T # {} PROVE FALSE
    OBVIOUS
  <2>1. T \subseteq Nat
    OBVIOUS
  <2>2. PICK m \in T : \A k \in T : m <= k
    <3> HIDE DEF T
    <3> QED
      BY <2>1, LeastOf
  <2>3. Same(f[0], 0)
    <3>1. f[0] = start /\ Len(start) \in Nat /\ 1..0 = {}
      BY <1>3, <1>4, <1>6
    <3> QED
      BY <3>1
  <2>4. m \in 1..N /\ ~Same(f[m], m)
    BY <2>2, <2>3
  <2>5. Same(f[m - 1], m - 1)
    <3>1. m - 1 \in 0..N /\ ~(m <= m - 1)
      BY <1>1, <2>4
    <3> QED
      BY <2>2, <3>1
  <2> PICK before : before = f[m - 1]
    OBVIOUS
  <2> PICK after : after = f[m]
    OBVIOUS
  <2>6. before \in F /\ Len(before) \in Nat /\ Len(start) \in Nat /\ limit \in Nat
    <3>1. before \in F
      BY ONLY <1>7, <2>4, before = f[m - 1]
    <3> QED
      BY ONLY <1>3, <1>4, <3>1, limit \in Nat
  <2>7. \/ after = before /\ (Len(before) = limit \/ ~HasMore(before, pools, slots[m]))
        \/ Len(after) = Len(before) + 1
    <3>1. m \in 1..N
      BY ONLY <2>4
    <3>2. after = Slot(pools, slots[m], before, limit)
      BY ONLY <1>7, <3>1, before = f[m - 1], after = f[m]
    <3>3. before \in F
      BY ONLY <2>6
    <3> QED
      BY ONLY <1>2, <3>1, <3>2, <3>3
  <2>8. Same(after, m)
    <3>1. CASE Len(after) = Len(before) + 1
      <4>1. Len(start) <= Len(before)
        BY <2>5
      <4>2. Len(start) < Len(after)
        BY ONLY <2>6, <3>1, <4>1
      <4> QED
        BY ONLY <2>6, <3>1, <4>2
    <3>2. CASE after = before /\ (Len(before) = limit \/ ~HasMore(before, pools, slots[m]))
      <4>1. \A i \in 1..m : i \in 1..(m - 1) \/ i = m
        BY <1>1, <2>4
      <4> QED
        BY <2>5, <3>2, <4>1
    <3> QED
      BY <2>7, <3>1, <3>2
  <2> QED
    BY <2>4, <2>8
<1>10. Same(end, N) /\ end \in F
  <2>1. N \in 0..N
    BY ONLY <1>1
  <2>2. f[N] \in F
    BY ONLY <1>6, <2>1
  <2> HIDE DEF Same
  <2>3. Same(f[N], N)
    BY ONLY <1>9, <2>1
  <2> QED
    BY ONLY <1>8, <2>2, <2>3
<1> QED
  BY <1>10 DEF F

\* Each pool has a slot.
Covers(pools, slots) ==
    \A name \in DOMAIN pools : \E i \in 1..Len(slots) : \E k \in DOMAIN slots[i] : slots[i][k] = name

\* A pass over slots of every pool makes the ranking longer, or it is whole.
LEMMA PassLengthens ==
    ASSUME NEW pools, PoolsOfLists(pools), NEW X, NEW slots \in Seq(Seq(X)), Covers(pools, slots),
           NEW limit \in Nat, NEW start, Filling(start, pools, limit)
    PROVE  LET end == Pass(pools, slots, limit, start)
           IN  /\ Filling(end, pools, limit) /\ Len(start) <= Len(end)
               /\ Len(end) = Len(start) => Len(start) = Whole(pools, limit)
<1> PICK end : end = Pass(pools, slots, limit, start)
  OBVIOUS
<1>1. /\ Filling(end, pools, limit) /\ Len(start) <= Len(end)
      /\ Len(end) = Len(start) =>
           Len(start) = limit \/ \A i \in 1..Len(slots) : ~HasMore(start, pools, slots[i])
  BY PassFills
<1>2. ASSUME \A i \in 1..Len(slots) : ~HasMore(start, pools, slots[i])
      PROVE  AllCards(pools) \subseteq Range(start)
  <2> SUFFICES ASSUME NEW s \in AllCards(pools), s \notin Range(start) PROVE FALSE
    OBVIOUS
  <2>1. PICK name \in DOMAIN pools : s \in Range(pools[name])
    BY DEF AllCards
  <2>2. PICK i \in 1..Len(slots) : \E k \in DOMAIN slots[i] : slots[i][k] = name
    BY DEF Covers
  <2> PICK names : names = slots[i]
    OBVIOUS
  <2>3. HasMore(start, pools, names)
    BY <2>1, <2>2 DEF HasMore
  <2> QED
    BY <1>2, <2>3
<1>3. Len(start) = limit \/ AllCards(pools) \subseteq Range(start) => Len(start) = Whole(pools, limit)
  BY FillingBounded
<1> QED
  BY <1>1, <1>2, <1>3

\* The slots of a pattern.
LEMMA SlotsOfPattern ==
    ASSUME NEW X, NEW pattern \in Seq(X), NEW pools, DOMAIN pools \subseteq Range(pattern)
    PROVE  LET first == [i \in DOMAIN pattern |-> <<pattern[i]>> \o pattern]
               later == [i \in DOMAIN pattern |-> <<pattern[i]>>]
           IN  first \in Seq(Seq(X)) /\ later \in Seq(Seq(X)) /\ Covers(pools, later)
<1> PICK n \in Nat : n = Len(pattern)
  BY LenProperties
<1>1. DOMAIN pattern = 1..n /\ \A i \in 1..n : pattern[i] \in X
  BY LenProperties, ElementOfSeq
<1> PICK first : first = [i \in DOMAIN pattern |-> <<pattern[i]>> \o pattern]
  OBVIOUS
<1> PICK later : later = [i \in DOMAIN pattern |-> <<pattern[i]>>]
  OBVIOUS
<1>2. ASSUME NEW i \in 1..n PROVE <<pattern[i]>> \in Seq(X) /\ <<pattern[i]>> \o pattern \in Seq(X)
  <2>1. <<pattern[i]>> \in Seq(X)
    BY <1>1
  <2> PICK one : one = <<pattern[i]>>
    OBVIOUS
  <2>2. one \o pattern \in Seq(X)
    BY <2>1, ConcatProperties
  <2> QED
    BY <2>1, <2>2
<1>3. first \in [1..n -> Seq(X)] /\ later \in [1..n -> Seq(X)]
  BY <1>1, <1>2
<1>4. first \in Seq(Seq(X)) /\ later \in Seq(Seq(X))
  <2> PICK Y : Y = Seq(X)
    OBVIOUS
  <2>1. first \in [1..n -> Y] /\ later \in [1..n -> Y] /\ n \in Nat
    BY <1>3
  <2>2. first \in Seq(Y) /\ later \in Seq(Y)
    BY ONLY <2>1, SeqDef
  <2> QED
    BY <2>2
<1>5. Len(later) = n
  <2>1. 1..Len(later) = 1..n /\ Len(later) \in Nat
    BY <1>3, <1>4, LenProperties
  <2> QED
    BY ONLY <2>1, n \in Nat, SameEnd
<1>6. Covers(pools, later)
  <2> SUFFICES ASSUME NEW name \in DOMAIN pools
               PROVE  \E i \in 1..Len(later) : \E k \in DOMAIN later[i] : later[i][k] = name
    BY DEF Covers
  <2>1. PICK i \in 1..n : pattern[i] = name
    BY <1>1 DEF Range
  <2>2. later[i] = <<name>>
    BY <1>1, <2>1
  <2>3. 1 \in DOMAIN <<name>> /\ <<name>>[1] = name
    OBVIOUS
  <2> QED
    BY <1>5, <2>1, <2>2, <2>3
<1> QED
  BY <1>4, <1>6

\* After as many rounds as the ranking takes cards it is whole.
LEMMA InterleavedWhole ==
    ASSUME NEW pools, PoolsOfLists(pools), NEW X, NEW pattern \in Seq(X), DOMAIN pools \subseteq Range(pattern),
           NEW limit \in Nat
    PROVE  LET cards == Interleaved(pools, pattern, limit)
           IN  cards \in Lists /\ Len(cards) = Whole(pools, limit)
<1> DEFINE later == [i \in DOMAIN pattern |-> <<pattern[i]>>]
           F == {list \in Lists : Filling(list, pools, limit)}
<1>1. later \in Seq(Seq(X)) /\ Covers(pools, later)
  BY SlotsOfPattern
<1> PICK start : start = FirstPass(pools, pattern, limit)
  OBVIOUS
<1>2. start \in F
  <2> PICK slots : slots = [i \in DOMAIN pattern |-> <<pattern[i]>> \o pattern]
    OBVIOUS
  <2> PICK none : none = <<>>
    OBVIOUS
  <2>1. slots \in Seq(Seq(X))
    BY SlotsOfPattern
  <2>2. Filling(none, pools, limit)
    BY NoneListed DEF Filling
  <2> PICK end : end = Pass(pools, slots, limit, none)
    OBVIOUS
  <2>3. Filling(end, pools, limit)
    BY <2>1, <2>2, PassFills
  <2>4. start = end
    BY DEF FirstPass
  <2> QED
    BY <2>3, <2>4 DEF Filling
<1> PICK slots : slots = later
  OBVIOUS
<1>3. slots \in Seq(Seq(X)) /\ Covers(pools, slots)
  BY <1>1
<1> HIDE DEF later
<1>4. ASSUME NEW list \in F
      PROVE  LET next == Pass(pools, slots, limit, list)
             IN  next \in F /\ Len(list) <= Len(next) /\ (Len(next) = Len(list) => Len(list) = Whole(pools, limit))
  <2>1. Filling(list, pools, limit)
    OBVIOUS
  <2> PICK next : next = Pass(pools, slots, limit, list)
    OBVIOUS
  <2>2. /\ Filling(next, pools, limit) /\ Len(list) <= Len(next)
        /\ Len(next) = Len(list) => Len(list) = Whole(pools, limit)
    BY <1>3, <2>1, PassLengthens
  <2> QED
    BY <2>2 DEF Filling
<1>5. ASSUME NEW list \in F
      PROVE  /\ list \in Lists /\ Whole(pools, limit) \in Nat /\ Whole(pools, limit) <= limit
             /\ Len(list) \in Nat /\ Len(list) <= Whole(pools, limit)
  BY FillingBounded
<1> HIDE DEF F
<1> DEFINE step == [i \in 1..limit |-> [list \in F |-> Pass(pools, slots, limit, list)]]
<1>6. step \in [1..limit -> [F -> F]]
  BY <1>4
<1>7. PICK f : f \in [0..limit -> F] /\ f[0] = start /\ \A i \in 1..limit : f[i] = step[i][f[i - 1]]
  <2> HIDE DEF step
  <2>1. limit \in Nat
    OBVIOUS
  <2>2. \E f : Steps(f, limit, F, start, step)
    BY ONLY <1>2, <1>6, <2>1, Iterated
  <2> QED
    BY <2>2 DEF Steps
<1>8. ASSUME NEW i \in 1..limit
      PROVE  i - 1 \in 0..limit /\ f[i - 1] \in F /\ f[i] = Pass(pools, slots, limit, f[i - 1])
  <2>1. i - 1 \in 0..limit
    OBVIOUS
  <2>2. f[i - 1] \in F
    BY <1>7, <2>1
  <2>3. step[i][f[i - 1]] = Pass(pools, slots, limit, f[i - 1])
    BY <2>2
  <2> QED
    BY <1>7, <2>1, <2>2, <2>3
<1> HIDE DEF step
<1> PICK cards : cards = Interleaved(pools, pattern, limit)
  OBVIOUS
<1>9. cards = f[limit]
  <2> DEFINE Fits(out) == out = [round \in 0..limit |->
                                   IF round = 0 THEN FirstPass(pools, pattern, limit)
                                   ELSE Pass(pools, [i \in DOMAIN pattern |-> <<pattern[i]>>], limit, out[round - 1])]
  <2>1. Fits(f)
    <3>1. \A n \in 0..limit : f[n] = IF n = 0 THEN start ELSE Pass(pools, slots, limit, f[n - 1])
      BY <1>7, <1>8
    <3>2. f = [n \in 0..limit |-> IF n = 0 THEN start ELSE Pass(pools, slots, limit, f[n - 1])]
      BY <1>7, <3>1
    <3> QED
      BY <3>2 DEF later
  <2> PICK out : out = CHOOSE g : Fits(g)
    OBVIOUS
  <2>2. Fits(out)
    <3> HIDE DEF Fits
    <3> QED
      BY <2>1
  <2>3. \A n \in 0..limit : out[n] = IF n = 0 THEN start ELSE Pass(pools, slots, limit, out[n - 1])
    <3>1. slots = [i \in DOMAIN pattern |-> <<pattern[i]>>]
      BY DEF later
    <3>2. out = [n \in 0..limit |-> IF n = 0 THEN start ELSE Pass(pools, slots, limit, out[n - 1])]
      BY <2>2, <3>1
    <3> QED
      BY ONLY <3>2
  <2>4. out[0] = f[0]
    BY <1>7, <2>3
  <2>5. \A i \in 1..limit : out[i - 1] = f[i - 1] => out[i] = f[i]
    <3> SUFFICES ASSUME NEW i \in 1..limit, out[i - 1] = f[i - 1] PROVE out[i] = f[i]
      OBVIOUS
    <3>1. i \in 0..limit /\ i # 0
      OBVIOUS
    <3> QED
      BY <1>8, <2>3, <3>1
  <2>6. \A n \in 0..limit : out[n] = f[n]
    <3>1. limit \in Nat
      OBVIOUS
    <3>2. KeepsPace(out, f, limit)
      BY ONLY <2>4, <2>5 DEF KeepsPace
    <3>3. AgreeUpTo(out, f, limit)
      BY ONLY <3>1, <3>2, IteratedAlike
    <3> QED
      BY ONLY <3>3 DEF AgreeUpTo
  <2>7. cards = out[limit]
    BY DEF Interleaved
  <2> QED
    BY <2>6, <2>7
<1> PICK whole : whole = Whole(pools, limit)
  OBVIOUS
<1>10. \A n \in 0..limit : n <= Len(f[n]) \/ Len(f[n]) = whole
  <2> DEFINE T == {n \in 0..limit : ~(n <= Len(f[n]) \/ Len(f[n]) = whole)}
  <2> SUFFICES ASSUME T # {} PROVE FALSE
    OBVIOUS
  <2>1. T \subseteq Nat
    OBVIOUS
  <2>2. PICK m \in T : \A k \in T : m <= k
    <3> HIDE DEF T
    <3> QED
      BY <2>1, LeastOf
  <2>3. 0 <= Len(f[0])
    BY <1>2, <1>5, <1>7
  <2>4. m \in 1..limit /\ ~(m <= Len(f[m])) /\ Len(f[m]) # whole
    BY <2>2, <2>3
  <2>5. m - 1 \in 0..limit /\ ~(m <= m - 1)
    BY <2>4
  <2>6. m - 1 <= Len(f[m - 1]) \/ Len(f[m - 1]) = whole
    BY <2>2, <2>5
  <2> PICK before : before = f[m - 1]
    OBVIOUS
  <2> PICK after : after = f[m]
    OBVIOUS
  <2>7. before \in F /\ after \in F /\ after = Pass(pools, slots, limit, before)
    BY <1>7, <1>8, <2>4
  <2>8. Len(before) <= Len(after) /\ (Len(after) = Len(before) => Len(before) = whole)
    BY <1>4, <2>7
  <2>9. Len(before) \in Nat /\ Len(after) \in Nat /\ whole \in Nat /\ Len(before) <= whole /\ Len(after) <= whole
    BY <1>5, <2>7
  <2>10. m \in Nat /\ ~(m <= Len(after)) /\ Len(after) # whole /\ (m - 1 <= Len(before) \/ Len(before) = whole)
    BY <2>4, <2>6
  <2> QED
    BY ONLY <2>8, <2>9, <2>10
<1>11. cards \in F /\ (limit <= Len(cards) \/ Len(cards) = whole)
  BY <1>7, <1>9, <1>10
<1>12. cards \in Lists /\ whole \in Nat /\ whole <= limit /\ Len(cards) \in Nat /\ Len(cards) <= whole
  BY <1>5, <1>11
<1>13. Len(cards) = whole
  <2>1. limit \in Nat
    OBVIOUS
  <2> QED
    BY ONLY <1>11, <1>12, <2>1
<1> QED
  BY <1>12, <1>13

---------------------------------------------------------------------------
\* The queries of the home screen.

\* What is kept in redis is the list of a query.
HomeInv == visible \subseteq Ids /\ redis \in [Keys -> Lists \cup {None}]

LEMMA HomeConstants ==
    /\ CardCount \in Nat /\ TasteLimit \in Nat /\ MapLimit \in Nat /\ SeedLimit \in Nat
    /\ TasteLimit * NeighborOverfetch \in Nat
    /\ \A key \in SignalKeys, s \in Ids : Signal[key][s] \in Int \cup {None}
    /\ \A s \in Ids : /\ Aesthetic[s] \in Int \cup {None} /\ Rate[s] \in Int \cup {None}
                      /\ Nearness[s] \in Int /\ Shuffle[s] \in Int
    /\ \A s \in Ids : Place[s] = None \/ Place[s] \in Int
    /\ Here \in Int
<1>1. /\ CardCount \in Nat /\ TasteLimit \in Nat /\ MapLimit \in Nat /\ SeedLimit \in Nat
      /\ NeighborOverfetch \in Nat /\ Here \in Int
  BY HomeAssumption
<1>2. TasteLimit * NeighborOverfetch \in Nat
  BY ONLY <1>1
<1>3. \A s \in Ids : /\ Aesthetic[s] \in Int \cup {None} /\ Rate[s] \in Int \cup {None}
                     /\ Nearness[s] \in Int /\ Shuffle[s] \in Int
  BY HomeAssumption
<1>4. \A key \in SignalKeys, s \in Ids : Signal[key][s] \in Int \cup {None}
  BY HomeAssumption
<1>5. \A s \in Ids : Place[s] = None \/ Place[s] \in Int
  BY SpotsAssumption
<1> QED
  BY <1>1, <1>2, <1>3, <1>4, <1>5

LEMMA SignalRowsListed ==
    ASSUME HomeInv, NEW key \in SignalKeys, NEW region
    PROVE  SignalRows(key, region) \in Lists
<1> PICK rows : rows = {s \in Shown : /\ Signal[key][s] # None /\ Fence(key, s)
                                      /\ region # None => Sido[s] = region}
  OBVIOUS
<1> PICK score : score = [s \in Ids |-> IF Signal[key][s] = None THEN 0 ELSE -Signal[key][s]]
  OBVIOUS
<1> PICK group : group = IF region = None THEN Sido ELSE Sigungu
  OBVIOUS
<1> PICK first : first = FirstOfGroups(rows, group, score)
  OBVIOUS
<1>1. first \in SUBSET Ids
  BY DEF FirstOfGroups, Shown, HomeInv
<1>2. \A s \in first : score[s] \in Int
  <2> SUFFICES ASSUME NEW s \in first PROVE score[s] \in Int
    OBVIOUS
  <2>1. s \in Ids /\ Signal[key][s] \in Int \cup {None}
    BY <1>1, HomeConstants
  <2> QED
    BY <2>1
<1>3. CardCount \in Nat
  BY HomeConstants
<1>4. Take(Ordered(first, score), CardCount) \in Lists
  BY <1>1, <1>2, <1>3, FirstRows
<1> QED
  BY <1>4 DEF SignalRows

\* The country fills up with what the region does not hold.
LEMMA QueryListed ==
    ASSUME HomeInv, NEW key \in SignalKeys, NEW region
    PROVE  Query(key, region) \in Lists
<1> PICK scoped : scoped = IF region # None /\ key # "hidden" THEN SignalRows(key, region) ELSE <<>>
  OBVIOUS
<1> PICK all : all = SignalRows(key, None)
  OBVIOUS
<1> PICK rest : rest = Ids \ Range(scoped)
  OBVIOUS
<1> PICK national : national = Only(all, rest)
  OBVIOUS
<1>1. scoped \in Lists
  BY SignalRowsListed, NoneListed
<1>2. national \in Lists /\ Range(national) = Range(all) \cap rest
  <2>1. all \in Lists
    BY SignalRowsListed
  <2> QED
    BY <2>1, OnlyList
<1>3. Range(scoped) \cap Range(national) = {}
  <2> PICK ours : ours = Range(scoped)
    OBVIOUS
  <2> PICK theirs : theirs = Range(national)
    OBVIOUS
  <2> QED
    BY <1>2
<1> PICK both : both = scoped \o national
  OBVIOUS
<1>4. both \in Lists
  BY <1>1, <1>2, <1>3, JoinedList
<1>5. CardCount \in Nat
  BY HomeConstants
<1>6. Take(both, CardCount) \in Lists
  BY <1>4, <1>5, TakeList
<1> QED
  BY <1>6 DEF Query

LEMMA SignalListed ==
    ASSUME HomeInv, NEW key \in SignalKeys, NEW region \in Regions \cup {None}
    PROVE  SignalList(key, region) \in Lists
<1> PICK of : of = RegionOf(key, region)
  OBVIOUS
<1>1. of \in Regions \cup {None}
  BY DEF RegionOf
<1>2. SignalKey(key, of) \in Keys
  BY <1>1 DEF Keys
<1>3. redis[SignalKey(key, of)] \in Lists \cup {None}
  BY <1>2 DEF HomeInv
<1>4. Query(key, of) \in Lists
  BY QueryListed
<1> QED
  BY <1>3, <1>4 DEF SignalList

LEMMA SignalsKept ==
    ASSUME HomeInv, NEW asked, \A a \in asked : a[1] \in SignalKeys
    PROVE  WithSignals(asked) \in [Keys -> Lists \cup {None}]
<1>1. ASSUME NEW k \in Keys, NEW a \in asked, k = SignalKey(a[1], RegionOf(a[1], a[2]))
      PROVE  Query(k[2], k[3]) \in Lists
  <2> PICK key : key = a[1]
    OBVIOUS
  <2> PICK region : region = RegionOf(a[1], a[2])
    OBVIOUS
  <2>1. key \in SignalKeys /\ k[2] = key /\ k[3] = region
    BY <1>1 DEF SignalKey
  <2>2. Query(key, region) \in Lists
    BY <2>1, QueryListed
  <2> QED
    BY <2>1, <2>2
<1> DEFINE kept(k) == IF /\ redis[k] = None
                         /\ \E a \in asked : /\ k = SignalKey(a[1], RegionOf(a[1], a[2]))
                                             /\ Query(a[1], RegionOf(a[1], a[2])) # <<>>
                      THEN Query(k[2], k[3]) ELSE redis[k]
<1>2. ASSUME NEW k \in Keys PROVE kept(k) \in Lists \cup {None}
  <2>1. redis[k] \in Lists \cup {None}
    BY DEF HomeInv
  <2>2. CASE \E a \in asked : k = SignalKey(a[1], RegionOf(a[1], a[2]))
    BY <1>1, <2>1, <2>2
  <2>3. CASE ~\E a \in asked : k = SignalKey(a[1], RegionOf(a[1], a[2]))
    BY <2>1, <2>3
  <2> QED
    BY <2>2, <2>3
<1>3. WithSignals(asked) = [k \in Keys |-> kept(k)]
  BY DEF WithSignals
<1> HIDE DEF kept
<1> QED
  BY <1>2, <1>3

LEMMA NearbyListed ==
    ASSUME HomeInv, NEW pool PROVE NearbyRows(pool) \in Lists
<1> PICK near : near = {s \in Shown : /\ Fence(pool, s)
                                      /\ Place[s] # None /\ Distance(s, Here) <= Radius}
  OBVIOUS
<1> PICK key : key = [s \in Ids |-> IF Place[s] = None THEN 0 ELSE Distance(s, Here) - 1000 * Nearness[s]]
  OBVIOUS
<1>1. near \in SUBSET Ids
  BY DEF Shown, HomeInv
<1>2. ASSUME NEW s \in near PROVE key[s] \in Int
  <2>1. s \in Ids /\ Place[s] # None
    BY <1>1
  <2>2. Place[s] \in Int /\ Nearness[s] \in Int /\ Here \in Int
    BY <2>1, HomeConstants
  <2>3. Distance(s, Here) \in Int
    BY <2>2 DEF Distance
  <2> QED
    BY <2>1, <2>2, <2>3
<1>3. CardCount \in Nat
  BY HomeConstants
<1>4. Take(Ordered(near, key), CardCount) \in Lists
  BY ONLY <1>1, <1>2, <1>3, FirstRows
<1> QED
  BY <1>4 DEF NearbyRows

LEMMA PicksListed ==
    ASSUME HomeInv, NEW cat PROVE TastePicks(cat) \in Lists
<1> PICK rated : rated = (cat \in {"all", "spot", "hidden"})
  OBVIOUS
<1> DEFINE fits(s) == CASE cat \in {"all", "spot", "hidden"} -> In("attraction", s)
                        [] cat = "festa" -> Code[s].l1 = "EV"
                        [] OTHER -> In(cat, s)
<1> PICK rows : rows = {s \in Shown \cap Embedded : fits(s) /\ (rated => Rate[s] # None)}
  OBVIOUS
<1> PICK key : key = [s \in Ids |-> IF ~rated THEN Shuffle[s] ELSE IF Rate[s] = None THEN 0
                                    ELSE IF cat = "hidden" THEN Rate[s] ELSE -Rate[s]]
  OBVIOUS
<1> PICK first : first = FirstOfGroups(rows, Sigungu, key)
  OBVIOUS
<1>1. first \in SUBSET Ids
  BY DEF FirstOfGroups, Shown, HomeInv
<1>2. ASSUME NEW s \in first PROVE key[s] \in Int
  <2>1. s \in Ids /\ Rate[s] \in Int \cup {None} /\ Shuffle[s] \in Int
    BY <1>1, HomeConstants
  <2>2. key[s] = IF ~rated THEN Shuffle[s] ELSE IF Rate[s] = None THEN 0
                 ELSE IF cat = "hidden" THEN Rate[s] ELSE -Rate[s]
    BY <2>1
  <2> QED
    BY ONLY <2>1, <2>2
<1>3. CardCount \in Nat
  BY HomeConstants
<1>4. Take(Ordered(first, key), CardCount) \in Lists
  BY <1>1, <1>2, <1>3, FirstRows
<1>5. TastePicks(cat) = Take(Ordered(first, key), CardCount)
  BY DEF TastePicks
<1> QED
  BY <1>4, <1>5

\* A spot is of one category, the one its card is labelled with.
LEMMA OneCategory ==
    ASSUME NEW s \in Ids, NEW cat \in NearbyCategory, In(cat, s)
    PROVE  Derived(s) = cat
<1> PICK code : code = Code[s]
  OBVIOUS
<1>1. Nested(code)
  BY SpotsAssumption
<1>2. CASE cat = "attraction"
  <2>1. code.l1 \in {"HS", "NA", "EX", "VE"} /\ (code.l1 \in Tourist \/ (code.l1 = "VE" /\ code.l2 \notin ExcludedVE))
    BY <1>2 DEF In, Sight, Tourist
  <2>2. code.l2 \notin {"FD01", "FD02", "FD03", "FD05"} /\ code.l3 # "FD030100"
    BY <1>1, <2>1 DEF Nested
  <2> QED
    BY <1>2, <2>1, <2>2 DEF Derived
<1>3. CASE cat = "food"
  BY <1>3 DEF In, Derived
<1>4. CASE cat = "cafe"
  BY <1>4 DEF In, Derived
<1>5. CASE cat = "leisure"
  <2>1. code.l1 = "LS"
    BY <1>5 DEF In
  <2>2. code.l2 \notin {"FD01", "FD02", "FD03", "FD05"} /\ code.l3 # "FD030100"
    BY <1>1, <2>1 DEF Nested
  <2> QED
    BY <1>5, <2>1, <2>2 DEF Derived, Tourist
<1>6. CASE cat = "shopping"
  <2>1. code.l1 = "SH" /\ code.l2 # "SH04"
    BY <1>6 DEF In
  <2>2. code.l2 \notin {"FD01", "FD02", "FD03", "FD05"} /\ code.l3 # "FD030100"
    BY <1>1, <2>1 DEF Nested
  <2> QED
    BY <1>6, <2>1, <2>2 DEF Derived, Tourist
<1> QED
  BY <1>2, <1>3, <1>4, <1>5, <1>6 DEF NearbyCategory

LEMMA SlotListed ==
    ASSUME HomeInv, NEW n \in DOMAIN Course
    PROVE  /\ CurationSlot(Course[n]) \in Lists
           /\ \A s \in Range(CurationSlot(Course[n])) : Derived(s) = Course[n].category
<1> PICK slot : slot = Course[n]
  OBVIOUS
<1>1. slot.category \in NearbyCategory /\ slot.count \in Nat
  <2>1. Course \in Seq([category : NearbyCategory, count : Nat])
    BY HomeAssumption
  <2>2. slot \in [category : NearbyCategory, count : Nat]
    BY <2>1, LenProperties, ElementOfSeq
  <2> QED
    BY <2>2
<1> PICK rows : rows = {s \in Shown : Sigungu[s] = Program /\ In(slot.category, s)}
  OBVIOUS
<1> PICK key : key = [s \in Ids |-> IF Aesthetic[s] = None THEN 1000 ELSE -Aesthetic[s]]
  OBVIOUS
<1>2. rows \in SUBSET Ids
  BY DEF Shown, HomeInv
<1>3. ASSUME NEW s \in rows PROVE key[s] \in Int
  <2>1. s \in Ids /\ Aesthetic[s] \in Int \cup {None}
    BY <1>2, HomeConstants
  <2> QED
    BY <2>1
<1> PICK count \in Nat : count = slot.count
  BY <1>1
<1> PICK list : list = Take(Ordered(rows, key), count)
  OBVIOUS
<1>4. list \in Lists /\ Range(list) \subseteq rows
  BY ONLY <1>2, <1>3, count \in Nat, list = Take(Ordered(rows, key), count), FirstRows
<1>5. \A s \in rows : Derived(s) = slot.category
  BY <1>1, <1>2, OneCategory
<1>6. CurationSlot(slot) = list
  BY DEF CurationSlot
<1> QED
  BY <1>4, <1>5, <1>6

\* The slots of the program do not share a spot, since they are of categories of their own.
LEMMA CuratedListed ==
    ASSUME HomeInv PROVE Curated \in Lists
<1> PICK N \in Nat : N = Len(Course)
  <2>1. Course \in Seq([category : NearbyCategory, count : Nat])
    BY HomeAssumption
  <2> QED
    BY <2>1, LenProperties
<1>1. DOMAIN Course = 1..N
  <2>1. Course \in Seq([category : NearbyCategory, count : Nat])
    BY HomeAssumption
  <2> QED
    BY <2>1, LenProperties
<1>2. \A i, j \in 1..N : Course[i].category = Course[j].category => i = j
  BY <1>1, HomeAssumption
<1> DEFINE Fits(out) == out = [m \in 0..N |-> IF m = 0 THEN <<>> ELSE out[m - 1] \o CurationSlot(Course[m])]
           Made(list, n) == /\ list \in Lists
                            /\ \A s \in Range(list) : \E i \in 1..n : Derived(s) = Course[i].category
<1> DEFINE step == [i \in 1..N |-> [list \in Seq(Ids) |-> list \o CurationSlot(Course[i])]]
<1>3. step \in [1..N -> [Seq(Ids) -> Seq(Ids)]]
  <2> SUFFICES ASSUME NEW i \in 1..N, NEW list \in Seq(Ids) PROVE list \o CurationSlot(Course[i]) \in Seq(Ids)
    OBVIOUS
  <2> PICK more : more = CurationSlot(Course[i])
    OBVIOUS
  <2>1. more \in Seq(Ids)
    BY <1>1, SlotListed DEF Lists
  <2> QED
    BY <2>1, ConcatProperties
<1>4. PICK f : f \in [0..N -> Seq(Ids)] /\ f[0] = <<>> /\ \A i \in 1..N : f[i] = step[i][f[i - 1]]
  <2> HIDE DEF step
  <2>1. N \in Nat
    OBVIOUS
  <2>2. <<>> \in Seq(Ids)
    OBVIOUS
  <2>3. \E f : Steps(f, N, Seq(Ids), <<>>, step)
    BY ONLY <1>3, <2>1, <2>2, Iterated
  <2> QED
    BY <2>3 DEF Steps
<1>5. ASSUME NEW i \in 1..N
      PROVE  i - 1 \in 0..N /\ f[i] = f[i - 1] \o CurationSlot(Course[i])
  <2>1. i - 1 \in 0..N
    OBVIOUS
  <2>2. f[i - 1] \in Seq(Ids)
    BY <1>4, <2>1
  <2>3. step[i][f[i - 1]] = f[i - 1] \o CurationSlot(Course[i])
    BY <2>2
  <2> QED
    BY <1>4, <2>1, <2>3
<1> HIDE DEF step
<1>6. \A n \in 0..N : Made(f[n], n)
  <2> DEFINE T == {n \in 0..N : ~Made(f[n], n)}
  <2> SUFFICES ASSUME T # {} PROVE FALSE
    OBVIOUS
  <2>1. T \subseteq Nat
    OBVIOUS
  <2>2. PICK m \in T : \A k \in T : m <= k
    <3> HIDE DEF T
    <3> QED
      BY <2>1, LeastOf
  <2>3. Made(f[0], 0)
    BY <1>4, NoneListed
  <2>4. m \in 1..N /\ m - 1 \in 0..N /\ ~(m <= m - 1) /\ ~Made(f[m], m)
    <3>1. m \in 0..N /\ ~Made(f[m], m)
      BY <2>2
    <3>2. m # 0
      BY <2>3, <3>1
    <3> HIDE DEF Made
    <3> QED
      BY <3>1, <3>2
  <2>5. Made(f[m - 1], m - 1)
    <3> HIDE DEF Made
    <3> QED
      BY <2>2, <2>4
  <2> PICK before : before = f[m - 1]
    OBVIOUS
  <2> PICK more : more = CurationSlot(Course[m])
    OBVIOUS
  <2>6. more \in Lists /\ \A s \in Range(more) : Derived(s) = Course[m].category
    BY <1>1, <2>4, SlotListed
  <2>7. before \in Lists /\ \A s \in Range(before) : \E i \in 1..(m - 1) : Derived(s) = Course[i].category
    BY <2>5
  <2>8. Range(before) \cap Range(more) = {}
    <3> SUFFICES ASSUME NEW s \in Range(before), s \in Range(more) PROVE FALSE
      OBVIOUS
    <3>1. PICK i \in 1..(m - 1) : Derived(s) = Course[i].category
      BY <2>7
    <3>2. Course[i].category = Course[m].category
      BY <2>6, <3>1
    <3>3. i \in 1..N /\ i # m
      BY <2>4
    <3> QED
      BY <1>2, <2>4, <3>2, <3>3
  <2> PICK after : after = before \o more
    OBVIOUS
  <2>9. after \in Lists /\ Range(after) = Range(before) \cup Range(more)
    BY <2>6, <2>7, <2>8, JoinedList
  <2>10. \A s \in Range(after) : \E i \in 1..m : Derived(s) = Course[i].category
    <3> SUFFICES ASSUME NEW s \in Range(after) PROVE \E i \in 1..m : Derived(s) = Course[i].category
      OBVIOUS
    <3>1. m \in 1..m /\ \A i \in 1..(m - 1) : i \in 1..m
      BY <2>4
    <3> QED
      BY <2>6, <2>7, <2>9, <3>1
  <2>11. f[m] = after
    BY <1>5, <2>4
  <2> QED
    BY <2>4, <2>9, <2>10, <2>11
<1>7. Curated = f[N]
  <2>1. Fits(f)
    <3>1. ASSUME NEW m \in 0..N PROVE f[m] = IF m = 0 THEN <<>> ELSE f[m - 1] \o CurationSlot(Course[m])
      <4>1. m = 0 \/ m \in 1..N
        OBVIOUS
      <4> HIDE DEF Fits, Made
      <4> QED
        BY <1>4, <1>5, <4>1
    <3> QED
      BY <1>4, <3>1
  <2> PICK cards : cards = CHOOSE g : Fits(g)
    OBVIOUS
  <2>2. Fits(cards)
    <3> HIDE DEF Fits
    <3> QED
      BY <2>1
  <2>3. \A m \in 0..N : cards[m] = IF m = 0 THEN <<>> ELSE cards[m - 1] \o CurationSlot(Course[m])
    BY <2>2
  <2>4. cards[0] = f[0]
    <3>1. 0 \in 0..N
      OBVIOUS
    <3>2. cards[0] = <<>> /\ f[0] = <<>>
      BY <1>4, <2>3, <3>1
    <3> QED
      BY <3>2
  <2>5. \A i \in 1..N : cards[i - 1] = f[i - 1] => cards[i] = f[i]
    <3> SUFFICES ASSUME NEW i \in 1..N, cards[i - 1] = f[i - 1] PROVE cards[i] = f[i]
      OBVIOUS
    <3>1. i \in 0..N /\ i # 0
      OBVIOUS
    <3> QED
      BY <1>5, <2>3, <3>1
  <2>6. \A m \in 0..N : cards[m] = f[m]
    <3>1. N \in Nat
      OBVIOUS
    <3>2. KeepsPace(cards, f, N)
      BY ONLY <2>4, <2>5 DEF KeepsPace
    <3>3. AgreeUpTo(cards, f, N)
      BY ONLY <3>1, <3>2, IteratedAlike
    <3> QED
      BY ONLY <3>3 DEF AgreeUpTo
  <2>7. Curated = cards[N]
    BY DEF Curated
  <2>8. N \in 0..N
    OBVIOUS
  <2> QED
    BY ONLY <2>6, <2>7, <2>8
<1> QED
  BY <1>6, <1>7

---------------------------------------------------------------------------
\* The recommendations.

LEMMA ImageCounted ==
    ASSUME NEW S, IsFiniteSet(S), NEW g, \A x, y \in S : g[x] = g[y] => x = y
    PROVE  IsFiniteSet({g[x] : x \in S}) /\ Cardinality({g[x] : x \in S}) = Cardinality(S)
<1> PICK all : all = {g[x] : x \in S}
  OBVIOUS
<1> PICK h : h = [x \in S |-> g[x]]
  OBVIOUS
<1>1. h \in Surjection(S, all) /\ h \in Injection(S, all)
  <2>1. h \in [S -> all] /\ (\A y \in all : \E x \in S : h[x] = y) /\ \A x, y \in S : h[x] = h[y] => x = y
    OBVIOUS
  <2> QED
    BY <2>1 DEF Surjection, Injection, IsInjective
<1>2. IsFiniteSet(all) /\ Cardinality(all) <= Cardinality(S)
  BY <1>1, FS_Surjection
<1>3. Cardinality(S) <= Cardinality(all)
  BY <1>1, <1>2, FS_Injection
<1>4. Cardinality(all) \in Nat /\ Cardinality(S) \in Nat
  BY <1>2, FS_CardinalityType
<1>5. Cardinality(all) = Cardinality(S)
  BY ONLY <1>2, <1>3, <1>4
<1> QED
  BY <1>2, <1>5

\* The first places of the classes, then the others: each place once.
LEMMA PlacesDivided ==
    ASSUME NEW n \in Nat, n <= SpotCount, NEW A \in SUBSET 1..n
    PROVE  LET first == InOrder(A)
               later == InOrder(1..n \ Range(first))
           IN  /\ first \in Lists /\ Range(first) = A /\ Len(first) = Cardinality(A)
               /\ first \o later \in Lists /\ Range(first \o later) = 1..n /\ Len(first \o later) = n
               /\ \A k \in 1..Len(first) : (first \o later)[k] = first[k]
<1>1. 1..n \in SUBSET Ids /\ A \in SUBSET Ids
  BY SpotsAssumption DEF Ids
<1>2. ASSUME NEW S \in SUBSET Ids PROVE InOrder(S) \in Lists /\ Range(InOrder(S)) = S
  <2> PICK same : same = [s \in S |-> s]
    OBVIOUS
  <2>1. \A s \in S : same[s] \in Int
    BY IdsFinite
  <2>2. Ordered(S, same) \in Lists /\ Range(Ordered(S, same)) = S
    BY <2>1, OrderedList
  <2> QED
    BY <2>2 DEF InOrder
<1> PICK first : first = InOrder(A)
  OBVIOUS
<1>3. first \in Lists /\ Range(first) = A
  BY <1>1, <1>2
<1> PICK others : others = 1..n \ Range(first)
  OBVIOUS
<1> PICK later : later = InOrder(others)
  OBVIOUS
<1>4. later \in Lists /\ Range(later) = others
  BY <1>1, <1>2
<1> PICK both : both = first \o later
  OBVIOUS
<1>5. Range(first) \cap Range(later) = {}
  <2> PICK ours : ours = Range(first)
    OBVIOUS
  <2> QED
    BY <1>4
<1>6. both \in Lists /\ Range(both) = Range(first) \cup Range(later)
  BY <1>3, <1>4, <1>5, JoinedList
<1>7. Range(both) = 1..n
  BY <1>3, <1>4, <1>6
<1>8. Len(first) = Cardinality(A)
  BY <1>3, ListCounted
<1>9. Len(both) = n
  <2>1. Cardinality(1..n) = n
    BY ONLY n \in Nat, FS_Interval
  <2>2. Cardinality(Range(both)) = Len(both)
    BY <1>6, ListCounted
  <2> QED
    BY <1>7, <2>1, <2>2
<1>10. \A k \in 1..Len(first) : both[k] = first[k]
  <2>1. first \in Seq(Ids) /\ later \in Seq(Ids) /\ Len(first) \in Nat /\ Len(later) \in Nat
    BY <1>3, <1>4, PartsOfList
  <2>2. \A k \in 1..(Len(first) + Len(later)) : both[k] = IF k <= Len(first) THEN first[k] ELSE later[k - Len(first)]
    BY <2>1, ConcatProperties
  <2>3. \A k \in 1..Len(first) : k \in 1..(Len(first) + Len(later)) /\ k <= Len(first)
    BY <2>1
  <2> QED
    BY <2>2, <2>3
<1> QED
  BY <1>3, <1>6, <1>7, <1>8, <1>9, <1>10

\* The classes of the rows, by the saved spot each is most like.
Likes(seeds, rows) == {ClosestOf(seeds, rows[i]) : i \in DOMAIN rows}

\* The first rows of as many classes as there are, and no row twice.
LEMMA SpreadFirst ==
    ASSUME NEW rows \in Lists, NEW seeds, NEW limit \in Nat
    PROVE  LET cards == Diversified(rows, seeds, limit)
           IN  /\ cards \in Lists
               /\ Cardinality(Likes(seeds, cards))
                    = IF Cardinality(Likes(seeds, rows)) < limit THEN Cardinality(Likes(seeds, rows)) ELSE limit
<1> PICK n \in Nat : n = Len(rows)
  BY PartsOfList
<1>1. /\ rows \in Seq(Ids) /\ DOMAIN rows = 1..n /\ \A i \in 1..n : rows[i] \in Ids
      /\ \A i, j \in 1..n : rows[i] = rows[j] => i = j
      /\ Range(rows) = {rows[i] : i \in 1..n}
  BY PartsOfList
<1>2. n <= SpotCount
  <2>1. Range(rows) \subseteq Ids
    BY <1>1
  <2>2. Ids = 1..SpotCount /\ SpotCount \in Nat
    BY SpotsAssumption DEF Ids
  <2>3. IsFiniteSet(1..SpotCount) /\ Cardinality(1..SpotCount) = SpotCount
    BY ONLY <2>2, FS_Interval
  <2>4. Cardinality(Range(rows)) <= Cardinality(Ids)
    BY ONLY <2>1, <2>2, <2>3, FS_Subset
  <2>5. Cardinality(Range(rows)) = n
    BY ListCounted
  <2> QED
    BY <2>2, <2>3, <2>4, <2>5
<1> PICK class : class = [i \in 1..n |-> ClosestOf(seeds, rows[i])]
  OBVIOUS
<1> PICK A : A = FirstOfClass(class, n)
  OBVIOUS
<1>3. A = {i \in DOMAIN rows : \A j \in 1..(i - 1) : ClosestOf(seeds, rows[j]) # ClosestOf(seeds, rows[i])}
  <2>1. \A i \in 1..n : \A j \in 1..(i - 1) : j \in 1..n
    OBVIOUS
  <2>2. \A i \in 1..n : class[i] = ClosestOf(seeds, rows[i])
    OBVIOUS
  <2> QED
    BY <1>1, <2>1, <2>2 DEF FirstOfClass
<1>4. A \in SUBSET 1..n
  BY DEF FirstOfClass
<1> PICK first : first = InOrder(A)
  OBVIOUS
<1> PICK later : later = InOrder(1..n \ Range(first))
  OBVIOUS
<1> PICK order : order = first \o later
  OBVIOUS
<1>5. /\ first \in Lists /\ Range(first) = A /\ Len(first) = Cardinality(A)
      /\ order \in Lists /\ Range(order) = 1..n /\ Len(order) = n
      /\ \A k \in 1..Len(first) : order[k] = first[k]
  BY <1>2, <1>4, PlacesDivided
<1> PICK shuffled : shuffled = [i \in 1..n |-> rows[order[i]]]
  OBVIOUS
<1> PICK cards : cards = Diversified(rows, seeds, limit)
  OBVIOUS
<1>6. cards = Take(shuffled, limit)
  BY <1>1, <1>3 DEF Diversified
<1>7. \A i \in 1..n : order[i] \in 1..n /\ shuffled[i] = rows[order[i]] /\ shuffled[i] \in Ids
  <2>1. Range(order) = {order[i] : i \in 1..n}
    <3>1. Range(order) = {order[i] : i \in 1..Len(order)}
      BY <1>5, PartsOfList
    <3>2. Len(order) = n
      BY <1>5
    <3> QED
      BY ONLY <3>1, <3>2
  <2>2. \A i \in 1..n : order[i] \in 1..n
    <3>1. Range(order) = 1..n
      BY ONLY <1>5
    <3> QED
      BY ONLY <2>1, <3>1
  <2> QED
    BY <1>1, <2>2
<1>8. shuffled \in Seq(Ids) /\ Len(shuffled) = n
  <2>1. shuffled \in [1..n -> Ids]
    BY <1>7
  <2>2. shuffled \in Seq(Ids)
    BY ONLY <2>1, n \in Nat, ListedSeq
  <2>3. 1..Len(shuffled) = 1..n /\ Len(shuffled) \in Nat
    BY <2>1, <2>2, LenProperties
  <2> QED
    BY ONLY <2>2, <2>3, n \in Nat, SameEnd
<1>9. shuffled \in Lists
  <2>1. \A i, j \in 1..n : order[i] = order[j] => i = j
    <3>1. \A i, j \in 1..Len(order) : order[i] = order[j] => i = j
      <4>1. order \in Lists
        BY <1>5
      <4> QED
        BY ONLY <4>1 DEF Lists
    <3>2. Len(order) = n
      BY <1>5
    <3> QED
      BY ONLY <3>1, <3>2
  <2>2. ASSUME NEW i \in 1..n, NEW j \in 1..n, shuffled[i] = shuffled[j] PROVE i = j
    <3>1. order[i] = order[j]
      BY <1>1, <1>7, <2>2
    <3> QED
      BY <2>1, <3>1
  <2> QED
    BY ONLY <1>8, <2>2 DEF Lists
<1> PICK k \in Nat : k = IF n < limit THEN n ELSE limit
  OBVIOUS
<1>10. cards \in Lists /\ Len(cards) = k /\ \A i \in 1..k : cards[i] = shuffled[i]
  <2>1. /\ Take(shuffled, limit) \in Lists
        /\ Len(Take(shuffled, limit)) = IF Len(shuffled) < limit THEN Len(shuffled) ELSE limit
    BY ONLY <1>9, limit \in Nat, TakeList
  <2>2. \A i \in 1..Len(Take(shuffled, limit)) : Take(shuffled, limit)[i] = shuffled[i]
    BY ONLY <1>8, limit \in Nat, TakeLists
  <2>3. Len(cards) = k
    BY <1>6, <1>8, <2>1
  <2> QED
    BY ONLY <1>6, <2>1, <2>2, <2>3
<1>11. DOMAIN cards = 1..k
  BY <1>10, PartsOfList
<1>12. \A i \in 1..k : i \in 1..n
  OBVIOUS
<1>13. \A i \in 1..k : ClosestOf(seeds, cards[i]) = class[order[i]]
  BY <1>7, <1>10, <1>12
<1> PICK all : all = {class[i] : i \in 1..n}
  OBVIOUS
<1> PICK shown : shown = {class[order[i]] : i \in 1..k}
  OBVIOUS
<1>14. Likes(seeds, rows) = all /\ Likes(seeds, cards) = shown
  <2>1. \A i \in 1..n : ClosestOf(seeds, rows[i]) = class[i]
    OBVIOUS
  <2>2. {ClosestOf(seeds, rows[i]) : i \in 1..n} = {class[i] : i \in 1..n}
    BY ONLY <2>1
  <2>3. {ClosestOf(seeds, cards[i]) : i \in 1..k} = {class[order[i]] : i \in 1..k}
    BY ONLY <1>13
  <2> QED
    BY <1>1, <1>11, <2>2, <2>3 DEF Likes
<1>15. /\ \A i \in 1..n : \E j \in A : class[j] = class[i]
       /\ \A i, j \in A : class[i] = class[j] => i = j
  <2>1. A = FirstOfClass(class, n) /\ n \in Nat
    OBVIOUS
  <2> QED
    BY ONLY <2>1, ClassesFirst
<1> PICK m \in Nat : m = Len(first)
  BY <1>5, PartsOfList
<1>16. Cardinality(all) = m /\ m <= n
  <2>1. all = {class[i] : i \in A}
    <3>1. all = {class[i] : i \in 1..n}
      OBVIOUS
    <3>2. ASSUME NEW c \in all PROVE \E i \in A : c = class[i]
      BY ONLY <1>15, <3>1, c \in all
    <3>3. ASSUME NEW i \in A PROVE class[i] \in all
      BY ONLY <1>4, <3>1, i \in A
    <3> QED
      BY ONLY <3>2, <3>3
  <2>2. IsFiniteSet(1..n) /\ Cardinality(1..n) = n
    BY ONLY n \in Nat, FS_Interval
  <2>3. IsFiniteSet(A) /\ Cardinality(A) <= Cardinality(1..n)
    BY ONLY <1>4, <2>2, FS_Subset
  <2>4. Cardinality({class[i] : i \in A}) = Cardinality(A)
    BY ONLY <1>15, <2>3, ImageCounted
  <2> QED
    BY <1>5, <2>1, <2>2, <2>3, <2>4
<1>17. /\ \A i \in 1..m : first[i] \in A /\ order[i] = first[i]
       /\ \A i, j \in 1..m : first[i] = first[j] => i = j
       /\ \A a \in A : \E i \in 1..m : first[i] = a
  <2>1. /\ Range(first) = {first[i] : i \in 1..Len(first)}
        /\ \A i, j \in 1..Len(first) : first[i] = first[j] => i = j
    <3>1. first \in Lists
      BY <1>5
    <3> QED
      BY ONLY <3>1, PartsOfList
  <2>2. Len(first) = m
    OBVIOUS
  <2>3. Range(first) = {first[i] : i \in 1..m} /\ \A i, j \in 1..m : first[i] = first[j] => i = j
    BY ONLY <2>1, <2>2
  <2>4. A = {first[i] : i \in 1..m} /\ \A i \in 1..m : order[i] = first[i]
    BY <1>5, <2>2, <2>3
  <2> QED
    BY ONLY <2>3, <2>4
<1>18. CASE m < limit
  <2>1. \A i \in 1..m : i \in 1..k
    BY <1>16, <1>18
  <2>2. ASSUME NEW c \in all PROVE c \in shown
    <3>1. PICK a \in A : class[a] = c
      <4>1. \E i \in 1..n : class[i] = c
        BY <2>2
      <4> QED
        BY ONLY <1>15, <4>1
    <3>2. PICK i \in 1..m : first[i] = a
      BY <1>17
    <3>3. i \in 1..k /\ class[order[i]] = c
      BY <1>17, <2>1, <3>1, <3>2
    <3>4. shown = {class[order[j]] : j \in 1..k}
      OBVIOUS
    <3> QED
      BY ONLY <3>3, <3>4
  <2>3. ASSUME NEW c \in shown PROVE c \in all
    <3>1. PICK i \in 1..k : c = class[order[i]]
      OBVIOUS
    <3> QED
      BY <1>7, <1>12, <3>1
  <2>4. shown = all
    BY <2>2, <2>3
  <2> QED
    BY <1>10, <1>14, <1>16, <1>18, <2>4
<1>19. CASE ~(m < limit)
  <2>1. k = limit /\ \A i \in 1..k : i \in 1..m
    <3>1. k = IF n < limit THEN n ELSE limit
      OBVIOUS
    <3>2. n \in Nat /\ m \in Nat /\ limit \in Nat /\ m <= n
      BY <1>16
    <3> QED
      BY ONLY <1>19, <3>1, <3>2
  <2>2. ASSUME NEW i \in 1..k, NEW j \in 1..k, class[order[i]] = class[order[j]] PROVE i = j
    <3>1. i \in 1..m /\ j \in 1..m
      BY ONLY <2>1, i \in 1..k, j \in 1..k
    <3>2. first[i] \in A /\ order[i] = first[i] /\ first[j] \in A /\ order[j] = first[j]
      BY ONLY <1>17, <3>1
    <3>3. class[first[i]] = class[first[j]]
      BY ONLY <2>2, <3>2
    <3>4. first[i] = first[j]
      BY ONLY <1>15, <3>2, <3>3
    <3> QED
      BY ONLY <1>17, <3>1, <3>4
  <2> PICK g : g = [i \in 1..k |-> class[order[i]]]
    OBVIOUS
  <2>3. IsFiniteSet(1..k) /\ Cardinality(1..k) = k
    BY ONLY k \in Nat, FS_Interval
  <2>4. \A i, j \in 1..k : g[i] = g[j] => i = j
    <3>1. g = [i \in 1..k |-> class[order[i]]]
      OBVIOUS
    <3> QED
      BY ONLY <2>2, <3>1
  <2>5. Cardinality({g[i] : i \in 1..k}) = Cardinality(1..k)
    <3> PICK S : S = 1..k
      OBVIOUS
    <3>1. IsFiniteSet(S) /\ \A i, j \in S : g[i] = g[j] => i = j
      BY ONLY <2>3, <2>4, S = 1..k
    <3>2. Cardinality({g[i] : i \in S}) = Cardinality(S)
      BY ONLY <3>1, ImageCounted
    <3> QED
      BY ONLY <3>2, S = 1..k
  <2>6. {g[i] : i \in 1..k} = shown
    OBVIOUS
  <2> QED
    BY <1>10, <1>14, <1>16, <1>19, <2>1, <2>3, <2>5, <2>6
<1> QED
  BY <1>18, <1>19

---------------------------------------------------------------------------
\* What the requests of the home screen answer.

LEMMA CardsOnce ==
    ASSUME \A i, j \in DOMAIN answer'.cards :
             answer'.cards[i] = answer'.cards[j] /\ answer'.cards[i] # None => i = j
    PROVE  NoCardTwice'
<1>1. CASE answer' # None /\ answer'.kind \notin {"metas", "unready"}
  BY <1>1 DEF NoCardTwice, Cards
<1>2. CASE ~(answer' # None /\ answer'.kind \notin {"metas", "unready"})
  BY <1>2 DEF NoCardTwice, Cards
<1> QED
  BY <1>1, <1>2

LEMMA ListAnswered ==
    ASSUME NEW list \in Lists, NEW kind \in {"signal", "ranking", "picks", "curation"}, Answered(kind, list)
    PROVE  RankingsHold'
<1> PICK a : a = [kind |-> kind, cards |-> list]
  OBVIOUS
<1>1. a.kind = kind /\ a.cards = list /\ DOMAIN a = {"kind", "cards"} /\ answer' = a
  BY DEF Answered
<1>2. NoCardTwice'
  <2>1. DOMAIN list = 1..Len(list) /\ \A i, j \in 1..Len(list) : list[i] = list[j] => i = j
    BY PartsOfList
  <2> QED
    BY <1>1, <2>1, CardsOnce
<1>3. kind # "map" /\ kind # "taste" /\ "pools" \notin DOMAIN a
  BY <1>1
<1> QED
  BY <1>1, <1>2, <1>3 DEF RankingsHold, RankingIsFull, GroupIsCategory, RecommendedSpread

LEMMA NothingAnswered ==
    ASSUME answer' = None \/ answer'.kind \in {"metas", "unready"}
    PROVE  RankingsHold'
<1>1. Cards' = <<>>
  BY DEF Cards
<1>2. NoCardTwice'
  BY <1>1 DEF NoCardTwice
<1> QED
  BY <1>2 DEF RankingsHold, RankingIsFull, GroupIsCategory, RecommendedSpread

LEMMA RankingAnswered ==
    ASSUME NEW list \in Lists, NEW pools, Len(list) = Whole(pools, CardCount),
           answer' = [kind |-> "ranking", cards |-> list, pools |-> pools]
    PROVE  RankingsHold'
<1> PICK a : a = [kind |-> "ranking", cards |-> list, pools |-> pools]
  OBVIOUS
<1>1. a.kind = "ranking" /\ a.cards = list /\ a.pools = pools /\ answer' = a
  OBVIOUS
<1>2. NoCardTwice'
  <2>1. DOMAIN list = 1..Len(list) /\ \A i, j \in 1..Len(list) : list[i] = list[j] => i = j
    BY PartsOfList
  <2> QED
    BY <1>1, <2>1, CardsOnce
<1>3. RankingIsFull'
  BY <1>1 DEF RankingIsFull, Whole, AllCards
<1> QED
  BY <1>1, <1>2, <1>3 DEF RankingsHold, GroupIsCategory, RecommendedSpread

\* All the pools, or one of them.
Asked(cat, pools) == IF cat = "all" THEN pools ELSE [name \in {cat} |-> pools[name]]

LEMMA RankedWhole ==
    ASSUME NEW cat, NEW pools, PoolsOfLists(pools), NEW X, NEW pattern \in Seq(X),
           cat = "all" => DOMAIN pools \subseteq Range(pattern), cat # "all" => cat \in DOMAIN pools
    PROVE  LET cards == Ranked(cat, pools, pattern)
           IN  cards \in Lists /\ Len(cards) = Whole(Asked(cat, pools), CardCount)
<1> PICK limit : limit = CardCount
  OBVIOUS
<1>1. limit \in Nat
  BY HomeConstants
<1> PICK cards : cards = Ranked(cat, pools, pattern)
  OBVIOUS
<1> PICK asked : asked = Asked(cat, pools)
  OBVIOUS
<1>2. CASE cat = "all"
  <2>1. cards = Interleaved(pools, pattern, limit) /\ asked = pools
    BY <1>2 DEF Ranked, Asked
  <2>2. DOMAIN pools \subseteq Range(pattern)
    BY <1>2
  <2> PICK some : some = Interleaved(pools, pattern, limit)
    OBVIOUS
  <2>3. some \in Lists /\ Len(some) = Whole(pools, limit)
    BY <1>1, <2>2, InterleavedWhole
  <2> QED
    BY <2>1, <2>3
<1>3. CASE cat # "all"
  <2> PICK pool : pool = pools[cat]
    OBVIOUS
  <2>1. pool \in Lists
    BY <1>3 DEF PoolsOfLists
  <2>2. cards = Take(pool, limit)
    BY <1>3 DEF Ranked
  <2>3. cards \in Lists /\ Len(cards) = IF Len(pool) < limit THEN Len(pool) ELSE limit
    BY <1>1, <2>1, <2>2, TakeList
  <2>4. AllCards(asked) = Range(pool)
    <3>1. DOMAIN asked = {cat} /\ asked[cat] = pool
      BY <1>3 DEF Asked
    <3> QED
      BY ONLY <3>1 DEF AllCards
  <2>5. Cardinality(Range(pool)) = Len(pool)
    BY <2>1, ListCounted
  <2> QED
    BY <2>3, <2>4, <2>5 DEF Whole
<1> QED
  BY <1>2, <1>3

RedisTyped == redis \in [Keys -> Lists \cup {None}]

LEMMA ListKept ==
    ASSUME RedisTyped, NEW key \in Keys, NEW list \in Lists, redis' = [redis EXCEPT ![key] = list]
    PROVE  RedisTyped'
  BY DEF RedisTyped

LEMMA FestaLoads ==
    ASSUME NEW ids \in FestaLists, NEW located \in BOOLEAN, LoadFesta(ids, located)
    PROVE  RankingsHold'
<1> PICK key : key = [s \in Ids |-> IF Place[s] = None THEN 1000 ELSE Distance(s, Here)]
  OBVIOUS
<1>1. ids \in Lists
  <2>1. ids \in Seq(Ids) /\ \A i, j \in DOMAIN ids : ids[i] = ids[j] => i = j
    BY HomeAssumption DEF IsInjective
  <2> QED
    BY <2>1, LenProperties DEF Lists
<1>2. Range(ids) \subseteq Ids
  BY <1>1, PartsOfList
<1>3. \A s \in Range(ids) : key[s] \in Int
  <2> SUFFICES ASSUME NEW s \in Ids PROVE key[s] \in Int
    BY <1>2
  <2>1. Place[s] # None => Place[s] \in Int /\ Here \in Int
    BY HomeConstants
  <2>2. Place[s] # None => Distance(s, Here) \in Int
    BY <2>1 DEF Distance
  <2> QED
    BY <2>2
<1> PICK all : all = Range(ids)
  OBVIOUS
<1>4. Ordered(all, key) \in Lists
  BY <1>2, <1>3, OrderedList
<1> PICK list : list = IF located THEN SortFestaByDistance(ids) ELSE ids
  OBVIOUS
<1>5. list \in Lists
  BY <1>1, <1>4 DEF SortFestaByDistance
<1> PICK cards : cards = DropUnresolvableDetails(list)
  OBVIOUS
<1>6. DOMAIN cards = DOMAIN list /\ \A i \in DOMAIN list : cards[i] = list[i] \/ cards[i] = None
  BY DEF DropUnresolvableDetails
<1> PICK a : a = [kind |-> "festa", cards |-> cards]
  OBVIOUS
<1>7. a.kind = "festa" /\ a.cards = cards /\ answer' = a
  BY DEF LoadFesta, Answered
<1>8. \A i, j \in DOMAIN cards : cards[i] = cards[j] /\ cards[i] # None => i = j
  <2>1. DOMAIN list = 1..Len(list) /\ \A i, j \in 1..Len(list) : list[i] = list[j] => i = j
    BY ONLY <1>5, PartsOfList
  <2> QED
    BY ONLY <1>6, <2>1
<1>9. NoCardTwice'
  BY <1>7, <1>8, CardsOnce
<1> QED
  BY <1>7, <1>9 DEF RankingsHold, RankingIsFull, GroupIsCategory, RecommendedSpread

LEMMA TrendingLoads ==
    ASSUME HomeInv, NEW cat \in HomeCategories, NEW festa \in FestaLists, LoadTrending(cat, festa)
    PROVE  RedisTyped' /\ RankingsHold'
<1> PICK key : key = <<"trending", cat>>
  OBVIOUS
<1>1. key \in Keys
  BY DEF Keys
<1>2. redis[key] \in Lists \cup {None} /\ RedisTyped
  BY <1>1 DEF HomeInv, RedisTyped
<1>3. CASE redis[key] # None
  <2> PICK list : list = redis[key]
    OBVIOUS
  <2>1. list \in Lists /\ Answered("ranking", list) /\ redis' = redis
    BY <1>2, <1>3 DEF LoadTrending
  <2>2. RankingsHold'
    BY <2>1, ListAnswered
  <2> QED
    BY <1>2, <2>1, <2>2 DEF RedisTyped
<1>4. CASE redis[key] = None
  <2> PICK wanted : wanted = IF cat = "all" THEN Range(Pools) ELSE {cat}
    OBVIOUS
  <2> PICK pools : pools = [name \in wanted \cup {"festa"} |-> IF name = "festa" THEN festa ELSE SignalList(name, None)]
    OBVIOUS
  <2> PICK cards : cards = Ranked(cat, pools, TrendingPattern)
    OBVIOUS
  <2> PICK asked : asked = {<<name, None>> : name \in wanted}
    OBVIOUS
  <2> PICK shown : shown = IF cat = "all" THEN pools ELSE [name \in {cat} |-> pools[name]]
    OBVIOUS
  <2>1. /\ redis' = [WithSignals(asked) EXCEPT ![key] = cards]
        /\ answer' = [kind |-> "ranking", cards |-> cards, pools |-> shown]
    BY <1>4 DEF LoadTrending
  <2>2. wanted \subseteq {"spot", "cafe", "food"}
    <3>1. Range(Pools) = {"spot", "cafe", "food"}
      BY DEF Pools, Range
    <3> QED
      BY <3>1 DEF HomeCategories
  <2>3. festa \in Lists
    <3>1. festa \in Seq(Ids) /\ \A i, j \in DOMAIN festa : festa[i] = festa[j] => i = j
      BY HomeAssumption DEF IsInjective
    <3> QED
      BY <3>1, LenProperties DEF Lists
  <2>4. PoolsOfLists(pools)
    <3> SUFFICES ASSUME NEW name \in wanted \cup {"festa"} PROVE pools[name] \in Lists
      BY DEF PoolsOfLists
    <3>1. name # "festa" => name \in SignalKeys
      BY <2>2 DEF SignalKeys
    <3>2. name # "festa" => SignalList(name, None) \in Lists
      BY <3>1, SignalListed
    <3> QED
      BY <2>3, <3>2
  <2>5. TrendingPattern \in Seq(STRING) /\ Range(TrendingPattern) = {"spot", "cafe", "food", "festa"}
    BY HomeAssumption
  <2>6. cards \in Lists /\ Len(cards) = Whole(shown, CardCount)
    <3>1. DOMAIN pools \subseteq Range(TrendingPattern)
      BY <2>2, <2>5
    <3>2. cat # "all" => cat \in DOMAIN pools
      OBVIOUS
    <3> PICK pattern : pattern = TrendingPattern
      OBVIOUS
    <3> PICK X : X = STRING
      OBVIOUS
    <3>3. pattern \in Seq(X)
      BY <2>5
    <3>4. cat = "all" => DOMAIN pools \subseteq Range(pattern)
      BY <3>1
    <3> PICK ranked : ranked = Ranked(cat, pools, pattern)
      OBVIOUS
    <3>5. ranked \in Lists /\ Len(ranked) = Whole(Asked(cat, pools), CardCount)
      BY ONLY <2>4, <3>2, <3>3, <3>4, ranked = Ranked(cat, pools, pattern), RankedWhole
    <3>6. shown = Asked(cat, pools)
      BY DEF Asked
    <3> QED
      BY <3>5, <3>6
  <2>7. RankingsHold'
    BY <2>1, <2>6, RankingAnswered
  <2>8. WithSignals(asked) \in [Keys -> Lists \cup {None}]
    <3>1. ASSUME NEW a \in asked PROVE a[1] \in SignalKeys
      BY <2>2 DEF SignalKeys
    <3> QED
      BY <3>1, SignalsKept
  <2> PICK kept : kept = WithSignals(asked)
    OBVIOUS
  <2>9. RedisTyped'
    <3>1. redis' = [kept EXCEPT ![key] = cards] /\ kept \in [Keys -> Lists \cup {None}] /\ cards \in Lists
      BY <2>1, <2>6, <2>8
    <3> QED
      BY ONLY <1>1, <3>1 DEF RedisTyped
  <2> QED
    BY <2>7, <2>9
<1> QED
  BY <1>3, <1>4

LEMMA NearbyLoads ==
    ASSUME HomeInv, NEW cat \in HomeCategories, LoadNearby(cat)
    PROVE  RedisTyped' /\ RankingsHold'
<1> PICK key : key = <<"nearby", cat>>
  OBVIOUS
<1>1. key \in Keys
  BY DEF Keys
<1>2. redis[key] \in Lists \cup {None} /\ RedisTyped
  BY <1>1 DEF HomeInv, RedisTyped
<1>3. CASE redis[key] # None
  <2> PICK list : list = redis[key]
    OBVIOUS
  <2>1. list \in Lists /\ Answered("ranking", list) /\ redis' = redis
    BY <1>2, <1>3 DEF LoadNearby
  <2>2. RankingsHold'
    BY <2>1, ListAnswered
  <2> QED
    BY <1>2, <2>1, <2>2 DEF RedisTyped
<1>4. CASE redis[key] = None
  <2> PICK names : names = IF cat = "all" THEN Range(Pools) ELSE {cat}
    OBVIOUS
  <2> PICK pools : pools = [name \in names |-> NearbyRows(name)]
    OBVIOUS
  <2> PICK cards : cards = Ranked(cat, pools, NearbyPattern)
    OBVIOUS
  <2>1. /\ redis' = [redis EXCEPT ![key] = cards]
        /\ answer' = [kind |-> "ranking", cards |-> cards, pools |-> pools]
    BY <1>4 DEF LoadNearby
  <2>2. PoolsOfLists(pools)
    BY NearbyListed DEF PoolsOfLists
  <2>3. NearbyPattern \in Seq(STRING) /\ Range(NearbyPattern) = {"spot", "cafe", "food"}
    BY HomeAssumption
  <2> PICK shown : shown = IF cat = "all" THEN pools ELSE [name \in {cat} |-> pools[name]]
    OBVIOUS
  <2>4. shown = pools
    OBVIOUS
  <2>5. cards \in Lists /\ Len(cards) = Whole(shown, CardCount)
    <3>1. cat = "all" => DOMAIN pools \subseteq Range(NearbyPattern)
      <4>1. Range(Pools) = {"spot", "cafe", "food"}
        BY DEF Pools, Range
      <4> QED
        BY <2>3, <4>1
    <3>2. cat # "all" => cat \in DOMAIN pools
      OBVIOUS
    <3> PICK pattern : pattern = NearbyPattern
      OBVIOUS
    <3> PICK X : X = STRING
      OBVIOUS
    <3>3. pattern \in Seq(X)
      BY <2>3
    <3>4. cat = "all" => DOMAIN pools \subseteq Range(pattern)
      BY <3>1
    <3> PICK ranked : ranked = Ranked(cat, pools, pattern)
      OBVIOUS
    <3>5. ranked \in Lists /\ Len(ranked) = Whole(Asked(cat, pools), CardCount)
      BY ONLY <2>2, <3>2, <3>3, <3>4, ranked = Ranked(cat, pools, pattern), RankedWhole
    <3>6. shown = Asked(cat, pools)
      BY DEF Asked
    <3> QED
      BY <3>5, <3>6
  <2>6. RankingsHold'
    BY <2>1, <2>4, <2>5, RankingAnswered
  <2>7. RedisTyped'
    BY <1>1, <1>2, <2>1, <2>5, ListKept
  <2> QED
    BY <2>6, <2>7
<1> QED
  BY <1>3, <1>4

LEMMA RecommendationsLoad ==
    ASSUME HomeInv, NEW saved, LoadRecommendations(saved)
    PROVE  RankingsHold'
<1> PICK seeds : seeds = Take(Only(saved, visible), SeedLimit)
  OBVIOUS
<1> PICK liked : liked = Range(seeds)
  OBVIOUS
<1> PICK known : known = liked \cap Embedded
  OBVIOUS
<1> PICK list : list = TasteNeighbors(liked)
  OBVIOUS
<1>1. list \in Lists
  <2> PICK rows : rows = {s \in (Shown \cap Embedded) \ liked : In("attraction", s)}
    OBVIOUS
  <2> PICK far : far = [s \in Ids |-> Total(known, [a \in known |-> Between[a][s]])]
    OBVIOUS
  <2>1. rows \in SUBSET Ids
    BY DEF Shown, HomeInv
  <2>2. ASSUME NEW s \in rows PROVE far[s] \in Int
    <3> PICK key : key = [a \in known |-> Between[a][s]]
      OBVIOUS
    <3>1. s \in Ids
      BY <2>1
    <3>2. known \subseteq Ids
      BY HomeAssumption
    <3>3. known \in SUBSET Int /\ IsFiniteSet(known)
      BY <3>2, IdsFinite
    <3>4. \A a \in known : key[a] \in Int
      BY <3>1, HomeAssumption
    <3>5. Total(known, key) \in Int
      BY ONLY <3>3, <3>4, TotalTyped
    <3> QED
      BY <3>1, <3>5
  <2> PICK n : n = TasteLimit * NeighborOverfetch
    OBVIOUS
  <2>3. n \in Nat
    BY HomeConstants
  <2>4. Take(Ordered(rows, far), n) \in Lists
    BY ONLY <2>1, <2>2, <2>3, FirstRows
  <2>5. list = IF known = {} THEN <<>> ELSE Take(Ordered(rows, far), n)
    BY DEF TasteNeighbors
  <2> QED
    BY <2>4, <2>5, NoneListed
<1>2. CASE Len(seeds) < MinTasteSeeds
  <2>1. answer' = [kind |-> "unready", saved |-> Len(seeds)]
    BY <1>2 DEF LoadRecommendations
  <2> PICK a : a = [kind |-> "unready", saved |-> Len(seeds)]
    OBVIOUS
  <2>2. a.kind = "unready" /\ answer' = a
    BY <2>1
  <2> QED
    BY <2>2, NothingAnswered
<1>3. CASE ~(Len(seeds) < MinTasteSeeds)
  <2> PICK limit : limit = TasteLimit
    OBVIOUS
  <2> PICK cards : cards = Diversified(list, known, limit)
    OBVIOUS
  <2>1. answer' = [kind |-> "taste", cards |-> cards, rows |-> list, seeds |-> known]
    BY <1>3 DEF LoadRecommendations
  <2> PICK a : a = [kind |-> "taste", cards |-> cards, rows |-> list, seeds |-> known]
    OBVIOUS
  <2>2. a.kind = "taste" /\ a.cards = cards /\ a.rows = list /\ a.seeds = known /\ answer' = a
    BY <2>1
  <2>3. limit \in Nat
    BY HomeConstants
  <2>4. /\ cards \in Lists
        /\ Cardinality(Likes(known, cards))
             = IF Cardinality(Likes(known, list)) < limit THEN Cardinality(Likes(known, list)) ELSE limit
    BY <1>1, <2>3, SpreadFirst
  <2>5. NoCardTwice'
    <3>0. cards \in Lists
      BY ONLY <2>4
    <3>1. DOMAIN cards = 1..Len(cards) /\ \A i, j \in 1..Len(cards) : cards[i] = cards[j] => i = j
      BY ONLY <3>0, PartsOfList
    <3>2. \A i, j \in DOMAIN answer'.cards : answer'.cards[i] = answer'.cards[j] /\ answer'.cards[i] # None => i = j
      <4>1. answer'.cards = cards
        BY ONLY <2>2
      <4> QED
        BY ONLY <3>1, <4>1
    <3> QED
      BY ONLY <3>2, CardsOnce
  <2>6. RecommendedSpread'
    BY <2>2, <2>4 DEF RecommendedSpread, Likes
  <2> QED
    BY <2>2, <2>5, <2>6 DEF RankingsHold, RankingIsFull, GroupIsCategory
<1> QED
  BY <1>2, <1>3

LEMMA MapLoads ==
    ASSUME HomeInv, NEW cat \in NearbyCategory, MapNearby(cat)
    PROVE  RankingsHold'
<1> PICK near : near = {s \in Shown : In(cat, s) /\ Place[s] # None /\ Distance(s, Here) <= Radius}
  OBVIOUS
<1> PICK key : key = [s \in Ids |-> IF Place[s] = None THEN 0 ELSE Distance(s, Here)]
  OBVIOUS
<1> PICK list : list = Take(Ordered(near, key), MapLimit)
  OBVIOUS
<1>1. near \in SUBSET Ids
  BY DEF Shown, HomeInv
<1>2. ASSUME NEW s \in near PROVE key[s] \in Int
  <2>1. s \in Ids /\ Place[s] # None
    BY <1>1
  <2>2. Place[s] \in Int /\ Here \in Int
    BY <2>1, HomeConstants
  <2>3. Distance(s, Here) \in Int
    BY <2>2 DEF Distance
  <2> QED
    BY <2>1, <2>3
<1>3. MapLimit \in Nat
  BY HomeConstants
<1>4. list \in Lists /\ Range(list) \subseteq near
  <2>1. Take(Ordered(near, key), MapLimit) \in Lists /\ Range(Take(Ordered(near, key), MapLimit)) \subseteq near
    BY ONLY <1>1, <1>2, <1>3, FirstRows
  <2> QED
    BY <2>1
<1> PICK groups : groups = [i \in DOMAIN list |-> Derived(list[i])]
  OBVIOUS
<1>5. DOMAIN groups = DOMAIN list /\ \A i \in DOMAIN list : groups[i] = cat
  <2> SUFFICES ASSUME NEW i \in DOMAIN list PROVE groups[i] = cat
    OBVIOUS
  <2> PICK s : s = list[i]
    OBVIOUS
  <2>1. s \in near
    BY <1>4 DEF Range
  <2>2. s \in Ids /\ In(cat, s)
    BY <1>1, <2>1
  <2>3. Derived(s) = cat
    BY <2>2, OneCategory
  <2> QED
    BY <2>3
<1> PICK a : a = [kind |-> "map", category |-> cat, cards |-> list, groups |-> groups]
  OBVIOUS
<1>6. a.kind = "map" /\ a.category = cat /\ a.cards = list /\ a.groups = groups /\ answer' = a
  BY DEF MapNearby
<1>7. NoCardTwice'
  <2>1. DOMAIN list = 1..Len(list) /\ \A i, j \in 1..Len(list) : list[i] = list[j] => i = j
    BY <1>4, PartsOfList
  <2>2. \A i, j \in DOMAIN answer'.cards : answer'.cards[i] = answer'.cards[j] /\ answer'.cards[i] # None => i = j
    BY <1>6, <2>1
  <2> QED
    BY ONLY <2>2, CardsOnce
<1>8. GroupIsCategory'
  <2>1. Range(groups) \subseteq {cat}
    BY <1>5 DEF Range
  <2> QED
    BY <1>6, <2>1 DEF GroupIsCategory
<1> QED
  BY <1>6, <1>7, <1>8 DEF RankingsHold, RankingIsFull, RecommendedSpread

LEMMA RequestAnswers ==
    ASSUME HomeInv, Request PROVE RedisTyped' /\ RankingsHold'
<1>1. RedisTyped
  BY DEF HomeInv, RedisTyped
<1>2. ASSUME NEW key \in SignalKeys, NEW region \in Regions \cup {None}, LoadSignal(key, region)
      PROVE  RedisTyped' /\ RankingsHold'
  <2> PICK list : list = SignalList(key, region)
    OBVIOUS
  <2> PICK asked : asked = {<<key, region>>}
    OBVIOUS
  <2>1. list \in Lists
    BY SignalListed
  <2>2. Answered("signal", list) /\ redis' = WithSignals(asked)
    BY <1>2 DEF LoadSignal
  <2>3. WithSignals(asked) \in [Keys -> Lists \cup {None}]
    <3>1. \A a \in asked : a[1] \in SignalKeys
      OBVIOUS
    <3> QED
      BY <3>1, SignalsKept
  <2>4. RankingsHold'
    BY <2>1, <2>2, ListAnswered
  <2> QED
    BY <2>2, <2>3, <2>4 DEF RedisTyped
<1>3. ASSUME NEW ids \in FestaLists, NEW located \in BOOLEAN, LoadFesta(ids, located)
      PROVE  RedisTyped' /\ RankingsHold'
  BY <1>1, <1>3, FestaLoads DEF LoadFesta, RedisTyped
<1>4. ASSUME NEW region \in Regions \cup {None}, NEW festa \in FestaLists, LoadMetas(region, festa)
      PROVE  RedisTyped' /\ RankingsHold'
  <2> PICK asked : asked = {<<"spot", region>>, <<"cafe", region>>, <<"food", region>>, <<"hidden", None>>}
    OBVIOUS
  <2> PICK open : open = {a[1] : a \in {b \in asked : SignalList(b[1], b[2]) # <<>>}}
                         \cup (IF festa # <<>> THEN {"festa"} ELSE {})
    OBVIOUS
  <2>1. answer' = [kind |-> "metas", open |-> open] /\ redis' = WithSignals(asked)
    BY <1>4 DEF LoadMetas
  <2>2. WithSignals(asked) \in [Keys -> Lists \cup {None}]
    <3>1. \A a \in asked : a[1] \in SignalKeys
      BY DEF SignalKeys
    <3> QED
      BY <3>1, SignalsKept
  <2>3. answer'.kind = "metas"
    BY ONLY <2>1
  <2>4. RankingsHold'
    BY <2>3, NothingAnswered
  <2> QED
    BY <2>1, <2>2, <2>4 DEF RedisTyped
<1>5. ASSUME NEW cat \in HomeCategories, NEW festa \in FestaLists, LoadTrending(cat, festa)
      PROVE  RedisTyped' /\ RankingsHold'
  BY <1>5, TrendingLoads
<1>6. ASSUME NEW cat \in HomeCategories, LoadNearby(cat)
      PROVE  RedisTyped' /\ RankingsHold'
  BY <1>6, NearbyLoads
<1>7. ASSUME NEW cat \in HomeCategories \cup {"hidden", "festa"}, LoadTastePicks(cat)
      PROVE  RedisTyped' /\ RankingsHold'
  <2> PICK key : key = <<"picks", cat>>
    OBVIOUS
  <2> PICK list : list = IF redis[key] # None THEN redis[key] ELSE TastePicks(cat)
    OBVIOUS
  <2>1. key \in Keys
    BY DEF Keys
  <2>2. list \in Lists
    <3>1. redis[key] \in Lists \cup {None}
      BY <1>1, <2>1 DEF RedisTyped
    <3> QED
      BY <3>1, PicksListed
  <2>3. redis' = [redis EXCEPT ![key] = list] /\ Answered("picks", list)
    BY <1>7 DEF LoadTastePicks, Kept
  <2>4. RankingsHold'
    BY <2>2, <2>3, ListAnswered
  <2> QED
    BY <1>1, <2>1, <2>2, <2>3, <2>4, ListKept
<1>8. ASSUME LoadCuration PROVE RedisTyped' /\ RankingsHold'
  <2> PICK key : key = <<"curation">>
    OBVIOUS
  <2> PICK list : list = IF redis[key] # None THEN redis[key] ELSE Curated
    OBVIOUS
  <2>1. key \in Keys
    BY DEF Keys
  <2>2. list \in Lists
    <3>1. redis[key] \in Lists \cup {None}
      BY <1>1, <2>1 DEF RedisTyped
    <3> QED
      BY <3>1, CuratedListed
  <2>3. redis' = [redis EXCEPT ![key] = list] /\ Answered("curation", list)
    BY <1>8 DEF LoadCuration, Kept
  <2>4. RankingsHold'
    BY <2>2, <2>3, ListAnswered
  <2> QED
    BY <1>1, <2>1, <2>2, <2>3, <2>4, ListKept
<1>9. ASSUME NEW saved \in SavedLists, LoadRecommendations(saved) PROVE RedisTyped' /\ RankingsHold'
  BY <1>1, <1>9, RecommendationsLoad DEF LoadRecommendations, RedisTyped
<1>10. ASSUME NEW cat \in NearbyCategory, MapNearby(cat) PROVE RedisTyped' /\ RankingsHold'
  BY <1>1, <1>10, MapLoads DEF MapNearby, RedisTyped
<1> QED
  BY <1>2, <1>3, <1>4, <1>5, <1>6, <1>7, <1>8, <1>9, <1>10 DEF Request

---------------------------------------------------------------------------
\* The theorems.

\* However posts come, go and change between two pages, and though each page is
\* rearranged by country after its cursor was taken, a reader who scrolls to the end
\* is shown every post that stays in the feed once, and no post twice
\* (posts.py: list_posts; repositories.py: _PAGE_SQL).
THEOREM PagesAreWhole == Spec => []PagedWhole
<1>1. Init => PagedInv
  BY PagesStart DEF Init
<1>2. PagedInv /\ [Next]_vars => PagedInv'
  <2> SUFFICES ASSUME PagedInv, [Next]_vars PROVE PagedInv'
    OBVIOUS
  <2>1. CASE PostsNext
    BY <2>1, PageShown, PostMoved DEF PostsNext
  <2>2. CASE UNCHANGED <<listed, session>>
    BY <2>2 DEF PagedInv, PagedTyped, CursorDivides, PagedOnce, PagedAll, ShownPosts
  <2> QED
    BY <2>1, <2>2 DEF Next, Request, ShowFlag, Expire, Explore, FetchFestivals, vars, postVars
<1>3. PagedInv => PagedWhole
  BY DEF PagedInv, PagedWhole
<1> QED
  BY <1>1, <1>2, <1>3, PTL DEF Spec

\* What is served of the festivals can still be visited, or could the day before, with
\* the days left counted for then; it names each of them once; and one task at a time
\* fetches it, whatever fails, is cancelled or restarted, and however the listing
\* changes between two pages (kto_channels.py: load_kto_channel_cached,
\* load_festival_pool, _revalidated, _spawn_refresh).
THEOREM FestivalsStayCurrent == Spec => []FestivalsAreCurrent
<1> DEFINE Inv == GuardInv /\ ListsInv
<1>1. Init => Inv
  BY GuardStart, ListsStart DEF Init
<1>2. Inv /\ [Next]_vars => Inv'
  <2> SUFFICES ASSUME Inv, [Next]_vars PROVE Inv'
    OBVIOUS
  <2>1. CASE FestivalNext
    BY <2>1, GuardStep, ListsStep
  <2>2. CASE UNCHANGED festivalVars
    BY <2>2 DEF GuardInv, ListsInv, festivalVars
  <2> QED
    BY <2>1, <2>2 DEF Next, Request, ShowFlag, Expire, Explore, FetchFestivals, vars
<1>3. Inv => FestivalsAreCurrent
  BY GuardCounts, ListsCurrent DEF FestivalsAreCurrent
<1> QED
  BY <1>1, <1>2, <1>3, PTL DEF Spec

\* However old the list of festivals is, a card that leads to a spot leads to one
\* that is shown when it is served (channels.py: _drop_unresolvable_details).
THEOREM FestaStaysOpen == Spec => []FestaOpens
<1>1. Init => FestaOpens
  BY DEF Init, FestaOpens
<1>2. FestaOpens /\ [Next]_vars => FestaOpens'
  <2> SUFFICES ASSUME FestaOpens, [Next]_vars PROVE FestaOpens'
    OBVIOUS
  <2>1. CASE Request
    <3>1. ASSUME NEW ids, NEW located \in BOOLEAN, LoadFesta(ids, located), visible' = visible
          PROVE  FestaOpens'
      BY <3>1 DEF LoadFesta, Answered, DropUnresolvableDetails, FestaOpens
    <3>2. visible' = visible
      BY <2>1 DEF Request
    <3>3. ASSUME answer'.kind # "festa" PROVE FestaOpens'
      BY <3>3 DEF FestaOpens
    <3>4. ASSUME NEW key, NEW region, LoadSignal(key, region) PROVE answer'.kind # "festa"
      BY <3>4 DEF LoadSignal, Answered
    <3>5. ASSUME NEW region, NEW festa, LoadMetas(region, festa) PROVE answer'.kind # "festa"
      BY <3>5 DEF LoadMetas
    <3>6. ASSUME NEW cat, NEW festa, LoadTrending(cat, festa) PROVE answer'.kind # "festa"
      BY <3>6 DEF LoadTrending, Answered
    <3>7. ASSUME NEW cat, LoadNearby(cat) PROVE answer'.kind # "festa"
      BY <3>7 DEF LoadNearby, Answered
    <3>8. ASSUME NEW cat, LoadTastePicks(cat) PROVE answer'.kind # "festa"
      BY <3>8 DEF LoadTastePicks, Kept, Answered
    <3>9. ASSUME LoadCuration PROVE answer'.kind # "festa"
      BY <3>9 DEF LoadCuration, Kept, Answered
    <3>10. ASSUME NEW saved, LoadRecommendations(saved) PROVE answer'.kind # "festa"
      BY <3>10 DEF LoadRecommendations
    <3>11. ASSUME NEW cat, MapNearby(cat) PROVE answer'.kind # "festa"
      BY <3>11 DEF MapNearby
    <3> QED
      BY <2>1, <3>1, <3>2, <3>3, <3>4, <3>5, <3>6, <3>7, <3>8, <3>9, <3>10, <3>11 DEF Request
  <2>2. CASE \E s \in Ids : ShowFlag(s)
    BY <2>2 DEF ShowFlag, FestaOpens
  <2>3. CASE \E key \in Keys : Expire(key)
    BY <2>3 DEF Expire, FestaOpens
  <2>4. CASE UNCHANGED homeVars
    BY <2>4 DEF homeVars, FestaOpens
  <2> QED
    BY <2>1, <2>2, <2>3, <2>4 DEF Next, Explore, FetchFestivals, vars
<1> QED
  BY <1>1, <1>2, PTL DEF Spec

\* Whatever the pipeline shows or hides between two requests, and however long redis
\* keeps a list, no list of the home screen shows a spot twice, a ranking is as long as
\* its pools allow, a marker of the map is of the category asked for, and the
\* recommendations are of as many of the saved spots as there are neighbours of
\* (interleave.py: interleave; signal_channels.py: _query; curation.py; taste.py:
\* _diversified; categories.py).
THEOREM RankingsStayWhole == Spec => []RankingsHold
<1> DEFINE Inv == HomeInv /\ RankingsHold
<1>1. Init => Inv
  <2> SUFFICES ASSUME Init PROVE Inv
    OBVIOUS
  <2>1. HomeInv
    BY DEF Init, HomeInv
  <2>2. answer = None
    BY DEF Init
  <2>3. RankingsHold
    BY <2>2 DEF RankingsHold, NoCardTwice, Cards, RankingIsFull, GroupIsCategory, RecommendedSpread
  <2> QED
    BY <2>1, <2>3
<1>2. Inv /\ [Next]_vars => Inv'
  <2> SUFFICES ASSUME Inv, [Next]_vars PROVE Inv'
    OBVIOUS
  <2>1. CASE Request
    <3>1. visible' = visible
      BY <2>1 DEF Request
    <3> QED
      BY <2>1, <3>1, RequestAnswers DEF HomeInv, RedisTyped
  <2>2. CASE \E s \in Ids : ShowFlag(s)
    <3>1. answer' = None /\ redis' = redis /\ visible' \subseteq Ids
      BY <2>2 DEF ShowFlag, HomeInv
    <3>2. RankingsHold'
      BY <3>1, NothingAnswered
    <3> QED
      BY <3>1, <3>2 DEF HomeInv
  <2>3. CASE \E key \in Keys : Expire(key)
    <3>1. PICK key \in Keys : redis' = [redis EXCEPT ![key] = None]
      BY <2>3 DEF Expire
    <3>2. answer' = None /\ visible' = visible
      BY <2>3 DEF Expire
    <3>3. HomeInv'
      BY <3>1, <3>2 DEF HomeInv
    <3>4. RankingsHold'
      BY <3>2, NothingAnswered
    <3> QED
      BY <3>3, <3>4
  <2>4. CASE UNCHANGED homeVars
    <3>1. answer' = answer /\ redis' = redis /\ visible' = visible
      BY <2>4 DEF homeVars
    <3>2. RankingsHold'
      BY <3>1 DEF RankingsHold, NoCardTwice, Cards, RankingIsFull, GroupIsCategory, RecommendedSpread
    <3> QED
      BY <3>1, <3>2 DEF HomeInv
  <2> QED
    BY <2>1, <2>2, <2>3, <2>4 DEF Next, Explore, FetchFestivals, vars
<1>3. Inv => RankingsHold
  OBVIOUS
<1> QED
  BY <1>1, <1>2, <1>3, PTL DEF Spec
==============================================================================
