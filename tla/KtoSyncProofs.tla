----------------------------- MODULE KtoSyncProofs -----------------------------
(***************************************************************************)
(* What the sync keeps for any number of spots, pages, faults and missed   *)
(* days: no listed spot of a day that the watermark has passed is missing  *)
(* from the table, no row goes back, and none is hidden that is listed.    *)
(***************************************************************************)
EXTENDS KtoSync, FiniteSetTheorems, SequenceTheorems, WellFoundedInduction, TLAPS

Query == [by : {"all", "day", "month"}, at : Nat]
Published == [stamp : Instants, show : BOOLEAN, listed : BOOLEAN]
Pages == UNION {[D -> Row] : D \in SUBSET Spots}
RunType ==
    [pc : {"idle", "read", "write", "closing", "finish"}, todo : Seq(Query),
     page : Nat \ {0}, total : Nat, fetched : Nat, held : Pages, seen : SUBSET Spots,
     newest : Instants \cup {None}, from : Instants \cup {None}, last : Instants \cup {None}]

SyncTyped ==
    /\ kto \in [Spots -> Published \cup {None}]
    /\ spots \in [Spots -> Row \cup {None}]
    /\ watermark \in Instants \cup {None}
    /\ run \in [Runs -> RunType]
    /\ now \in Instants
    /\ changes \in Nat /\ faults \in Nat

\* Nothing kept is newer than what KTO published, and nothing published than now.
NoneAhead ==
    /\ \A s \in Spots : kto[s] # None => kto[s].stamp <= now
    /\ \A s \in Spots : spots[s] # None => kto[s] # None /\ spots[s].stamp <= kto[s].stamp
    /\ \A r \in Runs : \A s \in DOMAIN run[r].held :
          kto[s] # None /\ run[r].held[s].stamp <= kto[s].stamp
    /\ \A r \in Runs : \A x \in {run[r].newest, run[r].from, run[r].last} \ {None} : x <= now
    /\ watermark # None => watermark <= now

\* The row of a spot has its last modification.
Written(s) == spots[s] # None /\ spots[s].stamp = kto[s].stamp

\* What KTO lists of the days before x is written.
Taken(x) == x # None => \A s \in Listed : Day(kto[s].stamp) < Day(x) => Written(s)

--------------------------------------------------------------------------------
(* The dates of a run.                                                         *)

\* The first day of a query.
FirstDay(q) == IF q.by = "day" THEN q.at ELSE IF q.by = "month" THEN q.at * PerMonth ELSE 0

\* One kind of query, one after the other, up to the last that was asked for.
Consecutive(me) ==
    LET n == Len(me.todo)
    IN  /\ \A i \in 1..n : me.todo[i].by = me.todo[1].by /\ me.todo[i].at = me.todo[1].at + (i - 1)
        /\ IF me.todo[1].by = "all" THEN n = 1 /\ me.last = None
           ELSE me.last = FirstDay(me.todo[n]) * PerDay

\* A stamp found by this query or by one before.
UpTo(q, x) ==
    /\ q.by = "day" => Day(x) <= q.at
    /\ q.by = "month" => Month(Day(x)) <= q.at

\* The listing of a query that can only lose spots: KTO does not change under a long
\* run, and whatever it changes has the stamp of today.
Settled(me) == me.todo[1].by # "day" \/ me.todo[1].at < Day(me.last)

\* The pages read so far: everything KTO lists was in the listing all when the first
\* page was asked for, and what was got of it lies before the page to be read.
Paged(me, all, got) ==
    LET q == me.todo[1]
    IN  /\ got \subseteq all /\ Listing(q) \subseteq all
        /\ Cardinality(all) = me.total /\ Cardinality(got) = me.fetched
        /\ got \subseteq me.seen
        /\ \A s \in got \cap Listing(q) : Written(s) /\ Position(q, s) < (me.page - 1) * PageSize
        /\ me.pc = "write" =>
              /\ DOMAIN me.held \subseteq all \ got
              /\ \A s \in DOMAIN me.held \cap Listing(q) :
                    me.held[s].stamp = kto[s].stamp /\ Position(q, s) < me.page * PageSize

Asking(me) ==
    /\ me.todo # <<>> /\ Consecutive(me)
    /\ \A s \in Listed : Day(kto[s].stamp) < FirstDay(me.todo[1]) => Written(s)
    /\ me.newest # None => UpTo(me.todo[1], me.newest)
    /\ \A s \in DOMAIN me.held : UpTo(me.todo[1], me.held[s].stamp)
    /\ me.page = 1 => me.fetched = 0
    /\ Settled(me) /\ (me.page > 1 \/ me.pc = "write") =>
          \E all, got \in SUBSET Spots : Paged(me, all, got)

RunOk(r, me) ==
    /\ me.pc \in {"read", "write"} => Asking(me) /\ Taken(me.from)
    /\ me.pc \in {"closing", "finish"} =>
          me.todo = <<>> /\ Taken(me.newest) /\ Taken(me.last) /\ Taken(me.from)
    /\ me.pc = "idle" => me.todo = <<>>
    /\ me.pc = "write" => DOMAIN me.held # {}
    /\ r = "full" => /\ me.pc \in {"read", "write"} => me.todo = <<All>>
                     /\ me.pc \in {"closing", "finish"} => Listed \subseteq me.seen

SyncInv == SyncTyped /\ NoneAhead /\ Taken(watermark) /\ \A r \in Runs : RunOk(r, run[r])

--------------------------------------------------------------------------------
(* Arithmetic.                                                                 *)

\* The order of the naturals as a relation.
LEMMA Less == \E R : IsWellFoundedOn(R, Nat) /\ \A x, y \in Nat : <<x, y>> \in R <=> x < y
<1> DEFINE R == {ss \in Nat \X Nat : ss[1] < ss[2]}
<1>1. IsWellFoundedOn(R, Nat)
  BY NatLessThanWellFounded DEF OpToRel
<1>2. \A x, y \in Nat : <<x, y>> \in R <=> x < y
  OBVIOUS
<1> QED
  BY <1>1, <1>2

\* The greatest of some bounded numbers.
LEMMA MaxIn ==
  ASSUME NEW S, S \subseteq Nat, S # {}, NEW b \in Nat, \A x \in S : x <= b
  PROVE  Max(S) \in S /\ \A x \in S : x <= Max(S)
<1>1. PICK R : IsWellFoundedOn(R, Nat) /\ \A x, y \in Nat : <<x, y>> \in R <=> x < y
  BY Less
<1> DEFINE T == {b - x : x \in S}
<1>2. T \subseteq Nat /\ T # {}
  <2>1. \A x \in S : x \in Nat /\ b - x \in Nat
    OBVIOUS
  <2>2. PICK x \in S : TRUE
    OBVIOUS
  <2>3. b - x \in T
    BY <2>2
  <2> QED
    BY <2>1, <2>3
<1>3. PICK m \in T : \A y \in T : ~ (<<y, m>> \in R)
  <2> HIDE DEF T
  <2>1. IsWellFoundedOn(R, Nat)
    BY <1>1
  <2>2. T \subseteq Nat /\ T # {}
    BY <1>2
  <2>3. \E m \in T : \A y \in T : ~ (<<y, m>> \in R)
    BY ONLY <2>1, <2>2, WFMin, Zenon
  <2> QED
    BY <2>3
<1>4. PICK x \in S : m = b - x
  BY <1>3
<1>5. \A y \in S : x >= y
  <2> SUFFICES ASSUME NEW y \in S PROVE x >= y
    OBVIOUS
  <2>1. b - y \in T /\ m \in Nat /\ b - y \in Nat
    BY <1>2, <1>3
  <2>2. ~(b - y < m)
    BY <1>1, <1>3, <2>1
  <2> QED
    BY <1>4, <2>2
<1> QED
  BY <1>5 DEF Max

LEMMA Given ==
    /\ PageSize \in Nat /\ PageSize > 0 /\ PerDay \in Nat \ {0} /\ PerMonth \in Nat \ {0}
    /\ MaxTime \in Nat /\ None \notin Nat /\ IsFiniteSet(Spots) /\ Early \subseteq Spots
    /\ 0 \in Instants /\ Instants \subseteq Nat /\ None \notin Instants
    /\ None \notin Row /\ None \notin Published
<1>1. 0 \in Instants /\ Instants \subseteq Nat /\ None \notin Instants
  BY SyncAssumption DEF SyncAssumption, Instants
<1>2. None \notin Row
  <2>1. \A p \in Row : p \in [stamp : Nat, show : BOOLEAN]
    BY <1>1 DEF Row
  <2> QED
    BY <2>1, SyncAssumption DEF SyncAssumption
<1>3. None \notin Published
  <2>1. \A p \in Published : p \in [stamp : Nat, show : BOOLEAN, listed : BOOLEAN]
    BY <1>1 DEF Published
  <2> QED
    BY <2>1, SyncAssumption DEF SyncAssumption
<1> QED
  BY <1>1, <1>2, <1>3, SyncAssumption DEF SyncAssumption

LEMMA Divides ==
    ASSUME NEW a \in Nat, NEW d \in Nat \ {0}
    PROVE  a \div d \in Nat /\ d * (a \div d) <= a /\ a < d * (a \div d) + d
OBVIOUS

LEMMA DivMonotone ==
    ASSUME NEW a \in Nat, NEW b \in Nat, NEW d \in Nat \ {0}, a <= b
    PROVE  a \div d <= b \div d
OBVIOUS

LEMMA DivOfTimes ==
    ASSUME NEW a \in Nat, NEW d \in Nat \ {0}
    PROVE  (a * d) \div d = a
OBVIOUS

\* a lies before the multiple b of d as its quotient before b.
LEMMA DivBelow ==
    ASSUME NEW a \in Nat, NEW b \in Nat, NEW d \in Nat \ {0}
    PROVE  a \div d < b <=> a < b * d
<1>1. CASE a \div d < b
  <2>1. (a \div d) + 1 <= b /\ a \div d \in Nat
    BY <1>1, Divides
  <2>2. d * ((a \div d) + 1) <= d * b
    BY <2>1
  <2>3. a < d * ((a \div d) + 1)
    BY <2>1, Divides
  <2> QED
    BY <1>1, <2>1, <2>2, <2>3
<1>2. CASE ~(a \div d < b)
  <2>1. b <= a \div d /\ a \div d \in Nat
    BY <1>2, Divides
  <2>2. d * b <= d * (a \div d)
    BY <2>1
  <2> QED
    BY <1>2, <2>1, <2>2, Divides
<1> QED
  BY <1>1, <1>2

\* Days and months of instants.
LEMMA Days ==
    ASSUME NEW t \in Nat
    PROVE  /\ Day(t) \in Nat /\ Month(t) \in Nat
           /\ \A x \in Nat : t <= x => Day(t) <= Day(x) /\ Month(t) <= Month(x)
           /\ Day(t * PerDay) = t /\ Month(t * PerMonth) = t
           /\ Day(t) * PerDay <= t /\ Month(t) * PerMonth <= t
           /\ \A m \in Nat : Month(t) < m <=> t < m * PerMonth
<1>1. PerDay \in Nat \ {0} /\ PerMonth \in Nat \ {0}
  BY Given
<1>2. Day(t) \in Nat /\ Month(t) \in Nat /\ PerDay * Day(t) <= t /\ PerMonth * Month(t) <= t
  BY <1>1, Divides DEF Day, Month
<1>3. \A x \in Nat : t <= x => Day(t) <= Day(x) /\ Month(t) <= Month(x)
  BY <1>1, DivMonotone DEF Day, Month
<1>4. Day(t * PerDay) = t /\ Month(t * PerMonth) = t
  BY <1>1, DivOfTimes DEF Day, Month
<1>5. \A m \in Nat : Month(t) < m <=> t < m * PerMonth
  BY <1>1, DivBelow DEF Month
<1>6. Day(t) * PerDay <= t /\ Month(t) * PerMonth <= t
  BY <1>1, <1>2
<1> QED
  BY <1>2, <1>3, <1>4, <1>5, <1>6

--------------------------------------------------------------------------------
(* Types.                                                                      *)

LEMMA NothingHeld == <<>> \in Pages /\ DOMAIN <<>> = {}
<1>1. <<>> \in [{} -> Row]
  OBVIOUS
<1>2. {} \in SUBSET Spots
  OBVIOUS
<1> QED
  BY <1>1, <1>2 DEF Pages

LEMMA IdleTyped ==
    Idle \in RunType /\ Idle.pc = "idle" /\ Idle.todo = <<>> /\ Idle.held = <<>>
    /\ Idle.newest = None /\ Idle.from = None /\ Idle.last = None
<1>1. <<>> \in Seq(Query) /\ <<>> \in Pages
  BY EmptySeq, NothingHeld
<1> QED
  BY <1>1 DEF Idle, RunType

LEMMA RunFields ==
    ASSUME NEW me \in RunType
    PROVE  /\ me.pc \in {"idle", "read", "write", "closing", "finish"} /\ me.todo \in Seq(Query)
           /\ me.page \in Nat /\ me.page > 0 /\ me.total \in Nat /\ me.fetched \in Nat
           /\ DOMAIN me.held \in SUBSET Spots /\ \A s \in DOMAIN me.held : me.held[s] \in Row
           /\ me.seen \in SUBSET Spots /\ me.newest \in Instants \cup {None}
           /\ me.from \in Instants \cup {None} /\ me.last \in Instants \cup {None}
BY DEF RunType, Pages

LEMMA RowFields ==
    ASSUME SyncTyped, NEW s \in Spots
    PROVE  /\ kto[s] # None => kto[s] \in Published /\ kto[s].stamp \in Instants
                               /\ kto[s].stamp \in Nat
           /\ spots[s] # None => spots[s] \in Row /\ spots[s].stamp \in Instants
                                 /\ spots[s].stamp \in Nat
<1>1. kto[s] \in Published \cup {None} /\ spots[s] \in Row \cup {None}
  BY DEF SyncTyped
<1>2. \A p \in Published : p.stamp \in Instants
  BY DEF Published
<1>3. \A p \in Row : p.stamp \in Instants
  BY DEF Row
<1> QED
  BY <1>1, <1>2, <1>3, Given

LEMMA ListedHere ==
    /\ Listed \subseteq Spots /\ IsFiniteSet(Listed) /\ \A s \in Listed : kto[s] # None
    /\ \A q : Listing(q) \subseteq Listed /\ Listing(q) \subseteq Spots
    /\ \A q : IsFiniteSet(Listing(q)) /\ Cardinality(Listing(q)) \in Nat
<1>1. Listed \subseteq Spots /\ \A s \in Listed : kto[s] # None
  BY DEF Listed
<1>2. ASSUME NEW q
      PROVE  /\ Listing(q) \subseteq Listed /\ Listing(q) \subseteq Spots
             /\ IsFiniteSet(Listing(q)) /\ Cardinality(Listing(q)) \in Nat
  <2>1. Listing(q) \subseteq Listed /\ Listing(q) \in SUBSET Spots
    BY <1>1 DEF Listing
  <2> QED
    BY <2>1, Given, FS_Subset, FS_CardinalityType
<1>3. IsFiniteSet(Listed)
  BY <1>1, Given, FS_Subset
<1> QED
  BY <1>1, <1>2, <1>3

LEMMA PositionTyped ==
    ASSUME NEW q, NEW s
    PROVE  Position(q, s) \in Nat
<1> DEFINE P == {x \in Listing(q) : Before(x, s)}
<1>1. P \in SUBSET Listing(q) /\ IsFiniteSet(Listing(q))
  BY ListedHere
<1>2. IsFiniteSet(P)
  BY <1>1, FS_Subset
<1>3. Cardinality(P) \in Nat
  BY <1>2, FS_CardinalityType
<1> QED
  BY <1>3 DEF Position

--------------------------------------------------------------------------------
(* What a run knows stays true while others write, and while KTO changes.      *)

\* Rows are only brought up to date.
Updated == kto' = kto /\ \A s \in Spots : Written(s) => Written(s)'

LEMMA TakenStays ==
    ASSUME Updated, NEW x, Taken(x)
    PROVE  Taken(x)'
<1>1. Listed' = Listed /\ Listed \subseteq Spots
  BY ListedHere DEF Updated, Listed
<1>2. \A s \in Listed : Written(s) => Written(s)'
  BY <1>1 DEF Updated
<1>3. kto' = kto
  BY DEF Updated
<1> QED
  BY <1>1, <1>2, <1>3 DEF Taken

LEMMA ListingStays ==
    ASSUME kto' = kto
    PROVE  Listed' = Listed /\ (\A q : Listing(q)' = Listing(q))
           /\ (\A q, s : Position(q, s)' = Position(q, s))
BY DEF Listed, Listing, Position, Before

LEMMA PagedStays ==
    ASSUME Updated, NEW me, NEW all, NEW got, Paged(me, all, got)
    PROVE  Paged(me, all, got)'
<1> DEFINE q == me.todo[1]
<1>1. kto' = kto /\ Listing(q)' = Listing(q) /\ Listing(q) \subseteq Spots
      /\ \A s : Position(q, s)' = Position(q, s)
  BY ListingStays, ListedHere DEF Updated
<1>2. \A s \in Listing(q) : Written(s) => Written(s)'
  BY <1>1 DEF Updated
<1> QED
  BY <1>1, <1>2 DEF Paged

LEMMA OkStays ==
    ASSUME Updated, NEW r, NEW me, RunOk(r, me)
    PROVE  RunOk(r, me)'
<1>1. kto' = kto /\ Listed' = Listed
  BY ListingStays DEF Updated
<1>2. \A x : Taken(x) => Taken(x)'
  BY TakenStays
<1>3. Asking(me) => Asking(me)'
  <2> SUFFICES ASSUME Asking(me) PROVE Asking(me)'
    OBVIOUS
  <2>1. \A all, got : Paged(me, all, got) => Paged(me, all, got)'
    BY PagedStays
  <2>2. \A s \in Listed : Written(s) => Written(s)'
    BY ListedHere DEF Updated
  <2>3. (\A s \in Listed : Day(kto[s].stamp) < FirstDay(me.todo[1]) => Written(s))'
    BY <1>1, <2>2 DEF Asking
  <2>4. (Settled(me) /\ (me.page > 1 \/ me.pc = "write") =>
          \E all, got \in SUBSET Spots : Paged(me, all, got))'
    BY <2>1 DEF Asking, Settled
  <2> QED
    BY <2>3, <2>4 DEF Asking, Consecutive, UpTo
<1> QED
  BY <1>1, <1>2, <1>3 DEF RunOk

\* What KTO lists after a change is as before or has the stamp of now.
Changed ==
    /\ UNCHANGED <<spots, watermark, run, now>>
    /\ Listed' \subseteq Spots
    /\ \A s \in Listed' : \/ s \in Listed /\ kto'[s] = kto[s]
                          \/ kto'[s].stamp = now

LEMMA PositionShrinks ==
    ASSUME NEW q, Listing(q)' \subseteq Listing(q), \A x \in Listing(q)' : kto'[x] = kto[x],
           NEW s, s \in Listing(q)'
    PROVE  Position(q, s)' \in Nat /\ Position(q, s)' <= Position(q, s)
<1> DEFINE after == {x \in Listing(q)' : Before(x, s)'}
           before == {x \in Listing(q) : Before(x, s)}
<1>1. \A x \in Listing(q)' : Before(x, s)' => Before(x, s)
  BY DEF Before
<1>2. after \in SUBSET before
  BY <1>1
<1>3. IsFiniteSet(before)
  <2>1. before \in SUBSET Listing(q) /\ IsFiniteSet(Listing(q))
    BY ListedHere
  <2> QED
    BY <2>1, FS_Subset
<1> HIDE DEF after, before
<1>4. IsFiniteSet(after) /\ Cardinality(after) <= Cardinality(before)
  BY <1>2, <1>3, FS_Subset
<1>5. Cardinality(after) \in Nat
  BY <1>4, FS_CardinalityType
<1>6. Position(q, s)' = Cardinality(after) /\ Position(q, s) = Cardinality(before)
  BY DEF Position, after, before
<1> QED
  BY <1>4, <1>5, <1>6

LEMMA TakenThroughChange ==
    ASSUME SyncTyped, Changed, NEW x, Taken(x), x # None => x \in Nat /\ x <= now
    PROVE  Taken(x)'
<1> SUFFICES ASSUME x # None, NEW s \in Listed', Day(kto'[s].stamp) < Day(x)
             PROVE  Written(s)'
  BY DEF Taken
<1>1. now \in Nat /\ Day(x) <= Day(now) /\ Day(x) \in Nat /\ Day(now) \in Nat
  BY Given, Days DEF SyncTyped
<1>2. kto'[s].stamp # now
  BY <1>1
<1>3. s \in Listed /\ kto'[s] = kto[s]
  BY <1>2 DEF Changed
<1>4. Written(s)
  BY <1>3 DEF Taken
<1> QED
  BY <1>3, <1>4 DEF Written, Changed

\* The stamps a run keeps are not of the future.
StampsPast(me) == \A x \in {me.newest, me.from, me.last} \ {None} : x <= now

\* The last day that a run of days asks for is not after today.
LEMMA DaysPast ==
    ASSUME SyncTyped, NEW me \in RunType, Asking(me), me.todo[1].by = "day", StampsPast(me)
    PROVE  /\ me.todo[1].at \in Nat /\ me.last \in Nat /\ Day(me.last) \in Nat /\ Day(now) \in Nat
           /\ me.todo[1].at <= Day(me.last) /\ Day(me.last) <= Day(now)
           /\ me.last = Day(me.last) * PerDay
<1> DEFINE n == Len(me.todo)
<1>1. me.todo \in Seq(Query) /\ me.todo # <<>> /\ Consecutive(me)
  BY RunFields DEF Asking
<1>2. n \in Nat /\ n > 0
  BY <1>1, EmptySeq, LenProperties
<1>3. 1 \in 1..n /\ n \in 1..n
  BY <1>2
<1>4. me.todo[1] \in Query /\ me.todo[n] \in Query
  BY <1>1, <1>3, ElementOfSeq
<1>5. me.todo[1].at \in Nat /\ me.todo[n].at \in Nat
  BY <1>4 DEF Query
<1>6. me.todo[n].by = "day" /\ me.todo[n].at = me.todo[1].at + (n - 1)
      /\ me.last = FirstDay(me.todo[n]) * PerDay
  BY <1>1, <1>3 DEF Consecutive
<1>7. me.last = me.todo[n].at * PerDay
  BY <1>6 DEF FirstDay
<1>8. me.todo[n].at * PerDay \in Nat
  BY <1>5, Given
<1>9. me.last \in Nat /\ me.last # None /\ now \in Nat /\ me.last <= now
  BY <1>7, <1>8, Given DEF SyncTyped, StampsPast
<1>10. Day(me.last) = me.todo[n].at
  BY <1>5, <1>7, Days
<1> HIDE DEF n
<1>11. me.todo[1].at <= me.todo[n].at
  BY <1>2, <1>5, <1>6
<1>12. Day(me.last) \in Nat /\ Day(now) \in Nat /\ Day(me.last) <= Day(now)
  BY <1>9, Days
<1> QED
  BY <1>5, <1>7, <1>9, <1>10, <1>11, <1>12

LEMMA PagedThroughChange ==
    ASSUME SyncTyped, Changed, NEW me \in RunType, Asking(me), me.todo[1].by = "day",
           Settled(me), StampsPast(me), NEW all, NEW got, Paged(me, all, got)
    PROVE  Paged(me, all, got)'
<1> DEFINE q == me.todo[1]
<1>1. q.at \in Nat /\ Day(now) \in Nat /\ q.at < Day(now) /\ q.by = "day"
  BY DaysPast DEF Settled
<1>2. ASSUME NEW s \in Listing(q)' PROVE s \in Listing(q) /\ kto'[s] = kto[s]
  <2>1. s \in Listed' /\ Day(kto'[s].stamp) = q.at
    BY <1>1 DEF Listing, Matches
  <2>2. kto'[s].stamp # now
    BY <1>1, <2>1
  <2>3. s \in Listed /\ kto'[s] = kto[s]
    BY <2>1, <2>2 DEF Changed
  <2> QED
    BY <1>1, <2>1, <2>3 DEF Listing, Matches
<1>3. \A s \in Listing(q)' : Position(q, s)' \in Nat /\ Position(q, s)' <= Position(q, s)
  BY <1>2, PositionShrinks
<1>4. \A s : Position(q, s) \in Nat
  BY PositionTyped
<1>5. \A s \in Listing(q)' : Written(s) => Written(s)'
  BY <1>2 DEF Written, Changed
<1>6. me.page \in Nat /\ PageSize \in Nat /\ (me.page - 1) * PageSize \in Int /\ me.page * PageSize \in Int
  BY RunFields, Given
<1> DEFINE b1 == (me.page - 1) * PageSize
           b2 == me.page * PageSize
<1>7. ASSUME NEW s \in Listing(q)' PROVE /\ Position(q, s) < b1 => Position(q, s)' < b1
                                         /\ Position(q, s) < b2 => Position(q, s)' < b2
  <2> HIDE DEF b1, b2
  <2> QED
    BY <1>3, <1>4, <1>6 DEF b1, b2
<1>8. \A s \in got \cap Listing(q)' : Written(s)' /\ Position(q, s)' < b1
  BY <1>2, <1>5, <1>7 DEF Paged
<1>9. me.pc = "write" => \A s \in DOMAIN me.held \cap Listing(q)' :
         me.held[s].stamp = kto'[s].stamp /\ Position(q, s)' < b2
  BY <1>2, <1>7 DEF Paged
<1>10. Listing(q)' \subseteq Listing(q)
  BY <1>2
<1> QED
  BY <1>8, <1>9, <1>10 DEF Paged

LEMMA OkThroughChange ==
    ASSUME SyncTyped, Changed, NEW r \in Runs, NEW me \in RunType, RunOk(r, me), StampsPast(me),
           r = "full" => me.pc = "idle", \A i \in DOMAIN me.todo : me.todo[i].by = "day"
    PROVE  RunOk(r, me)'
<1>1. \A x \in {me.newest, me.from, me.last} : x # None => x \in Nat /\ x <= now
  BY RunFields, Given DEF StampsPast
<1>2. \A x \in {me.newest, me.from, me.last} : Taken(x) => Taken(x)'
  BY <1>1, TakenThroughChange
<1>3. ASSUME Asking(me) PROVE Asking(me)'
  <2> DEFINE q == me.todo[1]
  <2>1. q.by = "day"
    <3>1. me.todo \in Seq(Query) /\ me.todo # <<>>
      BY <1>3, RunFields DEF Asking
    <3>2. 1 \in DOMAIN me.todo
      BY <3>1, EmptySeq, LenProperties
    <3> QED
      BY <3>2
  <2>2. q.at \in Nat /\ q.at <= Day(now) /\ Day(now) \in Nat
    BY <1>3, <2>1, DaysPast
  <2>3. ASSUME NEW s \in Listed', Day(kto'[s].stamp) < FirstDay(q) PROVE Written(s)'
    <3>1. kto'[s].stamp # now
      BY <2>1, <2>2, <2>3 DEF FirstDay
    <3>2. s \in Listed /\ kto'[s] = kto[s]
      BY <3>1 DEF Changed
    <3>3. Written(s)
      BY <1>3, <2>3, <3>2 DEF Asking
    <3> QED
      BY <3>2, <3>3 DEF Written, Changed
  <2>4. Settled(me) => \A all, got : Paged(me, all, got) => Paged(me, all, got)'
    BY <1>3, <2>1, PagedThroughChange
  <2>5. (Settled(me) /\ (me.page > 1 \/ me.pc = "write") =>
          \E all, got \in SUBSET Spots : Paged(me, all, got))'
    BY <1>3, <2>4 DEF Asking, Settled
  <2>6. (Consecutive(me) /\ (me.newest # None => UpTo(me.todo[1], me.newest))
          /\ \A s \in DOMAIN me.held : UpTo(me.todo[1], me.held[s].stamp))'
    BY <1>3 DEF Asking, Consecutive, UpTo
  <2> QED
    BY <1>3, <2>3, <2>5, <2>6 DEF Asking
<1> QED
  BY <1>2, <1>3 DEF RunOk

--------------------------------------------------------------------------------
(* Steps of one run.                                                           *)

\* A run that writes nothing itself, or only brings rows up to date, leaves what
\* the other knows.
LEMMA OthersStay ==
    ASSUME SyncTyped, Updated, NEW r \in Runs, NEW now2, RunOk(r, now2)',
           run' = [run EXCEPT ![r] = now2], \A x \in Runs : RunOk(x, run[x])
    PROVE  \A x \in Runs : RunOk(x, run[x])'
<1> SUFFICES ASSUME NEW x \in Runs PROVE RunOk(x, run[x])'
  OBVIOUS
<1>1. run \in [Runs -> RunType]
  BY DEF SyncTyped
<1>2. CASE x = r
  <2>1. run'[x] = now2
    BY <1>1, <1>2
  <2> QED
    BY <1>2, <2>1
<1>3. CASE x # r
  <2>1. PICK me : me = run[x]
    OBVIOUS
  <2>2. RunOk(x, me)'
    BY <2>1, OkStays
  <2>3. run'[x] = me
    BY <1>1, <1>3, <2>1
  <2> QED
    BY <2>2, <2>3
<1> QED
  BY <1>2, <1>3

\* A page holds nothing newer than what KTO publishes.
HeldPast(me) == \A s \in DOMAIN me.held : kto[s] # None /\ me.held[s].stamp <= kto[s].stamp
RowsPast(rows) == \A s \in Spots : rows[s] # None => kto[s] # None /\ rows[s].stamp <= kto[s].stamp

\* What a step of one run has to show, KTO and the clock standing still.
LEMMA RunStep ==
    ASSUME SyncInv, NEW r \in Runs, NEW now2 \in RunType, NEW rows \in [Spots -> Row \cup {None}],
           NEW w \in Instants \cup {None},
           run' = [run EXCEPT ![r] = now2], spots' = rows, watermark' = w, UNCHANGED <<kto, now>>,
           changes' \in Nat, faults' \in Nat, Updated, RowsPast(rows), StampsPast(now2),
           HeldPast(now2), w # None => w <= now, Taken(w), RunOk(r, now2)'
    PROVE  SyncInv'
<1>1. run' \in [Runs -> RunType] /\ \A x \in Runs : run'[x] = IF x = r THEN now2 ELSE run[x]
  BY DEF SyncInv, SyncTyped
<1>2. SyncTyped'
  BY <1>1 DEF SyncInv, SyncTyped
<1>3. Taken(watermark)'
  <2>1. Taken(w)'
    BY TakenStays
  <2> QED
    BY <2>1
<1>4. \A x \in Runs : RunOk(x, run[x])'
  BY OthersStay DEF SyncInv
<1>5. \A x \in Runs : HeldPast(run'[x]) /\ StampsPast(run'[x])
  <2>1. \A x \in Runs : HeldPast(run[x]) /\ StampsPast(run[x])
    BY DEF SyncInv, NoneAhead, HeldPast, StampsPast
  <2> QED
    BY <1>1, <2>1
<1>6. NoneAhead'
  <2>1. \A s \in Spots : kto'[s] # None => kto'[s].stamp <= now'
    BY DEF SyncInv, NoneAhead
  <2>2. \A s \in Spots : spots'[s] # None => kto'[s] # None /\ spots'[s].stamp <= kto'[s].stamp
    BY DEF RowsPast
  <2>3. \A x \in Runs : \A s \in DOMAIN run'[x].held :
           kto'[s] # None /\ run'[x].held[s].stamp <= kto'[s].stamp
    BY <1>5 DEF HeldPast
  <2>4. \A x \in Runs : \A y \in {run'[x].newest, run'[x].from, run'[x].last} \ {None} : y <= now'
    BY <1>5 DEF StampsPast
  <2> QED
    BY <2>1, <2>2, <2>3, <2>4 DEF NoneAhead
<1> QED
  BY <1>2, <1>3, <1>4, <1>6 DEF SyncInv

\* What is known of a run in every state.
LEMMA InvAt ==
    ASSUME SyncInv, NEW r \in Runs
    PROVE  /\ run[r] \in RunType /\ RunOk(r, run[r]) /\ StampsPast(run[r]) /\ HeldPast(run[r])
           /\ spots \in [Spots -> Row \cup {None}] /\ watermark \in Instants \cup {None}
           /\ RowsPast(spots) /\ (watermark # None => watermark <= now) /\ Taken(watermark)
           /\ SyncTyped /\ NoneAhead /\ changes \in Nat /\ faults \in Nat /\ now \in Nat
<1>1. now \in Nat
  BY Given DEF SyncInv, SyncTyped
<1>2. StampsPast(run[r]) /\ HeldPast(run[r]) /\ RowsPast(spots)
  BY DEF SyncInv, NoneAhead, StampsPast, HeldPast, RowsPast
<1>3. watermark # None => watermark <= now
  BY DEF SyncInv, NoneAhead
<1>4. run[r] \in RunType
  BY DEF SyncInv, SyncTyped
<1> QED
  BY <1>1, <1>2, <1>3, <1>4 DEF SyncInv, SyncTyped

LEMMA IdleOk ==
    ASSUME NEW r \in Runs
    PROVE  RunOk(r, Idle) /\ RunOk(r, Idle)' /\ StampsPast(Idle) /\ HeldPast(Idle)
BY IdleTyped, NothingHeld DEF RunOk, StampsPast, HeldPast

\* A run that fails, is refused or is over starts from nothing.
LEMMA GoIdle ==
    ASSUME SyncInv, NEW r \in Runs, run' = [run EXCEPT ![r] = Idle],
           UNCHANGED <<kto, spots, watermark, now, changes>>, faults' \in Nat
    PROVE  SyncInv'
<1>1. Updated
  BY DEF Updated, Written
<1>2. PICK rows, w : rows = spots /\ w = watermark
  OBVIOUS
<1>3. /\ rows \in [Spots -> Row \cup {None}] /\ w \in Instants \cup {None}
      /\ RowsPast(rows) /\ (w # None => w <= now) /\ Taken(w) /\ changes \in Nat
  BY <1>2, InvAt
<1>4. Idle \in RunType /\ RunOk(r, Idle)' /\ StampsPast(Idle) /\ HeldPast(Idle)
  BY IdleOk, IdleTyped
<1> QED
  BY <1>1, <1>2, <1>3, <1>4, RunStep

\* The queries number n from the one of k, one after the other.
LEMMA QueriesFrom ==
    ASSUME NEW by \in {"day", "month"}, NEW k \in Nat, NEW n \in Nat \ {0},
           NEW dates \in [1..n -> Query],
           \A i \in 1..n : dates[i] = [by |-> by, at |-> k + i - 1]
    PROVE  /\ dates \in Seq(Query) /\ dates # <<>> /\ Len(dates) = n /\ dates[1] = [by |-> by, at |-> k]
           /\ dates[n] = [by |-> by, at |-> k + n - 1]
           /\ \A i \in 1..n : dates[i].by = by /\ dates[i].at = k + (i - 1)
<1>1. dates \in Seq(Query) /\ DOMAIN dates = 1..n
  <2>1. DOMAIN dates = 1..n
    OBVIOUS
  <2>2. Seq(Query) = UNION {[1..m -> Query] : m \in Nat}
    OBVIOUS
  <2>3. dates \in Seq(Query)
    BY <2>2
  <2> QED
    BY <2>1, <2>3
<1>2. Len(dates) = n
  BY <1>1, LenProperties
<1>3. dates # <<>>
  BY <1>1, <1>2, EmptySeq
<1>4. 1 \in 1..n /\ n \in 1..n /\ k + 1 - 1 = k
  OBVIOUS
<1>5. dates[1] = [by |-> by, at |-> k] /\ dates[n] = [by |-> by, at |-> k + n - 1]
  BY <1>4
<1>6. \A i \in 1..n : dates[i].by = by /\ dates[i].at = k + (i - 1)
  OBVIOUS
<1> QED
  BY <1>1, <1>2, <1>3, <1>5, <1>6

LEMMA DatesOk ==
    ASSUME SyncTyped, NEW wm \in Instants \cup {None}, wm # None => wm <= now,
           NEW dates, dates = SyncDates(wm)
    PROVE  /\ dates \in Seq(Query) /\ dates # <<>> /\ dates[1] \in Query
           /\ wm = None => FirstDay(dates[1]) = 0
           /\ wm # None => FirstDay(dates[1]) <= Day(wm)
           /\ FirstDay(dates[1]) \in Nat
           /\ LastAsked(dates) \in Instants \cup {None}
           /\ LastAsked(dates) # None => LastAsked(dates) <= now
           /\ \A me : me.todo = dates /\ me.last = LastAsked(dates) => Consecutive(me)
<1>1. now \in Nat /\ now <= MaxTime /\ MaxTime \in Nat /\ Instants = 0..MaxTime
  BY Given DEF SyncTyped, Instants
<1>2. Today \in Nat /\ Today * PerDay <= now /\ Month(Today) \in Nat
      /\ Month(Today) * PerMonth <= Today
  BY <1>1, Days DEF Today
<1>3. CASE wm = None
  <2>1. dates = <<All>> /\ All \in Query /\ All.by = "all" /\ All.at = 0
    BY <1>3 DEF SyncDates, All, Query
  <2>2. dates \in Seq(Query) /\ dates # <<>> /\ Len(dates) = 1 /\ dates[1] = All
    BY <2>1
  <2>3. FirstDay(dates[1]) = 0 /\ LastAsked(dates) = None
    BY <2>1, <2>2 DEF FirstDay, LastAsked
  <2>4. \A me : me.todo = dates /\ me.last = LastAsked(dates) => Consecutive(me)
    BY <2>1, <2>2, <2>3 DEF Consecutive
  <2> QED
    BY <1>3, <2>1, <2>2, <2>3, <2>4
<1>4. CASE wm # None
  <2>1. wm \in Nat /\ wm <= now
    BY <1>4, Given
  <2>2. Day(wm) \in Nat /\ Day(wm) <= Today
    BY <1>1, <2>1, Days DEF Today
  <2>2a. First(wm) = Day(wm)
    BY <1>2, <2>2 DEF First
  <2>3. CASE Behind(wm)
    <3> DEFINE k == Month(First(wm))
               n == MonthsBehind(wm)
    <3>1. k \in Nat /\ k <= Month(Today) /\ k * PerMonth <= Day(wm)
      BY <1>2, <2>2, <2>2a, Days
    <3>2. n \in Nat \ {0} /\ k + n - 1 = Month(Today)
      BY <1>2, <3>1 DEF MonthsBehind
    <3>3. dates = [i \in 1..n |-> [by |-> "month", at |-> k + i - 1]]
      BY <1>4, <2>3 DEF SyncDates, ByMonth
    <3> HIDE DEF k, n
    <3>3a. \A i \in 1..n : [by |-> "month", at |-> k + i - 1] \in Query
      BY <3>1, <3>2 DEF Query
    <3>3b. dates \in [1..n -> Query]
           /\ \A i \in 1..n : dates[i] = [by |-> "month", at |-> k + i - 1]
      BY <3>3, <3>3a
    <3>4. /\ dates \in Seq(Query) /\ dates # <<>> /\ Len(dates) = n
          /\ dates[1] = [by |-> "month", at |-> k] /\ dates[n] = [by |-> "month", at |-> k + n - 1]
          /\ \A i \in 1..n : dates[i].by = "month" /\ dates[i].at = k + (i - 1)
      BY <3>1, <3>2, <3>3b, QueriesFrom
    <3>5. FirstDay(dates[1]) = k * PerMonth /\ dates[1] \in Query /\ k * PerMonth \in Nat
      BY <3>1, <3>4, Given DEF FirstDay, Query
    <3> DEFINE m == Month(Today)
    <3>6. LastAsked(dates) = m * PerMonth * PerDay /\ FirstDay(dates[n]) = m * PerMonth
      BY <3>2, <3>4 DEF LastAsked, FirstDay
    <3> DEFINE f == m * PerMonth
    <3>7. f \in Nat /\ f <= Today
      BY <1>2, Given
    <3>8. f * PerDay \in Nat /\ f * PerDay <= Today * PerDay
      <4> HIDE DEF f
      <4> QED
        BY <1>2, <3>7, Given
    <3>9. LastAsked(dates) \in Instants /\ LastAsked(dates) <= now
      <4>1. Today * PerDay \in Nat
        BY <1>2, Given
      <4>2. LastAsked(dates) = f * PerDay
        BY <3>6
      <4> HIDE DEF f
      <4> QED
        BY <1>1, <1>2, <3>8, <4>1, <4>2
    <3>10. \A me : me.todo = dates /\ me.last = LastAsked(dates) => Consecutive(me)
      BY <3>4, <3>6 DEF Consecutive
    <3> QED
      BY <1>4, <3>1, <3>4, <3>5, <3>9, <3>10
  <2>4. CASE ~Behind(wm)
    <3> DEFINE k == First(wm)
               n == Today - First(wm) + 1
    <3>1. k \in Nat /\ k <= Today /\ k = Day(wm)
      BY <2>2, <2>2a
    <3>2. n \in Nat \ {0} /\ k + n - 1 = Today
      BY <1>2, <3>1
    <3>3. dates = [i \in 1..n |-> [by |-> "day", at |-> k + i - 1]]
      BY <1>4, <2>4 DEF SyncDates, ByDay
    <3> HIDE DEF k, n
    <3>3a. \A i \in 1..n : [by |-> "day", at |-> k + i - 1] \in Query
      BY <3>1, <3>2 DEF Query
    <3>3b. dates \in [1..n -> Query]
           /\ \A i \in 1..n : dates[i] = [by |-> "day", at |-> k + i - 1]
      BY <3>3, <3>3a
    <3>4. /\ dates \in Seq(Query) /\ dates # <<>> /\ Len(dates) = n
          /\ dates[1] = [by |-> "day", at |-> k] /\ dates[n] = [by |-> "day", at |-> k + n - 1]
          /\ \A i \in 1..n : dates[i].by = "day" /\ dates[i].at = k + (i - 1)
      BY <3>1, <3>2, <3>3b, QueriesFrom
    <3>5. FirstDay(dates[1]) = k /\ dates[1] \in Query
      BY <3>1, <3>4 DEF FirstDay, Query
    <3>6. LastAsked(dates) = Today * PerDay /\ FirstDay(dates[n]) = Today
      BY <3>2, <3>4 DEF LastAsked, FirstDay
    <3>7. Today * PerDay \in Nat
      BY <1>2, Given
    <3>8. LastAsked(dates) \in Instants /\ LastAsked(dates) <= now
      BY <1>1, <1>2, <3>6, <3>7
    <3>9. \A me : me.todo = dates /\ me.last = LastAsked(dates) => Consecutive(me)
      BY <3>4, <3>6 DEF Consecutive
    <3> QED
      BY <1>4, <3>1, <3>4, <3>5, <3>8, <3>9
  <2> QED
    BY <2>3, <2>4
<1> QED
  BY <1>3, <1>4

\* A run that has asked for nothing yet, of queries that go on from what is taken over.
Fresh(me, dates, wm, last) ==
    /\ me.pc = "read" /\ me.todo = dates /\ me.from = wm /\ me.last = last
    /\ me.newest = None /\ me.held = <<>> /\ me.page = 1 /\ me.fetched = 0

LEMMA StartOk ==
    ASSUME SyncInv, NEW r \in Runs, NEW dates \in Seq(Query), dates # <<>>,
           NEW wm \in Instants \cup {None}, NEW last \in Instants \cup {None},
           wm # None => wm <= now, last # None => last <= now, Taken(wm),
           FirstDay(dates[1]) \in Nat, wm = None => FirstDay(dates[1]) = 0,
           wm # None => FirstDay(dates[1]) <= Day(wm),
           \A me : me.todo = dates /\ me.last = last => Consecutive(me),
           r = "full" => dates = <<All>>,
           NEW me \in RunType, Fresh(me, dates, wm, last), run' = [run EXCEPT ![r] = me],
           UNCHANGED <<kto, spots, watermark, now, changes, faults>>
    PROVE  SyncInv'
<1>2. /\ me.pc = "read" /\ me.todo = dates /\ me.from = wm /\ me.last = last /\ me.newest = None
      /\ me.held = <<>> /\ me.page = 1 /\ me.fetched = 0
  BY DEF Fresh
<1>3. StampsPast(me) /\ HeldPast(me)
  BY <1>2, NothingHeld DEF StampsPast, HeldPast
<1>4. RunOk(r, me)
  <2>1. \A s \in Listed : Day(kto[s].stamp) < FirstDay(me.todo[1]) => Written(s)
    <3> SUFFICES ASSUME NEW s \in Listed, Day(kto[s].stamp) < FirstDay(dates[1]) PROVE Written(s)
      BY <1>2
    <3>1. kto[s].stamp \in Nat /\ Day(kto[s].stamp) \in Nat
      BY ListedHere, RowFields, Days DEF SyncInv
    <3>2. wm # None
      BY <3>1
    <3>3. wm \in Nat /\ Day(wm) \in Nat
      BY <3>2, Given, Days
    <3> QED
      BY <3>1, <3>2, <3>3 DEF Taken
  <2>2. Consecutive(me) /\ me.todo # <<>>
    BY <1>2
  <2>3. Asking(me)
    BY <1>2, <2>1, <2>2, NothingHeld DEF Asking
  <2> QED
    BY <1>2, <2>3 DEF RunOk
<1>5. Updated
  BY DEF Updated, Written
<1>6. PICK rows, w : rows = spots /\ w = watermark
  OBVIOUS
<1>7. /\ rows \in [Spots -> Row \cup {None}] /\ w \in Instants \cup {None}
      /\ RowsPast(rows) /\ (w # None => w <= now) /\ Taken(w) /\ changes \in Nat /\ faults \in Nat
  BY <1>6, InvAt
<1>8. RunOk(r, me)'
  BY <1>4, <1>5, OkStays
<1> QED
  BY <1>3, <1>5, <1>6, <1>7, <1>8, RunStep

LEMMA StartDailyKeeps == SyncInv /\ StartDaily => SyncInv'
<1> SUFFICES ASSUME SyncInv, StartDaily PROVE SyncInv'
  OBVIOUS
<1>1. PICK wm, dates, last : wm = watermark /\ dates = SyncDates(wm) /\ last = LastAsked(dates)
  OBVIOUS
<1>2. /\ wm \in Instants \cup {None} /\ (wm # None => wm <= now) /\ Taken(wm) /\ SyncTyped
      /\ "daily" \in Runs
  BY <1>1, InvAt DEF SyncInv, Runs
<1>3. /\ dates \in Seq(Query) /\ dates # <<>> /\ FirstDay(dates[1]) \in Nat
      /\ (wm = None => FirstDay(dates[1]) = 0) /\ (wm # None => FirstDay(dates[1]) <= Day(wm))
      /\ last \in Instants \cup {None} /\ (last # None => last <= now)
      /\ \A me : me.todo = dates /\ me.last = last => Consecutive(me)
  BY <1>1, <1>2, DatesOk
<1> DEFINE me == [Idle EXCEPT !.pc = "read", !.todo = dates, !.from = wm, !.last = last]
<1>4. me \in RunType /\ Fresh(me, dates, wm, last) /\ run' = [run EXCEPT !["daily"] = me]
  <2>1. me \in RunType
    BY <1>2, <1>3, IdleTyped DEF RunType
  <2>2. Fresh(me, dates, wm, last)
    BY DEF Fresh, Idle
  <2>3. run' = [run EXCEPT !["daily"] = me]
    BY <1>1 DEF StartDaily
  <2> QED
    BY <2>1, <2>2, <2>3
<1>5. UNCHANGED <<kto, spots, watermark, now, changes, faults>>
  BY DEF StartDaily
<1>6. "daily" # "full"
  OBVIOUS
<1> HIDE DEF me
<1> QED
  BY <1>2, <1>3, <1>4, <1>5, <1>6, StartOk

LEMMA StartFullKeeps == SyncInv /\ StartFull => SyncInv'
<1> SUFFICES ASSUME SyncInv, StartFull PROVE SyncInv'
  OBVIOUS
<1>1. PICK dates : dates = <<All>>
  OBVIOUS
<1>2. /\ dates \in Seq(Query) /\ dates # <<>> /\ Len(dates) = 1 /\ dates[1] = All
      /\ All.by = "all" /\ FirstDay(dates[1]) = 0
  BY <1>1 DEF All, Query, FirstDay
<1>3. \A me : me.todo = dates /\ me.last = None => Consecutive(me)
  <2> SUFFICES ASSUME NEW me, me.todo = dates, me.last = None PROVE Consecutive(me)
    OBVIOUS
  <2>1. \A i \in 1..1 : i = 1
    OBVIOUS
  <2>2. All.at = All.at + (1 - 1)
    BY DEF All
  <2> QED
    BY <1>2, <2>1, <2>2 DEF Consecutive
<1> DEFINE me == [Idle EXCEPT !.pc = "read", !.todo = dates]
<1>4. me \in RunType /\ Fresh(me, dates, None, None) /\ run' = [run EXCEPT !["full"] = me]
  <2>1. me \in RunType
    BY <1>2, IdleTyped DEF RunType
  <2>2. Fresh(me, dates, None, None)
    BY DEF Fresh, Idle
  <2>3. run' = [run EXCEPT !["full"] = me]
    BY <1>1 DEF StartFull
  <2> QED
    BY <2>1, <2>2, <2>3
<1>5. UNCHANGED <<kto, spots, watermark, now, changes, faults>> /\ "full" \in Runs /\ Taken(None)
  BY DEF StartFull, Runs, Taken
<1>6. None \in Instants \cup {None} /\ FirstDay(dates[1]) \in Nat
  BY <1>2
<1> HIDE DEF me
<1> QED
  BY <1>1, <1>2, <1>3, <1>4, <1>5, <1>6, StartOk

LEMMA FailKeeps == ASSUME NEW r \in Runs PROVE SyncInv /\ Fail(r) => SyncInv'
<1> SUFFICES ASSUME SyncInv, Fail(r) PROVE SyncInv'
  OBVIOUS
<1>1. faults \in Nat
  BY InvAt
<1>2. run' = [run EXCEPT ![r] = Idle] /\ faults' \in Nat /\ UNCHANGED <<kto, spots, watermark, now, changes>>
  BY <1>1 DEF Fail
<1> QED
  BY <1>2, GoIdle

LEMMA TickKeeps == SyncInv /\ Tick => SyncInv'
<1> SUFFICES ASSUME SyncInv, Tick PROVE SyncInv'
  OBVIOUS
<1>1. SyncTyped /\ UNCHANGED <<kto, spots, watermark, run, changes, faults>> /\ now \in Nat
      /\ now' = now + 1 /\ now' \in Instants
  BY Given DEF SyncInv, SyncTyped, Tick, Instants
<1>2. SyncTyped'
  BY <1>1 DEF SyncTyped
<1>3. Updated
  BY <1>1 DEF Updated, Written
<1>4. \A x : Taken(x) => Taken(x)'
  BY <1>3, TakenStays
<1>5. \A r \in Runs : RunOk(r, run[r])'
  <2> SUFFICES ASSUME NEW r \in Runs PROVE RunOk(r, run[r])'
    OBVIOUS
  <2>1. PICK me : me = run[r]
    OBVIOUS
  <2>2. RunOk(r, me)'
    BY <1>3, <2>1, OkStays DEF SyncInv
  <2> QED
    BY <1>1, <2>1, <2>2
<1>6. Taken(watermark)'
  <2>1. PICK x : x = watermark
    OBVIOUS
  <2>2. Taken(x)'
    BY <1>4, <2>1 DEF SyncInv
  <2> QED
    BY <1>1, <2>1, <2>2
<1>7. NoneAhead'
  <2>1. \A x \in Nat : x <= now => x <= now'
    BY <1>1
  <2>2. ASSUME NEW s \in Spots, kto[s] # None PROVE kto'[s].stamp <= now'
    <3>1. kto[s].stamp \in Nat /\ kto[s].stamp <= now
      BY <1>1, <2>2, RowFields DEF SyncInv, NoneAhead
    <3> QED
      BY <1>1, <3>1
  <2>3. \A r \in Runs : \A x \in {run'[r].newest, run'[r].from, run'[r].last} \ {None} : x <= now'
    <3> SUFFICES ASSUME NEW r \in Runs, NEW x \in {run[r].newest, run[r].from, run[r].last} \ {None}
                 PROVE  x <= now'
      BY <1>1
    <3>1. run[r] \in RunType
      BY InvAt
    <3>2. x \in Nat
      BY <3>1, RunFields, Given
    <3>3. x <= now
      BY DEF SyncInv, NoneAhead
    <3> QED
      BY <2>1, <3>2, <3>3
  <2>4. watermark # None => watermark <= now'
    <3>1. watermark # None => watermark \in Nat /\ watermark <= now
      BY Given DEF SyncInv, SyncTyped, NoneAhead
    <3> QED
      BY <2>1, <3>1
  <2> QED
    BY <1>1, <2>2, <2>3, <2>4 DEF NoneAhead, SyncInv
<1> QED
  BY <1>2, <1>5, <1>6, <1>7 DEF SyncInv

--------------------------------------------------------------------------------
(* KTO changes, but not during a listing of more than a day.                   *)

LEMMA ChangeKeeps ==
    ASSUME ~Churn, SyncInv, MayChange, Changed, kto' \in [Spots -> Published \cup {None}],
           changes' = changes + 1, faults' = faults,
           \A s \in Spots : kto'[s] # None => kto'[s].stamp <= now,
           \A s \in Spots : kto[s] # None => kto'[s] # None /\ kto[s].stamp <= kto'[s].stamp
    PROVE  SyncInv'
<1>1. SyncTyped /\ UNCHANGED <<spots, watermark, run, now>>
  BY DEF SyncInv, Changed
<1>2. SyncTyped'
  BY <1>1 DEF SyncTyped
<1>3. \A r \in Runs : RunOk(r, run[r])'
  <2> SUFFICES ASSUME NEW r \in Runs PROVE RunOk(r, run[r])'
    OBVIOUS
  <2>1. PICK me : me = run[r]
    OBVIOUS
  <2>2. me \in RunType /\ RunOk(r, me) /\ StampsPast(me)
    BY <2>1, InvAt
  <2>3. (r = "full" => me.pc = "idle") /\ \A i \in DOMAIN me.todo : me.todo[i].by = "day"
    BY <2>1 DEF MayChange, Long
  <2>4. RunOk(r, me)'
    BY <1>1, <2>2, <2>3, OkThroughChange
  <2> QED
    BY <1>1, <2>1, <2>4
<1>4. Taken(watermark)'
  <2>1. PICK x : x = watermark
    OBVIOUS
  <2>2. (x # None => x \in Nat /\ x <= now) /\ Taken(x)
    BY <2>1, InvAt, Given DEF Runs
  <2>3. Taken(x)'
    BY <1>1, <2>2, TakenThroughChange
  <2> QED
    BY <1>1, <2>1, <2>3
<1>5. NoneAhead'
  <2>1. ASSUME NEW s \in Spots, NEW n \in Nat, kto[s] # None, n <= kto[s].stamp
        PROVE  kto'[s] # None /\ n <= kto'[s].stamp
    <3>1. kto[s].stamp \in Nat /\ kto'[s] # None /\ kto[s].stamp <= kto'[s].stamp
      BY <1>1, <2>1, RowFields
    <3>2. kto'[s] \in Published
      BY <3>1
    <3>3. kto'[s].stamp \in Nat
      BY <3>2, Given DEF Published
    <3> QED
      BY <2>1, <3>1, <3>3
  <2>2. ASSUME NEW s \in Spots, spots[s] # None
        PROVE  kto'[s] # None /\ spots[s].stamp <= kto'[s].stamp
    <3>1. spots[s].stamp \in Nat /\ kto[s] # None /\ spots[s].stamp <= kto[s].stamp
      BY <1>1, <2>2, RowFields DEF SyncInv, NoneAhead
    <3> QED
      BY <2>1, <3>1
  <2>3. ASSUME NEW r \in Runs, NEW s \in DOMAIN run[r].held
        PROVE  kto'[s] # None /\ run[r].held[s].stamp <= kto'[s].stamp
    <3>1. run[r] \in RunType /\ HeldPast(run[r])
      BY InvAt
    <3>2. s \in Spots /\ run[r].held[s] \in Row
      BY <3>1, RunFields
    <3>3. run[r].held[s].stamp \in Nat
      BY <3>2, Given DEF Row
    <3>4. kto[s] # None /\ run[r].held[s].stamp <= kto[s].stamp
      BY <3>1 DEF HeldPast
    <3> QED
      BY <2>1, <3>2, <3>3, <3>4
  <2> QED
    BY <1>1, <2>2, <2>3 DEF NoneAhead, SyncInv
<1> QED
  BY <1>2, <1>3, <1>4, <1>5 DEF SyncInv

LEMMA ModifyKeeps == ASSUME ~Churn, NEW x \in Spots PROVE SyncInv /\ Modify(x) => SyncInv'
<1> SUFFICES ASSUME SyncInv, Modify(x) PROVE SyncInv'
  OBVIOUS
<1>1. PICK shown \in BOOLEAN :
         kto' = [kto EXCEPT ![x] = [stamp |-> now, show |-> shown, listed |-> TRUE]]
  BY DEF Modify
<1>2. /\ kto \in [Spots -> Published \cup {None}] /\ now \in Instants /\ now \in Nat
      /\ None \notin Instants
  BY Given DEF SyncInv, SyncTyped
<1> DEFINE p == [stamp |-> now, show |-> shown, listed |-> TRUE]
<1>3. p \in Published /\ p.stamp = now /\ p.listed
  BY <1>2 DEF Published
<1> HIDE DEF p
<1>4. kto' = [kto EXCEPT ![x] = p]
  BY <1>1 DEF p
<1>5. kto' \in [Spots -> Published \cup {None}]
      /\ \A s \in Spots : kto'[s] = IF s = x THEN p ELSE kto[s]
  BY <1>2, <1>3, <1>4
<1>6. p # None
  BY <1>3, Given
<1>7. \A s \in Spots : kto[s] # None => kto[s].stamp \in Nat /\ kto[s].stamp <= now
  BY RowFields DEF SyncInv, NoneAhead
<1>8. Changed
  <2>1. Listed' \subseteq Spots
    BY DEF Listed
  <2>2. \A s \in Listed' : (s \in Listed /\ kto'[s] = kto[s]) \/ kto'[s].stamp = now
    BY <1>3, <1>5 DEF Listed
  <2> QED
    BY <2>1, <2>2 DEF Changed, Modify
<1>9. \A s \in Spots : kto'[s] # None => kto'[s].stamp <= now
  BY <1>2, <1>3, <1>5, <1>7
<1>10. \A s \in Spots : kto[s] # None => kto'[s] # None /\ kto[s].stamp <= kto'[s].stamp
  BY <1>2, <1>3, <1>5, <1>6, <1>7
<1> QED
  BY <1>5, <1>8, <1>9, <1>10, ChangeKeeps DEF Modify

LEMMA DropKeeps == ASSUME ~Churn, NEW x \in Spots PROVE SyncInv /\ Drop(x) => SyncInv'
<1> SUFFICES ASSUME SyncInv, Drop(x) PROVE SyncInv'
  OBVIOUS
<1>1. kto' = [kto EXCEPT ![x].listed = FALSE] /\ kto[x] # None
  BY DEF Drop, Listed
<1>2. kto \in [Spots -> Published \cup {None}] /\ kto[x] \in Published
  BY <1>1 DEF SyncInv, SyncTyped
<1> DEFINE p == [kto[x] EXCEPT !.listed = FALSE]
<1>3. p \in Published /\ p.stamp = kto[x].stamp /\ p.listed = FALSE
  BY <1>2 DEF Published
<1>4. kto' = [kto EXCEPT ![x] = p]
  BY <1>1
<1> HIDE DEF p
<1>5. kto' \in [Spots -> Published \cup {None}]
      /\ \A s \in Spots : kto'[s] = IF s = x THEN p ELSE kto[s]
  BY <1>2, <1>3, <1>4
<1>6. p # None
  BY <1>3, Given
<1>7. \A s \in Spots : kto[s] # None => kto[s].stamp \in Nat /\ kto[s].stamp <= now
  BY RowFields DEF SyncInv, NoneAhead
<1>8. Changed
  <2>1. Listed' \subseteq Spots
    BY DEF Listed
  <2>2. \A s \in Listed' : s \in Listed /\ kto'[s] = kto[s]
    BY <1>3, <1>5 DEF Listed
  <2> QED
    BY <2>1, <2>2 DEF Changed, Drop
<1>9. \A s \in Spots : kto'[s] # None => kto'[s].stamp <= now
  BY <1>1, <1>3, <1>5, <1>7
<1>10. \A s \in Spots : kto[s] # None => kto'[s] # None /\ kto[s].stamp <= kto'[s].stamp
  <2>1. \A s \in Spots : s # x => kto'[s] = kto[s]
    BY <1>5
  <2>2. kto'[x] # None /\ kto[x].stamp <= kto'[x].stamp
    <3>1. kto'[x] = p /\ kto[x].stamp \in Nat
      BY <1>1, <1>5, <1>7
    <3>2. kto'[x].stamp = kto[x].stamp
      BY <1>3, <3>1
    <3>3. kto[x].stamp <= kto[x].stamp
      BY <3>1
    <3> QED
      BY <1>6, <3>1, <3>2, <3>3
  <2> QED
    BY <1>7, <2>1, <2>2
<1> QED
  BY <1>5, <1>8, <1>9, <1>10, ChangeKeeps DEF Drop

--------------------------------------------------------------------------------
(* The end of a date.                                                          *)

\* A stamp before the next query, or of a day before one found so far, is matched by
\* this query or lies before it.
LEMMA NothingBetween ==
    ASSUME NEW q \in Query, NEW t \in Nat
    PROVE  /\ \A q2 : q.by # "all" /\ q2.by = q.by /\ q2.at = q.at + 1 /\ Day(t) < FirstDay(q2)
                   => Day(t) < FirstDay(q) \/ Matches(q, t)
           /\ \A x \in Nat : UpTo(q, x) /\ Day(t) < Day(x) => Day(t) < FirstDay(q) \/ Matches(q, t)
<1>1. q.at \in Nat /\ q.by \in {"all", "day", "month"} /\ Day(t) \in Nat
  BY Days DEF Query
<1>2. Month(Day(t)) \in Nat /\ \A m \in Nat : Month(Day(t)) < m <=> Day(t) < m * PerMonth
  BY <1>1, Days
<1>3. CASE q.by = "all"
  BY <1>3 DEF Matches
<1>4. CASE q.by = "day"
  <2>1. FirstDay(q) = q.at /\ (Matches(q, t) <=> Day(t) = q.at)
    BY <1>4 DEF FirstDay, Matches
  <2>2. \A q2 : q2.by = q.by /\ q2.at = q.at + 1 => FirstDay(q2) = q.at + 1
    BY <1>4 DEF FirstDay
  <2>3. \A x \in Nat : UpTo(q, x) => Day(x) <= q.at /\ Day(x) \in Nat
    BY <1>4, Days DEF UpTo
  <2> QED
    BY <1>1, <2>1, <2>2, <2>3
<1>5. CASE q.by = "month"
  <2>1. FirstDay(q) = q.at * PerMonth /\ (Matches(q, t) <=> Month(Day(t)) = q.at)
    BY <1>5 DEF FirstDay, Matches
  <2>2. \A q2 : q2.by = q.by /\ q2.at = q.at + 1 => FirstDay(q2) = (q.at + 1) * PerMonth
    BY <1>5 DEF FirstDay
  <2>3. Month(Day(t)) < q.at => Day(t) < FirstDay(q)
    BY <1>1, <1>2, <2>1
  <2>4. Month(Day(t)) < q.at + 1 => Day(t) < FirstDay(q) \/ Matches(q, t)
    BY <1>1, <1>2, <2>1, <2>3
  <2>5. Day(t) < (q.at + 1) * PerMonth => Month(Day(t)) < q.at + 1
    BY <1>1, <1>2
  <2>6. ASSUME NEW x \in Nat, UpTo(q, x), Day(t) < Day(x) PROVE Month(Day(t)) < q.at + 1
    <3>1. Day(x) \in Nat /\ Month(Day(x)) \in Nat /\ Month(Day(x)) <= q.at
      BY <1>5, <2>6, Days DEF UpTo
    <3>2. Day(t) <= Day(x)
      BY <1>1, <2>6, <3>1
    <3>3. Month(Day(t)) <= Month(Day(x))
      BY <1>1, <3>1, <3>2, Days
    <3> QED
      BY <1>1, <1>2, <3>1, <3>3
  <2> QED
    BY <2>2, <2>4, <2>5, <2>6
<1> QED
  BY <1>1, <1>3, <1>4, <1>5

\* The queries of a run that has some.
LEMMA TodoOk ==
    ASSUME NEW me \in RunType, me.todo # <<>>, Consecutive(me)
    PROVE  /\ Len(me.todo) \in Nat /\ Len(me.todo) > 0 /\ me.todo \in Seq(Query)
           /\ \A i \in 1..Len(me.todo) : /\ me.todo[i] \in Query /\ me.todo[i].at \in Nat
                                         /\ me.todo[i].by = me.todo[1].by
                                         /\ me.todo[i].at = me.todo[1].at + (i - 1)
           /\ me.todo[1] \in Query /\ me.todo[1].at \in Nat
           /\ me.todo[1].by = "all" => Len(me.todo) = 1 /\ me.last = None
           /\ me.todo[1].by # "all" => me.last = FirstDay(me.todo[Len(me.todo)]) * PerDay
           /\ Head(me.todo) = me.todo[1]
<1>1. me.todo \in Seq(Query)
  BY RunFields
<1>2. Len(me.todo) \in Nat /\ Len(me.todo) > 0
  BY <1>1, EmptySeq, LenProperties
<1>3. \A i \in 1..Len(me.todo) : me.todo[i] \in Query
  BY <1>1, ElementOfSeq
<1>4. \A i \in 1..Len(me.todo) : me.todo[i].at \in Nat
  BY <1>3 DEF Query
<1>5. 1 \in 1..Len(me.todo) /\ Head(me.todo) = me.todo[1]
  BY <1>1, <1>2
<1>6. \A i \in 1..Len(me.todo) : /\ me.todo[i].by = me.todo[1].by
                                 /\ me.todo[i].at = me.todo[1].at + (i - 1)
  BY DEF Consecutive
<1> QED
  BY <1>1, <1>2, <1>3, <1>4, <1>5, <1>6 DEF Consecutive

LEMMA NextOk ==
    ASSUME SyncTyped, kto' = kto, NEW r, NEW me \in RunType, me.todo # <<>>, Consecutive(me),
           StampsPast(me), \A s \in Listed : Day(kto[s].stamp) < FirstDay(me.todo[1]) => Written(s)',
           me.newest # None => UpTo(me.todo[1], me.newest), Taken(me.from)',
           Settled(me) => \A s \in Listing(me.todo[1]) : Written(s)',
           r = "full" => me.todo = <<All>> /\ Listed \subseteq me.seen
    PROVE  RunOk(r, NextDate(me))' /\ NextDate(me) \in RunType /\ StampsPast(NextDate(me))
           /\ HeldPast(NextDate(me))
<1> DEFINE q == me.todo[1]
           n == Len(me.todo)
           rest == Tail(me.todo)
           on == NextDate(me)
<1>1. /\ n \in Nat /\ n > 0 /\ me.todo \in Seq(Query) /\ q \in Query /\ q.at \in Nat
      /\ q.by \in {"all", "day", "month"}
  BY TodoOk DEF Query
<1>2. rest \in Seq(Query) /\ Len(rest) = n - 1 /\ \A i \in 1..(n - 1) : rest[i] = me.todo[i + 1]
  BY <1>1, HeadTailProperties
<1>3. rest # <<>> <=> n > 1
  <2> HIDE DEF rest, n
  <2>1. rest # <<>> => Len(rest) \in Nat \ {0}
    BY <1>2, EmptySeq
  <2>2. rest = <<>> => Len(rest) = 0
    BY EmptySeq
  <2> QED
    BY <1>1, <1>2, <2>1, <2>2
<1>4. /\ on.todo = rest /\ on.page = 1 /\ on.total = 0 /\ on.fetched = 0 /\ on.held = <<>>
      /\ on.pc = (IF rest # <<>> THEN "read" ELSE "closing") /\ on.seen = me.seen
      /\ on.newest = me.newest /\ on.from = me.from /\ on.last = me.last
  BY DEF NextDate, RunType
<1>5. on \in RunType
  <2>1. <<>> \in Pages
    BY NothingHeld
  <2>2. PICK pc, none : pc = (IF rest # <<>> THEN "read" ELSE "closing") /\ none = <<>>
    OBVIOUS
  <2>3. pc \in {"idle", "read", "write", "closing", "finish"} /\ rest \in Seq(Query)
        /\ none \in Pages
    BY <1>2, <2>1, <2>2
  <2> DEFINE half == [me EXCEPT !.todo = rest, !.page = 1, !.total = 0]
  <2>4. half \in RunType
    <3> HIDE DEF rest
    <3>1. 1 \in Nat \ {0} /\ 0 \in Nat
      OBVIOUS
    <3> QED
      BY <2>3, <3>1 DEF RunType
  <2>5. on = [half EXCEPT !.fetched = 0, !.held = none, !.pc = pc]
    BY <2>2 DEF NextDate
  <2> HIDE DEF on, rest, half
  <2> QED
    BY <2>3, <2>4, <2>5 DEF RunType
<1>6. StampsPast(on) /\ HeldPast(on)
  BY <1>4, NothingHeld DEF StampsPast, HeldPast
<1> HIDE DEF q, n, rest, on
<1>7. kto' = kto /\ Listed' = Listed /\ \A s \in Listed : kto[s].stamp \in Nat
  BY ListingStays, ListedHere, RowFields
<1>8. ASSUME NEW s \in Listed,
             Day(kto[s].stamp) < FirstDay(q) \/ (Settled(me) /\ Matches(q, kto[s].stamp))
      PROVE  Written(s)'
  BY <1>8 DEF q, Listing
<1>9. me.from = on.from /\ Taken(on.from)'
  BY <1>4
<1>10. CASE rest # <<>>
  <2>1. n > 1 /\ on.pc = "read" /\ q.by # "all" /\ 1 \in 1..(n - 1)
    BY <1>1, <1>3, <1>4, <1>10, TodoOk DEF q, n
  <2> DEFINE q2 == rest[1]
  <2>2. q2 = me.todo[2] /\ q2.by = q.by /\ q2.at = q.at + 1
    <3>1. q2 = me.todo[2] /\ 2 \in 1..n
      BY <1>1, <1>2, <2>1
    <3>2. me.todo[2].at = me.todo[1].at + (2 - 1) /\ me.todo[2].by = me.todo[1].by
      BY <3>1, TodoOk DEF n
    <3> QED
      BY <1>1, <3>1, <3>2 DEF q
  <2>3. Settled(me)
    <3>1. CASE q.by # "day"
      BY <3>1 DEF Settled, q
    <3>2. CASE q.by = "day"
      <4>1. n \in 1..n
        BY <1>1
      <4>2. me.todo[n].at = q.at + (n - 1) /\ me.todo[n].by = "day" /\ me.todo[n].at \in Nat
            /\ me.last = FirstDay(me.todo[n]) * PerDay
        BY <2>1, <3>2, <4>1, TodoOk DEF q, n
      <4>3. Day(me.last) = me.todo[n].at
        BY <4>2, Days DEF FirstDay
      <4>4. q.at < me.todo[n].at
        BY <1>1, <2>1, <4>2
      <4> QED
        BY <4>3, <4>4 DEF Settled, q
    <3> QED
      BY <3>1, <3>2
  <2>4. ASSUME NEW s \in Listed, Day(kto[s].stamp) < FirstDay(q2) PROVE Written(s)'
    <3>1. kto[s].stamp \in Nat
      BY <1>7
    <3>2. Day(kto[s].stamp) < FirstDay(q) \/ Matches(q, kto[s].stamp)
      BY <1>1, <2>1, <2>2, <2>4, <3>1, NothingBetween
    <3> QED
      BY <1>8, <2>3, <3>2
  <2>5. \A i \in 1..(n - 1) : on.todo[i].by = on.todo[1].by /\ on.todo[i].at = on.todo[1].at + (i - 1)
    <3> SUFFICES ASSUME NEW i \in 1..(n - 1)
                 PROVE  rest[i].by = q2.by /\ rest[i].at = q2.at + (i - 1)
      BY <1>4
    <3>1. rest[i] = me.todo[i + 1] /\ i + 1 \in 1..n
      BY <1>1, <1>2
    <3>2. me.todo[i + 1].by = q.by /\ me.todo[i + 1].at = q.at + ((i + 1) - 1)
      BY <3>1, TodoOk DEF q, n
    <3> HIDE DEF q2
    <3>3. i \in Int /\ q.at + ((i + 1) - 1) = q.at + 1 + (i - 1)
      BY <1>1
    <3> QED
      BY <2>2, <3>1, <3>2, <3>3
  <2>6. on.last = FirstDay(on.todo[n - 1]) * PerDay
    <3>1. n - 1 \in 1..(n - 1) /\ (n - 1) + 1 = n
      BY <1>1, <2>1
    <3>2. on.todo[n - 1] = me.todo[n]
      BY <1>2, <1>4, <3>1
    <3>3. me.last = FirstDay(me.todo[n]) * PerDay
      BY <2>1, TodoOk DEF q, n
    <3> QED
      BY <1>4, <3>2, <3>3
  <2>7. Consecutive(on)
    <3>1. Len(on.todo) = n - 1 /\ on.todo[1].by # "all"
      BY <1>2, <1>4, <2>1, <2>2
    <3> QED
      BY <2>5, <2>6, <3>1 DEF Consecutive
  <2>8. on.newest # None => UpTo(q2, on.newest)
    <3> SUFFICES ASSUME me.newest # None PROVE UpTo(q2, me.newest)
      BY <1>4
    <3>1. UpTo(q, me.newest) /\ me.newest \in Nat
      BY RunFields, Given DEF q
    <3>2. Day(me.newest) \in Nat /\ Month(Day(me.newest)) \in Nat
      BY <3>1, Days
    <3> QED
      BY <1>1, <2>2, <3>1, <3>2 DEF UpTo
  <2>9. Asking(on)'
    <3>1. (\A s \in Listed : Day(kto[s].stamp) < FirstDay(on.todo[1]) => Written(s))'
      BY <1>4, <1>7, <2>4
    <3>2. ~(on.page > 1 \/ on.pc = "write") /\ DOMAIN on.held = {} /\ on.fetched = 0 /\ on.todo # <<>>
      BY <1>4, <1>10, <2>1, NothingHeld
    <3>3. Consecutive(on)' /\ (on.newest # None => UpTo(on.todo[1], on.newest))'
      BY <1>4, <2>7, <2>8
    <3> QED
      BY <3>1, <3>2, <3>3 DEF Asking
  <2>10. r # "full"
    <3>1. Len(<<All>>) = 1
      OBVIOUS
    <3>2. me.todo # <<All>>
      <4>1. me.todo = <<All>> => n = 1
        BY <3>1 DEF n
      <4> QED
        BY <2>1, <4>1
    <3> QED
      BY <3>2
  <2> QED
    BY <1>5, <1>6, <1>9, <2>1, <2>9, <2>10 DEF RunOk, on
<1>11. CASE rest = <<>>
  <2>1. n = 1 /\ on.pc = "closing" /\ on.todo = <<>>
    BY <1>1, <1>3, <1>4, <1>11
  <2>2. CASE q.by = "day"
    <3>1. me.last = q.at * PerDay /\ Day(me.last) = q.at
      BY <1>1, <2>1, <2>2, TodoOk, Days DEF q, n, FirstDay
    <3>2. me.newest # None => UpTo(q, me.newest) /\ me.newest \in Nat
      BY RunFields, Given DEF q
    <3>3. me.newest # None => Day(me.newest) <= q.at /\ Day(me.newest) \in Nat
      BY <2>2, <3>2, Days DEF UpTo
    <3>4. \A s \in Listed : Day(kto[s].stamp) < q.at => Written(s)'
      BY <1>8, <2>2 DEF FirstDay
    <3>5. \A s \in Listed : Day(kto[s].stamp) \in Nat
      BY <1>7, Days
    <3>6. Taken(on.last)' /\ Taken(on.newest)'
      <4>1. \A s \in Listed : Day(kto[s].stamp) < Day(me.last) => Written(s)'
        BY <3>1, <3>4
      <4>2. me.newest # None => \A s \in Listed : Day(kto[s].stamp) < Day(me.newest) => Written(s)'
        BY <1>1, <3>3, <3>4, <3>5
      <4> QED
        BY <1>4, <1>7, <4>1, <4>2 DEF Taken
    <3>7. r # "full"
      <4>1. q # All
        BY <2>2 DEF All
      <4> QED
        BY <4>1 DEF q
    <3> QED
      BY <1>5, <1>6, <1>9, <2>1, <3>6, <3>7 DEF RunOk, on
  <2>3. CASE q.by # "day"
    <3>1. Settled(me)
      BY <2>3 DEF Settled, q
    <3>2. Taken(on.newest)'
      <4> SUFFICES ASSUME me.newest # None, NEW s \in Listed, Day(kto[s].stamp) < Day(me.newest)
                   PROVE  Written(s)'
        BY <1>4, <1>7 DEF Taken
      <4>1. UpTo(q, me.newest) /\ me.newest \in Nat /\ kto[s].stamp \in Nat
        BY <1>7, RunFields, Given DEF q
      <4>2. Day(kto[s].stamp) < FirstDay(q) \/ Matches(q, kto[s].stamp)
        BY <1>1, <4>1, NothingBetween
      <4> QED
        BY <1>8, <3>1, <4>2
    <3>3. Taken(on.last)'
      <4>1. CASE q.by = "all"
        <5>1. on.last = None
          BY <1>4, <4>1, TodoOk DEF q
        <5> QED
          BY <5>1 DEF Taken
      <4>2. CASE q.by = "month"
        <5>1. me.last = FirstDay(q) * PerDay /\ FirstDay(q) = q.at * PerMonth
          BY <2>1, <4>2, TodoOk DEF q, n, FirstDay
        <5>2. q.at * PerMonth \in Nat
          BY <1>1, Given
        <5>3. Day(me.last) = FirstDay(q)
          BY <5>1, <5>2, Days
        <5>4. \A s \in Listed : Day(kto[s].stamp) < Day(me.last) => Written(s)'
          BY <1>8, <5>3
        <5> QED
          BY <1>4, <1>7, <5>4 DEF Taken
      <4> QED
        BY <1>1, <2>3, <4>1, <4>2
    <3>4. r = "full" => Listed' \subseteq on.seen
      BY <1>4, <1>7
    <3> QED
      BY <1>5, <1>6, <1>9, <2>1, <3>2, <3>3, <3>4 DEF RunOk, on
  <2> QED
    BY <2>2, <2>3
<1> QED
  BY <1>10, <1>11

--------------------------------------------------------------------------------
(* A page is read.                                                             *)

\* A page lies between the one before and the one after.
LEMMA PageWithin ==
    ASSUME NEW q, NEW p \in Nat \ {0}, NEW s \in Page(q, p)
    PROVE  /\ s \in Listing(q) /\ ~ (Position(q, s) < (p - 1) * PageSize)
           /\ Position(q, s) < p * PageSize
<1> DEFINE x == Position(q, s)
<1>1. s \in Listing(q) /\ x \div PageSize = p - 1
  BY DEF Page
<1>2. x \in Nat /\ PageSize \in Nat \ {0} /\ p - 1 \in Nat
  BY PositionTyped, Given
<1> HIDE DEF x
<1>3. ~ (x < (p - 1) * PageSize)
  <2>1. ~(x \div PageSize < p - 1)
    BY <1>1, <1>2
  <2> QED
    BY <1>2, <2>1, DivBelow
<1>4. x < p * PageSize
  <2>1. x \div PageSize < p
    BY <1>1, <1>2
  <2> QED
    BY <1>2, <2>1, DivBelow
<1> QED
  BY <1>1, <1>3, <1>4 DEF x

Total(me) == IF me.page = 1 THEN Cardinality(Listing(me.todo[1])) ELSE me.total

\* A date that is not truncated was written as a whole.
LEMMA ReadAll ==
    ASSUME NEW me \in RunType, Asking(me), me.pc = "read", ~Truncated(me.fetched, Total(me)), Settled(me)
    PROVE  \A s \in Listing(me.todo[1]) : Written(s) /\ s \in me.seen
<1> DEFINE q == me.todo[1]
<1>1. IsFiniteSet(Listing(q)) /\ Cardinality(Listing(q)) \in Nat /\ Listing(q) \subseteq Spots
  BY ListedHere
<1>2. me.page \in Nat /\ me.page > 0 /\ me.fetched \in Nat
  BY RunFields
<1>3. CASE me.page = 1
  <2>1. Cardinality(Listing(q)) = 0
    BY <1>1, <1>3 DEF Asking, Truncated, Total
  <2>2. Listing(q) = {}
    BY <1>1, <2>1, FS_EmptySet
  <2> QED
    BY <2>2
<1>4. CASE me.page # 1
  <2>1. PICK all \in SUBSET Spots, got \in SUBSET Spots : Paged(me, all, got)
    BY <1>2, <1>4 DEF Asking
  <2>2. IsFiniteSet(all) /\ got \in SUBSET all /\ Cardinality(all) \in Nat
    BY <2>1, Given, FS_Subset, FS_CardinalityType DEF Paged
  <2>3. Cardinality(got) >= Cardinality(all)
    BY <1>2, <1>4, <2>1, <2>2 DEF Paged, Truncated, Total
  <2>4. Cardinality(got) <= Cardinality(all) /\ Cardinality(got) \in Nat
    BY <2>1, <2>2, <1>2, FS_Subset DEF Paged
  <2>5. all = got
    BY <2>2, <2>3, <2>4, FS_Subset
  <2> QED
    BY <2>1, <2>5 DEF Paged
<1> QED
  BY <1>3, <1>4

LEMMA ReadOn ==
    ASSUME SyncInv, NEW r \in Runs, run[r].pc = "read", ~Truncated(run[r].fetched, Total(run[r])),
           run' = [run EXCEPT ![r] = NextDate(run[r])],
           UNCHANGED <<kto, spots, watermark, now, changes>>, faults' \in Nat
    PROVE  SyncInv'
<1>1. PICK me, rows, w : me = run[r] /\ rows = spots /\ w = watermark
  OBVIOUS
<1>2. /\ rows \in [Spots -> Row \cup {None}] /\ w \in Instants \cup {None} /\ RowsPast(rows)
      /\ (w # None => w <= now) /\ Taken(w) /\ changes \in Nat /\ SyncTyped
  BY <1>1, InvAt
<1>3. me \in RunType /\ RunOk(r, me) /\ StampsPast(me) /\ HeldPast(me)
  BY <1>1, InvAt
<1>4. Asking(me) /\ Taken(me.from) /\ me.pc = "read" /\ (r = "full" => me.todo = <<All>>)
  BY <1>1, <1>3 DEF RunOk
<1>5. Updated /\ kto' = kto
  BY DEF Updated, Written
<1>6. Settled(me) => \A s \in Listing(me.todo[1]) : Written(s) /\ s \in me.seen
  BY <1>1, <1>3, <1>4, ReadAll
<1>7. Taken(me.from)'
  BY <1>4, <1>5, TakenStays
<1>8. \A s \in Listed : Day(kto[s].stamp) < FirstDay(me.todo[1]) => Written(s)'
  BY <1>4, <1>5, ListedHere DEF Asking, Updated
<1>9. Settled(me) => \A s \in Listing(me.todo[1]) : Written(s)'
  BY <1>5, <1>6, ListedHere DEF Updated
<1>10. r = "full" => me.todo = <<All>> /\ Listed \subseteq me.seen
  <2> SUFFICES ASSUME r = "full" PROVE me.todo = <<All>> /\ Listed \subseteq me.seen
    OBVIOUS
  <2>1. me.todo = <<All>> /\ me.todo[1] = All /\ All.by = "all"
    BY <1>4 DEF All
  <2>2. Listing(All) = Listed
    BY <2>1 DEF Listing, Matches
  <2>3. Settled(me)
    BY <2>1 DEF Settled
  <2> QED
    BY <1>6, <2>1, <2>2, <2>3
<1>11. me.todo # <<>> /\ Consecutive(me) /\ (me.newest # None => UpTo(me.todo[1], me.newest))
  BY <1>4 DEF Asking
<1>12. PICK on : on = NextDate(me)
  OBVIOUS
<1>13. on \in RunType /\ RunOk(r, on)' /\ StampsPast(on) /\ HeldPast(on)
  BY <1>2, <1>3, <1>5, <1>7, <1>8, <1>9, <1>10, <1>11, <1>12, NextOk
<1>14. run' = [run EXCEPT ![r] = on]
  BY <1>1, <1>12
<1> QED
  BY <1>1, <1>2, <1>5, <1>13, <1>14, RunStep

\* What a page that was read holds.
LEMMA HeldTyped ==
    ASSUME SyncTyped, NEW items \in SUBSET Listed, NEW held, held = [s \in items |-> Item(s)]
    PROVE  /\ held \in Pages /\ DOMAIN held = items /\ HeldPast([held |-> held])
           /\ \A s \in items : held[s].stamp = kto[s].stamp
<1>1. items \in SUBSET Spots
  BY ListedHere
<1>2. \A s \in items : Item(s) \in Row
  <2> SUFFICES ASSUME NEW s \in items PROVE Item(s) \in Row
    OBVIOUS
  <2>1. kto[s] \in Published
    BY <1>1, RowFields, ListedHere
  <2> QED
    BY <2>1 DEF Item, Row, Published
<1>3. held \in [items -> Row]
  BY <1>2
<1>4. held \in Pages
  BY <1>1, <1>3 DEF Pages
<1>5. \A s \in items : held[s].stamp = kto[s].stamp
  BY DEF Item
<1>6. \A s \in items : kto[s] # None /\ kto[s].stamp \in Nat
  BY <1>1, RowFields, ListedHere
<1>7. HeldPast([held |-> held])
  BY <1>3, <1>5, <1>6 DEF HeldPast
<1> QED
  BY <1>3, <1>4, <1>5, <1>7

LEMMA ReadHold ==
    ASSUME SyncInv, NEW r \in Runs, run[r].pc = "read",
           NEW items \in SUBSET Page(Head(run[r].todo), run[r].page), items # {},
           run' = [run EXCEPT ![r] = [run[r] EXCEPT !.pc = "write", !.total = Total(run[r]),
                                                    !.held = [s \in items |-> Item(s)]]],
           UNCHANGED <<kto, spots, watermark, now, changes>>, faults' \in Nat
    PROVE  SyncInv'
<1>1. PICK me, rows, w, total, held :
         /\ me = run[r] /\ rows = spots /\ w = watermark
         /\ total = Total(me) /\ held = [s \in items |-> Item(s)]
  OBVIOUS
<1> DEFINE q == me.todo[1]
           on == [me EXCEPT !.pc = "write", !.total = total, !.held = held]
<1>2. /\ rows \in [Spots -> Row \cup {None}] /\ w \in Instants \cup {None} /\ RowsPast(rows)
      /\ (w # None => w <= now) /\ Taken(w) /\ changes \in Nat /\ SyncTyped
  BY <1>1, InvAt
<1>3. me \in RunType /\ RunOk(r, me) /\ StampsPast(me)
  BY <1>1, InvAt
<1>4. Asking(me) /\ Taken(me.from) /\ me.pc = "read" /\ (r = "full" => me.todo = <<All>>)
  BY <1>1, <1>3 DEF RunOk
<1>5. Updated
  BY DEF Updated, Written
<1>6. me.page \in Nat \ {0} /\ me.fetched \in Nat /\ me.total \in Nat /\ Head(me.todo) = q
  <2>1. Consecutive(me) /\ me.todo # <<>>
    BY <1>4 DEF Asking
  <2>2. Head(me.todo) = q
    BY <1>3, <2>1, TodoOk
  <2> QED
    BY <1>3, <2>2, RunFields
<1>7. ASSUME NEW s \in items
      PROVE  /\ s \in Listing(q) /\ ~ (Position(q, s) < (me.page - 1) * PageSize)
             /\ Position(q, s) < me.page * PageSize
  <2>1. s \in Page(q, me.page)
    BY <1>1, <1>6
  <2> QED
    BY <1>6, <2>1, PageWithin
<1>8. items \in SUBSET Listed /\ items \subseteq Listing(q)
  BY <1>7, ListedHere
<1>9. /\ held \in Pages /\ DOMAIN held = items /\ HeldPast([held |-> held])
      /\ \A s \in items : held[s].stamp = kto[s].stamp
  BY <1>1, <1>2, <1>8, HeldTyped
<1>10. total \in Nat
  BY <1>1, <1>6, ListedHere DEF Total
<1>11. on \in RunType
  <2>1. "write" \in {"idle", "read", "write", "closing", "finish"}
    OBVIOUS
  <2> QED
    BY <1>3, <1>9, <1>10, <2>1 DEF RunType
<1>12. /\ on.pc = "write" /\ on.total = total /\ on.held = held /\ on.todo = me.todo
       /\ on.page = me.page /\ on.fetched = me.fetched /\ on.seen = me.seen
       /\ on.newest = me.newest /\ on.from = me.from /\ on.last = me.last
  BY <1>3 DEF RunType
<1> HIDE DEF on
<1>13. StampsPast(on) /\ HeldPast(on)
  BY <1>3, <1>9, <1>12 DEF StampsPast, HeldPast
<1>14. ASSUME Settled(on) PROVE \E all, got \in SUBSET Spots : Paged(on, all, got)
  <2>1. Settled(me)
    BY <1>12, <1>14 DEF Settled
  <2>2. PICK all \in SUBSET Spots, got \in SUBSET Spots :
           /\ got \subseteq all /\ Listing(q) \subseteq all
           /\ Cardinality(all) = total /\ Cardinality(got) = me.fetched /\ got \subseteq me.seen
           /\ \A s \in got \cap Listing(q) : Written(s) /\ Position(q, s) < (me.page - 1) * PageSize
    <3>1. CASE me.page = 1
      <4>1. Listing(q) \in SUBSET Spots /\ {} \in SUBSET Spots
        BY ListedHere
      <4>2. Cardinality({}) = me.fetched /\ Cardinality(Listing(q)) = total
        BY <1>1, <1>4, <3>1, FS_EmptySet DEF Asking, Total
      <4> QED
        BY <4>1, <4>2
    <3>2. CASE me.page # 1
      <4>1. PICK all \in SUBSET Spots, got \in SUBSET Spots : Paged(me, all, got)
        BY <1>4, <1>6, <2>1, <3>2 DEF Asking
      <4>2. total = me.total
        BY <1>1, <3>2 DEF Total
      <4> QED
        BY <4>1, <4>2 DEF Paged
    <3> QED
      BY <3>1, <3>2
  <2>3. items \subseteq all \ got
    BY <1>7, <2>2
  <2>4. Paged(on, all, got)
    BY <1>7, <1>9, <1>12, <2>2, <2>3 DEF Paged
  <2> QED
    BY <2>4
<1>15. \A s \in DOMAIN on.held : UpTo(on.todo[1], on.held[s].stamp)
  <2> SUFFICES ASSUME NEW s \in items PROVE UpTo(q, kto[s].stamp)
    BY <1>9, <1>12
  <2>1. Matches(q, kto[s].stamp)
    BY <1>8 DEF Listing
  <2>2. kto[s].stamp \in Nat
    BY <1>2, <1>8, ListedHere, RowFields
  <2>3. Day(kto[s].stamp) \in Nat /\ Month(Day(kto[s].stamp)) \in Nat
    BY <2>2, Days
  <2> QED
    BY <2>1, <2>3 DEF Matches, UpTo
<1>16. Asking(on)
  BY <1>4, <1>12, <1>14, <1>15 DEF Asking, Consecutive
<1>17. RunOk(r, on)
  BY <1>4, <1>9, <1>12, <1>16 DEF RunOk
<1>18. RunOk(r, on)'
  BY <1>5, <1>17, OkStays
<1>19. run' = [run EXCEPT ![r] = on]
  BY <1>1 DEF on
<1> QED
  BY <1>1, <1>2, <1>5, <1>11, <1>13, <1>18, <1>19, RunStep

LEMMA ReadKeeps == ASSUME NEW r \in Runs PROVE SyncInv /\ ReadPage(r) => SyncInv'
<1> SUFFICES ASSUME SyncInv, ReadPage(r) PROVE SyncInv'
  OBVIOUS
<1> DEFINE me == run[r]
           q == Head(me.todo)
           total == IF me.page = 1 THEN Cardinality(Listing(q)) ELSE me.total
           Answered(items) ==
               IF items = {}
               THEN IF Truncated(me.fetched, total) THEN Idle ELSE NextDate(me)
               ELSE [me EXCEPT !.pc = "write", !.total = total,
                               !.held = [s \in items |-> Item(s)]]
<1>1. me.pc = "read" /\ UNCHANGED <<kto, spots, watermark, now, changes>> /\ faults \in Nat
  BY InvAt DEF ReadPage
<1>2. PICK items \in SUBSET Page(q, me.page) : run' = [run EXCEPT ![r] = Answered(items)]
  <2>1. Page(q, me.page) \in SUBSET Page(q, me.page)
    OBVIOUS
  <2> QED
    BY <2>1 DEF ReadPage
<1>3. faults' \in Nat
  <2>1. faults' = faults \/ faults' = faults + 1
    BY DEF ReadPage
  <2> QED
    BY <1>1, <2>1
<1>4. total = Total(me)
  <2>1. me \in RunType /\ Asking(me)
    BY <1>1, InvAt DEF RunOk
  <2>2. q = me.todo[1]
    BY <2>1, TodoOk DEF Asking
  <2> QED
    BY <2>2 DEF Total
<1> HIDE DEF total
<1>5. CASE items = {} /\ Truncated(me.fetched, total)
  <2>1. run' = [run EXCEPT ![r] = Idle]
    BY <1>2, <1>5
  <2> QED
    BY <1>1, <1>3, <2>1, GoIdle
<1>6. CASE items = {} /\ ~Truncated(me.fetched, total)
  <2>1. run' = [run EXCEPT ![r] = NextDate(run[r])]
    BY <1>2, <1>6
  <2> QED
    BY <1>1, <1>3, <1>4, <1>6, <2>1, ReadOn
<1>7. CASE items # {}
  <2>1. run' = [run EXCEPT ![r] = [run[r] EXCEPT !.pc = "write", !.total = Total(run[r]),
                                                 !.held = [s \in items |-> Item(s)]]]
    BY <1>2, <1>4, <1>7
  <2> QED
    BY <1>1, <1>3, <1>7, <2>1, ReadHold
<1> QED
  BY <1>5, <1>6, <1>7

--------------------------------------------------------------------------------
(* A page is written.                                                          *)

LEMMA UpsertedOk ==
    ASSUME SyncTyped, RowsPast(spots), NEW me \in RunType, HeldPast(me),
           NEW rows, rows = Upserted(spots, me.held), spots' = rows, kto' = kto
    PROVE  /\ rows \in [Spots -> Row \cup {None}] /\ RowsPast(rows) /\ Updated
           /\ \A s \in DOMAIN me.held : me.held[s].stamp = kto[s].stamp => Written(s)'
           /\ \A s \in Spots : spots[s] # None =>
                  rows[s] # None /\ (rows[s] = spots[s] \/ spots[s].stamp < rows[s].stamp)
                  /\ spots[s].stamp \in Nat /\ rows[s].stamp \in Nat
<1>1. /\ DOMAIN me.held \in SUBSET Spots /\ \A s \in DOMAIN me.held : me.held[s] \in Row
      /\ spots \in [Spots -> Row \cup {None}]
  BY RunFields DEF SyncTyped
<1>2. \A s \in DOMAIN me.held : me.held[s].stamp \in Nat /\ me.held[s] # None
  BY <1>1, Given DEF Row
<1>3. \A s \in DOMAIN me.held : kto[s] # None /\ me.held[s].stamp <= kto[s].stamp
  BY DEF HeldPast
<1>4. \A s \in Spots : rows[s] =
         IF s \in DOMAIN me.held /\ (spots[s] = None \/ spots[s].stamp < me.held[s].stamp)
         THEN me.held[s] ELSE spots[s]
  BY DEF Upserted
<1>5. rows \in [Spots -> Row \cup {None}]
  BY <1>1 DEF Upserted
<1>6. \A s \in Spots : /\ kto[s] # None => kto[s].stamp \in Nat
                       /\ spots[s] # None => spots[s].stamp \in Nat
  BY RowFields
<1>7. RowsPast(rows)
  BY <1>3, <1>4 DEF RowsPast
<1>8. ASSUME NEW s \in Spots, Written(s) PROVE Written(s)'
  <2>1. spots[s] # None /\ spots[s].stamp = kto[s].stamp /\ kto[s] # None
    BY <1>8 DEF Written, RowsPast
  <2>2. s \in DOMAIN me.held => ~ (spots[s].stamp < me.held[s].stamp)
    BY <1>2, <1>3, <1>6, <2>1
  <2>3. rows[s] = spots[s]
    BY <1>4, <2>1, <2>2
  <2> QED
    BY <2>1, <2>3 DEF Written
<1>9. ASSUME NEW s \in DOMAIN me.held, me.held[s].stamp = kto[s].stamp PROVE Written(s)'
  <2>1. s \in Spots
    BY <1>1
  <2>2. CASE spots[s] = None \/ spots[s].stamp < me.held[s].stamp
    BY <1>2, <1>4, <1>9, <2>1, <2>2 DEF Written
  <2>3. CASE spots[s] # None /\ ~ (spots[s].stamp < me.held[s].stamp)
    <3>1. spots[s].stamp <= kto[s].stamp /\ kto[s] # None
      BY <2>1, <2>3 DEF RowsPast
    <3>2. spots[s].stamp = kto[s].stamp
      BY <1>2, <1>6, <1>9, <2>1, <2>3, <3>1
    <3>3. rows[s] = spots[s]
      BY <1>4, <2>1, <2>3
    <3> QED
      BY <2>3, <3>2, <3>3 DEF Written
  <2> QED
    BY <2>2, <2>3
<1>10. \A s \in Spots : spots[s] # None =>
          rows[s] # None /\ (rows[s] = spots[s] \/ spots[s].stamp < rows[s].stamp)
          /\ spots[s].stamp \in Nat /\ rows[s].stamp \in Nat
  BY <1>2, <1>4, <1>6
<1> QED
  BY <1>5, <1>7, <1>8, <1>9, <1>10 DEF Updated

\* The newest stamp written so far is one of the stamps.
LEMMA NewestIn ==
    ASSUME SyncTyped, NoneAhead, NEW me \in RunType, HeldPast(me), StampsPast(me), DOMAIN me.held # {},
           NEW stamps, stamps = {me.held[s].stamp : s \in DOMAIN me.held} \cup ({me.newest} \ {None})
    PROVE  /\ Max(stamps) \in stamps /\ Max(stamps) \in Instants /\ Max(stamps) <= now
           /\ \/ me.newest # None /\ Max(stamps) = me.newest
              \/ \E s \in DOMAIN me.held : Max(stamps) = me.held[s].stamp
<1>1. /\ DOMAIN me.held \in SUBSET Spots /\ \A s \in DOMAIN me.held : me.held[s] \in Row
      /\ me.newest \in Instants \cup {None}
  BY RunFields
<1>2. \A s \in DOMAIN me.held : me.held[s].stamp \in Instants
  BY <1>1 DEF Row
<1>3. ASSUME NEW s \in DOMAIN me.held PROVE me.held[s].stamp <= now
  <2>1. kto[s] # None /\ me.held[s].stamp <= kto[s].stamp /\ s \in Spots
    BY <1>1 DEF HeldPast
  <2>2. kto[s].stamp \in Nat /\ kto[s].stamp <= now /\ now \in Nat
    BY <2>1, RowFields, Given DEF NoneAhead, SyncTyped
  <2>3. me.held[s].stamp \in Nat
    BY <1>2, Given
  <2> QED
    BY <2>1, <2>2, <2>3
<1>4. me.newest # None => me.newest \in Instants /\ me.newest <= now
  BY <1>1 DEF StampsPast
<1>5. \A x \in stamps : x \in Instants /\ x <= now
  BY <1>2, <1>3, <1>4
<1>6. stamps # {}
  BY <1>1
<1>7. stamps \subseteq Nat /\ now \in Nat
  BY <1>5, Given DEF SyncTyped
<1>8. Max(stamps) \in stamps
  BY <1>5, <1>6, <1>7, MaxIn
<1> QED
  BY <1>5, <1>8

\* What a settled run has got of a listing, with the page it holds.
LEMMA GotMore ==
    ASSUME NEW me \in RunType, Asking(me), me.pc = "write", Settled(me), kto' = kto, Updated,
           \A s \in DOMAIN me.held : me.held[s].stamp = kto[s].stamp => Written(s)'
    PROVE  \E all, got \in SUBSET Spots :
              /\ got \subseteq all /\ Listing(me.todo[1]) \subseteq all
              /\ Cardinality(all) = me.total /\ got \subseteq me.seen \cup DOMAIN me.held
              /\ Cardinality(got) = me.fetched + Cardinality(DOMAIN me.held)
              /\ \A s \in got \cap Listing(me.todo[1]) :
                    Written(s)' /\ Position(me.todo[1], s) < me.page * PageSize
<1> DEFINE q == me.todo[1]
           D == DOMAIN me.held
           b1 == (me.page - 1) * PageSize
           b2 == me.page * PageSize
<1>1. PICK all \in SUBSET Spots, old \in SUBSET Spots : Paged(me, all, old)
  BY DEF Asking
<1>2. me.page \in Nat /\ me.page > 0 /\ D \in SUBSET Spots /\ PageSize \in Nat
  BY RunFields, Given
<1>3. b1 \in Nat /\ b2 \in Nat /\ b1 <= b2
  <2>1. PICK k \in Nat : me.page = k + 1
    BY <1>2
  <2>2. (k + 1) * PageSize = k * PageSize + PageSize /\ k * PageSize \in Nat /\ (k + 1) - 1 = k
    BY <1>2
  <2> QED
    BY <1>2, <2>1, <2>2
<1> DEFINE got == old \cup D
<1>4. D \subseteq all \ old /\ old \subseteq all /\ Listing(q) \subseteq all /\ Listing(q) \subseteq Spots
  BY <1>1, ListedHere DEF Paged
<1>5. Cardinality(got) = me.fetched + Cardinality(D)
  <2>1. IsFiniteSet(old) /\ IsFiniteSet(D) /\ old \cap D = {}
    BY <1>1, <1>2, <1>4, Given, FS_Subset
  <2>2. Cardinality(got) = Cardinality(old) + Cardinality(D) - Cardinality(old \cap D)
    BY <2>1, FS_Union
  <2>3. Cardinality(old \cap D) = 0 /\ Cardinality(old) \in Nat /\ Cardinality(D) \in Nat
    BY <2>1, FS_EmptySet, FS_CardinalityType
  <2>4. Cardinality(old) = me.fetched
    BY <1>1 DEF Paged
  <2> HIDE DEF got, D
  <2> QED
    BY <2>2, <2>3, <2>4
<1>6. ASSUME NEW s \in got \cap Listing(q)
      PROVE  Written(s)' /\ Position(q, s) < b2
  <2>1. CASE s \in old
    <3>1. Written(s) /\ Position(q, s) < b1 /\ s \in Spots
      BY <1>1, <1>4, <1>6, <2>1 DEF Paged
    <3>2. Position(q, s) \in Nat
      BY PositionTyped
    <3>3. Position(q, s) < b2
      <4> HIDE DEF b1, b2
      <4> QED
        BY <1>3, <3>1, <3>2
    <3> QED
      BY <3>1, <3>3 DEF Updated
  <2>2. CASE s \in D
    BY <1>1, <1>6, <2>2 DEF Paged
  <2> QED
    BY <1>6, <2>1, <2>2
<1>7. got \in SUBSET Spots /\ got \subseteq all /\ got \subseteq me.seen \cup D
  BY <1>1, <1>2, <1>4 DEF Paged
<1>8. Cardinality(all) = me.total
  BY <1>1 DEF Paged
<1> HIDE DEF got
<1> QED
  BY <1>4, <1>5, <1>6, <1>7, <1>8

LEMMA WriteKeeps == ASSUME NEW r \in Runs PROVE SyncInv /\ WritePage(r) => SyncInv'
<1> SUFFICES ASSUME SyncInv, WritePage(r) PROVE SyncInv'
  OBVIOUS
<1>1. PICK me, rows, w, fetched, stamps, newest :
         /\ me = run[r] /\ rows = Upserted(spots, me.held) /\ w = watermark
         /\ fetched = me.fetched + Cardinality(DOMAIN me.held)
         /\ stamps = {me.held[s].stamp : s \in DOMAIN me.held} \cup ({me.newest} \ {None})
         /\ newest = Max(stamps)
  OBVIOUS
<1> DEFINE q == me.todo[1]
           D == DOMAIN me.held
           wrote == [me EXCEPT !.pc = "read", !.page = me.page + 1, !.fetched = fetched,
                               !.held = <<>>, !.seen = me.seen \cup D, !.newest = newest]
           done == me.total > 0 /\ fetched >= me.total
<1>2. /\ me.pc = "write" /\ spots' = rows /\ UNCHANGED <<kto, watermark, now, changes, faults>>
      /\ run' = [run EXCEPT ![r] = IF done THEN NextDate(wrote) ELSE wrote]
  BY <1>1 DEF WritePage
<1> HIDE DEF done
<1>3. /\ w \in Instants \cup {None} /\ (w # None => w <= now) /\ Taken(w) /\ changes \in Nat
      /\ faults \in Nat /\ SyncTyped /\ NoneAhead /\ RowsPast(spots)
      /\ me \in RunType /\ RunOk(r, me) /\ StampsPast(me) /\ HeldPast(me)
  BY <1>1, InvAt
<1>4. Asking(me) /\ Taken(me.from) /\ D # {} /\ (r = "full" => me.todo = <<All>>)
  BY <1>2, <1>3 DEF RunOk
<1>5. /\ rows \in [Spots -> Row \cup {None}] /\ RowsPast(rows) /\ Updated
      /\ \A s \in D : me.held[s].stamp = kto[s].stamp => Written(s)'
  BY <1>1, <1>2, <1>3, UpsertedOk
<1>6. /\ newest \in Instants /\ newest <= now
      /\ \/ me.newest # None /\ newest = me.newest
         \/ \E s \in D : newest = me.held[s].stamp
  BY <1>1, <1>3, <1>4, NewestIn
<1>7. me.page \in Nat /\ me.page > 0 /\ me.fetched \in Nat /\ me.total \in Nat
      /\ D \in SUBSET Spots /\ me.seen \in SUBSET Spots
  BY <1>3, RunFields
<1>8. fetched \in Nat
  <2>1. Cardinality(D) \in Nat
    BY <1>7, Given, FS_Subset, FS_CardinalityType
  <2> QED
    BY <1>1, <1>7, <2>1
<1>9. wrote \in RunType
  <2>1. PICK p, none, seen, pc : p = me.page + 1 /\ none = <<>> /\ seen = me.seen \cup D /\ pc = "read"
    OBVIOUS
  <2>2. p \in Nat \ {0} /\ none \in Pages /\ seen \in SUBSET Spots /\ newest \in Instants \cup {None}
        /\ pc \in {"idle", "read", "write", "closing", "finish"}
    BY <1>6, <1>7, <2>1, NothingHeld
  <2> DEFINE half == [me EXCEPT !.pc = pc, !.page = p, !.fetched = fetched]
  <2>3. half \in RunType
    BY <1>3, <1>8, <2>2 DEF RunType
  <2>4. wrote = [half EXCEPT !.held = none, !.seen = seen, !.newest = newest]
    BY <2>1
  <2> HIDE DEF wrote, half
  <2> QED
    BY <2>2, <2>3, <2>4 DEF RunType
<1>10. /\ wrote.pc = "read" /\ wrote.page = me.page + 1 /\ wrote.fetched = fetched
       /\ wrote.held = <<>> /\ wrote.seen = me.seen \cup D /\ wrote.newest = newest
       /\ wrote.todo = me.todo /\ wrote.total = me.total /\ wrote.from = me.from
       /\ wrote.last = me.last
  BY <1>3 DEF RunType
<1> HIDE DEF wrote
<1>11. StampsPast(wrote) /\ HeldPast(wrote)
  BY <1>3, <1>6, <1>10, NothingHeld DEF StampsPast, HeldPast
<1>12. newest # None /\ UpTo(q, newest)
  <2>1. newest # None
    BY <1>6, Given
  <2> QED
    BY <1>4, <1>6, <2>1 DEF Asking
<1>13. me.todo # <<>> /\ Consecutive(wrote) /\ Consecutive(me)
  BY <1>4, <1>10 DEF Asking, Consecutive
<1>14. \A s \in Listed : Day(kto[s].stamp) < FirstDay(q) => Written(s)'
  BY <1>4, <1>5, ListedHere DEF Asking, Updated
<1>15. Taken(me.from)'
  BY <1>4, <1>5, TakenStays
<1>16. kto' = kto /\ Listed' = Listed /\ (\A x : Listing(x)' = Listing(x))
       /\ \A x, s : Position(x, s)' = Position(x, s)
  BY <1>2, ListingStays
<1>17. ASSUME Settled(me)
       PROVE  \E all, got \in SUBSET Spots :
                /\ got \subseteq all /\ Listing(q) \subseteq all
                /\ Cardinality(all) = me.total /\ got \subseteq me.seen \cup D
                /\ Cardinality(got) = fetched
                /\ \A s \in got \cap Listing(q) :
                      Written(s)' /\ Position(q, s) < me.page * PageSize
  BY <1>1, <1>2, <1>3, <1>4, <1>5, <1>17, GotMore
<1>18. PICK on : on = IF done THEN NextDate(wrote) ELSE wrote
  OBVIOUS
<1>19. on \in RunType /\ RunOk(r, on)' /\ StampsPast(on) /\ HeldPast(on)
  <2>1. CASE done
    <3>1. ASSUME Settled(me), NEW s \in Listing(q) PROVE Written(s)' /\ s \in wrote.seen
      <4>1. PICK all \in SUBSET Spots, got \in SUBSET Spots :
                /\ got \subseteq all /\ Listing(q) \subseteq all
                /\ Cardinality(all) = me.total /\ got \subseteq me.seen \cup D
                /\ Cardinality(got) = fetched
                /\ \A x \in got \cap Listing(q) :
                      Written(x)' /\ Position(q, x) < me.page * PageSize
        BY <1>17, <3>1
      <4>2. IsFiniteSet(all)
        BY Given, FS_Subset
      <4>3. Cardinality(got) <= Cardinality(all)
        BY <4>1, <4>2, FS_Subset
      <4>4. Cardinality(all) = Cardinality(got)
        BY <1>7, <1>8, <2>1, <4>1, <4>3 DEF done
      <4>5. all = got
        BY <4>1, <4>2, <4>4, FS_Subset
      <4> QED
        BY <1>10, <3>1, <4>1, <4>5
    <3>2. Settled(wrote) => \A s \in Listing(wrote.todo[1]) : Written(s)'
      BY <1>10, <3>1 DEF Settled
    <3>3. r = "full" => wrote.todo = <<All>> /\ Listed \subseteq wrote.seen
      <4> SUFFICES ASSUME r = "full" PROVE wrote.todo = <<All>> /\ Listed \subseteq wrote.seen
        OBVIOUS
      <4>1. me.todo = <<All>> /\ q = All /\ All.by = "all"
        BY <1>4 DEF All
      <4>2. Listing(q) = Listed /\ Settled(me)
        BY <4>1 DEF Listing, Matches, Settled
      <4> QED
        BY <1>10, <3>1, <4>1, <4>2
    <3>4. /\ wrote.todo # <<>> /\ Consecutive(wrote) /\ Taken(wrote.from)'
          /\ \A s \in Listed : Day(kto[s].stamp) < FirstDay(wrote.todo[1]) => Written(s)'
          /\ wrote.newest # None => UpTo(wrote.todo[1], wrote.newest)
      BY <1>10, <1>12, <1>13, <1>14, <1>15
    <3> QED
      BY <1>2, <1>3, <1>9, <1>11, <1>18, <2>1, <3>2, <3>3, <3>4, NextOk
  <2>2. CASE ~done
    <3>1. ASSUME Settled(me) PROVE \E all, got \in SUBSET Spots : Paged(wrote, all, got)'
      <4>1. PICK all \in SUBSET Spots, got \in SUBSET Spots :
                /\ got \subseteq all /\ Listing(q) \subseteq all
                /\ Cardinality(all) = me.total /\ got \subseteq me.seen \cup D
                /\ Cardinality(got) = fetched
                /\ \A s \in got \cap Listing(q) :
                      Written(s)' /\ Position(q, s) < me.page * PageSize
        BY <1>17, <3>1
      <4>2. (me.page + 1) - 1 = me.page
        BY <1>7
      <4>3. \A s \in got \cap Listing(q) :
               Written(s)' /\ Position(q, s) < (wrote.page - 1) * PageSize
        BY <1>10, <4>1, <4>2
      <4>4. Paged(wrote, all, got)'
        BY <1>10, <1>16, <4>1, <4>3 DEF Paged
      <4> QED
        BY <4>4
    <3>2. (Settled(wrote) /\ (wrote.page > 1 \/ wrote.pc = "write") =>
             \E all, got \in SUBSET Spots : Paged(wrote, all, got))'
      BY <1>10, <3>1 DEF Settled
    <3>3. wrote.page # 1 /\ DOMAIN wrote.held = {}
      BY <1>7, <1>10, NothingHeld
    <3>4. Asking(wrote)'
      BY <1>10, <1>12, <1>13, <1>14, <1>16, <3>2, <3>3 DEF Asking, Consecutive, UpTo
    <3>5. RunOk(r, wrote)'
      BY <1>4, <1>10, <1>15, <3>4 DEF RunOk
    <3> QED
      BY <1>9, <1>11, <1>18, <2>2, <3>5
  <2> QED
    BY <2>1, <2>2
<1>20. run' = [run EXCEPT ![r] = on]
  BY <1>2, <1>18
<1> QED
  BY <1>1, <1>2, <1>3, <1>5, <1>19, <1>20, RunStep

--------------------------------------------------------------------------------
(* The end of a run.                                                           *)

\* The table when what is on show and not in D is hidden.
Hidden(D) == [s \in Spots |-> IF s \in Visible(spots) \ D
                              THEN [spots[s] EXCEPT !.show = FALSE] ELSE spots[s]]

LEMMA HiddenOk ==
    ASSUME SyncTyped, RowsPast(spots), NEW D, kto' = kto, NEW rows, spots' = rows, rows = Hidden(D)
    PROVE  /\ rows \in [Spots -> Row \cup {None}] /\ RowsPast(rows) /\ Updated
           /\ \A s \in Spots : spots[s] # None =>
                  rows[s] # None /\ rows[s].stamp = spots[s].stamp /\ spots[s].stamp \in Nat
           /\ \A s \in Visible(spots) \ Visible(rows) : s \notin D
<1>1. spots \in [Spots -> Row \cup {None}]
  BY DEF SyncTyped
<1> USE DEF Hidden
<1>2. ASSUME NEW s \in Spots
      PROVE  /\ rows[s] \in Row \cup {None} /\ (rows[s] # None => spots[s] # None)
             /\ spots[s] # None => rows[s] # None /\ rows[s].stamp = spots[s].stamp
  <2>1. CASE s \in Visible(spots) \ D
    <3>1. spots[s] \in Row
      BY <1>1, <2>1 DEF Visible
    <3> DEFINE p == [spots[s] EXCEPT !.show = FALSE]
    <3>2. p \in Row /\ p.stamp = spots[s].stamp
      BY <3>1 DEF Row
    <3>3. rows[s] = p
      BY <2>1
    <3> HIDE DEF p
    <3> QED
      BY <3>1, <3>2, <3>3, Given
  <2>2. CASE s \notin Visible(spots) \ D
    <3>1. rows[s] = spots[s]
      BY <2>2
    <3> QED
      BY <1>1, <3>1
  <2> QED
    BY <2>1, <2>2
<1>3. rows \in [Spots -> Row \cup {None}]
  <2>1. \A s \in Spots : rows[s] \in Row \cup {None}
    BY <1>2
  <2>2. rows = [s \in Spots |-> rows[s]]
    OBVIOUS
  <2> HIDE DEF Visible
  <2> QED
    BY <2>1, <2>2
<1>4. RowsPast(rows) /\ Updated
  BY <1>2 DEF RowsPast, Updated, Written
<1>5. \A s \in Spots : spots[s] # None => spots[s].stamp \in Nat
  BY RowFields
<1>6. \A s \in Visible(spots) \ Visible(rows) : s \notin D
  <2> SUFFICES ASSUME NEW s \in Visible(spots), s \in D PROVE s \in Visible(rows)
    OBVIOUS
  <2>1. s \in Spots /\ spots[s] # None /\ spots[s].show
    BY DEF Visible
  <2>2. rows[s] = spots[s]
    BY <2>1
  <2> QED
    BY <2>1, <2>2 DEF Visible
<1> QED
  BY <1>2, <1>3, <1>4, <1>5, <1>6

LEMMA HideKeeps == ASSUME NEW r \in Runs PROVE SyncInv /\ Hide(r) => SyncInv'
<1> SUFFICES ASSUME SyncInv, Hide(r) PROVE SyncInv'
  OBVIOUS
<1>1. PICK me, w : me = run[r] /\ w = watermark
  OBVIOUS
<1>2. me.pc = "closing" /\ r = "full" /\ UNCHANGED <<kto, watermark, now, changes, faults>>
  BY <1>1 DEF Hide
<1>3. /\ w \in Instants \cup {None} /\ (w # None => w <= now) /\ Taken(w) /\ changes \in Nat
      /\ faults \in Nat /\ SyncTyped /\ RowsPast(spots)
      /\ me \in RunType /\ RunOk(r, me) /\ StampsPast(me) /\ HeldPast(me)
  BY <1>1, InvAt
<1>4. CASE Partial(me.seen, Visible(spots))
  <2>1. UNCHANGED spots /\ run' = [run EXCEPT ![r] = Idle]
    BY <1>1, <1>4 DEF Hide
  <2> QED
    BY <1>2, <1>3, <2>1, GoIdle
<1>5. CASE ~Partial(me.seen, Visible(spots))
  <2>1. PICK rows : rows = Hidden(me.seen)
    OBVIOUS
  <2>2. spots' = rows /\ run' = [run EXCEPT ![r].pc = "finish"]
    BY <1>1, <1>5, <2>1 DEF Hide, Hidden
  <2>3. rows \in [Spots -> Row \cup {None}] /\ RowsPast(rows) /\ Updated
    BY <1>2, <1>3, <2>1, <2>2, HiddenOk
  <2> DEFINE on == [me EXCEPT !.pc = "finish"]
  <2>4. on \in RunType
    BY <1>3 DEF RunType
  <2>5. /\ on.pc = "finish" /\ on.todo = me.todo /\ on.newest = me.newest /\ on.from = me.from
        /\ on.last = me.last /\ on.held = me.held /\ on.seen = me.seen
    BY <1>3 DEF RunType
  <2>6. run' = [run EXCEPT ![r] = on]
    BY <1>1, <2>2
  <2> HIDE DEF on
  <2>7. StampsPast(on) /\ HeldPast(on)
    BY <1>3, <2>5 DEF StampsPast, HeldPast
  <2>8. RunOk(r, on)
    BY <1>2, <1>3, <2>5 DEF RunOk
  <2>9. RunOk(r, on)'
    BY <2>3, <2>8, OkStays
  <2> QED
    BY <1>1, <1>2, <1>3, <2>2, <2>3, <2>4, <2>6, <2>7, <2>9, RunStep
<1> QED
  BY <1>4, <1>5

LEMMA FinishKeeps == ASSUME NEW r \in Runs PROVE SyncInv /\ Finish(r) => SyncInv'
<1> SUFFICES ASSUME SyncInv, Finish(r) PROVE SyncInv'
  OBVIOUS
<1>1. PICK me, rows, known, w :
         /\ me = run[r] /\ rows = spots /\ known = Advanced(me) \cup ({watermark} \ {None})
         /\ w = IF known = {} THEN None ELSE Max(known)
  OBVIOUS
<1>2. /\ me.pc \in {"closing", "finish"} /\ watermark' = w /\ run' = [run EXCEPT ![r] = Idle]
      /\ UNCHANGED <<kto, spots, now, changes, faults>>
  BY <1>1 DEF Finish
<1>3. /\ watermark \in Instants \cup {None} /\ (watermark # None => watermark <= now)
      /\ Taken(watermark) /\ rows \in [Spots -> Row \cup {None}] /\ RowsPast(rows)
      /\ changes \in Nat /\ faults \in Nat /\ now \in Nat
      /\ me \in RunType /\ RunOk(r, me) /\ StampsPast(me)
  BY <1>1, InvAt
<1>4. Taken(me.newest) /\ Taken(me.last) /\ Taken(me.from)
  BY <1>2, <1>3 DEF RunOk
<1>5. \A x \in known : x \in Instants /\ x <= now /\ Taken(x)
  <2>1. \A x \in Advanced(me) : x \in Instants /\ x <= now /\ Taken(x)
    BY <1>3, <1>4, RunFields DEF Advanced, StampsPast
  <2> QED
    BY <1>1, <1>3, <2>1
<1>6. w \in Instants \cup {None} /\ (w # None => w <= now) /\ Taken(w)
  <2>1. CASE known = {}
    BY <1>1, <2>1 DEF Taken
  <2>2. CASE known # {}
    <3>1. known \subseteq Nat
      BY <1>5, Given
    <3>2. Max(known) \in known
      BY <1>3, <1>5, <2>2, <3>1, MaxIn
    <3> QED
      BY <1>1, <1>5, <2>2, <3>2
  <2> QED
    BY <2>1, <2>2
<1>7. Updated
  BY <1>2 DEF Updated, Written
<1>8. Idle \in RunType /\ RunOk(r, Idle)' /\ StampsPast(Idle) /\ HeldPast(Idle)
  BY IdleOk, IdleTyped
<1> QED
  BY <1>1, <1>2, <1>3, <1>6, <1>7, <1>8, RunStep

LEMMA InitHolds == Init => SyncInv
<1> SUFFICES ASSUME Init PROVE SyncInv
  OBVIOUS
<1> DEFINE early == [stamp |-> 0, show |-> TRUE, listed |-> TRUE]
<1>1. /\ early \in Published /\ early # None /\ early.stamp = 0
  <2>1. early \in Published /\ early.stamp = 0
    BY Given DEF Published
  <2> QED
    BY <2>1, Given
<1>2. kto = [s \in Spots |-> IF s \in Early THEN early ELSE None] /\ now = 0 /\ changes = 0 /\ faults = 0
      /\ run = [r \in Runs |-> Idle]
  BY DEF Init
<1> HIDE DEF early
<1>3. /\ kto \in [Spots -> Published \cup {None}] /\ \A s \in Spots : kto[s] # None => kto[s] = early
  BY <1>1, <1>2
<1>4. \A s \in Listed : Item(s) \in Row /\ Item(s).stamp = 0 /\ kto[s] # None /\ s \in Spots /\ Item(s) # None
  <2> SUFFICES ASSUME NEW s \in Listed
               PROVE  Item(s) \in Row /\ Item(s).stamp = 0 /\ kto[s] # None /\ s \in Spots /\ Item(s) # None
    OBVIOUS
  <2>1. s \in Spots /\ kto[s] # None /\ kto[s] \in Published /\ kto[s].stamp = 0
    BY <1>1, <1>3, ListedHere
  <2>2. Item(s) \in Row /\ Item(s).stamp = 0
    BY <2>1 DEF Item, Row, Published
  <2> QED
    BY <2>1, <2>2, Given
<1>5. /\ spots \in [Spots -> Row \cup {None}] /\ watermark \in Instants \cup {None}
      /\ \A s \in Spots : spots[s] # None => kto[s] # None /\ spots[s].stamp <= kto[s].stamp
      /\ watermark # None => watermark = 0
  <2>1. CASE spots = [s \in Spots |-> None] /\ watermark = None
    BY <2>1
  <2>2. CASE spots = [s \in Spots |-> IF s \in Listed THEN Item(s) ELSE None] /\ watermark = 0
    <3>1. spots \in [Spots -> Row \cup {None}]
      BY <1>4, <2>2
    <3>2. \A s \in Spots : spots[s] # None => s \in Listed /\ spots[s] = Item(s)
      BY <2>2
    <3>3. \A s \in Listed : kto[s].stamp = 0
      BY <1>1, <1>3, ListedHere
    <3> QED
      BY <1>4, <2>2, <3>1, <3>2, <3>3, Given
  <2> QED
    BY <2>1, <2>2 DEF Init
<1>6. SyncTyped
  BY <1>2, <1>3, <1>5, IdleTyped, Given DEF SyncTyped
<1>7. NoneAhead
  <2>1. \A s \in Spots : kto[s] # None => kto[s].stamp <= now
    BY <1>1, <1>2, <1>3
  <2>2. \A r \in Runs : DOMAIN run[r].held = {} /\ {run[r].newest, run[r].from, run[r].last} \ {None} = {}
    BY <1>2, IdleTyped, NothingHeld
  <2>3. watermark # None => watermark <= now
    BY <1>2, <1>5
  <2> QED
    BY <1>5, <2>1, <2>2, <2>3 DEF NoneAhead
<1>8. Taken(watermark)
  <2> SUFFICES ASSUME watermark # None, NEW s \in Listed, Day(kto[s].stamp) < Day(watermark)
               PROVE  FALSE
    BY DEF Taken
  <2>1. watermark = 0 /\ kto[s].stamp = 0
    BY <1>1, <1>3, <1>5, ListedHere
  <2>2. Day(0) \in Nat
    BY Days
  <2> QED
    BY <2>1, <2>2
<1>9. \A r \in Runs : RunOk(r, run[r])
  BY <1>2, IdleOk
<1> QED
  BY <1>6, <1>7, <1>8, <1>9 DEF SyncInv

--------------------------------------------------------------------------------
(* The theorems.  ~Churn: KTO changes its catalogue, but not while a listing   *)
(* of more than one day is read, which could lose spots between its pages.     *)

LEMMA StutterKeeps == SyncInv /\ UNCHANGED vars => SyncInv'
<1> SUFFICES ASSUME SyncInv, UNCHANGED vars PROVE SyncInv'
  OBVIOUS
<1>1. UNCHANGED <<kto, spots, watermark, run, now, changes, faults>>
  BY DEF vars
<1>2. Updated
  BY <1>1 DEF Updated, Written
<1>3. \A r \in Runs : RunOk(r, run[r])'
  <2> SUFFICES ASSUME NEW r \in Runs PROVE RunOk(r, run[r])'
    OBVIOUS
  <2>1. PICK me : me = run[r]
    OBVIOUS
  <2>2. RunOk(r, me)'
    BY <1>2, <2>1, OkStays DEF SyncInv
  <2> QED
    BY <1>1, <2>1, <2>2
<1>4. Taken(watermark)'
  <2>1. PICK x : x = watermark
    OBVIOUS
  <2>2. Taken(x)'
    BY <1>2, <2>1, TakenStays DEF SyncInv
  <2> QED
    BY <1>1, <2>1, <2>2
<1>5. SyncTyped' /\ NoneAhead'
  BY <1>1 DEF SyncInv, SyncTyped, NoneAhead
<1> QED
  BY <1>3, <1>4, <1>5 DEF SyncInv

LEMMA StepKeeps == ASSUME ~Churn PROVE SyncInv /\ [Next]_vars => SyncInv'
<1> SUFFICES ASSUME SyncInv, [Next]_vars PROVE SyncInv'
  OBVIOUS
<1>1. CASE Tick
  BY <1>1, TickKeeps
<1>2. CASE StartDaily
  BY <1>2, StartDailyKeeps
<1>3. CASE StartFull
  BY <1>3, StartFullKeeps
<1>4. ASSUME NEW s \in Spots, Modify(s) \/ Drop(s) PROVE SyncInv'
  BY <1>4, ModifyKeeps, DropKeeps
<1>5. ASSUME NEW r \in Runs, Step(r) \/ Fail(r) PROVE SyncInv'
  <2>1. CASE ReadPage(r)
    BY <2>1, ReadKeeps
  <2>2. CASE WritePage(r)
    BY <2>2, WriteKeeps
  <2>3. CASE Hide(r)
    BY <2>3, HideKeeps
  <2>4. CASE Finish(r)
    BY <2>4, FinishKeeps
  <2>5. CASE Fail(r)
    BY <2>5, FailKeeps
  <2> QED
    BY <1>5, <2>1, <2>2, <2>3, <2>4, <2>5 DEF Step
<1>6. CASE UNCHANGED vars
  BY <1>6, StutterKeeps
<1> QED
  BY <1>1, <1>2, <1>3, <1>4, <1>5, <1>6 DEF Next

\* However many days were missed, whatever failed or was killed and however the two
\* runs overlap: what KTO lists of the days before the watermark's is in the table as
\* it was last modified (sync_dates asks for no day before the watermark's).
THEOREM SyncSkipsNothing == ASSUME ~Churn PROVE Spec => []NothingSkipped
<1>1. Init => SyncInv
  BY InitHolds
<1>2. SyncInv /\ [Next]_vars => SyncInv'
  BY StepKeeps
<1>3. SyncInv => NothingSkipped
  BY DEF SyncInv, Taken, Written, NothingSkipped
<1> QED
  BY <1>1, <1>2, <1>3, PTL DEF Spec

\* No row goes back to an older modification, and none on show is hidden while KTO
\* lists it (upsert_spots, soft_delete_unseen).
RowsKept ==
    \A s \in Spots : spots[s] # None =>
        /\ spots'[s] # None /\ spots'[s].stamp >= spots[s].stamp
        /\ s \in Visible(spots) \ Visible(spots') =>
              s \notin Listed \/ spots'[s].stamp > spots[s].stamp

LEMMA StepKeepsRows == SyncInv /\ [Next]_vars => RowsKept
<1> SUFFICES ASSUME SyncInv, [Next]_vars PROVE RowsKept
  OBVIOUS
<1>0. SyncTyped
  BY DEF SyncInv
<1>1. \A s \in Spots : spots[s] # None => spots[s].stamp \in Nat
  BY <1>0, RowFields
<1>2. CASE UNCHANGED spots
  <2>1. \A s \in Spots : spots[s] # None => spots'[s] # None /\ spots'[s].stamp >= spots[s].stamp
    BY <1>1, <1>2
  <2> QED
    BY <1>2, <2>1 DEF RowsKept
<1>3. ASSUME NEW r \in Runs, WritePage(r) PROVE RowsKept
  <2>1. PICK me, rows : me = run[r] /\ rows = Upserted(spots, me.held)
    OBVIOUS
  <2>2. me \in RunType /\ HeldPast(me) /\ RowsPast(spots)
    BY <2>1, InvAt
  <2>3. spots' = rows /\ kto' = kto
    BY <1>3, <2>1 DEF WritePage
  <2>4. \A s \in Spots : spots[s] # None =>
           rows[s] # None /\ (rows[s] = spots[s] \/ spots[s].stamp < rows[s].stamp)
           /\ spots[s].stamp \in Nat /\ rows[s].stamp \in Nat
    BY <1>0, <2>1, <2>2, <2>3, UpsertedOk
  <2>5. \A s \in Spots : spots[s] # None =>
           spots'[s] # None /\ spots'[s].stamp >= spots[s].stamp
           /\ (spots'[s] = spots[s] \/ spots'[s].stamp > spots[s].stamp)
    BY <2>3, <2>4
  <2>6. \A s \in Visible(spots) \ Visible(spots') : s \in Spots /\ spots'[s] # spots[s]
    BY DEF Visible
  <2> QED
    BY <2>5, <2>6 DEF RowsKept
<1>4. ASSUME NEW r \in Runs, Hide(r) PROVE RowsKept
  <2>1. PICK me : me = run[r]
    OBVIOUS
  <2>1a. PICK rows : rows = Hidden(me.seen)
    OBVIOUS
  <2>2. me \in RunType /\ RunOk(r, me) /\ RowsPast(spots)
    BY <2>1, InvAt
  <2>3. me.pc = "closing" /\ r = "full" /\ (UNCHANGED spots \/ (spots' = rows /\ kto' = kto))
    BY <1>4, <2>1, <2>1a DEF Hide, Hidden
  <2>4. Listed \subseteq me.seen
    BY <2>2, <2>3 DEF RunOk
  <2>5. CASE spots' = rows /\ kto' = kto
    <3>1. /\ \A s \in Spots : spots[s] # None =>
                rows[s] # None /\ rows[s].stamp = spots[s].stamp /\ spots[s].stamp \in Nat
          /\ \A s \in Visible(spots) \ Visible(rows) : s \notin me.seen
      BY <1>0, <2>1a, <2>2, <2>5, HiddenOk
    <3>2. \A s \in Spots : spots[s] # None => spots'[s] # None /\ spots'[s].stamp >= spots[s].stamp
      BY <2>5, <3>1
    <3>3. \A s \in Visible(spots) \ Visible(spots') : s \notin Listed
      BY <2>4, <2>5, <3>1
    <3> QED
      BY <3>2, <3>3 DEF RowsKept
  <2> QED
    BY <1>2, <2>3, <2>5
<1>5. CASE UNCHANGED vars
  BY <1>2, <1>5 DEF vars
<1>6. CASE Next
  <2>1. \/ UNCHANGED spots
        \/ \E r \in Runs : WritePage(r) \/ Hide(r)
    BY <1>6 DEF Next, Tick, StartDaily, StartFull, Modify, Drop, Step, Fail, ReadPage, Finish
  <2> QED
    BY <1>2, <1>3, <1>4, <2>1
<1> QED
  BY <1>5, <1>6

THEOREM SyncKeepsRows == ASSUME ~Churn PROVE Spec => RowsAreKept
<1>1. Init => SyncInv
  BY InitHolds
<1>2. SyncInv /\ [Next]_vars => SyncInv'
  BY StepKeeps
<1>3. SyncInv /\ [Next]_vars => [RowsKept]_vars
  BY StepKeepsRows
<1>4. Spec => [][RowsKept]_vars
  BY <1>1, <1>2, <1>3, PTL DEF Spec
<1> QED
  BY <1>4 DEF RowsAreKept, RowsKept

=============================================================================
