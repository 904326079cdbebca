----------------------------- MODULE JobsProofs -----------------------------
(***************************************************************************)
(* What the jobs keep.  Of the daily, weekly and monthly ones: for any     *)
(* number of spots, sigungus, posts, items, countries, runs and faults.    *)
(* Of the photo indexes: for any number of spots, images, jobs, changes    *)
(* and faults.                                                             *)
(***************************************************************************)
EXTENDS PhotoIndex, BatchJobs, FiniteSetTheorems, SequenceTheorems, TLAPS

---------------------------------------------------------------------------
\* The overseas posts.
Found == [id : Items, file : Files, desc : Nat]

\* What the rows need: the ETL goes over countries and holds items that Wikidata
\* has, and a post is a row.
PostsTyped ==
    /\ item \in [Items -> [file : Files, desc : Lengths]]
    /\ post \in [Items -> Row \cup {Gone}]
    /\ etl.left \in Seq(Range(Countries))
    /\ etl.pc = "credits" => etl.left # <<>>
    /\ etl.spots \subseteq Found

\* No post is matched by the embedding of a photo it has no more.
OwnPhotos ==
    \A p \in Items : post[p] # Gone /\ post[p].embedded # Gone => post[p].embedded = post[p].image

\* A description long enough is not replaced by a shorter one.
DescribedOn ==
    \A p \in Items : post[p] # Gone /\ post[p].desc >= MinDesc => post'[p].desc >= post[p].desc

PostsInv == PostsTyped /\ OwnPhotos

LEMMA CountriesTyped ==
    /\ Countries \in Seq(Range(Countries)) /\ MinDesc \in Nat /\ Lengths \subseteq Nat
    /\ \A p \in Items : Intro[p] \in Nat
    /\ \A c \in Range(Countries) : Of[c] \subseteq Items
    /\ Gone \notin Image /\ Gone \notin Row
BY OverseasAssumption DEF OverseasAssumption

LEMMA PostsStart == OverseasInit => PostsInv
<1> SUFFICES ASSUME OverseasInit PROVE PostsInv
  OBVIOUS
<1>1. etl = NoEtl /\ post = [p \in Items |-> Gone] /\ item \in [Items -> [file : Files, desc : Lengths]]
  BY DEF OverseasInit
<1>2. NoEtl.left = <<>> /\ NoEtl.pc = "idle" /\ NoEtl.spots = {}
  BY DEF NoEtl
<1> QED
  BY <1>1, <1>2 DEF PostsInv, PostsTyped, OwnPhotos

\* One row, before and after a statement.
RowKept(before, after) ==
    /\ after \in Row \cup {Gone}
    /\ after # Gone /\ after.embedded # Gone => after.embedded = after.image
    /\ before # Gone /\ before.desc >= MinDesc => after.desc >= before.desc

LEMMA RowsKept ==
    ASSUME PostsInv, \A p \in Items : RowKept(post[p], post'[p]), post' = [p \in Items |-> post'[p]]
    PROVE  post' \in [Items -> Row \cup {Gone}] /\ OwnPhotos' /\ DescribedOn
BY DEF RowKept, OwnPhotos, DescribedOn

LEMMA RowStays ==
    ASSUME PostsInv, NEW p \in Items
    PROVE  RowKept(post[p], post[p])
BY CountriesTyped DEF RowKept, PostsInv, PostsTyped, OwnPhotos, Row

\* upsert_overseas.
LEMMA UpsertKeeps ==
    ASSUME PostsInv, NEW p \in Items, NEW s \in Found, NEW country \in Range(Countries),
           NEW credited \in BOOLEAN
    PROVE  RowKept(post[p], Upserted(p, s, country, credited))
<1> DEFINE theirs == [file |-> s.file, thumb |-> credited]
<1>1. theirs \in Image /\ s.desc \in Nat
  BY DEF Image, Found
<1> HIDE DEF theirs
<1>2. CASE post[p] = Gone
  <2> DEFINE row == [country |-> country, image |-> theirs, desc |-> s.desc, embedded |-> Gone]
  <2>1. Upserted(p, s, country, credited) = row
    BY <1>2 DEF Upserted, theirs
  <2>2. row \in Row /\ row.embedded = Gone
    BY <1>1 DEF Row
  <2> QED
    BY <1>2, <2>1, <2>2 DEF RowKept
<1>3. CASE post[p] # Gone
  <2> DEFINE desc == LongerKept(post[p].desc, s.desc)
             vector == IF post[p].image = theirs THEN post[p].embedded ELSE Gone
             row == [country |-> country, image |-> theirs, desc |-> desc, embedded |-> vector]
  <2>1. Upserted(p, s, country, credited) = row
    BY <1>3 DEF Upserted, theirs
  <2>2. post[p] \in Row /\ post[p].desc \in Nat /\ post[p].embedded \in Image \cup {Gone}
    BY <1>3 DEF PostsInv, PostsTyped, Row
  <2>3. desc \in Nat /\ desc >= post[p].desc
    BY <1>1, <2>2 DEF LongerKept
  <2>4. vector \in Image \cup {Gone} /\ (vector # Gone => vector = theirs)
    BY <1>3, <2>2 DEF PostsInv, OwnPhotos
  <2> HIDE DEF desc, vector
  <2>5. row \in Row /\ row.desc = desc /\ row.embedded = vector /\ row.image = theirs
    BY <1>1, <2>3, <2>4 DEF Row
  <2> HIDE DEF row
  <2> QED
    BY <2>1, <2>3, <2>4, <2>5 DEF RowKept
<1> QED
  BY <1>2, <1>3

LEMMA CountryStored ==
    ASSUME PostsInv, NEW uncredited, UpsertCountry(uncredited)
    PROVE  PostsInv' /\ DescribedOn
<1>1. /\ etl.left \in Seq(Range(Countries)) /\ etl.left # <<>> /\ etl.spots \subseteq Found
  BY DEF PostsInv, PostsTyped, UpsertCountry
<1>2. Head(etl.left) \in Range(Countries) /\ Tail(etl.left) \in Seq(Range(Countries))
  BY <1>1
<1>3. ASSUME NEW p \in Items PROVE RowKept(post[p], post'[p])
  <2>1. CASE \E s \in etl.spots : s.id = p
    <3> DEFINE s == CHOOSE s \in etl.spots : s.id = p
    <3>1. s \in Found
      BY <1>1, <2>1
    <3>2. post'[p] = Upserted(p, s, Head(etl.left), p \notin uncredited)
      BY <2>1 DEF UpsertCountry
    <3> HIDE DEF s
    <3> QED
      BY <1>2, <3>1, <3>2, UpsertKeeps
  <2>2. CASE ~\E s \in etl.spots : s.id = p
    BY <2>2, RowStays DEF UpsertCountry
  <2> QED
    BY <2>1, <2>2
<1>4. post' = [p \in Items |-> post'[p]]
  BY DEF UpsertCountry
<1>5. post' \in [Items -> Row \cup {Gone}] /\ OwnPhotos' /\ DescribedOn
  BY <1>3, <1>4, RowsKept
<1>6. etl'.left = Tail(etl.left) /\ etl'.pc = "country" /\ etl'.spots = {} /\ UNCHANGED item
  BY DEF UpsertCountry
<1> QED
  BY <1>2, <1>5, <1>6 DEF PostsInv, PostsTyped

\* Steps of the ETL that write no post.
LEMMA EtlGoesOn ==
    ASSUME PostsInv, MonthStarts \/ FetchCountry \/ CountryFails \/ EtlFails
    PROVE  PostsInv' /\ DescribedOn
<1>1. UNCHANGED <<item, post>>
  BY DEF MonthStarts, FetchCountry, CountryFails, EtlFails
<1>2. /\ etl'.left \in Seq(Range(Countries)) /\ (etl'.pc = "credits" => etl'.left # <<>>)
      /\ etl'.spots \subseteq Found
  <2>1. CASE MonthStarts
    BY <2>1, CountriesTyped DEF MonthStarts, NoEtl
  <2>2. CASE FetchCountry
    <3> DEFINE found == {[id |-> p, file |-> item[p].file, desc |-> item[p].desc] :
                            p \in Of[Head(etl.left)] \ Towns}
    <3>1. etl.left # <<>> /\ etl.left \in Seq(Range(Countries))
      BY <2>2 DEF FetchCountry, PostsInv, PostsTyped
    <3>2. Head(etl.left) \in Range(Countries) /\ Tail(etl.left) \in Seq(Range(Countries))
      BY <3>1
    <3>3. found \subseteq Found
      <4>1. \A p \in Of[Head(etl.left)] : p \in Items
        BY <3>2, CountriesTyped
      <4>2. \A p \in Items : item[p].file \in Files /\ item[p].desc \in Nat
        BY CountriesTyped DEF PostsInv, PostsTyped
      <4> QED
        BY <4>1, <4>2 DEF Found
    <3>4. etl' = IF found = {} THEN [etl EXCEPT !.left = Tail(@)]
                 ELSE [etl EXCEPT !.pc = "credits", !.spots = found]
      BY <2>2 DEF FetchCountry
    <3>5. etl.pc = "country" /\ etl.spots \subseteq Found
      BY <2>2 DEF FetchCountry, PostsInv, PostsTyped
    <3> HIDE DEF found
    <3>6. CASE found = {}
      BY <3>2, <3>4, <3>5, <3>6
    <3>7. CASE found # {}
      BY <3>1, <3>3, <3>4, <3>7
    <3> QED
      BY <3>6, <3>7
  <2>3. CASE CountryFails
    <3>1. etl.left # <<>> /\ etl.left \in Seq(Range(Countries)) /\ etl.spots \subseteq Found
      BY <2>3 DEF CountryFails, PostsInv, PostsTyped
    <3>2. Tail(etl.left) \in Seq(Range(Countries))
      BY <3>1
    <3>3. etl' = [etl EXCEPT !.left = Tail(@), !.failed = @ + 1] /\ etl.pc = "country"
      BY <2>3 DEF CountryFails
    <3> QED
      BY <3>1, <3>2, <3>3
  <2>4. CASE EtlFails
    BY <2>4 DEF EtlFails, NoEtl
  <2> QED
    BY <2>1, <2>2, <2>3, <2>4
<1>3. DescribedOn
  BY <1>1, RowStays DEF DescribedOn, RowKept
<1> QED
  BY <1>1, <1>2, <1>3 DEF PostsInv, PostsTyped, OwnPhotos

\* fill_missing_descriptions.
LEMMA DescriptionsFilled ==
    ASSUME PostsInv, EtlEnds
    PROVE  PostsInv' /\ DescribedOn
<1>1. post' = Filled /\ etl' = NoEtl /\ UNCHANGED item
  BY DEF EtlEnds
<1>2. ASSUME NEW p \in Items PROVE RowKept(post[p], post'[p])
  <2>1. CASE post[p] # Gone /\ post[p].desc < MinDesc /\ Intro[p] > 0
    <3>1. post[p] \in Row /\ post'[p] = [post[p] EXCEPT !.desc = Intro[p]]
      BY <1>1, <2>1 DEF Filled, PostsInv, PostsTyped
    <3>2. /\ post'[p] \in Row /\ post'[p].embedded = post[p].embedded
          /\ post'[p].image = post[p].image /\ post[p].desc \in Nat
      BY <3>1, CountriesTyped DEF Row
    <3>3. ~(post[p].desc >= MinDesc)
      BY <2>1, <3>2, CountriesTyped
    <3> QED
      BY <2>1, <3>2, <3>3 DEF RowKept, PostsInv, OwnPhotos
  <2>2. CASE ~(post[p] # Gone /\ post[p].desc < MinDesc /\ Intro[p] > 0)
    BY <1>1, <2>2, RowStays DEF Filled
  <2> QED
    BY <2>1, <2>2
<1>3. post' = [p \in Items |-> post'[p]]
  BY <1>1 DEF Filled
<1>4. post' \in [Items -> Row \cup {Gone}] /\ OwnPhotos' /\ DescribedOn
  BY <1>2, <1>3, RowsKept
<1> QED
  BY <1>1, <1>4 DEF PostsInv, PostsTyped, NoEtl

\* _WRITE_SQL: whatever was downloaded, only the embedding of the row's own photo
\* is written.
LEMMA BatchWritten ==
    ASSUME PostsInv, WriteBatch
    PROVE  PostsInv' /\ DescribedOn
<1>1. ASSUME NEW p \in Items PROVE RowKept(post[p], post'[p])
  <2>1. CASE post[p] = Gone \/ WrittenTo(p) = {}
    BY <2>1, RowStays DEF WriteBatch
  <2>2. CASE post[p] # Gone /\ WrittenTo(p) # {}
    <3> DEFINE t == CHOOSE t \in WrittenTo(p) : TRUE
    <3>1. t \in embed.got /\ t.id = p /\ t.image = post[p].image
      BY <2>2 DEF WrittenTo
    <3>2. post'[p] = [post[p] EXCEPT !.embedded = t.image]
      BY <2>2 DEF WriteBatch
    <3> HIDE DEF t
    <3>3. post[p] \in Row
      BY <2>2 DEF PostsInv, PostsTyped
    <3>4. /\ post'[p] \in Row /\ post'[p].embedded = post'[p].image
          /\ post'[p].desc = post[p].desc /\ post[p].desc \in Nat
      BY <3>1, <3>2, <3>3 DEF Row
    <3> QED
      BY <3>4 DEF RowKept
  <2> QED
    BY <2>1, <2>2
<1>2. post' = [p \in Items |-> post'[p]] /\ UNCHANGED <<item, etl>>
  BY DEF WriteBatch
<1>3. post' \in [Items -> Row \cup {Gone}] /\ OwnPhotos' /\ DescribedOn
  BY <1>1, <1>2, RowsKept
<1> QED
  BY <1>2, <1>3 DEF PostsInv, PostsTyped

\* The other steps write no post, and those of the ETL are among the above.
LEMMA PostsLeft ==
    ASSUME PostsInv,
           \/ EmbedStarts \/ AllDownloaded \/ EmbedEnds
           \/ SkipEtl \/ SomeNotDownloaded \/ EmbedRaises \/ EmbedOutlives
           \/ \E p \in Items, file \in Files, desc \in Lengths : Edit(p, file, desc)
    PROVE  PostsInv' /\ DescribedOn
<1>1. UNCHANGED <<post, etl>>
  BY DEF EmbedStarts, AllDownloaded, SomeNotDownloaded, DownloadBatch, EmbedEnds, EmbedRaises,
         EmbedOver, SkipEtl, EmbedOutlives, Edit
<1>2. item' \in [Items -> [file : Files, desc : Lengths]]
  <2>1. CASE \E p \in Items, file \in Files, desc \in Lengths : Edit(p, file, desc)
    BY <2>1 DEF Edit, PostsInv, PostsTyped
  <2>2. CASE UNCHANGED item
    BY <2>2 DEF PostsInv, PostsTyped
  <2> QED
    BY <2>1, <2>2 DEF EmbedStarts, AllDownloaded, SomeNotDownloaded, DownloadBatch, EmbedEnds,
                      EmbedRaises, EmbedOver, SkipEtl, EmbedOutlives
<1>3. DescribedOn
  BY <1>1, RowStays DEF DescribedOn, RowKept
<1> QED
  BY <1>1, <1>2, <1>3 DEF PostsInv, PostsTyped, OwnPhotos

LEMMA PostsStep ==
    ASSUME PostsInv, OverseasNext
    PROVE  PostsInv' /\ DescribedOn
<1>1. CASE AllCredited \/ SomeUncredited
  BY <1>1, CountryStored DEF AllCredited, SomeUncredited
<1>2. CASE EtlEnds
  BY <1>2, DescriptionsFilled
<1>3. CASE WriteBatch
  BY <1>3, BatchWritten
<1>4. CASE MonthStarts \/ FetchCountry \/ CountryFails \/ EtlFails
  BY <1>4, EtlGoesOn
<1> QED
  BY <1>1, <1>2, <1>3, <1>4, PostsLeft DEF OverseasNext, EtlStep, EmbedStep

---------------------------------------------------------------------------
\* The forecast of crowds.

Rows == [spot : Places, rate : Nat, ymd : Days, name : DOMAIN Normal, sigungu : Range(Sigungus), at : SUBSET Nat]

\* A row a run has found is of a spot with that name in that sigungu.
RowOwn(r) ==
    /\ r \in Rows
    /\ Called[r.spot] = Normal[r.name] /\ SigunguOf[r.spot] = r.sigungu

CrowdTyped ==
    /\ today \in 0..LastDay
    /\ sync \in [pc : {"idle", "ask"}, left : Seq(Range(Sigungus)), found : SUBSET Rows]
    /\ DOMAIN snapshot = Places
    /\ \A s \in Places : snapshot[s] # NoRow => snapshot[s] \in [rate : Nat, ymd : Days, name : DOMAIN Normal, sigungu : Range(Sigungus)]
    /\ DOMAIN ledger = Places /\ \A s \in Places : DOMAIN ledger[s] = Days

FoundOwn == \A r \in sync.found : RowOwn(r)

CrowdInv == CrowdTyped /\ FoundOwn /\ CrowdsAreOwn

LEMMA CrowdConstants ==
    /\ LastDay \in Nat /\ NoRate \notin Nat /\ Sigungus \in Seq(Range(Sigungus))
    /\ Forecasts \subseteq Seq([name : DOMAIN Normal, ahead : {0, 1}, rate : Nat \cup {NoRate}])
BY ConcentrationAssumption DEF ConcentrationAssumption

LEMMA CrowdStart == ConcentrationInit => CrowdInv
<1> SUFFICES ASSUME ConcentrationInit PROVE CrowdInv
  OBVIOUS
<1>1. /\ today = 0 /\ sync = [pc |-> "idle", left |-> <<>>, found |-> {}]
      /\ snapshot = [s \in Places |-> NoRow] /\ ledger = [s \in Places |-> [d \in Days |-> NoRow]]
  BY DEF ConcentrationInit, Asleep
<1>2. sync \in [pc : {"idle", "ask"}, left : Seq(Range(Sigungus)), found : SUBSET Rows]
  BY <1>1
<1>3. CrowdTyped
  BY <1>1, <1>2, CrowdConstants DEF CrowdTyped
<1>4. FoundOwn /\ CrowdsAreOwn
  BY <1>1 DEF FoundOwn, CrowdsAreOwn
<1> QED
  BY <1>3, <1>4 DEF CrowdInv

\* What an answer is matched with lies in the sigungu that was asked for.
LEMMA MatchedOwn ==
    ASSUME NEW answer \in Forecasts, NEW g \in Range(Sigungus), NEW byNorm \in ByNorm(g), today \in 0..LastDay
    PROVE  \A r \in Matched(answer, byNorm, g) : RowOwn(r)
<1> SUFFICES ASSUME NEW i \in CollectionDayRate(answer), Normal[answer[i].name] \in DOMAIN byNorm,
                    NEW r, r = [spot |-> byNorm[Normal[answer[i].name]], rate |-> answer[i].rate,
                                ymd |-> today + answer[i].ahead, name |-> answer[i].name, sigungu |-> g,
                                at |-> RowsOf(answer, answer[i].name)]
             PROVE  RowOwn(r)
  BY DEF Matched
<1>1. answer \in Seq([name : DOMAIN Normal, ahead : {0, 1}, rate : Nat \cup {NoRate}])
  BY CrowdConstants
<1>2. i \in DOMAIN answer /\ answer[i].rate # NoRate
  BY DEF CollectionDayRate, Readable
<1>3. answer[i] \in [name : DOMAIN Normal, ahead : {0, 1}, rate : Nat \cup {NoRate}]
  <2> DEFINE R == [name : DOMAIN Normal, ahead : {0, 1}, rate : Nat \cup {NoRate}]
  <2>1. answer \in Seq(R) /\ i \in 1..Len(answer)
    BY <1>1, <1>2, LenProperties
  <2> HIDE DEF R
  <2>2. answer[i] \in R
    BY <2>1, ElementOfSeq
  <2> QED
    BY <2>2 DEF R
<1>4. answer[i].rate \in Nat /\ answer[i].name \in DOMAIN Normal /\ answer[i].ahead \in {0, 1}
  BY <1>2, <1>3
<1>5. today + answer[i].ahead \in Days
  BY <1>4, CrowdConstants DEF Days
<1>6. DOMAIN answer \subseteq Nat
  BY <1>1, LenProperties
<1>7. RowsOf(answer, answer[i].name) \subseteq Nat
  BY <1>6 DEF RowsOf, Readable
<1>8. PICK n : n = Normal[answer[i].name]
  OBVIOUS
<1>9. byNorm[n] \in Places /\ SigunguOf[byNorm[n]] = g /\ Called[byNorm[n]] = n
  BY <1>8 DEF ByNorm
<1>10. r \in Rows
  BY <1>4, <1>5, <1>7, <1>8, <1>9 DEF Rows
<1> QED
  BY <1>8, <1>9, <1>10 DEF RowOwn

\* deduped holds one row of a spot.
LEMMA DedupedOnce ==
    ASSUME NEW rows \in SUBSET Rows, NEW q \in Deduped(rows), NEW r \in Deduped(rows), q.spot = r.spot
    PROVE  q = r
<1> SUFFICES ASSUME q # r PROVE FALSE
  OBVIOUS
<1>1. q \in rows /\ r \in rows
  BY DEF Deduped
<1>2. q.rate \in Nat /\ r.rate \in Nat /\ q.at \subseteq Nat /\ r.at \subseteq Nat
  BY <1>1 DEF Rows
<1>3. q.rate < r.rate \/ (q.rate = r.rate /\ CameBefore(r, q))
  BY <1>1 DEF Deduped
<1>4. r.rate < q.rate \/ (q.rate = r.rate /\ CameBefore(q, r))
  BY <1>1 DEF Deduped
<1>5. CameBefore(r, q) /\ CameBefore(q, r)
  BY <1>2, <1>3, <1>4
<1>6. PICK i \in r.at : \A k \in q.at : i < k
  BY <1>5 DEF CameBefore
<1>7. PICK k \in q.at : \A m \in r.at : k < m
  BY <1>5 DEF CameBefore
<1> QED
  BY <1>2, <1>6, <1>7

\* A commit writes a spot's row into both tables or into neither.
LEMMA RowsPersisted ==
    ASSUME CrowdInv, PersistRows
    PROVE  CrowdInv'
<1> DEFINE rows == Deduped(sync.found)
<1>1. rows \subseteq sync.found /\ sync.found \subseteq Rows /\ \A r \in rows : RowOwn(r)
  BY DEF Deduped, CrowdInv, CrowdTyped, FoundOwn
<1>2. /\ snapshot' = SnapshotWith(rows) /\ ledger' = LedgerWith(rows)
      /\ sync' = [pc |-> "idle", left |-> <<>>, found |-> {}] /\ today' = today
  BY DEF PersistRows, Asleep
<1>3. \A q, r \in rows : q.spot = r.spot => q = r
  BY <1>1, DedupedOnce
<1> HIDE DEF rows
<1>4. ASSUME NEW s \in Places, \A r \in rows : r.spot # s
      PROVE  snapshot'[s] = snapshot[s] /\ ledger'[s] = [d \in Days |-> ledger[s][d]]
  <2>1. {r \in rows : r.spot = s} = {} /\ \A d \in Days : {r \in rows : r.spot = s /\ r.ymd = d} = {}
    BY <1>4
  <2>2. snapshot'[s] = snapshot[s]
    BY <1>2, <2>1 DEF SnapshotWith
  <2>3. ledger'[s] = [d \in Days |-> ledger[s][d]]
    BY <1>2, <2>1 DEF LedgerWith
  <2> QED
    BY <2>2, <2>3
<1>5. ASSUME NEW s \in Places, NEW r \in rows, r.spot = s
      PROVE  /\ snapshot'[s] = [rate |-> r.rate, ymd |-> r.ymd, name |-> r.name, sigungu |-> r.sigungu]
             /\ ledger'[s][r.ymd] = r.rate
  <2>1. {q \in rows : q.spot = s} = {r} /\ {q \in rows : q.spot = s /\ q.ymd = r.ymd} = {r}
    BY <1>3, <1>5
  <2>2. r.ymd \in Days
    BY <1>1 DEF RowOwn, Rows
  <2>3. (CHOOSE q \in {r} : TRUE) = r
    OBVIOUS
  <2>4. snapshot'[s] = [rate |-> r.rate, ymd |-> r.ymd, name |-> r.name, sigungu |-> r.sigungu]
    BY <1>2, <2>1, <2>3 DEF SnapshotWith
  <2>5. ledger'[s][r.ymd] = r.rate
    BY <1>2, <2>1, <2>2, <2>3 DEF LedgerWith
  <2> QED
    BY <2>4, <2>5
<1>6. ASSUME NEW s \in Places, snapshot'[s] # NoRow
      PROVE  /\ snapshot'[s] \in [rate : Nat, ymd : Days, name : DOMAIN Normal, sigungu : Range(Sigungus)]
             /\ ledger'[s][snapshot'[s].ymd] = snapshot'[s].rate
             /\ Normal[snapshot'[s].name] = Called[s] /\ snapshot'[s].sigungu = SigunguOf[s]
  <2>1. CASE \A r \in rows : r.spot # s
    <3>1. snapshot'[s] = snapshot[s] /\ ledger'[s] = [d \in Days |-> ledger[s][d]]
      BY <1>4, <2>1
    <3>2. /\ snapshot[s] \in [rate : Nat, ymd : Days, name : DOMAIN Normal, sigungu : Range(Sigungus)]
          /\ ledger[s][snapshot[s].ymd] = snapshot[s].rate
          /\ Normal[snapshot[s].name] = Called[s] /\ snapshot[s].sigungu = SigunguOf[s]
      BY <1>6, <3>1 DEF CrowdInv, CrowdTyped, CrowdsAreOwn
    <3> QED
      BY <3>1, <3>2
  <2>2. CASE \E r \in rows : r.spot = s
    <3>1. PICK r \in rows : r.spot = s
      BY <2>2
    <3>2. /\ snapshot'[s] = [rate |-> r.rate, ymd |-> r.ymd, name |-> r.name, sigungu |-> r.sigungu]
          /\ ledger'[s][r.ymd] = r.rate
      BY <1>5, <3>1
    <3>3. r \in Rows /\ Called[s] = Normal[r.name] /\ SigunguOf[s] = r.sigungu
      BY <1>1, <3>1 DEF RowOwn
    <3> QED
      BY <3>2, <3>3 DEF Rows
  <2> QED
    BY <2>1, <2>2
<1>7. sync' \in [pc : {"idle", "ask"}, left : Seq(Range(Sigungus)), found : SUBSET Rows] /\ today' \in 0..LastDay
  BY <1>2 DEF CrowdInv, CrowdTyped
<1>8. DOMAIN snapshot' = Places /\ DOMAIN ledger' = Places /\ \A s \in Places : DOMAIN ledger'[s] = Days
  BY <1>2 DEF SnapshotWith, LedgerWith
<1>9. CrowdTyped'
  BY <1>6, <1>7, <1>8 DEF CrowdTyped
<1>10. FoundOwn' /\ CrowdsAreOwn'
  BY <1>2, <1>6 DEF FoundOwn, CrowdsAreOwn
<1> QED
  BY <1>9, <1>10 DEF CrowdInv

\* A step that writes neither table.
LEMMA CrowdLeft ==
    ASSUME CrowdInv, snapshot' = snapshot, ledger' = ledger, today' \in 0..LastDay,
           sync' \in [pc : {"idle", "ask"}, left : Seq(Range(Sigungus)), found : SUBSET Rows],
           \A r \in sync'.found : RowOwn(r)
    PROVE  CrowdInv'
BY DEF CrowdInv, CrowdTyped, FoundOwn, CrowdsAreOwn

LEMMA CrowdStep ==
    ASSUME CrowdInv, ConcentrationNext
    PROVE  CrowdInv'
<1> DEFINE Syncs == [pc : {"idle", "ask"}, left : Seq(Range(Sigungus)), found : SUBSET Rows]
<1>1. sync \in Syncs /\ today \in 0..LastDay /\ \A r \in sync.found : RowOwn(r)
  BY DEF CrowdInv, CrowdTyped, FoundOwn
<1>2. CASE SyncStarts
  <2>1. sync' = [pc |-> "ask", left |-> Sigungus, found |-> {}] /\ today' = today
    BY <1>2 DEF SyncStarts
  <2>2. sync' \in Syncs /\ \A r \in sync'.found : RowOwn(r)
    BY <2>1, CrowdConstants
  <2> QED
    BY <1>1, <1>2, <2>1, <2>2, CrowdLeft DEF SyncStarts
<1>3. CASE \E answer \in Forecasts : sync.left # <<>> /\ \E byNorm \in ByNorm(Head(sync.left)) : AskSigungu(answer, byNorm)
  <2>1. PICK answer \in Forecasts : sync.left # <<>> /\ \E byNorm \in ByNorm(Head(sync.left)) : AskSigungu(answer, byNorm)
    BY <1>3
  <2>2. PICK byNorm \in ByNorm(Head(sync.left)) : AskSigungu(answer, byNorm)
    BY <2>1
  <2>3. Head(sync.left) \in Range(Sigungus) /\ Tail(sync.left) \in Seq(Range(Sigungus))
    BY <1>1, <2>1, HeadTailProperties
  <2>4. PICK new : new = Matched(answer, byNorm, Head(sync.left))
    OBVIOUS
  <2>5. \A r \in new : RowOwn(r)
    BY <1>1, <2>3, <2>4, MatchedOwn
  <2>6. new \subseteq Rows
    BY <2>5 DEF RowOwn
  <2>7. /\ sync' = [sync EXCEPT !.left = Tail(@), !.found = @ \cup new]
        /\ snapshot' = snapshot /\ ledger' = ledger /\ today' = today
    BY <2>2, <2>4 DEF AskSigungu
  <2>8. sync' \in Syncs /\ sync'.found = sync.found \cup new
    BY <1>1, <2>3, <2>6, <2>7
  <2>9. \A r \in sync'.found : RowOwn(r)
    BY <1>1, <2>5, <2>8
  <2> QED
    BY <1>1, <2>7, <2>8, <2>9, CrowdLeft
<1>4. CASE SigunguFails
  <2>1. sync.left # <<>> /\ sync' = [sync EXCEPT !.left = Tail(@)] /\ today' = today
    BY <1>4 DEF SigunguFails
  <2>2. Tail(sync.left) \in Seq(Range(Sigungus))
    BY <1>1, <2>1, HeadTailProperties
  <2>3. sync' \in Syncs /\ sync'.found = sync.found
    BY <1>1, <2>1, <2>2
  <2> QED
    BY <1>1, <1>4, <2>1, <2>3, CrowdLeft DEF SigunguFails
<1>5. CASE SyncDies
  <2>1. sync' = [pc |-> "idle", left |-> <<>>, found |-> {}] /\ today' = today
    BY <1>5 DEF SyncDies, Asleep
  <2>2. sync' \in Syncs /\ \A r \in sync'.found : RowOwn(r)
    BY <2>1
  <2> QED
    BY <1>1, <1>5, <2>1, <2>2, CrowdLeft DEF SyncDies
<1>6. CASE Midnight
  <2>1. today < LastDay /\ today' = today + 1 /\ sync' = sync
    BY <1>6 DEF Midnight
  <2>2. today' \in 0..LastDay
    BY <1>1, <2>1, CrowdConstants
  <2> QED
    BY <1>1, <1>6, <2>1, <2>2, CrowdLeft DEF Midnight
<1> QED
  BY <1>2, <1>3, <1>4, <1>5, <1>6, RowsPersisted DEF ConcentrationNext

---------------------------------------------------------------------------
\* The weekly signals.

Naming(s) == {p.link : p \in {q \in Posts : s \in q.names}}

CountedOnce(s, m) ==
    m.mentions <= Cardinality(Naming(s)) /\ m.blogs <= m.mentions /\ m.recent <= m.mentions

BuzzInv == DOMAIN buzz = Rated \X Scopes /\ PostsCountedOnce

LEMMA WeeklyConstants == IsFiniteSet(Posts) /\ Searches \subseteq Seq(Posts)
BY WeeklyAssumption DEF WeeklyAssumption

LEMMA LinksFinite ==
    ASSUME NEW s
    PROVE  IsFiniteSet(Naming(s))
<1> DEFINE Q == {q \in Posts : s \in q.names}
           f == [q \in Q |-> q.link]
<1>1. IsFiniteSet(Q)
  BY WeeklyConstants, FS_Subset
<1>2. f \in Surjection(Q, Naming(s))
  BY DEF Surjection, Naming
<1> QED
  BY <1>1, <1>2, FS_Surjection

\* A post is counted at the first place of its link only.
LEMMA MentionsOnce ==
    ASSUME NEW s, NEW all \in Seq(Posts)
    PROVE  CountedOnce(s, Mention(s, all))
<1> DEFINE hits == {i \in GridPosts(all) : s \in LongTitle /\ s \in all[i].names}
           links == [i \in hits |-> all[i].link]
           blogs == {all[i].blog : i \in hits}
           blogOf == [i \in hits |-> all[i].blog]
<1>1. hits \subseteq 1..Len(all) /\ Len(all) \in Nat
  BY LenProperties DEF GridPosts
<1>2. \A i \in hits : all[i] \in Posts /\ s \in all[i].names
  BY <1>1, ElementOfSeq
<1>3. ASSUME NEW i \in hits, NEW k \in hits, all[i].link = all[k].link
      PROVE  i = k
  BY <1>1, <1>3 DEF GridPosts
<1>4. links \in Injection(hits, Naming(s))
  BY <1>2, <1>3 DEF Injection, IsInjective, Naming
<1>5. IsFiniteSet(hits) /\ Cardinality(hits) <= Cardinality(Naming(s))
  BY <1>4, LinksFinite, FS_Injection
<1>6. Cardinality(hits) \in Nat
  BY <1>5, FS_CardinalityType
<1>7. blogOf \in Surjection(hits, blogs)
  BY DEF Surjection
<1>8. IsFiniteSet(blogs) /\ Cardinality(blogs) <= Cardinality(hits)
  BY <1>5, <1>7, FS_Surjection
<1>9. Cardinality(blogs \ {NoLink}) <= Cardinality(blogs)
  BY <1>8, FS_Subset
<1>10. Cardinality(blogs) \in Nat /\ IsFiniteSet(blogs \ {NoLink})
  BY <1>8, FS_CardinalityType, FS_Subset
<1>11. Cardinality(blogs \ {NoLink}) \in Nat
  BY <1>10, FS_CardinalityType
<1>12. Cardinality({i \in hits : all[i].recent}) <= Cardinality(hits)
  BY <1>5, FS_Subset
<1>13. Mention(s, all) = [mentions |-> Cardinality(hits), blogs |-> Cardinality(blogs \ {NoLink}),
                          recent |-> Cardinality({i \in hits : all[i].recent})]
  BY DEF Mention
<1> HIDE DEF hits, blogs
<1>14. Cardinality(blogs \ {NoLink}) <= Cardinality(hits)
  BY <1>6, <1>8, <1>9, <1>10, <1>11
<1> QED
  BY <1>5, <1>12, <1>13, <1>14 DEF CountedOnce

LEMMA GridCounts ==
    ASSUME BuzzInv, NEW fresh \in Seq(Posts), NEW ranked \in Seq(Posts), Grid(fresh, ranked)
    PROVE  BuzzInv'
<1>1. PICK all : all = fresh \o ranked
  OBVIOUS
<1>2. all \in Seq(Posts)
  BY <1>1, ConcatProperties
<1>3. DOMAIN buzz' = Rated \X Scopes
  BY DEF Grid, BuzzInv
<1>4. ASSUME NEW k \in Rated \X Scopes, buzz'[k] # NoBuzz
      PROVE  CountedOnce(k[1], buzz'[k])
  <2>1. buzz'[k] = buzz[k] \/ buzz'[k] = Mention(k[1], all)
    BY <1>1 DEF Grid, BuzzInv
  <2>2. buzz[k] # NoBuzz => CountedOnce(k[1], buzz[k])
    BY DEF BuzzInv, PostsCountedOnce, CountedOnce, Naming
  <2> QED
    BY <1>2, <1>4, <2>1, <2>2, MentionsOnce
<1> QED
  BY <1>3, <1>4 DEF BuzzInv, PostsCountedOnce, CountedOnce, Naming

LEMMA BuzzStep ==
    ASSUME BuzzInv, WeeklyNext
    PROVE  BuzzInv'
<1>1. CASE \E fresh, ranked \in Searches : GridAnswered(fresh, ranked)
  BY <1>1, GridCounts, WeeklyConstants DEF GridAnswered
<1>2. CASE \E fresh \in Searches : GridHalf(fresh)
  <2>1. << >> \in Seq(Posts)
    BY EmptySeq
  <2> QED
    BY <1>2, <2>1, GridCounts, WeeklyConstants DEF GridHalf
<1>3. CASE WeekStarts \/ LoadCandidates \/ BuzzDone \/ ScorePage \/ WeekDies \/ \E s \in Rated : Touch(s)
  <2>1. buzz' = buzz
    BY <1>3 DEF WeekStarts, LoadCandidates, BuzzDone, ScorePage, WeekDies, Touch
  <2> QED
    BY <2>1 DEF BuzzInv, PostsCountedOnce
<1> QED
  BY <1>1, <1>2, <1>3 DEF WeeklyNext, WeekStep

---------------------------------------------------------------------------
\* The schedules together.

\* However often a day is synced, whatever answers fail and whatever day they begin
\* with, the snapshot and the ledger agree, and both are of the spot's own name in
\* its own sigungu (sync_concentration.py: upsert_rows, deduped, persist_rows).
THEOREM CrowdsStayOwn == JobsSpec => []CrowdsAreOwn
<1>1. JobsInit => CrowdInv
  BY CrowdStart DEF JobsInit
<1>2. CrowdInv /\ [JobsNext]_jobsVars => CrowdInv'
  <2> SUFFICES ASSUME CrowdInv, [JobsNext]_jobsVars PROVE CrowdInv'
    OBVIOUS
  <2>1. CASE Daily
    BY <2>1, CrowdStep DEF Daily
  <2>2. CASE UNCHANGED concentrationVars
    BY <2>2 DEF concentrationVars, CrowdInv, CrowdTyped, FoundOwn, CrowdsAreOwn
  <2> QED
    BY <2>1, <2>2 DEF JobsNext, Weekly, Monthly, jobsVars
<1>3. CrowdInv => CrowdsAreOwn
  BY DEF CrowdInv
<1> QED
  BY <1>1, <1>2, <1>3, PTL DEF JobsSpec

\* Whatever Naver returns in either order, no spot has more mentions of a region and
\* theme than there are posts with a link of their own that name it
\* (buzz_job.py: _fetch_grid_posts, aggregate_mentions).
THEOREM PostsStayOnce == JobsSpec => []PostsCountedOnce
<1>1. JobsInit => BuzzInv
  BY DEF JobsInit, WeeklyInit, BuzzInv, PostsCountedOnce
<1>2. BuzzInv /\ [JobsNext]_jobsVars => BuzzInv'
  <2> SUFFICES ASSUME BuzzInv, [JobsNext]_jobsVars PROVE BuzzInv'
    OBVIOUS
  <2>1. CASE Weekly
    BY <2>1, BuzzStep DEF Weekly
  <2>2. CASE UNCHANGED weeklyVars
    BY <2>2 DEF weeklyVars, BuzzInv, PostsCountedOnce
  <2> QED
    BY <2>1, <2>2 DEF JobsNext, Daily, Monthly, jobsVars
<1>3. BuzzInv => PostsCountedOnce
  BY DEF BuzzInv
<1> QED
  BY <1>1, <1>2, <1>3, PTL DEF JobsSpec

\* However the ETL and the embedding job interleave, fail and die, no post keeps
\* the embedding of a photo it has no more, and no description that is long enough
\* for a card becomes shorter.
THEOREM PostsStayOwn == JobsSpec => PostsKept
<1>1. JobsInit => PostsInv
  BY PostsStart DEF JobsInit
<1>2. PostsInv /\ [JobsNext]_jobsVars => PostsInv' /\ [DescribedOn]_monthlyVars
  <2> SUFFICES ASSUME PostsInv, [JobsNext]_jobsVars PROVE PostsInv' /\ [DescribedOn]_monthlyVars
    OBVIOUS
  <2>1. CASE Monthly
    BY <2>1, PostsStep DEF Monthly
  <2>2. CASE UNCHANGED monthlyVars
    BY <2>2 DEF monthlyVars, PostsInv, PostsTyped, OwnPhotos
  <2> QED
    BY <2>1, <2>2 DEF JobsNext, Daily, Weekly, jobsVars
<1>3. PostsInv => OwnPhotos
  BY DEF PostsInv
<1>4. JobsSpec => []OwnPhotos /\ [][DescribedOn]_monthlyVars
  BY <1>1, <1>2, <1>3, PTL DEF JobsSpec
<1> QED
  BY <1>4, PTL DEF PostsKept, OwnPhotos, DescribedOn

---------------------------------------------------------------------------
\* The photo indexes.

USE PhotoIndexAssumption

LEMMA IdleSlot == Idle \in Slot
BY DEF Idle, Slot, PCs, Kinds, Retries

\* Assigning one field a value of its type keeps a slot a slot.
LEMMA SlotField ==
    ASSUME NEW s \in Slot
    PROVE  /\ \A v \in PCs : [s EXCEPT !.pc = v] \in Slot
           /\ \A v \in Kinds : [s EXCEPT !.kind = v] \in Slot
           /\ \A v \in Retries : [s EXCEPT !.retry = v] \in Slot
           /\ \A v \in Seq(TargetRecords) : [s EXCEPT !.todo = v] \in Slot
           /\ \A v \in Seq(Outcomes) : [s EXCEPT !.batch = v] \in Slot
           /\ \A v \in SUBSET Outcomes : [s EXCEPT !.writes = v] \in Slot
           /\ \A v \in SUBSET Spots : [s EXCEPT !.ranked = v] \in Slot
           /\ \A v \in BOOLEAN : [s EXCEPT !.beaten = v] \in Slot
BY DEF Slot

\* How many targets a job collects, and which they are.
LEMMA SortedType ==
    ASSUME NEW kind, NEW retry, NEW all \in Sorted(Missing(kind, retry))
    PROVE  /\ Len(all) \in Nat /\ DOMAIN all = 1..Len(all)
           /\ \A i \in 1..Len(all) : all[i] \in Missing(kind, retry)
<1> DEFINE S == Missing(kind, retry)
<1>1. IsFiniteSet(Spots)
  BY FS_Interval DEF Spots
<1>2. S \subseteq Spots
  BY DEF Missing
<1>3. Cardinality(S) \in Nat
  BY <1>1, <1>2, FS_Subset, FS_CardinalityType
<1>4. all \in [1..Cardinality(S) -> S]
  BY DEF Sorted
<1>5. Len(all) = Cardinality(S)
  BY <1>3, <1>4
<1> QED
  BY <1>3, <1>4, <1>5

LEMMA InitType == Init => TypeOK
<1> SUFFICES ASSUME Init PROVE TypeOK
  OBVIOUS
<1>1. job \in [Jobs -> Slot] /\ \A j \in Jobs : job[j].writes = {}
  BY IdleSlot DEF Init, Idle
<1>2. DOMAIN writer = {}
  BY DEF Init
<1> QED
  BY <1>1, <1>2 DEF Init, TypeOK

LEMMA CollectType ==
    ASSUME TypeOK, NEW j \in Jobs, Collect(j)
    PROVE  /\ job' \in [Jobs -> Slot]
           /\ \A k \in Jobs : job'[k].writes = job[k].writes
           /\ job[j].writes = {}
           /\ \A i \in DOMAIN job'[j].todo :
                /\ job'[j].todo[i].spot \in Missing(job[j].kind, job[j].retry)
                /\ job'[j].todo[i].url = image[job'[j].todo[i].spot]
           /\ \A k \in Jobs \ {j} : job'[k] = job[k]
           /\ \E pc \in PCs, todo \in Seq(TargetRecords) :
                job' = [job EXCEPT ![j].pc = pc, ![j].todo = todo]
<1> DEFINE M == Missing(job[j].kind, job[j].retry)
<1>1. PICK all \in Sorted(M) :
        LET n == IF job[j].retry = {} THEN Least(Limit, Len(all)) ELSE Len(all)
        IN  job' = [job EXCEPT ![j].pc = IF n = 0 THEN "rebuild" ELSE "download",
                               ![j].todo = [i \in 1..n |-> [spot |-> all[i],
                                                            url |-> image[all[i]]]]]
  BY DEF Collect
<1> DEFINE n == IF job[j].retry = {} THEN Least(Limit, Len(all)) ELSE Len(all)
           todo == [i \in 1..n |-> [spot |-> all[i], url |-> image[all[i]]]]
           pc == IF n = 0 THEN "rebuild" ELSE "download"
<1>2. Len(all) \in Nat /\ \A i \in 1..Len(all) : all[i] \in M
  BY SortedType
<1>3. n \in Nat /\ n <= Len(all)
  BY <1>2 DEF Least
<1>4. \A s \in M : s \in Spots /\ image[s] \in Urls
  BY DEF Missing
<1>5. todo \in Seq(TargetRecords)
  <2>1. \A i \in 1..n : [spot |-> all[i], url |-> image[all[i]]] \in TargetRecords
    BY <1>2, <1>3, <1>4 DEF TargetRecords
  <2> HIDE DEF n
  <2> QED
    BY <1>3, <2>1
<1>6. pc \in PCs
  BY DEF PCs
<1>7. job' = [job EXCEPT ![j].pc = pc, ![j].todo = todo]
  BY <1>1
<1>8. job[j].pc = "collect"
  BY DEF Collect
<1>9. DOMAIN todo = 1..n /\ \A i \in 1..n : todo[i].spot = all[i] /\ todo[i].url = image[all[i]]
  OBVIOUS
<1> HIDE DEF todo, pc, n
<1>10. job \in [Jobs -> Slot]
  BY DEF TypeOK
<1>11. [job[j] EXCEPT !.pc = pc, !.todo = todo] \in Slot
  BY <1>10, <1>5, <1>6 DEF Slot
<1>12. job' = [job EXCEPT ![j] = [job[j] EXCEPT !.pc = pc, !.todo = todo]]
  BY <1>7, <1>10
<1>13. job' \in [Jobs -> Slot]
  BY <1>10, <1>11, <1>12
<1>14. job'[j].todo = todo
  BY <1>10, <1>12 DEF Slot
<1>15. \A i \in DOMAIN todo : todo[i].spot \in M /\ todo[i].url = image[todo[i].spot]
  BY <1>9, <1>2, <1>3
<1>16. \A k \in Jobs : job'[k].writes = job[k].writes
  BY <1>10, <1>12 DEF Slot
<1>17. \A k \in Jobs \ {j} : job'[k] = job[k]
  BY <1>10, <1>12
<1> QED
  BY <1>5, <1>6, <1>7, <1>8, <1>13, <1>14, <1>15, <1>16, <1>17 DEF TypeOK
\* A batch is cut off the targets.
LEMMA DownloadType ==
    ASSUME TypeOK, NEW j \in Jobs, Download(j)
    PROVE  \E n \in Nat, batch \in Seq(Outcomes), todo \in Seq(TargetRecords) :
             /\ job' = [job EXCEPT ![j] = [job[j] EXCEPT !.pc = "record", !.todo = todo,
                                                         !.batch = batch]]
             /\ n <= Len(job[j].todo) /\ job[j].todo \in Seq(TargetRecords)
             /\ Len(batch) = n /\ Len(todo) = Len(job[j].todo) - n
             /\ \A i \in 1..n : /\ batch[i].spot = job[j].todo[i].spot
                                /\ batch[i].url = job[j].todo[i].url
             /\ \A i \in 1..Len(todo) : todo[i] = job[j].todo[i + n]
<1> DEFINE old == job[j].todo
           n == Least(BatchSize, Len(old))
           now == SubSeq(old, 1, n)
           rest == SubSeq(old, n + 1, Len(old))
<1>1. old \in Seq(TargetRecords) /\ job \in [Jobs -> Slot]
  BY DEF TypeOK, Slot
<1>2. n \in Nat /\ n <= Len(old) /\ Len(old) \in Nat
  BY <1>1 DEF Least
<1> HIDE DEF n
<1>3. \A i \in 1..Len(old) : old[i] \in TargetRecords
  BY <1>1
<1>4. \A i \in 1..n : now[i] = old[i] /\ now[i] \in TargetRecords
  <2>1. \A i \in 1..n - 1 + 1 : now[i] = old[1 + i - 1]
    BY <1>2, <1>3, SubSeqProperties
  <2> QED
    BY <2>1, <1>2, <1>3
<1>5. rest \in Seq(TargetRecords) /\ Len(rest) = Len(old) - n
      /\ \A i \in 1..Len(rest) : rest[i] = old[i + n]
  <2>1. \A i \in n + 1..Len(old) : old[i] \in TargetRecords
    BY <1>2, <1>3
  <2>2. /\ rest \in Seq(TargetRecords)
        /\ Len(rest) = IF n + 1 <= Len(old) THEN Len(old) - (n + 1) + 1 ELSE 0
        /\ \A i \in 1..Len(old) - (n + 1) + 1 : rest[i] = old[n + 1 + i - 1]
    BY <1>2, <2>1, SubSeqProperties
  <2> QED
    BY <2>2, <1>2
<1>6. PICK ok \in [1..n -> BOOLEAN] :
        job' = [job EXCEPT ![j].pc = "record", ![j].todo = SubSeq(@, n + 1, Len(@)),
                  ![j].batch = [i \in 1..n |-> [spot |-> now[i].spot,
                                                url |-> now[i].url, ok |-> ok[i]]]]
  BY DEF Download, n
<1> DEFINE batch == [i \in 1..n |-> [spot |-> now[i].spot, url |-> now[i].url, ok |-> ok[i]]]
<1>7. \A i \in 1..n : [spot |-> now[i].spot, url |-> now[i].url, ok |-> ok[i]] \in Outcomes
  BY <1>4 DEF TargetRecords, Outcomes
<1>8. batch \in Seq(Outcomes) /\ Len(batch) = n
      /\ \A i \in 1..n : batch[i].spot = old[i].spot /\ batch[i].url = old[i].url
  BY <1>2, <1>4, <1>7
<1>9. job' = [job EXCEPT ![j] = [job[j] EXCEPT !.pc = "record", !.todo = rest,
                                               !.batch = batch]]
  <2> HIDE DEF n
  <2>1. job' = [job EXCEPT ![j].pc = "record", ![j].todo = SubSeq(@, n + 1, Len(@)),
                  ![j].batch = batch]
    BY <1>6
  <2> HIDE DEF batch
  <2> QED
    BY <1>1, <2>1, Zenon
<1> HIDE DEF batch, now, rest, n
<1>10. batch \in Seq(Outcomes) /\ rest \in Seq(TargetRecords) /\ n \in Nat
  BY <1>2, <1>5, <1>8
<1> USE <1>10
<1> WITNESS n \in Nat, batch \in Seq(Outcomes), rest \in Seq(TargetRecords)
<1> QED
  BY <1>1, <1>2, <1>5, <1>8, <1>9

\* Only Record opens a transaction, and only its own pc keeps one open.
Rests == \A j \in Jobs : job[j].writes # {} => job[j].pc = "record"

\* Every step of a job leaves a slot in every slot.
LEMMA JobSlots ==
    ASSUME TypeOK, NEW j \in Jobs, JobStep(j) \/ JobFails(j) \/ RebuildFails(j) \/ Crash(j)
    PROVE  job' \in [Jobs -> Slot] /\ Rests'
<1>1. job \in [Jobs -> Slot] /\ job[j] \in Slot /\ Rests
  BY DEF TypeOK, Rests
<1>2. {} \in SUBSET Outcomes /\ << >> \in Seq(Outcomes) /\ << >> \in Seq(TargetRecords)
      /\ {} \in SUBSET Spots /\ {TRUE, FALSE} \subseteq BOOLEAN
  OBVIOUS
<1>3. CASE Collect(j)
  BY <1>1, <1>3, CollectType DEF Rests, Collect
<1>4. CASE Download(j)
  <2>1. PICK batch \in Seq(Outcomes), todo \in Seq(TargetRecords) :
          job' = [job EXCEPT ![j] = [job[j] EXCEPT !.pc = "record", !.todo = todo,
                                                   !.batch = batch]]
    BY <1>4, DownloadType
  <2>2. [job[j] EXCEPT !.pc = "record", !.todo = todo, !.batch = batch] \in Slot
    BY <1>1 DEF Slot, PCs
  <2> QED
    BY <1>1, <2>1, <2>2 DEF Rests, Slot
<1>5. CASE Record(j)
  <2>1. job[j].batch \in Seq(Outcomes) /\ job[j].batch # << >> /\ job[j].pc = "record"
    BY <1>1, <1>5 DEF Record, Slot
  <2>2. Head(job[j].batch) \in Outcomes /\ Tail(job[j].batch) \in Seq(Outcomes)
    BY <2>1, HeadTailProperties
  <2>3. job[j].writes \cup {Head(job[j].batch)} \in SUBSET Outcomes
    BY <1>1, <2>2 DEF Slot
  <2>4. PICK w \in SUBSET Outcomes :
          job' = [job EXCEPT ![j] = [job[j] EXCEPT !.batch = Tail(job[j].batch), !.writes = w]]
    BY <1>1, <1>5, <2>3 DEF Record, Slot
  <2>5. [job[j] EXCEPT !.batch = Tail(job[j].batch), !.writes = w] \in Slot
    BY <1>1, <2>2 DEF Slot
  <2>6. [job[j] EXCEPT !.batch = Tail(job[j].batch), !.writes = w].pc = "record"
    BY <1>1, <2>1 DEF Slot
  <2> QED
    BY <1>1, <2>4, <2>5, <2>6 DEF Rests
<1>6. CASE CommitBatch(j)
  BY <1>1, <1>6 DEF CommitBatch, Slot, PCs, Rests
<1>7. CASE RebuildDelete(j)
  BY <1>1, <1>7 DEF RebuildDelete, Slot, PCs, Rests
<1>8. CASE RebuildRank(j)
  <2>1. Candidates \subseteq Spots
    BY DEF Candidates
  <2>2. PICK best \in SUBSET Spots :
          job' = [job EXCEPT ![j].pc = "swap", ![j].ranked = best]
    BY <1>8, <2>1 DEF RebuildRank
  <2>3. job[j].pc = "rank"
    BY <1>8 DEF RebuildRank
  <2> QED
    BY <1>1, <2>2, <2>3 DEF Slot, PCs, Rests
<1>9. AfterRebuild(j) \in Slot /\ (job[j].pc # "record" => AfterRebuild(j).writes = {})
  BY <1>1, IdleSlot DEF AfterRebuild, Slot, PCs, Rests, Idle
<1>10. CASE RebuildSwap(j)
  <2>1. \A k \in Jobs : job[k] \in Slot /\ [job[k] EXCEPT !.beaten = TRUE] \in Slot
    BY <1>1 DEF Slot
  <2>2. \A k \in Jobs \ {j} : /\ job'[k] \in {job[k], [job[k] EXCEPT !.beaten = TRUE]}
                              /\ job'[k].pc = job[k].pc /\ job'[k].writes = job[k].writes
    BY <1>10, <2>1 DEF RebuildSwap, Slot
  <2>3. job'[j] = AfterRebuild(j) /\ job[j].pc = "swap" /\ job' = [k \in Jobs |-> job'[k]]
    BY <1>10 DEF RebuildSwap
  <2> QED
    BY <1>1, <1>9, <2>1, <2>2, <2>3 DEF Rests
<1>11. CASE Release(j)
  BY <1>1, <1>11, IdleSlot DEF Release, Rests, Idle
<1>12. CASE JobFails(j)
  BY <1>1, <1>2, <1>12 DEF JobFails, Slot, PCs, Rests
<1>13. CASE RebuildFails(j)
  BY <1>1, <1>9, <1>13 DEF RebuildFails, Rests
<1>14. CASE Crash(j)
  BY <1>1, <1>14, IdleSlot DEF Crash, Rests, Idle
<1> QED
  BY <1>3, <1>4, <1>5, <1>6, <1>7, <1>8, <1>10, <1>11, <1>12, <1>13, <1>14 DEF JobStep

\* A job starts with nothing to embed and no transaction.
LEMMA StartSlots ==
    ASSUME TypeOK, NEW j \in Jobs,
           \/ \E kind \in {"photo", "gallery"}, retry \in Retries : Start(j, kind, retry)
           \/ StartDeploy(j)
    PROVE  \E slot \in Slot : slot.writes = {} /\ job' = [job EXCEPT ![j] = slot]
<1>2. ASSUME NEW pc \in PCs, NEW kind \in Kinds, NEW retry \in Retries,
             NEW slot, slot = [Idle EXCEPT !.pc = pc, !.kind = kind, !.retry = retry]
      PROVE  slot \in Slot /\ slot.writes = {}
  BY <1>2, IdleSlot DEF Slot, Idle
<1>3. CASE \E kind \in {"photo", "gallery"}, retry \in Retries : Start(j, kind, retry)
  <2>1. PICK kind \in Kinds, retry \in Retries : Start(j, kind, retry)
    BY <1>3 DEF Kinds
  <2> DEFINE slot == [Idle EXCEPT !.pc = "collect", !.kind = kind, !.retry = retry]
  <2>2. "collect" \in PCs
    BY DEF PCs
  <2>3. slot \in Slot /\ slot.writes = {}
    BY <1>2, <2>2
  <2>4. job' = [job EXCEPT ![j] = slot]
    BY <2>1 DEF Start
  <2> HIDE DEF slot
  <2> QED
    BY <2>3, <2>4
<1>4. CASE StartDeploy(j)
  <2> DEFINE slot == [Idle EXCEPT !.pc = "rebuild", !.kind = "deploy"]
  <2>1. slot \in Slot /\ slot.writes = {}
    BY IdleSlot DEF Slot, Idle, PCs, Kinds
  <2>2. job' = [job EXCEPT ![j] = slot]
    BY <1>4 DEF StartDeploy
  <2> HIDE DEF slot
  <2> QED
    BY <2>1, <2>2
<1> QED
  BY <1>3, <1>4

\* The rows of a job's transaction are of images its spots still show.
RowsHeld ==
    \A j \in Jobs : \A w \in job[j].writes :
        image[w.spot] = w.url /\ w.spot \notin DOMAIN writer

\* What a commit of a batch leaves in the tables.
LEMMA CommitType ==
    ASSUME TypeOK, NEW j \in Jobs, CommitBatch(j)
    PROVE  /\ embedded' \in [Spots -> Urls \cup {None}]
           /\ gallery' \in [Spots -> Urls \cup {None}]
           /\ failure' \in [Spots -> {None, "source_changed", "failed"}]
<1>1. \A w \in job[j].writes : w \in Outcomes
  BY DEF TypeOK, Slot
<1>2. ASSUME NEW row \in [Spots -> Urls \cup {None}]
      PROVE  Written(j, row) \in [Spots -> Urls \cup {None}]
  <2>1. ASSUME NEW s \in Spots, \E w \in job[j].writes : w.spot = s /\ w.ok
        PROVE  (CHOOSE w \in job[j].writes : w.spot = s).url \in Urls
    BY <2>1, <1>1 DEF Outcomes
  <2> QED
    BY <2>1 DEF Written
<1>3. Failures(j) \in [Spots -> {None, "source_changed", "failed"}]
  BY DEF Failures, TypeOK
<1> QED
  BY <1>2, <1>3 DEF CommitBatch, TypeOK

LEMMA StepType == TypeOK /\ [Next]_vars => TypeOK'
<1> SUFFICES ASSUME TypeOK, [Next]_vars PROVE TypeOK'
  OBVIOUS
<1>1. Rests
  BY DEF TypeOK, Rests
<1>2. CASE \E s \in Spots, u \in Urls \cup {None} : WriterTouch(s, u)
  <2>1. PICK s \in Spots, u \in Urls \cup {None} : WriterTouch(s, u)
    BY <1>2
  <2>2. DOMAIN writer' \subseteq Spots /\ \A t \in DOMAIN writer' : writer'[t] \in Urls \cup {None}
    BY <2>1 DEF WriterTouch, TypeOK
  <2>3. changes' \in 0..MaxChanges
    BY <2>1 DEF WriterTouch, TypeOK
  <2> QED
    BY <2>1, <2>2, <2>3 DEF WriterTouch, TypeOK, tables
<1>3. CASE WriterCommit
  <2>1. DOMAIN writer' = {}
    BY <1>3 DEF WriterCommit
  <2>2. image' \in [Spots -> Urls \cup {None, Absent}]
    BY <1>3 DEF WriterCommit, TypeOK
  <2>3. embedded' \in [Spots -> Urls \cup {None}] /\ gallery' \in [Spots -> Urls \cup {None}]
    BY <1>3 DEF WriterCommit, TypeOK, Outdated
  <2>4. failure' \in [Spots -> {None, "source_changed", "failed"}]
    BY <1>3 DEF WriterCommit, TypeOK, Queued
  <2> QED
    BY <1>3, <2>1, <2>2, <2>3, <2>4 DEF WriterCommit, TypeOK
<1>4. CASE WriterAborts
  <2>1. DOMAIN writer' = {}
    BY <1>4 DEF WriterAborts
  <2>2. faults' \in 0..MaxFaults
    BY <1>4 DEF WriterAborts, Fault, TypeOK
  <2> QED
    BY <1>4, <2>1, <2>2 DEF WriterAborts, TypeOK, tables
<1>5. CASE ExpireLock
  BY <1>5 DEF ExpireLock, TypeOK, tables
<1>6. ASSUME NEW j \in Jobs,
             \/ \E kind \in {"photo", "gallery"}, retry \in Retries : Start(j, kind, retry)
             \/ StartDeploy(j)
      PROVE  TypeOK'
  <2>1. job' \in [Jobs -> Slot] /\ Rests'
    BY <1>1, <1>6, StartSlots DEF TypeOK, Rests
  <2>2. lock' \in Jobs \cup {None} /\ UNCHANGED <<image, tables, matches, writer, changes, faults>>
    BY <1>6 DEF Start, StartDeploy, TypeOK
  <2> QED
    BY <2>1, <2>2 DEF TypeOK, Rests, tables
<1>7. ASSUME NEW j \in Jobs, JobStep(j) \/ JobFails(j) \/ RebuildFails(j) \/ Crash(j)
      PROVE  TypeOK'
  <2>1. job' \in [Jobs -> Slot] /\ Rests'
    BY <1>7, JobSlots
  <2>2. UNCHANGED <<image, writer, changes>> /\ faults' \in 0..MaxFaults
    <3>1. CASE JobStep(j)
      <4>1. CASE Download(j)
        BY <4>1 DEF Download, Fault, TypeOK
      <4>2. CASE ~ Download(j)
        BY <3>1, <4>2 DEF JobStep, Collect, Record, CommitBatch, RebuildDelete, RebuildRank,
                          RebuildSwap, Release, TypeOK
      <4> QED
        BY <4>1, <4>2
    <3>2. CASE JobFails(j) \/ RebuildFails(j) \/ Crash(j)
      BY <3>2 DEF JobFails, RebuildFails, Crash, Fault, TypeOK
    <3> QED
      BY <1>7, <3>1, <3>2
  <2>3. lock' \in Jobs \cup {None}
    BY <1>7 DEF JobStep, Collect, Download, Record, CommitBatch, RebuildDelete, RebuildRank,
                RebuildSwap, Release, JobFails, RebuildFails, Crash, TypeOK
  <2>4. matches' \subseteq Spots
    <3>1. job[j].ranked \subseteq Spots /\ matches \subseteq Spots
      BY DEF TypeOK, Slot
    <3> QED
      BY <1>7, <3>1 DEF JobStep, Collect, Download, Record, CommitBatch, RebuildDelete, RebuildRank,
                RebuildSwap, Release, JobFails, RebuildFails, Crash
  <2>5. CASE CommitBatch(j)
    BY <2>1, <2>2, <2>3, <2>4, <2>5, CommitType DEF TypeOK, Rests
  <2>6. CASE ~CommitBatch(j)
    <3>1. UNCHANGED tables
      BY <1>7, <2>6 DEF JobStep, Collect, Download, Record, RebuildDelete, RebuildRank,
                RebuildSwap, Release, JobFails, RebuildFails, Crash
    <3> QED
      BY <2>1, <2>2, <2>3, <2>4, <3>1 DEF TypeOK, Rests, tables
  <2> QED
    BY <2>5, <2>6
<1>8. CASE UNCHANGED vars
  BY <1>8 DEF vars, tables, TypeOK
<1> QED
  BY <1>2, <1>3, <1>4, <1>5, <1>6, <1>7, <1>8 DEF Next

\* Every variable keeps its type, and no transaction of a job is open outside
\* record, whatever the constants are.
THEOREM TypeCorrect == Spec => []TypeOK
<1> QED
  BY InitType, StepType, PTL DEF Spec

-----------------------------------------------------------------------------
(* The indexes are current.  A row is written while its spot is locked, after *)
(* a look at its image: until the commit no writer can change the image.      *)

IInv == TypeOK /\ RowsHeld /\ IndexIsCurrent

LEMMA InitIInv == Init => IInv
<1> SUFFICES ASSUME Init PROVE IInv
  OBVIOUS
<1>1. \A j \in Jobs : job[j].writes = {}
  BY DEF Init, Idle
<1> QED
  BY <1>1, InitType DEF Init, IInv, RowsHeld, IndexIsCurrent

\* A job writes the row of a spot only while it shows the image it embedded.
LEMMA RecordHeld ==
    ASSUME TypeOK, RowsHeld, NEW j \in Jobs, Record(j)
    PROVE  RowsHeld'
<1> DEFINE w == Head(job[j].batch)
<1>1. job \in [Jobs -> Slot]
  BY DEF TypeOK
<1>2. UNCHANGED <<image, writer>>
  BY DEF Record
<1>3. \A k \in Jobs \ {j} : job'[k] = job[k]
  BY <1>1 DEF Record
<1>4. job'[j].writes = IF (w.ok \/ job[j].kind = "photo") /\ StillCurrent(w)
                       THEN job[j].writes \cup {w} ELSE job[j].writes
  BY <1>1 DEF Record, Slot
<1>5. (w.ok \/ job[j].kind = "photo") => w.spot \notin DOMAIN writer
  BY DEF Record
<1> HIDE DEF w
<1> QED
  BY <1>2, <1>3, <1>4, <1>5 DEF RowsHeld, StillCurrent

\* Every other step of a job keeps its rows or drops them.
LEMMA OtherHeld ==
    ASSUME TypeOK, RowsHeld, NEW j \in Jobs,
           \/ \E kind \in {"photo", "gallery"}, retry \in Retries : Start(j, kind, retry)
           \/ StartDeploy(j) \/ JobStep(j) \/ JobFails(j) \/ RebuildFails(j) \/ Crash(j),
           ~Record(j)
    PROVE  RowsHeld'
<1>1. job \in [Jobs -> Slot] /\ UNCHANGED <<image, writer>>
  BY DEF TypeOK, Start, StartDeploy, JobStep, Collect, Download, Record, CommitBatch,
         RebuildDelete, RebuildRank, RebuildSwap, Release, JobFails, RebuildFails, Crash
<1>2. \A k \in Jobs : job'[k].writes \subseteq job[k].writes
  <2>1. CASE Collect(j)
    BY <2>1, CollectType
  <2>2. CASE Download(j)
    <3>1. PICK batch, todo :
            job' = [job EXCEPT ![j] = [job[j] EXCEPT !.pc = "record", !.todo = todo,
                                                     !.batch = batch]]
      BY <2>2, DownloadType
    <3>2. [job[j] EXCEPT !.pc = "record", !.todo = todo, !.batch = batch].writes = job[j].writes
      BY <1>1 DEF Slot
    <3> QED
      BY <1>1, <3>1, <3>2
  <2>3. AfterRebuild(j).writes \subseteq job[j].writes
    <3>1. CASE job[j].kind = "deploy"
      BY <3>1 DEF AfterRebuild, Idle
    <3>2. CASE job[j].kind # "deploy"
      <4>1. job[j] \in Slot
        BY <1>1
      <4>2. AfterRebuild(j) = [job[j] EXCEPT !.pc = "release", !.ranked = {}, !.beaten = FALSE]
        BY <3>2 DEF AfterRebuild
      <4> QED
        BY <4>1, <4>2 DEF Slot
    <3> QED
      BY <3>1, <3>2
  <2>4. CASE RebuildSwap(j)
    <3>1. job'[j] = AfterRebuild(j)
      BY <2>4 DEF RebuildSwap
    <3>2. ASSUME NEW k \in Jobs \ {j} PROVE job'[k].writes \subseteq job[k].writes
      <4>1. job'[k] \in {job[k], [job[k] EXCEPT !.beaten = TRUE]} /\ job[k] \in Slot
        BY <1>1, <2>4 DEF RebuildSwap
      <4> QED
        BY <4>1 DEF Slot
    <3> QED
      BY <2>3, <3>1, <3>2
  <2>5. CASE CommitBatch(j) \/ JobFails(j)
    BY <1>1, <2>5 DEF CommitBatch, JobFails, Slot
  <2>6. CASE RebuildDelete(j)
    BY <1>1, <2>6 DEF RebuildDelete, Slot
  <2>7. CASE RebuildRank(j)
    <3>1. PICK best : job' = [job EXCEPT ![j].pc = "swap", ![j].ranked = best]
      BY <2>7 DEF RebuildRank
    <3> QED
      BY <1>1, <3>1 DEF Slot
  <2>8. CASE RebuildFails(j)
    BY <1>1, <2>3, <2>8 DEF RebuildFails
  <2>9. CASE Release(j) \/ Crash(j)
    BY <1>1, <2>9 DEF Release, Crash, Idle
  <2>10. CASE StartDeploy(j)
             \/ \E kind \in {"photo", "gallery"}, retry \in Retries : Start(j, kind, retry)
    BY <1>1, <2>10, StartSlots
  <2> QED
    BY <2>1, <2>2, <2>4, <2>5, <2>6, <2>7, <2>8, <2>9, <2>10 DEF JobStep
<1> QED
  BY <1>1, <1>2 DEF RowsHeld

\* A commit writes rows of the images their spots show.
LEMMA CommitCurrent ==
    ASSUME TypeOK, RowsHeld, IndexIsCurrent, NEW j \in Jobs, CommitBatch(j)
    PROVE  IndexIsCurrent'
<1>1. ASSUME NEW row \in [Spots -> Urls \cup {None}], NEW s \in Spots,
             row[s] # None => row[s] = image[s]
      PROVE  Written(j, row)[s] # None => Written(j, row)[s] = image[s]
  <2>1. CASE \E w \in job[j].writes : w.spot = s /\ w.ok
    <3> DEFINE chosen == CHOOSE w \in job[j].writes : w.spot = s
    <3>1. chosen \in job[j].writes /\ chosen.spot = s
      BY <2>1
    <3>2. Written(j, row)[s] = chosen.url
      BY <2>1 DEF Written
    <3> HIDE DEF chosen
    <3> QED
      BY <3>1, <3>2 DEF RowsHeld
  <2>2. CASE ~\E w \in job[j].writes : w.spot = s /\ w.ok
    BY <1>1, <2>2 DEF Written
  <2> QED
    BY <2>1, <2>2
<1>2. UNCHANGED image /\ embedded' \in {embedded, Written(j, embedded)}
      /\ gallery' \in {gallery, Written(j, gallery)}
  BY DEF CommitBatch
<1>3. embedded \in [Spots -> Urls \cup {None}] /\ gallery \in [Spots -> Urls \cup {None}]
  BY DEF TypeOK
<1> QED
  BY <1>1, <1>2, <1>3 DEF IndexIsCurrent

LEMMA StepIInv == IInv /\ [Next]_vars => IInv'
<1> SUFFICES ASSUME IInv, [Next]_vars PROVE IInv'
  OBVIOUS
<1>1. TypeOK /\ RowsHeld /\ IndexIsCurrent /\ TypeOK'
  BY StepType DEF IInv
<1>2. CASE \E s \in Spots, u \in Urls \cup {None} : WriterTouch(s, u)
  <2>1. PICK s \in Spots, u \in Urls \cup {None} : WriterTouch(s, u)
    BY <1>2
  <2>2. UNCHANGED <<image, embedded, gallery, job>> /\ DOMAIN writer' = DOMAIN writer \cup {s}
    BY <2>1 DEF WriterTouch, tables
  <2>3. \A j \in Jobs : \A w \in job[j].writes : w.spot # s
    BY <2>1 DEF WriterTouch, LockedBy
  <2> QED
    BY <1>1, <2>2, <2>3 DEF IInv, RowsHeld, IndexIsCurrent
<1>3. CASE WriterCommit
  <2>1. \A s \in Spots : image'[s] = IF s \in DOMAIN writer THEN writer[s] ELSE image[s]
    BY <1>3 DEF WriterCommit
  <2>2. UNCHANGED job /\ DOMAIN writer' = {}
    BY <1>3 DEF WriterCommit
  <2>3. RowsHeld'
    <3>1. \A j \in Jobs : \A w \in job[j].writes : w.spot \in Spots
      BY <1>1 DEF TypeOK, Slot, Outcomes
    <3> QED
      BY <1>1, <2>1, <2>2, <3>1 DEF RowsHeld
  <2>4. ASSUME NEW row \in [Spots -> Urls \cup {None}], NEW s \in Spots,
               row[s] # None => row[s] = image[s]
        PROVE  Outdated(row)[s] # None => Outdated(row)[s] = image'[s]
    <3>1. row[s] # None => image[s] # Absent
      BY <2>4
    <3> QED
      BY <2>1, <2>4, <3>1 DEF Outdated, Changed
  <2>5. IndexIsCurrent'
    BY <1>1, <1>3, <2>4 DEF WriterCommit, IndexIsCurrent, TypeOK
  <2> QED
    BY <1>1, <2>3, <2>5 DEF IInv
<1>4. CASE WriterAborts \/ ExpireLock
  <2>1. UNCHANGED <<image, embedded, gallery, job>> /\ DOMAIN writer' \subseteq DOMAIN writer
    BY <1>4 DEF WriterAborts, ExpireLock, tables
  <2> QED
    BY <1>1, <2>1 DEF IInv, RowsHeld, IndexIsCurrent
<1>5. ASSUME NEW j \in Jobs,
             \/ \E kind \in {"photo", "gallery"}, retry \in Retries : Start(j, kind, retry)
             \/ StartDeploy(j) \/ JobStep(j) \/ JobFails(j) \/ RebuildFails(j) \/ Crash(j)
      PROVE  IInv'
  <2>1. RowsHeld'
    BY <1>1, <1>5, RecordHeld, OtherHeld
  <2>2. CASE CommitBatch(j)
    BY <1>1, <2>1, <2>2, CommitCurrent DEF IInv
  <2>3. CASE ~CommitBatch(j)
    <3>1. UNCHANGED <<image, embedded, gallery>>
      BY <1>5, <2>3 DEF Start, StartDeploy, JobStep, Collect, Download, Record, RebuildDelete,
           RebuildRank, RebuildSwap, Release, JobFails, RebuildFails, Crash, tables
    <3> QED
      BY <1>1, <2>1, <3>1 DEF IInv, IndexIsCurrent
  <2> QED
    BY <2>2, <2>3
<1>6. CASE UNCHANGED vars
  BY <1>1, <1>6 DEF vars, tables, IInv, RowsHeld, IndexIsCurrent
<1> QED
  BY <1>2, <1>3, <1>4, <1>5, <1>6 DEF Next

\* No row of an index is of another image than its spot shows, even if a job
\* outlives its lock and runs beside the next one.
THEOREM IndexCurrent == Spec => []IndexIsCurrent
<1>1. IInv => IndexIsCurrent
  BY DEF IInv
<1> QED
  BY InitIInv, StepIInv, <1>1, PTL DEF Spec

-----------------------------------------------------------------------------
(* The list of retries is exact.  What a job is to embed had no row when it   *)
(* was collected, and gets none from another job while the lock is held.      *)

\* A job holds every spot once: to do, in its batch or in its transaction.
Apart(x) ==
    /\ \A i, k \in DOMAIN x.todo : i # k => x.todo[i].spot # x.todo[k].spot
    /\ \A i, k \in DOMAIN x.batch : i # k => x.batch[i].spot # x.batch[k].spot
    /\ \A i \in DOMAIN x.todo, k \in DOMAIN x.batch : x.todo[i].spot # x.batch[k].spot
    /\ \A w \in x.writes : /\ \A i \in DOMAIN x.todo : x.todo[i].spot # w.spot
                           /\ \A i \in DOMAIN x.batch : x.batch[i].spot # w.spot
    /\ x.pc \in {"idle", "collect"} => x.todo = << >> /\ x.batch = << >>

\* None of the photos a job holds has its row yet.
Unwritten(x, rows) ==
    x.kind = "photo" =>
        /\ \A i \in DOMAIN x.todo : rows[x.todo[i].spot] # x.todo[i].url
        /\ \A i \in DOMAIN x.batch : rows[x.batch[i].spot] # x.batch[i].url
        /\ \A w \in x.writes : rows[w.spot] # w.url

\* The redis lock is the job's that runs.
LockOfRunning == \A j \in Jobs : job[j].pc # "idle" /\ job[j].kind # "deploy" => lock = j

\* An open transaction of a writer puts other images on its spots.
WriterApart == \A s \in DOMAIN writer : writer[s] # image[s]

\* The two halves of RetryListHolds.
ListExact == \A s \in Spots : failure[s] # None => image[s] \in Urls /\ embedded[s] # image[s]

ListKept ==
    \A s \in Spots :
        (embedded[s] # None \/ failure[s] # None)
        /\ image'[s] \in Urls /\ embedded'[s] = None => failure'[s] # None

HeldInv == \A j \in Jobs : Apart(job[j]) /\ Unwritten(job[j], embedded)

RetryInv == IInv /\ LockOfRunning /\ WriterApart /\ HeldInv /\ ListExact

JobAction(j) ==
    \/ \E kind \in {"photo", "gallery"}, retry \in Retries : Start(j, kind, retry)
    \/ StartDeploy(j) \/ JobStep(j) \/ JobFails(j) \/ RebuildFails(j) \/ Crash(j)

LEMMA InitRetry == Init => RetryInv
<1> SUFFICES ASSUME Init PROVE RetryInv
  OBVIOUS
<1>1. \A j \in Jobs : job[j] = Idle
  BY DEF Init
<1>2. /\ Idle.pc = "idle" /\ Idle.todo = << >> /\ Idle.batch = << >> /\ Idle.writes = {}
      /\ DOMAIN << >> = {}
  BY DEF Idle
<1>3. LockOfRunning /\ HeldInv
  BY <1>1, <1>2 DEF LockOfRunning, HeldInv, Apart, Unwritten
<1>4. WriterApart /\ ListExact
  BY DEF Init, WriterApart, ListExact
<1> QED
  BY <1>3, <1>4, InitIInv DEF RetryInv

\* A slot that keeps what it holds, or drops it, stays apart and unwritten.
LEMMA SlotKept ==
    ASSUME NEW x, NEW y, Apart(x), NEW rows, Unwritten(x, rows),
           \/ y.todo = x.todo /\ y.batch = x.batch /\ y.kind = x.kind
           \/ y.todo = << >> /\ y.batch = << >>,
           y.writes = {} \/ (y.writes = x.writes /\ y.kind = x.kind /\ y.todo = x.todo /\ y.batch = x.batch),
           y.pc \in {"idle", "collect"} => y.todo = << >> /\ y.batch = << >>
    PROVE  Apart(y) /\ Unwritten(y, rows)
<1>1. DOMAIN << >> = {}
  OBVIOUS
<1>2. Apart(y)
  BY <1>1 DEF Apart
<1>3. Unwritten(y, rows)
  BY <1>1 DEF Unwritten
<1> QED
  BY <1>2, <1>3

\* A step of a job leaves what the others hold.
LEMMA OthersHold ==
    ASSUME TypeOK, NEW j \in Jobs, JobAction(j), NEW k \in Jobs \ {j}
    PROVE  /\ job'[k].pc = job[k].pc /\ job'[k].kind = job[k].kind
           /\ job'[k].todo = job[k].todo /\ job'[k].batch = job[k].batch
           /\ job'[k].writes = job[k].writes
<1>1. job \in [Jobs -> Slot] /\ job[k] \in Slot
  BY DEF TypeOK
<1>2. CASE RebuildSwap(j)
  <2>1. job'[k] \in {job[k], [job[k] EXCEPT !.beaten = TRUE]}
    BY <1>2 DEF RebuildSwap
  <2> QED
    BY <1>1, <2>1 DEF Slot
<1>3. CASE ~RebuildSwap(j)
  <2>1. job'[k] = job[k]
    <3>1. CASE Collect(j)
      BY <3>1, CollectType
    <3>2. CASE Download(j)
      BY <1>1, <3>2, DownloadType
    <3>3. CASE StartDeploy(j)
                 \/ \E kind \in {"photo", "gallery"}, retry \in Retries : Start(j, kind, retry)
      BY <1>1, <3>3, StartSlots
    <3>4. CASE Record(j) \/ CommitBatch(j) \/ RebuildDelete(j) \/ Release(j)
      BY <1>1, <3>4 DEF Record, CommitBatch, RebuildDelete, Release
    <3>5. CASE RebuildRank(j) \/ JobFails(j) \/ RebuildFails(j) \/ Crash(j)
      BY <1>1, <3>5 DEF RebuildRank, JobFails, RebuildFails, Crash
    <3> QED
      BY <1>3, <3>1, <3>2, <3>3, <3>4, <3>5 DEF JobAction, JobStep
  <2> QED
    BY <2>1
<1> QED
  BY <1>2, <1>3

\* Steps that give a job no target and write no row.
LEMMA SlotHolds ==
    ASSUME TypeOK, HeldInv, NEW j \in Jobs, JobAction(j),
           ~Collect(j), ~Download(j), ~Record(j), ~CommitBatch(j)
    PROVE  Apart(job'[j]) /\ Unwritten(job'[j], embedded') /\ UNCHANGED tables
<1>1. job \in [Jobs -> Slot] /\ job[j] \in Slot /\ Apart(job[j]) /\ Unwritten(job[j], embedded)
  BY DEF TypeOK, HeldInv
<1>2. UNCHANGED tables
  BY DEF JobAction, Start, StartDeploy, JobStep, RebuildDelete, RebuildRank, RebuildSwap,
         Release, JobFails, RebuildFails, Crash
<1>3. Idle.todo = << >> /\ Idle.batch = << >> /\ Idle.writes = {}
  BY DEF Idle
<1>4. /\ \/ /\ job'[j].todo = job[j].todo /\ job'[j].batch = job[j].batch
            /\ job'[j].kind = job[j].kind
         \/ job'[j].todo = << >> /\ job'[j].batch = << >>
      /\ job'[j].writes = {} \/ (/\ job'[j].writes = job[j].writes /\ job'[j].kind = job[j].kind
                                 /\ job'[j].todo = job[j].todo /\ job'[j].batch = job[j].batch)
      /\ job'[j].pc \in {"idle", "collect"} => job'[j].todo = << >> /\ job'[j].batch = << >>
  <2>1. CASE StartDeploy(j)
               \/ \E kind \in {"photo", "gallery"}, retry \in Retries : Start(j, kind, retry)
    <3>1. CASE StartDeploy(j)
      BY <1>1, <3>1 DEF StartDeploy, Idle
    <3>2. CASE \E kind \in {"photo", "gallery"}, retry \in Retries : Start(j, kind, retry)
      BY <1>1, <3>2 DEF Start, Idle
    <3> QED
      BY <2>1, <3>1, <3>2
  <2>2. CASE Release(j) \/ Crash(j)
    BY <1>1, <1>3, <2>2 DEF Release, Crash
  <2>3. CASE RebuildDelete(j)
    BY <1>1, <2>3 DEF RebuildDelete, Slot
  <2>4. CASE RebuildRank(j)
    <3>1. PICK best : job' = [job EXCEPT ![j].pc = "swap", ![j].ranked = best]
      BY <2>4 DEF RebuildRank
    <3> QED
      BY <1>1, <3>1 DEF Slot
  <2>5. CASE JobFails(j)
    BY <1>1, <2>5 DEF JobFails, Slot
  <2>6. CASE RebuildSwap(j) \/ RebuildFails(j)
    <3>1. job'[j] = AfterRebuild(j)
      BY <1>1, <2>6 DEF RebuildSwap, RebuildFails
    <3>2. CASE job[j].kind = "deploy"
      BY <1>3, <3>1, <3>2 DEF AfterRebuild
    <3>3. CASE job[j].kind # "deploy"
      <4>1. job'[j] = [job[j] EXCEPT !.pc = "release", !.ranked = {}, !.beaten = FALSE]
        BY <3>1, <3>3 DEF AfterRebuild
      <4> QED
        BY <1>1, <4>1 DEF Slot
    <3> QED
      BY <3>2, <3>3
  <2> QED
    BY <2>1, <2>2, <2>3, <2>4, <2>5, <2>6 DEF JobAction, JobStep
<1> QED
  BY <1>1, <1>2, <1>4, SlotKept DEF tables

\* The targets that were collected have no row, and each is one spot.
LEMMA CollectHolds ==
    ASSUME TypeOK, HeldInv, NEW j \in Jobs, Collect(j)
    PROVE  Apart(job'[j]) /\ Unwritten(job'[j], embedded')
<1> DEFINE M == Missing(job[j].kind, job[j].retry)
<1>1. PICK all \in Sorted(M) :
        LET n == IF job[j].retry = {} THEN Least(Limit, Len(all)) ELSE Len(all)
        IN  job' = [job EXCEPT ![j].pc = IF n = 0 THEN "rebuild" ELSE "download",
                               ![j].todo = [i \in 1..n |-> [spot |-> all[i],
                                                            url |-> image[all[i]]]]]
  BY DEF Collect
<1> DEFINE n == IF job[j].retry = {} THEN Least(Limit, Len(all)) ELSE Len(all)
           todo == [i \in 1..n |-> [spot |-> all[i], url |-> image[all[i]]]]
           pc == IF n = 0 THEN "rebuild" ELSE "download"
<1>2. Len(all) \in Nat /\ \A i \in 1..Len(all) : all[i] \in M
  BY SortedType
<1>3. n \in Nat /\ n <= Len(all)
  BY <1>2 DEF Least
<1>4. DOMAIN todo = 1..n /\ \A i \in 1..n : todo[i].spot = all[i] /\ todo[i].url = image[all[i]]
  OBVIOUS
<1>5. \A i, k \in 1..Len(all) : i # k => all[i] # all[k]
  <2>1. \A i, k \in 1..Len(all) : i < k => all[i] < all[k]
    BY <1>2, SortedType DEF Sorted
  <2>2. \A i \in 1..Len(all) : all[i] \in Nat
    BY <1>2 DEF Missing, Spots
  <2> QED
    BY <1>2, <2>1, <2>2
<1>6. job' = [job EXCEPT ![j].pc = pc, ![j].todo = todo]
  BY <1>1
<1>7. pc \notin {"idle", "collect"}
  OBVIOUS
<1> HIDE DEF n, todo, pc
<1>8. job \in [Jobs -> Slot] /\ job[j] \in Slot /\ Apart(job[j]) /\ job[j].pc = "collect"
      /\ job[j].writes = {} /\ UNCHANGED embedded
  BY DEF TypeOK, HeldInv, Collect, tables
<1>9. /\ job'[j].todo = todo /\ job'[j].pc = pc /\ job'[j].kind = job[j].kind
      /\ job'[j].batch = << >> /\ job'[j].writes = {}
  BY <1>6, <1>8 DEF Slot, Apart
<1>10. Apart(job'[j])
  BY <1>3, <1>4, <1>5, <1>7, <1>9 DEF Apart
<1>11. Unwritten(job'[j], embedded')
  <2>1. job[j].kind = "photo" => \A s \in M : embedded[s] # image[s]
    BY DEF Missing
  <2> QED
    BY <1>2, <1>3, <1>4, <1>8, <1>9, <2>1 DEF Unwritten
<1> QED
  BY <1>10, <1>11

\* A batch is cut off.
LEMMA DownloadHolds ==
    ASSUME TypeOK, HeldInv, NEW j \in Jobs, Download(j)
    PROVE  Apart(job'[j]) /\ Unwritten(job'[j], embedded')
<1>1. PICK n \in Nat, batch \in Seq(Outcomes), todo \in Seq(TargetRecords) :
             /\ job' = [job EXCEPT ![j] = [job[j] EXCEPT !.pc = "record", !.todo = todo,
                                                         !.batch = batch]]
             /\ n <= Len(job[j].todo) /\ job[j].todo \in Seq(TargetRecords)
             /\ Len(batch) = n /\ Len(todo) = Len(job[j].todo) - n
             /\ \A i \in 1..n : /\ batch[i].spot = job[j].todo[i].spot
                                /\ batch[i].url = job[j].todo[i].url
             /\ \A i \in 1..Len(todo) : todo[i] = job[j].todo[i + n]
  BY DownloadType
<1>2. job \in [Jobs -> Slot] /\ job[j] \in Slot /\ Apart(job[j]) /\ Unwritten(job[j], embedded)
      /\ job[j].writes = {} /\ UNCHANGED embedded
  BY DEF TypeOK, HeldInv, Download, tables
<1>3. /\ job'[j].todo = todo /\ job'[j].batch = batch /\ job'[j].pc = "record"
      /\ job'[j].kind = job[j].kind /\ job'[j].writes = {}
  BY <1>1, <1>2 DEF Slot
<1> DEFINE old == job[j].todo
<1>4. DOMAIN batch = 1..n /\ DOMAIN todo = 1..(Len(old) - n) /\ DOMAIN old = 1..Len(old)
      /\ Len(old) \in Nat
  BY <1>1
<1>5. /\ \A i \in DOMAIN batch : /\ i \in DOMAIN old /\ batch[i].spot = old[i].spot
                                 /\ batch[i].url = old[i].url
      /\ \A i \in DOMAIN todo : i + n \in DOMAIN old /\ todo[i] = old[i + n]
  <2>1. n \in Nat /\ n <= Len(old) /\ Len(todo) = Len(old) - n
    BY <1>1
  <2>2. \A i \in 1..n : i \in 1..Len(old)
    BY <1>4, <2>1
  <2>3. \A i \in 1..(Len(old) - n) : i + n \in 1..Len(old)
    BY <1>4, <2>1
  <2> HIDE DEF old
  <2>4. \A i \in 1..n : batch[i].spot = old[i].spot /\ batch[i].url = old[i].url
    BY <1>1 DEF old
  <2>5. \A i \in 1..(Len(old) - n) : todo[i] = old[i + n]
    BY <1>1 DEF old
  <2> QED
    <3>1. \A i \in DOMAIN batch : i \in DOMAIN old /\ batch[i].spot = old[i].spot
                                   /\ batch[i].url = old[i].url
      BY <1>4, <2>2, <2>4
    <3>2. \A i \in DOMAIN todo : i + n \in DOMAIN old /\ todo[i] = old[i + n]
      BY <1>4, <2>3, <2>5
    <3> QED
      BY <3>1, <3>2
<1>6. /\ \A i, k \in DOMAIN batch : i # k => batch[i].spot # batch[k].spot
      /\ \A i, k \in DOMAIN todo : i # k => todo[i].spot # todo[k].spot
      /\ \A i \in DOMAIN todo, k \in DOMAIN batch : todo[i].spot # batch[k].spot
  <2>1. \A i, k \in DOMAIN old : i # k => old[i].spot # old[k].spot
    BY <1>2 DEF Apart
  <2>2. \A i, k \in DOMAIN batch : i # k => batch[i].spot # batch[k].spot
    BY <1>5, <2>1
  <2>3. \A i, k \in DOMAIN todo : i # k => i + n # k + n
    BY <1>4
  <2>4. \A i, k \in DOMAIN todo : i # k => todo[i].spot # todo[k].spot
    BY <1>5, <2>1, <2>3
  <2>5. \A i \in DOMAIN todo, k \in DOMAIN batch : i + n # k
    BY <1>4
  <2>6. \A i \in DOMAIN todo, k \in DOMAIN batch : todo[i].spot # batch[k].spot
    BY <1>5, <2>1, <2>5
  <2> QED
    BY <2>2, <2>4, <2>6
<1>7. Apart(job'[j])
  BY <1>3, <1>6 DEF Apart
<1>8. Unwritten(job'[j], embedded')
  <2>1. job[j].kind = "photo" => \A i \in DOMAIN old : embedded[old[i].spot] # old[i].url
    BY <1>2 DEF Unwritten
  <2> QED
    BY <1>2, <1>3, <1>5, <2>1 DEF Unwritten
<1> QED
  BY <1>7, <1>8

\* The head of a batch goes into the transaction, or is skipped.
LEMMA RecordHolds ==
    ASSUME TypeOK, HeldInv, NEW j \in Jobs, Record(j)
    PROVE  Apart(job'[j]) /\ Unwritten(job'[j], embedded')
<1> DEFINE old == job[j].batch
           w == Head(old)
<1>1. job \in [Jobs -> Slot] /\ job[j] \in Slot /\ Apart(job[j]) /\ Unwritten(job[j], embedded)
      /\ old \in Seq(Outcomes) /\ old # << >> /\ job[j].pc = "record" /\ UNCHANGED embedded
  BY DEF TypeOK, HeldInv, Record, tables, Slot
<1>2. /\ job'[j].todo = job[j].todo /\ job'[j].batch = Tail(old) /\ job'[j].pc = "record"
      /\ job'[j].kind = job[j].kind /\ job'[j].writes \subseteq job[j].writes \cup {w}
  BY <1>1 DEF Record, Slot
<1>3. /\ 1 \in DOMAIN old /\ w = old[1] /\ Tail(old) \in Seq(Outcomes)
      /\ \A i \in DOMAIN Tail(old) : i + 1 \in DOMAIN old /\ i + 1 # 1 /\ Tail(old)[i] = old[i + 1]
      /\ \A i, k \in DOMAIN Tail(old) : i # k => i + 1 # k + 1
  <2>1. Len(old) \in Nat \ {0} /\ DOMAIN old = 1..Len(old)
    BY <1>1
  <2>2. /\ w = old[1] /\ Tail(old) \in Seq(Outcomes) /\ Len(Tail(old)) = Len(old) - 1
        /\ \A i \in 1..Len(Tail(old)) : Tail(old)[i] = old[i + 1]
    BY <1>1, HeadTailProperties
  <2> QED
    BY <2>1, <2>2
<1> DEFINE rest == Tail(old)
<1> HIDE DEF w, rest
<1>4. Apart(job'[j])
  <2>1. \A i, k \in DOMAIN rest : i # k => rest[i].spot # rest[k].spot
    BY <1>1, <1>3 DEF Apart, rest
  <2>2. \A i \in DOMAIN job[j].todo, k \in DOMAIN rest : job[j].todo[i].spot # rest[k].spot
    BY <1>1, <1>3 DEF Apart, rest
  <2>3. \A v \in job[j].writes \cup {w} :
           /\ \A i \in DOMAIN job[j].todo : job[j].todo[i].spot # v.spot
           /\ \A i \in DOMAIN rest : rest[i].spot # v.spot
    BY <1>1, <1>3 DEF Apart, rest
  <2> QED
    BY <1>1, <1>2, <2>1, <2>2, <2>3 DEF Apart, rest
<1>5. Unwritten(job'[j], embedded')
  BY <1>1, <1>2, <1>3 DEF Unwritten
<1> QED
  BY <1>4, <1>5

\* While the lock is its own, no other job holds a photo.
LEMMA OnlyOne ==
    ASSUME TypeOK, LockOfRunning, HeldInv, NEW j \in Jobs, job[j].pc # "idle", job[j].kind = "photo",
           NEW k \in Jobs \ {j}, job[k].kind = "photo"
    PROVE  job[k].todo = << >> /\ job[k].batch = << >> /\ job[k].writes = {}
<1>1. lock = j /\ job[k].pc = "idle"
  BY DEF LockOfRunning
<1> QED
  BY <1>1 DEF HeldInv, Apart, TypeOK

\* What the commit of a batch of photos leaves of a spot.
LEMMA CommitRow ==
    ASSUME TypeOK, RowsHeld, NEW j \in Jobs, CommitBatch(j), job[j].kind = "photo", NEW s \in Spots
    PROVE  \/ \E w \in job[j].writes : w.spot = s /\ embedded'[s] = image[s] /\ image[s] \in Urls
                                       /\ failure'[s] = None
           \/ \E w \in job[j].writes : w.spot = s /\ w.url = image[s] /\ image[s] \in Urls
                                       /\ embedded'[s] = embedded[s] /\ failure'[s] = "failed"
           \/ /\ \A w \in job[j].writes : w.spot # s
              /\ embedded'[s] = embedded[s] /\ failure'[s] = failure[s]
<1>1. embedded' = Written(j, embedded) /\ failure' = Failures(j)
  BY DEF CommitBatch
<1>2. \A w \in job[j].writes : image[w.spot] = w.url /\ w.url \in Urls
  BY DEF RowsHeld, TypeOK, Slot, Outcomes
<1>3. CASE \E w \in job[j].writes : w.spot = s /\ w.ok
  <2> DEFINE chosen == CHOOSE w \in job[j].writes : w.spot = s
  <2>1. chosen \in job[j].writes /\ chosen.spot = s
    BY <1>3
  <2>2. embedded'[s] = chosen.url
    BY <1>1, <1>3 DEF Written
  <2>3. failure'[s] = None
    BY <1>1, <1>3 DEF Failures, LockedBy
  <2> HIDE DEF chosen
  <2> QED
    BY <1>2, <2>1, <2>2, <2>3
<1>4. CASE (\E w \in job[j].writes : w.spot = s) /\ ~\E w \in job[j].writes : w.spot = s /\ w.ok
  <2>1. embedded'[s] = embedded[s] /\ failure'[s] = "failed"
    BY <1>1, <1>4 DEF Written, Failures, LockedBy
  <2> QED
    BY <1>2, <1>4, <2>1
<1>5. CASE \A w \in job[j].writes : w.spot # s
  BY <1>1, <1>5 DEF Written, Failures, LockedBy
<1> QED
  BY <1>3, <1>4, <1>5

\* A commit embeds no photo that this job or another still holds, and its failures
\* are of photos without a row.
LEMMA CommitHolds ==
    ASSUME TypeOK, RowsHeld, LockOfRunning, HeldInv, ListExact, NEW j \in Jobs, CommitBatch(j)
    PROVE  HeldInv' /\ ListExact' /\ ListKept
<1>1. /\ job \in [Jobs -> Slot] /\ job[j] \in Slot /\ Apart(job[j]) /\ Unwritten(job[j], embedded)
      /\ job[j].pc = "record" /\ job[j].batch = << >> /\ UNCHANGED image
  BY DEF TypeOK, HeldInv, CommitBatch
<1>2. /\ job'[j].todo = job[j].todo /\ job'[j].batch = << >> /\ job'[j].writes = {}
      /\ job'[j].kind = job[j].kind /\ job'[j].pc \notin {"idle", "collect"}
  BY <1>1 DEF CommitBatch, Slot
<1>3. \A k \in Jobs \ {j} : job'[k] = job[k]
  BY <1>1 DEF CommitBatch
<1>4. Apart(job'[j]) /\ \A k \in Jobs \ {j} : Apart(job'[k])
  BY <1>1, <1>2, <1>3 DEF Apart, HeldInv
<1>5. CASE job[j].kind = "photo"
  <2>1. \A k \in Jobs \ {j} : Unwritten(job'[k], embedded')
    <3> SUFFICES ASSUME NEW k \in Jobs \ {j}, job[k].kind = "photo" PROVE Unwritten(job'[k], embedded')
      BY <1>3 DEF Unwritten
    <3>1. job[k].todo = << >> /\ job[k].batch = << >> /\ job[k].writes = {}
      BY <1>1, <1>5, OnlyOne
    <3> QED
      BY <1>3, <3>1 DEF Unwritten
  <2>2. Unwritten(job'[j], embedded')
    <3>1. ASSUME NEW i \in DOMAIN job[j].todo
          PROVE  embedded'[job[j].todo[i].spot] # job[j].todo[i].url
      <4>8. job[j].todo \in Seq(TargetRecords)
        BY <1>1 DEF Slot
      <4>9. job[j].todo[i] \in TargetRecords
        BY <3>1, <4>8
      <4>1. job[j].todo[i].spot \in Spots
        BY <4>9 DEF TargetRecords
      <4>2. \A w \in job[j].writes : w.spot # job[j].todo[i].spot
        BY <1>1, <3>1 DEF Apart
      <4>3. embedded'[job[j].todo[i].spot] = embedded[job[j].todo[i].spot]
        BY <1>5, <4>1, <4>2, CommitRow
      <4> QED
        BY <1>1, <1>5, <3>1, <4>3 DEF Unwritten
    <3> QED
      BY <1>2, <3>1 DEF Unwritten
  <2>3. ASSUME NEW s \in Spots
        PROVE  /\ failure'[s] # None => image'[s] \in Urls /\ embedded'[s] # image'[s]
               /\ (embedded[s] # None \/ failure[s] # None)
                  /\ image'[s] \in Urls /\ embedded'[s] = None => failure'[s] # None
    <3>1. CASE \E w \in job[j].writes : w.spot = s /\ embedded'[s] = image[s] /\ image[s] \in Urls
                                        /\ failure'[s] = None
      BY <1>1, <3>1
    <3>2. CASE \E w \in job[j].writes : w.spot = s /\ w.url = image[s] /\ image[s] \in Urls
                                       /\ embedded'[s] = embedded[s] /\ failure'[s] = "failed"
      BY <1>1, <1>5, <3>2 DEF Unwritten
    <3>3. CASE embedded'[s] = embedded[s] /\ failure'[s] = failure[s]
      BY <1>1, <3>3 DEF ListExact
    <3> QED
      BY <1>5, <3>1, <3>2, <3>3, CommitRow
  <2> QED
    BY <1>2, <1>3, <1>4, <2>1, <2>2, <2>3 DEF HeldInv, ListExact, ListKept
<1>6. CASE job[j].kind # "photo"
  <2>1. UNCHANGED <<embedded, failure>>
    BY <1>6 DEF CommitBatch
  <2>2. \A k \in Jobs : Unwritten(job'[k], embedded')
    BY <1>2, <1>3, <1>6, <2>1 DEF Unwritten, HeldInv
  <2> QED
    BY <1>1, <1>4, <2>1, <2>2 DEF HeldInv, ListExact, ListKept
<1> QED
  BY <1>5, <1>6

\* The trigger lists every spot whose row it deletes.
LEMMA WriterHolds ==
    ASSUME TypeOK, IndexIsCurrent, WriterApart, HeldInv, ListExact, WriterCommit
    PROVE  WriterApart' /\ HeldInv' /\ ListExact' /\ ListKept
<1>1. /\ \A s \in Spots : image'[s] = IF s \in DOMAIN writer THEN writer[s] ELSE image[s]
      /\ \A s \in Spots : embedded'[s] = IF s \in Changed /\ embedded[s] # writer[s] THEN None
                                         ELSE embedded[s]
      /\ \A s \in Spots : failure'[s] = IF s \notin Changed THEN failure[s]
                                        ELSE IF writer[s] = None THEN None ELSE "source_changed"
      /\ DOMAIN writer' = {} /\ UNCHANGED job
  <2>1. \A s \in Spots : image'[s] = IF s \in DOMAIN writer THEN writer[s] ELSE image[s]
    BY DEF WriterCommit
  <2>2. \A s \in Spots : embedded'[s] = IF s \in Changed /\ embedded[s] # writer[s] THEN None
                                        ELSE embedded[s]
    BY DEF WriterCommit, Outdated
  <2>3. failure' = Queued
    BY DEF WriterCommit
  <2>4. \A s \in Spots : Queued[s] = IF s \notin Changed THEN failure[s]
                                    ELSE IF writer[s] = None THEN None ELSE "source_changed"
    BY DEF Queued
  <2>5. writer' = << >> /\ UNCHANGED job
    BY DEF WriterCommit
  <2> QED
    BY <2>1, <2>2, <2>3, <2>4, <2>5
<1>2. \A s \in DOMAIN writer : s \in Spots /\ writer[s] \in Urls \cup {None} /\ writer[s] # image[s]
  BY DEF TypeOK, WriterApart
<1>3. HeldInv'
  <2> SUFFICES ASSUME NEW k \in Jobs PROVE Apart(job'[k]) /\ Unwritten(job'[k], embedded')
    BY DEF HeldInv
  <2>1. Apart(job[k]) /\ Unwritten(job[k], embedded) /\ job[k] \in Slot
    BY DEF HeldInv, TypeOK
  <2>2. \A t \in TargetRecords \cup Outcomes : embedded[t.spot] # t.url => embedded'[t.spot] # t.url
    BY <1>1 DEF TargetRecords, Outcomes
  <2>3. /\ \A i \in DOMAIN job[k].todo : job[k].todo[i] \in TargetRecords
        /\ \A i \in DOMAIN job[k].batch : job[k].batch[i] \in Outcomes
        /\ \A w \in job[k].writes : w \in Outcomes
    BY <2>1 DEF Slot
  <2>4. Unwritten(job[k], embedded')
    BY <2>1, <2>2, <2>3 DEF Unwritten
  <2> QED
    BY <1>1, <2>1, <2>4
<1>4. ASSUME NEW s \in Spots
      PROVE  /\ failure'[s] # None => image'[s] \in Urls /\ embedded'[s] # image'[s]
             /\ (embedded[s] # None \/ failure[s] # None)
                /\ image'[s] \in Urls /\ embedded'[s] = None => failure'[s] # None
  <2>1. /\ failure[s] # None => image[s] \in Urls /\ embedded[s] # image[s]
        /\ embedded[s] # None => embedded[s] = image[s]
        /\ embedded[s] \in Urls \cup {None}
    BY DEF ListExact, IndexIsCurrent, TypeOK
  <2>2. CASE s \in Changed
    <3>1. s \in DOMAIN writer
      BY <2>2 DEF Changed
    <3> QED
      BY <1>1, <1>2, <2>1, <2>2, <3>1
  <2>3. CASE s \in DOMAIN writer /\ s \notin Changed
    <3>1. image[s] = Absent
      BY <2>3 DEF Changed
    <3> QED
      BY <1>1, <1>2, <2>1, <2>3, <3>1
  <2>4. CASE s \notin DOMAIN writer
    <3>1. s \notin Changed
      BY <2>4 DEF Changed
    <3> QED
      BY <1>1, <2>1, <2>4, <3>1
  <2> QED
    BY <2>2, <2>3, <2>4
<1> QED
  BY <1>1, <1>3, <1>4 DEF WriterApart, ListExact, ListKept

LEMMA LockStep ==
    ASSUME TypeOK, LockOfRunning, ~LockOutlived, [Next]_vars
    PROVE  LockOfRunning'
<1>1. ASSUME NEW j \in Jobs, JobAction(j) PROVE LockOfRunning'
  <2> SUFFICES ASSUME NEW k \in Jobs, job'[k].pc # "idle", job'[k].kind # "deploy"
               PROVE  lock' = k
    BY DEF LockOfRunning
  <2>1. job \in [Jobs -> Slot] /\ job[j] \in Slot /\ job[k] \in Slot
    BY DEF TypeOK
  <2>2. CASE k # j
    <3>1. job[k].pc # "idle" /\ job[k].kind # "deploy" /\ lock = k
      BY <1>1, <2>2, OthersHold DEF LockOfRunning
    <3>2. lock # None /\ lock # j
      BY <2>2, <3>1
    <3> QED
      BY <1>1, <3>1, <3>2 DEF JobAction, Start, StartDeploy, JobStep, Collect, Download, Record,
         CommitBatch, RebuildDelete, RebuildRank, RebuildSwap, Release, JobFails, RebuildFails, Crash
  <2>3. CASE k = j
    <3>1. CASE \E kind \in {"photo", "gallery"}, retry \in Retries : Start(j, kind, retry)
      BY <2>3, <3>1 DEF Start
    <3>2. CASE StartDeploy(j)
      BY <2>1, <2>3, <3>2 DEF StartDeploy, Idle
    <3>3. CASE Release(j) \/ Crash(j)
      BY <2>1, <2>3, <3>3 DEF Release, Crash, Idle
    <3>4. CASE JobStep(j) \/ JobFails(j) \/ RebuildFails(j)
      <4>1. CASE Release(j)
        BY <3>3, <4>1
      <4>2. CASE ~Release(j)
        <5>1. UNCHANGED lock /\ job[j].pc # "idle"
          BY <3>4, <4>2 DEF JobStep, Collect, Download, Record, CommitBatch, RebuildDelete,
             RebuildRank, RebuildSwap, JobFails, RebuildFails
        <5>2. job[j].kind # "deploy"
          <6>1. CASE Collect(j)
            <7>1. PICK pc \in PCs, todo \in Seq(TargetRecords) :
                    job' = [job EXCEPT ![j].pc = pc, ![j].todo = todo]
              BY <6>1, CollectType
            <7> QED
              BY <2>1, <2>3, <7>1 DEF Slot
          <6>2. CASE Download(j)
            <7>1. PICK n \in Nat, batch \in Seq(Outcomes), todo \in Seq(TargetRecords) :
                    /\ job' = [job EXCEPT ![j] = [job[j] EXCEPT !.pc = "record", !.todo = todo,
                                                                !.batch = batch]]
                    /\ n <= Len(job[j].todo) /\ job[j].todo \in Seq(TargetRecords)
                    /\ Len(batch) = n /\ Len(todo) = Len(job[j].todo) - n
                    /\ \A i \in 1..n : /\ batch[i].spot = job[j].todo[i].spot
                                       /\ batch[i].url = job[j].todo[i].url
                    /\ \A i \in 1..Len(todo) : todo[i] = job[j].todo[i + n]
              BY <6>2, DownloadType
            <7> QED
              BY <2>1, <2>3, <7>1 DEF Slot
          <6>3. CASE Record(j) \/ CommitBatch(j) \/ RebuildDelete(j) \/ JobFails(j)
            BY <2>1, <2>3, <6>3 DEF Record, CommitBatch, RebuildDelete, JobFails, Slot
          <6>4. CASE RebuildRank(j)
            <7>1. PICK best : job' = [job EXCEPT ![j].pc = "swap", ![j].ranked = best]
              BY <6>4 DEF RebuildRank
            <7> QED
              BY <2>1, <2>3, <7>1 DEF Slot
          <6>5. CASE RebuildSwap(j) \/ RebuildFails(j)
            <7>1. job'[j] = AfterRebuild(j)
              BY <2>1, <6>5 DEF RebuildSwap, RebuildFails
            <7> QED
              BY <2>3, <7>1 DEF AfterRebuild, Idle
          <6> QED
            BY <3>4, <4>2, <6>1, <6>2, <6>3, <6>4, <6>5 DEF JobStep
        <5> QED
          BY <2>3, <5>1, <5>2 DEF LockOfRunning
      <4> QED
        BY <4>1, <4>2
    <3> QED
      BY <1>1, <3>1, <3>2, <3>3, <3>4 DEF JobAction
  <2> QED
    BY <2>2, <2>3
<1>2. CASE ExpireLock
  BY <1>2 DEF ExpireLock, LockOfRunning
<1>3. CASE WriterCommit \/ WriterAborts \/ UNCHANGED vars
           \/ \E s \in Spots, u \in Urls \cup {None} : WriterTouch(s, u)
  BY <1>3 DEF WriterCommit, WriterAborts, WriterTouch, vars, LockOfRunning
<1> QED
  BY <1>1, <1>2, <1>3 DEF Next, JobAction

LEMMA StepRetry ==
    ASSUME RetryInv, ~LockOutlived, [Next]_vars
    PROVE  RetryInv' /\ ListKept
<1>1. IInv' /\ LockOfRunning'
  BY StepIInv, LockStep DEF RetryInv, IInv
<1>2. TypeOK /\ RowsHeld /\ IndexIsCurrent /\ LockOfRunning /\ WriterApart /\ HeldInv /\ ListExact
  BY DEF RetryInv, IInv
<1>3. ASSUME UNCHANGED tables, UNCHANGED image PROVE ListExact' /\ ListKept
  BY <1>2, <1>3 DEF ListExact, ListKept, tables
<1>4. ASSUME NEW j \in Jobs, JobAction(j) PROVE WriterApart' /\ HeldInv' /\ ListExact' /\ ListKept
  <2>1. UNCHANGED <<image, writer>>
    BY <1>4 DEF JobAction, Start, StartDeploy, JobStep, Collect, Download, Record, CommitBatch,
         RebuildDelete, RebuildRank, RebuildSwap, Release, JobFails, RebuildFails, Crash
  <2>2. WriterApart'
    BY <1>2, <2>1 DEF WriterApart
  <2>3. CASE CommitBatch(j)
    BY <1>2, <2>2, <2>3, CommitHolds
  <2>4. CASE ~CommitBatch(j)
    <3>1. Apart(job'[j]) /\ Unwritten(job'[j], embedded') /\ UNCHANGED tables
      <4>1. CASE Collect(j)
        BY <1>2, <4>1, CollectHolds DEF Collect
      <4>2. CASE Download(j)
        BY <1>2, <4>2, DownloadHolds DEF Download
      <4>3. CASE Record(j)
        BY <1>2, <4>3, RecordHolds DEF Record
      <4> QED
        BY <1>2, <1>4, <2>4, <4>1, <4>2, <4>3, SlotHolds
    <3>2. \A k \in Jobs \ {j} : Apart(job'[k]) /\ Unwritten(job'[k], embedded')
      <4> SUFFICES ASSUME NEW k \in Jobs \ {j} PROVE Apart(job'[k]) /\ Unwritten(job'[k], embedded')
        OBVIOUS
      <4>1. /\ job'[k].pc = job[k].pc /\ job'[k].kind = job[k].kind
            /\ job'[k].todo = job[k].todo /\ job'[k].batch = job[k].batch
            /\ job'[k].writes = job[k].writes
        BY <1>2, <1>4, OthersHold
      <4>2. Apart(job[k]) /\ Unwritten(job[k], embedded) /\ embedded' = embedded
        BY <1>2, <3>1 DEF HeldInv, tables
      <4> QED
        BY <4>1, <4>2 DEF Apart, Unwritten
    <3> QED
      BY <1>3, <2>1, <2>2, <3>1, <3>2 DEF HeldInv
  <2> QED
    BY <2>3, <2>4
<1>5. ASSUME WriterCommit PROVE WriterApart' /\ HeldInv' /\ ListExact' /\ ListKept
  BY <1>2, <1>5, WriterHolds
<1>6. ASSUME \E s \in Spots, u \in Urls \cup {None} : WriterTouch(s, u)
      PROVE  WriterApart' /\ HeldInv' /\ ListExact' /\ ListKept
  <2>1. PICK s \in Spots, u \in Urls \cup {None} : WriterTouch(s, u)
    BY <1>6
  <2>2. UNCHANGED image /\ UNCHANGED tables /\ UNCHANGED job /\ image[s] # u
        /\ writer' = [t \in DOMAIN writer \cup {s} |-> IF t = s THEN u ELSE writer[t]]
    BY <2>1 DEF WriterTouch
  <2>3. WriterApart'
    BY <1>2, <2>2 DEF WriterApart
  <2>4. HeldInv'
    BY <1>2, <2>2 DEF HeldInv, tables
  <2>5. ListExact' /\ ListKept
    BY <1>3, <2>2
  <2> QED
    BY <2>3, <2>4, <2>5
<1>7. ASSUME WriterAborts \/ ExpireLock \/ UNCHANGED vars
      PROVE  WriterApart' /\ HeldInv' /\ ListExact' /\ ListKept
  <2>1. /\ UNCHANGED image /\ UNCHANGED tables /\ UNCHANGED job
        /\ UNCHANGED writer \/ writer' = << >>
    BY <1>7 DEF WriterAborts, ExpireLock, vars
  <2>2. WriterApart' /\ HeldInv'
    BY <1>2, <2>1 DEF WriterApart, HeldInv, tables
  <2>3. ListExact' /\ ListKept
    BY <1>3, <2>1
  <2> QED
    BY <2>2, <2>3
<1>8. WriterApart' /\ HeldInv' /\ ListExact' /\ ListKept
  BY <1>4, <1>5, <1>6, <1>7 DEF Next, JobAction
<1> QED
  BY <1>1, <1>8 DEF RetryInv

\* The weekly repair misses no spot: one that lost its row is listed until it is
\* embedded or has no image, and only such spots are, unless two jobs run at once.
THEOREM RetriesAreListed == ~LockOutlived /\ Spec => RetryListHolds
<1> SUFFICES ASSUME ~LockOutlived PROVE Spec => RetryListHolds
  OBVIOUS
<1>1. RetryInv /\ [Next]_vars => RetryInv' /\ [ListKept]_vars
  BY StepRetry
<1>2. RetryInv => ListExact
  BY DEF RetryInv
<1>3. Spec => []ListExact /\ [][ListKept]_vars
  BY <1>1, <1>2, InitRetry, PTL DEF Spec
<1> QED
  BY <1>3, PTL DEF RetryListHolds, ListExact, ListKept
=============================================================================
