--------------------------- MODULE OverseasPosts ---------------------------
(****************************************************************************)
(* The overseas posts of the explore feed.  Once a month an ETL brings them  *)
(* from Wikidata, Commons and Wikipedia (pipeline overseas/), and a job      *)
(* embeds the photos that are new (feed/embedding_job.py) and matches them   *)
(* anew.  The second runs if the first ended well.                           *)
(****************************************************************************)
EXTENDS Naturals, Sequences, SequencesExt, FiniteSets, FiniteSetsExt

CONSTANTS
    NumPosts,      \* the posts are 1..NumPosts, in the order of their ids
    Countries,     \* COUNTRIES, in order
    Of,            \* the items that Wikidata has for a country: an item may have two
    Towns,         \* items that are settlements
    Files,         \* files of images on Commons
    Undecodable,   \* images [file, thumb] that cannot be downloaded or embedded
    Intro,         \* length of the first paragraph on Wikipedia, 0: no article
    Lengths,       \* lengths of a Korean description on Wikidata, 0: none
    MinDesc,       \* MIN_DESC_CHARS
    BatchOf,       \* posts per commit
    MaxEdits,      \* bound: edits on Wikidata
    MonthFaults,   \* bound: failed calls, dead processes
    Gone           \* no row, no embedding, no match

Items == 1..NumPosts
Image == [file : Files, thumb : BOOLEAN]
Row == [country : Range(Countries), image : Image, desc : Nat, embedded : Image \cup {Gone}]

ASSUME OverseasAssumption ==
    /\ NumPosts \in Nat \ {0} /\ BatchOf \in Nat \ {0}
    /\ MinDesc \in Nat /\ Lengths \subseteq Nat /\ \A p \in Items : Intro[p] \in Nat
    /\ Countries \in Seq(Range(Countries))
    /\ \A c \in Range(Countries) : Of[c] \subseteq Items
    /\ {MaxEdits, MonthFaults} \subseteq Nat
    /\ Gone \notin Image /\ Gone \notin Row

VARIABLES
    item,        \* Wikidata: [file, desc] of each item
    post,        \* overseas_spots; embedded: the image its embedding is of
    matched,     \* overseas_spot_matches: the image they were computed from
    month,       \* what the workflow runs: idle, etl, embed or embedding
    etl, embed,  \* the two processes
    edits, monthFaults

monthlyVars == <<item, post, matched, month, etl, embed, edits, monthFaults>>

NoEtl == [pc |-> "idle", left |-> <<>>, failed |-> 0, spots |-> {}]
NoEmbed == [pc |-> "idle", todo |-> <<>>, got |-> {}]

OverseasInit ==
    /\ item \in [Items -> [file : Files, desc : Lengths]]
    /\ post = [p \in Items |-> Gone] /\ matched = [p \in Items |-> Gone]
    /\ month = "idle" /\ etl = NoEtl /\ embed = NoEmbed
    /\ edits = 0 /\ monthFaults = 0

MonthFault == monthFaults < MonthFaults /\ monthFaults' = monthFaults + 1

---------------------------------------------------------------------------
\* sync_overseas.

MonthStarts ==
    /\ month = "idle" /\ etl.pc = "idle"
    /\ month' = "etl"
    /\ etl' = [NoEtl EXCEPT !.pc = "country", !.left = Countries]
    /\ UNCHANGED <<item, post, matched, embed, edits, monthFaults>>

\* fetch_country: the items of the country that are no settlements.
FetchCountry ==
    LET found == {[id |-> p, file |-> item[p].file, desc |-> item[p].desc] : p \in Of[Head(etl.left)] \ Towns}
    IN  /\ etl.pc = "country" /\ etl.left # <<>>
        /\ etl' = IF found = {} THEN [etl EXCEPT !.left = Tail(@)]
                  ELSE [etl EXCEPT !.pc = "credits", !.spots = found]
        /\ UNCHANGED <<item, post, matched, month, embed, edits, monthFaults>>

\* A country whose query fails is passed over.
CountryFails ==
    /\ etl.pc = "country" /\ etl.left # <<>> /\ MonthFault
    /\ etl' = [etl EXCEPT !.left = Tail(@), !.failed = @ + 1]
    /\ UNCHANGED <<item, post, matched, month, embed, edits>>

\* The longer description is kept, and the new one of two of a length.
LongerKept(old, new) == IF new = 0 \/ old > new THEN old ELSE new

\* upsert_overseas: another image throws the embedding away.
Upserted(p, s, country, credited) ==
    LET image == [file |-> s.file, thumb |-> credited]
    IN  IF post[p] = Gone THEN [country |-> country, image |-> image, desc |-> s.desc, embedded |-> Gone]
        ELSE [country |-> country, image |-> image, desc |-> LongerKept(post[p].desc, s.desc),
              embedded |-> IF post[p].image = image THEN post[p].embedded ELSE Gone]

\* fetch_credits, the upserts of a country and their commit.  A file without
\* credits gets an address that leads to it instead of the thumbnail's own.
UpsertCountry(uncredited) ==
    /\ etl.pc = "credits"
    /\ post' = [p \in Items |->
                  IF \E s \in etl.spots : s.id = p
                  THEN Upserted(p, CHOOSE s \in etl.spots : s.id = p, Head(etl.left), p \notin uncredited)
                  ELSE post[p]]
    /\ etl' = [etl EXCEPT !.pc = "country", !.left = Tail(@), !.spots = {}]
    /\ UNCHANGED <<item, matched, month, embed, edits>>

AllCredited == UpsertCountry({}) /\ UNCHANGED monthFaults
SomeUncredited == MonthFault /\ \E p \in {s.id : s \in etl.spots} : UpsertCountry({p})

\* fill_missing_descriptions: a short description becomes the first paragraph of
\* the article, if there is one.
Filled ==
    [p \in Items |->
        IF post[p] # Gone /\ post[p].desc < MinDesc /\ Intro[p] > 0 THEN [post[p] EXCEPT !.desc = Intro[p]]
        ELSE post[p]]

\* MAX_FAILED_COUNTRY_RATIO: more than a third of the countries failed.
TooManyFailed == etl.failed * 3 > Len(Countries)

\* What was committed is kept even if the run then counts as failed.
EtlEnds ==
    /\ etl.pc = "country" /\ etl.left = <<>>
    /\ post' = Filled
    /\ etl' = NoEtl
    /\ month' = IF TooManyFailed THEN "idle" ELSE "embed"
    /\ UNCHANGED <<item, matched, embed, edits, monthFaults>>

\* Commons, Wikipedia or a statement fails, or the process dies: the open
\* transaction is rolled back and photos are not embedded this month.
EtlFails ==
    /\ etl.pc # "idle" /\ MonthFault
    /\ etl' = NoEtl /\ month' = "idle"
    /\ UNCHANGED <<item, post, matched, embed, edits>>

---------------------------------------------------------------------------
\* embed_overseas.

\* The workflow is started by hand with skip_etl.
SkipEtl ==
    /\ month = "idle" /\ \E p \in Items : post[p] # Gone /\ post[p].embedded = Gone
    /\ MonthFault
    /\ month' = "embed"
    /\ UNCHANGED <<item, post, matched, etl, embed, edits>>

\* Slip: a limit on the posts of a month lets one that always fails go first.
TargetsLimited == {p \in Items : post[p] # Gone /\ post[p].embedded = Gone
                                 /\ \A q \in 1..(p - 1) : post[q] # Gone => post[q].embedded # Gone}
\* collect_overseas_targets.
Targets == {p \in Items : post[p] # Gone /\ post[p].embedded = Gone}

\* acquire_embedding_job_lock: a second job fails at once.
EmbedStarts ==
    /\ month = "embed"
    /\ IF embed.pc = "idle"
       THEN /\ month' = "embedding"
            /\ embed' = [pc |-> "download", got |-> {},
                         todo |-> LET ids == SetToSortSeq(Targets, <)
                                  IN  [i \in DOMAIN ids |-> [id |-> ids[i], image |-> post[ids[i]].image]]]
       ELSE month' = "idle" /\ UNCHANGED embed
    /\ UNCHANGED <<item, post, matched, etl, edits, monthFaults>>

Batch == Range(SubSeq(embed.todo, 1, Min({BatchOf, Len(embed.todo)})))

\* _embed_one of each photo of a batch; one that fails is left for the next month.
DownloadBatch(failed) ==
    /\ embed.pc = "download" /\ embed.todo # <<>>
    /\ embed' = [embed EXCEPT !.pc = "write", !.got = {t \in Batch \ failed : t.image \notin Undecodable}]
    /\ UNCHANGED <<item, post, matched, month, etl, edits>>

AllDownloaded == DownloadBatch({}) /\ UNCHANGED monthFaults
SomeNotDownloaded == MonthFault /\ \E t \in Batch : DownloadBatch({t})

\* Slip: the row may have another image by now.
WrittenToAnyway(p) == {t \in embed.got : t.id = p}
\* _WRITE_SQL: the row still has the image that was downloaded.
WrittenTo(p) == {t \in embed.got : t.id = p /\ t.image = post[p].image}

WriteBatch ==
    /\ embed.pc = "write"
    /\ post' = [p \in Items |->
                  IF post[p] = Gone \/ WrittenTo(p) = {} THEN post[p]
                  ELSE [post[p] EXCEPT !.embedded = (CHOOSE t \in WrittenTo(p) : TRUE).image]]
    /\ embed' = [pc |-> "download", got |-> {}, todo |-> SubSeq(embed.todo, BatchOf + 1, Len(embed.todo))]
    /\ UNCHANGED <<item, matched, month, etl, edits, monthFaults>>

Recomputed == [p \in Items |-> IF post[p] = Gone THEN Gone ELSE post[p].embedded]

\* recompute_all_matches, however the job has ended; the workflow goes on if it
\* still waits for it.
EmbedOver(rebuilt) ==
    /\ embed' = NoEmbed
    /\ matched' = IF rebuilt THEN Recomputed ELSE matched
    /\ month' = IF month = "embedding" THEN "idle" ELSE month
    /\ UNCHANGED <<item, post, etl, edits>>

EmbedEnds == embed.pc = "download" /\ embed.todo = <<>> /\ EmbedOver(TRUE) /\ UNCHANGED monthFaults

\* A statement of the job, or the rebuild itself, fails.
EmbedRaises == embed.pc # "idle" /\ MonthFault /\ \E rebuilt \in BOOLEAN : EmbedOver(rebuilt)

\* The job of the workflow times out, and the process in the container goes on.
EmbedOutlives ==
    /\ month = "embedding" /\ MonthFault
    /\ month' = "idle"
    /\ UNCHANGED <<item, post, matched, etl, embed, edits>>

---------------------------------------------------------------------------
\* An editor of Wikidata puts another image or description on an item.
Edit(p, file, desc) ==
    /\ edits < MaxEdits /\ edits' = edits + 1
    /\ item[p] # [file |-> file, desc |-> desc]
    /\ item' = [item EXCEPT ![p] = [file |-> file, desc |-> desc]]
    /\ UNCHANGED <<post, matched, month, etl, embed, monthFaults>>

EtlStep == FetchCountry \/ AllCredited \/ EtlEnds
EmbedStep == AllDownloaded \/ WriteBatch \/ EmbedEnds

OverseasNext ==
    \/ MonthStarts \/ EtlStep \/ EmbedStarts \/ EmbedStep
    \/ CountryFails \/ SomeUncredited \/ EtlFails
    \/ SkipEtl \/ SomeNotDownloaded \/ EmbedRaises \/ EmbedOutlives
    \/ \E p \in Items, file \in Files, desc \in Lengths : Edit(p, file, desc)

\* A process goes on, the workflow starts its second job, and the schedule queues
\* a month's run until it can start.
OverseasFairness ==
    /\ WF_monthlyVars(EtlStep) /\ WF_monthlyVars(EmbedStep)
    /\ WF_monthlyVars(EmbedStarts) /\ WF_monthlyVars(MonthStarts)

OverseasSpec == OverseasInit /\ [][OverseasNext]_monthlyVars

---------------------------------------------------------------------------
\* Properties.

\* Whatever failed in a month, the months after it bring every item with its last
\* image, and the photo is embedded and matched, unless it cannot be downloaded.
PostsComeBack ==
    <>[](\A c \in Range(Countries) : \A p \in Of[c] \ Towns :
            LET image == [file |-> item[p].file, thumb |-> TRUE]
            IN  /\ post[p] # Gone
                /\ post[p].image = image
                /\ image \notin Undecodable => post[p].embedded = image /\ matched[p] = image)

\* No post is matched by the embedding of a photo it has no more, though the ETL
\* may replace the photo while it is downloaded, in a job that has outlived its
\* workflow; and a description long enough for a card is never replaced by a
\* shorter one, neither by Wikidata's of the next month nor by the article's.
PostsKept ==
    /\ [](\A p \in Items : post[p] # Gone /\ post[p].embedded # Gone => post[p].embedded = post[p].image)
    /\ [][\A p \in Items : post[p] # Gone /\ post[p].desc >= MinDesc => post'[p].desc >= post[p].desc]_monthlyVars
=============================================================================
