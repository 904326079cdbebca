--------------------------- MODULE WeeklySignals ---------------------------
(****************************************************************************)
(* The weekly signals of the ranking: what blogs write of a spot             *)
(* (spots/buzz_job.py) and how its photo looks (spots/visual_job.py).  One   *)
(* workflow runs the two, one after the other, while the pipeline hides      *)
(* spots and photos are embedded anew.                                       *)
(****************************************************************************)
EXTENDS Naturals, Sequences, SequencesExt, FiniteSets, FiniteSetsExt

CONSTANTS
    NumRated,      \* the spots are 1..NumRated, in the order of content_id
    Regions,       \* SIDO_SHORT, in order
    RegionAt,      \* the region a spot lies in
    LongTitle,     \* spots with a title of MIN_TITLE_LEN letters or more
    Themes,        \* THEMES, in order
    Posts,         \* blog posts: [link, blog, recent, names], names = the spots
                   \* whose titles the text of the post has in it
    Searches,      \* what Naver may answer: sequences of posts
    PageSize,      \* _BATCH
    NoLink, NoBuzz,
    MaxTouched,    \* bound: changes of spots
    WeekFaults     \* bound: failed searches and dead processes

Rated == 1..NumRated
Scopes == Range(Regions) \X Range(Themes)

ASSUME WeeklyAssumption ==
    /\ NumRated \in Nat \ {0} /\ PageSize \in Nat \ {0} /\ {MaxTouched, WeekFaults} \subseteq Nat
    /\ LongTitle \subseteq Rated /\ \A s \in Rated : RegionAt[s] \in Range(Regions)
    /\ \A p \in Posts : p.names \subseteq Rated /\ p.recent \in BOOLEAN
    /\ IsFiniteSet(Posts) /\ Searches \subseteq Seq(Posts)

VARIABLES
    listed,      \* spots with show_flag = 1
    photo,       \* spot_embeddings: the version of the photo that is embedded; 0: none
    buzz,        \* spot_buzz
    visual,      \* spot_visual: the version a score was computed from; 0: none
    week,        \* the process
    touched, weekFaults

weeklyVars == <<listed, photo, buzz, visual, week, touched, weekFaults>>

Resting == [pc |-> "idle", regions |-> <<>>, themes |-> <<>>, candidates |-> {}, offset |-> 0]

WeeklyInit ==
    /\ listed = Rated /\ photo \in [Rated -> {0, 1}]
    /\ buzz = [k \in Rated \X Scopes |-> NoBuzz]
    /\ visual = [s \in Rated |-> 0]
    /\ week = Resting /\ touched = 0 /\ weekFaults = 0

WeekFault == weekFaults < WeekFaults /\ weekFaults' = weekFaults + 1

WeekStarts ==
    /\ week.pc = "idle"
    /\ week' = [Resting EXCEPT !.pc = "region", !.regions = Regions]
    /\ UNCHANGED <<listed, photo, buzz, visual, touched, weekFaults>>

\* _load_candidates; a region without any is passed over.
LoadCandidates ==
    LET candidates == {s \in listed : RegionAt[s] = Head(week.regions)}
    IN  /\ week.pc = "region" /\ week.regions # <<>>
        /\ week' = IF candidates = {} THEN [week EXCEPT !.regions = Tail(@)]
                   ELSE [week EXCEPT !.pc = "theme", !.themes = Themes, !.candidates = candidates]
        /\ UNCHANGED <<listed, photo, buzz, visual, touched, weekFaults>>

\* Slip: a post is counted once for each order it was found in.
AsFound(all) == DOMAIN all

\* _fetch_grid_posts: of the posts in the order of their dates and then by
\* relevance, the places of those that count: the first with its link; posts
\* without a link count as one.
GridPosts(all) == {i \in DOMAIN all : \A j \in 1..(i - 1) : all[j].link # all[i].link}

\* aggregate_mentions of one spot; a name too short to tell is never looked for.
\* recent stands for the ratio recent / mentions.
Mention(s, all) ==
    LET hits == {i \in GridPosts(all) : s \in LongTitle /\ s \in all[i].names}
    IN  [mentions |-> Cardinality(hits),
         blogs |-> Cardinality({all[i].blog : i \in hits} \ {NoLink}),
         recent |-> Cardinality({i \in hits : all[i].recent})]

\* One theme of one region: two searches and one transaction.  A search that
\* failed has found nothing, and what is mentioned no more keeps its row.
Grid(fresh, ranked) ==
    LET scope == <<Head(week.regions), Head(week.themes)>>
        all == fresh \o ranked
    IN  /\ week.pc = "theme"
        /\ buzz' = [k \in DOMAIN buzz |->
                       IF k[2] = scope /\ k[1] \in week.candidates /\ Mention(k[1], all).mentions > 0
                       THEN Mention(k[1], all) ELSE buzz[k]]
        /\ week' = IF Len(week.themes) = 1 THEN [week EXCEPT !.pc = "region", !.regions = Tail(@), !.themes = <<>>,
                                                             !.candidates = {}]
                   ELSE [week EXCEPT !.themes = Tail(@)]
        /\ UNCHANGED <<listed, photo, visual, touched>>

GridAnswered(fresh, ranked) == Grid(fresh, ranked) /\ UNCHANGED weekFaults
GridHalf(fresh) == WeekFault /\ (Grid(fresh, <<>>) \/ Grid(<<>>, fresh))

\* sync_buzz has ended well: compute_visual begins.
BuzzDone ==
    /\ week.pc = "region" /\ week.regions = <<>>
    /\ week' = [Resting EXCEPT !.pc = "visual"]
    /\ UNCHANGED <<listed, photo, buzz, visual, touched, weekFaults>>

\* score_embedding: a score is of the embedding it was computed from.
Scored(s) == photo[s]

\* One page of run_visual_job.  The targets are selected anew for each page, so
\* that a spot hidden meanwhile moves the others one place to the front.
ScorePage ==
    LET targets == SetToSortSeq({s \in listed : photo[s] # 0}, <)
        page == SubSeq(targets, week.offset + 1, Min({week.offset + PageSize, Len(targets)}))
    IN  /\ week.pc = "visual"
        /\ visual' = [s \in Rated |-> IF s \in Range(page) THEN Scored(s) ELSE visual[s]]
        /\ week' = IF page = <<>> THEN Resting ELSE [week EXCEPT !.offset = @ + Len(page)]
        /\ UNCHANGED <<listed, photo, buzz, touched, weekFaults>>

\* The container is replaced, or a statement fails: the other step is not run.
WeekDies ==
    /\ week.pc # "idle" /\ WeekFault
    /\ week' = Resting
    /\ UNCHANGED <<listed, photo, buzz, visual, touched>>

\* The pipeline hides a spot or shows it; an embedding job embeds a photo anew.
Touch(s) ==
    /\ touched < MaxTouched /\ touched' = touched + 1
    /\ \/ listed' = (listed \ {s}) \cup ({s} \ listed) /\ UNCHANGED photo
       \/ photo' = [photo EXCEPT ![s] = @ + 1] /\ UNCHANGED listed
    /\ UNCHANGED <<buzz, visual, week, weekFaults>>

WeekStep ==
    \/ WeekStarts \/ LoadCandidates \/ BuzzDone \/ ScorePage
    \/ \E fresh, ranked \in Searches : GridAnswered(fresh, ranked)

WeeklyNext ==
    \/ WeekStep
    \/ \E fresh \in Searches : GridHalf(fresh)
    \/ WeekDies
    \/ \E s \in Rated : Touch(s)

\* The schedule starts it every week, and a process goes on.
WeeklyFairness == WF_weeklyVars(WeekStep)

---------------------------------------------------------------------------
\* Properties.

\* A post that Naver returns in both of its orders is one mention: no spot has
\* more of them than there are posts with a link of their own that name it.
PostsCountedOnce ==
    \A k \in DOMAIN buzz : buzz[k] # NoBuzz =>
        /\ buzz[k].mentions <= Cardinality({p.link : p \in {q \in Posts : k[1] \in q.names}})
        /\ buzz[k].blogs <= buzz[k].mentions /\ buzz[k].recent <= buzz[k].mentions

\* Every photo that is shown is scored in the end, as it is: what a week's pages
\* have skipped, because the list of targets moved under them, the next makes up.
VisualCatchesUp == <>[](\A s \in listed : photo[s] # 0 => visual[s] = photo[s])
=============================================================================
