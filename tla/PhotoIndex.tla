----------------------------- MODULE PhotoIndex -----------------------------
(* The photo indexes: the embedding of every spot's first image, the centroid *)
(* of its gallery, the list of failures to retry, and the matches the feed    *)
(* shows, ranked from them.                                                   *)
(*                                                                            *)
(* Jobs (backend/app/modules/images, backend/scripts) fill the indexes under  *)
(* one redis lock while KTO syncs and image validation change the images      *)
(* under them; a PostgreSQL trigger throws away what a change outdates.  A    *)
(* transaction's writes are kept with its process until it commits, and the   *)
(* rows it locked are those it wrote.  One overseas post stands for all:      *)
(* Near are the images within MATCH_DISTANCE_MAX of it.                       *)
EXTENDS Naturals, FiniteSets, Sequences

CONSTANTS
    NumSpots,     \* the spots are 1..NumSpots, in the order of content_id
    Urls,         \* image addresses
    Dead,         \* those of them that cannot be downloaded or decoded
    MorePhotos,   \* spots whose KTO gallery has other photos, all of them fine
    Near,         \* pairs of a spot and an image of it that resemble the post
    Jobs,         \* processes that run jobs
    Limit,        \* --limit of the daily job
    BatchSize,    \* spots per commit
    MatchCount,   \* matches per post; the code: 3
    LockOutlived, \* may a job run longer than the TTL of its lock?
    MaxChanges,   \* bound: image changes
    MaxFaults,    \* bound: failed downloads, SQL errors, dead processes
    None,         \* no image, no row, no holder
    Absent        \* the image of a spot that KTO has not listed yet

Spots == 1..NumSpots
Kinds == {"photo", "gallery", "deploy"}

\* The reasons a job retries: none, it takes what is missing; those of the weekly
\* repair; all, the admin's.
Retries == {{}, {"source_changed"}, {"source_changed", "failed"}}

ASSUME PhotoIndexAssumption ==
    /\ NumSpots \in Nat \ {0} /\ Limit \in Nat \ {0} /\ BatchSize \in Nat \ {0}
    /\ MatchCount \in Nat \ {0} /\ MaxChanges \in Nat /\ MaxFaults \in Nat
    /\ Dead \subseteq Urls /\ MorePhotos \subseteq Spots /\ Near \subseteq Spots \X Urls
    /\ LockOutlived \in BOOLEAN /\ None \notin Urls /\ Absent \notin Urls
    /\ None # Absent /\ None \notin Jobs /\ None \notin {"source_changed", "failed"}

VARIABLES
    image,     \* spots.first_image_url
    embedded,  \* spot_embeddings: the image each row is of
    gallery,   \* spot_embeddings_gallery: the first image each row is of
    failure,   \* embedding_failures: the reason
    matches,   \* overseas_spot_matches of the post
    lock,      \* admin:embed:running: the job that took it
    job,       \* what each process is doing
    writer,    \* the rows written by the open transaction of a sync
    changes, faults

tables == <<embedded, gallery, failure>>
vars == <<image, tables, matches, lock, job, writer, changes, faults>>

\* todo: what is left to embed; batch: outcomes still to be recorded;
\* writes: rows of the open transaction; ranked: the matches of an open rebuild;
\* beaten: another rebuild committed since this one deleted the old rows.
Idle == [pc |-> "idle", kind |-> "photo", retry |-> {}, todo |-> << >>,
         batch |-> << >>, writes |-> {}, ranked |-> {}, beaten |-> FALSE]

\* Initial data was inserted, which fires no trigger.
Init ==
    /\ image \in [Spots -> Urls \cup {Absent}]
    /\ embedded = [s \in Spots |-> None] /\ gallery = [s \in Spots |-> None]
    /\ failure = [s \in Spots |-> None]
    /\ matches = {} /\ lock = None /\ writer = << >>
    /\ job = [j \in Jobs |-> Idle]
    /\ changes = 0 /\ faults = 0

Goto(j, pc) == job' = [job EXCEPT ![j].pc = pc]
Fault == faults < MaxFaults /\ faults' = faults + 1

\* Spots whose row the transaction of a process has locked.
LockedBy(j) == {w.spot : w \in job[j].writes}

-----------------------------------------------------------------------------
(* Images change: sync upserts and image validation.                         *)

\* An upsert of a page, a _REWRITE or a _CLEAR puts another image on a spot.  It
\* waits for the row if a job has locked it.
WriterTouch(s, u) ==
    /\ changes < MaxChanges /\ s \notin DOMAIN writer
    /\ \A j \in Jobs : s \notin LockedBy(j)
    /\ image[s] # u
    /\ writer' = [t \in DOMAIN writer \cup {s} |-> IF t = s THEN u ELSE writer[t]]
    /\ changes' = changes + 1
    /\ UNCHANGED <<image, tables, matches, lock, job, faults>>

\* Spots on which the trigger fires: their image changed, they were not inserted.
Changed == {s \in DOMAIN writer : image[s] # Absent}

\* invalidate_spot_image_derivatives: a row of another image is deleted.
Outdated(row) == [s \in Spots |-> IF s \in Changed /\ row[s] # writer[s] THEN None ELSE row[s]]

\* Slip: the change is not put on the list of retries.
QueuedNever == [s \in Spots |-> IF s \in Changed /\ writer[s] = None THEN None ELSE failure[s]]

\* invalidate_spot_image_derivatives: the spot is listed for a retry, or, with no
\* image left, taken off the list.
Queued ==
    [s \in Spots |-> IF s \notin Changed THEN failure[s]
                     ELSE IF writer[s] = None THEN None ELSE "source_changed"]

WriterCommit ==
    /\ writer # << >>
    /\ image' = [s \in Spots |-> IF s \in DOMAIN writer THEN writer[s] ELSE image[s]]
    /\ embedded' = Outdated(embedded) /\ gallery' = Outdated(gallery)
    /\ failure' = Queued
    /\ writer' = << >>
    /\ UNCHANGED <<matches, lock, job, changes, faults>>

\* The sync dies, or loses a deadlock with a job: its page is rolled back.
WriterAborts ==
    /\ writer # << >> /\ Fault
    /\ writer' = << >>
    /\ UNCHANGED <<image, tables, matches, lock, job, changes>>

-----------------------------------------------------------------------------
(* The embedding jobs.                                                       *)

\* trigger_embedding, backfill_embeddings and backfill_gallery_embeddings: a job
\* that does not get the lock does nothing.
Start(j, kind, retry) ==
    /\ job[j].pc = "idle" /\ lock = None
    /\ retry # {} => kind = "photo"
    /\ lock' = j
    /\ job' = [job EXCEPT ![j] = [Idle EXCEPT !.pc = "collect", !.kind = kind,
                                              !.retry = retry]]
    /\ UNCHANGED <<image, tables, matches, writer, changes, faults>>

\* deploy.sh runs precompute_matches after a deploy, without the lock.
StartDeploy(j) ==
    /\ job[j].pc = "idle"
    /\ job' = [job EXCEPT ![j] = [Idle EXCEPT !.pc = "rebuild", !.kind = "deploy"]]
    /\ UNCHANGED <<image, tables, matches, lock, writer, changes, faults>>

\* The spots a job is to embed: their image has no row yet; a retry takes only
\* those on the list.
Missing(kind, retry) ==
    {s \in Spots : /\ image[s] \in Urls
                   /\ kind = "photo"   => embedded[s] # image[s]
                   /\ kind = "gallery" => gallery[s] # image[s]
                   /\ retry # {} => failure[s] \in retry}

\* The one sequence of a set of spots that has them in the order of content_id.
Sorted(S) ==
    {all \in [1..Cardinality(S) -> S] : \A i, k \in DOMAIN all : i < k => all[i] < all[k]}

Least(m, n) == IF m < n THEN m ELSE n

\* Slip: a job with nothing to embed leaves the matches as they are.
CollectOrLeave(j) ==
    /\ job[j].pc = "collect"
    /\ \E all \in Sorted(Missing(job[j].kind, job[j].retry)) :
         LET n == IF job[j].retry = {} THEN Least(Limit, Len(all)) ELSE Len(all)
         IN  job' = [job EXCEPT ![j].pc = IF n = 0 THEN "release" ELSE "download",
                                ![j].todo = [i \in 1..n |-> [spot |-> all[i],
                                                             url |-> image[all[i]]]]]
    /\ UNCHANGED <<image, tables, matches, lock, writer, changes, faults>>

\* collect_targets, collect_gallery_targets: in the order of content_id, up to
\* the limit, which a retry does not have.
Collect(j) ==
    /\ job[j].pc = "collect"
    /\ \E all \in Sorted(Missing(job[j].kind, job[j].retry)) :
         LET n == IF job[j].retry = {} THEN Least(Limit, Len(all)) ELSE Len(all)
         IN  job' = [job EXCEPT ![j].pc = IF n = 0 THEN "rebuild" ELSE "download",
                                ![j].todo = [i \in 1..n |-> [spot |-> all[i],
                                                             url |-> image[all[i]]]]]
    /\ UNCHANGED <<image, tables, matches, lock, writer, changes, faults>>

\* What can be embedded: the image itself, or for a gallery any of its photos.
Embeddable(j, target) ==
    target.url \notin Dead \/ (job[j].kind = "gallery" /\ target.spot \in MorePhotos)

\* _embed_one, _embed_gallery_one: a batch is downloaded and embedded, before any
\* row is locked.  A failure of what could be embedded is a fault.
Download(j) ==
    /\ job[j].pc = "download"
    /\ LET n == Least(BatchSize, Len(job[j].todo))
           now == SubSeq(job[j].todo, 1, n)
       IN  \E ok \in [1..n -> BOOLEAN] :
             /\ \A i \in 1..n : ok[i] => Embeddable(j, now[i])
             /\ IF \A i \in 1..n : Embeddable(j, now[i]) => ok[i]
                THEN UNCHANGED faults ELSE Fault
             /\ job' = [job EXCEPT ![j].pc = "record",
                          ![j].todo = SubSeq(@, n + 1, Len(@)),
                          ![j].batch = [i \in 1..n |-> [spot |-> now[i].spot,
                                                        url |-> now[i].url, ok |-> ok[i]]]]
    /\ UNCHANGED <<image, tables, matches, lock, writer, changes>>

\* Slip: the row is locked whatever image the spot has by now.
StillCurrentAlways(w) == TRUE

\* lock_current_spot_image: the row is locked if the spot still has that image.
StillCurrent(w) == image[w.spot] = w.url

\* _record_success, _record_failure, _record_gallery: the outcome is written if the
\* row can be locked, and skipped otherwise; a gallery that failed writes nothing.
Record(j) ==
    /\ job[j].pc = "record" /\ job[j].batch # << >>
    /\ LET w == Head(job[j].batch)
           writes == w.ok \/ job[j].kind = "photo"
       IN  /\ writes => /\ w.spot \notin DOMAIN writer
                        /\ \A k \in Jobs \ {j} : w.spot \notin LockedBy(k)
           /\ job' = [job EXCEPT ![j].batch = Tail(@),
                        ![j].writes = IF writes /\ StillCurrent(w) THEN @ \cup {w} ELSE @]
    /\ UNCHANGED <<image, tables, matches, lock, writer, changes, faults>>

\* The rows of a table after the transaction of a job.
Written(j, row) ==
    [s \in Spots |-> IF \E w \in job[j].writes : w.spot = s /\ w.ok
                     THEN (CHOOSE w \in job[j].writes : w.spot = s).url ELSE row[s]]

\* A success takes the spot off the list, a failure puts it there.
Failures(j) ==
    [s \in Spots |-> IF s \notin LockedBy(j) THEN failure[s]
                     ELSE IF \E w \in job[j].writes : w.spot = s /\ w.ok THEN None
                     ELSE "failed"]

\* run_embedding_job, run_gallery_embedding_job: one commit per batch.
CommitBatch(j) ==
    /\ job[j].pc = "record" /\ job[j].batch = << >>
    /\ IF job[j].kind = "photo"
       THEN embedded' = Written(j, embedded) /\ failure' = Failures(j) /\ UNCHANGED gallery
       ELSE gallery' = Written(j, gallery) /\ UNCHANGED <<embedded, failure>>
    /\ job' = [job EXCEPT ![j].writes = {},
                          ![j].pc = IF job[j].todo = << >> THEN "rebuild" ELSE "download"]
    /\ UNCHANGED <<image, matches, lock, writer, changes, faults>>

\* Slip: nothing is rolled back.
JobFailsOpen(j) ==
    /\ job[j].pc \in {"collect", "download", "record"} /\ Fault
    /\ job' = [job EXCEPT ![j].batch = << >>, ![j].todo = << >>, ![j].pc = "rebuild"]
    /\ UNCHANGED <<image, tables, matches, lock, writer, changes>>

\* An SQL error, a lost deadlock: the batch is rolled back, and the job goes on
\* to its finally.
JobFails(j) ==
    /\ job[j].pc \in {"collect", "download", "record"} /\ Fault
    /\ job' = [job EXCEPT ![j].writes = {}, ![j].batch = << >>, ![j].todo = << >>,
                          ![j].pc = "rebuild"]
    /\ UNCHANGED <<image, tables, matches, lock, writer, changes>>

-----------------------------------------------------------------------------
(* The matches: recompute_all_matches, at the end of every job.              *)

\* DELETE: the rows that were committed by now are on their way out.
RebuildDelete(j) ==
    /\ job[j].pc = "rebuild"
    /\ job' = [job EXCEPT ![j].pc = "rank", ![j].beaten = FALSE]
    /\ UNCHANGED <<image, tables, matches, lock, writer, changes, faults>>

\* Spots that can be ranked: either index has a row of their image.
Candidates ==
    {s \in Spots : /\ image[s] \in Urls /\ <<s, image[s]>> \in Near
                   /\ embedded[s] = image[s] \/ gallery[s] = image[s]}

\* INSERT: the nearest candidates, as of this statement.  Which of them are nearest
\* is left open.
RebuildRank(j) ==
    /\ job[j].pc = "rank"
    /\ \E best \in SUBSET Candidates :
         /\ Cardinality(best) = Least(MatchCount, Cardinality(Candidates))
         /\ job' = [job EXCEPT ![j].pc = "swap", ![j].ranked = best]
    /\ UNCHANGED <<image, tables, matches, lock, writer, changes, faults>>

AfterRebuild(j) ==
    IF job[j].kind = "deploy" THEN Idle
    ELSE [job[j] EXCEPT !.pc = "release", !.ranked = {}, !.beaten = FALSE]

\* Rows another rebuild committed meanwhile were not deleted by this one: its own
\* collide with them.
Collides(j) == job[j].beaten /\ matches # {}

\* The commit; a collision fails it, and the failure is swallowed.
RebuildSwap(j) ==
    /\ job[j].pc = "swap"
    /\ matches' = IF Collides(j) THEN matches ELSE job[j].ranked
    /\ job' = [k \in Jobs |->
                 CASE k = j -> AfterRebuild(j)
                   [] k # j /\ ~Collides(j) /\ job[k].pc \in {"rank", "swap"} ->
                        [job[k] EXCEPT !.beaten = TRUE]
                   [] OTHER -> job[k]]
    /\ UNCHANGED <<image, tables, lock, writer, changes, faults>>

\* recompute_all_matches: an error of the rebuild is swallowed.
RebuildFails(j) ==
    /\ job[j].pc \in {"rebuild", "rank", "swap"} /\ Fault
    /\ job' = [job EXCEPT ![j] = AfterRebuild(j)]
    /\ UNCHANGED <<image, tables, matches, lock, writer, changes>>

\* release_embedding_job_lock removes the lock if it still is the job's own.
Release(j) ==
    /\ job[j].pc = "release"
    /\ lock' = IF lock = j THEN None ELSE lock
    /\ job' = [job EXCEPT ![j] = Idle]
    /\ UNCHANGED <<image, tables, matches, writer, changes, faults>>

\* The process dies: PostgreSQL rolls back, redis keeps the lock.
Crash(j) ==
    /\ job[j].pc # "idle" /\ Fault
    /\ job' = [job EXCEPT ![j] = Idle]
    /\ UNCHANGED <<image, tables, matches, lock, writer, changes>>

\* EMBEDDING_JOB_LOCK_TTL_SECONDS have passed.
ExpireLock ==
    /\ lock # None
    /\ LockOutlived \/ job[lock].pc = "idle" \/ job[lock].kind = "deploy"
    /\ lock' = None
    /\ UNCHANGED <<image, tables, matches, job, writer, changes, faults>>

-----------------------------------------------------------------------------
(* The specification.                                                        *)

JobStep(j) ==
    Collect(j) \/ Download(j) \/ Record(j) \/ CommitBatch(j) \/
    RebuildDelete(j) \/ RebuildRank(j) \/ RebuildSwap(j) \/ Release(j)

Next ==
    \/ \E s \in Spots, u \in Urls \cup {None} : WriterTouch(s, u)
    \/ WriterCommit \/ WriterAborts \/ ExpireLock
    \/ \E j \in Jobs :
         \/ \E kind \in {"photo", "gallery"}, retry \in Retries : Start(j, kind, retry)
         \/ StartDeploy(j) \/ JobStep(j)
         \/ JobFails(j) \/ RebuildFails(j) \/ Crash(j)

Spec == Init /\ [][Next]_vars

\* A started job goes on, a transaction commits, redis expires a dead job's lock,
\* and the daily workflow gets to run in spite of deploys and of the admin's jobs.
Fairness ==
    /\ \A j \in Jobs : WF_vars(JobStep(j))
    /\ WF_vars(WriterCommit) /\ WF_vars(ExpireLock)
    /\ SF_vars(\E j \in Jobs : Start(j, "photo", {}))

FairSpec == Spec /\ Fairness

-----------------------------------------------------------------------------
(* Properties.                                                               *)

PCs == {"idle", "collect", "download", "record", "rebuild", "rank", "swap", "release"}
TargetRecords == [spot : Spots, url : Urls]
Outcomes == [spot : Spots, url : Urls, ok : BOOLEAN]

Slot == [pc : PCs, kind : Kinds, retry : Retries, todo : Seq(TargetRecords),
         batch : Seq(Outcomes), writes : SUBSET Outcomes, ranked : SUBSET Spots,
         beaten : BOOLEAN]

\* Every variable has its type, and no transaction of a job is open outside record.
TypeOK ==
    /\ image \in [Spots -> Urls \cup {None, Absent}]
    /\ embedded \in [Spots -> Urls \cup {None}] /\ gallery \in [Spots -> Urls \cup {None}]
    /\ failure \in [Spots -> {None, "source_changed", "failed"}]
    /\ matches \subseteq Spots /\ lock \in Jobs \cup {None}
    /\ job \in [Jobs -> Slot]
    /\ \A j \in Jobs : job[j].writes # {} => job[j].pc = "record"
    /\ DOMAIN writer \subseteq Spots
    /\ \A s \in DOMAIN writer : writer[s] \in Urls \cup {None}
    /\ changes \in 0..MaxChanges /\ faults \in 0..MaxFaults

\* No row of an index is ever of another image than the one its spot shows,
\* whatever a job was embedding when the image changed: the agent's search by photo
\* (agent/repositories.py) and the home feed take a row without comparing images.
IndexIsCurrent ==
    \A s \in Spots : /\ embedded[s] # None => embedded[s] = image[s]
                     /\ gallery[s] # None => gallery[s] = image[s]

\* The matches the feed shows: it joins them with the spots and with the embedding
\* of their image.
Live == {s \in matches : image[s] \in Urls /\ embedded[s] = image[s]}

\* The list of retries is exact, and the weekly repair reads nothing but it: no
\* spot with a current embedding is on it, and a spot that loses its embedding,
\* or waits for a retry, stays on it until it is embedded or has no image any
\* more.  (Unless two jobs run because one outlived its lock.)
RetryListHolds ==
    /\ [](\A s \in Spots : failure[s] # None => image[s] \in Urls /\ embedded[s] # image[s])
    /\ [][\A s \in Spots :
              (embedded[s] # None \/ failure[s] # None)
              /\ image'[s] \in Urls /\ embedded'[s] = None => failure'[s] # None]_vars

\* Once images and faults are quiet every image that can be is embedded, and a post
\* with enough spots near it is shown with a full row of matches, whichever
\* rebuilds failed or collided.  Spots that only their gallery has a row of are
\* left out: a rebuild ranks them, the feed does not show them.
PhotosCatchUp ==
    /\ <>[](\A s \in Spots : image[s] \in Urls \ Dead => embedded[s] = image[s])
    /\ <>[]((/\ Cardinality(Candidates) >= MatchCount
             /\ \A s \in Candidates : embedded[s] = image[s])
               => Cardinality(Live) >= MatchCount)
=============================================================================
