---- MODULE SpotDetail ----
(***************************************************************************)
(* The detail cache of one spot: backend/app/modules/spots/services/       *)
(* detail.py, the route and the jobs that write the same rows.             *)
(*                                                                         *)
(* The text of a cell is the version of KTO's content it was copied from,  *)
(* and a version is named by the instant KTO was modified.  A cell that    *)
(* was never filled is Empty.  spots.modified_time is therefore the last   *)
(* version the daily sync copied.  Every redis, SQL and KTO call is one    *)
(* step; what runs between two awaits belongs to the step before it.       *)
(***************************************************************************)
EXTENDS Integers

CONSTANTS
    Requests,        \* slots for requests and the background tasks they leave
    Kinds,           \* callers that may arrive: see AllKinds
    None,            \* "no key", "no row", "not answered yet"
    DetailTtl,       \* _DETAIL_TTL, in units of the model's clock
    BlankOverview,   \* versions of KTO's content whose overview is blank
    Hidden,          \* versions of KTO's content with showflag 0
    Prewarms,        \* the detail-prewarm job runs
    Galleries,       \* the gallery job runs
    ModifyMidFetch,  \* KTO may be modified between a fetch and its last write
    LockOutlived,    \* the 20s lock may expire under a refresher still running
    MaxTime, MaxFaults   \* bounds: the clock, and how many calls may fail

AllKinds == {"complete", "deferred", "agent"}
Ops == {"common", "images", "intro"}
Empty == 0
NeverCached == 0                \* _NEVER_CACHED
Failed == -1

ASSUME DetailAssumption ==
    /\ Kinds \subseteq AllKinds
    /\ DetailTtl \in Nat \ {0}
    /\ MaxTime \in Nat /\ MaxFaults \in Nat
    /\ {Prewarms, Galleries, ModifyMidFetch, LockOutlived} \subseteq BOOLEAN
    /\ None \notin Int
    /\ None \notin Requests
    /\ None \notin [common: Nat, intro: Nat, cachedAt: Nat]
    /\ None \notin [common: Nat, intro: Nat, images: Nat, cachedAt: Nat]

VARIABLES
    now,      \* the wall clock
    kto,      \* the version KTO serves
    spot,     \* spots.modified_time (the row's version)
    syncing,  \* the version the daily sync read and has not written, or None
    detail,   \* the spot_details row, or None
    images,   \* the version of the spot_images rows
    front,    \* redis spotdetail:v2, or None
    lock,     \* redis spotdetail:refresh:v1: the slot whose token it holds
    backoff,  \* redis spotdetail:refresh-backoff:v1 is set
    req,      \* the program counter and locals of every slot
    prewarm,  \* the prewarm job
    gallery,  \* the gallery job
    faults    \* calls that failed and processes that died so far

env == <<now, kto, spot, syncing>>
store == <<detail, images>>
redis == <<front, lock, backoff>>
jobs == <<prewarm, gallery>>
vars == <<env, store, redis, req, jobs, faults>>

Row == [common: Nat, intro: Nat, cachedAt: Nat]
Cache == [common: Nat, intro: Nat, images: Nat, cachedAt: Nat]

Idle == [pc |-> "idle", kind |-> "complete", mod |-> 0, cache |-> None,
         frontFresh |-> FALSE, got |-> [o \in Ops |-> None],
         held |-> FALSE, status |-> None]

JobIdle == [pc |-> "idle", got |-> Empty]

----------------------------------------------------------------------------
(* Predicates of detail.py.                                                *)

\* Slip: age alone decides, modified_time is forgotten.
IsFreshByAge(cachedAt, mod) == now - cachedAt < DetailTtl

IsFresh(cachedAt, mod) == now - cachedAt < DetailTtl /\ cachedAt >= mod

Serves(cache, kind) ==
    cache # None /\ (kind = "agent" => cache.intro # Empty)

Answers(r) ==
    /\ Serves(req[r].cache, req[r].kind)
    /\ IsFresh(req[r].cache.cachedAt, req[r].mod)

Complete(got) == \A o \in Ops : got[o] # Failed

\* _merge_with_cache: what the reply shows once `got' has been settled.
Merged(got, cache) ==
    LET cell(o) == IF got[o] # Failed THEN got[o]
                   ELSE IF cache = None THEN Empty ELSE cache[o]
    IN [common |-> cell("common"), intro |-> cell("intro"),
        images |-> cell("images"),
        cachedAt |-> IF Complete(got) THEN now
                     ELSE IF cache = None THEN NeverCached ELSE cache.cachedAt]

\* Slips: the upsert writes a failed cell as it came, or as NULL.
UpsertedRaw(got) ==
    [common |-> got["common"], intro |-> got["intro"], cachedAt |-> now]

UpsertedErasing(got) ==
    LET cell(o) == IF got[o] = Failed THEN Empty ELSE got[o]
    IN [common |-> cell("common"), intro |-> cell("intro"),
        cachedAt |-> IF Complete(got) THEN now ELSE NeverCached]

\* _persist_detail: the row after the upsert of the cells that were fetched.
Upserted(got) ==
    LET cell(o) == IF got[o] # Failed THEN got[o]
                   ELSE IF detail = None THEN Empty ELSE detail[o]
    IN [common |-> cell("common"), intro |-> cell("intro"),
        cachedAt |-> IF Complete(got) THEN now
                     ELSE IF detail = None THEN NeverCached ELSE detail.cachedAt]

Fault == faults < MaxFaults /\ faults' = faults + 1

Goto(r, pc) == req' = [req EXCEPT ![r].pc = pc]

\* Where an exception leaves load_spot_detail: refresh_spot_detail catches it,
\* any other caller answers an error.
Raise(r) == req' = [req EXCEPT ![r] =
    IF @.kind = "refresh" THEN [@ EXCEPT !.pc = "setBackoff"] ELSE Idle]

Reply(r, status, cache) ==
    req' = [req EXCEPT ![r].pc = "reply", ![r].status = status,
                       ![r].cache = cache]

----------------------------------------------------------------------------
(* load_spot_detail, one await at a time.                                  *)

Begin(r, kind) ==
    /\ req[r].pc = "idle"
    /\ req' = [req EXCEPT ![r] = [Idle EXCEPT !.pc = "context", !.kind = kind]]
    /\ UNCHANGED <<env, store, redis, jobs, faults>>

\* _load_spot_context: a hidden spot is a 404.
LoadContext(r) ==
    /\ req[r].pc = "context"
    /\ IF spot \in Hidden THEN Raise(r)
       ELSE req' = [req EXCEPT ![r].pc = "front", ![r].mod = spot]
    /\ UNCHANGED <<env, store, redis, jobs, faults>>

FrontRead(r, cache) ==
    LET fresh == cache # None /\ IsFresh(cache.cachedAt, req[r].mod)
    IN req' = [req EXCEPT
         ![r].cache = cache, ![r].frontFresh = fresh,
         ![r].pc = IF fresh /\ Serves(cache, req[r].kind) THEN "answer" ELSE "row"]

\* _redis_get_detail: an error reads as a miss.
GetFront(r) ==
    /\ req[r].pc = "front"
    /\ \/ FrontRead(r, front) /\ UNCHANGED faults
       \/ FrontRead(r, None) /\ Fault
    /\ UNCHANGED <<env, store, redis, jobs>>

\* _read_cached_detail, first select.  Without a row the images are not used.
ReadRow(r) ==
    /\ req[r].pc = "row"
    /\ IF detail = None THEN Goto(r, "answer")
       ELSE req' = [req EXCEPT ![r].pc = "images",
              ![r].cache = [common |-> detail.common, intro |-> detail.intro,
                            images |-> Empty, cachedAt |-> detail.cachedAt]]
    /\ UNCHANGED <<env, store, redis, jobs, faults>>

\* _read_cached_detail, second select: a later READ COMMITTED snapshot.
ReadImages(r) ==
    /\ req[r].pc = "images"
    /\ req' = [req EXCEPT ![r].pc = "answer", ![r].cache.images = images]
    /\ UNCHANGED <<env, store, redis, jobs, faults>>

\* The cache answers; a copy that came from PostgreSQL goes to redis first.
AnswerFromCache(r) ==
    /\ req[r].pc = "answer"
    /\ Answers(r)
    /\ IF req[r].frontFresh THEN Reply(r, "fresh", req[r].cache)
       ELSE Goto(r, "setFront")
    /\ UNCHANGED <<env, store, redis, jobs, faults>>

\* defer_refresh: a stale copy, or the backoff key decides the status.
AnswerDeferred(r) ==
    /\ req[r].pc = "answer" /\ req[r].kind = "deferred"
    /\ ~Answers(r)
    /\ \/ /\ req[r].cache # None
          /\ Reply(r, "stale", req[r].cache) /\ UNCHANGED faults
       \/ /\ req[r].cache = None
          /\ \/ /\ Reply(r, IF backoff THEN "unavailable" ELSE "pending", None)
                /\ UNCHANGED faults
             \/ Reply(r, "pending", None) /\ Fault
    /\ UNCHANGED <<env, store, redis, jobs>>

StartFetch(r) ==
    /\ req[r].pc = "answer" /\ req[r].kind # "deferred"
    /\ ~Answers(r)
    /\ req' = [req EXCEPT ![r].pc = "fetch", ![r].got = [o \in Ops |-> None]]
    /\ UNCHANGED <<env, store, redis, jobs, faults>>

\* One of the three KTO calls that asyncio.gather runs settles.
FetchOp(r, o) ==
    /\ req[r].pc = "fetch" /\ req[r].got[o] = None
    /\ \/ req' = [req EXCEPT ![r].got[o] = kto] /\ UNCHANGED faults
       \/ req' = [req EXCEPT ![r].got[o] = Failed] /\ Fault
    /\ UNCHANGED <<env, store, redis, jobs>>

Unavailable(r) ==
    Reply(r, IF req[r].cache = None THEN "unavailable" ELSE "stale", req[r].cache)

\* The 8s budget runs out with a call still open.
FetchTimeout(r) ==
    /\ req[r].pc = "fetch"
    /\ \E o \in Ops : req[r].got[o] = None
    /\ Fault
    /\ Unavailable(r)
    /\ UNCHANGED <<env, store, redis, jobs>>

FetchSettled(r) ==
    /\ req[r].pc = "fetch"
    /\ \A o \in Ops : req[r].got[o] # None
    /\ IF \A o \in Ops : req[r].got[o] = Failed THEN Unavailable(r)
       ELSE Goto(r, "persist")
    /\ UNCHANGED <<env, store, redis, jobs, faults>>

\* _persist_detail: one transaction.  The copy for redis is stamped on return.
Persist(r) ==
    LET got == req[r].got
        merged == Merged(got, req[r].cache)
    IN /\ req[r].pc = "persist"
       /\ detail' = Upserted(got)
       /\ images' = IF got["images"] # Failed THEN got["images"] ELSE images
       /\ IF Complete(got)
          THEN req' = [req EXCEPT ![r].pc = "setFront", ![r].cache = merged]
          ELSE Reply(r, "stale", merged)
       /\ UNCHANGED <<env, redis, jobs, faults>>

\* _redis_set_detail: an error is only logged.
SetFront(r) ==
    /\ req[r].pc = "setFront"
    /\ \/ front' = req[r].cache /\ UNCHANGED faults
       \/ front' = front /\ Fault
    /\ Reply(r, "fresh", req[r].cache)
    /\ UNCHANGED <<env, store, lock, backoff, jobs>>

\* A SQL statement of load_spot_detail raises.
SqlFails(r) ==
    /\ req[r].pc \in {"context", "row", "images", "persist"}
    /\ Fault
    /\ Raise(r)
    /\ UNCHANGED <<env, store, redis, jobs>>

\* The answer leaves.  get_spot schedules a refresh behind a deferred one, and
\* refresh_spot_detail looks at the status of its own load.
Return(r) ==
    /\ req[r].pc = "reply"
    /\ LET next ==
         CASE req[r].kind = "deferred" /\ req[r].status \in {"pending", "stale"} ->
                [Idle EXCEPT !.pc = "backoff", !.kind = "refresh"]
           [] req[r].kind = "refresh" ->
                [Idle EXCEPT !.kind = "refresh", !.held = req[r].held,
                   !.pc = IF req[r].status = "fresh" THEN "unlock" ELSE "setBackoff"]
           [] OTHER -> Idle
       IN req' = [req EXCEPT ![r] = next]
    /\ UNCHANGED <<env, store, redis, jobs, faults>>

----------------------------------------------------------------------------
(* refresh_spot_detail around load_spot_detail.                            *)

\* _refresh_in_backoff: an error reads as "not in backoff".
CheckBackoff(r) ==
    /\ req[r].pc = "backoff"
    /\ \/ /\ req' = [req EXCEPT ![r] =
               IF backoff THEN Idle ELSE [@ EXCEPT !.pc = "lock"]]
          /\ UNCHANGED faults
       \/ Goto(r, "lock") /\ Fault
    /\ UNCHANGED <<env, store, redis, jobs>>

\* _acquire_refresh_lock: SET NX.  An error lets the refresh run without a token.
AcquireLock(r) ==
    /\ req[r].pc = "lock"
    /\ \/ /\ lock = None
          /\ lock' = r
          /\ req' = [req EXCEPT ![r].pc = "context", ![r].held = TRUE]
          /\ UNCHANGED faults
       \/ /\ lock # None
          /\ req' = [req EXCEPT ![r] = Idle]
          /\ UNCHANGED <<lock, faults>>
       \/ Goto(r, "context") /\ Fault /\ UNCHANGED lock
    /\ UNCHANGED <<env, store, front, backoff, jobs>>

SetBackoff(r) ==
    /\ req[r].pc = "setBackoff"
    /\ \/ backoff' = TRUE /\ UNCHANGED faults
       \/ backoff' = backoff /\ Fault
    /\ Goto(r, "unlock")
    /\ UNCHANGED <<env, store, front, lock, jobs>>

\* Slip: the lock is deleted without comparing tokens.
UnlockAny(r) ==
    /\ req[r].pc = "unlock"
    /\ lock' = None
    /\ req' = [req EXCEPT ![r] = Idle]
    /\ UNCHANGED <<env, store, front, backoff, jobs, faults>>

\* _release_refresh_lock: compare-and-delete of the refresher's own token.
Unlock(r) ==
    /\ req[r].pc = "unlock"
    /\ \/ /\ lock' = IF req[r].held /\ lock = r THEN None ELSE lock
          /\ UNCHANGED faults
       \/ req[r].held /\ lock' = lock /\ Fault
    /\ req' = [req EXCEPT ![r] = Idle]
    /\ UNCHANGED <<env, store, front, backoff, jobs>>

\* The process dies: no finally block runs, the redis keys stay.
Crash(r) ==
    /\ req[r].pc # "idle"
    /\ Fault
    /\ req' = [req EXCEPT ![r] = Idle]
    /\ UNCHANGED <<env, store, redis, jobs>>

----------------------------------------------------------------------------
(* Redis expiry.                                                           *)

ExpireFront ==
    /\ front # None
    /\ front' = None
    /\ UNCHANGED <<env, store, lock, backoff, req, jobs, faults>>

\* Slip: SET NX without EX.
ExpireLockNever == FALSE /\ UNCHANGED vars

ExpireLock ==
    /\ lock # None
    /\ LockOutlived \/ ~(\E r \in Requests : lock = r /\ req[r].held)
    /\ lock' = None
    /\ UNCHANGED <<env, store, front, backoff, req, jobs, faults>>

ExpireBackoff ==
    /\ backoff
    /\ backoff' = FALSE
    /\ UNCHANGED <<env, store, front, lock, req, jobs, faults>>

----------------------------------------------------------------------------
(* The jobs.                                                               *)

\* collect_prewarm_targets picks spots without an overview.
PrewarmCollect ==
    /\ Prewarms /\ prewarm.pc = "idle"
    /\ detail # None => detail.common \in {Empty} \cup BlankOverview
    /\ prewarm' = [prewarm EXCEPT !.pc = "fetch"]
    /\ UNCHANGED <<env, store, redis, req, gallery, faults>>

\* fetch_detail_common: a blank overview or a failed call skips the spot.
PrewarmFetch ==
    /\ prewarm.pc = "fetch"
    /\ \/ /\ prewarm' = IF kto \in BlankOverview THEN JobIdle
                        ELSE [pc |-> "persist", got |-> kto]
          /\ UNCHANGED faults
       \/ prewarm' = JobIdle /\ Fault
    /\ UNCHANGED <<env, store, redis, req, gallery>>

\* Slip: an overview that is there is kept, and cached_at stamped all the same.
PrewarmPersistKeeping ==
    /\ prewarm.pc = "persist"
    /\ detail' = IF detail = None
                 THEN [common |-> prewarm.got, intro |-> Empty, cachedAt |-> now]
                 ELSE [detail EXCEPT !.cachedAt = now]
    /\ prewarm' = JobIdle
    /\ UNCHANGED <<env, images, redis, req, gallery, faults>>

\* persist_detail_common: only the common cells, and cached_at.
PrewarmPersist ==
    /\ prewarm.pc = "persist"
    /\ detail' = [common |-> prewarm.got, cachedAt |-> now,
                  intro |-> IF detail = None THEN Empty ELSE detail.intro]
    /\ prewarm' = JobIdle
    /\ UNCHANGED <<env, images, redis, req, gallery, faults>>

\* _gallery_images: a spot whose KTO call fails keeps its images.
GalleryFetch ==
    /\ Galleries /\ gallery.pc = "idle"
    /\ gallery' = [pc |-> "persist", got |-> kto]
    /\ UNCHANGED <<env, store, redis, req, prewarm, faults>>

\* embed_gallery_spots replaces the images and the batch commits.
GalleryPersist ==
    /\ gallery.pc = "persist"
    /\ images' = gallery.got
    /\ gallery' = [pc |-> "invalidate", got |-> Empty]
    /\ UNCHANGED <<env, detail, redis, req, prewarm, faults>>

\* invalidate_spot_detail_cache; an error, or the job dying, leaves the key.
GalleryInvalidate ==
    /\ gallery.pc = "invalidate"
    /\ \/ front' = None /\ UNCHANGED faults
       \/ front' = front /\ Fault
    /\ gallery' = JobIdle
    /\ UNCHANGED <<env, store, lock, backoff, req, prewarm>>

----------------------------------------------------------------------------
(* KTO, the daily sync and the clock.                                      *)

\* Somebody holds content of KTO that is not yet where it will be read from.
MidFetch ==
    \/ \E r \in Requests : req[r].pc \in {"fetch", "persist", "setFront"}
    \/ prewarm.pc = "persist"
    \/ gallery.pc = "persist"

KtoModify ==
    /\ now < MaxTime
    /\ ModifyMidFetch \/ ~MidFetch
    /\ now' = now + 1 /\ kto' = now + 1
    /\ UNCHANGED <<spot, syncing, store, redis, req, jobs, faults>>

Tick ==
    /\ now < MaxTime
    /\ now' = now + 1
    /\ UNCHANGED <<kto, spot, syncing, store, redis, req, jobs, faults>>

SyncRead ==
    /\ syncing = None /\ spot < kto
    /\ syncing' = kto
    /\ UNCHANGED <<now, kto, spot, store, redis, req, jobs, faults>>

\* upsert_spots: only a later modified_time overwrites the row.
SyncWrite ==
    /\ syncing # None
    /\ spot' = IF spot < syncing THEN syncing ELSE spot
    /\ syncing' = None
    /\ UNCHANGED <<now, kto, store, redis, req, jobs, faults>>

----------------------------------------------------------------------------

Init ==
    /\ now = 1 /\ kto = 1 /\ spot = 1 /\ syncing = None
    /\ detail = None /\ images = Empty
    /\ front = None /\ lock = None /\ backoff = FALSE
    /\ req = [r \in Requests |-> Idle]
    /\ prewarm = JobIdle /\ gallery = JobIdle
    /\ faults = 0

LoadStep(r) ==
    \/ LoadContext(r) \/ GetFront(r) \/ ReadRow(r) \/ ReadImages(r)
    \/ AnswerFromCache(r) \/ AnswerDeferred(r) \/ StartFetch(r)
    \/ \E o \in Ops : FetchOp(r, o)
    \/ FetchTimeout(r) \/ FetchSettled(r) \/ Persist(r) \/ SetFront(r)
    \/ SqlFails(r) \/ Return(r)

RefreshStep(r) ==
    CheckBackoff(r) \/ AcquireLock(r) \/ SetBackoff(r) \/ Unlock(r)

RequestStep(r) ==
    (\E kind \in Kinds : Begin(r, kind)) \/ LoadStep(r) \/ RefreshStep(r)

ExpireStep == ExpireFront \/ ExpireLock \/ ExpireBackoff

JobStep ==
    \/ PrewarmCollect \/ PrewarmFetch \/ PrewarmPersist
    \/ GalleryFetch \/ GalleryPersist \/ GalleryInvalidate

SourceStep == KtoModify \/ Tick \/ SyncRead \/ SyncWrite

Next ==
    \/ \E r \in Requests : RequestStep(r) \/ Crash(r)
    \/ ExpireStep \/ JobStep \/ SourceStep

Spec == Init /\ [][Next]_vars

\* Clients keep polling and the event loop runs every task; redis drops expired
\* keys; the daily sync runs.  Nobody promises that KTO changes or time passes
\* a bound, that a job runs, or that a call fails.
Fairness ==
    /\ \A r \in Requests : WF_vars(RequestStep(r))
    /\ WF_vars(ExpireLock) /\ WF_vars(ExpireBackoff)
    /\ WF_vars(SyncRead) /\ WF_vars(SyncWrite)

FairSpec == Spec /\ Fairness

----------------------------------------------------------------------------
(* Properties.                                                             *)

Version == Nat
Maybe(S) == S \cup {None}

PC == {"idle", "context", "front", "row", "images", "answer", "fetch", "persist",
       "setFront", "reply", "backoff", "lock", "setBackoff", "unlock"}

Slot == [pc : PC, kind : AllKinds \cup {"refresh"}, mod : Version,
         cache : Maybe(Cache), frontFresh : BOOLEAN,
         got : [Ops -> Version \cup {Failed, None}], held : BOOLEAN,
         status : Maybe({"fresh", "stale", "pending", "unavailable"})]

\* The type of every variable.
TypeOK ==
    /\ now \in Nat /\ kto \in Version /\ spot \in Version
    /\ syncing \in Maybe(Version)
    /\ detail \in Maybe(Row) /\ images \in Version
    /\ front \in Maybe(Cache) /\ lock \in Maybe(Requests) /\ backoff \in BOOLEAN
    /\ req \in [Requests -> Slot]
    /\ prewarm \in [pc : {"idle", "fetch", "persist"}, got : Version]
    /\ gallery \in [pc : {"idle", "persist", "invalidate"}, got : Version]
    /\ faults \in Nat

RepliesFresh(r) == req[r].pc = "reply" /\ req[r].status = "fresh"

\* An answer labelled "fresh" shows three cells, each of them KTO's content at or
\* after the modified_time the request compared with: through partial fetches,
\* merges, the redis copy, late readers and concurrent refreshers, no path of
\* load_spot_detail stamps a cached_at over a cell that is older than it.
FreshReplyIsCurrent ==
    \A r \in Requests : RepliesFresh(r) =>
        \A o \in Ops : req[r].cache[o] >= req[r].mod

\* With the prewarm and the gallery job writing beside the readers, the overview of
\* a fresh answer is still never older than the modified_time it was checked with,
\* and a caller that asked for the intro never gets a fresh answer without one,
\* though prewarm stamps cached_at on rows that have none and these reach redis.
JobsKeepCurrent ==
    \A r \in Requests : RepliesFresh(r) =>
        /\ req[r].cache.common >= req[r].mod
        /\ req[r].kind = "agent" => req[r].cache.intro # Empty

\* While no lock expires under its owner, two refreshers never both hold a token,
\* though others may run without one when redis failed them.
RefreshExclusive ==
    \A r, s \in Requests : req[r].held /\ req[s].held => r = s

\* Only a refresher's own step, or expiry, takes its lock away: one that overran
\* its 20s never deletes the lock of the refresher that came after it.
LockRemovedByOwner ==
    [][\A r \in Requests :
          lock = r /\ lock' # r /\ req' # req => req'[r] # req[r]]_vars

\* A quota that cuts one KTO operation off never empties a cell PostgreSQL has.
CellsSurvive ==
    [][/\ detail # None => /\ detail' # None
                           /\ detail.common # Empty => detail'.common # Empty
                           /\ detail.intro # Empty => detail'.intro # Empty
       /\ images # Empty => images' # Empty]_vars

\* Once KTO stops failing and changing, deferred polling alone leaves the spot with
\* a row that is fresh for its final modified_time: no lock left by a dead process,
\* no backoff, no lost refresh and no redis copy keeps it stale for ever.
SettlesFresh ==
    <>[](spot \notin Hidden =>
            detail # None /\ IsFresh(detail.cachedAt, spot))

====
