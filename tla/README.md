# PicTrip in TLA+

PicTrip finds, for a photo or a place abroad, places in Korea that look like it.
This directory holds the specifications of the parts of it that keep state and
run beside one another, the TLC runs that check them on small instances, and the
TLAPS proofs of what holds for instances of any size. Paths below are relative
to the root of the repository; `agent/`, `spots/`, `users/`, `feed/`, `images/`
and `map/` are modules of `backend/app/modules`.

- [The system](#the-system)
- [The modules](#the-modules) and [the runs](#the-runs)
- [Spot detail cache](#spot-detail-cache-spotdetail)
- [KTO sync](#kto-sync-ktosync)
- [Photo indexes and matches](#photo-indexes-and-matches-photoindex)
- [Accounts, keys, saved spots](#accounts-keys-and-saved-spots-users)
- [Home feed, explore feed, festivals](#home-feed-explore-feed-and-festivals-homefeed)
- [Agent: what a turn finds](#the-agent-what-a-turn-finds-travelturns)
- [Agent: how a turn is streamed](#the-agent-how-a-turn-is-streamed-chatturn-chatclient)
- [Batch jobs](#batch-jobs-batchjobs)
- [Where the code and its documents part](#where-the-code-and-its-documents-part)
- [What is proved](#what-is-proved)
- [What is only model-checked](#what-is-only-model-checked) and [what is not modelled](#not-modelled)

## The system

Five units and their shared stores:

| Unit | What it is | State it keeps |
|---|---|---|
| `backend/` | FastAPI service, modules users, spots, feed, images, map, admin, agent | PostgreSQL (`spots`, `spot_details`, `spot_images`, `spot_embeddings`, `spot_embeddings_gallery`, `embedding_failures`, `overseas_spots`, `overseas_spot_matches`, `users`, `user_saved_spots`, ...), redis (caches, locks, the deny list) |
| `pipeline/` | ETL commands run by scheduled workflows | `spots`, `sync_runs`, `overseas_spots` |
| `mobile/` | Expo app | zustand stores, the query cache, secure storage |
| `workers/img-proxy` | image proxy at the edge | an edge cache |
| `deploy/`, workflows | the api host's deploy script, cron | a state file; the containers |

How they meet: the pipeline copies KTO's catalogue into `spots`; the backend
fetches details from KTO when a reader asks and caches them in PostgreSQL and
redis; a PostgreSQL trigger throws embeddings away when a sync changes a photo;
jobs embed what is missing and rebuild the matches the feed shows; other jobs
write the signals that rank spots; the app reads the feeds, saves spots under an
account, and talks to the agent over a server-sent event stream, whose turns call
an LLM and the backend's own tables.

### Inventory

For each component its state, its operations, what is hard about it, and what
makes it correct. The last column says where that is modelled; the hazards, each
at its line, are in `PROJECT.json`.

| Component | State | Operations | Hard because | Correct when | Here |
|---|---|---|---|---|---|
| Spot detail cache (`spots/services/detail.py`, `prewarm_job.py`) | rows of one spot, redis copy, refresh lock, backoff | lookup, deferred lookup, background refresh, prewarm, gallery write, sync write | two snapshots and a cache read one after another; partial fetches; a lock with a TTL; background tasks that die | a fresh answer is not older than the modification it was checked with; nothing stored is erased; the row becomes fresh in the end | `SpotDetail` |
| KTO sync (`pipeline/sync`) | `spots`, watermark in `sync_runs` | daily run, full run, page upsert, soft delete | the catalogue changes between pages; runs fail, are killed, overlap | nothing modified is skipped by the watermark; nothing listed is hidden; runs catch up | `KtoSync` |
| Image validation (`sync/images.py`) | `spots.first_image_url` | rewrite or clear dead photos | runs beside embedding jobs | its changes reach the indexes | a writer of `PhotoIndex` |
| Photo indexes (`images/`, `feed/services/matching.py`, the trigger) | embeddings, gallery centroids, retry list, matches, a redis lock | embed, retry, gallery, rebuild, invalidate | minutes between reading an address and writing its row; jobs outlive locks; rebuilds collide | no row of an outdated photo; no photo forgotten; the feed has matches | `PhotoIndex` |
| Overseas posts (`pipeline/overseas`, `feed/embedding_job.py`) | `overseas_spots`, its matches | ETL per country, descriptions, embedding | commits one country at a time; a job outlives its workflow | no match by an old photo; a failed month is made up for | `OverseasPosts` |
| Explore feed (`feed/services/posts.py`, `interleave.py`) | none of its own | pages by seed and cursor, shuffle, spreading | posts come and go between pages | every post that stays is seen once | `ExplorePosts` |
| Home feed, channels, map (`feed/services`, `map/`) | redis lists | channels, rankings, recommendations, nearby | lists made of lists; pools run dry; flags change | no card twice, no hole, of the right kind | `HomeFeed`, `Spots` |
| Festivals (`feed/services/kto_channels.py`) | redis lists with a date, a guard per process | read, refresh in the background, warm | the day turns during a fetch; listings shift; restarts | nothing served is over; one refresh; the new day's list comes | `FestivalFeed` |
| Signal jobs (`buzz_job`, `visual_job`, `sync_concentration`) | `spot_buzz`, `spot_visual`, `spot_concentration` and its ledger | upserts in a loop | pages skip, names are ambiguous, one post is returned twice | signals are of the right spot and counted once | `ConcentrationSync`, `WeeklySignals` |
| Chat turn (`agent/services/chat.py`, `toolloop.py`, `emitter.py`) | two tasks and a queue | opening, decision rounds, tools, writer, events | timeouts at every await, caps, the client leaves | the event stream's order; every tool shown; rows found are shown; it ends within a budget | `ChatTurn` |
| Agent tools and retrieval (`agent/tools`, `services/retrieve.py`, `resolve.py`, `refine.py`, `suggest.py`, `routing.py`) | the intent the app sends back | name resolution, search with relaxations, itinerary, chips | ladders of fallbacks | what is found is what was asked for, where it was asked for; a chip changes one condition | `RegionHints` to `TravelTurns` |
| Chat client (`chat-store.ts`, `travel.tsx`, `sse.ts`) | the list of turns | ask, retry, new chat, events of any stream | streams outlive their turns | turns are never mixed, stranded or reopened | `ChatClient` |
| Sessions and accounts (`security/jwt.py`, `users/`, `auth-store.ts`, `api-client.ts`) | tokens, deny list, user rows, a kept key set | login, refresh, retry on expiry, logout, deletion | refreshes are not single-flight; first logins overlap; keys rotate | one account for a person; a deletion ends every session; keys are followed | `Accounts`, `ProviderKeys` |
| Saved spots (`saved.py`, `features/saved`) | rows, query cache, bookmarks | save, unsave, optimistic removal | taps faster than answers | the list settles on what the server has | `SavedSpots` |
| Consents | server's record, device's flag | decide, upload | two devices | a withdrawal stays withdrawn | not modelled |
| Rate limit (`web/ratelimit.py`) | a counter in redis | count | two calls, one crash | a counter expires | not modelled |
| Deploy (`deploy/api-host/deploy.sh`) | state file, containers, schema revision | deploy, smoke, roll back | killed between steps | image and schema fit each other | its rebuild in `PhotoIndex` |
| Admin, clients of Naver and Kakao, image proxy, screens | little or none | reads | | | [not modelled](#not-modelled) |

## The modules

| Module | Models |
|---|---|
| `SpotDetail` | the detail cache of one spot and everything that writes its rows |
| `KtoSync` | the copy of the catalogue, both runs |
| `PhotoIndex` | embeddings, galleries, retry list, matches, and the writers beside them |
| `Accounts` | accounts, tokens, the deny list, the app's session store and its interceptor |
| `ProviderKeys` | the key set (JWKS) a process keeps of Kakao's or Apple's login |
| `SavedSpots` | a user's saved spots at the server, in the query cache and on the bookmarks |
| `Users` | composes the three |
| `FestivalFeed` | the festivals of KTO, their two caches and the refresh |
| `ExplorePosts` | the pages of the explore feed |
| `Spots` | the rows of `spots` as queries read them, and the two tables of categories |
| `HomeFeed` | the home screen and the map; composes the feeds |
| `RegionHints`, `Itinerary`, `SpotSearch`, `PlaceResolve`, `AgentTools`, `TurnIntent` | operators: regions, plans, queries and their relaxations, places, the sixteen tools, intents and chips; each extends the one before |
| `ToolDialogue` | what the model is told of a turn, in the forms of both services |
| `TravelTurns` | the turns of a conversation over all of these |
| `ChatEvents` | the events of a chat stream, what a reader holds after each, and which may come next |
| `ChatStream` | the abstract specification: all the streams the server may send |
| `ChatTurn` | the server's side; checked to implement `ChatStream` |
| `ChatClient` | the app's side; checked against every stream of `ChatStream` |
| `ConcentrationSync`, `WeeklySignals`, `OverseasPosts` | the daily, weekly and monthly jobs |
| `BatchJobs` | composes the three |
| `MC*` | constants for TLC |
| `SpotDetailProofs`, `KtoSyncProofs`, `JobsProofs`, `UsersProofs`, `HomeFeedProofs`, `TravelTurnsProofs`, `ChatProofs` | theorems: each about the module of its name, `JobsProofs` about `PhotoIndex` and `BatchJobs`, `ChatProofs` about `ChatTurn` and `ChatClient` |
| `SpotsProofs` | lemmas on lists of spots that the home feed and the agent share |

In every module an action is what runs between two awaits (or, in the pipeline,
two statements that another process can come between); a request's locals are a
record that walks through its handler; every way of failing (an exception, a
killed process, a timeout, a lost request) is an action whose number of uses is
bounded by a constant. A definition that differs from the one after it by one
idea, and is called a slip or has a name such as `...Always`, `...Never`, is a
deliberate mutation of it: putting it in its place must break the property it was
written for, which shows that the property depends on that line of the code.

Composition takes three forms. Where components exchange state they are one
module's actions over shared variables (`PhotoIndex`: the jobs, the trigger, the
sync's writer, the deploy; `SpotDetail`: readers, refreshers, jobs, sync;
`TravelTurns`: the pipeline hides spots under a turn). Where they meet by a
contract, both sides are checked against it: `ChatTurn` maps what its reader has
been told to the `view` of `ChatStream` (`INSTANCE ChatStream WITH view <- View`) and
is checked to implement its `Spec`; `ChatClient` gives each of its requests an
attempt that follows the same contract, so what is checked of the client holds
for every server that keeps it, this one in particular. Where they share nothing
that one writes and another reads, a behaviour is about one of them, chosen in
the initial state (`part` in `Users` and `HomeFeed`, `schedule` in `BatchJobs`):
the union is checked in one run without the product of states that cannot
influence one another.

### The runs

| Run | Configuration | What is asked | Bounds | Distinct states |
|---|---|---|---|---|
| `detail_reads` | `SpotDetailReads` | fresh means current; one refresher; nothing erased | 2 request slots, KTO versions 1..3 of which 2 is hidden, 1 fault | 5.2 M |
| `detail_jobs` | `SpotDetailJobs` | the same for the overview beside the prewarm and gallery jobs and the agent | 2 slots, 2 versions, 1 of them blank, no fault | 2.2 M |
| `detail_settles` | `SpotDetailSettles` | liveness; locks are outlived | 2 slots, 2 versions, 1 fault | 0.6 M |
| `kto_sync` | `KtoSync` | watermark, hiding, catching up | 3 spots, page size 1, instants 0..3, a day each, 3 days a month, 2 changes, 1 fault | 1.0 M |
| `photo_index` | `PhotoIndex` | indexes, retry list, feed | 2 spots, 2 images (1 dead), 2 jobs, 1 change, 1 fault | 0.7 M |
| `users` | `Users` | accounts, keys, saved spots | 2 devices, one of them with 2 calls at once, 2 identities of one email, 2 logins, 1 fault; 2 keys, 2 logins, lifetimes 2 and 3, fetch 1; 2 spots, page of 1, 3 taps, 1 trouble | 2.8 M |
| `account_sessions` | `AccountSessions` | sessions end for good | the accounts above, 1 identity, no fault | 0.15 M |
| `home_feed` | `HomeFeed` | lists, pages, festivals | 8 spots, 2 requests, 1 flag; 5 posts, pages of 3, 2 changes; 3 festivals, 2 fetches, 4 days, 1 failure | 0.8 M |
| `search` | `TravelTurns` | regions, conditions, plans, dialogue, chips | 9 spots, 2 turns of 2 rounds, 34 rounds to choose from, 3 kinds of user, 1 change | 1.2 M |
| `chat_turn` | `ChatTurn` | order of events, caps, budget, ending | 4 calls, 2 a round, 4 tools a turn, budget 2, 2 pieces of prose | 0.2 M |
| `client_turns` | `ChatClient` | the store under late streams | 2 turns, 3 requests, 1 step, 1 event on the wire | 0.8 M |
| `batch_jobs` | `BatchJobs` | crowds, mentions, embeddings, catching up | 3 spots, 2 days, 1 fault; 3 spots, 2 regions, page of 1, 1 fault; 3 posts, 3 countries, 2 files, 1 edit, 1 fault | 0.3 M |

The bounds are small but none of them cuts the interesting case off. Two
requests, devices or jobs are enough for every race over one row, one lock or one
cache key (each hazard in the list names two actors); one fault can strike at any
step, and every hazard needs one; pages of one or two rows have a border that
items can cross; a clock has as many instants as a fetch, a modification and an
expiry need. The spots of `search` and `home_feed` are chosen so that the cases
of the code occur: two cities of one name in two provinces, provinces that were
merged and addresses with either name, a spot without a photo, without a rate,
hidden, far from the others, a pool smaller than its share. Deadlock checking is
off only where the system may stop: a turn ends, the taps are over, a bounded
number of logins or modifications is used up.

## Spot detail cache (`SpotDetail`)

State: `spot` (`spots.modified_time`), `detail` and `images` (the rows of
`spot_details` and `spot_images`), `front` (redis `spotdetail:v2`), `lock`,
`backoff`, one record per request slot, and a small record for each of the sync,
the prewarm job and the gallery job. A cell of text is the version of KTO's
content it was copied from, and a version is the instant KTO was modified, so
"older" is `<`. `Empty` (0) is a cell that was never filled.

`Begin` takes a caller of one of three kinds: complete (the caller waits for the
fetch), deferred (it is answered what there is, and a background refresh is
spawned), agent (it needs the intro). `LoadContext`, `GetFront`, `ReadRow`,
`ReadImages` are the reads in the order of `load_spot_detail`; each is an await,
so anything may come between them. A fetch has three KTO operations that settle
in any order (`FetchOp`), are cut by the timeout of the whole (`FetchTimeout`)
or fail; `Persist` is the one transaction with its merge, `SetFront` the write to
redis. The refresh goes over `CheckBackoff`, `AcquireLock`, the same fetch,
`SetBackoff` and `Unlock` by token. Redis errors let a refresher run without a
token, as the code does.

| Property | Says |
|---|---|
| `FreshReplyIsCurrent` | an answer labelled fresh shows three cells, none older than the modified time it was checked with |
| `JobsKeepCurrent` | the same of the overview with the jobs beside, and a fresh answer to the agent has an intro |
| `CellsSurvive` | a partial fetch never empties a stored cell |
| `RefreshExclusive`, `LockRemovedByOwner` | tokens are exclusive unless a lock is outlived; nobody deletes another's lock |
| `SettlesFresh` | deferred polling alone leaves the row fresh once faults and changes end |

`ModifyMidFetch = FALSE` states the assumption of the safety runs: KTO is not
modified between a fetch and the write of what it fetched. Without it an answer
can be stamped after a modification it has not seen; nothing in the code can tell.
Clock units are abstract: `DetailTtl` is the 90 days in them.

Fairness (`detail_settles`): each step of a request that has begun, the expiry of
the lock and of the backoff (redis does it), and the daily sync's read and write.
None for the jobs, for KTO, for the clock or for faults. `SettlesFresh` has
deferred requests come again because the app polls, which is the fairness of
`Begin` in `RequestStep`.

## KTO sync (`KtoSync`)

State: KTO's catalogue, the table `spots`, the watermark (the greatest
`watermark_to` of a successful row of `sync_runs`), and the two runs, each with
the listing it reads, the page it holds, what it has seen. An entry is a stamp,
whether KTO shows the spot and whether it lists it. The daily run asks for each
day since the watermark, for months when it is far behind, or for all; the full
run asks for all and hides what it did not see. `Churn = FALSE` assumes that KTO
does not change while a listing that is not of a single day is read; without it
`RowsAreKept` is violated, [see below](#where-the-code-and-its-documents-part).

| Property | Says |
|---|---|
| `NothingSkipped` | every modification up to the watermark is in the table, through failed, killed and overlapping runs, empty or short pages and listings that shift |
| `RowsAreKept` | a page read earlier never overwrites a newer row, and only what KTO hides or stopped listing is hidden |
| `CatalogueCatchesUp` | the daily run takes over all that is listed (without its months it is the bug of the 54 days in `docs/architecture.md:279`), and what vanished is hidden once a full run gets through |

Fairness: the daily run starts and the steps of both runs go on; none for the
start of the full run, for KTO, the clock or faults. A soft delete can be wrong
and stay so: the upsert's guard (`upsert.py:35`) skips rows with an equal stamp,
so a spot hidden by mistake comes back only with its next modification, in full
runs as well, although `docs/api.md:577` calls a full sync a complete
reconciliation.

## Photo indexes and matches (`PhotoIndex`)

State: `image` (`spots.first_image_url`), the two indexes (the image each row is
of), `failure` (the retry list with its reasons), `matches`, the redis lock, one
record per process, and the open transaction of a writer. One post stands for
all; `Near` holds the pairs of a spot and an image of it within
`MATCH_DISTANCE_MAX` of it, and which of them rank first is left open.

A job collects its targets (missing photos, in the order of `content_id`, up to
the limit; a retry reads the list instead), downloads a batch, locks each spot
whose image is still the one it downloaded, writes the rows and commits; then it
deletes, ranks and inserts the matches in one transaction and releases the lock.
Row locks are the rows an open transaction wrote; a writer waits for them and a
job waits for the writer. The trigger acts with the writer's commit. The deploy
script rebuilds without the lock, so two rebuilds may overlap: the second to
commit collides with the rows of the first on the primary key, and the error is
swallowed (`RebuildSwap`, `Collides`).

| Property | Says |
|---|---|
| `IndexIsCurrent` | no row is of another image than its spot shows, whatever a job had downloaded |
| `RetryListHolds` | a spot that loses its embedding is on the retry list until it is embedded or has no image, and no spot with a current embedding is on it |
| `PhotosCatchUp` | in the end every image that can be embedded is, and a post with enough embedded spots near it has a full row, whichever rebuilds failed |

`RetryListHolds` needs `LockOutlived = FALSE`: two photo jobs
at once can put a spot on the list after the other embedded it. Fairness: a
started job goes on, an open transaction commits, redis expires a dead job's
lock, and the daily start is strongly fair, because the workflow comes back every
day while deploys and the admin's jobs take the lock only now and then.

Seen on the way, and outside the properties:

- A spot that has a gallery row but no embedding of its first image is ranked and
  takes one of the three places, but the feed joins `spot_embeddings`
  (`feed/repositories.py`), so the post is not shown. `PhotosCatchUp` excludes such
  spots by its premise, and is violated without it.
- The daily job takes the first 1000 missing spots in the order of `content_id`:
  1000 photos that can never be embedded would keep all later ones out.
  `PhotosCatchUp` is checked with a limit above the number of dead photos.

## Accounts, keys and saved spots (`Users`)

**`Accounts`**: the tables `users`, `user_auth_providers` and `user_saved_spots`,
the tokens issued, the deny list in redis, and devices with what they store
(`disk`, secure storage) and hold (`mem`, the zustand store). A call is a record
that walks through the statements of its handler, then through what the device
does with the answer (`StoreDisk`, `StoreMem`, `ClearDisk`, `ClearMem`), so that
two calls of one device interleave at every await. A first login is find, email,
insert, and, when the insert meets another row of the same identity or email, a
retry; a refresh looks at the deny list, then at the account; an expired access
token is refreshed and the call repeated once; a deletion removes the rows and
commits, then denies the refresh token; a redis error makes the deny list fail
open.

**`ProviderKeys`**: the key set a process keeps of Kakao or Apple. The time is
read before the fetch and used after it, several logins fetch at once, a slow
answer may put an older set over a newer one, and a key that is not in the kept
set leads to no new fetch. Times are ages, so that the clock needs no bound; the
provider publishes its next key and later withdraws the one before. The two
providers refuse in a different order, which `Outright` and `Verdict` keep. A
fetch takes `FetchTime` at most: the client's timeout is one of each operation of
the transport, so this is an assumption about the provider, not of the code.

**`SavedSpots`**: the rows and the flag at the server, the query of the list with
its fetch (asked, read, arrived: the answer may be older than what was saved
since), the mutations in flight, and for each bookmark what was tapped. An unsave
cancels the fetch and takes the card away at once, a failed one puts the list of
before back, requests reach the server in any order, either way of a request may
be lost.

| Property | Says |
|---|---|
| `AccountsAreApart` | live accounts and identities lead to each other one to one, and no two live accounts have one email, however first logins and deletions overlap |
| `SessionsEnd` | after a deletion every device is signed out for good, and after a logout its session never comes back on its device, whatever answer arrives late |
| `KeysFollow` | no login is accepted by a key withdrawn, nor a good one refused for a key published, longer ago than the fresh lifetime, or the stale one and a fetch when fetches fail |
| `SavedSettles` | when the taps are over the list is the server's first page and no bookmark contradicts it, unless requests for its spot overlapped or it was hidden |

Fairness. `AccountsFairness`: a request that was sent is carried out, access
tokens expire, and a device that is signed in keeps being used: a deletion is
noticed by the next call only. `SavedFairness`: requests are answered and the user
comes back to a screen that shows the list; a lost save asks for nothing, so a user
who never comes back keeps what is on the screen. `account_sessions` has no
fault: a denial that redis refused is lost, as the code accepts.

What `SavedSettles` leaves out is real: with two requests for one spot in flight
the server may see them in the other order, and the bookmark then shows what was
tapped last until the next fetch; and the app reads one page of 60, so a bookmark
of a spot beyond it shows "not saved" after a restart.

## Home feed, explore feed and festivals (`HomeFeed`)

**`Spots`** holds what queries read of the table, and the categories twice: as SQL
conditions and as the function that labels a row (`spots/categories.py`).
**`HomeFeed`** has one action for each request of the home screen and the map
(channels, the two rankings, the recommendations, the curated course, the nearby
spots): its queries, the redis lists it reads or leaves, and how it interleaves
pools and fills up. Between two requests the pipeline hides or shows spots and
lists expire.

**`ExplorePosts`**: a page is the next posts below a cursor in the order of a seed,
rearranged so that two of one country do not touch; the cursor is of the page as it
was read. Between pages posts are hidden, appear, lose or get back their matches.

**`FestivalFeed`**: the channel's list, served as it was made while one task of the
process refreshes it, and the agent's pool, whose days are counted again from the
list's date. A fetch runs over pages of a listing that may change between them; its
cards are made for the day the call began and dated with the day it ends. The
warming script is a process without the guard; a restart drops tasks and guard.

| Property | Says |
|---|---|
| `RankingsHold` | no list shows a spot twice; a ranking has no hole while a pool has cards; what a category's query finds is of that category; the recommendations are of as many of the saved spots as have neighbours |
| `FestaOpens` | a festival card that can be opened is a spot on show |
| `PagedWhole` | a reader who pages to the end sees every post that stays once |
| `FestivalsAreCurrent` | one refresh at a time; no festival in the agent's pool ended more than a day ago, and its days are off by one at most; none in the channel ended longer ago than a list is kept; none twice |
| `FestaCatchesUp` | the refresh that the visitors of a new day start has its list stored, unless something fails |

Fairness: every fetch ends (`FestivalFairness`), since every call in it has a
timeout; none for visitors or midnight. The agent's pool is off by one when a list
is fetched across midnight: the day is read again after the fetch
(`kto_channels.py:309`), so a list counted for one day is dated with the next.

## The agent: what a turn finds (`TravelTurns`)

`RegionHints` makes of words the beginnings of addresses; provinces that were
merged have two names, and a city's name may be in two provinces. `Itinerary`
chains sights into days and gives each kind of meal a place. `SpotSearch` has the
queries with their order, limits and the ladder of relaxations of `retrieve.py`;
`PlaceResolve` looks for a named place in the table, then at Naver, then at KTO;
`AgentTools` has the sixteen tools; `TurnIntent` makes the intent and the chips of
an answer, and a call of a chip; `ToolDialogue` the neutral dialogue and what the
two services accept. `TravelTurns` composes them: a turn begins with a text, a
picture, a tapped chip or card; the model picks a round of calls; the tools run in
their order, any of them may be late; the answer is composed; the pipeline may
hide a spot between any two steps. What the model would choose is an input: one of
34 rounds, which between them call every tool with and without each argument.

| Property | Says |
|---|---|
| `RegionsKept` | no tool answers for another region than was asked for (`StaysIn`), nor a search of a region for part of it (`Whole`); an unreadable name never becomes a search of the whole country; a region like another lies in another province (`Elsewhere`); a named province holds wherever the place came from (`InProvince`) |
| `ConditionsKept` | every spot found is of the kind, mood and roof asked for, whichever fallback it came from (`OfKind`); who asks for quiet gets the quietest, and the cut never empties a search (`Quietest`) |
| `PlanKept` | no place twice in a plan, and every meal asked for is in it or said to be missing |
| `SavedNeverRecommended` | what the user has saved is not recommended |
| `DialogueAccepted` | each time the model is asked, every call has its one answer in a form both services accept |
| `ChipReplays` | the search a chip starts is the one that was answered with one condition changed |

## The agent: how a turn is streamed (`ChatTurn`, `ChatClient`)

**`ChatTurn`**: two tasks and a queue. The search (`stage`, `trace`, `fired`, ...)
picks and runs tools in rounds; the generator (`phase`) drains step signals and
then sends cards, prose, sources and done. A tool call is a model value, its name
with its arguments. The search gives up its loop only at awaits, so `Suspended`
stages are where another task or a cancellation can come in. Time passes in units
at awaits; `ToolTimeout` bounds a tool, `DecideLimit` a question to the router, and
`TotalBudget` is looked at between rounds only, which is why the bound is
`SearchLimit == TotalBudget - 1 + DecideLimit + MaxCallsPerRound * ToolTimeout`.

| Property | Says |
|---|---|
| `ImplementsStream` | the events come in the order of `ChatStream`: steps, cards once and before prose, no done without the answer it repeats |
| `ShownWithinBudget` | steps on the screen are the tools that ran; rows found are shown, also when the router dies after; the search keeps its limit |
| `SearchIsStopped` | after a tool said stop, or the client left, nothing is started or gathered |
| `TurnEnds` | every turn ends and leaves no search behind |

The error event is in the contract but this server never sends one in a turn (its
branch in the writer is dead with the deterministic sentences of `rescue`).
Fairness: the search's own steps and the generator's are weakly fair, the passing
of time strongly (an await that neither answers nor times out does not exist);
none for answers or for the client.

**`ChatClient`**: the turns with their bodies, `streaming`, `activeId`, and one
attempt per request, each with the stream it reads and an event on the wire. A
request ends by its last event, by a break, or by an abort; `.then` and `.catch` of
`run()` are actions of their own, so they meet whatever the store has become.

| Property | Says |
|---|---|
| `TurnsAreApart` | at most one turn streams, the last one, and the flags agree; a turn's words come from its latest request alone; an answered turn shows every step of its stream and spins none |
| `EndedStays` | an ended turn changes only by retry or new chat |
| `TurnSettles` | a streaming turn comes to an end |

Fairness: what arrived is handled (`Client(a)`) and a stream ends or breaks
(`Breaks(a)`). The run is without error events (`ErrorEvents = FALSE`): with them a
retry can be failed by the stream it replaced,
[see below](#where-the-code-and-its-documents-part).

## Batch jobs (`BatchJobs`)

**`ConcentrationSync`** (daily): KTO's forecast is asked for one sigungu after the
other, its names matched with titles, and all written at the end into a snapshot
(a row for a spot) and a ledger (a row for a spot and day). **`WeeklySignals`**:
the blog counts, asked region by region and in two orders, and the visual scores
of pages of photos, while spots are hidden and photos embedded anew.
**`OverseasPosts`** (monthly): the ETL by countries, each committed alone, then the
embedding job with its batches and the matches; the job may outlive its workflow
and meet the next month's ETL.

| Property | Says |
|---|---|
| `CrowdsAreOwn` | what a card says of the crowd is what the ledger says of that day, and of a place of the spot's own name and sigungu |
| `PostsCountedOnce` | a post that both orders return is one mention |
| `PostsKept` | no post has an embedding of another photo than its own, and a description long enough is never replaced by a shorter one |
| `JobsCatchUp` | what a week skipped or a month left out a later one brings |

Fairness: the weekly workflow's steps go on and it comes back
(`WeeklyFairness`); the month's processes go on and its schedule queues a run until
it can start (`OverseasFairness`); none for editors, failures or the pipeline.

## Where the code and its documents part

Met while modelling. These are behaviours of the models; what a property would
forbid is excluded by a named constant or premise, so that a reader can put it
back and see the trace:

- The gallery job deletes the redis copy after it wrote new images
  (`docs/architecture.md:220`); a reader that read the images before puts the old
  ones back, for up to the hour a copy lives (`detail.py:592`; `SpotDetail` with
  `Galleries = TRUE`). No property forbids it: what is put back is as new as the
  modification it was checked with.
- The prewarm job stamps `cached_at` for the row after fetching one of its three
  cells (`detail.py:365`): intro and images copied before a modification are then
  answered as fresh (`SpotDetail` with `Prewarms = TRUE` and
  `FreshReplyIsCurrent`).
- `docs/api.md:88` promises a turn that ends well when the model fails. It does,
  but a 429 in a later round throws away the rows that earlier rounds found
  (`ChatTurn`: the outcome `limited` in `ShownWithinBudget`).
- `docs/api.md:86`: after an error event the client asks again. The end of the
  stream that failed may arrive late and fail the retry, which runs under the same
  turn id (`ChatClient` with `ErrorEvents = TRUE` and `TurnsAreApart`).
- `docs/architecture.md:294`: the full run hides only what vanished. When KTO
  publishes a spot while the weekly run pages, items shift over a page border, and
  a listed spot that is never seen is hidden (`KtoSync` with `Churn = TRUE` and
  `RowsAreKept`); the weekly run does start minutes before KTO's own batch.
- `web/support/index.html:29`: a deletion removes the account's saved spots. An
  access token lives on until it expires, and another device may save a spot for the
  account that is gone; the row stays (`Accounts`, `ServeSave` after
  `DeleteCommit`).

Smaller ones: `docs/api.md:22` and `:42` say seven days of cache, the code and
`docs/architecture.md:190` say 90; `docs/api.md:43` has the backoff beside the
lock, the code reads it before (`detail.py:675`) and not again under it;
`docs/api.md:113` and `:358` say an opening call spares the router, the code asks it
afterwards; the chips of the app send neither `intent` nor `patch`
(`travel.tsx:72`), which `docs/api.md:358` describes.

Observed and left as it is, with no property that forbids it:

- `agent/services/resolve.py:64`: a place without a province of its own may lie in any
  province the question names; the tool gives all its places one hint
  (`agent/tools/resolve.py:28`), so that only one is ever named.
- `agent/repositories.py:305`: the statistics of the ranking are read once in the
  life of a process; `:291`: the scope `base` is read and never written.
- `agent/outcome.py:82`: a search by the crowd alone that finds nothing is told as
  one that was not made, since the crowd is no axis there.
- `agent/toolloop.py:284`: a repeated call is answered from before and not counted.
- `spots/buzz_job.py:175`: a spot nobody mentions any more keeps its old mentions.
- `feed/embedding_job.py:134`: the embeddings are committed before the matches are
  rebuilt, so a feed between the two shows matches of the photos before.
- Code nothing calls: `ask_with_anchor` of `agent/services/anchor.py` and its
  helpers, `answer_about_spot` of `agent/services/detail.py`, `geocode.py`,
  `kakao_places.py`; in `retrieve.py` the filters by crowd and distance and the
  reclassifying; in `answer.py` merging and the fallback; `generate_json` of
  `llm.py`. It is not modelled.

## What is proved

TLC answers for the instances above; TLAPS for every value of the constants that
the named assumptions allow. Each module of proofs has an inductive invariant that
is checked by the prover step by step; where it is stronger than the property it
is because the property alone says too little of what a process holds between two
of its steps.

| Module | Theorem | Says, for any number of ... | Assumes |
|---|---|---|---|
| `SpotDetailProofs` | `TypeCorrect` | requests, versions, faults: types, and no fetch is persisted with a call still open | |
| | `LockSafe` | the same: `LockRemovedByOwner` | |
| | `RefreshIsExclusive` | the same: `RefreshExclusive` | `~LockOutlived` |
| | `FreshIsCurrent` | the same: `FreshReplyIsCurrent` | KTO is not modified inside a fetch (`~ModifyMidFetch`), no prewarm job (`~Prewarms`) |
| | `CellsStayFilled` | the same: `CellsSurvive` | |
| | `OverviewIsCurrent` | the same, the jobs included: `JobsKeepCurrent` | `~ModifyMidFetch` |
| `JobsProofs` | `TypeCorrect` | spots, images, jobs, faults: types, and no job's transaction is open outside its record phase | |
| | `IndexCurrent` | the same: `IndexIsCurrent`, also when a job outlives its lock | |
| | `RetriesAreListed` | the same: `RetryListHolds` | `~LockOutlived` |
| | `CrowdsStayOwn` | forecasts, names, sigungus, days, faults: `CrowdsAreOwn` | |
| | `PostsStayOnce` | posts, regions, themes, failed searches: `PostsCountedOnce` | |
| | `PostsStayOwn` | items, countries, months, edits, faults: `PostsKept` | |
| `KtoSyncProofs` | `SyncSkipsNothing` | spots, pages, days, missed days, overlapping runs, faults: `NothingSkipped` | KTO's listing of a date stands still while it is paged (`~Churn`) |
| | `SyncKeepsRows` | the same: `RowsAreKept` | `~Churn` |
| `UsersProofs` | `AccountsTyped` | devices, calls, identities: every token a device or the deny list holds was issued, and a stage has the fields its handler reads | |
| | `AccountsStayApart` | the same: `AccountsAreApart` | |
| | `KeysStayCurrent` | logins, keys, lifetimes, slow answers: `KeysFollow` | |
| `HomeFeedProofs` | `PagesAreWhole` | posts, keys, page sizes, changes between two pages: `PagedWhole` | |
| | `FestivalsStayCurrent` | festivals, listings, overlapping calls, days, faults: `FestivalsAreCurrent` | |
| | `FestaStaysOpen` | lists of festivals and hidden spots: `FestaOpens` | |
| | `RankingsStayWhole` | spots, pools, patterns, limits, lists kept in redis, flags: `RankingsHold` | |
| `TravelTurnsProofs` | `DialogueStays` | calls, rounds, turns, users, late tools: `DialogueAccepted` | |
| | `SavedStaysOut` | the same: `SavedNeverRecommended` | |
| | `ChipsReplay` | the same: `ChipReplays` | |
| | `PlansKept` | the same, and spots, distances, days and meals of a plan: `PlanKept` | |
| | `ConditionsStay` | the same, and codes, moods, rates and limits: `ConditionsKept` | |
| | `ScopesStay` | the same, and names of regions, addresses, embeddings, saved spots: the first three parts of `RegionsKept` | |
| | `RegionsStay` | the same, and what Naver and KTO answer: `RegionsKept` | Naver and KTO give the addresses the table has (`AddressesAgree`) |
| `ChatProofs` | `TurnShownWithinBudget` | calls, rounds, caps, pieces of prose, moments to leave: `ShownWithinBudget` | |
| | `SearchStops` | the same: `SearchIsStopped` | |
| | `TurnImplementsStream` | the same: the turn implements `ChatStream` (`ImplementsStream`) | |
| | `EndedTurnsStay` | turns, requests, events, error events included: `EndedStays` | |
| | `TurnsStayApart` | the same: `TurnsAreApart` | the server sends no error event (`~ErrorEvents`) |

The assumptions of the last column say what the world outside a component does, and
the run that checks the property makes them too; what happens without `~Churn` and without `~ErrorEvents` is in
[the section before](#where-the-code-and-its-documents-part). The theorems of
`UsersProofs` and `HomeFeedProofs` and those of the batch jobs are about the composed
specifications that the runs check. Where one module of proofs is about two
specifications, the second has names of its own (`JobsSpec`, `ClientSpec`).

What the constants must satisfy is assumed in the module that declares them, and TLC
evaluates it on every run. Most of it is their type. What goes further is what the
code's tables have: a code of a category begins with the code of the level above
it (`Nested`, by which `categories.py` reads the levels off a code); the patterns of
the home screen name each of their pools (`HomeAssumption`); a word for a meal
stands for restaurants or for cafes, and a dish makes it restaurants
(`SearchAssumption`); a round has as many calls as the loop lets through, and the
words of its searches are those the instance has codes for, be it no code
(`TurnsAssumption`); a region's names begin with a province (`RegionAssumption`);
every name that has a letter can be asked for (`PlaceAssumption`). `AddressesAgree` is
not of that kind: a spot close to a hit of Naver, in the city of its address, lies in
its province, and so does the spot that KTO returns with an address. Only the clause
of `RegionsKept` on named places needs it (`InProvince`), since the code compares the
province it was told with the address the service gives and not with the row's own
(`agent/services/resolve.py:262`, `:339`). The instance satisfies it, which TLC evaluates.

The arguments, in short:

- `FreshIsCurrent` needs to know what a request holds at each of its stages:
  whatever it read or fetched is at least as new as the modified time it read
  before, and a row's cells are at least as new as its stamp. `Persist` keeps the
  second because its merge takes a new cell or keeps the old one; `SetFront`
  because it copies the row.
- `OverviewIsCurrent`: the prewarm job stamps a whole row after fetching its overview
  alone, so the invariant speaks of the overview and the stamp only, wherever a copy
  is kept (`KeptOk`). That a fresh copy for the agent has an intro is shown apart:
  either the cache answered because it had one, or the fetch was complete.
- `IndexCurrent` says in addition that a row a job has written and not committed is
  of the image its spot shows (`RowsHeld`): the job holds that spot's row lock, so
  no writer changes the image before the commit. The redis lock is not used.
- `CellsStayFilled`: what was fetched, whoever holds it, has no empty text in a cell
  (`FetchedFilled`), and the statements that write a row merge it, so a filled cell
  is only ever replaced by a filled one.
- `RetriesAreListed`: a job holds each spot once and none of the photos it holds has
  a row (`Apart`, `Unwritten`); only the job itself can change that while the lock is
  its own (`LockOfRunning`). A failure it commits is therefore of a spot without a
  row, and the image an open sync has written differs from the one the spot shows
  (`WriterApart`), so that the trigger lists exactly the spots whose row it deletes.
- `SyncSkipsNothing` and `SyncKeepsRows` share one invariant. It divides KTO's
  listing of the query a run pages at the page it asks for next: what lies before has
  been got (`Paged`). A listing whose last day is over can only lose spots, since a
  spot that changes moves to today (`Settled`), so a page never skips one; and every
  stamp between the watermark and the last one found belongs to a query already
  asked, the queries being consecutive days or months (`Consecutive`, `UpTo`). The
  watermark a run leaves is therefore passed by no change the table lacks, and the
  full run hides only what its listing did not have.
- `EndedTurnsStay`: turn ids are unique, and the one that streams is the last and the
  one listened for (`StoreInv`), so a handler, which drops what is for another id,
  changes no other turn. Which request an event came from does not matter.
- `TurnsStayApart` says of every request that its events still on the wire lead from
  what its turn shows to what the server has sent (`Follows`), that only the last
  request can still bring something, and only to the turn that is listened for
  (`RequestOk`), and that a turn which failed has no live request (`TurnOk`), so that
  a retry under the same id meets no rest of the attempt before.
- `TurnShownWithinBudget`: the signals of the search are numbered, two for a tool; the
  reader has those up to `Taken`, the queue has the rest in order (`QueueHas`), and
  the search has sent those up to `Signals`, one more tool being run than done while
  one runs (`Ran`). `InTime` counts the tools that still fit in the round, which is
  what keeps the last one within its limit.
- `TurnImplementsStream` adds what the reader holds at each phase of the generator
  (`Told`, `Shown`): every event it is given is then one that `ChatStream` allows
  after those before, and everything else stutters. The part of the refinement that
  is proved is its safety; that each turn ends is liveness.
- `SearchStops`: a search that runs has a generator draining its queue or is about to
  be cancelled at its await (`Watched`).
- `AccountsStayApart` rests on the statements that insert, which test the identity
  and the email again, and on deletion taking the rows with the account; not on the
  look before the insert, which may be overtaken.
- `KeysStayCurrent`: a key set of age `a`, kept or just read, differs from the
  published one in keys only that were changed within `a` (`CacheLags`,
  `ReadsLag`). A fetch that ends stores its set with the age it had when it was
  begun, so the invariant survives an older set stored over a newer one.
- `PostsStayOwn`: a row changes by one of three statements, and each is shown to
  leave the embedding empty or the image's own and a long description no shorter
  (`RowKept`); what the job has downloaded does not matter, since its statement
  compares the row's image.
- `CrowdsStayOwn`: a row that a run has found is of a spot with that name in the
  sigungu that was asked for (`FoundOwn`), and of a spot there is one row in a commit,
  so the snapshot and the ledger get the same one or neither.
- `PostsStayOnce`: a post is counted at the first place of its link, so the posts
  counted for a spot inject into the links of those that name it.
- `PagesAreWhole`: the cursor divides the posts of the feed in those the reader has
  been shown and those to come (`CursorDivides`), whichever posts come or go. The
  rearrangement by country is a permutation of its page: that is shown by the least
  place at which a chain of swaps could fail to be one (`LeastOf`, `Iterated`), since
  the induction theorems of the library are out of the prover's reach.
- `FestivalsStayCurrent`: a list carries a date, and was made for that day or the one
  before (`ListOk`), whether it is kept, held by a call or counted again; a call
  began today or yesterday and a kept list is no older than its lifetime
  (`CallOk`, `StoredOk`). A festival is one card because rows have places of their own
  and the first row of a festival is taken (`Placed`); the sort is a permutation
  because no two rows have the same number of rows ahead (`SortedCards`). The
  guard of the refresh and the refresh come and go together (`GuardInv`).
- `FestaStaysOpen` needs no invariant: the card is looked up when it is served.
- `RankingsStayWhole` needs of a state only that what redis keeps is a list of spots
  (`HomeInv`); the rest is about what the operators compute. A list of spots is a
  sequence without repetition, and ordering, filtering, cutting and joining what is
  left of another keep it one (`SpotsProofs`). Each pass over a pattern takes a card
  while any pool of the pattern has one, so a ranking that is too short has emptied
  them all; a group of the map is a query of one category, and the labels agree with
  the queries because codes are nested.
- `DialogueStays` speaks of the dialogue while a round runs as well, when no service
  would accept it: it lacks exactly the answers of the calls still to be made
  (`DialogueInv`, `ToldUpTo`), and the model is asked again when none is left.
- `SavedStaysOut` says of the steps of the running turn, not of its answer, that none
  recommends what the user has saved (`SavedInv`): the answer is composed of steps, and
  a step is kept as it was made.
- `ChipsReplay` says of the calls of a turn that their arguments have the types
  `call_from_intent` can give back (`Plain`), and of an answer that the turn is over
  and the intent of its chips, if it has any, is that of the calls still in the trace
  (`ChipInv`). Between the two lie the folds of `intent_of`, which take the last value
  of each condition, and the call that is built from what they left.
- `PlansKept`, `ConditionsStay`, `ScopesStay` and `RegionsStay` are about what one call computes, so
  they share the invariant that every step of the turn is what its tool returned for
  its call, from the spots shown at some moment of the turn, or nothing at all
  (`TraceInv`, `Gave`); while the pipeline has changed nothing, that moment is now.
- `PlansKept`: the plan is shown from the inside out. The chain of
  sights visits each once (`ChainVisits`): a path of places in a list grows by the
  nearest place not on it. The legs of the days are apart in the chain (`LegOfTrip`);
  a meal is taken from what no day has yet, and `taken` grows with every place
  (`MealsGiven`, `DayMade`), so that no place comes twice, of two days or two meals.
  Each kind of meal is on a day or short after the days before it had their turns
  (`DaysTaken`, `Assembled`). Last, a kind stands for all the words of the question
  that mean it (`SlotsFirst`), its pool has only what serves them (`PoolServes`), and
  what is short is said under each of its words (`PlanHonors`). The folds of the
  assembly are reasoned about as functions on an interval (`Iterated`).
- `ConditionsStay`: a search with a wish of crowd asks twice, and whichever query
  answers has the conditions of the other (`SearchAnswers`, `Meets`). That quiet rows
  are the quietest needs the percentile: the rows under the ceiling are a beginning
  of the rows by rate (`Quiet`), and cutting them at the limit keeps it one. Whether a
  search looks among what is eaten is decided by its words or by its codes
  (`Eaten`), and the property says the same of both.
- `ScopesStay` and `RegionsStay`: an address lies in the scope of some hints exactly when a region is
  named that holds it and is not narrowed by another name (`ScopeNames`): dropping
  what is covered before the merged spellings are added is what makes the two agree. A
  row of a tool is then followed back to a query with that scope: through the
  neighbours of a picture (`Matching`), the rows a title brings for each spelling, the
  halves of a comparison, what saved spots lead to, and the days of a plan, whose
  visits come from its sights and its pools of meals (`Assembled`, `PoolsLeft`). The
  votes for a similar region are the rows outside the provinces of its seeds
  (`SimilarElsewhere`). The place that is picked for a name, by whichever way it was
  found, is one whose province was checked (`PlaceStays`).

## What is only model-checked

- Liveness: the prover does not reason about fairness here. `SettlesFresh`,
  `CatalogueCatchesUp`, `PhotosCatchUp`, `SavedSettles`, `SessionsEnd`,
  `FestaCatchesUp`, `TurnEnds`, `TurnSettles` and `JobsCatchUp` stay with TLC.
- `NothingSkipped`, `RowsAreKept` and `TurnsAreApart` without their assumptions are
  false, as the counterexamples above show. Every safety property of the runs is
  proved under the assumptions of the table.
- `RetryListHolds` when a job does outlive its lock: two jobs may then hold the same
  photo, and a failure of the one can follow a success of the other.

## Not modelled

Whole parts:

- Consents: one row for a user, written whole by one call. The hook that uploads a
  local yes whenever the server says no (`use-ai-transfer-consent.ts:37`) is in the
  list of hazards without a property.
- The rate limit and the rest of `backend/app/web`, configuration, logging, redis
  and database helpers: each is a call to a library.
- The admin dashboards and their login; its embedding button is a job of
  `PhotoIndex`.
- The clients of Naver and Kakao: their answers are inputs of `PlaceResolve` and
  `WeeklySignals`. The three attempts inside a KTO call are one outcome.
- The image proxy, which keeps nothing, and the screens of the app, whose protocols
  are in `ChatClient`, `Accounts`, `SavedSpots` and in the requests of `SpotDetail`.
- The deploy's images, migrations and rollback, operations of docker and alembic;
  its rebuild of the matches is a job of `PhotoIndex`.

Inside the parts that are modelled:

- Texts: prompts, wording, formatting, prices and opening hours; a text is a
  version, a length or a kind, as far as a property tells them apart.
- SQL and distances: a query is the set or sequence it returns; which photo
  resembles which, and how near two spots are, are constants of an instance.
- Rows of `spots` without a modified time, KTO's reference codes and the cap on the
  pages of a listing; deadlocks of row locks, which PostgreSQL resolves by failing
  one of the two.
- The exchange of Apple's code and its revocation, and a user's profile.
- `scripts/travel_golden_set.py`, an evaluation of answers by hand, and the tables
  of the baseline migration apart from its trigger.
