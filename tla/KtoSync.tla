------------------------------- MODULE KtoSync --------------------------------
(****************************************************************************)
(* The pipeline's copy of the KTO catalogue (pipeline sync/daily.py): the    *)
(* daily run asks for each day since the watermark, the weekly full run for  *)
(* everything, and hides what it did not see.  Both page through a listing   *)
(* that KTO may change under them, commit page by page, may fail or be       *)
(* killed at any point and may overlap: their workflows share no group.  An  *)
(* instant stands for the content of a spot modified then.                   *)
(****************************************************************************)
EXTENDS Integers, FiniteSets, Sequences, FiniteSetsExt

CONSTANTS
    None,
    Spots,
    Early,             \* the spots KTO lists at the start
    Order,             \* how KTO orders spots of one instant in a listing
    PageSize,
    PerDay, PerMonth,  \* instants in a day, days in a month
    MaxCatchupDays, MaxCatchupMonths,
    Churn,             \* KTO may change during a listing that is not of one day
    MaxTime, MaxChanges, MaxFaults  \* bounds: the clock, KTO's changes, faults

ASSUME SyncAssumption ==
    /\ Early \subseteq Spots
    /\ Order \in [Spots -> Nat]
    /\ \A s, x \in Spots : Order[s] = Order[x] => s = x
    /\ IsFiniteSet(Spots)
    /\ {PageSize, PerDay, PerMonth, MaxCatchupDays, MaxCatchupMonths} \subseteq Nat \ {0}
    /\ Churn \in BOOLEAN
    /\ {MaxTime, MaxChanges, MaxFaults} \subseteq Nat
    /\ None \notin Nat
    /\ None \notin [stamp : Nat, show : BOOLEAN]
    /\ None \notin [stamp : Nat, show : BOOLEAN, listed : BOOLEAN]

VARIABLES
    kto,       \* KTO's catalogue: a spot as last published, or None
    spots,     \* the table spots: the row of a spot, or None
    watermark, \* the greatest watermark_to of the successful sync_runs
    run,       \* the daily and the full run
    now,
    changes,   \* changes KTO made
    faults     \* failures and kills so far

vars == <<kto, spots, watermark, run, now, changes, faults>>

Runs == {"daily", "full"}
Instants == 0..MaxTime
Row == [stamp : Instants, show : BOOLEAN]
Day(t) == t \div PerDay
Month(d) == d \div PerMonth
Today == Day(now)

All == [by |-> "all", at |-> 0]
ByDay(d) == [by |-> "day", at |-> d]
ByMonth(m) == [by |-> "month", at |-> m]
Queries == [by : {"all", "day", "month"}, at : 0..MaxTime]

First(wm) == IF Day(wm) < Today THEN Day(wm) ELSE Today
Behind(wm) == Today - First(wm) > MaxCatchupDays
MonthsBehind(wm) == Month(Today) - Month(First(wm)) + 1
TooOld(wm) == wm # None /\ Behind(wm) /\ MonthsBehind(wm) > MaxCatchupMonths
\* Slip: only the watermark's day is ever asked for.
SyncDatesStuck(wm) == IF wm = None THEN <<All>> ELSE <<ByDay(First(wm))>>
\* sync_dates: from the watermark's day, day by day while the gap is short
\* and by months beyond it; everything when nothing was ever synced.
SyncDates(wm) ==
    IF wm = None THEN <<All>>
    ELSE IF Behind(wm)
         THEN [i \in 1..MonthsBehind(wm) |-> ByMonth(Month(First(wm)) + i - 1)]
         ELSE [i \in 1..(Today - First(wm) + 1) |-> ByDay(First(wm) + i - 1)]

\* areaBasedSyncList2: modifiedtime is a prefix of the stamp; what matches is
\* listed newest first, shown or not, PageSize spots to a page.
Matches(q, t) ==
    \/ q.by = "all"
    \/ q.by = "day" /\ Day(t) = q.at
    \/ q.by = "month" /\ Month(Day(t)) = q.at
Listed == {s \in Spots : kto[s] # None /\ kto[s].listed}
Item(s) == [stamp |-> kto[s].stamp, show |-> kto[s].show]
Listing(q) == {s \in Listed : Matches(q, kto[s].stamp)}
Before(s, x) ==
    \/ kto[s].stamp > kto[x].stamp
    \/ kto[s].stamp = kto[x].stamp /\ Order[s] < Order[x]
Position(q, s) == Cardinality({x \in Listing(q) : Before(x, s)})
Page(q, p) == {s \in Listing(q) : Position(q, s) \div PageSize = p - 1}

Idle == [pc |-> "idle", todo |-> <<>>, page |-> 1, total |-> 0, fetched |-> 0,
         held |-> <<>>, seen |-> {}, newest |-> None, from |-> None, last |-> None]

\* _stamp(last): the first instant of the last day or month asked for.
LastAsked(dates) ==
    LET q == dates[Len(dates)]
    IN CASE q.by = "all" -> None
         [] q.by = "day" -> q.at * PerDay
         [] q.by = "month" -> q.at * PerMonth * PerDay

Init ==
    /\ kto = [s \in Spots |-> IF s \in Early
                             THEN [stamp |-> 0, show |-> TRUE, listed |-> TRUE] ELSE None]
    /\ \/ spots = [s \in Spots |-> None] /\ watermark = None
       \/ spots = [s \in Spots |-> IF s \in Listed THEN Item(s) ELSE None] /\ watermark = 0
    /\ run = [r \in Runs |-> Idle]
    /\ now = 0 /\ changes = 0 /\ faults = 0

\* A listing that changes under a run over more than one day may lose spots:
\* Churn says whether KTO does that.
Long(r) ==
    \/ r = "full" /\ run[r].pc # "idle"
    \/ \E i \in DOMAIN run[r].todo : run[r].todo[i].by # "day"
MayChange == changes < MaxChanges /\ (Churn \/ \A r \in Runs : ~Long(r))

\* KTO registers or modifies a spot: its stamp is the present instant.
Modify(s) ==
    /\ MayChange /\ (kto[s] # None => kto[s].stamp < now)
    /\ \E shown \in BOOLEAN : 
          kto' = [kto EXCEPT ![s] = [stamp |-> now, show |-> shown, listed |-> TRUE]]
    /\ changes' = changes + 1
    /\ UNCHANGED <<spots, watermark, run, now, faults>>

\* KTO drops a spot from its listings without a trace.
Drop(s) ==
    /\ MayChange /\ s \in Listed
    /\ kto' = [kto EXCEPT ![s].listed = FALSE]
    /\ changes' = changes + 1
    /\ UNCHANGED <<spots, watermark, run, now, faults>>

Tick ==
    /\ now < MaxTime
    /\ now' = now + 1
    /\ UNCHANGED <<kto, spots, watermark, run, changes, faults>>

\* sync_daily: the watermark is read first; one that is too old raises before
\* the run is even recorded.
StartDaily ==
    /\ run["daily"].pc = "idle" /\ ~TooOld(watermark)
    /\ LET dates == SyncDates(watermark)
       IN run' = [run EXCEPT !["daily"] = [Idle EXCEPT
              !.pc = "read", !.todo = dates, !.from = watermark, !.last = LastAsked(dates)]]
    /\ UNCHANGED <<kto, spots, watermark, now, changes, faults>>

\* sync_full
StartFull ==
    /\ run["full"].pc = "idle"
    /\ run' = [run EXCEPT !["full"] = [Idle EXCEPT !.pc = "read", !.todo = <<All>>]]
    /\ UNCHANGED <<kto, spots, watermark, now, changes, faults>>

\* The next date; after the last, a full run that saw anything hides the rest.
NextDate(me) ==
    LET rest == Tail(me.todo)
    IN [me EXCEPT !.todo = rest, !.page = 1, !.total = 0, !.fetched = 0, !.held = <<>>,
                  !.pc = IF rest # <<>> THEN "read" ELSE "closing"]

\* Slip: a short answer is taken for the end of the date.
TruncatedNever(fetched, total) == FALSE
\* An empty page before totalCount was reached: items were lost.
Truncated(fetched, total) == fetched < total

\* One request of _sync_one_date.  KTO may answer with fewer items than the
\* page has; an empty page ends the date or, when Truncated, the run.
ReadPage(r) ==
    LET me == run[r]
        q == Head(me.todo)
        total == IF me.page = 1 THEN Cardinality(Listing(q)) ELSE me.total
        Answered(items) ==
            IF items = {}
            THEN IF Truncated(me.fetched, total) THEN Idle ELSE NextDate(me)
            ELSE [me EXCEPT !.pc = "write", !.total = total,
                            !.held = [s \in items |-> Item(s)]]
    IN /\ me.pc = "read"
       /\ \/ run' = [run EXCEPT ![r] = Answered(Page(q, me.page))] /\ UNCHANGED faults
          \/ \E items \in SUBSET Page(q, me.page) :
                /\ items # Page(q, me.page)
                /\ faults < MaxFaults /\ faults' = faults + 1
                /\ run' = [run EXCEPT ![r] = Answered(items)]
       /\ UNCHANGED <<kto, spots, watermark, now, changes>>

\* Slip: the guard on modified_time is left out.
UpsertedBlindly(rows, items) ==
    [s \in Spots |-> IF s \in DOMAIN items THEN items[s] ELSE rows[s]]
\* upsert_spots: the row of a spot is replaced by a newer modification only.
Upserted(rows, items) ==
    [s \in Spots |->
        IF s \in DOMAIN items /\ (rows[s] = None \/ rows[s].stamp < items[s].stamp)
        THEN items[s] ELSE rows[s]]

\* The page is written and committed; the date goes on until totalCount items
\* were fetched.
WritePage(r) ==
    LET me == run[r]
        stamps == {me.held[s].stamp : s \in DOMAIN me.held} \cup ({me.newest} \ {None})
        fetched == me.fetched + Cardinality(DOMAIN me.held)
        wrote == [me EXCEPT !.pc = "read", !.page = me.page + 1, !.fetched = fetched,
                            !.held = <<>>, !.seen = me.seen \cup DOMAIN me.held,
                            !.newest = Max(stamps)]
    IN /\ me.pc = "write"
       /\ spots' = Upserted(spots, me.held)
       /\ run' = [run EXCEPT ![r] = IF me.total > 0 /\ fetched >= me.total
                                    THEN NextDate(wrote) ELSE wrote]
       /\ UNCHANGED <<kto, watermark, now, changes, faults>>

Visible(rows) == {s \in Spots : rows[s] # None /\ rows[s].show}

\* soft_delete_unseen, of a full run that saw anything: it refuses when it saw
\* fewer spots than half of those on show (MIN_SEEN_RATIO).
Partial(seen, visible) == 2 * Cardinality(seen) < Cardinality(visible)

Hide(r) ==
    LET me == run[r]
        visible == Visible(spots)
    IN /\ me.pc = "closing" /\ r = "full" /\ me.seen # {}
       /\ IF Partial(me.seen, visible)
          THEN UNCHANGED spots /\ run' = [run EXCEPT ![r] = Idle]
          ELSE /\ spots' = [s \in Spots |-> IF s \in visible \ me.seen
                                            THEN [spots[s] EXCEPT !.show = FALSE] ELSE spots[s]]
               /\ run' = [run EXCEPT ![r].pc = "finish"]
       /\ UNCHANGED <<kto, watermark, now, changes, faults>>

\* _advanced_watermark and the success recorded by record_run; the watermark of
\* the next run is the greatest recorded.
Advanced(me) == {me.from, me.newest, me.last} \ {None}
Finish(r) ==
    LET me == run[r]
        known == Advanced(me) \cup ({watermark} \ {None})
    IN /\ \/ me.pc = "finish"
          \/ me.pc = "closing" /\ (r = "daily" \/ me.seen = {})
       /\ watermark' = IF known = {} THEN None ELSE Max(known)
       /\ run' = [run EXCEPT ![r] = Idle]
       /\ UNCHANGED <<kto, spots, now, changes, faults>>

\* A request or a statement raises, or the process is killed: the open
\* transaction is lost and the run is never a success.
Fail(r) ==
    /\ run[r].pc # "idle" /\ faults < MaxFaults
    /\ run' = [run EXCEPT ![r] = Idle]
    /\ faults' = faults + 1
    /\ UNCHANGED <<kto, spots, watermark, now, changes>>

Step(r) == ReadPage(r) \/ WritePage(r) \/ Hide(r) \/ Finish(r)

Next ==
    \/ Tick \/ StartDaily \/ StartFull
    \/ \E s \in Spots : Modify(s) \/ Drop(s)
    \/ \E r \in Runs : Step(r) \/ Fail(r)

Spec == Init /\ [][Next]_vars

\* The daily run is scheduled for ever and a run that is not killed goes on.
\* Nothing is assumed of the weekly run's start, which may be skipped, of KTO,
\* of the clock or of failures.
FairSpec ==
    /\ Spec /\ WF_vars(StartDaily)
    /\ \A r \in Runs : WF_vars(Step(r))

--------------------------------------------------------------------------------
\* A day is asked for again only while the watermark has not passed it, so
\* what KTO lists of the days before the watermark's has been taken over as
\* it is.  (daily.py: a date that was skipped is never asked for again.)
NothingSkipped ==
    watermark # None => \A s \in Listed :
        Day(kto[s].stamp) < Day(watermark) =>
            spots[s] # None /\ spots[s].stamp = kto[s].stamp

\* A stored row is never replaced by an older one, though a page read before a
\* modification may be written after the other run stored it; and a spot on show
\* is hidden only when KTO reports it hidden, or no longer lists it: "the full run
\* catches only spots that vanished from the list" (architecture.md:294).
RowsAreKept ==
    [][\A s \in Spots : spots[s] # None =>
          /\ spots'[s] # None /\ spots'[s].stamp >= spots[s].stamp
          /\ s \in Visible(spots) \ Visible(spots') =>
                s \notin Listed \/ spots'[s].stamp > spots[s].stamp]_vars

\* Whatever failed, was killed or overlapped, once KTO stays as it is the daily
\* run alone takes over every spot it lists, however many days were missed, until
\* the gap is beyond MaxCatchupMonths; and the weekly run, as long as it is
\* started again, hides what KTO no longer lists, unless KTO lists nothing or
\* less than half of what is on show.
CatalogueCatchesUp ==
    /\ <>[](TooOld(watermark) \/ \A s \in Listed : spots[s] = Item(s))
    /\ []<>(run["full"].pc # "idle") =>
         <>[](\/ Visible(spots) \subseteq Listed
              \/ Listed = {} \/ 2 * Cardinality(Listed) < Cardinality(Visible(spots)))
================================================================================
