-------------------------- MODULE ConcentrationSync --------------------------
(****************************************************************************)
(* The daily sync of KTO's forecast of crowds                                *)
(* (backend/scripts/sync_concentration.py): it asks for one sigungu after    *)
(* the other, matches the names KTO uses with titles of spots, and writes    *)
(* all it has found into two tables at the end: a snapshot with one row for  *)
(* each spot and a ledger with one row for each spot and day.                *)
(****************************************************************************)
EXTENDS Naturals, Sequences, SequencesExt

CONSTANTS
    Places,        \* the spots that are shown and have a photo
    Sigungus,      \* the sigungus, in the order of their codes
    SigunguOf,     \* where a spot lies
    Called,        \* _normalize of a spot's title
    Normal,        \* _normalize of the names KTO uses
    Forecasts,     \* what KTO may answer: rows [name, ahead, rate], ahead = days
                   \* after today; rate = NoRate where it cannot be read
    NoRate,
    LastDay,       \* bound: the last day
    SyncFaults,    \* bound: answers that fail
    NoRow

Days == 0..(LastDay + 1)

ASSUME ConcentrationAssumption ==
    /\ LastDay \in Nat /\ SyncFaults \in Nat
    /\ NoRow \notin [rate : Nat, ymd : Nat, name : DOMAIN Normal, sigungu : Range(Sigungus)]
    /\ NoRow \notin Nat /\ NoRate \notin Nat
    /\ \A s \in Places : SigunguOf[s] \in Range(Sigungus)
    /\ Sigungus \in Seq(Range(Sigungus))
    /\ \A i, k \in DOMAIN Sigungus : i # k => Sigungus[i] # Sigungus[k]
    /\ Forecasts \subseteq Seq([name : DOMAIN Normal, ahead : {0, 1}, rate : Nat \cup {NoRate}])

VARIABLES
    today,
    snapshot,    \* spot_concentration
    ledger,      \* spot_concentration_daily
    sync,        \* the process: sigungus it has still to ask, rows to be written
    syncFaults

concentrationVars == <<today, snapshot, ledger, sync, syncFaults>>

Asleep == [pc |-> "idle", left |-> <<>>, found |-> {}]

ConcentrationInit ==
    /\ today = 0
    /\ snapshot = [s \in Places |-> NoRow]
    /\ ledger = [s \in Places |-> [d \in Days |-> NoRow]]
    /\ sync = Asleep /\ syncFaults = 0

\* The daily workflow, or the same by hand.
SyncStarts ==
    /\ sync.pc = "idle"
    /\ sync' = [pc |-> "ask", left |-> Sigungus, found |-> {}]
    /\ UNCHANGED <<today, snapshot, ledger, syncFaults>>

Readable(answer) == {i \in DOMAIN answer : answer[i].rate # NoRate}

\* The readable rows of a name.
RowsOf(answer, name) == {i \in Readable(answer) : answer[i].name = name}

\* _collection_day_rate: of each name the row of its earliest day, the first of
\* several.
CollectionDayRate(answer) ==
    {i \in Readable(answer) : \A j \in RowsOf(answer, answer[i].name) \ {i} :
        answer[i].ahead < answer[j].ahead \/ (answer[i].ahead = answer[j].ahead /\ i < j)}

\* by_norm: which spot of the sigungu has a name; of several with the same one it
\* is the first the query returned, and the query states no order.
ByNorm(sigungu) ==
    LET here == {s \in Places : SigunguOf[s] = sigungu}
    IN  {names \in [{Called[s] : s \in here} -> here] : \A n \in DOMAIN names : Called[names[n]] = n}

\* upsert_rows of one sigungu.  A name keeps the place where it came first (at),
\* also when a later row of it is of an earlier day.
Matched(answer, byNorm, sigungu) ==
    {[spot |-> byNorm[Normal[answer[i].name]], rate |-> answer[i].rate, ymd |-> today + answer[i].ahead,
      name |-> answer[i].name, sigungu |-> sigungu, at |-> RowsOf(answer, answer[i].name)]
        : i \in {k \in CollectionDayRate(answer) : Normal[answer[k].name] \in DOMAIN byNorm}}

AskSigungu(answer, byNorm) ==
    /\ sync.pc = "ask" /\ sync.left # <<>>
    /\ sync' = [sync EXCEPT !.left = Tail(@), !.found = @ \cup Matched(answer, byNorm, Head(sync.left))]
    /\ UNCHANGED <<today, snapshot, ledger, syncFaults>>

\* An exception or a result code: the sigungu is left out of this run.
SigunguFails ==
    /\ sync.pc = "ask" /\ sync.left # <<>>
    /\ syncFaults < SyncFaults /\ syncFaults' = syncFaults + 1
    /\ sync' = [sync EXCEPT !.left = Tail(@)]
    /\ UNCHANGED <<today, snapshot, ledger>>

\* deduped: of each spot the row with the highest rate, the first of several; they
\* are of one answer, since a spot lies in one sigungu.
CameBefore(q, r) == \E i \in q.at : \A j \in r.at : i < j

Deduped(rows) ==
    {r \in rows : \A q \in rows \ {r} :
        q.spot = r.spot => q.rate < r.rate \/ (q.rate = r.rate /\ CameBefore(r, q))}

\* Slip: a day that is in the ledger is left as it is.
LedgerOnce(rows) ==
    [s \in Places |-> [d \in Days |->
        LET row == {r \in rows : r.spot = s /\ r.ymd = d}
        IN  IF row = {} \/ ledger[s][d] # NoRow THEN ledger[s][d] ELSE (CHOOSE r \in row : TRUE).rate]]

LedgerWith(rows) ==
    [s \in Places |-> [d \in Days |->
        LET row == {r \in rows : r.spot = s /\ r.ymd = d}
        IN  IF row = {} THEN ledger[s][d] ELSE (CHOOSE r \in row : TRUE).rate]]

SnapshotWith(rows) ==
    [s \in Places |->
        LET row == {r \in rows : r.spot = s}
        IN  IF row = {} THEN snapshot[s]
            ELSE LET r == CHOOSE r \in row : TRUE
                 IN  [rate |-> r.rate, ymd |-> r.ymd, name |-> r.name, sigungu |-> r.sigungu]]

\* persist_rows and its commit.
PersistRows ==
    /\ sync.pc = "ask" /\ sync.left = <<>>
    /\ snapshot' = SnapshotWith(Deduped(sync.found))
    /\ ledger' = LedgerWith(Deduped(sync.found))
    /\ sync' = Asleep
    /\ UNCHANGED <<today, syncFaults>>

\* The process dies, or the statement fails: nothing of the run is kept.
SyncDies ==
    /\ sync.pc = "ask"
    /\ syncFaults < SyncFaults /\ syncFaults' = syncFaults + 1
    /\ sync' = Asleep
    /\ UNCHANGED <<today, snapshot, ledger>>

Midnight ==
    /\ today < LastDay /\ today' = today + 1
    /\ UNCHANGED <<snapshot, ledger, sync, syncFaults>>

ConcentrationNext ==
    \/ SyncStarts \/ SigunguFails \/ PersistRows \/ SyncDies \/ Midnight
    \/ \E answer \in Forecasts : sync.left # <<>> /\ \E byNorm \in ByNorm(Head(sync.left)) : AskSigungu(answer, byNorm)

---------------------------------------------------------------------------
\* Properties.

\* What a spot's card says of the crowd is what the ledger says of that day,
\* however often a day was synced and whatever day KTO's answer begins with; and
\* it is the rate of a place with the spot's own name in its own sigungu, though
\* the names are KTO's and many sigungus have a place of one name.
CrowdsAreOwn ==
    \A s \in Places : snapshot[s] # NoRow =>
        /\ ledger[s][snapshot[s].ymd] = snapshot[s].rate
        /\ Normal[snapshot[s].name] = Called[s] /\ snapshot[s].sigungu = SigunguOf[s]
==============================================================================
