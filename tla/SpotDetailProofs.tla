---- MODULE SpotDetailProofs ----
(***************************************************************************)
(* What the detail cache promises for any number of requests, versions,    *)
(* faults and any clock.                                                   *)
(***************************************************************************)
EXTENDS SpotDetail, TLAPS

LEMMA IdleSlot == Idle \in Slot
BY DEF Idle, Slot, PC, AllKinds, Maybe, Version

\* Assigning one field a value of its type keeps a slot a slot.
LEMMA SlotField ==
    ASSUME NEW s \in Slot
    PROVE  /\ \A v \in PC : [s EXCEPT !.pc = v] \in Slot
           /\ \A v \in AllKinds \cup {"refresh"} : [s EXCEPT !.kind = v] \in Slot
           /\ \A v \in Version : [s EXCEPT !.mod = v] \in Slot
           /\ \A v \in Maybe(Cache) : [s EXCEPT !.cache = v] \in Slot
           /\ \A v \in BOOLEAN : [s EXCEPT !.frontFresh = v] \in Slot
           /\ \A v \in BOOLEAN : [s EXCEPT !.held = v] \in Slot
           /\ \A v \in Maybe({"fresh", "stale", "pending", "unavailable"}) :
                [s EXCEPT !.status = v] \in Slot
           /\ \A v \in [Ops -> Version \cup {Failed, None}] :
                [s EXCEPT !.got = v] \in Slot
BY DEF Slot

LEMMA InitType == Init => TypeOK
<1> SUFFICES ASSUME Init PROVE TypeOK
  OBVIOUS
<1>1. req \in [Requests -> Slot]
  BY IdleSlot DEF Init
<1>2. JobIdle = [pc |-> "idle", got |-> 0]
  BY DEF JobIdle, Empty
<1>3. /\ prewarm \in [pc : {"idle", "fetch", "persist"}, got : Version]
      /\ gallery \in [pc : {"idle", "persist", "invalidate"}, got : Version]
  BY <1>2, <1>1, IdleSlot, SlotField DEF Init, Version
<1> QED
  BY <1>1, <1>3 DEF Init, TypeOK, Maybe, Version, Empty

LEMMA PCs ==
    /\ \A p \in {"idle", "context", "front", "row", "images", "answer", "fetch",
                 "persist", "setFront", "reply", "backoff", "lock", "setBackoff",
                 "unlock"} : p \in PC
    /\ \A k \in AllKinds : k \in AllKinds \cup {"refresh"}
    /\ "refresh" \in AllKinds \cup {"refresh"}
    /\ \A s \in {"fresh", "stale", "pending", "unavailable"} :
          s \in Maybe({"fresh", "stale", "pending", "unavailable"})
BY DEF PC, Maybe

\* TypeOK is not inductive alone: a persist writes what the fetch left, so no call
\* may still be open there, and images are added to a copy that must exist.
Settled ==
    \A r \in Requests :
        /\ req[r].pc = "images" => req[r].cache # None
        /\ req[r].pc = "persist" => \A o \in Ops : req[r].got[o] # None

\* What a settled fetch makes of the cached copy and of the row.
LEMMA MergedType ==
    ASSUME TypeOK, NEW got \in [Ops -> Version \cup {Failed}],
           NEW cache \in Maybe(Cache)
    PROVE  /\ Merged(got, cache) \in Cache
           /\ Upserted(got) \in Row
BY DEF TypeOK, Merged, Upserted, Complete, Ops, Maybe, Row, Cache, Version, Failed,
       Empty, NeverCached

\* Every step of a request leaves a slot in every slot.
LEMMA RequestSlots ==
    ASSUME TypeOK, Settled, NEW r \in Requests, RequestStep(r) \/ Crash(r)
    PROVE  req' \in [Requests -> Slot]
<1>1. req \in [Requests -> Slot] /\ req[r] \in Slot
  BY DEF TypeOK
<1>2. CASE \E kind \in Kinds : Begin(r, kind)
  <2>1. PICK kind \in Kinds : Begin(r, kind)
    BY <1>2
  <2>2. [Idle EXCEPT !.pc = "context"] \in Slot
    BY IdleSlot, SlotField, PCs
  <2>3. [[Idle EXCEPT !.pc = "context"] EXCEPT !.kind = kind] \in Slot
    BY <2>2, SlotField, PCs, DetailAssumption
  <2> QED
    BY <1>1, <2>1, <2>3 DEF Begin
<1>3. CASE LoadContext(r)
  <2>1. spot \in Version
    BY DEF TypeOK
  <2> QED
    BY <1>1, <1>3, <2>1, IdleSlot, SlotField, PCs DEF LoadContext, Raise
<1>4. CASE GetFront(r)
  <2>1. front \in Maybe(Cache) /\ None \in Maybe(Cache)
    BY DEF TypeOK, Maybe
  <2>2. ASSUME NEW cache \in Maybe(Cache), FrontRead(r, cache)
        PROVE  req' \in [Requests -> Slot]
    BY <1>1, <2>2, SlotField, PCs DEF FrontRead
  <2> QED
    BY <1>4, <2>1, <2>2 DEF GetFront
<1>5. CASE ReadRow(r)
  <2>1. detail # None =>
          [common |-> detail.common, intro |-> detail.intro, images |-> Empty,
           cachedAt |-> detail.cachedAt] \in Maybe(Cache)
    BY DEF TypeOK, Maybe, Row, Cache, Empty
  <2> QED
    BY <1>1, <1>5, <2>1, SlotField, PCs DEF ReadRow, Goto
<1>6. CASE ReadImages(r)
  <2>1. req[r].cache \in Cache
    BY <1>1, <1>6 DEF Settled, ReadImages, Slot, Maybe
  <2>2. images \in Nat
    BY DEF TypeOK, Version
  <2>3. [req[r].cache EXCEPT !.images = images] \in Cache
    BY <2>1, <2>2 DEF Cache
  <2>4. [req[r].cache EXCEPT !.images = images] \in Maybe(Cache)
    BY <2>3 DEF Maybe
  <2>5. [req[r] EXCEPT !.pc = "answer"] \in Slot
    BY <1>1, SlotField, PCs
  <2>6. [[req[r] EXCEPT !.pc = "answer"]
            EXCEPT !.cache = [req[r].cache EXCEPT !.images = images]] \in Slot
    BY <2>4, <2>5, SlotField
  <2>7. req' = [req EXCEPT ![r] = [[req[r] EXCEPT !.pc = "answer"]
            EXCEPT !.cache = [req[r].cache EXCEPT !.images = images]]]
    BY <1>6 DEF ReadImages
  <2> QED
    BY <1>1, <2>6, <2>7
<1>7. CASE AnswerFromCache(r)
  <2>1. req[r].cache \in Maybe(Cache)
    BY <1>1 DEF Slot
  <2> QED
    BY <1>1, <1>7, <2>1, SlotField, PCs DEF AnswerFromCache, Reply, Goto
<1>8. CASE AnswerDeferred(r)
  <2>1. req[r].cache \in Maybe(Cache) /\ None \in Maybe(Cache)
    BY <1>1 DEF Slot, Maybe
  <2> QED
    BY <1>1, <1>8, <2>1, SlotField, PCs DEF AnswerDeferred, Reply
<1>9. CASE StartFetch(r)
  <2>1. [o \in Ops |-> None] \in [Ops -> Version \cup {Failed, None}]
    OBVIOUS
  <2> QED
    BY <1>1, <1>9, <2>1, SlotField, PCs DEF StartFetch
<1>10. CASE \E o \in Ops : FetchOp(r, o)
  <2>1. PICK o \in Ops : FetchOp(r, o)
    BY <1>10
  <2>2. /\ req[r].got \in [Ops -> Version \cup {Failed, None}]
        /\ kto \in Version
    BY <1>1 DEF Slot, TypeOK
  <2>3. \A v \in Version \cup {Failed, None} :
          [req[r].got EXCEPT ![o] = v] \in [Ops -> Version \cup {Failed, None}]
    BY <2>2
  <2> QED
    BY <1>1, <2>1, <2>2, <2>3, SlotField DEF FetchOp
<1>11. CASE FetchTimeout(r)
  <2>1. req[r].cache \in Maybe(Cache)
    BY <1>1 DEF Slot
  <2> QED
    BY <1>1, <1>11, <2>1, SlotField, PCs DEF FetchTimeout, Unavailable, Reply
<1>12. CASE FetchSettled(r)
  <2>1. req[r].cache \in Maybe(Cache)
    BY <1>1 DEF Slot
  <2> QED
    BY <1>1, <1>12, <2>1, SlotField, PCs DEF FetchSettled, Unavailable, Reply, Goto
<1>13. CASE Persist(r)
  <2>1. /\ req[r].got \in [Ops -> Version \cup {Failed}]
        /\ req[r].cache \in Maybe(Cache)
    BY <1>1, <1>13 DEF Settled, Persist, Slot
  <2>2. Merged(req[r].got, req[r].cache) \in Maybe(Cache)
    BY <2>1, MergedType DEF Maybe
  <2> QED
    BY <1>1, <1>13, <2>2, SlotField, PCs DEF Persist, Reply
<1>14. CASE SetFront(r)
  <2>1. req[r].cache \in Maybe(Cache)
    BY <1>1 DEF Slot
  <2> QED
    BY <1>1, <1>14, <2>1, SlotField, PCs DEF SetFront, Reply
<1>15. CASE SqlFails(r)
  BY <1>1, <1>15, IdleSlot, SlotField, PCs DEF SqlFails, Raise
<1>16. CASE Return(r)
  <2>1. req[r].held \in BOOLEAN
    BY <1>1 DEF Slot
  <2> QED
    BY <1>1, <1>16, <2>1, IdleSlot, SlotField, PCs DEF Return
<1>17. CASE CheckBackoff(r)
  BY <1>1, <1>17, IdleSlot, SlotField, PCs DEF CheckBackoff, Goto
<1>18. CASE AcquireLock(r)
  BY <1>1, <1>18, IdleSlot, SlotField, PCs DEF AcquireLock, Goto
<1>19. CASE SetBackoff(r)
  BY <1>1, <1>19, SlotField, PCs DEF SetBackoff, Goto
<1>20. CASE Unlock(r)
  BY <1>1, <1>20, IdleSlot DEF Unlock
<1>21. CASE Crash(r)
  BY <1>1, <1>21, IdleSlot DEF Crash
<1> QED
  BY <1>2, <1>3, <1>4, <1>5, <1>6, <1>7, <1>8, <1>9, <1>10, <1>11, <1>12, <1>13,
     <1>14, <1>15, <1>16, <1>17, <1>18, <1>19, <1>20, <1>21
  DEF RequestStep, LoadStep, RefreshStep

\* A step of a request touches neither the other slots, nor KTO, nor the jobs.
LEMMA RequestFrame ==
    ASSUME TypeOK, NEW r \in Requests, RequestStep(r) \/ Crash(r)
    PROVE  /\ \A s \in Requests : s # r => req'[s] = req[s]
           /\ UNCHANGED <<env, jobs>>
<1>1. req \in [Requests -> Slot]
  BY DEF TypeOK
<1> QED
  BY <1>1 DEF RequestStep, LoadStep, RefreshStep, Begin, LoadContext, GetFront,
     FrontRead, ReadRow, ReadImages, AnswerFromCache, AnswerDeferred, StartFetch,
     FetchOp, FetchTimeout, FetchSettled, Persist, SetFront, SqlFails, Return,
     CheckBackoff, AcquireLock, SetBackoff, Unlock, Crash, Raise, Goto, Reply,
     Unavailable

\* How the program counter of a slot moves to the two steps Settled speaks of.
LEMMA SettledSlot ==
    ASSUME TypeOK, Settled, NEW r \in Requests, RequestStep(r) \/ Crash(r)
    PROVE  /\ req'[r].pc = "images" => req'[r].cache # None
           /\ req'[r].pc = "persist" => \A o \in Ops : req'[r].got[o] # None
<1>1. req \in [Requests -> Slot] /\ req[r] \in Slot
  BY DEF TypeOK
<1>2. Idle.pc = "idle"
  BY DEF Idle
<1>3. CASE ReadRow(r)
  <2>1. detail # None =>
          [common |-> detail.common, intro |-> detail.intro, images |-> Empty,
           cachedAt |-> detail.cachedAt] \in Cache
    BY DEF TypeOK, Maybe, Row, Cache, Empty
  <2>2. detail # None =>
          [common |-> detail.common, intro |-> detail.intro, images |-> Empty,
           cachedAt |-> detail.cachedAt] # None
    BY <2>1, DetailAssumption DEF Cache
  <2> QED
    BY <1>1, <1>3, <2>2 DEF ReadRow, Goto, Slot
<1>4. CASE FetchSettled(r)
  BY <1>1, <1>4 DEF FetchSettled, Goto, Unavailable, Reply, Slot
<1>5. CASE \E kind \in Kinds : Begin(r, kind)
  BY <1>1, <1>2, <1>5 DEF Begin, Idle, Slot
<1>6. CASE LoadContext(r)
  BY <1>1, <1>2, <1>6 DEF LoadContext, Raise, Slot
<1>7. CASE GetFront(r)
  BY <1>1, <1>2, <1>7 DEF GetFront, FrontRead, Slot
<1>8. CASE ReadImages(r)
  BY <1>1, <1>2, <1>8 DEF ReadImages, Slot
<1>9. CASE AnswerFromCache(r)
  BY <1>1, <1>2, <1>9 DEF AnswerFromCache, Reply, Goto, Slot
<1>10. CASE AnswerDeferred(r)
  BY <1>1, <1>2, <1>10 DEF AnswerDeferred, Reply, Slot
<1>11. CASE StartFetch(r)
  BY <1>1, <1>2, <1>11 DEF StartFetch, Slot
<1>12. CASE \E o \in Ops : FetchOp(r, o)
  BY <1>1, <1>2, <1>12 DEF FetchOp, Slot
<1>13. CASE FetchTimeout(r)
  BY <1>1, <1>2, <1>13 DEF FetchTimeout, Unavailable, Reply, Slot
<1>14. CASE Persist(r)
  BY <1>1, <1>2, <1>14 DEF Persist, Reply, Slot
<1>15. CASE SetFront(r)
  BY <1>1, <1>2, <1>15 DEF SetFront, Reply, Slot
<1>16. CASE SqlFails(r)
  BY <1>1, <1>2, <1>16 DEF SqlFails, Raise, Slot
<1>17. CASE Return(r)
  BY <1>1, <1>2, <1>17 DEF Return, Idle, Slot
<1>18. CASE CheckBackoff(r)
  BY <1>1, <1>2, <1>18 DEF CheckBackoff, Goto, Slot
<1>19. CASE AcquireLock(r)
  BY <1>1, <1>2, <1>19 DEF AcquireLock, Goto, Slot
<1>20. CASE SetBackoff(r)
  BY <1>1, <1>2, <1>20 DEF SetBackoff, Goto, Slot
<1>21. CASE Unlock(r)
  BY <1>1, <1>2, <1>21 DEF Unlock, Slot
<1>22. CASE Crash(r)
  BY <1>1, <1>2, <1>22 DEF Crash, Slot
<1> QED
  BY <1>3, <1>4, <1>5, <1>6, <1>7, <1>8, <1>9, <1>10, <1>11, <1>12, <1>13, <1>14, <1>15, <1>16, <1>17, <1>18, <1>19, <1>20, <1>21, <1>22
  DEF RequestStep, LoadStep, RefreshStep

\* A step of a request keeps the types of what it writes outside its slot.
LEMMA RequestStores ==
    ASSUME TypeOK, Settled, NEW r \in Requests, RequestStep(r) \/ Crash(r)
    PROVE  /\ detail' \in Maybe(Row) /\ images' \in Version
           /\ front' \in Maybe(Cache) /\ lock' \in Maybe(Requests)
           /\ backoff' \in BOOLEAN /\ faults' \in Nat
<1>1. req \in [Requests -> Slot] /\ req[r] \in Slot
  BY DEF TypeOK
<1>2. CASE Persist(r)
  <2>1. /\ req[r].got \in [Ops -> Version \cup {Failed}]
        /\ req[r].cache \in Maybe(Cache)
    BY <1>1, <1>2 DEF Settled, Persist, Slot
  <2>2. Upserted(req[r].got) \in Row
    BY <2>1, MergedType
  <2>3. images' \in Version
    BY <1>2, <2>1 DEF Persist, TypeOK, Ops
  <2> QED
    BY <1>2, <2>2, <2>3 DEF Persist, TypeOK, Maybe, redis
<1>3. CASE SetFront(r)
  <2>1. req[r].cache \in Maybe(Cache)
    BY <1>1 DEF Slot
  <2> QED
    BY <1>3, <2>1 DEF SetFront, Fault, TypeOK, store
<1>4. CASE ~Persist(r) /\ ~SetFront(r)
  <2>1. UNCHANGED <<store, front>>
    BY <1>4 DEF RequestStep, LoadStep, RefreshStep, Begin, LoadContext, GetFront,
       ReadRow, ReadImages, AnswerFromCache, AnswerDeferred, StartFetch, FetchOp,
       FetchTimeout, FetchSettled, SqlFails, Return, CheckBackoff, AcquireLock,
       SetBackoff, Unlock, Crash, redis
  <2>2. lock' \in Maybe(Requests) /\ backoff' \in BOOLEAN
    BY <1>4 DEF RequestStep, LoadStep, RefreshStep, Begin, LoadContext, GetFront,
       ReadRow, ReadImages, AnswerFromCache, AnswerDeferred, StartFetch, FetchOp,
       FetchTimeout, FetchSettled, SqlFails, Return, CheckBackoff, AcquireLock,
       SetBackoff, Unlock, Crash, redis, TypeOK, Maybe
  <2>3. faults' = faults \/ faults' = faults + 1
    BY <1>4 DEF RequestStep, LoadStep, RefreshStep, Begin, LoadContext, GetFront,
       ReadRow, ReadImages, AnswerFromCache, AnswerDeferred, StartFetch, FetchOp,
       FetchTimeout, FetchSettled, SqlFails, Return, CheckBackoff, AcquireLock,
       SetBackoff, Unlock, Crash, Fault
  <2> QED
    BY <2>1, <2>2, <2>3 DEF TypeOK, store
<1> QED
  BY <1>2, <1>3, <1>4

LEMMA TypeStep ==
    TypeOK /\ Settled /\ [Next]_vars => TypeOK' /\ Settled'
<1> SUFFICES ASSUME TypeOK, Settled, [Next]_vars PROVE TypeOK' /\ Settled'
  OBVIOUS
<1>1. ASSUME NEW r \in Requests, RequestStep(r) \/ Crash(r)
      PROVE  TypeOK' /\ Settled'
  <2>1. TypeOK'
    BY <1>1, RequestSlots, RequestStores, RequestFrame DEF TypeOK, env, jobs
  <2>2. Settled'
    BY <1>1, SettledSlot, RequestFrame DEF Settled
  <2> QED
    BY <2>1, <2>2
<1>2. ASSUME ExpireStep \/ JobStep \/ SourceStep PROVE UNCHANGED req
  BY <1>2 DEF ExpireStep, JobStep, SourceStep, ExpireFront, ExpireLock,
     ExpireBackoff, PrewarmCollect, PrewarmFetch, PrewarmPersist, GalleryFetch,
     GalleryPersist, GalleryInvalidate, KtoModify, Tick, SyncRead, SyncWrite
<1>3. CASE ExpireStep
  BY <1>2, <1>3 DEF TypeOK, Settled, ExpireStep, ExpireFront, ExpireLock,
     ExpireBackoff, env, store, jobs, Maybe
<1>4. CASE SourceStep
  BY <1>2, <1>4 DEF TypeOK, Settled, SourceStep, KtoModify, Tick, SyncRead,
     SyncWrite, store, redis, jobs, Maybe, Version
<1>5. CASE JobStep
  <2>1. JobIdle = [pc |-> "idle", got |-> 0]
    BY DEF JobIdle, Empty
  <2>2. CASE PrewarmCollect
    BY <1>2, <1>5, <2>2 DEF TypeOK, Settled, PrewarmCollect, env, store, redis
  <2>3. CASE PrewarmFetch
    BY <1>2, <1>5, <2>1, <2>3 DEF TypeOK, Settled, PrewarmFetch, Fault, Version, env,
       store, redis
  <2>4. CASE PrewarmPersist
    <3>1. detail' \in Row
      BY <2>4 DEF TypeOK, PrewarmPersist, Row, Maybe, Version, Empty
    <3> QED
      BY <1>2, <1>5, <2>1, <2>4, <3>1 DEF TypeOK, Settled, PrewarmPersist, Version,
         Maybe, env, redis
  <2>5. CASE GalleryFetch
    BY <1>2, <1>5, <2>5 DEF TypeOK, Settled, GalleryFetch, env, store, redis
  <2>6. CASE GalleryPersist
    BY <1>2, <1>5, <2>6 DEF TypeOK, Settled, GalleryPersist, Version, Empty, env, redis
  <2>7. CASE GalleryInvalidate
    BY <1>2, <1>5, <2>1, <2>7 DEF TypeOK, Settled, GalleryInvalidate, Fault, Version,
       Maybe, env, store
  <2> QED
    BY <1>5, <2>2, <2>3, <2>4, <2>5, <2>6, <2>7 DEF JobStep
<1>6. CASE UNCHANGED vars
  BY <1>6 DEF vars, env, store, redis, jobs, TypeOK, Settled
<1> QED
  BY <1>1, <1>3, <1>4, <1>5, <1>6 DEF Next

\* Every variable keeps its type, and no fetch is persisted half open.
THEOREM TypeCorrect == Spec => [](TypeOK /\ Settled)
<1>1. Init => TypeOK /\ Settled
  <2>1. Idle.pc = "idle"
    BY DEF Idle
  <2> QED
    BY InitType, <2>1 DEF Init, Settled
<1> QED
  BY <1>1, TypeStep, PTL DEF Spec

----------------------------------------------------------------------------
(* The refresh lock.                                                       *)

\* What a step of a request does to the lock: it takes a free one, drops its own,
\* or leaves it; and a token is held only by whoever took it.
LEMMA LockStep ==
    ASSUME TypeOK, NEW r \in Requests, RequestStep(r) \/ Crash(r)
    PROVE  \/ lock = None /\ lock' = r
           \/ lock = r /\ lock' = None /\ req'[r] = Idle /\ req[r].pc = "unlock"
           \/ lock' = lock /\ (req'[r].held => req[r].held)
<1>1. req \in [Requests -> Slot] /\ req[r] \in Slot
  BY DEF TypeOK
<1>2. Idle.held = FALSE
  BY DEF Idle
<1>3. CASE AcquireLock(r)
  BY <1>1, <1>2, <1>3 DEF AcquireLock, Goto, Slot
<1>4. CASE Unlock(r)
  BY <1>1, <1>2, <1>4 DEF Unlock
<1>5. CASE \E kind \in Kinds : Begin(r, kind)
  BY <1>1, <1>2, <1>5 DEF Begin, Idle, redis, Slot
<1>6. CASE LoadContext(r)
  BY <1>1, <1>2, <1>6 DEF LoadContext, Raise, redis, Slot
<1>7. CASE GetFront(r)
  BY <1>1, <1>2, <1>7 DEF GetFront, FrontRead, redis, Slot
<1>8. CASE ReadRow(r)
  BY <1>1, <1>2, <1>8 DEF ReadRow, Goto, redis, Slot
<1>9. CASE ReadImages(r)
  BY <1>1, <1>2, <1>9 DEF ReadImages, redis, Slot
<1>10. CASE AnswerFromCache(r)
  BY <1>1, <1>2, <1>10 DEF AnswerFromCache, Reply, Goto, redis, Slot
<1>11. CASE AnswerDeferred(r)
  BY <1>1, <1>2, <1>11 DEF AnswerDeferred, Reply, redis, Slot
<1>12. CASE StartFetch(r)
  BY <1>1, <1>2, <1>12 DEF StartFetch, redis, Slot
<1>13. CASE \E o \in Ops : FetchOp(r, o)
  BY <1>1, <1>2, <1>13 DEF FetchOp, redis, Slot
<1>14. CASE FetchTimeout(r)
  BY <1>1, <1>2, <1>14 DEF FetchTimeout, Unavailable, Reply, redis, Slot
<1>15. CASE FetchSettled(r)
  BY <1>1, <1>2, <1>15 DEF FetchSettled, Unavailable, Reply, Goto, redis, Slot
<1>16. CASE Persist(r)
  BY <1>1, <1>2, <1>16 DEF Persist, Reply, redis, Slot
<1>17. CASE SetFront(r)
  BY <1>1, <1>2, <1>17 DEF SetFront, Reply, redis, Slot
<1>18. CASE SqlFails(r)
  BY <1>1, <1>2, <1>18 DEF SqlFails, Raise, redis, Slot
<1>19. CASE Return(r)
  BY <1>1, <1>2, <1>19 DEF Return, Idle, redis, Slot
<1>20. CASE CheckBackoff(r)
  BY <1>1, <1>2, <1>20 DEF CheckBackoff, Goto, redis, Slot
<1>21. CASE SetBackoff(r)
  BY <1>1, <1>2, <1>21 DEF SetBackoff, Goto, redis, Slot
<1>22. CASE Crash(r)
  BY <1>1, <1>2, <1>22 DEF Crash, redis, Slot
<1> QED
  BY <1>3, <1>4, <1>5, <1>6, <1>7, <1>8, <1>9, <1>10, <1>11, <1>12, <1>13, <1>14, <1>15, <1>16, <1>17, <1>18, <1>19, <1>20, <1>21, <1>22
  DEF RequestStep, LoadStep, RefreshStep

\* Every other step leaves the slots alone.
LEMMA OtherStep ==
    ASSUME ExpireStep \/ JobStep \/ SourceStep
    PROVE  UNCHANGED req
BY DEF ExpireStep, JobStep, SourceStep, ExpireFront, ExpireLock, ExpireBackoff,
   PrewarmCollect, PrewarmFetch, PrewarmPersist, GalleryFetch, GalleryPersist,
   GalleryInvalidate, KtoModify, Tick, SyncRead, SyncWrite

\* A refresher that outlived its lock never removes its successor's.
THEOREM LockSafe == Spec => LockRemovedByOwner
<1> DEFINE Removal == \A r \in Requests :
             lock = r /\ lock' # r /\ req' # req => req'[r] # req[r]
<1>1. TypeOK /\ [Next]_vars => Removal
  <2> SUFFICES ASSUME TypeOK, [Next]_vars, NEW r \in Requests,
                      lock = r, lock' # r, req' # req
               PROVE  req'[r] # req[r]
    OBVIOUS
  <2>1. PICK s \in Requests : RequestStep(s) \/ Crash(s)
    BY OtherStep DEF Next, vars
  <2>2. r # None
    BY DetailAssumption
  <2>3. s = r /\ req'[r] = Idle /\ req[r].pc = "unlock"
    BY <2>1, <2>2, LockStep
  <2> QED
    BY <2>3 DEF Idle
<1>2. TypeOK /\ [Next]_vars => [Removal]_vars
  BY <1>1
<1> QED
  BY <1>2, TypeCorrect, PTL DEF Spec, LockRemovedByOwner

\* While no lock expires under a refresher that holds its token, the token names
\* the owner in redis.
TokenIsLock == \A r \in Requests : req[r].held => lock = r

\* Two refreshers never hold tokens at once unless a lock is outlived.
THEOREM RefreshIsExclusive == ~LockOutlived /\ Spec => []RefreshExclusive
<1> SUFFICES ASSUME ~LockOutlived PROVE Spec => []RefreshExclusive
  OBVIOUS
<1>1. Init => TokenIsLock
  <2>1. Idle.held = FALSE
    BY DEF Idle
  <2> QED
    BY <2>1 DEF Init, TokenIsLock
<1>2. TypeOK /\ TokenIsLock /\ [Next]_vars => TokenIsLock'
  <2> SUFFICES ASSUME TypeOK, TokenIsLock, [Next]_vars PROVE TokenIsLock'
    OBVIOUS
  <2>1. ASSUME NEW r \in Requests, RequestStep(r) \/ Crash(r)
        PROVE  TokenIsLock'
    <3>1. \A s \in Requests : s # r => req'[s] = req[s]
      BY <2>1, RequestFrame
    <3>2. Idle.held = FALSE /\ r # None
      BY DetailAssumption DEF Idle
    <3> QED
      BY <2>1, <3>1, <3>2, LockStep, DetailAssumption DEF TokenIsLock
  <2>2. CASE ExpireStep
    BY <2>2, OtherStep DEF ExpireStep, ExpireFront, ExpireLock, ExpireBackoff,
       TokenIsLock
  <2>3. CASE JobStep
    BY <2>3, OtherStep DEF JobStep, PrewarmCollect, PrewarmFetch, PrewarmPersist,
       GalleryFetch, GalleryPersist, GalleryInvalidate, TokenIsLock, redis
  <2>4. CASE SourceStep
    BY <2>4, OtherStep DEF SourceStep, KtoModify, Tick, SyncRead, SyncWrite,
       TokenIsLock, redis
  <2>5. CASE UNCHANGED vars
    BY <2>5 DEF vars, redis, TokenIsLock
  <2> QED
    BY <2>1, <2>2, <2>3, <2>4, <2>5 DEF Next
<1>3. TokenIsLock => RefreshExclusive
  BY DEF TokenIsLock, RefreshExclusive
<1> QED
  BY <1>1, <1>2, <1>3, TypeCorrect, PTL DEF Spec

----------------------------------------------------------------------------
(* Cells, once filled, stay filled.                                        *)

\* Nothing that was fetched is empty, in whatever hands it is.
FetchedFilled ==
    /\ kto # Empty
    /\ \A r \in Requests, o \in Ops : req[r].got[o] # Empty
    /\ prewarm.pc = "persist" => prewarm.got # Empty
    /\ gallery.pc = "persist" => gallery.got # Empty

\* No statement empties a cell of the row or takes the images away.
CellsStay ==
    /\ detail # None => /\ detail' # None
                        /\ detail.common # Empty => detail'.common # Empty
                        /\ detail.intro # Empty => detail'.intro # Empty
    /\ images # Empty => images' # Empty

LEMMA RowIsNotNone == \A row \in Row : row # None
BY DetailAssumption DEF Row

\* What a step of a request leaves in the slot of its fetch.
LEMMA GotFilled ==
    ASSUME TypeOK, FetchedFilled, NEW r \in Requests, RequestStep(r) \/ Crash(r)
    PROVE  \A o \in Ops : req'[r].got[o] # Empty
<1>1. req \in [Requests -> Slot] /\ req[r] \in Slot /\ (\A o \in Ops : req[r].got[o] # Empty)
  BY DEF TypeOK, FetchedFilled
<1>2. /\ \A o \in Ops : Idle.got[o] # Empty
      /\ None # Empty /\ Failed # Empty /\ kto # Empty
  BY DetailAssumption DEF Idle, Empty, Failed, FetchedFilled
<1>3. CASE \E kind \in Kinds : Begin(r, kind)
  BY <1>1, <1>2, <1>3 DEF Begin, Idle, Slot
<1>4. CASE StartFetch(r)
  BY <1>1, <1>2, <1>4 DEF StartFetch, Slot
<1>5. CASE \E o \in Ops : FetchOp(r, o)
  BY <1>1, <1>2, <1>5 DEF FetchOp, Slot
<1>6. CASE Return(r) \/ Unlock(r) \/ Crash(r)
  <2>1. req'[r].got = Idle.got
    <3>1. CASE Return(r)
      BY <1>1, <3>1 DEF Return, Idle
    <3>2. CASE Unlock(r) \/ Crash(r)
      BY <1>1, <3>2 DEF Unlock, Crash, Idle
    <3> QED
      BY <1>6, <3>1, <3>2
  <2> QED
    BY <1>2, <2>1
<1>7. CASE LoadContext(r)
  BY <1>1, <1>2, <1>7 DEF LoadContext, Raise, Slot
<1>8. CASE GetFront(r)
  BY <1>1, <1>2, <1>8 DEF GetFront, FrontRead, Slot
<1>9. CASE ReadRow(r)
  BY <1>1, <1>2, <1>9 DEF ReadRow, Goto, Slot
<1>10. CASE ReadImages(r)
  BY <1>1, <1>2, <1>10 DEF ReadImages, Slot
<1>11. CASE AnswerFromCache(r)
  BY <1>1, <1>2, <1>11 DEF AnswerFromCache, Reply, Goto, Slot
<1>12. CASE AnswerDeferred(r)
  BY <1>1, <1>2, <1>12 DEF AnswerDeferred, Reply, Slot
<1>13. CASE FetchTimeout(r)
  BY <1>1, <1>2, <1>13 DEF FetchTimeout, Unavailable, Reply, Slot
<1>14. CASE FetchSettled(r)
  BY <1>1, <1>2, <1>14 DEF FetchSettled, Unavailable, Reply, Goto, Slot
<1>15. CASE Persist(r)
  BY <1>1, <1>2, <1>15 DEF Persist, Reply, Slot
<1>16. CASE SetFront(r)
  BY <1>1, <1>2, <1>16 DEF SetFront, Reply, Slot
<1>17. CASE SqlFails(r)
  BY <1>1, <1>2, <1>17 DEF SqlFails, Raise, Slot
<1>18. CASE CheckBackoff(r)
  BY <1>1, <1>2, <1>18 DEF CheckBackoff, Goto, Slot
<1>19. CASE AcquireLock(r)
  BY <1>1, <1>2, <1>19 DEF AcquireLock, Goto, Slot
<1>20. CASE SetBackoff(r)
  BY <1>1, <1>2, <1>20 DEF SetBackoff, Goto, Slot
<1> QED
  BY <1>3, <1>4, <1>5, <1>6, <1>7, <1>8, <1>9, <1>10, <1>11, <1>12, <1>13, <1>14, <1>15, <1>16, <1>17, <1>18, <1>19, <1>20
  DEF RequestStep, LoadStep, RefreshStep

LEMMA CellsStep ==
    ASSUME TypeOK, Settled, FetchedFilled, [Next]_vars
    PROVE  FetchedFilled' /\ CellsStay
<1>1. ASSUME NEW r \in Requests, RequestStep(r) \/ Crash(r)
      PROVE  FetchedFilled' /\ CellsStay
  <2>1. FetchedFilled'
    BY <1>1, GotFilled, RequestFrame DEF FetchedFilled, env, jobs
  <2>2. CASE Persist(r)
    <3> DEFINE got == req[r].got
    <3>1. got \in [Ops -> Version \cup {Failed}] /\ \A o \in Ops : got[o] # Empty
      BY <2>2 DEF Settled, Persist, TypeOK, Slot, FetchedFilled
    <3>2. detail' = Upserted(got) /\ (images' = IF got["images"] # Failed THEN got["images"] ELSE images)
      BY <2>2 DEF Persist
    <3>3. "common" \in Ops /\ "intro" \in Ops /\ "images" \in Ops
      BY DEF Ops
    <3> HIDE DEF got
    <3>4. Upserted(got) # None
      BY <3>1, MergedType, RowIsNotNone DEF Maybe
    <3>5. /\ detail # None /\ detail.common # Empty => Upserted(got).common # Empty
          /\ detail # None /\ detail.intro # Empty => Upserted(got).intro # Empty
      BY <3>1, <3>3 DEF Upserted
    <3> QED
      BY <2>1, <3>1, <3>2, <3>3, <3>4, <3>5 DEF CellsStay
  <2>3. CASE ~Persist(r)
    <3>1. UNCHANGED store
      BY <1>1, <2>3 DEF RequestStep, LoadStep, RefreshStep, Begin, LoadContext, GetFront,
         ReadRow, ReadImages, AnswerFromCache, AnswerDeferred, StartFetch, FetchOp,
         FetchTimeout, FetchSettled, SetFront, SqlFails, Return, CheckBackoff, AcquireLock,
         SetBackoff, Unlock, Crash
    <3> QED
      BY <2>1, <3>1 DEF CellsStay, store
  <2> QED
    BY <2>2, <2>3
<1>2. CASE JobStep
  <2>1. UNCHANGED <<req, kto>>
    BY <1>2, OtherStep DEF JobStep, PrewarmCollect, PrewarmFetch, PrewarmPersist, GalleryFetch,
       GalleryPersist, GalleryInvalidate, env
  <2>2. JobIdle.pc = "idle"
    BY DEF JobIdle
  <2>3. CASE PrewarmPersist
    <3> DEFINE row == [common |-> prewarm.got, cachedAt |-> now,
                       intro |-> IF detail = None THEN Empty ELSE detail.intro]
    <3>1. detail' = row /\ prewarm.got # Empty /\ UNCHANGED <<images, gallery>> /\ prewarm' = JobIdle
      BY <2>3 DEF PrewarmPersist, FetchedFilled
    <3>2. row \in Row
      BY DEF TypeOK, Maybe, Row, Version, Empty
    <3>3. row # None
      BY <3>2, RowIsNotNone
    <3> QED
      BY <2>1, <2>2, <3>1, <3>3 DEF FetchedFilled, CellsStay
  <2>4. CASE GalleryPersist
    BY <2>1, <2>2, <2>4 DEF GalleryPersist, FetchedFilled, CellsStay
  <2>5. CASE PrewarmCollect \/ PrewarmFetch \/ GalleryFetch \/ GalleryInvalidate
    BY <2>1, <2>2, <2>5 DEF PrewarmCollect, PrewarmFetch, GalleryFetch, GalleryInvalidate,
       FetchedFilled, CellsStay, store, TypeOK
  <2> QED
    BY <1>2, <2>3, <2>4, <2>5 DEF JobStep
<1>3. CASE ExpireStep \/ SourceStep
  BY <1>3, OtherStep DEF ExpireStep, SourceStep, ExpireFront, ExpireLock, ExpireBackoff, KtoModify,
     Tick, SyncRead, SyncWrite, FetchedFilled, CellsStay, TypeOK, env, store, jobs, Empty
<1>4. CASE UNCHANGED vars
  BY <1>4 DEF vars, env, store, jobs, FetchedFilled, CellsStay
<1> QED
  BY <1>1, <1>2, <1>3, <1>4 DEF Next

\* However many calls of a fetch fail, time out or are cut off, and whichever jobs
\* write beside it, a cell of the row or the images that were filled stay filled.
THEOREM CellsStayFilled == Spec => CellsSurvive
<1>1. Init => FetchedFilled
  <2>1. Idle.got = [o \in Ops |-> None] /\ JobIdle.pc = "idle"
    BY DEF Idle, JobIdle
  <2> QED
    BY <2>1, DetailAssumption DEF Init, FetchedFilled, Empty
<1>2. TypeOK /\ Settled /\ FetchedFilled /\ [Next]_vars => FetchedFilled' /\ [CellsStay]_vars
  BY CellsStep
<1>3. Spec => [][CellsStay]_vars
  BY <1>1, <1>2, TypeCorrect, PTL DEF Spec
<1> QED
  BY <1>3, PTL DEF CellsSurvive, CellsStay

----------------------------------------------------------------------------
(* Freshness.                                                              *)

\* The modification times somebody may compare a cached_at with.
Known ==
    {spot, kto} \cup {syncing} \cup {req[r].mod : r \in Requests}

\* Cells stamped at an instant are as new as every known modification before it.
Current(common, intro, pics, at) ==
    \A m \in Known \ {None} :
        at >= m => common >= m /\ intro >= m /\ pics >= m

CurrentCache(cache) ==
    Current(cache.common, cache.intro, cache.images, cache.cachedAt)

\* What a slot holds, by its program counter: nothing newer than KTO, in a fetch
\* KTO's present content, and in a copy about to be shown as fresh one that passed
\* the comparison.  `pics' are the images the slot would read now.
SlotOk(s, pics) ==
    /\ s.mod <= kto
    /\ s.cache # None =>
          /\ s.cache.cachedAt <= now
          /\ s.cache.common <= kto /\ s.cache.intro <= kto /\ s.cache.images <= kto
          /\ s.pc = "images" =>
                Current(s.cache.common, s.cache.intro, pics, s.cache.cachedAt)
          /\ s.pc \in {"row", "answer", "fetch", "persist", "setFront", "reply"} =>
                CurrentCache(s.cache)
    /\ s.pc \in {"fetch", "persist"} =>
          \A o \in Ops : s.got[o] \in {None, Failed, kto}
    /\ s.pc = "setFront" \/ (s.pc = "reply" /\ s.status = "fresh") =>
          s.cache # None /\ s.cache.cachedAt >= s.mod

\* The same for PostgreSQL's row and images and for redis's copy.
StoreOk(row, pics, copy) ==
    /\ pics <= kto
    /\ row # None =>
          /\ row.cachedAt <= now /\ row.common <= kto /\ row.intro <= kto
          /\ Current(row.common, row.intro, pics, row.cachedAt)
    /\ copy # None =>
          /\ copy.cachedAt <= now
          /\ copy.common <= kto /\ copy.intro <= kto /\ copy.images <= kto
          /\ CurrentCache(copy)

FreshInv ==
    /\ 0 < spot /\ spot <= kto /\ kto <= now /\ (syncing # None => syncing <= kto)
    /\ StoreOk(detail, images, front)
    /\ \A r \in Requests : SlotOk(req[r], images)
    /\ prewarm.pc # "persist" /\ prewarm.pc # "fetch"
    /\ gallery.pc = "persist" => gallery.got = kto

LEMMA KnownNat ==
    ASSUME TypeOK
    PROVE  \A m \in Known \ {None} : m \in Nat
BY DEF TypeOK, Known, Slot, Version, Maybe

LEMMA KnownNatNext ==
    ASSUME TypeOK'
    PROVE  \A m \in Known' \ {None} : m \in Nat
BY DEF TypeOK, Known, Slot, Version, Maybe

LEMMA CurrentNow ==
    ASSUME TypeOK, FreshInv, NEW at \in Nat
    PROVE  Current(kto, kto, kto, at)
<1>1. \A m \in Known \ {None} : m <= kto
  <2> SUFFICES ASSUME NEW m \in Known \ {None} PROVE m <= kto
    OBVIOUS
  <2>1. CASE m \in {spot, kto, syncing}
    BY <2>1 DEF FreshInv, TypeOK, Version
  <2>2. CASE \E r \in Requests : m = req[r].mod
    BY <2>2 DEF FreshInv, SlotOk
  <2> QED
    BY <2>1, <2>2 DEF Known
<1> QED
  BY <1>1, KnownNat DEF Current, TypeOK, Version

LEMMA CurrentNever ==
    ASSUME TypeOK, NEW c \in Nat, NEW i \in Nat, NEW p \in Nat
    PROVE  Current(c, i, p, 0)
BY KnownNat DEF Current

LEMMA IdleOk ==
    ASSUME TypeOK, NEW pics
    PROVE  /\ SlotOk(Idle, pics)
           /\ \A k, pc, h :
                /\ pc \in {"context", "backoff", "unlock", "setBackoff"}
                => SlotOk([Idle EXCEPT !.pc = pc, !.kind = k], pics)
BY DEF TypeOK, Version, SlotOk, Idle

\* What a settled fetch makes of a current copy, and of a current row.
LEMMA MergedCurrent ==
    ASSUME TypeOK, FreshInv, NEW got \in [Ops -> {Failed, kto}],
           NEW cache \in Maybe(Cache),
           cache # None => /\ CurrentCache(cache) /\ cache.cachedAt <= now
                           /\ cache.common <= kto /\ cache.intro <= kto
                           /\ cache.images <= kto
    PROVE  LET m == Merged(got, cache)
           IN /\ CurrentCache(m) /\ m.cachedAt <= now
              /\ m.common <= kto /\ m.intro <= kto /\ m.images <= kto
<1> DEFINE m == Merged(got, cache)
<1>0. got \in [Ops -> Version \cup {Failed}]
  BY DEF TypeOK
<1>1. m \in Cache
  BY <1>0, MergedType
<1>2. kto \in Nat /\ now \in Nat /\ kto <= now /\ kto # Failed
  BY DEF TypeOK, FreshInv, Version, Failed
<1>3. CASE Complete(got)
  <2>1. m = [common |-> kto, intro |-> kto, images |-> kto, cachedAt |-> now]
    BY <1>3, <1>2 DEF Merged, Complete, Ops
  <2> QED
    BY <2>1, <1>2, CurrentNow DEF CurrentCache
<1>4. CASE ~Complete(got) /\ cache = None
  <2>1. /\ m.common \in {0, kto} /\ m.intro \in {0, kto} /\ m.images \in {0, kto}
        /\ m.cachedAt = 0
    BY <1>4, <1>2 DEF Merged, Ops, Empty, NeverCached
  <2> QED
    BY <2>1, <1>2, CurrentNever DEF CurrentCache
<1>5. CASE ~Complete(got) /\ cache # None
  <2>1. cache \in Cache
    BY <1>5 DEF Maybe
  <2>2. /\ m.common \in {cache.common, kto} /\ m.intro \in {cache.intro, kto}
        /\ m.images \in {cache.images, kto} /\ m.cachedAt = cache.cachedAt
    BY <1>5, <1>2 DEF Merged, Ops
  <2>3. /\ m.common >= cache.common /\ m.intro >= cache.intro
        /\ m.images >= cache.images
        /\ cache.common \in Nat /\ cache.intro \in Nat /\ cache.images \in Nat
        /\ cache.cachedAt \in Nat
    BY <2>1, <2>2, <1>2, <1>5 DEF Cache
  <2>4. m.common \in Nat /\ m.intro \in Nat /\ m.images \in Nat
    BY <1>1 DEF Cache
  <2>5. Current(m.common, m.intro, m.images, cache.cachedAt)
    <3>1. Current(cache.common, cache.intro, cache.images, cache.cachedAt)
      BY <1>5 DEF CurrentCache
    <3> QED
      BY <2>3, <2>4, <3>1, KnownNat DEF Current
  <2> QED
    BY <1>5, <2>2, <2>5, <1>2, <2>1 DEF CurrentCache, Cache
<1> QED
  BY <1>3, <1>4, <1>5

LEMMA UpsertedCurrent ==
    ASSUME TypeOK, FreshInv, NEW got \in [Ops -> {Failed, kto}], NEW pics \in Version,
           pics = IF got["images"] # Failed THEN got["images"] ELSE images
    PROVE  /\ StoreOk(Upserted(got), pics, front)
           /\ pics >= images
<1> DEFINE u == Upserted(got)
<1>0. got \in [Ops -> Version \cup {Failed}]
  BY DEF TypeOK
<1>1. u \in Row
  BY <1>0, MergedType DEF Maybe
<1>2. /\ kto \in Nat /\ now \in Nat /\ kto <= now /\ kto # Failed
      /\ images \in Nat /\ images <= kto /\ pics \in {images, kto}
  BY DEF TypeOK, FreshInv, StoreOk, Version, Failed, Ops
<1>3. /\ u.cachedAt <= now /\ u.common <= kto /\ u.intro <= kto
      /\ Current(u.common, u.intro, pics, u.cachedAt)
  <2>1. CASE Complete(got)
    <3>1. u = [common |-> kto, intro |-> kto, cachedAt |-> now] /\ pics = kto
      BY <2>1, <1>2 DEF Upserted, Complete, Ops
    <3> QED
      BY <3>1, <1>2, CurrentNow
  <2>2. CASE ~Complete(got) /\ detail = None
    <3>1. u.common \in {0, kto} /\ u.intro \in {0, kto} /\ u.cachedAt = 0
      BY <2>2, <1>2 DEF Upserted, Ops, Empty, NeverCached
    <3> QED
      BY <3>1, <1>2, CurrentNever
  <2>3. CASE ~Complete(got) /\ detail # None
    <3>1. /\ detail.common \in Nat /\ detail.intro \in Nat /\ detail.cachedAt \in Nat
          /\ Current(detail.common, detail.intro, images, detail.cachedAt)
          /\ detail.cachedAt <= now /\ detail.common <= kto /\ detail.intro <= kto
      BY <2>3 DEF TypeOK, Row, Maybe, FreshInv, StoreOk
    <3>2. /\ u.common \in {detail.common, kto} /\ u.intro \in {detail.intro, kto}
          /\ u.cachedAt = detail.cachedAt
      BY <2>3, <1>2 DEF Upserted, Ops
    <3>3. u.common >= detail.common /\ u.intro >= detail.intro /\ pics >= images
      BY <3>1, <3>2, <1>2
    <3>4. Current(u.common, u.intro, pics, detail.cachedAt)
      BY <3>1, <3>2, <3>3, <1>2, KnownNat DEF Current
    <3> QED
      BY <3>1, <3>2, <3>4, <1>2
  <2> QED
    BY <2>1, <2>2, <2>3
<1> QED
  BY <1>2, <1>3 DEF StoreOk, FreshInv

\* Every step of a request leaves its slot and the stores in order, judged by the
\* modification times known before it, and learns no new one.
LEMMA RequestKeeps ==
    ASSUME TypeOK, Settled, FreshInv, NEW r \in Requests, RequestStep(r) \/ Crash(r)
    PROVE  /\ SlotOk(req'[r], images')
           /\ StoreOk(detail', images', front') /\ images' >= images
           /\ req'[r].mod \in {req[r].mod, spot, 0}
<1>1. req \in [Requests -> Slot] /\ req[r] \in Slot /\ SlotOk(req[r], images)
  BY DEF TypeOK, FreshInv
<1>2. StoreOk(detail, images, front) /\ images \in Nat /\ images >= images
  BY DEF TypeOK, FreshInv, Version
<1>3. Idle.mod = 0 /\ SlotOk(Idle, images)
  BY IdleOk DEF Idle
<1>4. spot \in Nat /\ kto \in Nat /\ now \in Nat /\ spot <= kto /\ kto <= now
  BY DEF TypeOK, FreshInv, Version
<1>5. CASE \E kind \in Kinds : Begin(r, kind)
  BY <1>1, <1>2, <1>3, <1>4, <1>5 DEF Begin, Idle, SlotOk, Slot, store, redis
<1>6. CASE LoadContext(r)
  BY <1>1, <1>2, <1>3, <1>4, <1>6 DEF LoadContext, Raise, SlotOk, Slot, store, redis
<1>7. CASE GetFront(r)
  BY <1>1, <1>2, <1>3, <1>4, <1>7 DEF GetFront, FrontRead, SlotOk, Slot, store, redis
<1>8. CASE ReadRow(r)
  <2>1. CASE detail = None
    BY <1>1, <1>2, <1>8, <2>1 DEF ReadRow, Goto, SlotOk, Slot, store, redis
  <2>2. CASE detail # None
    <3> DEFINE c == [common |-> detail.common, intro |-> detail.intro,
                     images |-> Empty, cachedAt |-> detail.cachedAt]
    <3>1. req'[r] = [[req[r] EXCEPT !.pc = "images"] EXCEPT !.cache = c]
      BY <1>1, <1>8, <2>2 DEF ReadRow
    <3>2. req'[r].pc = "images" /\ req'[r].cache = c /\ req'[r].mod = req[r].mod
      BY <1>1, <3>1 DEF Slot
    <3>3. /\ c.common <= kto /\ c.intro <= kto /\ c.images <= kto
          /\ c.cachedAt <= now
          /\ Current(c.common, c.intro, images, c.cachedAt)
      BY <1>2, <1>4, <2>2 DEF StoreOk, Empty
    <3>4. SlotOk(req'[r], images)
      BY <1>1, <3>2, <3>3 DEF SlotOk
    <3> QED
      BY <1>2, <1>8, <3>2, <3>4 DEF ReadRow, store, redis
  <2> QED
    BY <2>1, <2>2
<1>9. CASE ReadImages(r)
  <2> DEFINE c == [req[r].cache EXCEPT !.images = images]
  <2>1. req[r].cache \in Cache /\ req[r].cache # None /\ req[r].pc = "images"
    BY <1>1, <1>9 DEF Settled, ReadImages, Slot, Maybe
  <2>2. req'[r] = [[req[r] EXCEPT !.pc = "answer"] EXCEPT !.cache = c]
    BY <1>1, <1>9 DEF ReadImages
  <2>3. req'[r].pc = "answer" /\ req'[r].cache = c /\ req'[r].mod = req[r].mod
    BY <1>1, <2>2 DEF Slot
  <2>4. /\ c.common = req[r].cache.common /\ c.intro = req[r].cache.intro
        /\ c.cachedAt = req[r].cache.cachedAt /\ c.images = images
    BY <2>1 DEF Cache
  <2>5. /\ c.common <= kto /\ c.intro <= kto /\ c.images <= kto
        /\ c.cachedAt <= now /\ CurrentCache(c)
    BY <1>1, <1>2, <2>1, <2>4 DEF SlotOk, StoreOk, CurrentCache
  <2>6. SlotOk(req'[r], images)
    BY <1>1, <2>3, <2>5 DEF SlotOk
  <2> QED
    BY <1>2, <1>9, <2>3, <2>6 DEF ReadImages, store, redis
<1>10. CASE AnswerFromCache(r)
  BY <1>1, <1>2, <1>3, <1>4, <1>10 DEF AnswerFromCache, Answers, Serves, IsFresh, Reply, Goto, SlotOk, Slot, store, redis
<1>11. CASE AnswerDeferred(r)
  BY <1>1, <1>2, <1>3, <1>4, <1>11 DEF AnswerDeferred, Reply, SlotOk, Slot, store, redis
<1>12. CASE StartFetch(r)
  BY <1>1, <1>2, <1>3, <1>4, <1>12 DEF StartFetch, SlotOk, Slot, store, redis
<1>13. CASE \E o \in Ops : FetchOp(r, o)
  <2>1. PICK o \in Ops : FetchOp(r, o)
    BY <1>13
  <2>2. PICK v \in {Failed, kto} :
          req'[r] = [req[r] EXCEPT !.got = [req[r].got EXCEPT ![o] = v]]
    BY <1>1, <2>1 DEF FetchOp
  <2>3. /\ req'[r].pc = req[r].pc /\ req'[r].cache = req[r].cache
        /\ req'[r].mod = req[r].mod /\ req[r].pc = "fetch"
        /\ req'[r].got = [req[r].got EXCEPT ![o] = v]
    BY <1>1, <2>1, <2>2 DEF Slot, FetchOp
  <2>4. \A q \in Ops : req'[r].got[q] \in {None, Failed, kto}
    BY <1>1, <2>3 DEF SlotOk, Slot
  <2>5. SlotOk(req'[r], images)
    BY <1>1, <2>3, <2>4 DEF SlotOk
  <2> QED
    BY <1>2, <2>1, <2>3, <2>5 DEF FetchOp, store, redis
<1>14. CASE FetchTimeout(r)
  BY <1>1, <1>2, <1>3, <1>4, <1>14 DEF FetchTimeout, Unavailable, Reply, SlotOk, Slot, store, redis
<1>15. CASE FetchSettled(r)
  BY <1>1, <1>2, <1>3, <1>4, <1>15 DEF FetchSettled, Unavailable, Reply, Goto, SlotOk, Slot, store, redis
<1>16. CASE Persist(r)
  <2> DEFINE got == req[r].got
             m == Merged(got, req[r].cache)
  <2>1. /\ got \in [Ops -> {Failed, kto}]
        /\ req[r].cache \in Maybe(Cache) /\ req[r].pc = "persist"
    BY <1>1, <1>16 DEF Settled, Persist, Slot, SlotOk
  <2>2. req[r].cache # None =>
          /\ CurrentCache(req[r].cache) /\ req[r].cache.cachedAt <= now
          /\ req[r].cache.common <= kto /\ req[r].cache.intro <= kto
          /\ req[r].cache.images <= kto
    BY <1>1, <2>1 DEF SlotOk
  <2>3. /\ CurrentCache(m) /\ m.cachedAt <= now
        /\ m.common <= kto /\ m.intro <= kto /\ m.images <= kto
    BY <2>1, <2>2, MergedCurrent
  <2>4. m # None
    <3>1. got \in [Ops -> Version \cup {Failed}]
      BY <2>1 DEF TypeOK
    <3> QED
      BY <2>1, <3>1, MergedType, DetailAssumption DEF Cache
  <2>5. images' \in Version /\
        images' = IF got["images"] # Failed THEN got["images"] ELSE images
    BY <1>16, <2>1 DEF Persist, TypeOK, Ops
  <2>6. StoreOk(detail', images', front') /\ images' >= images
    BY <1>16, <2>1, <2>5, UpsertedCurrent DEF Persist, redis
  <2>7. CASE Complete(got)
    <3>1. /\ req'[r].pc = "setFront" /\ req'[r].cache = m
          /\ req'[r].mod = req[r].mod
      BY <1>1, <1>16, <2>7 DEF Persist, Slot
    <3>2. m.cachedAt = now
      BY <2>7 DEF Merged
    <3>3. req[r].mod \in Nat
      BY <1>1 DEF Slot, Version
    <3>4. SlotOk(req'[r], images')
      BY <1>1, <1>4, <2>3, <2>4, <3>1, <3>2, <3>3 DEF SlotOk
    <3> QED
      BY <2>6, <3>1, <3>4
  <2>8. CASE ~Complete(got)
    <3>1. /\ req'[r].pc = "reply" /\ req'[r].cache = m /\ req'[r].status = "stale"
          /\ req'[r].mod = req[r].mod
      BY <1>1, <1>16, <2>8 DEF Persist, Reply, Slot
    <3>2. SlotOk(req'[r], images')
      BY <1>1, <2>3, <2>4, <3>1 DEF SlotOk
    <3> QED
      BY <2>6, <3>1, <3>2
  <2> QED
    BY <2>7, <2>8
<1>17. CASE SetFront(r)
  <2>1. /\ req'[r].pc = "reply" /\ req'[r].cache = req[r].cache
        /\ req'[r].mod = req[r].mod /\ req[r].pc = "setFront"
    BY <1>1, <1>17 DEF SetFront, Reply, Slot
  <2>2. SlotOk(req'[r], images)
    BY <1>1, <2>1 DEF SlotOk
  <2>3. StoreOk(detail, images, req[r].cache)
    BY <1>1, <1>2, <2>1 DEF SlotOk, StoreOk
  <2> QED
    BY <1>2, <1>17, <2>1, <2>2, <2>3 DEF SetFront, store
<1>18. CASE SqlFails(r)
  BY <1>1, <1>2, <1>3, <1>4, <1>18 DEF SqlFails, Raise, SlotOk, Slot, store, redis
<1>19. CASE Return(r)
  BY <1>1, <1>2, <1>3, <1>4, <1>19 DEF Return, Idle, SlotOk, Slot, store, redis
<1>20. CASE CheckBackoff(r)
  BY <1>1, <1>2, <1>3, <1>4, <1>20 DEF CheckBackoff, Goto, SlotOk, Slot, store, redis
<1>21. CASE AcquireLock(r)
  BY <1>1, <1>2, <1>3, <1>4, <1>21 DEF AcquireLock, Goto, SlotOk, Slot, store, redis
<1>22. CASE SetBackoff(r)
  BY <1>1, <1>2, <1>3, <1>4, <1>22 DEF SetBackoff, Goto, SlotOk, Slot, store, redis
<1>23. CASE Unlock(r)
  BY <1>1, <1>2, <1>3, <1>4, <1>23 DEF Unlock, SlotOk, Slot, store, redis
<1>24. CASE Crash(r)
  BY <1>1, <1>2, <1>3, <1>4, <1>24 DEF Crash, SlotOk, Slot, store, redis
<1> QED
  BY <1>5, <1>6, <1>7, <1>8, <1>9, <1>10, <1>11, <1>12, <1>13, <1>14, <1>15, <1>16, <1>17, <1>18, <1>19, <1>20, <1>21, <1>22, <1>23, <1>24
  DEF RequestStep, LoadStep, RefreshStep

\* The invariant carries over a step that leaves every slot and store in order and
\* moves KTO and the clock forward, when no fetch is open across a modification.
LEMMA Carry ==
    ASSUME TypeOK, TypeOK', now' >= now, kto' >= kto,
           StoreOk(detail', images', front'),
           \A r \in Requests : SlotOk(req'[r], images'),
           \A m \in Known' \ {None} : m \in Known \/ m = 0 \/ m > now,
           kto' = kto \/ \A r \in Requests : req'[r].pc \notin {"fetch", "persist"}
    PROVE  /\ StoreOk(detail, images, front)'
           /\ \A r \in Requests : SlotOk(req[r], images)'
<1>1. now \in Nat /\ now' \in Nat /\ kto \in Nat /\ kto' \in Nat /\ images' \in Nat
  BY DEF TypeOK, Version
<1>2. ASSUME NEW c \in Nat, NEW i \in Nat, NEW p \in Nat, NEW at \in Nat, at <= now,
             Current(c, i, p, at)
      PROVE  \A m \in Known' \ {None} : at >= m => c >= m /\ i >= m /\ p >= m
  <2> TAKE m \in Known' \ {None}
  <2> HAVE at >= m
  <2>1. m \in Nat
    BY KnownNatNext
  <2>2. m \in Known \/ m = 0 \/ m > now
    OBVIOUS
  <2>3. CASE m \in Known
    <3>1. m \in Known \ {None}
      BY <2>3
    <3> QED
      BY <1>2, <3>1 DEF Current
  <2>4. CASE m = 0
    BY <1>2, <2>4
  <2>5. CASE m > now
    BY <1>1, <1>2, <2>1, <2>5
  <2> QED
    BY <2>2, <2>3, <2>4, <2>5
<1>3. StoreOk(detail, images, front)'
  <2>1. detail' # None => /\ detail'.common \in Nat /\ detail'.intro \in Nat
                          /\ detail'.cachedAt \in Nat
    BY DEF TypeOK, Maybe, Row
  <2>2. front' # None => /\ front'.common \in Nat /\ front'.intro \in Nat
                         /\ front'.images \in Nat /\ front'.cachedAt \in Nat
    BY DEF TypeOK, Maybe, Cache
  <2>3. detail' # None =>
          Current(detail.common, detail.intro, images, detail.cachedAt)'
    <3> SUFFICES ASSUME detail' # None
                 PROVE  Current(detail.common, detail.intro, images, detail.cachedAt)'
      OBVIOUS
    <3>1. /\ Current(detail'.common, detail'.intro, images', detail'.cachedAt)
          /\ detail'.cachedAt <= now
      BY DEF StoreOk
    <3>2. \A m \in Known' \ {None} : detail'.cachedAt >= m =>
            detail'.common >= m /\ detail'.intro >= m /\ images' >= m
      BY SMTT(60), <1>1, <1>2, <2>1, <3>1
    <3> QED
      BY <3>2 DEF Current
  <2>4. front' # None => CurrentCache(front)'
    <3> SUFFICES ASSUME front' # None PROVE CurrentCache(front)'
      OBVIOUS
    <3>1. /\ Current(front'.common, front'.intro, front'.images, front'.cachedAt)
          /\ front'.cachedAt <= now
      BY DEF StoreOk, CurrentCache
    <3>2. \A m \in Known' \ {None} : front'.cachedAt >= m =>
            front'.common >= m /\ front'.intro >= m /\ front'.images >= m
      BY SMTT(60), <1>1, <1>2, <2>2, <3>1
    <3> QED
      BY <3>2 DEF CurrentCache, Current
  <2> QED
    BY <1>1, <2>1, <2>2, <2>3, <2>4 DEF StoreOk
<1>4. ASSUME NEW r \in Requests PROVE SlotOk(req[r], images)'
  <2> DEFINE s == req'[r]
  <2>1. s \in Slot /\ SlotOk(s, images')
    BY DEF TypeOK
  <2>2. /\ s.mod \in Nat
        /\ s.cache # None => /\ s.cache.common \in Nat /\ s.cache.intro \in Nat
                             /\ s.cache.images \in Nat /\ s.cache.cachedAt \in Nat
    BY <2>1 DEF Slot, Maybe, Cache, Version
  <2>3. s.cache # None /\ s.pc = "images" =>
          Current(req[r].cache.common, req[r].cache.intro, images,
                  req[r].cache.cachedAt)'
    <3> SUFFICES ASSUME s.cache # None, s.pc = "images"
                 PROVE  Current(req[r].cache.common, req[r].cache.intro, images,
                                req[r].cache.cachedAt)'
      OBVIOUS
    <3>1. /\ Current(s.cache.common, s.cache.intro, images', s.cache.cachedAt)
          /\ s.cache.cachedAt <= now
      BY <2>1 DEF SlotOk
    <3>2. \A m \in Known' \ {None} : s.cache.cachedAt >= m =>
            s.cache.common >= m /\ s.cache.intro >= m /\ images' >= m
      BY SMTT(60), <1>1, <1>2, <2>2, <3>1
    <3> QED
      BY <3>2 DEF Current
  <2>4. s.cache # None
        /\ s.pc \in {"row", "answer", "fetch", "persist", "setFront", "reply"} =>
          CurrentCache(req[r].cache)'
    <3> SUFFICES ASSUME s.cache # None,
                        s.pc \in {"row", "answer", "fetch", "persist", "setFront",
                                  "reply"}
                 PROVE  CurrentCache(req[r].cache)'
      OBVIOUS
    <3>1. /\ Current(s.cache.common, s.cache.intro, s.cache.images, s.cache.cachedAt)
          /\ s.cache.cachedAt <= now
      BY <2>1 DEF SlotOk, CurrentCache
    <3>2. \A m \in Known' \ {None} : s.cache.cachedAt >= m =>
            s.cache.common >= m /\ s.cache.intro >= m /\ s.cache.images >= m
      BY SMTT(60), <1>1, <1>2, <2>2, <3>1
    <3> QED
      BY <3>2 DEF CurrentCache, Current
  <2>5. s.pc \in {"fetch", "persist"} =>
          \A o \in Ops : s.got[o] \in {None, Failed, kto'}
    BY <2>1 DEF SlotOk
  <2>6. s.pc = "setFront" \/ (s.pc = "reply" /\ s.status = "fresh") =>
          s.cache # None /\ s.cache.cachedAt >= s.mod
    BY <2>1 DEF SlotOk
  <2>7. /\ s.mod <= kto'
        /\ s.cache # None =>
             /\ s.cache.cachedAt <= now'
             /\ s.cache.common <= kto' /\ s.cache.intro <= kto'
             /\ s.cache.images <= kto'
    BY <1>1, <2>1, <2>2 DEF SlotOk
  <2> QED
    BY <2>3, <2>4, <2>5, <2>6, <2>7 DEF SlotOk
<1> QED
  BY <1>3, <1>4

\* A slot in order stays in order when the images table grows newer.
LEMMA PicsGrow ==
    ASSUME TypeOK, NEW r \in Requests, SlotOk(req[r], images),
           NEW pics \in Version, pics >= images
    PROVE  SlotOk(req[r], pics)
<1>1. req[r] \in Slot /\ images \in Nat /\ pics \in Nat
  BY DEF TypeOK, Version
<1>2. req[r].cache # None /\ req[r].pc = "images" =>
        Current(req[r].cache.common, req[r].cache.intro, pics, req[r].cache.cachedAt)
  BY <1>1, KnownNat DEF SlotOk, Current, Slot, Maybe, Cache
<1> QED
  BY <1>2 DEF SlotOk

LEMMA FreshInit == Init => FreshInv
<1> SUFFICES ASSUME Init PROVE FreshInv
  OBVIOUS
<1>1. TypeOK
  BY InitType
<1>2. JobIdle.pc = "idle"
  BY DEF JobIdle
<1>3. \A r \in Requests : SlotOk(req[r], images)
  BY <1>1, IdleOk DEF Init
<1>4. StoreOk(detail, images, front)
  BY DEF Init, StoreOk, Empty
<1> QED
  BY <1>2, <1>3, <1>4 DEF Init, FreshInv

LEMMA FreshStep ==
    ASSUME ~ModifyMidFetch, ~Prewarms, TypeOK, TypeOK', Settled, FreshInv, [Next]_vars
    PROVE  FreshInv'
<1>1. /\ now \in Nat /\ kto \in Nat /\ spot \in Nat /\ images \in Version
      /\ 0 < spot /\ spot <= kto /\ kto <= now
      /\ StoreOk(detail, images, front)
      /\ \A r \in Requests : SlotOk(req[r], images)
  BY DEF TypeOK, FreshInv, Version
<1>2. ASSUME NEW r \in Requests, RequestStep(r) \/ Crash(r)
      PROVE  FreshInv'
  <2>1. UNCHANGED <<env, jobs>> /\ \A s \in Requests : s # r => req'[s] = req[s]
    BY <1>2, RequestFrame
  <2>2. /\ SlotOk(req'[r], images')
        /\ StoreOk(detail', images', front') /\ images' >= images
        /\ req'[r].mod \in {req[r].mod, spot, 0}
    BY <1>2, RequestKeeps
  <2>3. images' \in Version
    BY DEF TypeOK
  <2>4. \A s \in Requests : SlotOk(req'[s], images')
    BY <1>1, <2>1, <2>2, <2>3, PicsGrow
  <2>5. \A m \in Known' \ {None} : m \in Known \/ m = 0 \/ m > now
    BY <2>1, <2>2 DEF Known, env
  <2>6. /\ StoreOk(detail, images, front)'
        /\ \A s \in Requests : SlotOk(req[s], images)'
    BY <1>1, <2>1, <2>2, <2>4, <2>5, Carry DEF env
  <2> QED
    BY <2>1, <2>6 DEF FreshInv, env, jobs
<1>3. ASSUME UNCHANGED <<req, now>>, UNCHANGED kto,
             \A m \in Known' \ {None} : m \in Known,
             StoreOk(detail', images', front'), images' >= images
      PROVE  /\ StoreOk(detail, images, front)'
             /\ \A r \in Requests : SlotOk(req[r], images)'
  <2>1. images' \in Version
    BY DEF TypeOK
  <2>2. \A s \in Requests : SlotOk(req'[s], images')
    BY <1>1, <1>3, <2>1, PicsGrow
  <2> QED
    BY <1>1, <1>3, <2>2, Carry
<1>4. CASE ExpireStep
  <2>1. UNCHANGED <<env, store, req, jobs>> /\ front' \in {front, None}
    BY <1>4 DEF ExpireStep, ExpireFront, ExpireLock, ExpireBackoff
  <2>2. StoreOk(detail', images', front') /\ images' >= images
    BY <1>1, <2>1 DEF StoreOk, store, Version
  <2>3. Known' = Known
    BY <2>1 DEF Known, env
  <2> QED
    BY <1>3, <2>1, <2>2, <2>3 DEF FreshInv, env, jobs
<1>5. CASE JobStep
  <2>1. CASE GalleryFetch
    <3>1. gallery'.got = kto /\ UNCHANGED <<env, store, redis, req, prewarm>>
      BY <2>1 DEF GalleryFetch
    <3>2. Known' = Known /\ StoreOk(detail', images', front') /\ images' >= images
      BY <1>1, <3>1 DEF Known, env, store, redis, Version
    <3> QED
      BY <1>3, <3>1, <3>2 DEF FreshInv, env
  <2>2. CASE GalleryPersist
    <3>1. /\ images' = kto /\ gallery'.pc = "invalidate"
          /\ UNCHANGED <<env, detail, redis, req, prewarm>>
      BY <2>2 DEF GalleryPersist, FreshInv
    <3>2. images <= kto /\ images' >= images
      BY <1>1, <3>1 DEF StoreOk
    <3>3. detail # None => Current(detail.common, detail.intro, images', detail.cachedAt)
      <4> SUFFICES ASSUME detail # None
                   PROVE  Current(detail.common, detail.intro, images', detail.cachedAt)
        OBVIOUS
      <4>1. /\ detail.common \in Nat /\ detail.intro \in Nat /\ detail.cachedAt \in Nat
            /\ Current(detail.common, detail.intro, images, detail.cachedAt)
        BY <1>1 DEF TypeOK, Maybe, Row, StoreOk
      <4> QED
        BY <1>1, <3>1, <3>2, <4>1, KnownNat DEF Current, Version
    <3>4. StoreOk(detail', images', front')
      BY <1>1, <3>1, <3>3 DEF StoreOk, redis
    <3>5. Known' = Known
      BY <3>1 DEF Known, env
    <3> QED
      BY <1>3, <3>1, <3>2, <3>4, <3>5 DEF FreshInv, env
  <2>3. CASE GalleryInvalidate
    <3>1. /\ front' \in {front, None} /\ gallery' = JobIdle
          /\ UNCHANGED <<env, store, req, prewarm>>
      BY <2>3 DEF GalleryInvalidate
    <3>2. StoreOk(detail', images', front') /\ images' >= images /\ Known' = Known
      BY <1>1, <3>1 DEF StoreOk, Known, store, env, Version
    <3>3. JobIdle.pc = "idle"
      BY DEF JobIdle
    <3> QED
      BY <1>3, <3>1, <3>2, <3>3 DEF FreshInv, env
  <2>4. ~PrewarmCollect /\ ~PrewarmFetch /\ ~PrewarmPersist
    BY DEF PrewarmCollect, PrewarmFetch, PrewarmPersist, FreshInv
  <2> QED
    BY <1>5, <2>1, <2>2, <2>3, <2>4 DEF JobStep
<1>6. CASE KtoModify
  <2>1. /\ now' = now + 1 /\ kto' = now + 1
        /\ UNCHANGED <<spot, syncing, store, redis, req, jobs>>
        /\ gallery.pc # "persist"
        /\ \A r \in Requests : req'[r].pc \notin {"fetch", "persist"}
    BY <1>6 DEF KtoModify, MidFetch
  <2>2. \A m \in Known' \ {None} : m \in Known \/ m = 0 \/ m > now
    BY <1>1, <2>1 DEF Known
  <2>3. /\ StoreOk(detail', images', front')
        /\ \A r \in Requests : SlotOk(req'[r], images')
    BY <1>1, <2>1 DEF store, redis
  <2>4. /\ StoreOk(detail, images, front)'
        /\ \A r \in Requests : SlotOk(req[r], images)'
    BY <1>1, <2>1, <2>2, <2>3, Carry
  <2>5. syncing # None => syncing <= kto /\ syncing \in Nat
    BY DEF FreshInv, TypeOK, Maybe, Version
  <2> QED
    BY <1>1, <2>1, <2>4, <2>5 DEF FreshInv, jobs
<1>7. CASE Tick
  <2>1. now' = now + 1 /\ UNCHANGED <<kto, spot, syncing, store, redis, req, jobs>>
    BY <1>7 DEF Tick
  <2>2. Known' = Known
    BY <2>1 DEF Known
  <2>3. /\ StoreOk(detail', images', front')
        /\ \A r \in Requests : SlotOk(req'[r], images')
    BY <1>1, <2>1 DEF store, redis
  <2>4. /\ StoreOk(detail, images, front)'
        /\ \A r \in Requests : SlotOk(req[r], images)'
    BY <1>1, <2>1, <2>2, <2>3, Carry
  <2> QED
    BY <1>1, <2>1, <2>4 DEF FreshInv, jobs
<1>8. CASE SyncRead \/ SyncWrite
  <2>1. UNCHANGED <<now, kto, store, redis, req, jobs>>
    BY <1>8 DEF SyncRead, SyncWrite
  <2>2. /\ \A m \in Known' \ {None} : m \in Known
        /\ 0 < spot' /\ spot' <= kto /\ (syncing' # None => syncing' <= kto)
    BY <1>1, <1>8 DEF SyncRead, SyncWrite, Known, FreshInv, TypeOK, Maybe, Version
  <2>3. StoreOk(detail', images', front') /\ images' >= images
    BY <1>1, <2>1 DEF store, redis, Version
  <2> QED
    BY <1>1, <1>3, <2>1, <2>2, <2>3 DEF FreshInv, jobs
<1>9. CASE UNCHANGED vars
  BY <1>9 DEF vars, env, store, redis, jobs, FreshInv, StoreOk, SlotOk, Current,
     CurrentCache, Known
<1> QED
  BY <1>2, <1>4, <1>5, <1>6, <1>7, <1>8, <1>9 DEF Next, SourceStep

\* While KTO is not modified between a fetch and its write, and the prewarm job does
\* not write one cell of three, every fresh answer shows three cells at least as new
\* as the modified_time it was checked with.
THEOREM FreshIsCurrent ==
    ~ModifyMidFetch /\ ~Prewarms /\ Spec => []FreshReplyIsCurrent
<1> SUFFICES ASSUME ~ModifyMidFetch, ~Prewarms PROVE Spec => []FreshReplyIsCurrent
  OBVIOUS
<1>1. TypeOK /\ Settled /\ FreshInv /\ [Next]_vars => FreshInv'
  BY TypeStep, FreshStep
<1>2. TypeOK /\ FreshInv => FreshReplyIsCurrent
  <2> SUFFICES ASSUME TypeOK, FreshInv, NEW r \in Requests, RepliesFresh(r)
               PROVE  \A o \in Ops : req[r].cache[o] >= req[r].mod
    BY DEF FreshReplyIsCurrent
  <2>1. /\ req[r].cache # None /\ req[r].cache.cachedAt >= req[r].mod
        /\ CurrentCache(req[r].cache)
    BY DEF FreshInv, SlotOk, RepliesFresh
  <2>2. req[r].mod \in Known \ {None}
    BY DetailAssumption DEF Known, TypeOK, Slot, Version
  <2> QED
    BY <2>1, <2>2 DEF CurrentCache, Current, Ops
<1> QED
  BY <1>1, <1>2, FreshInit, TypeCorrect, PTL DEF Spec

--------------------------------------------------------------------------------
(* With the prewarm and the gallery job writing beside the readers: the overview *)
(* of a fresh answer is current.  The prewarm job stamps a row of which it       *)
(* fetched one cell, so nothing can be said of the others; but it does fetch the *)
(* overview, and a stamp is never newer than the overview beside it, wherever    *)
(* the two are kept.                                                             *)


\* An overview stamped at an instant is as new as every known modification before.
Overview(common, at) == \A m \in Known \ {None} : at >= m => common >= m

\* A row or a copy: neither from the future nor newer than KTO.
KeptOk(x) == x.cachedAt <= now /\ x.common <= kto /\ Overview(x.common, x.cachedAt)

\* What a slot holds; a copy about to be shown as fresh passed the comparison, and
\* has the intro the agent asked for.
HeldOk(s) ==
    /\ s.mod <= kto
    /\ s.cache # None => KeptOk(s.cache)
    /\ s.pc \in {"fetch", "persist"} => \A o \in Ops : s.got[o] \in {None, Failed, kto}
    /\ s.pc = "setFront" \/ (s.pc = "reply" /\ s.status = "fresh") =>
          /\ s.cache # None /\ s.cache.cachedAt >= s.mod
          /\ s.kind = "agent" => s.cache.intro # Empty

JobsInv ==
    /\ 0 < spot /\ spot <= kto /\ kto <= now /\ (syncing # None => syncing <= kto)
    /\ detail # None => KeptOk(detail)
    /\ front # None => KeptOk(front)
    /\ \A r \in Requests : HeldOk(req[r])
    /\ prewarm.pc = "persist" => prewarm.got = kto

LEMMA Instants ==
    ASSUME TypeOK, JobsInv
    PROVE  /\ spot \in Nat /\ kto \in Nat /\ now \in Nat
           /\ 0 < spot /\ spot <= kto /\ kto <= now /\ 0 < kto
           /\ kto # Failed /\ kto # None /\ Empty = 0 /\ NeverCached = 0
BY DetailAssumption DEF TypeOK, JobsInv, Version, Failed, Empty, NeverCached

\* The overview of today is good with any stamp, any is with the stamp of a copy that
\* was never cached.
LEMMA OverviewToday ==
    ASSUME TypeOK, JobsInv
    PROVE  /\ \A at \in Nat : Overview(kto, at)
           /\ \A common \in Nat : Overview(common, 0)
<1>1. \A m \in Known \ {None} : m <= kto
  <2> SUFFICES ASSUME NEW m \in Known \ {None} PROVE m <= kto
    OBVIOUS
  <2>1. CASE m \in {spot, kto, syncing}
    BY <2>1 DEF JobsInv, TypeOK, Version
  <2>2. CASE \E r \in Requests : m = req[r].mod
    BY <2>2 DEF JobsInv, HeldOk
  <2> QED
    BY <2>1, <2>2 DEF Known
<1>2. \A at \in Nat : Overview(kto, at)
  BY <1>1 DEF Overview
<1>3. \A common \in Nat : Overview(common, 0)
  BY KnownNat DEF Overview
<1> QED
  BY <1>2, <1>3

LEMMA IdleHeld ==
    ASSUME TypeOK
    PROVE  /\ HeldOk(Idle)
           /\ \A k, pc : pc \in {"context", "backoff", "unlock", "setBackoff"}
                => HeldOk([Idle EXCEPT !.pc = pc, !.kind = k])
BY DEF TypeOK, Version, HeldOk, Idle

\* What a settled fetch makes of a copy; a complete one has an intro.
LEMMA MergedKept ==
    ASSUME TypeOK, JobsInv, NEW got \in [Ops -> {Failed, kto}], NEW cache \in Maybe(Cache),
           cache # None => KeptOk(cache)
    PROVE  /\ Merged(got, cache) \in Cache /\ KeptOk(Merged(got, cache))
           /\ Complete(got) => /\ Merged(got, cache).cachedAt = now
                               /\ Merged(got, cache).intro = kto
<1> DEFINE m == Merged(got, cache)
<1>1. m \in Cache
  <2>1. got \in [Ops -> Version \cup {Failed}]
    BY DEF TypeOK
  <2> QED
    BY <2>1, MergedType
<1>2. CASE Complete(got)
  <2>1. m = [common |-> kto, intro |-> kto, images |-> kto, cachedAt |-> now]
    BY <1>2, Instants DEF Merged, Complete, Ops
  <2> QED
    BY <1>1, <2>1, Instants, OverviewToday DEF KeptOk
<1>3. CASE ~Complete(got) /\ cache = None
  <2>1. m.common \in {0, kto} /\ m.cachedAt = 0
    BY <1>3, Instants DEF Merged, Ops
  <2> QED
    BY <1>1, <1>3, <2>1, Instants, OverviewToday DEF KeptOk
<1>4. CASE ~Complete(got) /\ cache # None
  <2>1. cache \in Cache
    BY <1>4 DEF Maybe
  <2>2. m.common \in {cache.common, kto} /\ m.cachedAt = cache.cachedAt
    BY <1>4, Instants DEF Merged, Ops
  <2>3. Overview(m.common, m.cachedAt)
    BY <1>4, <2>1, <2>2, OverviewToday DEF KeptOk, Cache
  <2> QED
    BY <1>1, <1>4, <2>2, <2>3, Instants DEF KeptOk
<1> QED
  BY <1>2, <1>3, <1>4

\* The same for the row.
LEMMA UpsertedKept ==
    ASSUME TypeOK, JobsInv, NEW got \in [Ops -> {Failed, kto}]
    PROVE  KeptOk(Upserted(got))
<1> DEFINE u == Upserted(got)
<1>1. CASE Complete(got)
  <2>1. u = [common |-> kto, intro |-> kto, cachedAt |-> now]
    BY <1>1, Instants DEF Upserted, Complete, Ops
  <2> QED
    BY <2>1, Instants, OverviewToday DEF KeptOk
<1>2. CASE ~Complete(got) /\ detail = None
  <2>1. u.common \in {0, kto} /\ u.cachedAt = 0
    BY <1>2, Instants DEF Upserted, Ops
  <2> QED
    BY <2>1, Instants, OverviewToday DEF KeptOk
<1>3. CASE ~Complete(got) /\ detail # None
  <2>1. detail \in Row /\ KeptOk(detail)
    BY <1>3 DEF TypeOK, JobsInv, Maybe
  <2>2. u.common \in {detail.common, kto} /\ u.cachedAt = detail.cachedAt
    BY <1>3, Instants DEF Upserted, Ops
  <2>3. Overview(u.common, u.cachedAt)
    BY <2>1, <2>2, OverviewToday DEF KeptOk, Row
  <2> QED
    BY <2>1, <2>2, <2>3, Instants DEF KeptOk
<1> QED
  BY <1>1, <1>2, <1>3

\* Every step of a request leaves its slot and the stores in order, judged by the
\* modification times known before it, and learns no new one.
LEMMA RequestHeld ==
    ASSUME TypeOK, Settled, JobsInv, NEW r \in Requests, RequestStep(r) \/ Crash(r)
    PROVE  /\ HeldOk(req'[r])
           /\ detail' # None => KeptOk(detail')
           /\ front' # None => KeptOk(front')
           /\ req'[r].mod \in {req[r].mod, spot, 0}
<1>1. req \in [Requests -> Slot] /\ req[r] \in Slot /\ HeldOk(req[r])
  BY DEF TypeOK, JobsInv
<1>2. (detail # None => KeptOk(detail)) /\ (front # None => KeptOk(front))
  BY DEF JobsInv
<1>3. Idle.mod = 0 /\ HeldOk(Idle)
  BY IdleHeld DEF Idle
<1>4. spot \in Nat /\ kto \in Nat /\ now \in Nat /\ spot <= kto /\ kto <= now
  BY Instants
<1>5. CASE \E kind \in Kinds : Begin(r, kind)
  BY <1>1, <1>2, <1>3, <1>4, <1>5 DEF Begin, Idle, HeldOk, Slot, store, redis
<1>6. CASE LoadContext(r)
  BY <1>1, <1>2, <1>3, <1>4, <1>6 DEF LoadContext, Raise, HeldOk, Slot, store, redis
<1>7. CASE GetFront(r)
  BY <1>1, <1>2, <1>3, <1>4, <1>7 DEF GetFront, FrontRead, HeldOk, Slot, store, redis
<1>8. CASE ReadRow(r)
  <2>1. CASE detail = None
    BY <1>1, <1>2, <1>8, <2>1 DEF ReadRow, Goto, HeldOk, Slot, store, redis
  <2>2. CASE detail # None
    <3> DEFINE c == [common |-> detail.common, intro |-> detail.intro,
                     images |-> Empty, cachedAt |-> detail.cachedAt]
    <3>1. req'[r] = [[req[r] EXCEPT !.pc = "images"] EXCEPT !.cache = c]
      BY <1>1, <1>8, <2>2 DEF ReadRow
    <3>2. req'[r].pc = "images" /\ req'[r].cache = c /\ req'[r].mod = req[r].mod
      BY <1>1, <3>1 DEF Slot
    <3>3. KeptOk(c)
      BY <1>2, <2>2 DEF KeptOk
    <3> QED
      BY <1>1, <1>2, <1>8, <3>2, <3>3 DEF ReadRow, HeldOk, store, redis
  <2> QED
    BY <2>1, <2>2
<1>9. CASE ReadImages(r)
  <2> DEFINE c == [req[r].cache EXCEPT !.images = images]
  <2>1. req[r].cache \in Cache /\ req[r].cache # None /\ req[r].pc = "images"
    BY <1>1, <1>9 DEF Settled, ReadImages, Slot, Maybe
  <2>2. req'[r] = [[req[r] EXCEPT !.pc = "answer"] EXCEPT !.cache = c]
    BY <1>1, <1>9 DEF ReadImages
  <2>3. req'[r].pc = "answer" /\ req'[r].cache = c /\ req'[r].mod = req[r].mod
    BY <1>1, <2>2 DEF Slot
  <2>4. KeptOk(c)
    BY <1>1, <2>1 DEF HeldOk, KeptOk, Cache
  <2> QED
    BY <1>1, <1>2, <1>9, <2>3, <2>4 DEF ReadImages, HeldOk, store, redis
<1>10. CASE AnswerFromCache(r)
  BY <1>1, <1>2, <1>10 DEF AnswerFromCache, Answers, Serves, IsFresh, Reply, Goto, HeldOk, Slot,
     store, redis
<1>11. CASE AnswerDeferred(r)
  BY <1>1, <1>2, <1>11 DEF AnswerDeferred, Reply, HeldOk, Slot, store, redis
<1>12. CASE StartFetch(r)
  BY <1>1, <1>2, <1>12 DEF StartFetch, HeldOk, Slot, store, redis
<1>13. CASE \E o \in Ops : FetchOp(r, o)
  <2>1. PICK o \in Ops : FetchOp(r, o)
    BY <1>13
  <2>2. PICK v \in {Failed, kto} :
          req'[r] = [req[r] EXCEPT !.got = [req[r].got EXCEPT ![o] = v]]
    BY <1>1, <2>1 DEF FetchOp
  <2>3. /\ req'[r].pc = req[r].pc /\ req'[r].cache = req[r].cache
        /\ req'[r].mod = req[r].mod /\ req[r].pc = "fetch"
        /\ req'[r].got = [req[r].got EXCEPT ![o] = v]
    BY <1>1, <2>1, <2>2 DEF Slot, FetchOp
  <2>4. \A q \in Ops : req'[r].got[q] \in {None, Failed, kto}
    BY <1>1, <2>3 DEF HeldOk, Slot
  <2>5. HeldOk(req'[r])
    BY <1>1, <2>3, <2>4 DEF HeldOk
  <2> QED
    BY <1>2, <2>1, <2>3, <2>5 DEF FetchOp, store, redis
<1>14. CASE FetchTimeout(r) \/ FetchSettled(r)
  BY <1>1, <1>2, <1>14 DEF FetchTimeout, FetchSettled, Unavailable, Reply, Goto, HeldOk, Slot,
     store, redis
<1>15. CASE Persist(r)
  <2> DEFINE got == req[r].got
             m == Merged(got, req[r].cache)
  <2>1. /\ got \in [Ops -> {Failed, kto}]
        /\ req[r].cache \in Maybe(Cache) /\ req[r].pc = "persist"
        /\ req[r].cache # None => KeptOk(req[r].cache)
    BY <1>1, <1>15 DEF Settled, Persist, Slot, HeldOk
  <2>2. /\ m \in Cache /\ KeptOk(m)
        /\ Complete(got) => m.cachedAt = now /\ m.intro = kto
    BY <2>1, MergedKept
  <2>3. m # None
    BY <2>2, DetailAssumption DEF Cache
  <2>4. detail' # None => KeptOk(detail')
    BY <1>15, <2>1, UpsertedKept DEF Persist
  <2>5. front' # None => KeptOk(front')
    BY <1>2, <1>15 DEF Persist, redis
  <2>6. CASE Complete(got)
    <3>1. /\ req'[r].pc = "setFront" /\ req'[r].cache = m
          /\ req'[r].mod = req[r].mod
      BY <1>1, <1>15, <2>6 DEF Persist, Slot
    <3>2. req[r].mod \in Nat /\ req[r].mod <= kto
      BY <1>1 DEF Slot, Version, HeldOk
    <3>3. m.cachedAt >= req'[r].mod /\ m.intro # Empty
      BY <2>2, <2>6, <3>1, <3>2, Instants
    <3>4. HeldOk(req'[r])
      BY <2>2, <2>3, <3>1, <3>2, <3>3 DEF HeldOk
    <3> QED
      BY <2>4, <2>5, <3>1, <3>4
  <2>7. CASE ~Complete(got)
    <3>1. /\ req'[r].pc = "reply" /\ req'[r].cache = m /\ req'[r].status = "stale"
          /\ req'[r].mod = req[r].mod
      BY <1>1, <1>15, <2>7 DEF Persist, Reply, Slot
    <3>2. HeldOk(req'[r])
      BY <1>1, <2>2, <3>1 DEF HeldOk
    <3> QED
      BY <2>4, <2>5, <3>1, <3>2
  <2> QED
    BY <2>6, <2>7
<1>16. CASE SetFront(r)
  <2>1. /\ req'[r].pc = "reply" /\ req'[r].cache = req[r].cache /\ req'[r].kind = req[r].kind
        /\ req'[r].mod = req[r].mod /\ req[r].pc = "setFront"
    BY <1>1, <1>16 DEF SetFront, Reply, Slot
  <2>2. HeldOk(req'[r])
    BY <1>1, <2>1 DEF HeldOk
  <2> QED
    BY <1>1, <1>2, <1>16, <2>1, <2>2 DEF SetFront, HeldOk, store
<1>17. CASE SqlFails(r)
  BY <1>1, <1>2, <1>3, <1>4, <1>17 DEF SqlFails, Raise, HeldOk, Slot, store, redis
<1>18. CASE Return(r)
  BY <1>1, <1>2, <1>3, <1>4, <1>18 DEF Return, Idle, HeldOk, Slot, store, redis
<1>19. CASE CheckBackoff(r)
  BY <1>1, <1>2, <1>3, <1>4, <1>19 DEF CheckBackoff, Goto, HeldOk, Slot, store, redis
<1>20. CASE AcquireLock(r)
  BY <1>1, <1>2, <1>3, <1>4, <1>20 DEF AcquireLock, Goto, HeldOk, Slot, store, redis
<1>21. CASE SetBackoff(r)
  BY <1>1, <1>2, <1>21 DEF SetBackoff, Goto, HeldOk, Slot, store, redis
<1>22. CASE Unlock(r)
  BY <1>1, <1>2, <1>3, <1>22 DEF Unlock, HeldOk, Slot, store, redis
<1>23. CASE Crash(r)
  BY <1>1, <1>2, <1>3, <1>23 DEF Crash, HeldOk, Slot, store, redis
<1> QED
  BY <1>5, <1>6, <1>7, <1>8, <1>9, <1>10, <1>11, <1>12, <1>13, <1>14, <1>15, <1>16, <1>17, <1>18,
     <1>19, <1>20, <1>21, <1>22, <1>23
  DEF RequestStep, LoadStep, RefreshStep

\* What is in order stays so when KTO and the clock move on, unless a fetch is open
\* while KTO is modified.
LEMMA CarryHeld ==
    ASSUME TypeOK, TypeOK', now' >= now, kto' >= kto,
           \A m \in Known' \ {None} : m \in Known \/ m = 0 \/ m > now
    PROVE  /\ \A x \in Row \cup Cache : KeptOk(x) =>
                /\ x.cachedAt <= now' /\ x.common <= kto'
                /\ \A m \in Known' \ {None} : x.cachedAt >= m => x.common >= m
           /\ \A r \in Requests :
                /\ HeldOk(req'[r])
                /\ kto' = kto \/ req'[r].pc \notin {"fetch", "persist"}
                => HeldOk(req[r])'
<1>1. now \in Nat /\ now' \in Nat /\ kto \in Nat /\ kto' \in Nat
  BY DEF TypeOK, Version
<1>2. ASSUME NEW x \in Row \cup Cache, KeptOk(x)
      PROVE  /\ x.cachedAt <= now' /\ x.common <= kto'
             /\ \A m \in Known' \ {None} : x.cachedAt >= m => x.common >= m
  <2>1. x.cachedAt \in Nat /\ x.common \in Nat /\ x.cachedAt <= now /\ x.common <= kto
    BY <1>2 DEF Row, Cache, KeptOk
  <2>2. ASSUME NEW m \in Known' \ {None}, x.cachedAt >= m PROVE x.common >= m
    <3>1. m \in Nat
      BY KnownNatNext
    <3>2. m \in Known \ {None} => x.common >= m
      BY <1>2, <2>2 DEF KeptOk, Overview
    <3> QED
      BY <1>1, <2>1, <2>2, <3>1, <3>2
  <2> QED
    BY <1>1, <2>1, <2>2
<1>3. ASSUME NEW r \in Requests, HeldOk(req'[r]),
             kto' = kto \/ req'[r].pc \notin {"fetch", "persist"}
      PROVE  HeldOk(req[r])'
  <2>1. req'[r] \in Slot /\ req'[r].mod \in Nat /\ (req'[r].cache # None => req'[r].cache \in Cache)
    BY DEF TypeOK, Slot, Maybe, Version
  <2>2. req'[r].mod <= kto'
    BY <1>1, <1>3, <2>1 DEF HeldOk
  <2>3. req'[r].cache # None => KeptOk(req[r].cache)'
    BY <1>2, <1>3, <2>1 DEF HeldOk, KeptOk, Overview
  <2>4. req'[r].pc \in {"fetch", "persist"} => \A o \in Ops : req'[r].got[o] \in {None, Failed, kto'}
    BY <1>3 DEF HeldOk
  <2>5. req'[r].pc = "setFront" \/ (req'[r].pc = "reply" /\ req'[r].status = "fresh") =>
          /\ req'[r].cache # None /\ req'[r].cache.cachedAt >= req'[r].mod
          /\ req'[r].kind = "agent" => req'[r].cache.intro # Empty
    BY <1>3 DEF HeldOk
  <2> QED
    BY <2>2, <2>3, <2>4, <2>5 DEF HeldOk
<1> QED
  BY <1>2, <1>3

\* From what is in order by the old clock to the invariant by the new one.
LEMMA Together ==
    ASSUME TypeOK, TypeOK', JobsInv, now' >= now, kto' >= kto,
           \A m \in Known' \ {None} : m \in Known \/ m = 0 \/ m > now,
           detail' # None => KeptOk(detail'), front' # None => KeptOk(front'),
           \A r \in Requests : HeldOk(req'[r]),
           kto' = kto \/ \A r \in Requests : req'[r].pc \notin {"fetch", "persist"}
    PROVE  /\ (detail # None => KeptOk(detail))' /\ (front # None => KeptOk(front))'
           /\ \A r \in Requests : HeldOk(req[r])'
<1>1. (detail' # None => detail' \in Row) /\ (front' # None => front' \in Cache)
  BY DEF TypeOK, Maybe
<1>2. (detail # None => KeptOk(detail))'
  BY <1>1, CarryHeld DEF KeptOk, Overview
<1>3. (front # None => KeptOk(front))'
  BY <1>1, CarryHeld DEF KeptOk, Overview
<1>4. \A r \in Requests : HeldOk(req[r])'
  BY CarryHeld
<1> QED
  BY <1>2, <1>3, <1>4

LEMMA JobsStep ==
    ASSUME ~ModifyMidFetch, TypeOK, TypeOK', Settled, JobsInv, [Next]_vars
    PROVE  JobsInv'
<1> DEFINE Ordered == /\ now' >= now /\ kto' >= kto
                      /\ \A m \in Known' \ {None} : m \in Known \/ m = 0 \/ m > now
                      /\ detail' # None => KeptOk(detail')
                      /\ front' # None => KeptOk(front')
                      /\ \A r \in Requests : HeldOk(req'[r])
                      /\ kto' = kto \/ \A r \in Requests : req'[r].pc \notin {"fetch", "persist"}
           Dates == 0 < spot' /\ spot' <= kto' /\ kto' <= now' /\ (syncing' # None => syncing' <= kto')
<1>1. /\ now \in Nat /\ kto \in Nat /\ spot \in Nat
      /\ 0 < spot /\ spot <= kto /\ kto <= now
      /\ syncing # None => syncing \in Nat /\ syncing <= kto
      /\ detail # None => KeptOk(detail)
      /\ front # None => KeptOk(front)
      /\ \A r \in Requests : HeldOk(req[r])
      /\ prewarm.pc = "persist" => prewarm.got = kto
  BY DEF TypeOK, JobsInv, Version, Maybe
<1>2. ASSUME Ordered, Dates, prewarm'.pc = "persist" => prewarm'.got = kto'
      PROVE  JobsInv'
  <2>1. /\ (detail # None => KeptOk(detail))' /\ (front # None => KeptOk(front))'
        /\ \A r \in Requests : HeldOk(req[r])'
    BY <1>2, Together
  <2> QED
    BY <1>2, <2>1 DEF JobsInv
<1>3. ASSUME UNCHANGED env, UNCHANGED req PROVE Known' = Known
  BY <1>3 DEF env, Known
<1>4. ASSUME NEW r \in Requests, RequestStep(r) \/ Crash(r) PROVE JobsInv'
  <2>1. UNCHANGED <<env, jobs>> /\ \A s \in Requests : s # r => req'[s] = req[s]
    BY <1>4, RequestFrame
  <2>2. /\ HeldOk(req'[r]) /\ req'[r].mod \in {req[r].mod, spot, 0}
        /\ detail' # None => KeptOk(detail')
        /\ front' # None => KeptOk(front')
    BY <1>4, RequestHeld
  <2>3. \A s \in Requests : HeldOk(req'[s])
    BY <1>1, <2>1, <2>2
  <2>4. \A m \in Known' \ {None} : m \in Known \/ m = 0 \/ m > now
    BY <2>1, <2>2 DEF Known, env
  <2>5. UNCHANGED <<now, kto, spot, syncing>> /\ UNCHANGED prewarm
    BY <2>1 DEF env, jobs
  <2>6. Ordered
    BY <1>1, <2>2, <2>3, <2>4, <2>5
  <2>7. Dates /\ (prewarm'.pc = "persist" => prewarm'.got = kto')
    BY <1>1, <2>5
  <2> QED
    BY <1>2, <2>6, <2>7
<1>5. ASSUME ExpireStep PROVE JobsInv'
  <2>1. UNCHANGED <<env, store, req, jobs>> /\ front' \in {front, None}
    BY <1>5 DEF ExpireStep, ExpireFront, ExpireLock, ExpireBackoff
  <2>2. Ordered
    BY <1>1, <1>3, <2>1 DEF env, store
  <2>3. Dates /\ (prewarm'.pc = "persist" => prewarm'.got = kto')
    BY <1>1, <2>1 DEF env, jobs
  <2> QED
    BY <1>2, <2>2, <2>3
<1>6. ASSUME JobStep PROVE JobsInv'
  <2>1. UNCHANGED <<env, req>> /\ Dates
    BY <1>1, <1>6 DEF JobStep, PrewarmCollect, PrewarmFetch, PrewarmPersist, GalleryFetch,
       GalleryPersist, GalleryInvalidate, env
  <2>2. CASE PrewarmPersist
    <3>1. detail'.common = kto /\ detail'.cachedAt = now /\ front' = front /\ prewarm' = JobIdle
      BY <1>1, <2>2 DEF PrewarmPersist, redis
    <3>2. KeptOk(detail')
      BY <1>1, <3>1, OverviewToday DEF KeptOk
    <3>3. Ordered
      BY <1>1, <1>3, <2>1, <3>1, <3>2 DEF env
    <3> QED
      BY <1>2, <2>1, <3>1, <3>3 DEF JobIdle
  <2>3. CASE ~PrewarmPersist
    <3>1. detail' = detail /\ front' \in {front, None}
      BY <1>6, <2>3 DEF JobStep, PrewarmCollect, PrewarmFetch, GalleryFetch,
         GalleryPersist, GalleryInvalidate, store, redis
    <3>2. Ordered
      BY <1>1, <1>3, <2>1, <3>1 DEF env
    <3>3. prewarm'.pc = "persist" => prewarm'.got = kto'
      <4>1. CASE PrewarmFetch
        BY <2>1, <4>1 DEF PrewarmFetch, JobIdle, env
      <4>2. CASE PrewarmCollect
        <5>1. prewarm' = [prewarm EXCEPT !.pc = "fetch"] /\ prewarm \in [pc : {"idle", "fetch", "persist"}, got : Version]
          BY <4>2 DEF PrewarmCollect, TypeOK
        <5> QED
          BY <5>1
      <4>3. CASE UNCHANGED prewarm
        BY <1>1, <2>1, <4>3 DEF env
      <4> QED
        BY <1>6, <2>3, <4>1, <4>2, <4>3 DEF JobStep, GalleryFetch, GalleryPersist, GalleryInvalidate
    <3> QED
      BY <1>2, <2>1, <3>2, <3>3
  <2> QED
    BY <2>2, <2>3
<1>7. ASSUME KtoModify PROVE JobsInv'
  <2>1. /\ now' = now + 1 /\ kto' = now + 1
        /\ UNCHANGED spot /\ UNCHANGED syncing /\ UNCHANGED <<store, redis>>
        /\ UNCHANGED req /\ UNCHANGED prewarm /\ prewarm.pc # "persist"
        /\ \A r \in Requests : req[r].pc \notin {"fetch", "persist"}
    BY <1>7 DEF KtoModify, MidFetch, jobs
  <2>2. \A m \in Known' \ {None} : m \in Known \/ m = 0 \/ m > now
    BY <1>1, <2>1 DEF Known
  <2>3. Ordered
    BY <1>1, <2>1, <2>2 DEF store, redis
  <2>4. Dates
    BY <1>1, <2>1
  <2> QED
    BY <1>2, <2>1, <2>3, <2>4
<1>8. ASSUME Tick PROVE JobsInv'
  <2>1. /\ now' = now + 1 /\ UNCHANGED kto /\ UNCHANGED <<spot, syncing>>
        /\ UNCHANGED <<store, redis>> /\ UNCHANGED req /\ UNCHANGED prewarm
    BY <1>8 DEF Tick, jobs
  <2>2. Known' = Known
    BY <2>1 DEF Known
  <2>3. Ordered
    BY <1>1, <2>1, <2>2 DEF store, redis
  <2>4. Dates
    BY <1>1, <2>1
  <2> QED
    BY <1>1, <1>2, <2>1, <2>3, <2>4
<1>9. ASSUME SyncRead \/ SyncWrite PROVE JobsInv'
  <2>1. /\ UNCHANGED now /\ UNCHANGED kto /\ UNCHANGED <<store, redis>>
        /\ UNCHANGED req /\ UNCHANGED prewarm
    BY <1>9 DEF SyncRead, SyncWrite, jobs
  <2>2. Dates /\ \A m \in Known' \ {None} : m \in Known
    BY <1>1, <1>9, <2>1 DEF SyncRead, SyncWrite, Known
  <2>3. Ordered
    BY <1>1, <2>1, <2>2 DEF store, redis
  <2> QED
    BY <1>1, <1>2, <2>1, <2>2, <2>3
<1>10. ASSUME UNCHANGED vars PROVE JobsInv'
  <2>1. UNCHANGED <<env, store, redis, req, jobs>>
    BY <1>10 DEF vars
  <2>2. Ordered
    BY <1>1, <1>3, <2>1 DEF env, store, redis
  <2>3. Dates /\ (prewarm'.pc = "persist" => prewarm'.got = kto')
    BY <1>1, <2>1 DEF env, jobs
  <2> QED
    BY <1>2, <2>2, <2>3
<1> QED
  BY <1>4, <1>5, <1>6, <1>7, <1>8, <1>9, <1>10 DEF Next, SourceStep

\* While KTO is not modified between a fetch and its write: whatever the prewarm and
\* the gallery job write beside the readers, the overview of a fresh answer is as new
\* as the modified_time it was checked with, and the agent's has an intro.
THEOREM OverviewIsCurrent == ~ModifyMidFetch /\ Spec => []JobsKeepCurrent
<1> SUFFICES ASSUME ~ModifyMidFetch PROVE Spec => []JobsKeepCurrent
  OBVIOUS
<1>1. Init => JobsInv
  <2> SUFFICES ASSUME Init PROVE JobsInv
    OBVIOUS
  <2>1. \A r \in Requests : HeldOk(req[r])
    BY InitType, IdleHeld DEF Init
  <2> QED
    BY <2>1 DEF Init, JobsInv, JobIdle
<1>2. TypeOK /\ TypeOK' /\ Settled /\ JobsInv /\ [Next]_vars => JobsInv'
  BY JobsStep
<1>3. TypeOK /\ JobsInv => JobsKeepCurrent
  <2> SUFFICES ASSUME TypeOK, JobsInv, NEW r \in Requests, RepliesFresh(r)
               PROVE  /\ req[r].cache.common >= req[r].mod
                      /\ req[r].kind = "agent" => req[r].cache.intro # Empty
    BY DEF JobsKeepCurrent
  <2>1. /\ req[r].cache # None /\ req[r].cache.cachedAt >= req[r].mod
        /\ req[r].kind = "agent" => req[r].cache.intro # Empty
        /\ KeptOk(req[r].cache)
    BY DEF JobsInv, HeldOk, RepliesFresh
  <2>2. req[r].mod \in Known \ {None}
    BY DetailAssumption DEF Known, TypeOK, Slot, Version
  <2> QED
    BY <2>1, <2>2 DEF KeptOk, Overview
<1> QED
  BY <1>1, <1>2, <1>3, TypeCorrect, PTL DEF Spec

=============================================================================
