----------------------------- MODULE UsersProofs -----------------------------
(***************************************************************************)
(* Proofs about the users module.  Of the keys: for any number of logins,  *)
(* keys and failures, and all lifetimes, a kept key set is behind the      *)
(* provider's keys for a bounded time only.  Of the accounts: under any    *)
(* number of devices, identities and overlapping logins and deletions they *)
(* stay reachable, by one identity each, with distinct emails.             *)
(***************************************************************************)
EXTENDS Users, TLAPS

---------------------------------------------------------------------------
\* ProviderKeys.

Keys == 1..NumKeys

SignIns == [at : {"idle", "fetch", "read"}, token : Token \cup {NoKeys}, elapsed : 0..FetchTime,
            tries : {0, 1}, read : SUBSET Keys]

KeysTyped ==
    /\ published \subseteq Keys
    /\ since \in [Keys -> Nat]
    /\ jwks # NoKeys => jwks \in [keys : SUBSET Keys, age : Nat]
    /\ verifying \in [SignIn -> SignIns]
    /\ \A c \in SignIn : verifying[c].at # "idle" => verifying[c].token \in Token
    /\ fetchFailed \in BOOLEAN

\* A key set of that age differs from the published one only in keys that changed
\* since.
Lags(keys, age) ==
    \A k \in Keys : (k \in keys /\ k \notin published) \/ (k \notin keys /\ k \in published)
                      => since[k] <= age

CacheLags == jwks # NoKeys => Lags(jwks.keys, jwks.age)
ReadsLag  == \A c \in SignIn : verifying[c].at = "read" => Lags(verifying[c].read, verifying[c].elapsed)

KeysInv == KeysTyped /\ CacheLags /\ ReadsLag /\ KeysFollow

LEMMA Constants ==
    /\ NumKeys \in Nat /\ FreshFor \in Nat /\ StaleFor \in Nat /\ FetchTime \in Nat
    /\ NumKeys >= 1 /\ FreshFor >= 1 /\ StaleFor >= 1 /\ FetchTime >= 1
    /\ FetchTime <= FreshFor /\ FreshFor <= StaleFor /\ AgeCap = StaleFor + FetchTime
<1>1. ASSUME NEW n \in {NumKeys, FreshFor, StaleFor, FetchTime} PROVE n \in Nat /\ n >= 1
  BY KeysAssumption
<1> QED
  BY <1>1, KeysAssumption DEF AgeCap

LEMMA IdleSignIn == NoSignIn \in SignIns /\ NoSignIn.at = "idle"
BY Constants DEF NoSignIn, SignIns

LEMMA KeysInitially == KeysInit => KeysInv
<1> SUFFICES ASSUME KeysInit PROVE KeysInv
  OBVIOUS
<1>1. published \subseteq Keys
  BY Constants DEF KeysInit, Keys
<1>2. since \in [Keys -> Nat]
  BY Constants DEF KeysInit, Keys
<1>3. verifying \in [SignIn -> SignIns] /\ \A c \in SignIn : verifying[c].at = "idle"
  BY IdleSignIn DEF KeysInit
<1>4. jwks = NoKeys /\ verdict = NoKeys /\ fetchFailed \in BOOLEAN
  BY DEF KeysInit
<1> QED
  BY <1>1, <1>2, <1>3, <1>4 DEF KeysInv, KeysTyped, CacheLags, ReadsLag, KeysFollow

\* A verdict by keys that lag no more than they may.
LEMMA Judged ==
    ASSUME KeysTyped, UNCHANGED <<published, since>>, fetchFailed' \in BOOLEAN,
           NEW token \in Token, NEW keys \in SUBSET Keys, NEW age \in Nat,
           Lags(keys, age), Tell(token, Verdict(token, keys)),
           age <= FreshFor \/ (fetchFailed' /\ age < AgeCap)
    PROVE  KeysFollow'
<1> SUFFICES ASSUME verdict' # NoKeys PROVE KeysFollow'
  BY DEF KeysFollow
<1>1. verdict' = [kid |-> token.kid, outcome |-> Verdict(token, keys)] /\ ~token.flawed
  BY DEF Tell
<1>2. /\ Verdict(token, keys) = "accepted" => token.kid \in keys
      /\ Verdict(token, keys) = "invalid" => token.kid \notin keys
  BY <1>1 DEF Verdict, KakaoVerdict, GenericVerdict
<1>3. ASSUME \/ token.kid \in keys /\ token.kid \notin published
             \/ token.kid \notin keys /\ token.kid \in published
      PROVE  Behind(since[token.kid])'
  <2>1. token.kid \in Keys /\ since[token.kid] \in Nat
    BY <1>3 DEF KeysTyped
  <2>2. since[token.kid] <= age
    BY <1>3, <2>1 DEF Lags
  <2> QED
    BY <2>1, <2>2, Constants DEF Behind
<1> QED
  BY <1>1, <1>2, <1>3 DEF KeysFollow

LEMMA RefuseStep ==
    ASSUME KeysInv, NEW c \in SignIn, NEW token \in Token, RefuseOutright(c, token)
    PROVE  KeysInv'
<1>1. KeysTyped' /\ CacheLags' /\ ReadsLag'
  BY DEF KeysInv, KeysTyped, CacheLags, ReadsLag, Lags, RefuseOutright
<1>2. KeysFollow'
  <2>1. ASSUME verdict' # NoKeys
        PROVE  verdict' = [kid |-> token.kid, outcome |-> Outright(token)]
    BY <2>1 DEF RefuseOutright, Tell
  <2>2. Outright(token) # "accepted" /\ (Outright(token) = "invalid" => token.kid = 0)
    BY DEF Outright, RefuseOutright
  <2>3. 0 \notin published'
    BY DEF RefuseOutright, KeysInv, KeysTyped, Keys
  <2> QED
    BY <2>1, <2>2, <2>3 DEF KeysFollow
<1> QED
  BY <1>1, <1>2 DEF KeysInv

LEMMA FreshStep ==
    ASSUME KeysInv, NEW c \in SignIn, NEW token \in Token, VerifyFresh(c, token)
    PROVE  KeysInv'
<1>1. KeysTyped' /\ CacheLags' /\ ReadsLag'
  BY DEF KeysInv, KeysTyped, CacheLags, ReadsLag, Lags, VerifyFresh
<1>2. /\ jwks.keys \in SUBSET Keys /\ jwks.age \in Nat /\ Lags(jwks.keys, jwks.age)
      /\ jwks.age <= FreshFor
  BY Constants DEF KeysInv, KeysTyped, CacheLags, VerifyFresh, FreshKeys
<1>3. KeysTyped /\ UNCHANGED <<published, since>> /\ fetchFailed' \in BOOLEAN
  BY DEF KeysInv, KeysTyped, VerifyFresh
<1>4. Tell(token, Verdict(token, jwks.keys))
  BY DEF VerifyFresh
<1>5. KeysFollow'
  BY <1>2, <1>3, <1>4, Judged
<1> QED
  BY <1>1, <1>5 DEF KeysInv

LEMMA StartStep ==
    ASSUME KeysInv, NEW c \in SignIn, NEW token \in Token, StartFetch(c, token)
    PROVE  KeysInv'
<1> DEFINE started == [at |-> "fetch", token |-> token, elapsed |-> 0, tries |-> 0, read |-> {}]
<1>1. started \in SignIns /\ started.at = "fetch" /\ started.token = token
  BY Constants DEF SignIns
<1>2. verifying' = [verifying EXCEPT ![c] = started]
  BY DEF StartFetch
<1> HIDE DEF started
<1>3. KeysTyped'
  BY <1>1, <1>2 DEF KeysInv, KeysTyped, StartFetch
<1>4. CacheLags' /\ ReadsLag'
  BY <1>1, <1>2 DEF KeysInv, KeysTyped, CacheLags, ReadsLag, Lags, StartFetch
<1>5. KeysFollow'
  BY DEF StartFetch, KeysFollow
<1> QED
  BY <1>3, <1>4, <1>5 DEF KeysInv

LEMMA AnswerStep ==
    ASSUME KeysInv, NEW c \in SignIn, ProviderAnswers(c)
    PROVE  KeysInv'
<1> DEFINE answered == [verifying[c] EXCEPT !.at = "read", !.read = published]
<1>1. /\ answered \in SignIns /\ answered.at = "read" /\ answered.read = published
      /\ answered.token = verifying[c].token /\ answered.token \in Token
      /\ answered.elapsed = verifying[c].elapsed
  BY DEF KeysInv, KeysTyped, SignIns, ProviderAnswers
<1>2. verifying' = [verifying EXCEPT ![c] = answered]
  BY DEF ProviderAnswers, KeysInv, KeysTyped, SignIns
<1> HIDE DEF answered
<1>3. KeysTyped'
  BY <1>1, <1>2 DEF KeysInv, KeysTyped, ProviderAnswers
<1>4. Lags(published, answered.elapsed)
  BY DEF Lags
<1>5. CacheLags'
  BY DEF KeysInv, CacheLags, Lags, ProviderAnswers
<1>6. ASSUME NEW d \in SignIn, verifying'[d].at = "read"
      PROVE  Lags(verifying'[d].read, verifying'[d].elapsed)
  BY <1>1, <1>2, <1>4, <1>6 DEF KeysInv, KeysTyped, ReadsLag
<1>7. ReadsLag'
  BY <1>6 DEF ReadsLag, Lags, ProviderAnswers
<1>8. KeysFollow'
  BY DEF ProviderAnswers, KeysFollow
<1> QED
  BY <1>3, <1>5, <1>7, <1>8 DEF KeysInv

\* A login that ends leaves the others as they are.
LEMMA SignInOver ==
    ASSUME KeysInv, NEW c \in SignIn, verifying' = [verifying EXCEPT ![c] = NoSignIn],
           UNCHANGED <<published, since>>
    PROVE  /\ verifying' \in [SignIn -> SignIns]
           /\ \A d \in SignIn : verifying'[d].at # "idle" => verifying'[d].token \in Token
           /\ ReadsLag'
BY IdleSignIn DEF KeysInv, KeysTyped, ReadsLag, Lags

LEMMA StoreStep ==
    ASSUME KeysInv, NEW c \in SignIn, FetchStored(c)
    PROVE  KeysInv'
<1> DEFINE keys == verifying[c].read
           age  == verifying[c].elapsed
           token == verifying[c].token
<1>1. /\ keys \in SUBSET Keys /\ age \in Nat /\ age <= FetchTime /\ token \in Token
      /\ Lags(keys, age)
  BY Constants DEF KeysInv, KeysTyped, SignIns, ReadsLag, FetchStored
<1>2. /\ jwks' = [keys |-> keys, age |-> age] /\ UNCHANGED <<published, since, fetchFailed>>
      /\ verifying' = [verifying EXCEPT ![c] = NoSignIn] /\ Tell(token, Verdict(token, keys))
  BY DEF FetchStored
<1> HIDE DEF keys, age, token
<1>3. KeysTyped'
  BY <1>1, <1>2, SignInOver DEF KeysInv, KeysTyped
<1>4. CacheLags'
  BY <1>1, <1>2 DEF CacheLags, Lags
<1>5. ReadsLag'
  BY <1>2, SignInOver
<1>6. KeysFollow'
  <2>1. KeysTyped /\ fetchFailed' \in BOOLEAN
    BY <1>2 DEF KeysInv, KeysTyped
  <2>2. age <= FreshFor
    BY <1>1, Constants
  <2> QED
    BY <1>1, <1>2, <2>1, <2>2, Judged
<1> QED
  BY <1>3, <1>4, <1>5, <1>6 DEF KeysInv

LEMMA FailStep ==
    ASSUME KeysInv, NEW c \in SignIn, FetchFails(c)
    PROVE  KeysInv'
<1> DEFINE me == verifying[c]
<1>1. /\ me.token \in Token /\ me.elapsed \in 0..FetchTime
      /\ fetchFailed' = TRUE /\ UNCHANGED <<published, since, jwks>>
  BY DEF KeysInv, KeysTyped, SignIns, FetchFails
<1>2. CacheLags'
  BY <1>1 DEF KeysInv, CacheLags, Lags
<1>3. CASE me.tries = 0
  <2> DEFINE again == [me EXCEPT !.tries = 1]
  <2>1. /\ again \in SignIns /\ again.at = "fetch" /\ again.token \in Token
    BY <1>1 DEF KeysInv, KeysTyped, SignIns, FetchFails
  <2>2. verifying' = [verifying EXCEPT ![c] = again] /\ verdict' = NoKeys
    BY <1>3 DEF FetchFails, KeysInv, KeysTyped, SignIns
  <2> HIDE DEF again
  <2>3. KeysTyped'
    BY <1>1, <2>1, <2>2 DEF KeysInv, KeysTyped
  <2>4. ReadsLag'
    BY <1>1, <2>1, <2>2 DEF KeysInv, KeysTyped, ReadsLag, Lags
  <2>5. KeysFollow'
    BY <2>2 DEF KeysFollow
  <2> QED
    BY <1>2, <2>3, <2>4, <2>5 DEF KeysInv
<1>4. CASE me.tries # 0
  <2>1. /\ verifying' = [verifying EXCEPT ![c] = NoSignIn]
        /\ Tell(me.token, IF Usable(me.elapsed) THEN Verdict(me.token, jwks.keys) ELSE "unavailable")
    BY <1>4 DEF FetchFails
  <2>2. KeysTyped' /\ ReadsLag'
    BY <1>1, <2>1, SignInOver DEF KeysInv, KeysTyped
  <2>3. CASE Usable(me.elapsed)
    <3>1. /\ jwks.keys \in SUBSET Keys /\ jwks.age \in Nat /\ Lags(jwks.keys, jwks.age)
          /\ jwks.age < StaleFor + me.elapsed
      BY <2>3 DEF Usable, KeysInv, KeysTyped, CacheLags
    <3>2. fetchFailed' /\ jwks.age < AgeCap
      BY <1>1, <3>1, Constants
    <3>3. Tell(me.token, Verdict(me.token, jwks.keys)) /\ KeysTyped
      BY <2>1, <2>3 DEF KeysInv
    <3>4. KeysFollow'
      BY <1>1, <3>1, <3>2, <3>3, Judged
    <3> QED
      BY <1>2, <2>2, <3>4 DEF KeysInv
  <2>4. CASE ~Usable(me.elapsed)
    <3>1. verdict' # NoKeys => verdict'.outcome = "unavailable"
      BY <2>1, <2>4 DEF Tell
    <3>2. KeysFollow'
      BY <3>1 DEF KeysFollow
    <3> QED
      BY <1>2, <2>2, <3>2 DEF KeysInv
  <2> QED
    BY <2>3, <2>4
<1> QED
  BY <1>3, <1>4

LEMMA TickStep ==
    ASSUME KeysInv, KeyTick
    PROVE  KeysInv'
<1> DEFINE ticked(c) == [verifying[c] EXCEPT !.elapsed = @ + 1]
<1>1. \A a \in Nat : Older(a) \in Nat /\ Older(a) <= a + 1
  BY Constants DEF Older
<1>2. \A a, b \in Nat : a <= b => Older(a) <= Older(b)
  BY Constants DEF Older
<1>3. /\ since' \in [Keys -> Nat] /\ \A k \in Keys : since'[k] = Older(since[k])
  BY <1>1 DEF KeysInv, KeysTyped, KeyTick, Keys
<1>4. jwks' # NoKeys => /\ jwks' \in [keys : SUBSET Keys, age : Nat] /\ jwks # NoKeys
                        /\ jwks'.keys = jwks.keys /\ jwks'.age = Older(jwks.age)
  BY <1>1 DEF KeysInv, KeysTyped, KeyTick
<1>5. ASSUME NEW c \in SignIn
      PROVE  /\ verifying'[c] \in SignIns /\ verifying'[c].at = verifying[c].at
             /\ verifying'[c].token = verifying[c].token /\ verifying'[c].read = verifying[c].read
             /\ verifying[c].at # "idle" => verifying'[c].elapsed = verifying[c].elapsed + 1
  <2>1. verifying[c] \in SignIns /\ verifying[c].elapsed < FetchTime
    BY DEF KeysInv, KeysTyped, KeyTick
  <2>2. CASE verifying[c].at = "idle"
    BY <2>1, <2>2 DEF KeyTick
  <2>3. CASE verifying[c].at # "idle"
    <3>1. verifying'[c] = ticked(c)
      BY <2>3 DEF KeyTick
    <3>2. verifying[c].elapsed + 1 \in 0..FetchTime
      BY <2>1, Constants DEF SignIns
    <3> QED
      BY <2>1, <3>1, <3>2 DEF SignIns
  <2> QED
    BY <2>2, <2>3
<1>6. KeysTyped'
  <2>1. verifying' \in [SignIn -> SignIns]
    <3>1. DOMAIN verifying' = SignIn /\ verifying' = [c \in SignIn |-> verifying'[c]]
      BY DEF KeyTick
    <3> QED
      BY <3>1, <1>5
  <2> QED
    BY <1>3, <1>4, <1>5, <2>1 DEF KeysInv, KeysTyped, KeyTick
<1>7. CacheLags'
  <2> SUFFICES ASSUME jwks' # NoKeys, NEW k \in Keys,
                      \/ k \in jwks'.keys /\ k \notin published'
                      \/ k \notin jwks'.keys /\ k \in published'
               PROVE  since'[k] <= jwks'.age
    BY DEF CacheLags, Lags
  <2>1. jwks.age \in Nat /\ Lags(jwks.keys, jwks.age) /\ since \in [Keys -> Nat]
    BY <1>4 DEF KeysInv, KeysTyped, CacheLags
  <2>2. published' = published
    BY DEF KeyTick
  <2>3. since[k] \in Nat /\ since[k] <= jwks.age
    BY <1>4, <2>1, <2>2 DEF Lags
  <2> QED
    BY <1>2, <1>3, <1>4, <2>1, <2>3
<1>8. ReadsLag'
  <2> SUFFICES ASSUME NEW c \in SignIn, verifying'[c].at = "read", NEW k \in Keys,
                      \/ k \in verifying'[c].read /\ k \notin published'
                      \/ k \notin verifying'[c].read /\ k \in published'
               PROVE  since'[k] <= verifying'[c].elapsed
    BY DEF ReadsLag, Lags
  <2>1. /\ Lags(verifying[c].read, verifying[c].elapsed) /\ verifying[c].elapsed \in Nat
        /\ since \in [Keys -> Nat] /\ verifying[c].at = "read"
    BY <1>5, Constants DEF KeysInv, KeysTyped, ReadsLag, SignIns
  <2>2. published' = published
    BY DEF KeyTick
  <2>3. /\ verifying'[c].read = verifying[c].read
        /\ verifying'[c].elapsed = verifying[c].elapsed + 1
    BY <1>5, <2>1
  <2>4. since[k] \in Nat /\ since[k] <= verifying[c].elapsed
    BY <2>1, <2>2, <2>3 DEF Lags
  <2>5. since'[k] = Older(since[k]) /\ Older(since[k]) <= since[k] + 1 /\ Older(since[k]) \in Nat
    BY <1>1, <1>3, <2>4
  <2> QED
    BY <2>1, <2>3, <2>4, <2>5
<1>9. KeysFollow'
  BY DEF KeyTick, KeysFollow
<1> QED
  BY <1>6, <1>7, <1>8, <1>9 DEF KeysInv

\* The provider's own steps: a key changes, and its age starts again.
LEMMA ProviderStep ==
    ASSUME KeysInv, PublishNext \/ Withdraw
    PROVE  KeysInv'
<1> DEFINE Changes(k) == /\ published' \subseteq Keys
                         /\ \A j \in Keys \ {k} : j \in published' <=> j \in published
                         /\ since' = [since EXCEPT ![k] = 0]
<1>1. \E k \in Keys : Changes(k)
  <2>1. CASE PublishNext
    <3>1. PICK k \in 2..NumKeys : /\ published = {k - 1} /\ published' = {k - 1, k}
                                  /\ since' = [since EXCEPT ![k] = 0]
      BY <2>1 DEF PublishNext
    <3> QED
      <4>1. k \in Keys
        BY Constants DEF Keys
      <4>2. Changes(k)
        BY <3>1, <4>1 DEF KeysInv, KeysTyped
      <4> QED
        BY <4>1, <4>2
  <2>2. CASE Withdraw
    <3>1. PICK k \in 2..NumKeys : /\ published = {k - 1, k} /\ published' = {k}
                                  /\ since' = [since EXCEPT ![k - 1] = 0]
      BY <2>2 DEF Withdraw
    <3>2. k - 1 \in Keys /\ k \in Keys
      BY Constants DEF Keys
    <3>3. Changes(k - 1)
      BY <3>1, <3>2 DEF KeysInv, KeysTyped
    <3> QED
      BY <3>2, <3>3
  <2> QED
    BY <2>1, <2>2
<1> PICK k \in Keys : Changes(k)
  BY <1>1
<1>2. UNCHANGED <<jwks, verifying, fetchFailed>> /\ verdict' = NoKeys
  BY DEF PublishNext, Withdraw
<1>3. KeysTyped'
  BY <1>2 DEF KeysInv, KeysTyped
<1>4. ASSUME NEW keys, NEW age \in Nat, Lags(keys, age) PROVE Lags(keys, age)'
  BY <1>4 DEF Lags, KeysInv, KeysTyped
<1>5. CacheLags'
  BY <1>2, <1>4 DEF CacheLags, KeysInv, KeysTyped
<1>6. ReadsLag'
  BY <1>2, <1>4, Constants DEF ReadsLag, KeysInv, KeysTyped, SignIns
<1>7. KeysFollow'
  BY <1>2 DEF KeysFollow
<1> QED
  BY <1>3, <1>5, <1>6, <1>7 DEF KeysInv

LEMMA KeysStepInv == KeysInv /\ [KeysNext]_keyVars => KeysInv'
<1> SUFFICES ASSUME KeysInv, [KeysNext]_keyVars PROVE KeysInv'
  OBVIOUS
<1>1. CASE KeysNext
  BY <1>1, RefuseStep, FreshStep, StartStep, AnswerStep, StoreStep, FailStep, TickStep, ProviderStep
  DEF KeysNext, FetchStep
<1>2. CASE UNCHANGED keyVars
  BY <1>2 DEF keyVars, KeysInv, KeysTyped, CacheLags, ReadsLag, Lags, KeysFollow, Behind
<1> QED
  BY <1>1, <1>2

---------------------------------------------------------------------------
\* Accounts.

USE AccountsAssumption

\* What the stage of a call says of its fields, its user's account and its token.
StagedIn(k, accounts, tokens) ==
    /\ k.op = "login" /\ k.at \in {"find", "email", "insert", "plain"} => k.who \in Identity
    /\ k.new => k.op = "login" /\ k.at = "commit" /\ k.who \in Identity
    /\ k.at \in {"commit", "disk", "mem", "serve", "erase"} => k.user \in User
    /\ k.at \in {"disk", "mem", "denylist", "account"} => k.jti \in tokens
    /\ k.op = "delete" /\ k.at = "erase" => accounts[k.user].state # "none"

Staged(k) == StagedIn(k, account, Jti)

Stages == \A c \in Call : Staged(call[c])

Inserting(k) == k.op = "login" /\ k.at = "commit" /\ k.new

\* What an uncommitted account has reserved.
Reserved ==
    /\ \A c \in Call : Inserting(call[c]) =>
           /\ account[call[c].user].state = "none"
           /\ link[call[c].who] = NoUser
           /\ ~ EmailTaken(call[c].email)
    /\ \A c, o \in Call : Inserting(call[c]) /\ Inserting(call[o]) /\ c # o =>
           /\ call[c].user # call[o].user
           /\ call[c].who # call[o].who
           /\ call[c].email = call[o].email => call[c].email = NoEmail

Tables == EveryAccountIsReachable /\ OneIdentityPerAccount /\ EmailsAreDistinct

Inv == TypeOK /\ Stages /\ Reserved /\ Tables

LEMMA UserRange == User \subseteq Nat /\ NoUser \notin User
BY DEF User

\* A change of one call that reserves nothing keeps everything about accounts.
LEMMA CallStep ==
    ASSUME Inv, NEW c \in Call, NEW r \in Calls, Staged(r), ~ Inserting(r), Set(c, r),
           UNCHANGED <<account, link, issued>>,
           saved' \subseteq User \X Spot, denied' \subseteq Jti,
           disk' \in [Device -> Jti \cup {NoToken}], mem' \in [Device -> Access \cup {NoToken}],
           acts' \in 0..MaxAct, faults' \in 0..MaxFault
    PROVE  Inv'
<1>1. call' \in [Call -> Calls] /\ Calls' = Calls
  BY DEF Inv, TypeOK, Set, Calls, Jti
<1>2. \A o \in Call : call'[o] = IF o = c THEN r ELSE call[o]
  BY DEF Inv, TypeOK, Set
<1>3. Stages'
  <2> SUFFICES ASSUME NEW o \in Call PROVE Staged(call[o])'
    BY DEF Stages
  <2>1. StagedIn(call'[o], account, Jti)
    BY <1>2 DEF Inv, Stages, Staged
  <2> QED
    BY <2>1 DEF Staged, Jti
<1>4. Reserved'
  BY <1>2 DEF Inv, Reserved, Inserting, EmailTaken, Live
<1>5. Tables'
  BY DEF Inv, Tables, EveryAccountIsReachable, OneIdentityPerAccount, EmailsAreDistinct, Live
<1>6. TypeOK'
  BY <1>1 DEF Inv, TypeOK, Jti, Access
<1> QED
  BY <1>3, <1>4, <1>5, <1>6 DEF Inv

LEMMA IdleTyped == Idle \in Calls /\ Staged(Idle) /\ ~ Inserting(Idle)
BY DEF Idle, Calls, Staged, StagedIn, Inserting, Email

LEMMA IdleFields ==
    /\ Idle.op = "none" /\ Idle.at = "idle" /\ Idle.user = NoUser /\ Idle.jti = NoToken
    /\ Idle.who = NoUser /\ Idle.email = NoEmail /\ ~ Idle.new /\ ~ Idle.old
    /\ ~ Idle.retried /\ Idle.rows = {}
BY DEF Idle

LEMMA ClearedTyped == Cleared \in Calls /\ Staged(Cleared) /\ ~ Inserting(Cleared)
BY DEF Cleared, Idle, Calls, Staged, StagedIn, Inserting, Email

\* A call that turns to the stored refresh token.
LEMMA RefreshingTyped ==
    ASSUME TypeOK, NEW c \in Call, NEW k \in Calls, ~ k.new
    PROVE  /\ Refreshing(c, k) \in Calls
           /\ Staged(Refreshing(c, k))
           /\ ~ Inserting(Refreshing(c, k))
<1>1. disk[c[1]] \in Jti \cup {NoToken}
  BY DEF TypeOK
<1>2. CASE disk[c[1]] = NoToken
  BY <1>2, ClearedTyped DEF Refreshing
<1>3. CASE disk[c[1]] # NoToken
  <2> DEFINE r == [k EXCEPT !.at = "denylist", !.jti = disk[c[1]]]
  <2>1. r \in Calls /\ r.at = "denylist" /\ r.jti \in Jti /\ ~ r.new
    BY <1>1, <1>3 DEF Calls
  <2>2. Staged(r) /\ ~ Inserting(r)
    BY <2>1 DEF Staged, StagedIn, Inserting
  <2> QED
    BY <1>3, <2>1, <2>2 DEF Refreshing
<1> QED
  BY <1>2, <1>3

\* The fields of a call.
LEMMA CallTyped ==
    ASSUME TypeOK, NEW c \in Call
    PROVE  call[c] \in Calls /\ c[1] \in Device
BY DEF TypeOK

LEMMA InitInv == Init => Inv
<1> SUFFICES ASSUME Init PROVE Inv
  OBVIOUS
<1>1. TypeOK
  BY IdleTyped DEF Init, TypeOK, Email, Jti
<1>2. Stages /\ Reserved
  BY IdleTyped DEF Init, Stages, Reserved, Inserting, Idle
<1>3. Tables
  BY UserRange DEF Init, Tables, EveryAccountIsReachable, OneIdentityPerAccount,
     EmailsAreDistinct, Live
<1> QED
  BY <1>1, <1>2, <1>3 DEF Inv

LEMMA LoginStep ==
    ASSUME Inv, NEW c \in Call, Login(c) \/ LoginFind(c) \/ LoginEmail(c)
    PROVE  Inv'
<1>0. TypeOK /\ call[c] \in Calls /\ Staged(call[c])
  BY CallTyped DEF Inv, Stages
<1>1. CASE Login(c)
  <2>1. PICK i \in Identity : Set(c, [Idle EXCEPT !.op = "login", !.at = "find", !.who = i])
    BY <1>1 DEF Login
  <2> DEFINE r == [Idle EXCEPT !.op = "login", !.at = "find", !.who = i]
  <2>2. r \in Calls
    BY IdleTyped DEF Calls
  <2>3. r.op = "login" /\ r.at = "find" /\ r.who \in Identity /\ ~ r.new
    BY IdleTyped, IdleFields DEF Calls
  <2> HIDE DEF r
  <2>4. Staged(r) /\ ~ Inserting(r)
    BY <2>3 DEF Staged, StagedIn, Inserting
  <2>5. Set(c, r)
    BY <2>1 DEF r
  <2> QED
    BY <1>0, <1>1, <2>2, <2>4, <2>5, CallStep DEF Login, TypeOK, tables, session
<1>2. CASE LoginFind(c)
  <2> DEFINE r == IF link[call[c].who] # NoUser
                  THEN [call[c] EXCEPT !.user = link[call[c].who], !.at = "commit"]
                  ELSE [call[c] EXCEPT !.email = EmailOf[call[c].who], !.at = "email"]
  <2>1. /\ call[c].who \in Identity /\ call[c].op = "login" /\ ~ call[c].new
        /\ link[call[c].who] \in User \cup {NoUser} /\ EmailOf[call[c].who] \in Email
    BY <1>0, <1>2 DEF LoginFind, At, Staged, StagedIn, TypeOK, Email
  <2> DEFINE f == [call[c] EXCEPT !.user = link[call[c].who], !.at = "commit"]
             g == [call[c] EXCEPT !.email = EmailOf[call[c].who], !.at = "email"]
  <2>2. link[call[c].who] # NoUser => f \in Calls /\ f.at = "commit" /\ f.user \in User
    BY <1>0, <2>1 DEF Calls
  <2>3. g \in Calls /\ g.at = "email"
    BY <1>0, <2>1 DEF Calls
  <2>4. /\ f.op = "login" /\ f.who \in Identity /\ ~ f.new
        /\ g.op = "login" /\ g.who \in Identity /\ ~ g.new
    BY <1>0, <2>1 DEF Calls
  <2>5. Set(c, r) /\ r = IF link[call[c].who] # NoUser THEN f ELSE g
    BY <1>2 DEF LoginFind
  <2> HIDE DEF f, g, r
  <2>6. /\ r \in Calls /\ r.op = "login" /\ r.who \in Identity /\ ~ r.new
        /\ r.at = "email" \/ (r.at = "commit" /\ r.user \in User)
    BY <2>2, <2>4, <2>3, <2>5
  <2>7. Staged(r) /\ ~ Inserting(r)
    BY <2>6 DEF Staged, StagedIn, Inserting
  <2> QED
    BY <1>0, <1>2, <2>5, <2>6, <2>7, CallStep DEF LoginFind, TypeOK, tables, session
<1>3. CASE LoginEmail(c)
  <2>1. call[c].op = "login" /\ call[c].who \in Identity /\ ~ call[c].new
    BY <1>0, <1>3 DEF LoginEmail, At, Staged, StagedIn
  <2> DEFINE m == IF EmailTaken(call[c].email) THEN NoEmail ELSE call[c].email
  <2>2. m \in Email
    BY <1>0 DEF Calls, Email
  <2>3. Set(c, [call[c] EXCEPT !.at = "insert", !.email = m])
    BY <1>3 DEF LoginEmail
  <2> HIDE DEF m
  <2> DEFINE k == [call[c] EXCEPT !.at = "insert", !.email = m]
  <2>4. k \in Calls /\ k.op = "login" /\ k.at = "insert" /\ k.who \in Identity /\ ~ k.new
    BY <1>0, <2>1, <2>2 DEF Calls
  <2> HIDE DEF k
  <2>5. Staged(k) /\ ~ Inserting(k) /\ Set(c, k)
    BY <2>3, <2>4 DEF Staged, StagedIn, Inserting, k
  <2> QED
    BY <1>0, <1>3, <2>4, <2>5, CallStep DEF LoginEmail, TypeOK, tables, session
<1> QED
  BY <1>1, <1>2, <1>3

LEMMA InsertedStep ==
    ASSUME Inv, NEW c \in Call, call[c].op = "login", call[c].who \in Identity, ~ call[c].new,
           ~ Waits(c), ~ Collides(c), Inserted(c),
           UNCHANGED <<tables, issued, denied, session, acts, faults>>
    PROVE  Inv'
<1>0. TypeOK /\ call[c] \in Calls /\ Staged(call[c])
  BY CallTyped DEF Inv, Stages
<1>1. PICK u \in User : /\ account[u].state = "none" /\ Fresh(u)
                        /\ Set(c, [call[c] EXCEPT !.user = u, !.new = TRUE, !.at = "commit"])
  BY DEF Inserted
<1> DEFINE r == [call[c] EXCEPT !.user = u, !.new = TRUE, !.at = "commit"]
<1>2. r \in Calls /\ Staged(r) /\ r.user = u /\ r.who = call[c].who /\ r.email = call[c].email
  BY <1>0, <1>1 DEF Calls, Staged, StagedIn
<1>3. \A o \in Call : call'[o] = IF o = c THEN r ELSE call[o]
  BY <1>0, <1>1 DEF TypeOK, Set
<1>4. TypeOK'
  <2>1. call' \in [Call -> Calls] /\ Calls' = Calls
    BY <1>0, <1>1, <1>2 DEF TypeOK, Set, Calls, Jti
  <2> QED
    BY <1>0, <2>1 DEF TypeOK, tables, session, Jti, Access
<1>5. Stages'
  <2> SUFFICES ASSUME NEW o \in Call PROVE Staged(call[o])'
    BY DEF Stages
  <2>1. StagedIn(call'[o], account, Jti)
    BY <1>2, <1>3 DEF Inv, Stages, Staged
  <2> QED
    BY <2>1 DEF Staged, Jti, tables
<1>6. Reserved'
  <2>1. \A o \in Call : Inserting(call[o]) => o \in Pending
    BY DEF Inserting, Pending, At
  <2>2. \A o \in Call \ {c} : Inserting(call[o]) =>
            /\ call[o].user # u /\ call[o].who # call[c].who
            /\ call[o].email = call[c].email => call[c].email = NoEmail
    BY <1>1, <2>1 DEF Fresh, Waits
  <2>3. link[call[c].who] = NoUser /\ ~ EmailTaken(call[c].email)
    BY DEF Collides
  <2>4. UNCHANGED <<account, link>>
    BY DEF tables
  <2>5. \A o \in Call : Inserting(call'[o]) =>
            /\ account[call'[o].user].state = "none"
            /\ link[call'[o].who] = NoUser
            /\ ~ EmailTaken(call'[o].email)
    BY <1>1, <1>2, <1>3, <2>3 DEF Inv, Reserved
  <2>6. \A p, o \in Call : Inserting(call'[p]) /\ Inserting(call'[o]) /\ p # o =>
            /\ call'[p].user # call'[o].user /\ call'[p].who # call'[o].who
            /\ call'[p].email = call'[o].email => call'[p].email = NoEmail
    <3> SUFFICES ASSUME NEW p \in Call, NEW o \in Call, p # o,
                        Inserting(call'[p]), Inserting(call'[o])
                 PROVE  /\ call'[p].user # call'[o].user /\ call'[p].who # call'[o].who
                        /\ call'[p].email = call'[o].email => call'[p].email = NoEmail
      OBVIOUS
    <3>1. CASE p = c
      <4>1. call'[p] = r /\ call'[o] = call[o] /\ o \in Call \ {c} /\ Inserting(call[o])
        BY <1>3, <3>1
      <4> QED
        BY <1>2, <2>2, <4>1
    <3>2. CASE o = c
      <4>1. call'[o] = r /\ call'[p] = call[p] /\ p \in Call \ {c} /\ Inserting(call[p])
        BY <1>3, <3>2
      <4> QED
        BY <1>2, <2>2, <4>1
    <3>3. CASE p # c /\ o # c
      BY <1>3, <3>3 DEF Inv, Reserved
    <3> QED
      BY <3>1, <3>2, <3>3
  <2> QED
    BY <2>4, <2>5, <2>6 DEF Reserved, Inserting, EmailTaken, Live
<1>7. Tables'
  BY DEF Inv, Tables, tables, EveryAccountIsReachable, OneIdentityPerAccount, EmailsAreDistinct, Live
<1> QED
  BY <1>4, <1>5, <1>6, <1>7 DEF Inv

LEMMA InsertStep ==
    ASSUME Inv, NEW c \in Call, LoginInsert(c) \/ LoginPlain(c)
    PROVE  Inv'
<1>0. TypeOK /\ call[c] \in Calls /\ Staged(call[c])
  BY CallTyped DEF Inv, Stages
<1>1. call[c].op = "login" /\ call[c].who \in Identity /\ ~ call[c].new /\ ~ Waits(c)
  BY <1>0 DEF LoginInsert, LoginPlain, At, Staged, StagedIn
<1>2. UNCHANGED <<tables, issued, denied, session, acts, faults>>
  BY DEF LoginInsert, LoginPlain
<1>3. CASE ~ Collides(c)
  BY <1>1, <1>2, <1>3, InsertedStep DEF LoginInsert, LoginPlain
<1>4. CASE Collides(c) /\ LoginPlain(c)
  <2>1. Set(c, Idle)
    BY <1>4 DEF LoginPlain
  <2> QED
    BY <1>0, <1>2, <2>1, IdleTyped, CallStep DEF TypeOK, tables, session
<1>5. CASE Collides(c) /\ LoginInsert(c)
  <2> DEFINE r == IF link[call[c].who] # NoUser
                  THEN [call[c] EXCEPT !.user = link[call[c].who], !.at = "commit"]
                  ELSE [call[c] EXCEPT !.email = NoEmail, !.at = "plain"]
  <2>1. Set(c, r)
    BY <1>5 DEF LoginInsert
  <2>2. link[call[c].who] \in User \cup {NoUser} /\ NoEmail \in Email
    BY <1>0, <1>1 DEF TypeOK, Email
  <2> DEFINE f == [call[c] EXCEPT !.user = link[call[c].who], !.at = "commit"]
             g == [call[c] EXCEPT !.email = NoEmail, !.at = "plain"]
  <2>3. link[call[c].who] # NoUser => f \in Calls /\ f.at = "commit" /\ f.user \in User
    BY <1>0, <1>1, <2>2 DEF Calls
  <2>4. g \in Calls /\ g.at = "plain"
    BY <1>0, <1>1, <2>2 DEF Calls
  <2>5. /\ f.op = "login" /\ f.who \in Identity /\ ~ f.new
        /\ g.op = "login" /\ g.who \in Identity /\ ~ g.new
    BY <1>0, <1>1 DEF Calls
  <2>6. r = IF link[call[c].who] # NoUser THEN f ELSE g
    OBVIOUS
  <2> HIDE DEF f, g, r
  <2>7. /\ r \in Calls /\ r.op = "login" /\ r.who \in Identity /\ ~ r.new
        /\ r.at = "plain" \/ (r.at = "commit" /\ r.user \in User)
    BY <2>3, <2>5, <2>4, <2>6
  <2>8. Staged(r) /\ ~ Inserting(r)
    BY <2>7 DEF Staged, StagedIn, Inserting
  <2> QED
    BY <1>0, <1>2, <2>1, <2>7, <2>8, CallStep DEF TypeOK, tables, session
<1> QED
  BY <1>3, <1>4, <1>5

LEMMA LoginCommitStep ==
    ASSUME Inv, NEW c \in Call, LoginCommit(c)
    PROVE  Inv'
<1>0. TypeOK /\ call[c] \in Calls /\ Staged(call[c])
  BY CallTyped DEF Inv, Stages
<1> DEFINE k == call[c]
           n == Len(issued) + 1
           r == [Idle EXCEPT !.op = "login", !.at = "disk", !.user = k.user, !.jti = n]
<1>1. k.op = "login" /\ k.at = "commit" /\ k.user \in User /\ Set(c, r)
      /\ issued' = Append(issued, k.user)
  BY <1>0 DEF LoginCommit, At, Staged, StagedIn
<1>2. issued' \in Seq(User) /\ Jti \subseteq Jti' /\ n \in Jti' /\ NoToken \notin Jti'
  BY <1>0, <1>1 DEF TypeOK, Jti
<1>3. r \in Calls' /\ StagedIn(r, account', Jti') /\ ~ Inserting(r)
  <2>1. r \in Calls'
    BY <1>1, <1>2, IdleTyped DEF Calls, Idle
  <2>2. r.op = "login" /\ r.at = "disk" /\ r.user = k.user /\ r.jti = n /\ ~ r.new
    BY DEF Idle
  <2> HIDE DEF r
  <2>3. StagedIn(r, account', Jti') /\ ~ Inserting(r)
    BY <1>1, <1>2, <2>2 DEF StagedIn, Inserting
  <2> QED
    BY <2>1, <2>3
<1>4. \A o \in Call : call'[o] = IF o = c THEN r ELSE call[o]
  BY <1>0, <1>1 DEF TypeOK, Set
<1>5. Calls \subseteq Calls' /\ Access \subseteq Access'
  BY <1>2 DEF Calls, Access
<1>6. call' \in [Call -> Calls']
  BY <1>0, <1>1, <1>3, <1>5 DEF TypeOK, Set
<1>7. UNCHANGED <<saved, denied, disk, mem, acts, faults>>
  BY DEF LoginCommit, session
<1>8. CASE ~ k.new
  <2>1. UNCHANGED <<account, link>>
    BY <1>8 DEF LoginCommit
  <2>2. TypeOK'
    BY <1>0, <1>2, <1>5, <1>6, <1>7, <2>1 DEF TypeOK
  <2>3. Stages'
    <3> SUFFICES ASSUME NEW o \in Call PROVE StagedIn(call'[o], account', Jti')
      BY DEF Stages, Staged
    <3> QED
      BY <1>2, <1>3, <1>4, <2>1 DEF Inv, Stages, Staged, StagedIn
  <2>4. Reserved'
    <3>1. \A o \in Call : Inserting(call'[o]) => o # c /\ call'[o] = call[o]
      BY <1>3, <1>4
    <3> QED
      BY <2>1, <3>1 DEF Inv, Reserved, Inserting, EmailTaken, Live
  <2>5. Tables'
    BY <2>1 DEF Inv, Tables, EveryAccountIsReachable, OneIdentityPerAccount, EmailsAreDistinct, Live
  <2> QED
    BY <2>2, <2>3, <2>4, <2>5 DEF Inv
<1>9. CASE k.new
  <2>1. /\ account' = [account EXCEPT ![k.user] = [state |-> "live", email |-> k.email]]
        /\ link' = [link EXCEPT ![k.who] = k.user]
    BY <1>9 DEF LoginCommit
  <2>2. Inserting(k) /\ k.who \in Identity /\ k.email \in Email
    BY <1>0, <1>1, <1>9 DEF Inserting, Staged, StagedIn, Calls
  <2>3. account[k.user].state = "none" /\ link[k.who] = NoUser /\ ~ EmailTaken(k.email)
    BY <2>2 DEF Inv, Reserved
  <2>4. \A u \in User : account'[u] = IF u = k.user THEN [state |-> "live", email |-> k.email]
                                      ELSE account[u]
    BY <1>0, <2>1 DEF TypeOK
  <2>5. \A i \in Identity : link'[i] = IF i = k.who THEN k.user ELSE link[i]
    BY <1>0, <2>1 DEF TypeOK
  <2>6. TypeOK'
    <3>1. account' \in [User -> [state : {"none", "live", "deleted"}, email : Email]]
      BY <1>0, <2>1, <2>2 DEF TypeOK
    <3>2. link' \in [Identity -> User \cup {NoUser}]
      BY <1>0, <1>1, <2>1 DEF TypeOK
    <3> QED
      BY <1>0, <1>2, <1>5, <1>6, <1>7, <3>1, <3>2 DEF TypeOK
  <2>7. Stages'
    <3> SUFFICES ASSUME NEW o \in Call PROVE StagedIn(call'[o], account', Jti')
      BY DEF Stages, Staged
    <3>1. CASE o = c
      BY <1>3, <1>4, <3>1
    <3>2. CASE o # c
      <4>1. call'[o] = call[o] /\ Staged(call[o])
        BY <1>4, <3>2 DEF Inv, Stages
      <4>2. call[o].at = "erase" => call[o].user \in User
        BY <4>1 DEF Staged, StagedIn
      <4> QED
        BY <1>2, <2>4, <4>1, <4>2 DEF Staged, StagedIn
    <3> QED
      BY <3>1, <3>2
  <2>8. Reserved'
    <3>1. \A o \in Call : Inserting(call'[o]) =>
              /\ o # c /\ call'[o] = call[o] /\ Inserting(call[o])
              /\ call[o].user \in User /\ call[o].who \in Identity
      BY <1>3, <1>4 DEF Inv, Stages, Staged, StagedIn, Inserting
    <3>2. \A o \in Call : Inserting(call'[o]) =>
              /\ account'[call'[o].user].state = "none"
              /\ link'[call'[o].who] = NoUser
      BY <2>2, <2>4, <2>5, <3>1 DEF Inv, Reserved
    <3>3. \A o \in Call : Inserting(call'[o]) =>
              ~ \E u \in User : /\ account'[u].state = "live"
                                /\ account'[u].email = call'[o].email
                               /\ call'[o].email # NoEmail
      BY <2>2, <2>4, <3>1 DEF Inv, Reserved, EmailTaken, Live
    <3> QED
      BY <3>1, <3>2, <3>3 DEF Inv, Reserved, Inserting, EmailTaken, Live
  <2>9. Tables'
    <3>1. EveryAccountIsReachable'
      <4> SUFFICES ASSUME NEW u \in User
                   PROVE  account'[u].state = "live" <=> \E i \in Identity : link'[i] = u
        BY DEF EveryAccountIsReachable, Live
      <4>1. account[u].state = "live" <=> \E i \in Identity : link[i] = u
        BY DEF Inv, Tables, EveryAccountIsReachable, Live
      <4>2. CASE u = k.user
        BY <2>2, <2>4, <2>5, <4>2
      <4>3. CASE u # k.user
        <5>1. (\E i \in Identity : link'[i] = u) <=> \E i \in Identity : link[i] = u
          BY <2>2, <2>3, <2>5, <4>3, UserRange
        <5> QED
          BY <2>4, <4>1, <4>3, <5>1
      <4> QED
        BY <4>2, <4>3
    <3>2. OneIdentityPerAccount'
      BY <1>1, <2>2, <2>3, <2>5
      DEF Inv, Tables, OneIdentityPerAccount, EveryAccountIsReachable, Live
    <3>3. EmailsAreDistinct'
      BY <2>3, <2>4 DEF Inv, Tables, EmailsAreDistinct, EmailTaken, Live
    <3> QED
      BY <3>1, <3>2, <3>3 DEF Tables
  <2> QED
    BY <2>6, <2>7, <2>8, <2>9 DEF Inv
<1> QED
  BY <1>8, <1>9

\* What the device does with an answer, and the calls of a refresh.
LEMMA SessionStep ==
    ASSUME Inv, NEW c \in Call,
           \/ StoreDisk(c) \/ StoreMem(c) \/ ClearDisk(c) \/ ClearMem(c) \/ Hydrate(c)
           \/ RefreshDenylist(c) \/ RefreshAccount(c) \/ LoseRefresh(c)
    PROVE  Inv'
<1>0. TypeOK /\ call[c] \in Calls /\ Staged(call[c]) /\ c[1] \in Device
  BY CallTyped DEF Inv, Stages
<1>1. CASE StoreDisk(c)
  <2> DEFINE r == [call[c] EXCEPT !.at = "mem"]
  <2>1. r \in Calls /\ Staged(r) /\ ~ Inserting(r) /\ call[c].jti \in Jti
    BY <1>0, <1>1 DEF StoreDisk, Calls, Staged, StagedIn, Inserting
  <2>2. Set(c, r)
    BY <1>0, <1>1 DEF StoreDisk, Go, Set, TypeOK
  <2> QED
    BY <1>0, <1>1, <2>1, <2>2, CallStep DEF StoreDisk, TypeOK, tables
<1>2. CASE StoreMem(c)
  <2> DEFINE r == IF Resumes(call[c]) THEN [call[c] EXCEPT !.at = "serve", !.old = FALSE] ELSE Idle
             t == [user |-> call[c].user, jti |-> call[c].jti, old |-> FALSE]
  <2>1. r \in Calls /\ Staged(r) /\ ~ Inserting(r)
    <3>1. CASE Resumes(call[c])
      BY <1>0, <1>2, <3>1 DEF StoreMem, Calls, Staged, StagedIn, Inserting
    <3>2. CASE ~ Resumes(call[c])
      BY <3>2, IdleTyped
    <3> QED
      BY <3>1, <3>2
  <2>2. t \in Access
    BY <1>0, <1>2 DEF StoreMem, Staged, StagedIn, Access
  <2> QED
    BY <1>0, <1>2, <2>1, <2>2, CallStep DEF StoreMem, TypeOK, tables
<1>3. CASE ClearDisk(c)
  <2> DEFINE r == [call[c] EXCEPT !.at = "forget"]
  <2>1. r \in Calls /\ Staged(r) /\ ~ Inserting(r)
    BY <1>0, <1>3 DEF ClearDisk, Calls, Staged, StagedIn, Inserting
  <2>2. Set(c, r)
    BY <1>0, <1>3 DEF ClearDisk, Go, Set, TypeOK
  <2> QED
    BY <1>0, <1>3, <2>1, <2>2, CallStep DEF ClearDisk, TypeOK, tables
<1>4. CASE ClearMem(c)
  BY <1>0, <1>4, IdleTyped, CallStep DEF ClearMem, TypeOK, tables
<1>5. CASE Hydrate(c)
  <2> DEFINE k == [Idle EXCEPT !.op = "hydrate"]
             r == Refreshing(c, k)
  <2>0. k \in Calls /\ ~ k.new
    BY IdleTyped DEF Idle, Calls
  <2>1. r \in Calls /\ Staged(r) /\ ~ Inserting(r)
    BY <1>0, <2>0, RefreshingTyped
  <2> QED
    BY <1>0, <1>5, <2>1, CallStep DEF Hydrate, TypeOK, tables, session
<1>6. CASE RefreshDenylist(c)
  <2> DEFINE r == [call[c] EXCEPT !.at = "account"]
  <2>1. r \in Calls /\ Staged(r) /\ ~ Inserting(r)
    BY <1>0, <1>6 DEF RefreshDenylist, Calls, Staged, StagedIn, Inserting
  <2>2. (Set(c, r) \/ Set(c, Cleared)) /\ faults' \in 0..MaxFault
    BY <1>0, <1>6 DEF RefreshDenylist, Go, Set, TypeOK
  <2> QED
    BY <1>0, <1>6, <2>1, <2>2, ClearedTyped, CallStep DEF RefreshDenylist, TypeOK, tables, session
<1>7. CASE RefreshAccount(c)
  <2> DEFINE u == issued[call[c].jti]
             r == IF Live(u) THEN [call[c] EXCEPT !.user = u, !.at = "disk"] ELSE Cleared
  <2>1. u \in User /\ call[c].jti \in Jti
    BY <1>0, <1>7 DEF RefreshAccount, Staged, StagedIn, TypeOK, Jti
  <2>2. r \in Calls /\ Staged(r) /\ ~ Inserting(r)
    <3>1. CASE Live(u)
      BY <1>0, <1>7, <2>1, <3>1 DEF RefreshAccount, Calls, Staged, StagedIn, Inserting
    <3>2. CASE ~ Live(u)
      BY <3>2, ClearedTyped
    <3> QED
      BY <3>1, <3>2
  <2> QED
    BY <1>0, <1>7, <2>2, CallStep DEF RefreshAccount, TypeOK, tables, session
<1>8. CASE LoseRefresh(c)
  <2>1. faults' \in 0..MaxFault
    BY <1>0, <1>8 DEF LoseRefresh, TypeOK
  <2> QED
    BY <2>1, <1>0, <1>8, ClearedTyped, CallStep DEF LoseRefresh, TypeOK, tables, session
<1> QED
  BY <1>1, <1>2, <1>3, <1>4, <1>5, <1>6, <1>7, <1>8

\* Requests, deletions and logouts.
LEMMA CallsStep ==
    ASSUME Inv, NEW c \in Call,
           \/ \E op \in {"me", "save", "delete"} : Send(c, op)
           \/ Logout(c) \/ ServeExpired(c) \/ ServeMe(c) \/ ServeSave(c) \/ LoseRequest(c)
           \/ DeleteRows(c) \/ Deny(c)
    PROVE  Inv'
<1>0. TypeOK /\ call[c] \in Calls /\ Staged(call[c]) /\ c[1] \in Device
  BY CallTyped DEF Inv, Stages
<1>1. ASSUME NEW op \in {"me", "save", "delete"}, Send(c, op) PROVE Inv'
  <2> DEFINE t == mem[c[1]]
             r == [Idle EXCEPT !.op = op, !.at = "serve", !.user = t.user, !.old = t.old,
                               !.jti = IF op = "delete" THEN disk[c[1]] ELSE NoToken]
  <2>1. t \in Access /\ disk[c[1]] \in Jti \cup {NoToken}
    BY <1>0, <1>1 DEF Send, TypeOK
  <2>2. Set(c, r) /\ acts' \in 0..MaxAct
    BY <1>0, <1>1 DEF Send, TypeOK
  <2>3. t.user \in User /\ t.old \in BOOLEAN
    BY <2>1 DEF Access
  <2> DEFINE j == IF op = "delete" THEN disk[c[1]] ELSE NoToken
  <2>4. j \in Jti \cup {NoToken}
    BY <2>1
  <2> HIDE DEF t, j
  <2>5. r \in Calls
    <3> DEFINE u == t.user
               o == t.old
    <3>1. r = [Idle EXCEPT !.op = op, !.at = "serve", !.user = u, !.old = o, !.jti = j]
      BY DEF j
    <3>2. u \in User /\ o \in BOOLEAN
      BY <2>3
    <3> HIDE DEF u, o
    <3> DEFINE k == [Idle EXCEPT !.op = op, !.at = "serve"]
               m == [k EXCEPT !.user = u, !.jti = j]
    <3>3. k \in Calls
      BY IdleTyped DEF Calls
    <3>4. r = [m EXCEPT !.old = o]
      BY <3>1
    <3> HIDE DEF k
    <3>5. m \in Calls
      BY <2>4, <3>2, <3>3 DEF Calls
    <3> HIDE DEF m, r
    <3> QED
      BY <3>2, <3>4, <3>5 DEF Calls
  <2>6. r.op = op /\ r.at = "serve" /\ r.user \in User /\ ~ r.new
    BY <2>3 DEF Idle
  <2> HIDE DEF r
  <2>7. Staged(r) /\ ~ Inserting(r)
    BY <2>6 DEF Staged, StagedIn, Inserting
  <2> QED
    BY <1>0, <1>1, <2>2, <2>5, <2>7, CallStep DEF Send, TypeOK, tables, session
<1>2. CASE Logout(c)
  <2> DEFINE r == [Idle EXCEPT !.op = "logout", !.at = "deny", !.jti = disk[c[1]]]
  <2>1. disk[c[1]] \in Jti \cup {NoToken}
    BY <1>0 DEF TypeOK
  <2>2. r \in Calls /\ Staged(r) /\ ~ Inserting(r)
    BY <2>1, IdleTyped DEF Idle, Calls, Staged, StagedIn, Inserting
  <2>3. Set(c, r) /\ acts' \in 0..MaxAct
    BY <1>0, <1>2 DEF Logout, TypeOK
  <2> QED
    BY <1>0, <1>2, <2>2, <2>3, CallStep DEF Logout, TypeOK, tables, session
<1>3. CASE ServeExpired(c)
  <2> DEFINE k == [call[c] EXCEPT !.retried = TRUE]
  <2>1. k \in Calls /\ ~ k.new
    BY <1>0, <1>3 DEF ServeExpired, Calls, Staged, StagedIn
  <2>2. Set(c, Idle) \/ Set(c, Refreshing(c, k))
    BY <1>3 DEF ServeExpired
  <2> QED
    BY <1>0, <1>3, <2>1, <2>2, IdleTyped, RefreshingTyped, CallStep
    DEF ServeExpired, TypeOK, tables, session
<1>4. CASE ServeMe(c)
  <2>1. Set(c, Idle) \/ Set(c, Cleared)
    BY <1>4 DEF ServeMe
  <2> QED
    BY <1>0, <1>4, <2>1, IdleTyped, ClearedTyped, CallStep DEF ServeMe, TypeOK, tables, session
<1>5. CASE ServeSave(c)
  <2>1. call[c].user \in User
    BY <1>0, <1>5 DEF ServeSave, At, Staged, StagedIn
  <2>2. saved' \subseteq User \X Spot
    BY <1>0, <1>5, <2>1 DEF ServeSave, TypeOK
  <2> QED
    BY <1>0, <1>5, <2>2, IdleTyped, CallStep DEF ServeSave, TypeOK, session
<1>6. CASE LoseRequest(c)
  <2>1. faults' \in 0..MaxFault
    BY <1>0, <1>6 DEF LoseRequest, TypeOK
  <2> QED
    BY <1>0, <1>6, <2>1, IdleTyped, CallStep DEF LoseRequest, TypeOK, tables, session
<1>7. CASE DeleteRows(c)
  <2> DEFINE e == [call[c] EXCEPT !.at = "erase", !.rows = {p \in saved : p[1] = call[c].user}]
             f == [call[c] EXCEPT !.at = "deny", !.user = NoUser]
  <2>1. e \in Calls /\ f \in Calls
    BY <1>0 DEF Calls, TypeOK
  <2>2. ~ call[c].new /\ call[c].user \in User
    BY <1>0, <1>7 DEF DeleteRows, At, Staged, StagedIn
  <2>3. Staged(f) /\ ~ Inserting(f) /\ ~ Inserting(e)
    BY <1>0, <2>2 DEF Calls, Staged, StagedIn, Inserting
  <2>4. Live(call[c].user) => Staged(e)
    BY <1>0, <2>2 DEF Calls, Staged, StagedIn, Live
  <2>5. IF Live(call[c].user) THEN Set(c, e) ELSE Set(c, f)
    BY <1>7 DEF DeleteRows
  <2>6. UNCHANGED <<tables, issued, denied, session, acts, faults>>
    BY <1>7 DEF DeleteRows
  <2>7. CASE Live(call[c].user)
    BY <1>0, <2>1, <2>3, <2>4, <2>5, <2>6, <2>7, CallStep DEF TypeOK, tables, session
  <2>8. CASE ~ Live(call[c].user)
    BY <1>0, <2>1, <2>3, <2>5, <2>6, <2>8, CallStep DEF TypeOK, tables, session
  <2> QED
    BY <2>7, <2>8
<1>8. CASE Deny(c)
  <2>1. denied' \subseteq Jti /\ faults' \in 0..MaxFault
    BY <1>0, <1>8 DEF Deny, TypeOK, Calls
  <2>2. Set(c, Cleared) \/ Set(c, Idle)
    BY <1>8 DEF Deny
  <2> QED
    BY <1>0, <1>8, <2>1, <2>2, IdleTyped, ClearedTyped, CallStep DEF Deny, TypeOK, tables, session
<1> QED
  BY <1>1, <1>2, <1>3, <1>4, <1>5, <1>6, <1>7, <1>8

LEMMA DeleteCommitStep ==
    ASSUME Inv, NEW c \in Call, DeleteCommit(c)
    PROVE  Inv'
<1>0. TypeOK /\ call[c] \in Calls /\ Staged(call[c])
  BY CallTyped DEF Inv, Stages
<1> DEFINE u == call[c].user
           r == [call[c] EXCEPT !.at = "deny", !.user = NoUser, !.rows = {}]
<1>1. u \in User /\ account[u].state # "none" /\ ~ call[c].new /\ Set(c, r)
  BY <1>0 DEF DeleteCommit, At, Staged, StagedIn
<1>2. /\ account' = [account EXCEPT ![u] = [state |-> "deleted", email |-> NoEmail]]
      /\ link' = [i \in Identity |-> IF link[i] = u THEN NoUser ELSE link[i]]
      /\ saved' = saved \ call[c].rows
      /\ UNCHANGED <<issued, denied, disk, mem, acts, faults>>
  BY DEF DeleteCommit, session
<1>3. r \in Calls /\ StagedIn(r, account', Jti) /\ ~ Inserting(r) /\ Jti' = Jti /\ Calls' = Calls
  <2>1. Jti' = Jti /\ Calls' = Calls
    BY <1>2 DEF Calls, Jti
  <2>2. r \in Calls /\ r.at = "deny" /\ ~ r.new
    BY <1>0, <1>1 DEF Calls
  <2> HIDE DEF r
  <2>3. StagedIn(r, account', Jti) /\ ~ Inserting(r)
    BY <2>2 DEF StagedIn, Inserting
  <2> QED
    BY <2>1, <2>2, <2>3
<1>4. \A o \in Call : call'[o] = IF o = c THEN r ELSE call[o]
  BY <1>0, <1>1 DEF TypeOK, Set
<1>5. \A v \in User : account'[v] = IF v = u THEN [state |-> "deleted", email |-> NoEmail]
                                    ELSE account[v]
  BY <1>0, <1>2 DEF TypeOK
<1>6. TypeOK'
  <2>1. account' \in [User -> [state : {"none", "live", "deleted"}, email : Email]]
    BY <1>0, <1>2 DEF TypeOK, Email
  <2>2. link' \in [Identity -> User \cup {NoUser}]
    BY <1>0, <1>2 DEF TypeOK
  <2>3. call' \in [Call -> Calls]
    BY <1>0, <1>1, <1>3 DEF TypeOK, Set
  <2> QED
    BY <1>0, <1>2, <1>3, <2>1, <2>2, <2>3 DEF TypeOK, Access, Jti
<1>7. Stages'
  <2> SUFFICES ASSUME NEW o \in Call PROVE StagedIn(call'[o], account', Jti')
    BY DEF Stages, Staged
  <2>1. o # c => call'[o] = call[o] /\ StagedIn(call[o], account, Jti)
    BY <1>4 DEF Inv, Stages, Staged
  <2>2. CASE o = c
    BY <1>3, <1>4, <2>2
  <2>3. CASE o # c
    <3>1. call[o].at = "erase" => call[o].user \in User
      BY <2>1, <2>3 DEF StagedIn
    <3> QED
      BY <1>3, <1>5, <2>1, <2>3, <3>1 DEF StagedIn
  <2> QED
    BY <2>2, <2>3
<1>8. Reserved'
  <2>1. \A o \in Call : Inserting(call'[o]) =>
            /\ o # c /\ call'[o] = call[o] /\ Inserting(call[o])
            /\ call[o].user \in User /\ call[o].who \in Identity
    BY <1>3, <1>4 DEF Inv, Stages, Staged, StagedIn, Inserting
  <2>2. \A o \in Call : Inserting(call'[o]) =>
            /\ account'[call'[o].user].state = "none"
            /\ link'[call'[o].who] = NoUser
    BY <1>1, <1>2, <1>5, <2>1 DEF Inv, Reserved
  <2>3. \A o \in Call : Inserting(call'[o]) =>
            ~ \E v \in User : /\ account'[v].state = "live"
                              /\ account'[v].email = call'[o].email
                              /\ call'[o].email # NoEmail
    BY <1>5, <2>1 DEF Inv, Reserved, EmailTaken, Live
  <2> QED
    BY <2>1, <2>2, <2>3 DEF Inv, Reserved, Inserting, EmailTaken, Live
<1>9. Tables'
  <2>1. EveryAccountIsReachable'
    BY <1>1, <1>2, <1>5, UserRange DEF Inv, Tables, EveryAccountIsReachable, Live
  <2>2. OneIdentityPerAccount'
    BY <1>1, <1>2, UserRange DEF Inv, Tables, OneIdentityPerAccount
  <2>3. EmailsAreDistinct'
    BY <1>5 DEF Inv, Tables, EmailsAreDistinct, Live
  <2> QED
    BY <2>1, <2>2, <2>3 DEF Tables
<1> QED
  BY <1>6, <1>7, <1>8, <1>9 DEF Inv

\* Steps of a device that belong to no call.
LEMMA DeviceStep ==
    ASSUME Inv, NEW d \in Device, Expire(d) \/ Reopen(d)
    PROVE  Inv'
<1>1. UNCHANGED <<tables, issued, denied, call, disk, acts, faults>>
  BY DEF Expire, Reopen
<1>2. mem' \in [Device -> Access \cup {NoToken}]
  <2>1. mem[d] # NoToken => mem[d] \in Access /\ [mem[d] EXCEPT !.old = TRUE] \in Access
    BY DEF Inv, TypeOK, Access
  <2> QED
    BY <2>1 DEF Inv, TypeOK, Expire, Reopen
<1>3. TypeOK'
  BY <1>1, <1>2 DEF Inv, TypeOK, Calls, Access, Jti, tables
<1>4. Stages' /\ Reserved' /\ Tables'
  BY <1>1 DEF Inv, Stages, Staged, StagedIn, Reserved, Inserting, EmailTaken, Tables, tables,
     EveryAccountIsReachable, OneIdentityPerAccount, EmailsAreDistinct, Live, Jti
<1> QED
  BY <1>3, <1>4 DEF Inv

LEMMA NextInv == Inv /\ [Next]_vars => Inv'
<1> SUFFICES ASSUME Inv, [Next]_vars PROVE Inv'
  OBVIOUS
<1>1. CASE UNCHANGED vars
  BY <1>1 DEF Inv, vars, tables, TypeOK, Calls, Access, Jti, Stages, Staged, StagedIn, Reserved,
     Inserting, EmailTaken, Tables, EveryAccountIsReachable, OneIdentityPerAccount,
     EmailsAreDistinct, Live
<1>2. ASSUME NEW c \in Call, Progress(c) PROVE Inv'
  BY <1>2, LoginStep, InsertStep, LoginCommitStep, SessionStep, CallsStep, DeleteCommitStep
  DEF Progress
<1>3. CASE Next
  BY <1>2, <1>3, LoginStep, SessionStep, CallsStep, DeviceStep DEF Next
<1> QED
  BY <1>1, <1>3

---------------------------------------------------------------------------
\* The theorems.

LEMMA AccountsInv == UsersSpec => []Inv
<1>1. UsersInit => Inv
  BY InitInv DEF UsersInit
<1>2. [UsersNext]_usersVars => [Next]_vars
  BY DEF UsersNext, AccountsStep, KeysStep, SavedStep, usersVars
<1> QED
  BY <1>1, <1>2, NextInv, PTL DEF UsersSpec

(***************************************************************************)
(* Every token that a device or the denylist holds was issued, and every   *)
(* stage of a call has the fields its handler reads.                       *)
(***************************************************************************)
THEOREM AccountsTyped == UsersSpec => []TypeOK
<1>1. Inv => TypeOK
  BY DEF Inv
<1> QED
  BY <1>1, AccountsInv, PTL

(***************************************************************************)
(* For any number of devices, identities and overlapping calls, and every  *)
(* assignment of email claims: the live accounts are exactly those some    *)
(* identity leads to, no two identities share one, and no two of them have *)
(* the same email, also when the check before the insert was overtaken.    *)
(***************************************************************************)
THEOREM AccountsStayApart == UsersSpec => []AccountsAreApart
<1>1. Inv => EveryAccountIsReachable
  BY DEF Inv, Tables
<1>2. Inv => OneIdentityPerAccount
  BY DEF Inv, Tables
<1>3. Inv => EmailsAreDistinct
  BY DEF Inv, Tables
<1>4. Inv => AccountsAreApart
  BY <1>1, <1>2, <1>3 DEF AccountsAreApart
<1> QED
  BY <1>4, AccountsInv, PTL

(***************************************************************************)
(* For every number of logins and keys, every order of their fetches and   *)
(* failures, and all lifetimes: no login is accepted by a key withdrawn,   *)
(* nor a good one refused for a key published, longer ago than the fresh   *)
(* lifetime, or than the stale one and a fetch when fetches fail.          *)
(***************************************************************************)
THEOREM KeysStayCurrent == UsersSpec => []KeysFollow
<1>1. UsersInit => KeysInv
  BY KeysInitially DEF UsersInit
<1>2. [UsersNext]_usersVars => [KeysNext]_keyVars
  BY DEF UsersNext, AccountsStep, KeysStep, SavedStep, usersVars
<1>3. KeysInv => KeysFollow
  BY DEF KeysInv
<1> QED
  BY <1>1, <1>2, <1>3, KeysStepInv, PTL DEF UsersSpec
==============================================================================
