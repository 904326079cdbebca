----------------------------- MODULE ProviderKeys -----------------------------
(***************************************************************************)
(* The verification of a provider's id_token (users/kakao_oidc.py and      *)
(* users/oidc.py) and the key set (JWKS) a process keeps of the provider.  *)
(* The time is read before the fetch and used after it, several logins     *)
(* fetch at once, and the provider changes its keys.  Times are ages, in   *)
(* ticks, so that the clock needs no bound.                                *)
(***************************************************************************)
EXTENDS Naturals, FiniteSets

CONSTANTS
    SignIn,      \* logins a process handles at the same time
    NumKeys,     \* bound: keys the provider ever has, used in this order
    FreshFor,    \* KAKAO_JWKS_CACHE_TTL_SECONDS
    StaleFor,    \* KAKAO_JWKS_STALE_ON_ERROR_TTL_SECONDS
    FetchTime,   \* two attempts under _JWKS_TIMEOUT
    NoKeys

ASSUME KeysAssumption ==
    /\ {NumKeys, FreshFor, StaleFor, FetchTime} \subseteq Nat \ {0}
    /\ FetchTime <= FreshFor /\ FreshFor <= StaleFor

VARIABLES
    provider,    \* the provider this process is looked at for
    configured,  \* its client ids are in the settings
    published,   \* the keys it publishes
    since,       \* how long ago a key was last published or withdrawn
    jwks,        \* the kept key set and its age, or NoKeys
    verifying,   \* the logins
    verdict,     \* what the last step answered a good token, or NoKeys
    fetchFailed  \* a fetch has failed

keyVars == <<provider, configured, published, since, jwks, verifying, verdict, fetchFailed>>

\* A token by the key its header names, 0 when it names none, and whether its
\* signature, audience, issuer, dates or nonce are wrong.
Token == [kid : 0..NumKeys, flawed : BOOLEAN]

NoSignIn == [at |-> "idle", token |-> NoKeys, elapsed |-> 0, tries |-> 0, read |-> {}]

\* Ages beyond which nothing changes any more.
AgeCap == StaleFor + FetchTime
Older(age) == IF age < AgeCap THEN age + 1 ELSE age

KeysInit ==
    /\ provider \in {"kakao", "apple"} /\ configured \in BOOLEAN
    /\ published = {1}
    /\ since = [k \in 1..NumKeys |-> AgeCap]
    /\ jwks = NoKeys
    /\ verifying = [c \in SignIn |-> NoSignIn]
    /\ verdict = NoKeys
    /\ fetchFailed = FALSE

\* verify_id_token once the keys are there: the client ids are looked at last.
KakaoVerdict(token, keys) ==
    IF token.kid \notin keys THEN "invalid"
    ELSE IF ~configured THEN "unavailable" ELSE IF token.flawed THEN "invalid" ELSE "accepted"

\* _verify_generic once the keys are there.
GenericVerdict(token, keys) ==
    IF token.kid \in keys /\ ~token.flawed THEN "accepted" ELSE "invalid"

Verdict(token, keys) ==
    IF provider = "kakao" THEN KakaoVerdict(token, keys) ELSE GenericVerdict(token, keys)

Tell(token, outcome) ==
    verdict' = IF token.flawed THEN NoKeys ELSE [kid |-> token.kid, outcome |-> outcome]

\* What is refused before the keys are asked for.
Outright(token) ==
    IF provider = "apple" /\ ~configured THEN "unavailable" ELSE "invalid"

RefuseOutright(c, token) ==
    /\ verifying[c].at = "idle"
    /\ token.kid = 0 \/ (provider = "apple" /\ ~configured)
    /\ Tell(token, Outright(token))
    /\ UNCHANGED <<provider, configured, published, since, jwks, verifying, fetchFailed>>

\* now < fresh_until.
FreshKeys(cache) == cache # NoKeys /\ cache.age < FreshFor

\* The cache is fresh: nothing is awaited.
VerifyFresh(c, token) ==
    /\ verifying[c].at = "idle" /\ token.kid # 0 /\ (provider = "apple" => configured)
    /\ FreshKeys(jwks)
    /\ Tell(token, Verdict(token, jwks.keys))
    /\ UNCHANGED <<provider, configured, published, since, jwks, verifying, fetchFailed>>

StartFetch(c, token) ==
    /\ verifying[c].at = "idle" /\ token.kid # 0 /\ (provider = "apple" => configured)
    /\ ~FreshKeys(jwks)
    /\ verifying' = [verifying EXCEPT ![c] =
                     [at |-> "fetch", token |-> token, elapsed |-> 0, tries |-> 0, read |-> {}]]
    /\ verdict' = NoKeys
    /\ UNCHANGED <<provider, configured, published, since, jwks, fetchFailed>>

\* The provider answers with the keys of this moment, which arrive later.
ProviderAnswers(c) ==
    /\ verifying[c].at = "fetch"
    /\ verifying' = [verifying EXCEPT ![c].at = "read", ![c].read = published]
    /\ verdict' = NoKeys
    /\ UNCHANGED <<provider, configured, published, since, jwks, fetchFailed>>

\* The lifetimes count from before the fetch.
FetchStored(c) ==
    /\ verifying[c].at = "read"
    /\ jwks' = [keys |-> verifying[c].read, age |-> verifying[c].elapsed]
    /\ Tell(verifying[c].token, Verdict(verifying[c].token, verifying[c].read))
    /\ verifying' = [verifying EXCEPT ![c] = NoSignIn]
    /\ UNCHANGED <<provider, configured, published, since, fetchFailed>>

\* Slip: the kept keys serve as long as the provider does not answer.
UsableAlways(elapsed) == jwks # NoKeys

\* now < stale_until, with the time from before the fetch.
Usable(elapsed) == jwks # NoKeys /\ jwks.age < StaleFor + elapsed

\* One attempt fails, by its timeout at the latest; after the second the kept keys
\* serve once more, or none.
FetchFails(c) ==
    LET me == verifying[c]
    IN  /\ me.at = "fetch"
        /\ fetchFailed' = TRUE
        /\ IF me.tries = 0
             THEN verifying' = [verifying EXCEPT ![c].tries = 1] /\ verdict' = NoKeys
             ELSE /\ verifying' = [verifying EXCEPT ![c] = NoSignIn]
                  /\ Tell(me.token, IF Usable(me.elapsed) THEN Verdict(me.token, jwks.keys)
                                    ELSE "unavailable")
        /\ UNCHANGED <<provider, configured, published, since, jwks>>

KeyTick ==
    /\ \A c \in SignIn : verifying[c].elapsed < FetchTime
    /\ jwks' = IF jwks = NoKeys THEN jwks ELSE [jwks EXCEPT !.age = Older(@)]
    /\ since' = [k \in 1..NumKeys |-> Older(since[k])]
    /\ verifying' = [c \in SignIn |-> IF verifying[c].at = "idle" THEN verifying[c]
                                      ELSE [verifying[c] EXCEPT !.elapsed = @ + 1]]
    /\ verdict' = NoKeys
    /\ UNCHANGED <<provider, configured, published, fetchFailed>>

\* The provider publishes its next key, and withdraws the one before it.
PublishNext ==
    /\ \E k \in 2..NumKeys :
           /\ published = {k - 1}
           /\ published' = {k - 1, k} /\ since' = [since EXCEPT ![k] = 0]
    /\ verdict' = NoKeys
    /\ UNCHANGED <<provider, configured, jwks, verifying, fetchFailed>>

Withdraw ==
    /\ \E k \in 2..NumKeys :
           /\ published = {k - 1, k}
           /\ published' = {k} /\ since' = [since EXCEPT ![k - 1] = 0]
    /\ verdict' = NoKeys
    /\ UNCHANGED <<provider, configured, jwks, verifying, fetchFailed>>

FetchStep(c) == ProviderAnswers(c) \/ FetchStored(c) \/ FetchFails(c)

KeysNext ==
    \/ \E c \in SignIn, token \in Token :
           RefuseOutright(c, token) \/ VerifyFresh(c, token) \/ StartFetch(c, token)
    \/ \E c \in SignIn : FetchStep(c)
    \/ KeyTick \/ PublishNext \/ Withdraw

KeysSpec == KeysInit /\ [][KeysNext]_keyVars

---------------------------------------------------------------------------
\* Properties.

\* How long a key set may be behind: FreshFor, or StaleFor and a fetch when the
\* provider fails to answer.
Behind(age) == IF fetchFailed THEN age < AgeCap ELSE age <= FreshFor

\* A withdrawn key stops opening accounts, and a new one opens them, in bounded
\* time: no token is accepted by the one, nor a good one refused for the other,
\* for longer than a kept key set may be behind, although a slow fetch may put an
\* older key set over a newer one and an unknown key leads to no new fetch.
KeysFollow ==
    verdict # NoKeys =>
        LET kid == verdict.kid
        IN  /\ verdict.outcome = "accepted" /\ kid \notin published => Behind(since[kid])
            /\ verdict.outcome = "invalid" /\ kid \in published => Behind(since[kid])
=============================================================================
