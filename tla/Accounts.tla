------------------------------ MODULE Accounts ------------------------------
(***************************************************************************)
(* Accounts and sessions: the handlers of app/modules/users and            *)
(* app/security/jwt over the tables users, user_auth_providers and         *)
(* user_saved_spots and the redis denylist, and the devices that call them *)
(* with the session of auth-store.ts and api-client.ts.                    *)
(*                                                                         *)
(* A device runs several calls at once.  A call is one record that walks   *)
(* through the statements of its handler, one statement per action where   *)
(* another call can come between, and then through what the device does    *)
(* with the answer.  A refresh token is its jti, which renewal keeps; an   *)
(* access token is the user and the jti it was minted with, and whether it *)
(* has expired.                                                            *)
(***************************************************************************)
EXTENDS Naturals, Sequences, FiniteSets

CONSTANTS
    Device,      \* installed apps
    Call,        \* <<device, n>>: what a device does at the same time
    Identity,    \* (provider, provider_user_id) pairs
    Spot,
    EmailOf,     \* the email claim of an identity, or NoEmail
    NoEmail, NoUser, NoToken,
    MaxLogin,    \* bound: logins that reach the server
    MaxAct,      \* bound: saves, deletions and logouts started
    MaxFault     \* bound: lost requests and redis errors

ASSUME AccountsAssumption ==
    /\ MaxLogin \in Nat /\ MaxAct \in Nat /\ MaxFault \in Nat
    /\ Call \subseteq Device \X Nat
    /\ NoUser \notin 1..MaxLogin
    /\ NoToken \notin Nat

User  == 1..MaxLogin
Email == {EmailOf[i] : i \in Identity} \cup {NoEmail}

VARIABLES
    account,   \* users: state and email
    link,      \* user_auth_providers: the user an identity belongs to
    saved,     \* user_saved_spots
    issued,    \* the user of every jti minted so far
    denied,    \* denyjti keys in redis
    call,      \* the calls of every device
    disk,      \* the stored refresh token of a device
    mem,       \* the access token of its auth store
    acts, faults

tables  == <<account, link, saved>>
session == <<disk, mem>>
vars    == <<account, link, saved, issued, denied, call, disk, mem, acts, faults>>

Idle == [op |-> "none", at |-> "idle", user |-> NoUser, jti |-> NoToken, who |-> NoUser,
         email |-> NoEmail, new |-> FALSE, old |-> FALSE, retried |-> FALSE, rows |-> {}]

Jti == DOMAIN issued

Access == [user : User, jti : Jti, old : BOOLEAN]

Calls ==
    [op : {"none", "login", "hydrate", "me", "save", "delete", "logout", "clear"},
     at : {"idle", "find", "email", "insert", "plain", "commit", "disk", "mem", "wipe", "forget",
           "denylist", "account", "serve", "erase", "deny"},
     user : User \cup {NoUser}, jti : Jti \cup {NoToken},
     who : Identity \cup {NoUser}, email : Email,
     new : BOOLEAN, old : BOOLEAN, retried : BOOLEAN, rows : SUBSET (User \X Spot)]

Init ==
    /\ account = [u \in User |-> [state |-> "none", email |-> NoEmail]]
    /\ link = [i \in Identity |-> NoUser]
    /\ saved = {}
    /\ issued = <<>>
    /\ denied = {}
    /\ call = [c \in Call |-> Idle]
    /\ disk = [d \in Device |-> NoToken]
    /\ mem = [d \in Device |-> NoToken]
    /\ acts = 0
    /\ faults = 0

\* A new call takes the first free number of its device.
Free(c) == call[c] = Idle /\ \A o \in Call : o[1] = c[1] /\ o[2] < c[2] => call[o] # Idle

Live(u) == account[u].state = "live"
At(c, op, at) == call[c].op = op /\ call[c].at = at
Set(c, r) == call' = [call EXCEPT ![c] = r]
Go(c, at) == call' = [call EXCEPT ![c].at = at]
Cleared == [Idle EXCEPT !.op = "clear", !.at = "wipe"]

(***************************************************************************)
(* authenticate_with_oauth.  A row inserted in its transaction is seen by  *)
(* nobody before the commit; an insert that meets an uncommitted row of    *)
(* the same key waits for that transaction.                                *)
(***************************************************************************)
Logins == Len(issued) + Cardinality({c \in Call : call[c].op = "login" /\ call[c].at \in
                                       {"find", "email", "insert", "plain", "commit"}})

Login(c) ==
    /\ Free(c) /\ mem[c[1]] = NoToken
    /\ Logins < MaxLogin
    /\ \E i \in Identity :
           Set(c, [Idle EXCEPT !.op = "login", !.at = "find", !.who = i])
    /\ UNCHANGED <<tables, issued, denied, session, acts, faults>>

LoginFind(c) ==
    /\ At(c, "login", "find")
    /\ Set(c, IF link[call[c].who] # NoUser
              THEN [call[c] EXCEPT !.user = link[call[c].who], !.at = "commit"]
              ELSE [call[c] EXCEPT !.email = EmailOf[call[c].who], !.at = "email"])
    /\ UNCHANGED <<tables, issued, denied, session, acts, faults>>

EmailTaken(e) == e # NoEmail /\ \E u \in User : Live(u) /\ account[u].email = e

LoginEmail(c) ==
    /\ At(c, "login", "email")
    /\ Set(c, [call[c] EXCEPT !.at = "insert",
                   !.email = IF EmailTaken(@) THEN NoEmail ELSE @])
    /\ UNCHANGED <<tables, issued, denied, session, acts, faults>>

Pending == {c \in Call : At(c, "login", "commit") /\ call[c].new}

Fresh(u) == ~ \E c \in Pending : call[c].user = u

\* The row locks an insert of call c would wait for.
Waits(c) ==
    \/ \E o \in Pending \ {c} :
           \/ call[o].who = call[c].who
           \/ call[o].email = call[c].email /\ call[c].email # NoEmail
    \/ \E o \in Call : At(o, "delete", "erase") /\ link[call[c].who] = call[o].user

\* Slip: no unique index on the email of live accounts.
CollidesOnIdentity(c) == link[call[c].who] # NoUser

Collides(c) == link[call[c].who] # NoUser \/ EmailTaken(call[c].email)

\* The savepoint holds both rows or neither.
Inserted(c) ==
    \E u \in User :
        /\ account[u].state = "none" /\ Fresh(u)
        /\ \A v \in User : account[v].state = "none" /\ Fresh(v) => u <= v
        /\ Set(c, [call[c] EXCEPT !.user = u, !.new = TRUE, !.at = "commit"])

LoginInsert(c) ==
    /\ At(c, "login", "insert")
    /\ ~ Waits(c)
    /\ \/ ~ Collides(c) /\ Inserted(c)
       \/ /\ Collides(c)
          /\ Set(c, IF link[call[c].who] # NoUser
                    THEN [call[c] EXCEPT !.user = link[call[c].who], !.at = "commit"]
                    ELSE [call[c] EXCEPT !.email = NoEmail, !.at = "plain"])
    /\ UNCHANGED <<tables, issued, denied, session, acts, faults>>

\* The second insert carries no email; a collision here fails the request.
LoginPlain(c) ==
    /\ At(c, "login", "plain")
    /\ ~ Waits(c)
    /\ IF Collides(c) THEN Set(c, Idle) ELSE Inserted(c)
    /\ UNCHANGED <<tables, issued, denied, session, acts, faults>>

LoginCommit(c) ==
    /\ At(c, "login", "commit")
    /\ LET k == call[c] IN
       /\ IF k.new
          THEN /\ account' = [account EXCEPT ![k.user] = [state |-> "live", email |-> k.email]]
               /\ link' = [link EXCEPT ![k.who] = k.user]
          ELSE UNCHANGED <<account, link>>
       /\ issued' = Append(issued, k.user)
       /\ Set(c, [Idle EXCEPT !.op = "login", !.at = "disk", !.user = k.user,
                           !.jti = Len(issued) + 1])
    /\ UNCHANGED <<saved, denied, session, acts, faults>>

(***************************************************************************)
(* auth-store.ts: setSession and clear, each two steps around an await.    *)
(***************************************************************************)
Resumes(k) == k.op \in {"me", "save", "delete"}

StoreDisk(c) ==
    /\ call[c].at = "disk"
    /\ disk' = [disk EXCEPT ![c[1]] = call[c].jti]
    /\ Go(c, "mem")
    /\ UNCHANGED <<tables, issued, denied, mem, acts, faults>>

StoreMem(c) ==
    /\ call[c].at = "mem"
    /\ mem' = [mem EXCEPT ![c[1]] = [user |-> call[c].user, jti |-> call[c].jti, old |-> FALSE]]
    /\ Set(c, IF Resumes(call[c]) THEN [call[c] EXCEPT !.at = "serve", !.old = FALSE] ELSE Idle)
    /\ UNCHANGED <<tables, issued, denied, disk, acts, faults>>

ClearDisk(c) ==
    /\ call[c].at = "wipe"
    /\ disk' = [disk EXCEPT ![c[1]] = NoToken]
    /\ Go(c, "forget")
    /\ UNCHANGED <<tables, issued, denied, mem, acts, faults>>

ClearMem(c) ==
    /\ call[c].at = "forget"
    /\ mem' = [mem EXCEPT ![c[1]] = NoToken]
    /\ Set(c, Idle)
    /\ UNCHANGED <<tables, issued, denied, disk, acts, faults>>

(***************************************************************************)
(* refresh: the stored token is read, the denylist is asked, then the      *)
(* account.  Any failure clears the session.                               *)
(***************************************************************************)
Refreshing(c, k) ==
    IF disk[c[1]] = NoToken
    THEN Cleared
    ELSE [k EXCEPT !.at = "denylist", !.jti = disk[c[1]]]

Hydrate(c) ==
    /\ Free(c) /\ disk[c[1]] # NoToken /\ mem[c[1]] = NoToken
    /\ Set(c, Refreshing(c, [Idle EXCEPT !.op = "hydrate"]))
    /\ UNCHANGED <<tables, issued, denied, session, acts, faults>>

RefreshDenylist(c) ==
    /\ call[c].at = "denylist"
    /\ \/ /\ Set(c, IF call[c].jti \in denied THEN Cleared ELSE [call[c] EXCEPT !.at = "account"])
          /\ UNCHANGED faults
       \/ /\ faults < MaxFault /\ faults' = faults + 1
          /\ Go(c, "account")
    /\ UNCHANGED <<tables, issued, denied, session, acts>>

\* Slip: the account is not looked up after the token.
RefreshAccountSkipped(c) ==
    /\ call[c].at = "account"
    /\ Set(c, [call[c] EXCEPT !.user = issued[call[c].jti], !.at = "disk"])
    /\ UNCHANGED <<tables, issued, denied, session, acts, faults>>

RefreshAccount(c) ==
    /\ call[c].at = "account"
    /\ LET u == issued[call[c].jti] IN
       Set(c, IF Live(u) THEN [call[c] EXCEPT !.user = u, !.at = "disk"] ELSE Cleared)
    /\ UNCHANGED <<tables, issued, denied, session, acts, faults>>

\* A refresh whose answer does not arrive clears the session as well.
LoseRefresh(c) ==
    /\ call[c].at \in {"denylist", "account"}
    /\ faults < MaxFault /\ faults' = faults + 1
    /\ Set(c, Cleared)
    /\ UNCHANGED <<tables, issued, denied, session, acts>>

(***************************************************************************)
(* Requests with an access token, served by get_current_user_id and then   *)
(* by the handler.  An expired one is refreshed and sent once more.        *)
(***************************************************************************)
Send(c, op) ==
    /\ Free(c) /\ mem[c[1]] # NoToken
    /\ op = "me" \/ acts < MaxAct
    /\ acts' = IF op = "me" THEN acts ELSE acts + 1
    /\ LET t == mem[c[1]] IN
       Set(c, [Idle EXCEPT !.op = op, !.at = "serve", !.user = t.user, !.old = t.old,
                           !.jti = IF op = "delete" THEN disk[c[1]] ELSE NoToken])
    /\ UNCHANGED <<tables, issued, denied, session, faults>>

ServeExpired(c) ==
    /\ call[c].at = "serve" /\ call[c].old
    /\ Set(c, IF call[c].retried THEN Idle
              ELSE Refreshing(c, [call[c] EXCEPT !.retried = TRUE]))
    /\ UNCHANGED <<tables, issued, denied, session, acts, faults>>

\* get_user_public: a deleted account is an invalid token, which the app answers by clear.
ServeMe(c) ==
    /\ At(c, "me", "serve") /\ ~ call[c].old
    /\ Set(c, IF Live(call[c].user) THEN Idle ELSE Cleared)
    /\ UNCHANGED <<tables, issued, denied, session, acts, faults>>

ServeSave(c) ==
    /\ At(c, "save", "serve") /\ ~ call[c].old
    /\ \E s \in Spot :
           \/ saved' = saved \cup {<<call[c].user, s>>}
           \/ saved' = saved \ {<<call[c].user, s>>}
    /\ Set(c, Idle)
    /\ UNCHANGED <<account, link, issued, denied, session, acts, faults>>

LoseRequest(c) ==
    /\ call[c].at = "serve"
    /\ faults < MaxFault /\ faults' = faults + 1
    /\ Set(c, Idle)
    /\ UNCHANGED <<tables, issued, denied, session, acts>>

(***************************************************************************)
(* delete_user_account: the rows are deleted by statements that see what   *)
(* was committed before them; the account is overwritten at the commit.    *)
(***************************************************************************)
DeleteRows(c) ==
    /\ At(c, "delete", "serve") /\ ~ call[c].old
    /\ Set(c, IF Live(call[c].user)
              THEN [call[c] EXCEPT !.at = "erase",
                        !.rows = {r \in saved : r[1] = call[c].user}]
              ELSE [call[c] EXCEPT !.at = "deny", !.user = NoUser])
    /\ UNCHANGED <<tables, issued, denied, session, acts, faults>>

DeleteCommit(c) ==
    /\ At(c, "delete", "erase")
    /\ LET u == call[c].user IN
       /\ account' = [account EXCEPT ![u] = [state |-> "deleted", email |-> NoEmail]]
       /\ link' = [i \in Identity |-> IF link[i] = u THEN NoUser ELSE link[i]]
       /\ saved' = saved \ call[c].rows
    /\ Set(c, [call[c] EXCEPT !.at = "deny", !.user = NoUser, !.rows = {}])
    /\ UNCHANGED <<issued, denied, session, acts, faults>>

(***************************************************************************)
(* deny_refresh: the last step of a deletion and all of a logout; a redis  *)
(* error is swallowed.  The answer of a deletion may be lost, which keeps  *)
(* the session; a logout clears it whatever the answer.                    *)
(***************************************************************************)
Logout(c) ==
    /\ Free(c) /\ mem[c[1]] # NoToken
    /\ acts < MaxAct /\ acts' = acts + 1
    /\ Set(c, [Idle EXCEPT !.op = "logout", !.at = "deny", !.jti = disk[c[1]]])
    /\ UNCHANGED <<tables, issued, denied, session, faults>>

Deny(c) ==
    /\ call[c].at = "deny"
    /\ \/ /\ denied' = denied \cup ({call[c].jti} \ {NoToken})
          /\ Set(c, Cleared)
          /\ UNCHANGED faults
       \/ /\ faults < MaxFault /\ faults' = faults + 1
          /\ Set(c, Cleared)
          /\ UNCHANGED denied
       \/ /\ call[c].op = "delete"
          /\ faults < MaxFault /\ faults' = faults + 1
          /\ denied' = denied \cup ({call[c].jti} \ {NoToken})
          /\ Set(c, Idle)
    /\ UNCHANGED <<tables, issued, session, acts>>

\* JWT_ACCESS_TOKEN_TTL_SECONDS pass.
Expire(d) ==
    /\ mem[d] # NoToken /\ ~ mem[d].old
    /\ mem' = [mem EXCEPT ![d].old = TRUE]
    /\ UNCHANGED <<tables, issued, denied, call, disk, acts, faults>>

\* The app is closed with nothing in flight and opened again.
Reopen(d) ==
    /\ mem[d] # NoToken
    /\ \A c \in Call : c[1] = d => call[c] = Idle
    /\ mem' = [mem EXCEPT ![d] = NoToken]
    /\ UNCHANGED <<tables, issued, denied, call, disk, acts, faults>>

Progress(c) ==
    \/ LoginFind(c) \/ LoginEmail(c) \/ LoginInsert(c) \/ LoginPlain(c) \/ LoginCommit(c)
    \/ StoreDisk(c) \/ StoreMem(c) \/ ClearDisk(c) \/ ClearMem(c)
    \/ RefreshDenylist(c) \/ RefreshAccount(c)
    \/ ServeExpired(c) \/ ServeMe(c) \/ ServeSave(c)
    \/ DeleteRows(c) \/ DeleteCommit(c) \/ Deny(c)

Next ==
    \/ \E c \in Call :
           \/ Login(c) \/ Hydrate(c) \/ Logout(c)
           \/ \E op \in {"me", "save", "delete"} : Send(c, op)
           \/ LoseRefresh(c) \/ LoseRequest(c)
           \/ Progress(c)
    \/ \E d \in Device : Expire(d) \/ Reopen(d)

Spec == Init /\ [][Next]_vars

(***************************************************************************)
(* Every request that was sent is carried out, time passes, and a device   *)
(* that is signed in keeps being used and is opened again when closed.     *)
(***************************************************************************)
AccountsFairness ==
    /\ \A c \in Call : WF_vars(Progress(c))
    /\ \A d \in Device :
           /\ WF_vars(Expire(d))
           /\ WF_vars(\E c \in Call : c[1] = d /\ Send(c, "me"))
           /\ WF_vars(\E c \in Call : c[1] = d /\ Hydrate(c))

-----------------------------------------------------------------------------

TypeOK ==
    /\ account \in [User -> [state : {"none", "live", "deleted"}, email : Email]]
    /\ link \in [Identity -> User \cup {NoUser}]
    /\ saved \subseteq User \X Spot
    /\ issued \in Seq(User)
    /\ denied \subseteq Jti
    /\ call \in [Call -> Calls]
    /\ disk \in [Device -> Jti \cup {NoToken}]
    /\ mem \in [Device -> Access \cup {NoToken}]
    /\ acts \in 0..MaxAct
    /\ faults \in 0..MaxFault

EveryAccountIsReachable ==
    \A u \in User : Live(u) <=> \E i \in Identity : link[i] = u

OneIdentityPerAccount ==
    \A i, j \in Identity : link[i] = link[j] /\ link[i] # NoUser => i = j

EmailsAreDistinct ==
    \A u, v \in User :
        Live(u) /\ Live(v) /\ account[u].email = account[v].email /\ account[u].email # NoEmail
            => u = v

(***************************************************************************)
(* However first logins and deletions overlap, every live account can be   *)
(* signed into by exactly one identity, and no identity leads to an        *)
(* account that is gone: get_or_create_user_via_provider writes both rows  *)
(* or neither, delete_user_account removes them together.  And two live    *)
(* accounts never share an email: the check before the insert can be       *)
(* overtaken, and the retry gives the email up.                            *)
(***************************************************************************)
AccountsAreApart == EveryAccountIsReachable /\ OneIdentityPerAccount /\ EmailsAreDistinct

SignedIn(d, u) == mem[d] # NoToken /\ mem[d].user = u

(***************************************************************************)
(* Once an account is deleted, every device signed into it is signed out   *)
(* for good, although only the deleting device's refresh token is denied   *)
(* and access tokens are not looked up; and a session that was logged out  *)
(* of ends on its device for good, also when the answer of a refresh that  *)
(* was on its way stores it again afterwards.                              *)
(***************************************************************************)
SessionsEnd ==
    /\ \A u \in User, d \in Device :
         account[u].state = "deleted" ~> [](~ SignedIn(d, u))
    /\ \A j \in 1..MaxLogin, d \in Device :
         j \in denied ~> [](disk[d] # j /\ (mem[d] # NoToken => mem[d].jti # j))
=============================================================================
