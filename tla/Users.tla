--------------------------------- MODULE Users ---------------------------------
(***************************************************************************)
(* The users module: accounts and their sessions, the keys its logins are  *)
(* verified with, and the spots a user saves.  The three share no state    *)
(* but the account itself (a login that reaches Accounts has a verified    *)
(* token; Accounts has the saved rows a deletion meets), so a behaviour is *)
(* about one of them and TLC does not interleave what cannot interact.     *)
(***************************************************************************)
EXTENDS Accounts, ProviderKeys, SavedSpots

VARIABLE part   \* what this behaviour is about

usersVars == <<vars, keyVars, savedVars, part>>

UsersInit ==
    /\ part \in {"accounts", "keys", "saved"}
    /\ Init
    /\ KeysInit /\ (part # "keys" => provider = "kakao" /\ configured)
    /\ SavedInit

AccountsStep == part = "accounts" /\ Next /\ UNCHANGED <<keyVars, savedVars, part>>
KeysStep     == part = "keys" /\ KeysNext /\ UNCHANGED <<vars, savedVars, part>>
SavedStep    == part = "saved" /\ SavedNext /\ UNCHANGED <<vars, keyVars, part>>

UsersNext == AccountsStep \/ KeysStep \/ SavedStep

UsersSpec == UsersInit /\ [][UsersNext]_usersVars /\ (part = "saved" => SavedFairness)

\* Sessions alone, with the fairness of their devices.
SessionsInit == UsersInit /\ part = "accounts"
SessionsSpec == SessionsInit /\ [][AccountsStep]_usersVars /\ AccountsFairness

---------------------------------------------------------------------------
\* Properties: those of Accounts and ProviderKeys, and this one.

\* The list and the bookmarks of the app end up with what the server has saved
\* (queries.ts, use-save-optimistic.ts), whatever requests were lost or reordered.
SavedSettles == part = "saved" => SavedAgrees
=============================================================================
