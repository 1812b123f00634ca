------------------------------- MODULE OAuth --------------------------------
(***************************************************************************)
(* The OAuth manager (services/oauth_provider.py) over the store of auth   *)
(* profiles: an authorization is begun, its callback exchanges the code    *)
(* for a token, which becomes a profile with an id of its own; a profile's *)
(* token is refreshed; a profile is revoked.  Exchange and refresh wait    *)
(* for the provider between reading the state and writing the store.       *)
(***************************************************************************)
EXTENDS AuthProfiles

CONSTANTS
    Logins,       \* the state parameters of the authorizations
    Issued,       \* the profile ids _store_token may draw
    Callbacks,    \* the requests to the callback endpoint
    Refreshers,   \* the requests to the refresh endpoint
    NoLogin,
    PendingLife   \* how long an authorization may take

ASSUME LoginsAssumption ==
    NoLogin \notin Logins /\ Issued \subseteq Profiles /\ PendingLife \in Nat

VARIABLES
    opened,      \* created_at of each authorization, 0 if it was not begun
    pending,     \* _pending
    exchanging,  \* the authorization each callback waits for the provider with
    refreshing,  \* the profile each refresh waits for the provider with
    origin       \* the authorization an id was drawn for (a history variable)

oauthVars == <<opened, pending, exchanging, refreshing, origin>>

-----------------------------------------------------------------------------
InitOAuth ==
    /\ opened = [s \in Logins |-> 0]
    /\ pending = {}
    /\ exchanging = [c \in Callbacks |-> NoLogin]
    /\ refreshing = [f \in Refreshers |-> NoProfile]
    /\ origin = [p \in Issued |-> NoLogin]

\* build_authorize_url: a state parameter is random, and never drawn twice.
Authorize(s) ==
    /\ opened[s] = 0
    /\ opened' = [opened EXCEPT ![s] = now]
    /\ pending' = pending \cup {s}
    /\ UNCHANGED <<exchanging, refreshing, origin>> /\ Unsaved

\* Mutant of Callback: the authorization stays pending during the exchange.
CallbackKeeps(c, s) ==
    /\ exchanging[c] = NoLogin /\ s \in pending
    /\ exchanging' = IF now - opened[s] > PendingLife THEN exchanging
                     ELSE [exchanging EXCEPT ![c] = s]
    /\ UNCHANGED <<opened, pending, refreshing, origin>> /\ Unsaved

\* exchange_code up to the request: the authorization is taken out of the pending ones.
Callback(c, s) ==
    /\ exchanging[c] = NoLogin /\ s \in pending
    /\ pending' = pending \ {s}
    /\ exchanging' = IF now - opened[s] > PendingLife THEN exchanging
                     ELSE [exchanging EXCEPT ![c] = s]
    /\ UNCHANGED <<opened, refreshing, origin>> /\ Unsaved

\* The provider grants a token: _store_token under a new id.
Exchanged(c, p) ==
    /\ exchanging[c] # NoLogin
    /\ origin[p] = NoLogin /\ p \notin known
    /\ origin' = [origin EXCEPT ![p] = exchanging[c]]
    /\ exchanging' = [exchanging EXCEPT ![c] = NoLogin]
    /\ Save(known \cup {p}, [stats EXCEPT ![p] = Fresh], lastGood)
    /\ UNCHANGED <<opened, pending, refreshing>>

ExchangeFails(c) ==
    /\ exchanging[c] # NoLogin
    /\ exchanging' = [exchanging EXCEPT ![c] = NoLogin]
    /\ UNCHANGED <<opened, pending, refreshing, origin>> /\ Unsaved

\* refresh_token up to the request.  Only oauth profiles have a refresh token.
Refresh(f, p) ==
    /\ refreshing[f] = NoProfile
    /\ p \in known /\ Priority[p] = 0
    /\ refreshing' = [refreshing EXCEPT ![f] = p]
    /\ UNCHANGED <<opened, pending, exchanging, origin>> /\ Unsaved

\* The new token is stored under the profile's id, with statistics of its own, whether or not
\* the profile is still there.
Refreshed(f) ==
    LET p == refreshing[f]
    IN  /\ p # NoProfile
        /\ refreshing' = [refreshing EXCEPT ![f] = NoProfile]
        /\ Save(known \cup {p}, [stats EXCEPT ![p] = Fresh], lastGood)
        /\ UNCHANGED <<opened, pending, exchanging, origin>>

\* The provider refuses: an authentication failure without a cooldown is recorded.
RefreshRefused(f) ==
    LET p == refreshing[f]
    IN  /\ p # NoProfile
        /\ refreshing' = [refreshing EXCEPT ![f] = NoProfile]
        /\ IF p \in known THEN Save(known, [stats EXCEPT ![p] = Failed(stats[p], "auth", 0)], lastGood)
           ELSE Unsaved
        /\ UNCHANGED <<opened, pending, exchanging, origin>>

\* The request fails, or is answered with an error in its body: nothing is recorded.
RefreshFails(f) ==
    /\ refreshing[f] # NoProfile
    /\ refreshing' = [refreshing EXCEPT ![f] = NoProfile]
    /\ UNCHANGED <<opened, pending, exchanging, origin>> /\ Unsaved

\* revoke, once the provider was told or could not be: remove_profile.
Revoke(p) ==
    /\ p \in known /\ Priority[p] = 0
    /\ Save(known \ {p}, [stats EXCEPT ![p] = Fresh],
            [v \in Providers |-> IF lastGood[v] = p THEN NoProfile ELSE lastGood[v]])
    /\ UNCHANGED oauthVars

NextOAuth ==
    \/ \E s \in Logins : Authorize(s) \/ \E c \in Callbacks : Callback(c, s)
    \/ \E c \in Callbacks : ExchangeFails(c) \/ \E p \in Issued : Exchanged(c, p)
    \/ \E f \in Refreshers : \/ Refreshed(f) \/ RefreshRefused(f) \/ RefreshFails(f)
                             \/ \E p \in Profiles : Refresh(f, p)
    \/ \E p \in Profiles : Revoke(p)

\* The process starts again: whatever was pending is gone.
ForgetOAuth ==
    /\ pending' = {}
    /\ exchanging' = [c \in Callbacks |-> NoLogin]
    /\ refreshing' = [f \in Refreshers |-> NoProfile]
    /\ UNCHANGED <<opened, origin>>
=============================================================================
