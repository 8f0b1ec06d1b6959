---------------------------- MODULE DesktopAuth ----------------------------
(***************************************************************************)
(* Sign-in on the desktop (auth.rs, auth_commands.rs): the tokens in the   *)
(* secure storage, the cached profile, the sign-ins that come back from    *)
(* the browser, sign-out, and the callers that refresh the tokens.  The    *)
(* server gives each refresh token for one use (auth/service.go).          *)
(*                                                                         *)
(* A pair of tokens is identified with its refresh token, and a sign-in    *)
(* with the session that it opens on the server.                           *)
(***************************************************************************)
EXTENDS Naturals

CONSTANTS
    Callers,    \* whoever asks for a valid header, concurrently
    MaxLogins,  \* how many sign-ins are opened
    MaxTokens,  \* how many refresh tokens the server gives out
    AccountOf,  \* the account that each sign-in is for
    None

Logins == 1..MaxLogins
Tokens == 1..MaxTokens

ASSUME AuthAssumption ==
    /\ MaxLogins \in Nat /\ MaxTokens \in Nat
    /\ None \notin Callers \cup Nat

VARIABLES
    store,      \* the refresh token in the secure storage
    profile,    \* the account of the cached profile
    pending,    \* PENDING_AUTH_STATE
    lock,       \* TOKEN_REFRESH_LOCK
    pc, seen, got,    \* the callers: refresh_stored_tokens
    login,      \* the sign-ins: complete_auth_deep_link
    brings,     \* the token that a sign-in was given
    fetch,      \* the sessions whose profile is being fetched
    live,       \* server: the refresh tokens that can be used
    session,    \* server: the sign-in that a token belongs to
    gone,       \* history: tokens of a lost answer or of a revoked session
    latest,     \* history: the last sign-in that was stored and not signed out
    raced,      \* history: the last change of the storage came between a comparison and its write
    outrun      \* history: the profile came, or stayed, across a change of accounts

desktop == <<store, profile, pending, lock, pc, seen, got, login, brings, fetch>>
server == <<live, session>>
vars == <<desktop, server, gone, latest, raced, outrun>>

Init ==
    /\ store = None /\ profile = None /\ pending = None /\ lock = None
    /\ pc = [c \in Callers |-> "idle"]
    /\ seen = [c \in Callers |-> None]
    /\ got = [c \in Callers |-> None]
    /\ login = [l \in Logins |-> "none"]
    /\ brings = [l \in Logins |-> None]
    /\ fetch = {}
    /\ live = {}
    /\ session = [t \in Tokens |-> None]
    /\ gone = {} /\ latest = None /\ raced = FALSE /\ outrun = FALSE

\* Between the comparison and the write of replace_tokens_if_refresh_token_matches
\* or clear_tokens_if_refresh_token_matches.
Comparing == \E c \in Callers : pc[c] \in {"write", "clear"}

Fresh(t) == session[t] = None /\ \A u \in Tokens : u < t => session[u] # None

\* refresh_stored_tokens with the lock.
Calling == {"call", "granted", "refused", "write", "clear"}

\* The caller has its answer.
Returns(c) ==
    /\ pc' = [pc EXCEPT ![c] = "idle"]
    /\ seen' = [seen EXCEPT ![c] = None]
    /\ got' = [got EXCEPT ![c] = None]

----------------------------------------------------------------------------
(* refresh_stored_tokens                                                   *)

\* By RefreshMode::Force, or because the access token expires soon.  Nothing
\* stored, or nothing to refresh, is answered without a change.
RefreshBegins(c) ==
    /\ pc[c] = "idle"
    /\ store # None
    /\ pc' = [pc EXCEPT ![c] = "wait"]
    /\ seen' = [seen EXCEPT ![c] = store]
    /\ UNCHANGED <<store, profile, pending, lock, got, login, brings, fetch>>
    /\ UNCHANGED <<server, gone, latest, raced, outrun>>

\* Whoever waited for another refresh finds its tokens.  The tokens that were
\* observed still expire soon if they did.
StillNeeded(c) == store = seen[c]

RefreshLocks_NoLock(c) ==
    /\ pc[c] = "wait"
    /\ IF StillNeeded(c)
       THEN /\ pc' = [pc EXCEPT ![c] = "call"] /\ lock' = c
            /\ UNCHANGED <<seen, got>>
       ELSE Returns(c) /\ UNCHANGED lock
    /\ UNCHANGED <<store, profile, pending, login, brings, fetch>>
    /\ UNCHANGED <<server, gone, latest, raced, outrun>>

RefreshLocks(c) ==
    /\ pc[c] = "wait"
    /\ lock = None
    /\ IF StillNeeded(c)
       THEN /\ pc' = [pc EXCEPT ![c] = "call"] /\ lock' = c
            /\ UNCHANGED <<seen, got>>
       ELSE Returns(c) /\ UNCHANGED lock
    /\ UNCHANGED <<store, profile, pending, login, brings, fetch>>
    /\ UNCHANGED <<server, gone, latest, raced, outrun>>

\* The server consumes the token and gives out another one of the session.
ServerRefreshes(c) ==
    /\ pc[c] = "call"
    /\ seen[c] \in live
    /\ \E t \in Tokens :
         /\ Fresh(t)
         /\ session' = [session EXCEPT ![t] = session[seen[c]]]
         /\ live' = (live \ {seen[c]}) \cup {t}
         /\ got' = [got EXCEPT ![c] = t]
    /\ pc' = [pc EXCEPT ![c] = "granted"]
    /\ UNCHANGED <<store, profile, pending, lock, seen, login, brings, fetch>>
    /\ UNCHANGED <<gone, latest, raced, outrun>>

ServerRefuses(c) ==
    /\ pc[c] = "call"
    /\ seen[c] \notin live
    /\ pc' = [pc EXCEPT ![c] = "refused"]
    /\ UNCHANGED <<store, profile, pending, lock, seen, got, login, brings, fetch>>
    /\ UNCHANGED <<server, gone, latest, raced, outrun>>

\* The request or its answer gets lost, or the storage fails; that signs no
\* one out.
RefreshFails_KeepLock(c) ==
    /\ pc[c] \in Calling
    /\ Returns(c)
    /\ gone' = IF pc[c] \in {"granted", "write"} THEN gone \cup {seen[c]} ELSE gone
    /\ UNCHANGED <<store, profile, pending, lock, login, brings, fetch>>
    /\ UNCHANGED <<server, latest, raced, outrun>>

RefreshFails(c) ==
    /\ pc[c] \in Calling
    /\ Returns(c)
    /\ lock' = None
    /\ gone' = IF pc[c] \in {"granted", "write"} THEN gone \cup {seen[c]} ELSE gone
    /\ UNCHANGED <<store, profile, pending, login, brings, fetch>>
    /\ UNCHANGED <<server, latest, raced, outrun>>

\* The answer counts only while the storage still holds the token it is for.
ComparesTokens_Never(c) ==
    /\ pc[c] \in {"granted", "refused"}
    /\ pc' = [pc EXCEPT ![c] = IF pc[c] = "granted" THEN "write" ELSE "clear"]
    /\ UNCHANGED <<store, profile, pending, lock, seen, got, login, brings, fetch>>
    /\ UNCHANGED <<server, gone, latest, raced, outrun>>

ComparesTokens(c) ==
    /\ pc[c] \in {"granted", "refused"}
    /\ IF store = seen[c]
       THEN /\ pc' = [pc EXCEPT ![c] = IF pc[c] = "granted" THEN "write" ELSE "clear"]
            /\ UNCHANGED <<lock, seen, got>>
       ELSE /\ Returns(c)
            /\ lock' = None
    /\ UNCHANGED <<store, profile, pending, login, brings, fetch>>
    /\ UNCHANGED <<server, gone, latest, raced, outrun>>

WritesTokens(c) ==
    /\ pc[c] = "write"
    /\ store' = got[c]
    /\ Returns(c)
    /\ lock' = None
    /\ UNCHANGED <<profile, pending, login, brings, fetch>>
    /\ UNCHANGED <<server, gone, latest, raced, outrun>>

\* clear_tokens: with the tokens goes the cached profile.
ClearsTokens(c) ==
    /\ pc[c] = "clear"
    /\ store' = None /\ profile' = None
    /\ latest' = None /\ raced' = FALSE /\ outrun' = FALSE
    /\ Returns(c)
    /\ lock' = None
    /\ UNCHANGED <<pending, login, brings, fetch>>
    /\ UNCHANGED <<server, gone>>

----------------------------------------------------------------------------
(* Sign-in and sign-out                                                    *)

auth_open_login(l) ==
    /\ login[l] = "none" /\ \A k \in Logins : k < l => login[k] # "none"
    /\ login' = [login EXCEPT ![l] = "browser"]
    /\ pending' = l
    /\ UNCHANGED <<store, profile, lock, pc, seen, got, brings, fetch>>
    /\ UNCHANGED <<server, gone, latest, raced, outrun>>

\* validate_auth_state takes the pending state, whatever it compares with.
validate_auth_state(l) ==
    /\ login[l] = "browser"
    /\ pending' = None
    /\ login' = [login EXCEPT ![l] = IF pending = l THEN "exchange" ELSE "done"]
    /\ UNCHANGED <<store, profile, lock, pc, seen, got, brings, fetch>>
    /\ UNCHANGED <<server, gone, latest, raced, outrun>>

exchange_desktop_token(l) ==
    /\ login[l] = "exchange"
    /\ \/ \E t \in Tokens :
            /\ Fresh(t)
            /\ session' = [session EXCEPT ![t] = l]
            /\ live' = live \cup {t}
            /\ brings' = [brings EXCEPT ![l] = t]
            /\ login' = [login EXCEPT ![l] = "exchanged"]
       \/ /\ login' = [login EXCEPT ![l] = "done"]
          /\ UNCHANGED <<server, brings>>
    /\ UNCHANGED <<store, profile, pending, lock, pc, seen, got, fetch>>
    /\ UNCHANGED <<gone, latest, raced, outrun>>

\* A profile of another account stays in the cache until the next one is there.
replace_tokens(l) ==
    /\ login[l] = "exchanged"
    /\ \/ /\ store' = brings[l]
          /\ latest' = l
          /\ login' = [login EXCEPT ![l] = "stored"]
          /\ raced' = Comparing
          /\ outrun' = (profile \notin {None, AccountOf[l]})
       \/ /\ login' = [login EXCEPT ![l] = "done"]
          /\ UNCHANGED <<store, latest, raced, outrun>>
    /\ brings' = [brings EXCEPT ![l] = None]
    /\ UNCHANGED <<profile, pending, lock, pc, seen, got, fetch>>
    /\ UNCHANGED <<server, gone>>

\* fetch_and_cache_profile, after a sign-in: with whatever tokens are stored.
FetchAfterLogin(l) ==
    /\ login[l] = "stored"
    /\ login' = [login EXCEPT ![l] = "done"]
    /\ fetch' = IF store = None THEN fetch ELSE fetch \cup {session[store]}
    /\ UNCHANGED <<store, profile, pending, lock, pc, seen, got, brings>>
    /\ UNCHANGED <<server, gone, latest, raced, outrun>>

\* The cache is empty although there are tokens.
auth_get_user ==
    /\ profile = None
    /\ store # None
    /\ fetch' = fetch \cup {session[store]}
    /\ UNCHANGED <<store, profile, pending, lock, pc, seen, got, login, brings>>
    /\ UNCHANGED <<server, gone, latest, raced, outrun>>

\* The profile is written without a look at the tokens, or the request fails.
write_profile(l) ==
    /\ l \in fetch
    /\ \/ /\ profile' = AccountOf[l]
          /\ outrun' = (latest = None \/ AccountOf[l] # AccountOf[latest])
       \/ UNCHANGED <<profile, outrun>>
    /\ fetch' = fetch \ {l}
    /\ UNCHANGED <<store, pending, lock, pc, seen, got, login, brings>>
    /\ UNCHANGED <<server, gone, latest, raced>>

\* auth_logout, and auth_reset, which drops the pending sign-in as well.
clear_tokens(reset) ==
    /\ store' = None /\ profile' = None
    /\ pending' = IF reset THEN None ELSE pending
    /\ latest' = None /\ raced' = Comparing /\ outrun' = FALSE
    /\ UNCHANGED <<lock, pc, seen, got, login, brings, fetch>>
    /\ UNCHANGED <<server, gone>>

----------------------------------------------------------------------------

\* The session ends on the server: revoked there, or inactive for too long.
SessionEnds(l) ==
    LET its == {t \in Tokens : session[t] = l} IN
    /\ its \cap live # {}
    /\ live' = live \ its
    /\ gone' = gone \cup its
    /\ UNCHANGED <<desktop, session, latest, raced, outrun>>

Refresh(c) ==
    \/ RefreshLocks(c) \/ ServerRefreshes(c) \/ ServerRefuses(c) \/ RefreshFails(c)
    \/ ComparesTokens(c) \/ WritesTokens(c) \/ ClearsTokens(c)

Next ==
    \/ \E c \in Callers : RefreshBegins(c) \/ Refresh(c)
    \/ \E l \in Logins :
         \/ auth_open_login(l) \/ validate_auth_state(l) \/ exchange_desktop_token(l)
         \/ replace_tokens(l) \/ FetchAfterLogin(l)
         \/ write_profile(l) \/ SessionEnds(l)
    \/ \E reset \in BOOLEAN : clear_tokens(reset)
    \/ auth_get_user

\* A request ends in an answer or an error, and the lock is handed on in the
\* order of arrival.
Fairness == \A c \in Callers : WF_vars(Refresh(c)) /\ SF_vars(RefreshLocks(c))

Spec == Init /\ [][Next]_vars /\ Fairness

----------------------------------------------------------------------------

\* Types; and a refresh that was granted has a token to store.
TypeOK ==
    /\ store \in Tokens \cup {None} /\ lock \in Callers \cup {None}
    /\ live \subseteq Tokens /\ gone \subseteq Tokens
    /\ fetch \subseteq Logins
    /\ pending \in Logins \cup {None} /\ latest \in Logins \cup {None}
    /\ pc \in [Callers -> {"idle", "wait"} \cup Calling]
    /\ seen \in [Callers -> Tokens \cup {None}] /\ got \in [Callers -> Tokens \cup {None}]
    /\ login \in [Logins -> {"none", "browser", "exchange", "exchanged", "stored", "done"}]
    /\ brings \in [Logins -> Tokens \cup {None}]
    /\ session \in [Tokens -> Logins \cup {None}]
    /\ raced \in BOOLEAN
    /\ \A c \in Callers : pc[c] \in {"granted", "write"} => got[c] # None

\* The stored tokens descend from the last sign-in: no refresh that was under
\* way brings back tokens after a sign-out or puts those of an earlier sign-in
\* over a later one (replace_tokens_if_refresh_token_matches).  Set aside: a
\* change of the storage between that function's comparison and its write.
StoredIsLatest == ~raced /\ store # None => session[store] = latest

Refreshing(t) == \E c \in Callers : pc[c] \in {"granted", "write"} /\ seen[c] = t

\* The stored refresh token can be used, unless the answer that replaced it got
\* lost or the session ended; or its replacement is about to be stored
\* (refresh_stored_tokens).
StoredIsUsable == store # None => store \in live \cup gone \/ Refreshing(store)

\* A refusal signs the user out only when the session ended or an answer got
\* lost: two callers never use up each other's token (TOKEN_REFRESH_LOCK).
RefusedMeansGone ==
    \A c \in Callers : pc[c] = "refused" /\ seen[c] = store => store \in gone

\* The cached profile is that of the account that is signed in (clear_tokens).
\* Set aside: a profile that arrives, or stays, across a change of accounts.
ProfileIsCurrent ==
    ~outrun /\ profile # None => latest # None /\ profile = AccountOf[latest]

\* Whoever asks for a header gets an answer (refresh_stored_tokens).
CallersReturn == \A c \in Callers : pc[c] # "idle" ~> pc[c] = "idle"

=============================================================================
