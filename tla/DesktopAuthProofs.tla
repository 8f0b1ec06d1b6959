------------------------- MODULE DesktopAuthProofs -------------------------
(***************************************************************************)
(* Proofs about DesktopAuth, for any number of callers, sign-ins and       *)
(* tokens.                                                                 *)
(***************************************************************************)
EXTENDS DesktopAuth, TLAPS

\* The token was stored by a sign-in, or replaces one that was.
Stored(t) ==
    /\ t \in Tokens
    /\ session[t] \in Logins
    /\ login[session[t]] \in {"stored", "done"}

\* A caller past the lock holds it.
LockHeld == \A c \in Callers : pc[c] \in Calling => lock = c

\* Tokens that callers know of come from the storage, never from a sign-in that
\* is still under way.
KnownIsStored ==
    /\ store # None => Stored(store)
    /\ \A c \in Callers : pc[c] # "idle" => Stored(seen[c])

\* A granted token can be used and continues the session it was asked for.
GrantedIsUsable ==
    \A c \in Callers : pc[c] \in {"granted", "write"} =>
        got[c] \in live \cup gone /\ session[got[c]] = session[seen[c]]

\* So can the token of a sign-in, which no caller has seen.
BroughtIsUsable ==
    \A l \in Logins : login[l] = "exchanged" =>
        brings[l] \in live \cup gone /\ session[brings[l]] = l

\* Between comparison and write the storage holds the token compared.
ComparedIsStored == \A c \in Callers : pc[c] = "write" /\ ~raced => store = seen[c]

\* The inductive invariant.
AuthInv ==
    /\ TypeOK /\ LockHeld /\ KnownIsStored /\ GrantedIsUsable /\ BroughtIsUsable
    /\ ComparedIsStored /\ StoredIsLatest /\ StoredIsUsable /\ RefusedMeansGone

\* The server's answer to a refresh that it grants, with the token t.
ServerGives(c, t) ==
    /\ session' = [session EXCEPT ![t] = session[seen[c]]]
    /\ live' = (live \ {seen[c]}) \cup {t}
    /\ got' = [got EXCEPT ![c] = t]

\* The first reading of the tokens (refresh_stored_tokens) keeps the invariant:
\* the caller has seen a stored token.
LEMMA RefreshBeginsStep ==
  ASSUME AuthInv, NEW c \in Callers, RefreshBegins(c)
  PROVE  AuthInv'
<1> USE AuthAssumption DEF AuthInv, desktop, server, Tokens, Logins
<1>1. TypeOK'
  BY DEF TypeOK, Calling, RefreshBegins
<1>2. LockHeld'
  BY DEF TypeOK, Calling, RefreshBegins, LockHeld
<1>3. KnownIsStored'
  BY DEF TypeOK, Calling, RefreshBegins, KnownIsStored, Stored
<1>4. GrantedIsUsable' /\ BroughtIsUsable' /\ ComparedIsStored'
  BY DEF RefreshBegins, GrantedIsUsable, BroughtIsUsable, ComparedIsStored
<1>5. StoredIsLatest' /\ StoredIsUsable' /\ RefusedMeansGone'
  BY DEF RefreshBegins, StoredIsLatest, StoredIsUsable, Refreshing, RefusedMeansGone
<1> QED
  BY <1>1, <1>2, <1>3, <1>4, <1>5

\* Taking the lock and reading the tokens again (refresh_stored_tokens) keeps the
\* invariant.
LEMMA RefreshLocksStep ==
  ASSUME AuthInv, NEW c \in Callers, RefreshLocks(c)
  PROVE  AuthInv'
<1> USE AuthAssumption DEF AuthInv, desktop, server, Tokens, Logins
<1>1. TypeOK'
  <2>1. CASE StillNeeded(c)
    BY <2>1 DEF TypeOK, Calling, RefreshLocks
  <2>2. CASE ~StillNeeded(c)
    BY Zenon, <2>2 DEF TypeOK, Calling, RefreshLocks, Returns
  <2> QED
    BY <2>1, <2>2
<1>2. LockHeld'
  BY DEF TypeOK, Calling, RefreshLocks, Returns, StillNeeded, LockHeld
<1>3. KnownIsStored'
  BY DEF TypeOK, Calling, RefreshLocks, Returns, StillNeeded, KnownIsStored, Stored
<1>4. GrantedIsUsable'
  BY DEF TypeOK, Calling, RefreshLocks, Returns, StillNeeded, GrantedIsUsable
<1>5. ComparedIsStored'
  BY DEF TypeOK, Calling, RefreshLocks, Returns, StillNeeded, ComparedIsStored
<1>6. StoredIsUsable'
  BY DEF TypeOK, Calling, RefreshLocks, Returns, StillNeeded, StoredIsUsable, Refreshing
<1>7. RefusedMeansGone'
  BY DEF TypeOK, Calling, RefreshLocks, Returns, StillNeeded, RefusedMeansGone
<1>8. BroughtIsUsable' /\ StoredIsLatest'
  BY DEF RefreshLocks, Returns, StillNeeded, BroughtIsUsable, StoredIsLatest
<1> QED
  BY <1>1, <1>2, <1>3, <1>4, <1>5, <1>6, <1>7, <1>8

\* The server's rotation of a token (refreshTokens) keeps the invariant: the token
\* it consumes is the stored one, or no one's.
LEMMA ServerRefreshesStep ==
  ASSUME AuthInv, NEW c \in Callers, ServerRefreshes(c)
  PROVE  AuthInv'
<1> USE AuthAssumption DEF AuthInv, desktop, server, Tokens, Logins
<1>1. TypeOK'
  <2>1. PICK t \in Tokens : ServerGives(c, t)
    BY Zenon DEF ServerRefreshes, ServerGives
  <2>2. t # None /\ session[seen[c]] \in Logins \cup {None}
    BY DEF TypeOK, KnownIsStored, Stored, ServerRefreshes
  <2> QED
    BY Zenon, <2>1, <2>2 DEF TypeOK, Calling, ServerRefreshes, ServerGives
<1>2. LockHeld'
  BY DEF TypeOK, Calling, ServerRefreshes, Fresh, LockHeld
<1>3. GrantedIsUsable'
  BY DEF TypeOK, Calling, ServerRefreshes, Fresh, GrantedIsUsable, KnownIsStored,
         Stored, LockHeld
<1>4. BroughtIsUsable'
  BY DEF TypeOK, Calling, ServerRefreshes, Fresh, BroughtIsUsable, KnownIsStored, Stored
<1>5. StoredIsLatest'
  BY DEF TypeOK, Calling, ServerRefreshes, Fresh, StoredIsLatest, ComparedIsStored,
         KnownIsStored, GrantedIsUsable, Stored
<1>6. StoredIsUsable'
  BY DEF TypeOK, Calling, ServerRefreshes, Fresh, StoredIsUsable, Refreshing
<1>7. KnownIsStored' /\ ComparedIsStored' /\ RefusedMeansGone'
  BY DEF ServerRefreshes, Fresh, KnownIsStored, Stored, ComparedIsStored,
         RefusedMeansGone
<1> QED
  BY <1>1, <1>2, <1>3, <1>4, <1>5, <1>6, <1>7

\* The server's refusal (refreshTokens) keeps the invariant: by LockHeld no other
\* caller has used up the token that is refused.
LEMMA ServerRefusesStep ==
  ASSUME AuthInv, NEW c \in Callers, ServerRefuses(c)
  PROVE  AuthInv'
<1> USE AuthAssumption DEF AuthInv, desktop, server, Tokens, Logins
<1>1. TypeOK'
  BY DEF TypeOK, Calling, ServerRefuses
<1>2. LockHeld'
  BY DEF TypeOK, Calling, ServerRefuses, LockHeld
<1>3. RefusedMeansGone'
  BY DEF TypeOK, Calling, ServerRefuses, RefusedMeansGone, StoredIsUsable, Refreshing,
         LockHeld, KnownIsStored, BroughtIsUsable, Stored
<1>4. KnownIsStored' /\ GrantedIsUsable' /\ BroughtIsUsable'
  BY DEF ServerRefuses, KnownIsStored, Stored, GrantedIsUsable, BroughtIsUsable
<1>5. ComparedIsStored' /\ StoredIsLatest' /\ StoredIsUsable'
  BY DEF ServerRefuses, ComparedIsStored, StoredIsLatest, StoredIsUsable, Refreshing
<1> QED
  BY <1>1, <1>2, <1>3, <1>4, <1>5

\* A lost answer or a failing storage (refresh_desktop_token) keeps the invariant.
LEMMA RefreshFailsStep ==
  ASSUME AuthInv, NEW c \in Callers, RefreshFails(c)
  PROVE  AuthInv'
<1> USE AuthAssumption DEF AuthInv, desktop, server, Tokens, Logins
<1>1. TypeOK'
  <2>1. seen[c] \in Tokens
    BY DEF KnownIsStored, Stored, RefreshFails, Calling
  <2> QED
    BY Zenon, <2>1 DEF TypeOK, Calling, RefreshFails, Returns
<1>2. LockHeld'
  BY DEF TypeOK, Calling, RefreshFails, Returns, LockHeld
<1>3. KnownIsStored'
  BY DEF TypeOK, Calling, RefreshFails, Returns, KnownIsStored, Stored
<1>4. GrantedIsUsable'
  BY DEF TypeOK, Calling, RefreshFails, Returns, GrantedIsUsable
<1>5. ComparedIsStored'
  BY DEF TypeOK, Calling, RefreshFails, Returns, ComparedIsStored
<1>6. RefusedMeansGone'
  BY DEF TypeOK, Calling, RefreshFails, Returns, RefusedMeansGone
<1>7. BroughtIsUsable' /\ StoredIsLatest' /\ StoredIsUsable'
  BY DEF RefreshFails, Returns, BroughtIsUsable, StoredIsLatest, StoredIsUsable,
         Refreshing
<1> QED
  BY <1>1, <1>2, <1>3, <1>4, <1>5, <1>6, <1>7

\* The comparison with the stored token keeps the invariant
\* (replace_tokens_if_refresh_token_matches).
LEMMA ComparesTokensStep ==
  ASSUME AuthInv, NEW c \in Callers, ComparesTokens(c)
  PROVE  AuthInv'
<1> USE AuthAssumption DEF AuthInv, desktop, server, Tokens, Logins
<1>1. TypeOK'
  <2>1. CASE store = seen[c]
    BY <2>1 DEF TypeOK, Calling, ComparesTokens
  <2>2. CASE store # seen[c]
    BY Zenon, <2>2 DEF TypeOK, Calling, ComparesTokens, Returns
  <2> QED
    BY <2>1, <2>2
<1>2. LockHeld'
  BY DEF TypeOK, Calling, ComparesTokens, Returns, LockHeld
<1>3. KnownIsStored'
  BY DEF TypeOK, Calling, ComparesTokens, Returns, KnownIsStored, Stored
<1>4. GrantedIsUsable'
  BY DEF TypeOK, Calling, ComparesTokens, Returns, GrantedIsUsable
<1>5. ComparedIsStored'
  BY DEF TypeOK, Calling, ComparesTokens, Returns, ComparedIsStored
<1>6. StoredIsUsable'
  BY DEF TypeOK, Calling, ComparesTokens, Returns, StoredIsUsable, Refreshing
<1>7. RefusedMeansGone'
  BY DEF TypeOK, Calling, ComparesTokens, Returns, RefusedMeansGone
<1>8. BroughtIsUsable' /\ StoredIsLatest'
  BY DEF ComparesTokens, Returns, BroughtIsUsable, StoredIsLatest
<1> QED
  BY <1>1, <1>2, <1>3, <1>4, <1>5, <1>6, <1>7, <1>8

\* The write of the new tokens keeps the invariant: they continue the session of
\* the stored ones (replace_tokens_if_refresh_token_matches).
LEMMA WritesTokensStep ==
  ASSUME AuthInv, NEW c \in Callers, WritesTokens(c)
  PROVE  AuthInv'
<1> USE AuthAssumption DEF AuthInv, desktop, server, Tokens, Logins
<1>1. TypeOK'
  BY DEF TypeOK, Calling, WritesTokens, Returns
<1>2. LockHeld'
  BY DEF TypeOK, Calling, WritesTokens, Returns, LockHeld
<1>3. KnownIsStored'
  BY DEF TypeOK, WritesTokens, Returns, KnownIsStored, GrantedIsUsable, Stored
<1>4. GrantedIsUsable'
  BY DEF TypeOK, Calling, WritesTokens, Returns, GrantedIsUsable
<1>5. ComparedIsStored'
  BY DEF TypeOK, Calling, WritesTokens, Returns, ComparedIsStored, LockHeld
<1>6. StoredIsLatest'
  BY DEF TypeOK, Calling, WritesTokens, Returns, StoredIsLatest, ComparedIsStored,
         KnownIsStored, GrantedIsUsable, Stored
<1>7. StoredIsUsable'
  BY DEF TypeOK, Calling, WritesTokens, Returns, StoredIsUsable, Refreshing, LockHeld,
         GrantedIsUsable, BroughtIsUsable
<1>8. RefusedMeansGone'
  BY DEF TypeOK, Calling, WritesTokens, Returns, RefusedMeansGone, StoredIsUsable,
         Refreshing, LockHeld, KnownIsStored, BroughtIsUsable, Stored
<1>9. BroughtIsUsable'
  BY DEF WritesTokens, Returns, BroughtIsUsable
<1> QED
  BY <1>1, <1>2, <1>3, <1>4, <1>5, <1>6, <1>7, <1>8, <1>9

\* The sign-out after a refusal keeps the invariant
\* (clear_tokens_if_refresh_token_matches).
LEMMA ClearsTokensStep ==
  ASSUME AuthInv, NEW c \in Callers, ClearsTokens(c)
  PROVE  AuthInv'
<1> USE AuthAssumption DEF AuthInv, desktop, server, Tokens, Logins
<1>1. TypeOK'
  BY Zenon DEF TypeOK, Calling, ClearsTokens, Returns
<1>2. LockHeld'
  BY DEF TypeOK, Calling, ClearsTokens, Returns, LockHeld
<1>3. KnownIsStored'
  BY DEF TypeOK, Calling, ClearsTokens, Returns, KnownIsStored, Stored
<1>4. ComparedIsStored'
  BY DEF TypeOK, Calling, ClearsTokens, Returns, ComparedIsStored, LockHeld
<1>5. RefusedMeansGone'
  BY DEF TypeOK, Calling, ClearsTokens, Returns, RefusedMeansGone, StoredIsUsable,
         Refreshing, LockHeld, KnownIsStored, BroughtIsUsable, Stored
<1>6. GrantedIsUsable' /\ BroughtIsUsable' /\ StoredIsLatest' /\ StoredIsUsable'
  BY DEF ClearsTokens, Returns, GrantedIsUsable, BroughtIsUsable, StoredIsLatest,
         StoredIsUsable, Refreshing
<1> QED
  BY <1>1, <1>2, <1>3, <1>4, <1>5, <1>6

\* Opening a sign-in (auth_open_login) keeps the invariant.
LEMMA auth_open_loginStep ==
  ASSUME AuthInv, NEW l \in Logins, auth_open_login(l)
  PROVE  AuthInv'
<1> USE AuthAssumption DEF AuthInv, desktop, server, Tokens, Logins
<1>1. TypeOK'
  BY DEF TypeOK, Calling, auth_open_login
<1>2. LockHeld' /\ KnownIsStored' /\ GrantedIsUsable' /\ BroughtIsUsable'
  BY DEF auth_open_login, LockHeld, KnownIsStored, Stored, GrantedIsUsable,
         BroughtIsUsable
<1>3. ComparedIsStored' /\ StoredIsLatest' /\ StoredIsUsable' /\ RefusedMeansGone'
  BY DEF auth_open_login, ComparedIsStored, StoredIsLatest, StoredIsUsable, Refreshing,
         RefusedMeansGone
<1> QED
  BY <1>1, <1>2, <1>3

\* The check of the state that the browser returns (validate_auth_state) keeps the
\* invariant.
LEMMA validate_auth_stateStep ==
  ASSUME AuthInv, NEW l \in Logins, validate_auth_state(l)
  PROVE  AuthInv'
<1> USE AuthAssumption DEF AuthInv, desktop, server, Tokens, Logins
<1>1. TypeOK'
  BY DEF TypeOK, Calling, validate_auth_state
<1>2. LockHeld' /\ KnownIsStored' /\ GrantedIsUsable' /\ BroughtIsUsable'
  BY DEF validate_auth_state, LockHeld, KnownIsStored, Stored, GrantedIsUsable,
         BroughtIsUsable
<1>3. ComparedIsStored' /\ StoredIsLatest' /\ StoredIsUsable' /\ RefusedMeansGone'
  BY DEF validate_auth_state, ComparedIsStored, StoredIsLatest, StoredIsUsable,
         Refreshing, RefusedMeansGone
<1> QED
  BY <1>1, <1>2, <1>3

\* The token of a sign-in (exchange_desktop_token) is new, so that the invariant is
\* kept for all the others.
LEMMA exchange_desktop_tokenStep ==
  ASSUME AuthInv, NEW l \in Logins, exchange_desktop_token(l)
  PROVE  AuthInv'
<1> USE AuthAssumption DEF AuthInv, desktop, server, Tokens, Logins
<1>1. TypeOK'
  <2>1. live' \subseteq Tokens /\ session' \in [Tokens -> Logins \cup {None}]
    <3>1. CASE UNCHANGED server
      BY <3>1 DEF TypeOK
    <3>2. ASSUME NEW t \in Tokens,
                 session' = [session EXCEPT ![t] = l], live' = live \cup {t}
          PROVE  live' \subseteq Tokens /\ session' \in [Tokens -> Logins \cup {None}]
      BY <3>2 DEF TypeOK
    <3> QED
      BY <3>1, <3>2 DEF exchange_desktop_token
  <2>2. brings' \in [Logins -> Tokens \cup {None}]
    BY DEF TypeOK, exchange_desktop_token
  <2>3. login' \in [Logins -> {"none", "browser", "exchange", "exchanged", "stored", "done"}]
    BY DEF TypeOK, exchange_desktop_token
  <2> QED
    BY <2>1, <2>2, <2>3 DEF TypeOK, exchange_desktop_token
<1>2. KnownIsStored'
  <2>1. ASSUME NEW t, Stored(t) PROVE Stored(t)'
    <3>1. t \in Tokens /\ session[t] # None /\ session[t] # l
      BY <2>1 DEF Stored, exchange_desktop_token
    <3>2. session'[t] = session[t]
      BY <3>1 DEF TypeOK, exchange_desktop_token, Fresh
    <3> QED
      BY <2>1, <3>1, <3>2 DEF TypeOK, Stored, exchange_desktop_token
  <2> QED
    BY <2>1 DEF KnownIsStored, exchange_desktop_token
<1>3. GrantedIsUsable'
  BY DEF TypeOK, Calling, exchange_desktop_token, Fresh, GrantedIsUsable, KnownIsStored,
         Stored, LockHeld
<1>4. BroughtIsUsable'
  <2> SUFFICES ASSUME NEW k \in Logins, login'[k] = "exchanged"
               PROVE  brings'[k] \in live' \cup gone' /\ session'[brings'[k]] = k
    BY DEF BroughtIsUsable
  <2>1. CASE k = l
    BY <2>1 DEF TypeOK, exchange_desktop_token
  <2>2. CASE k # l
    <3>1. login[k] = "exchanged" /\ brings'[k] = brings[k]
      BY <2>2 DEF TypeOK, exchange_desktop_token
    <3>2. brings[k] \in live \cup gone /\ session[brings[k]] = k
      BY <3>1 DEF BroughtIsUsable
    <3>3. k # None
      OBVIOUS
    <3>4. brings[k] \in Tokens
      BY Zenon, <3>2 DEF TypeOK
    <3>5. brings[k] \in Tokens /\ session[brings[k]] # None
      BY <3>2, <3>3, <3>4
    <3> QED
      BY <3>1, <3>2, <3>5 DEF TypeOK, exchange_desktop_token, Fresh
  <2> QED
    BY <2>1, <2>2
<1>5. StoredIsLatest'
  BY DEF TypeOK, Calling, exchange_desktop_token, Fresh, StoredIsLatest,
         ComparedIsStored, KnownIsStored, GrantedIsUsable, Stored
<1>6. LockHeld' /\ ComparedIsStored' /\ StoredIsUsable' /\ RefusedMeansGone'
  BY DEF exchange_desktop_token, Fresh, LockHeld, ComparedIsStored, StoredIsUsable,
         Refreshing, RefusedMeansGone
<1> QED
  BY <1>1, <1>2, <1>3, <1>4, <1>5, <1>6

\* Storing the tokens of a sign-in (complete_auth_deep_link) keeps the invariant.
LEMMA replace_tokensStep ==
  ASSUME AuthInv, NEW l \in Logins, replace_tokens(l)
  PROVE AuthInv'
<1> USE AuthAssumption DEF AuthInv, desktop, server, Tokens, Logins
<1>1. raced' \in BOOLEAN
  BY Zenon DEF TypeOK, Comparing, replace_tokens
<1>2. TypeOK' /\ LockHeld' /\ GrantedIsUsable'
  <2>1. store' \in Tokens \cup {None} /\ latest' \in Logins \cup {None}
    BY DEF TypeOK, replace_tokens
  <2>2. TypeOK'
    BY <1>1, <2>1 DEF TypeOK, replace_tokens
  <2> QED
    BY <2>2 DEF LockHeld, GrantedIsUsable, replace_tokens
<1>3. brings[l] \in Tokens /\ brings[l] \in live \cup gone /\ session[brings[l]] = l
  BY Zenon DEF TypeOK, BroughtIsUsable, replace_tokens
<1>4. KnownIsStored'
  BY <1>3 DEF TypeOK, KnownIsStored, Stored, replace_tokens
<1>5. BroughtIsUsable'
  <2> SUFFICES ASSUME NEW k \in Logins, login'[k] = "exchanged"
               PROVE  brings'[k] \in live' \cup gone' /\ session'[brings'[k]] = k
    BY DEF BroughtIsUsable
  <2>1. k # l
    BY DEF TypeOK, replace_tokens
  <2> QED
    BY <2>1 DEF TypeOK, BroughtIsUsable, replace_tokens
<1>6. CASE store' = brings[l] /\ latest' = l /\ raced' = Comparing
  <2>1. ComparedIsStored'
    BY <1>6 DEF ComparedIsStored, Comparing, replace_tokens
  <2>2. StoredIsLatest' /\ StoredIsUsable'
    BY <1>3, <1>6 DEF StoredIsLatest, StoredIsUsable, replace_tokens
  <2>3. RefusedMeansGone'
    BY <1>3, <1>6 DEF RefusedMeansGone, KnownIsStored, Stored, replace_tokens
  <2> QED
    BY <1>2, <1>4, <1>5, <2>1, <2>2, <2>3
<1>7. CASE UNCHANGED <<store, latest, raced>>
  <2>1. ComparedIsStored' /\ StoredIsLatest' /\ RefusedMeansGone'
    BY <1>7 DEF ComparedIsStored, StoredIsLatest, RefusedMeansGone, replace_tokens
  <2>2. StoredIsUsable'
    BY <1>7 DEF StoredIsUsable, Refreshing, replace_tokens
  <2> QED
    BY <1>2, <1>4, <1>5, <2>1, <2>2
<1> QED
  BY <1>6, <1>7 DEF replace_tokens

\* The request for the profile (fetch_and_cache_profile) keeps the invariant.
LEMMA FetchAfterLoginStep ==
  ASSUME AuthInv, NEW l \in Logins, FetchAfterLogin(l)
  PROVE  AuthInv'
<1> USE AuthAssumption DEF AuthInv, desktop, server, Tokens, Logins
<1>1. TypeOK'
  BY Zenon DEF TypeOK, Calling, FetchAfterLogin, KnownIsStored, Stored
<1>2. LockHeld' /\ KnownIsStored' /\ GrantedIsUsable' /\ BroughtIsUsable'
  BY DEF FetchAfterLogin, LockHeld, KnownIsStored, Stored, GrantedIsUsable,
         BroughtIsUsable
<1>3. ComparedIsStored' /\ StoredIsLatest' /\ StoredIsUsable' /\ RefusedMeansGone'
  BY DEF FetchAfterLogin, ComparedIsStored, StoredIsLatest, StoredIsUsable, Refreshing,
         RefusedMeansGone
<1> QED
  BY <1>1, <1>2, <1>3

\* The profile that arrives (fetch_and_cache_profile) keeps the invariant.
LEMMA write_profileStep ==
  ASSUME AuthInv, NEW l \in Logins, write_profile(l)
  PROVE  AuthInv'
<1> USE AuthAssumption DEF AuthInv, desktop, server, Tokens, Logins
<1>1. TypeOK'
  BY DEF TypeOK, Calling, write_profile
<1>2. LockHeld' /\ KnownIsStored' /\ GrantedIsUsable' /\ BroughtIsUsable'
  BY DEF write_profile, LockHeld, KnownIsStored, Stored, GrantedIsUsable,
         BroughtIsUsable
<1>3. ComparedIsStored' /\ StoredIsLatest' /\ StoredIsUsable' /\ RefusedMeansGone'
  BY DEF write_profile, ComparedIsStored, StoredIsLatest, StoredIsUsable, Refreshing,
         RefusedMeansGone
<1> QED
  BY <1>1, <1>2, <1>3

\* The end of a session on the server keeps the invariant.
LEMMA SessionEndsStep ==
  ASSUME AuthInv, NEW l \in Logins, SessionEnds(l)
  PROVE  AuthInv'
<1> USE AuthAssumption DEF AuthInv, desktop, server, Tokens, Logins
<1>1. TypeOK'
  BY Zenon DEF TypeOK, Calling, SessionEnds
<1>2. LockHeld' /\ KnownIsStored' /\ GrantedIsUsable' /\ BroughtIsUsable'
  BY DEF SessionEnds, LockHeld, KnownIsStored, Stored, GrantedIsUsable, BroughtIsUsable
<1>3. ComparedIsStored' /\ StoredIsLatest' /\ StoredIsUsable' /\ RefusedMeansGone'
  BY DEF SessionEnds, ComparedIsStored, StoredIsLatest, StoredIsUsable, Refreshing,
         RefusedMeansGone
<1> QED
  BY <1>1, <1>2, <1>3

\* A sign-out (clear_tokens) keeps the invariant.
LEMMA clear_tokensStep ==
  ASSUME AuthInv, NEW reset \in BOOLEAN, clear_tokens(reset)
  PROVE  AuthInv'
<1> USE AuthAssumption DEF AuthInv, desktop, server, Tokens, Logins
<1>1. TypeOK'
  BY DEF TypeOK, Calling, clear_tokens, Comparing
<1>2. RefusedMeansGone'
  BY DEF TypeOK, Calling, clear_tokens, Comparing, RefusedMeansGone, StoredIsUsable,
         Refreshing, LockHeld, KnownIsStored, BroughtIsUsable, Stored
<1>3. LockHeld' /\ KnownIsStored' /\ GrantedIsUsable' /\ BroughtIsUsable'
  BY DEF clear_tokens, Comparing, LockHeld, KnownIsStored, Stored, GrantedIsUsable,
         BroughtIsUsable
<1>4. ComparedIsStored' /\ StoredIsLatest' /\ StoredIsUsable'
  BY DEF clear_tokens, Comparing, ComparedIsStored, StoredIsLatest, StoredIsUsable,
         Refreshing
<1> QED
  BY <1>1, <1>2, <1>3, <1>4

\* A profile fetched on demand (auth_get_user) keeps the invariant.
LEMMA auth_get_userStep ==
  ASSUME AuthInv, auth_get_user
  PROVE  AuthInv'
<1> USE AuthAssumption DEF AuthInv, desktop, server, Tokens, Logins
<1>1. TypeOK'
  BY Zenon DEF TypeOK, Calling, auth_get_user, KnownIsStored, Stored
<1>2. LockHeld' /\ KnownIsStored' /\ GrantedIsUsable' /\ BroughtIsUsable'
  BY DEF auth_get_user, LockHeld, KnownIsStored, Stored, GrantedIsUsable,
         BroughtIsUsable
<1>3. ComparedIsStored' /\ StoredIsLatest' /\ StoredIsUsable' /\ RefusedMeansGone'
  BY DEF auth_get_user, ComparedIsStored, StoredIsLatest, StoredIsUsable, Refreshing,
         RefusedMeansGone
<1> QED
  BY <1>1, <1>2, <1>3

\* At the start no one is signed in.
LEMMA InitAuthInv == Init => AuthInv
<1> SUFFICES ASSUME Init PROVE AuthInv
  OBVIOUS
<1> USE AuthAssumption DEF Init
<1>1. TypeOK
  BY Zenon DEF TypeOK, Calling, Logins, Tokens
<1>2. LockHeld /\ KnownIsStored /\ GrantedIsUsable /\ BroughtIsUsable
  BY DEF LockHeld, KnownIsStored, GrantedIsUsable, BroughtIsUsable, Calling
<1>3. ComparedIsStored /\ StoredIsLatest /\ StoredIsUsable /\ RefusedMeansGone
  BY DEF ComparedIsStored, StoredIsLatest, StoredIsUsable, RefusedMeansGone
<1> QED
  BY <1>1, <1>2, <1>3 DEF AuthInv

\* A step that changes nothing.
LEMMA StutterStep == AuthInv /\ UNCHANGED vars => AuthInv'
<1> SUFFICES ASSUME AuthInv, UNCHANGED vars PROVE AuthInv'
  OBVIOUS
<1> USE DEF AuthInv, vars, desktop, server
<1>1. TypeOK' /\ LockHeld' /\ KnownIsStored' /\ GrantedIsUsable' /\ BroughtIsUsable'
  BY DEF TypeOK, LockHeld, KnownIsStored, Stored, GrantedIsUsable, BroughtIsUsable
<1>2. ComparedIsStored' /\ StoredIsLatest' /\ StoredIsUsable' /\ RefusedMeansGone'
  BY DEF ComparedIsStored, StoredIsLatest, StoredIsUsable, Refreshing, RefusedMeansGone
<1> QED
  BY <1>1, <1>2

\* The invariant holds at every step of the desktop and of the server.
LEMMA AuthInvariant == Spec => []AuthInv
<1>1. AuthInv /\ [Next]_vars => AuthInv'
  <2> SUFFICES ASSUME AuthInv, [Next]_vars PROVE AuthInv'
    OBVIOUS
  <2>1. ASSUME NEW c \in Callers, RefreshBegins(c) \/ Refresh(c) PROVE AuthInv'
    BY <2>1, RefreshBeginsStep, RefreshLocksStep, ServerRefreshesStep, ServerRefusesStep,
       RefreshFailsStep, ComparesTokensStep, WritesTokensStep, ClearsTokensStep DEF Refresh
  <2>2. ASSUME NEW l \in Logins,
               \/ auth_open_login(l) \/ validate_auth_state(l) \/ exchange_desktop_token(l)
               \/ replace_tokens(l) \/ FetchAfterLogin(l)
               \/ write_profile(l) \/ SessionEnds(l)
        PROVE  AuthInv'
    BY <2>2, auth_open_loginStep, validate_auth_stateStep, exchange_desktop_tokenStep,
       replace_tokensStep, FetchAfterLoginStep, write_profileStep, SessionEndsStep
  <2>3. ASSUME NEW reset \in BOOLEAN, clear_tokens(reset) PROVE AuthInv'
    BY <2>3, clear_tokensStep
  <2>4. CASE auth_get_user
    BY <2>4, auth_get_userStep
  <2>5. CASE UNCHANGED vars
    BY <2>5, StutterStep
  <2> QED
    BY <2>1, <2>2, <2>3, <2>4, <2>5 DEF Next
<1> QED
  BY <1>1, InitAuthInv, PTL DEF Spec

\* The types of the state: a refresh that was granted has a token to store.
THEOREM AuthTyped == Spec => []TypeOK
<1>1. AuthInv => TypeOK
  BY DEF AuthInv
<1> QED
  BY <1>1, AuthInvariant, PTL

\* A refresh never brings back the tokens of an earlier sign-in, nor any after a
\* sign-out (replace_tokens_if_refresh_token_matches).
THEOREM StoredTokensAreLatest == Spec => []StoredIsLatest
<1>1. AuthInv => StoredIsLatest
  BY DEF AuthInv
<1> QED
  BY <1>1, AuthInvariant, PTL

\* The stored refresh token is never one that a refresh of this desktop used up
\* and whose answer arrived (refresh_stored_tokens).
THEOREM StoredTokensAreUsable == Spec => []StoredIsUsable
<1>1. AuthInv => StoredIsUsable
  BY DEF AuthInv
<1> QED
  BY <1>1, AuthInvariant, PTL

\* Concurrent refreshes sign no one out (TOKEN_REFRESH_LOCK).
THEOREM RefusalsAreDeserved == Spec => []RefusedMeansGone
<1>1. AuthInv => RefusedMeansGone
  BY DEF AuthInv
<1> QED
  BY <1>1, AuthInvariant, PTL

\* The cached profile is that of the account signed in, unless it came or stayed
\* across a change of accounts (clear_tokens, fetch_and_cache_profile).
THEOREM ProfilesAreCurrent == Spec => []ProfileIsCurrent
<1> USE AuthAssumption DEF ProfileIsCurrent, desktop, server
<1>1. Init => ProfileIsCurrent
  BY DEF Init
<1>2. ProfileIsCurrent /\ [Next]_vars => ProfileIsCurrent'
  <2> SUFFICES ASSUME ProfileIsCurrent, [Next]_vars PROVE ProfileIsCurrent'
    OBVIOUS
  <2>1. ASSUME NEW c \in Callers, ClearsTokens(c) PROVE ProfileIsCurrent'
    BY <2>1 DEF ClearsTokens
  <2>2. ASSUME NEW l \in Logins, replace_tokens(l) PROVE ProfileIsCurrent'
    <3>1. CASE UNCHANGED <<latest, outrun>>
      BY <2>2, <3>1 DEF replace_tokens
    <3>2. CASE latest' = l /\ outrun' = (profile \notin {None, AccountOf[l]})
      <4>1. l # None
        BY DEF Logins
      <4>2. ~outrun' => profile \in {None, AccountOf[l]}
        BY Zenon, <3>2
      <4>3. profile' = profile
        BY <2>2 DEF replace_tokens
      <4> QED
        BY <3>2, <4>1, <4>2, <4>3
    <3> QED
      BY <2>2, <3>1, <3>2 DEF replace_tokens
  <2>3. ASSUME NEW l \in Logins, write_profile(l) PROVE ProfileIsCurrent'
    <3>1. CASE UNCHANGED <<profile, outrun>>
      BY <2>3, <3>1 DEF write_profile
    <3>2. CASE /\ profile' = AccountOf[l]
               /\ outrun' = (latest = None \/ AccountOf[l] # AccountOf[latest])
      <4>1. ~outrun' => latest # None /\ AccountOf[l] = AccountOf[latest]
        BY Zenon, <3>2
      <4>2. latest' = latest
        BY <2>3 DEF write_profile
      <4> QED
        BY <3>2, <4>1, <4>2
    <3> QED
      BY <2>3, <3>1, <3>2 DEF write_profile
  <2>4. ASSUME NEW reset \in BOOLEAN, clear_tokens(reset) PROVE ProfileIsCurrent'
    BY <2>4 DEF clear_tokens
  <2>5. CASE UNCHANGED <<profile, latest, outrun>>
    BY <2>5
  <2>6. ASSUME NEW c \in Callers, RefreshBegins(c) \/ Refresh(c), ~ClearsTokens(c)
        PROVE  UNCHANGED <<profile, latest, outrun>>
    BY <2>6 DEF RefreshBegins, Refresh, RefreshLocks, ServerRefreshes, ServerRefuses,
       RefreshFails, ComparesTokens, WritesTokens
  <2>7. ASSUME NEW l \in Logins,
               \/ auth_open_login(l) \/ validate_auth_state(l) \/ exchange_desktop_token(l)
               \/ FetchAfterLogin(l) \/ SessionEnds(l)
        PROVE  UNCHANGED <<profile, latest, outrun>>
    BY <2>7 DEF auth_open_login, validate_auth_state, exchange_desktop_token,
       FetchAfterLogin, SessionEnds
  <2>8. auth_get_user \/ UNCHANGED vars => UNCHANGED <<profile, latest, outrun>>
    BY DEF auth_get_user, vars
  <2> QED
    BY <2>1, <2>2, <2>3, <2>4, <2>5, <2>6, <2>7, <2>8 DEF Next
<1> QED
  BY <1>1, <1>2, PTL DEF Spec

=============================================================================
