----------------------------- MODULE Sessions -----------------------------
(***************************************************************************)
(* Refresh sessions of one user: the rows of refresh_sessions, the requests*)
(* that rotate and revoke them, one statement at a time and without a      *)
(* transaction, and the web client, whose tabs share the tokens that the   *)
(* browser stores.  A refresh token is named by the id of its session; the *)
(* sessions that descend from one login are a family.                      *)
(***************************************************************************)
EXTENDS Naturals, FiniteSets

CONSTANTS
  Browsers,
  Tabs,
  BrowserOf,    \* the browser of each tab
  MaxActive,    \* MAX_ACTIVE_SESSIONS_PER_USER
  MaxSessions,  \* bound on the sessions ever created
  MaxLost       \* bound on the requests lost and the tabs closed half-way

Ids == 1..MaxSessions  \* in the order of created_at

None == 0  \* no token, no family

ASSUME SessionsAssumption ==
  /\ IsFiniteSet(Tabs)
  /\ BrowserOf \in [Tabs -> Browsers]
  /\ MaxActive \in Nat \ {0}
  /\ MaxSessions \in Nat
  /\ MaxLost \in Nat

VARIABLES
  session,  \* refresh_sessions; a family is named by its first session
  stored,   \* by browser, the refresh token in localStorage
  call,     \* by tab, the request it waits for
  cause,    \* by family, why its user may have to log in again
  lost,     \* how many requests were lost, or their tabs closed
  latched   \* the tabs whose refreshPromise is an old refusal

vars == <<session, stored, call, cause, lost, latched>>

\* gone: expired, deleted, or both; the token is refused all the same.
Row == [state : {"absent", "live", "revoked", "gone"}, family : Ids \cup {None}]

\* waiting: the tab is still there.
Call ==
  [kind : {"none", "login", "refresh", "logout"},
   step : {"none", "read", "reuse", "rotate", "create", "list", "prune", "revoke", "ok", "refused"},
   token : Ids \cup {None}, excess : SUBSET Ids, waiting : BOOLEAN]

TypeOK ==
  /\ session \in [Ids -> Row]
  /\ stored \in [Browsers -> Ids \cup {None}]
  /\ call \in [Tabs -> Call]
  /\ cause \in [Ids -> {"none", "overlap", "other"}]
  /\ lost \in 0..MaxLost
  /\ latched \subseteq Tabs

NoCall == [kind |-> "none", step |-> "none", token |-> None, excess |-> {}, waiting |-> FALSE]

Init ==
  /\ session = [s \in Ids |-> [state |-> "absent", family |-> None]]
  /\ stored = [b \in Browsers |-> None]
  /\ call = [t \in Tabs |-> NoCall]
  /\ cause = [f \in Ids |-> "none"]
  /\ lost = 0
  /\ latched = {}

State(s) == session[s].state
Family(s) == IF s = None THEN None ELSE session[s].family
Live == {s \in Ids : State(s) = "live"}
Unused == {s \in Ids : State(s) = "absent"}

Token(t) == call[t].token

\* The requests that rotate, or descend from, a session of the family.
Refreshing(f) == {t \in Tabs : call[t].kind = "refresh" /\ Family(Token(t)) = f}

Send(t, kind, step, token) ==
  /\ call[t] = NoCall
  /\ call' = [call EXCEPT ![t] = [kind |-> kind, step |-> step, token |-> token,
                                  excess |-> {}, waiting |-> TRUE]]
  /\ UNCHANGED <<session, stored, lost>>

Step(t, from, to) ==
  /\ call[t].step = from
  /\ call' = [call EXCEPT ![t].step = to]
  /\ UNCHANGED <<stored, lost>>

\* UPDATE refresh_sessions SET revoked_at ... WHERE revoked_at IS NULL
Revoke(ids) ==
  session' = [s \in Ids |-> IF s \in ids \cap Live THEN [session[s] EXCEPT !.state = "revoked"]
                            ELSE session[s]]

\* A logout, a reset, a user who is inactive, the limit, the expiry or a lost
\* answer.
Blame(families) ==
  cause' = [f \in Ids |-> IF f \in families /\ cause[f] = "none" THEN "other" ELSE cause[f]]

\* A mistake the runs must notice: every session of the user.
EverySession(f) == Ids

FamilyOf(f) == {s \in Ids : Family(s) = f}

-----------------------------------------------------------------------------
(* AuthService.refresh                                                     *)

\* Each tab refreshes once at a time; nothing keeps another tab of the browser
\* from sending the same token.
SendRefresh(t) ==
  LET token == stored[BrowserOf[t]]
  IN  /\ token # None /\ t \notin latched
      /\ Send(t, "refresh", "read", token)
      /\ IF Refreshing(Family(token)) # {} THEN cause' = [cause EXCEPT ![Family(token)] = "overlap"]
         ELSE UNCHANGED cause

\* A refresh without a token to send: the early return leaves refreshPromise
\* set, and this tab gets the same answer until it is loaded again.
RefreshNothing(t) ==
  /\ call[t] = NoCall
  /\ stored[BrowserOf[t]] = None
  /\ latched' = latched \cup {t}
  /\ UNCHANGED <<session, stored, call, cause, lost>>

\* The user is inactive or gone, whatever became of the session.
RefuseUser(t) ==
  /\ call[t].kind = "refresh"
  /\ Step(t, "read", "refused")
  /\ Blame({Family(Token(t))})
  /\ UNCHANGED session

\* An expired token fails its verification.
ReadRefresh(t) ==
  /\ call[t].kind = "refresh"
  /\ \/ State(Token(t)) = "live" /\ Step(t, "read", "rotate")
     \/ State(Token(t)) = "revoked" /\ Step(t, "read", "reuse")
     \/ State(Token(t)) = "gone" /\ Step(t, "read", "refused")
  /\ UNCHANGED <<session, cause>>

RevokeReused(t) ==
  /\ Step(t, "reuse", "refused")
  /\ Revoke(FamilyOf(Family(Token(t))))
  /\ UNCHANGED cause

\* A mistake the runs must notice: the session that was used stays live.
KeepsSession(t) == UNCHANGED session

SavesRevoked(t) == Revoke({Token(t)})

Rotate(t) ==
  /\ Step(t, "rotate", "create")
  /\ SavesRevoked(t)
  /\ UNCHANGED cause

-----------------------------------------------------------------------------
(* AuthService.login and register, createSession and pruneUserSessions     *)

SendLogin(t) == Send(t, "login", "create", None) /\ UNCHANGED cause

Create(t) ==
  \E s \in Unused :
    /\ \A other \in Unused : s <= other
    /\ call[t].step = "create"
    /\ call' = [call EXCEPT ![t].step = "list", ![t].token = s]
    /\ session' = [session EXCEPT ![s] =
         [state |-> "live", family |-> IF Token(t) = None THEN s ELSE Family(Token(t))]]
    /\ UNCHANGED <<stored, cause, lost>>

\* A mistake the runs must notice: only the oldest session is revoked.
OldestOne ==
  IF Cardinality(Live) <= MaxActive THEN {} ELSE {s \in Live : \A other \in Live : s <= other}

\* The oldest sessions in excess of the limit.
Excess == {s \in Live : Cardinality({newer \in Live : newer > s}) >= MaxActive}

\* The expired rows that are deleted on the way are gone already.
List(t) ==
  /\ call[t].step = "list"
  /\ call' = [call EXCEPT ![t].step = "prune", ![t].excess = Excess]
  /\ UNCHANGED <<session, stored, cause, lost>>

Prune(t) ==
  /\ call[t].step = "prune"
  /\ call' = [call EXCEPT ![t].step = "ok", ![t].excess = {}]
  /\ Revoke(call[t].excess)
  /\ Blame({Family(s) : s \in call[t].excess})
  /\ UNCHANGED <<stored, lost>>

-----------------------------------------------------------------------------
(* AuthService.logout, resetPassword and acceptInvite                      *)

SendLogout(t) ==
  LET token == stored[BrowserOf[t]]
  IN  /\ token # None
      /\ Send(t, "logout", "read", token)
      /\ Blame({Family(token)})

ReadLogout(t) ==
  /\ call[t].kind = "logout"
  /\ Step(t, "read", IF State(Token(t)) = "live" THEN "revoke" ELSE "refused")
  /\ UNCHANGED <<session, cause>>

RevokeLoggedOut(t) ==
  /\ Step(t, "revoke", "refused")
  /\ Revoke(FamilyOf(Family(Token(t))))
  /\ UNCHANGED cause

\* A new password, from the link in a mail.
Reset ==
  /\ Revoke(Ids)
  /\ Blame({Family(s) : s \in Live})
  /\ UNCHANGED <<stored, call, lost>>

-----------------------------------------------------------------------------
(* The web client                                                          *)

\* The answer brings the tokens of the new session, or none: a refresh that was
\* refused and a logout clear what the browser stores now.
Answer(t) ==
  /\ call[t].step \in {"ok", "refused"}
  /\ call' = [call EXCEPT ![t] = NoCall]
  /\ stored' = IF call[t].waiting
               THEN [stored EXCEPT ![BrowserOf[t]] = IF call[t].step = "ok" THEN Token(t) ELSE None]
               ELSE stored
  /\ UNCHANGED <<session, cause, lost>>

\* The server stops or the connection breaks.
Lose(t) ==
  /\ call[t] # NoCall
  /\ lost < MaxLost
  /\ lost' = lost + 1
  /\ call' = [call EXCEPT ![t] = NoCall]
  /\ stored' = IF call[t].waiting /\ call[t].kind # "login"
               THEN [stored EXCEPT ![BrowserOf[t]] = None] ELSE stored
  /\ Blame({Family(Token(t))})
  /\ UNCHANGED session

\* The tab is closed or reloaded; the server goes on with its request.
Close(t) ==
  /\ call[t].waiting
  /\ lost < MaxLost
  /\ lost' = lost + 1
  /\ call' = [call EXCEPT ![t].waiting = FALSE]
  /\ Blame({Family(Token(t))})
  /\ latched' = latched \ {t}
  /\ UNCHANGED <<session, stored>>

\* A tab that opens asks for the profile and, whatever goes wrong, forgets the
\* tokens of the browser.
Open(t) ==
  /\ call[t] = NoCall
  /\ stored' \in {stored, [stored EXCEPT ![BrowserOf[t]] = None]}
  /\ latched' = latched \ {t}
  /\ UNCHANGED <<session, call, cause, lost>>

-----------------------------------------------------------------------------
(* Time                                                                    *)

Leave(s) == session' = [session EXCEPT ![s].state = "gone"] /\ UNCHANGED <<stored, call, lost>>

\* Sessions live equally long.
Expire(s) ==
  /\ State(s) \in {"live", "revoked"}
  /\ \A older \in Ids : older < s => State(older) = "gone"
  /\ Leave(s)
  /\ Blame({Family(s)})

\* SessionCleanupService.purgeExpired, one row of its batch: with a retention
\* shorter than JWT_REFRESH_TTL a revoked session goes before it expires.
Purge(s) == State(s) = "revoked" /\ Leave(s) /\ UNCHANGED cause

Requests(t) ==
  \/ SendLogin(t) \/ SendRefresh(t) \/ SendLogout(t)
  \/ RefuseUser(t) \/ ReadRefresh(t) \/ RevokeReused(t) \/ Rotate(t)
  \/ Create(t) \/ List(t) \/ Prune(t)
  \/ ReadLogout(t) \/ RevokeLoggedOut(t)
  \/ Answer(t) \/ Lose(t)

Next ==
  \/ \E t \in Tabs : Requests(t) /\ UNCHANGED latched
  \/ \E t \in Tabs : RefreshNothing(t) \/ Close(t) \/ Open(t)
  \/ Reset /\ UNCHANGED latched
  \/ \E s \in Ids : (Expire(s) \/ Purge(s)) /\ UNCHANGED latched

Spec == Init /\ [][Next]_vars

-----------------------------------------------------------------------------

\* However logins and refreshes overlap (createSession, pruneUserSessions), a
\* user has no more live sessions than the limit, and one for each request that
\* has still to prune or was lost before it did.
SessionsWithinLimit ==
  Cardinality(Live) <=
    MaxActive + Cardinality({t \in Tabs : call[t].step \in {"list", "prune"}}) + lost

\* A family has one session that can be refreshed, present or to come, however
\* logouts, resets, expiry and lost answers interleave with its refreshes,
\* unless two refreshes of the family overlapped (refresh, AuthService).
OneSessionPerFamily ==
  \A f \in Ids : cause[f] # "overlap" =>
    Cardinality(FamilyOf(f) \cap Live)
      + Cardinality({t \in Refreshing(f) : call[t].step = "create"}) <= 1

\* The session of a token that a browser stores is live, unless the family was
\* logged out, reset, over the limit or expired, its user was refused, an answer
\* was lost, or two tabs refreshed at once (refreshTokens of the web client with
\* refresh of AuthService).  Nothing is said of a browser whose tokens were
\* cleared, nor of whether a tab still asks: a latched one does not.
StoredTokensWork ==
  \A b \in Browsers :
    LET f == Family(stored[b])
    IN  f # None /\ cause[f] = "none" /\ Refreshing(f) = {} => State(stored[b]) = "live"
=============================================================================
