-------------------------- MODULE SessionsProofs --------------------------
(***************************************************************************)
(* Proofs about the refresh sessions of one user, for every number of      *)
(* browsers, tabs and sessions: the limit on the live ones, the single     *)
(* session of a family, and the tokens that browsers store.                *)
(***************************************************************************)
EXTENDS Sessions, FiniteSetTheorems, TLAPS

\* The types of what the properties are about: all but latched.
SessionTypes ==
  /\ session \in [Ids -> Row]
  /\ stored \in [Browsers -> Ids \cup {None}]
  /\ call \in [Tabs -> Call]
  /\ cause \in [Ids -> {"none", "overlap", "other"}]
  /\ lost \in 0..MaxLost

\* What a request holds at each of its steps.
CallInv(t) ==
  /\ call[t].kind = "none" => call[t] = NoCall
  /\ call[t].kind = "login" =>
       /\ call[t].step \in {"create", "list", "prune", "ok"}
       /\ Token(t) = None <=> call[t].step = "create"
  /\ call[t].kind = "refresh" =>
       /\ Token(t) # None
       /\ call[t].step \notin {"none", "revoke"}
  /\ call[t].kind = "logout" =>
       /\ Token(t) # None
       /\ call[t].step \in {"read", "revoke", "refused"}

\* The tokens that are stored or sent name sessions that were created.
BaseInv ==
  /\ SessionTypes
  /\ \A s \in Ids : State(s) = "absent" <=> session[s].family = None
  /\ \A s \in Ids : session[s].family # None => State(session[s].family) # "absent"
  /\ \A b \in Browsers : stored[b] # None => State(stored[b]) # "absent"
  /\ \A t \in Tabs : CallInv(t)
  /\ \A t \in Tabs : Token(t) # None => State(Token(t)) # "absent"

-----------------------------------------------------------------------------

\* A family without overlapping refreshes has one request at most, which has
\* revoked the only session before it creates another.
OneInv ==
  \A f \in Ids : cause[f] # "overlap" =>
    /\ \A t, u \in Refreshing(f) : t = u
    /\ \A x, y \in FamilyOf(f) \cap Live : x = y
    /\ \A t \in Refreshing(f) : \A x \in FamilyOf(f) \cap Live :
         /\ call[t].step # "create"
         /\ call[t].step = "rotate" => x = Token(t)

-----------------------------------------------------------------------------

\* The browsers whose user may refresh the family.
Holds(b, f) ==
  \/ Family(stored[b]) = f
  \/ \E t \in Tabs : BrowserOf[t] = b /\ Family(Token(t)) = f

OneBrowser ==
  \A f \in Ids : \A b, c \in Browsers : Holds(b, f) /\ Holds(c, f) => b = c

\* Nobody has the token of a login that was not answered.
LoginInv ==
  \A t \in Tabs : call[t].kind = "login" /\ Token(t) # None =>
    /\ \A b \in Browsers : Family(stored[b]) # Family(Token(t))
    /\ \A u \in Tabs : u # t => Family(Token(u)) # Family(Token(t))

\* A request whose family has no cause succeeds.
Unblamed(t) ==
  Token(t) # None /\ cause[Family(Token(t))] = "none" =>
    /\ call[t].kind # "logout"
    /\ call[t].kind = "refresh" => call[t].waiting /\ call[t].step \notin {"reuse", "refused"}
    /\ call[t].step # "create" => State(Token(t)) = "live"

StoredInv ==
  /\ OneBrowser
  /\ LoginInv
  /\ \A t \in Tabs : Unblamed(t)
  /\ StoredTokensWork

-----------------------------------------------------------------------------

Pruning == {t \in Tabs : call[t].step = "prune"}

Listing == {t \in Tabs : call[t].step \in {"list", "prune"}}

Doomed(T) == UNION {call[t].excess : t \in T}

\* Whichever of the requests about to prune are counted as done already.
LimitInv ==
  \A T \in SUBSET Pruning :
    Cardinality(Live \ Doomed(T)) <= MaxActive + Cardinality(Listing \ T) + lost

-----------------------------------------------------------------------------
(* What the statements do to the sessions, to the calls and to the causes  *)

\* No session is created, and none comes to life again.
RowsKept ==
  /\ session' \in [Ids -> Row]
  /\ \A s \in Ids :
       /\ session'[s].family = session[s].family
       /\ session'[s].state = "absent" <=> session[s].state = "absent"
       /\ session'[s].state = "live" => session[s].state = "live"

CauseKept ==
  /\ cause' \in [Ids -> {"none", "overlap", "other"}]
  /\ \A f \in Ids : cause'[f] = "none" => cause[f] = "none"
  /\ \A f \in Ids : cause'[f] # "overlap" => cause[f] # "overlap"

\* The other tabs wait for what they waited for.
CallsKept(t) ==
  /\ call' \in [Tabs -> Call]
  /\ \A u \in Tabs : u # t => call'[u] = call[u]

\* None is not one of the numbers of sessions.
LEMMA NoneIsNoId == None \notin Ids
BY DEF None, Ids

\* Revoking sessions touches no other row, and leaves none of them live.
LEMMA RevokeEffect ==
  ASSUME SessionTypes, NEW ids, Revoke(ids)
  PROVE  /\ RowsKept
         /\ \A s \in Ids \ ids : session'[s] = session[s]
         /\ \A s \in ids \cap Ids : session'[s].state # "live"
<1>1. session' = [s \in Ids |-> IF s \in ids \cap Live THEN [session[s] EXCEPT !.state = "revoked"]
                                ELSE session[s]]
  BY DEF Revoke
<1>2. ASSUME NEW s \in Ids
      PROVE  /\ session'[s] \in Row
             /\ session'[s].family = session[s].family
             /\ session'[s].state = "absent" <=> session[s].state = "absent"
             /\ session'[s].state = "live" => session[s].state = "live"
             /\ s \notin ids => session'[s] = session[s]
             /\ s \in ids => session'[s].state # "live"
  <2>1. session[s] \in Row
    BY DEF SessionTypes
  <2>2. CASE s \in ids \cap Live
    <3>1. session'[s] = [session[s] EXCEPT !.state = "revoked"] /\ session[s].state = "live"
      BY <1>1, <2>2 DEF Live, State
    <3> QED BY <2>1, <2>2, <3>1 DEF Row
  <2>3. CASE s \notin ids \cap Live
    BY <1>1, <2>1, <2>3 DEF Live, State
  <2> QED BY <2>2, <2>3
<1> QED BY <1>1, <1>2 DEF RowsKept

\* Blaming families gives each of them a cause.
LEMMA BlameEffect ==
  ASSUME SessionTypes, NEW families, Blame(families)
  PROVE  /\ CauseKept
         /\ \A f \in Ids \cap families : cause'[f] # "none"
BY DEF SessionTypes, Blame, CauseKept

\* A step of a request moves it on, and keeps what it came with.
LEMMA StepEffect ==
  ASSUME SessionTypes, NEW t \in Tabs, NEW from, NEW to, Step(t, from, to),
         to \in {"read", "reuse", "rotate", "create", "list", "prune", "revoke", "ok", "refused"}
  PROVE  /\ CallsKept(t)
         /\ call[t].step = from /\ call'[t].step = to
         /\ call'[t].kind = call[t].kind
         /\ call'[t].token = call[t].token
         /\ call'[t].waiting = call[t].waiting
         /\ call'[t].excess = call[t].excess
<1>1. call[t] \in Call
  BY DEF SessionTypes
<1>2. call' = [call EXCEPT ![t] = [call[t] EXCEPT !.step = to]] /\ call[t].step = from
  BY DEF Step
<1>3. [call[t] EXCEPT !.step = to] \in Call
  BY <1>1 DEF Call
<1>4. call'[t] = [call[t] EXCEPT !.step = to]
  BY <1>2 DEF SessionTypes
<1>5. CallsKept(t)
  BY <1>2, <1>3 DEF SessionTypes, CallsKept
<1> QED BY <1>1, <1>2, <1>4, <1>5 DEF Call

\* A tab that sends a request was waiting for nothing.
LEMMA SendEffect ==
  ASSUME SessionTypes, NEW t \in Tabs, NEW kind \in {"login", "refresh", "logout"},
         NEW step \in {"create", "read"}, NEW token \in Ids \cup {None}, Send(t, kind, step, token)
  PROVE  /\ CallsKept(t)
         /\ call[t] = NoCall
         /\ call'[t] = [kind |-> kind, step |-> step, token |-> token,
                        excess |-> {}, waiting |-> TRUE]
BY DEF SessionTypes, Send, CallsKept, Call

-----------------------------------------------------------------------------
(* What every step but Create does                                         *)

\* A browser stores what it stored or what a tab of its own received, and a tab
\* sends what its browser stores.
TokensMove ==
  /\ stored' \in [Browsers -> Ids \cup {None}]
  /\ call' \in [Tabs -> Call]
  /\ \A b \in Browsers :
       \/ stored'[b] \in {None, stored[b]}
       \/ \E t \in Tabs : BrowserOf[t] = b /\ stored'[b] = call[t].token /\ call'[t] = NoCall
  /\ \A t \in Tabs :
       /\ call'[t].token \in {None, call[t].token, stored[BrowserOf[t]]}
       /\ call'[t].kind = "login" /\ call'[t].token # None =>
            call[t].kind = "login" /\ call'[t].token = call[t].token

CallsSound == \A t \in Tabs : CallInv(t)'

Ordinary == RowsKept /\ CauseKept /\ TokensMove /\ CallsSound /\ lost' \in 0..MaxLost

\* No refresh begins, and none comes to the statement that creates a session.
Calm ==
  \A t \in Tabs : call'[t].kind = "refresh" =>
    /\ call[t].kind = "refresh"
    /\ call'[t].token = call[t].token
    /\ call'[t].step \in {"rotate", "create"} => call'[t].step = call[t].step

\* Who ends a session gives its family a cause.
Spared ==
  \A s \in Ids : State(s) = "live" /\ cause'[Family(s)] = "none" => session'[s].state = "live"

\* Rows and causes that stay as they are keep what is asked of them.
LEMMA Untouched ==
  ASSUME SessionTypes
  PROVE  /\ session' = session => RowsKept
         /\ cause' = cause => CauseKept
BY DEF SessionTypes, RowsKept, CauseKept

\* A statement of one request, after which the browser stores what it stored.
LEMMA StatementEffect ==
  ASSUME BaseInv, NEW t \in Tabs, CallsKept(t), stored' = stored,
         call'[t].kind = call[t].kind, call'[t].token = call[t].token,
         CallInv(t)'
  PROVE  TokensMove /\ CallsSound
<1>1. TokensMove
  BY NoneIsNoId DEF BaseInv, SessionTypes, CallsKept, TokensMove
<1>2. ASSUME NEW u \in Tabs, u # t PROVE CallInv(u)'
  BY <1>2 DEF BaseInv, CallsKept, CallInv, Token
<1> QED BY <1>1, <1>2 DEF CallsSound

\* A request comes with the token that its browser stores, or with none to log in.
LEMMA SendEffects ==
  ASSUME BaseInv, NEW t \in Tabs, NEW kind \in {"login", "refresh", "logout"},
         NEW step \in {"create", "read"},
         NEW token \in Ids \cup {None}, token \in {None, stored[BrowserOf[t]]},
         IF kind = "login" THEN token = None /\ step = "create" ELSE token # None /\ step = "read",
         Send(t, kind, step, token)
  PROVE  /\ CallsKept(t) /\ RowsKept /\ TokensMove /\ CallsSound
         /\ call[t] = NoCall
         /\ call'[t].kind = kind /\ call'[t].step = step /\ call'[t].token = token
         /\ call'[t].waiting /\ call'[t].excess = {}
         /\ stored' = stored /\ session' = session /\ lost' = lost
         /\ lost' \in 0..MaxLost
<1>1. SessionTypes
  BY DEF BaseInv
<1>2. /\ CallsKept(t) /\ call[t] = NoCall
      /\ call'[t] = [kind |-> kind, step |-> step, token |-> token,
                     excess |-> {}, waiting |-> TRUE]
  BY <1>1, SendEffect
<1>3. stored' = stored /\ session' = session /\ lost' = lost
  BY DEF Send
<1>4. RowsKept /\ lost' \in 0..MaxLost
  BY <1>1, <1>3, Untouched DEF SessionTypes
<1>5. TokensMove
  BY <1>1, <1>2, <1>3 DEF SessionTypes, CallsKept, TokensMove
<1>6. ASSUME NEW u \in Tabs, u # t PROVE CallInv(u)'
  BY <1>2, <1>6 DEF BaseInv, CallsKept, CallInv, Token
<1>7. CallInv(t)'
  BY <1>2 DEF CallInv, Token
<1> QED BY <1>2, <1>3, <1>4, <1>5, <1>6, <1>7 DEF CallsSound

\* A login starts by creating a session.
LEMMA SendLoginEffects ==
  ASSUME BaseInv, NEW t \in Tabs, SendLogin(t)
  PROVE  /\ Ordinary /\ Calm /\ Spared /\ CallsKept(t) /\ session' = session /\ stored' = stored
         /\ call[t] = NoCall /\ call'[t].token = None /\ call'[t].step = "create"
<1>1. Send(t, "login", "create", None) /\ cause' = cause
  BY DEF SendLogin
<1>2. /\ CallsKept(t) /\ RowsKept /\ TokensMove /\ CallsSound
      /\ call[t] = NoCall /\ call'[t].token = None /\ call'[t].step = "create"
      /\ call'[t].kind = "login" /\ stored' = stored /\ session' = session
      /\ lost' \in 0..MaxLost
  BY <1>1, SendEffects
<1>3. Calm /\ Spared
  BY <1>2 DEF Calm, Spared, CallsKept, State
<1> QED BY <1>1, <1>2, <1>3, Untouched DEF BaseInv, Ordinary

\* A logout blames the family of the token it comes with.
LEMMA SendLogoutEffects ==
  ASSUME BaseInv, NEW t \in Tabs, SendLogout(t)
  PROVE  /\ Ordinary /\ Calm /\ Spared /\ CallsKept(t) /\ session' = session /\ stored' = stored
         /\ cause'[Family(call'[t].token)] # "none"
         /\ call[t] = NoCall /\ call'[t].kind = "logout" /\ call'[t].step = "read"
<1>0. SessionTypes /\ BrowserOf[t] \in Browsers
  BY SessionsAssumption DEF BaseInv
<1> DEFINE token == stored[BrowserOf[t]]
<1>1. Send(t, "logout", "read", token) /\ token # None /\ Blame({Family(token)})
  BY DEF SendLogout
<1>2. token \in Ids
  BY <1>0, <1>1 DEF SessionTypes
<1>3. Family(token) \in Ids
  BY <1>0, <1>1, <1>2 DEF BaseInv, SessionTypes, Family, State, Row
<1> HIDE DEF token
<1>4. token = stored[BrowserOf[t]]
  BY DEF token
<1>5. /\ CallsKept(t) /\ RowsKept /\ TokensMove /\ CallsSound
      /\ call'[t].kind = "logout" /\ call'[t].token = token
      /\ call[t] = NoCall /\ call'[t].step = "read"
      /\ stored' = stored /\ session' = session
      /\ lost' \in 0..MaxLost
  BY <1>1, <1>2, <1>4, SendEffects
<1>6. Calm /\ Spared
  BY <1>5 DEF Calm, Spared, CallsKept, State
<1>7. CauseKept /\ cause'[Family(token)] # "none"
  BY <1>0, <1>1, <1>3, BlameEffect
<1> QED BY <1>5, <1>6, <1>7 DEF Ordinary

\* A refresh that meets another of its family makes it overlap.
LEMMA SendRefreshEffects ==
  ASSUME BaseInv, NEW t \in Tabs, SendRefresh(t)
  PROVE  /\ Ordinary /\ Spared /\ CallsKept(t) /\ session' = session /\ stored' = stored
         /\ call[t] = NoCall
         /\ call'[t].kind = "refresh" /\ call'[t].step = "read" /\ call'[t].waiting
         /\ call'[t].token = stored[BrowserOf[t]]
         /\ call'[t].token \in Ids /\ Family(call'[t].token) \in Ids
         /\ cause'[Family(call'[t].token)] # "overlap" => Refreshing(Family(call'[t].token)) = {}
         /\ cause'[Family(call'[t].token)] = "none" => Refreshing(Family(call'[t].token)) = {}
<1>0. SessionTypes /\ BrowserOf[t] \in Browsers
  BY SessionsAssumption DEF BaseInv
<1> DEFINE token == stored[BrowserOf[t]]
<1>1. /\ Send(t, "refresh", "read", token) /\ token # None
      /\ IF Refreshing(Family(token)) # {} THEN cause' = [cause EXCEPT ![Family(token)] = "overlap"]
         ELSE UNCHANGED cause
  BY DEF SendRefresh
<1>2. token \in Ids
  BY <1>0, <1>1 DEF SessionTypes
<1>3. Family(token) \in Ids
  BY <1>0, <1>1, <1>2 DEF BaseInv, SessionTypes, Family, State, Row
<1> HIDE DEF token
<1>4. token = stored[BrowserOf[t]]
  BY DEF token
<1>5. /\ CallsKept(t) /\ RowsKept /\ TokensMove /\ CallsSound
      /\ call[t] = NoCall
      /\ call'[t].kind = "refresh" /\ call'[t].step = "read" /\ call'[t].waiting
      /\ call'[t].token = token
      /\ stored' = stored /\ session' = session
      /\ lost' \in 0..MaxLost
  BY <1>1, <1>2, <1>4, SendEffects
<1>6. Spared
  BY <1>5 DEF Spared, State
<1>7. CauseKept /\ (cause'[Family(token)] # "overlap" => Refreshing(Family(token)) = {})
  BY <1>0, <1>1, <1>3 DEF SessionTypes, CauseKept
<1> QED BY <1>2, <1>3, <1>4, <1>5, <1>6, <1>7 DEF Ordinary

\* A refresh goes on only if its session was live when it read it.
LEMMA ReadRefreshEffects ==
  ASSUME BaseInv, NEW t \in Tabs, ReadRefresh(t)
  PROVE  /\ Ordinary /\ Spared /\ CallsKept(t) /\ session' = session /\ stored' = stored /\ cause' = cause
         /\ call[t].kind = "refresh" /\ call[t].step = "read"
         /\ call'[t].kind = "refresh" /\ call'[t].token = call[t].token
         /\ call'[t].waiting = call[t].waiting
         /\ \/ call'[t].step = "rotate" /\ State(Token(t)) = "live"
            \/ call'[t].step \in {"reuse", "refused"} /\ State(Token(t)) # "live"
<1>0. SessionTypes
  BY DEF BaseInv
<1> DEFINE Found(state, to) == State(Token(t)) = state /\ Step(t, "read", to)
<1>1. /\ call[t].kind = "refresh" /\ session' = session /\ cause' = cause
      /\ Found("live", "rotate") \/ Found("revoked", "reuse") \/ Found("gone", "refused")
  BY DEF ReadRefresh
<1>2. stored' = stored /\ lost' = lost
  BY <1>1 DEF Step
<1>3. /\ CallsKept(t) /\ call[t].step = "read"
      /\ call'[t].kind = call[t].kind /\ call'[t].token = call[t].token
      /\ call'[t].waiting = call[t].waiting
      /\ \/ call'[t].step = "rotate" /\ State(Token(t)) = "live"
         \/ call'[t].step \in {"reuse", "refused"} /\ State(Token(t)) # "live"
  <2>1. CASE Found("live", "rotate")
    BY <1>0, <2>1, StepEffect
  <2>2. CASE Found("revoked", "reuse")
    BY <1>0, <2>2, StepEffect
  <2>3. CASE Found("gone", "refused")
    BY <1>0, <2>3, StepEffect
  <2> QED BY <1>1, <2>1, <2>2, <2>3
<1>4. CallInv(t)'
  BY <1>1, <1>3 DEF BaseInv, CallInv, Token
<1>5. TokensMove /\ CallsSound
  BY <1>2, <1>3, <1>4, StatementEffect
<1>6. RowsKept /\ CauseKept /\ lost' \in 0..MaxLost
  BY <1>0, <1>1, <1>2, Untouched DEF SessionTypes
<1>7. Spared
  BY <1>1 DEF Spared, State
<1> QED BY <1>1, <1>2, <1>3, <1>5, <1>6, <1>7 DEF Ordinary

\* A refused user's session stays as it is, and its family has a cause.
LEMMA RefuseUserEffects ==
  ASSUME BaseInv, NEW t \in Tabs, RefuseUser(t)
  PROVE  /\ Ordinary /\ Calm /\ Spared /\ CallsKept(t) /\ session' = session /\ stored' = stored
         /\ call[t].step = "read" /\ call'[t].step = "refused"
         /\ call'[t].kind = call[t].kind /\ call'[t].token = call[t].token
         /\ Family(Token(t)) \in Ids => cause'[Family(Token(t))] # "none"
<1>0. SessionTypes /\ CallInv(t)
  BY DEF BaseInv
<1>1. /\ call[t].kind = "refresh" /\ Step(t, "read", "refused")
      /\ Blame({Family(Token(t))}) /\ session' = session /\ stored' = stored /\ lost' = lost
  BY DEF RefuseUser, Step
<1>2. /\ CallsKept(t) /\ call[t].step = "read" /\ call'[t].step = "refused"
      /\ call'[t].kind = call[t].kind /\ call'[t].token = call[t].token
  BY <1>0, <1>1, StepEffect
<1>3. CallInv(t)'
  BY <1>0, <1>1, <1>2 DEF CallInv, Token
<1>4. TokensMove /\ CallsSound
  BY <1>1, <1>2, <1>3, StatementEffect
<1>5. RowsKept /\ lost' \in 0..MaxLost
  BY <1>0, <1>1, Untouched DEF SessionTypes
<1>6. CauseKept /\ (Family(Token(t)) \in Ids => cause'[Family(Token(t))] # "none")
  BY <1>0, <1>1, BlameEffect
<1>7. Calm /\ Spared
  BY <1>1, <1>2 DEF Calm, CallsKept, Spared, State
<1> QED BY <1>1, <1>2, <1>4, <1>5, <1>6, <1>7 DEF Ordinary

\* The rotation revokes the session of the token, and nothing else.
LEMMA RotateEffects ==
  ASSUME BaseInv, NEW t \in Tabs, Rotate(t)
  PROVE  /\ Ordinary /\ CallsKept(t) /\ stored' = stored /\ cause' = cause
         /\ call[t].kind = "refresh" /\ call[t].step = "rotate"
         /\ call'[t].kind = "refresh" /\ call'[t].step = "create" /\ call'[t].token = call[t].token
         /\ call'[t].waiting = call[t].waiting
         /\ \A s \in Ids : s # Token(t) => session'[s] = session[s]
         /\ session'[Token(t)].state # "live"
<1>0. SessionTypes /\ CallInv(t)
  BY DEF BaseInv
<1>1. Step(t, "rotate", "create") /\ Revoke({Token(t)}) /\ cause' = cause
  BY DEF Rotate, SavesRevoked
<1>2. stored' = stored /\ lost' = lost
  BY <1>1 DEF Step
<1>3. /\ CallsKept(t) /\ call[t].step = "rotate" /\ call'[t].step = "create"
      /\ call'[t].kind = call[t].kind /\ call'[t].token = call[t].token
      /\ call'[t].waiting = call[t].waiting
  BY <1>0, <1>1, StepEffect
<1>4. call[t].kind = "refresh" /\ Token(t) \in Ids
  BY <1>0, <1>3 DEF SessionTypes, Call, CallInv, Token, NoCall
<1>5. /\ RowsKept /\ session'[Token(t)].state # "live"
      /\ \A s \in Ids : s # Token(t) => session'[s] = session[s]
  BY <1>0, <1>1, <1>4, RevokeEffect
<1>6. CallInv(t)'
  BY <1>0, <1>3, <1>4 DEF CallInv, Token
<1>7. TokensMove /\ CallsSound
  BY <1>2, <1>3, <1>6, StatementEffect
<1>8. CauseKept /\ lost' \in 0..MaxLost
  BY <1>0, <1>1, <1>2, Untouched DEF SessionTypes
<1> QED BY <1>1, <1>2, <1>3, <1>4, <1>5, <1>7, <1>8 DEF Ordinary

\* The statements that revoke a family.
LEMMA RevokeFamilyEffects ==
  ASSUME BaseInv, NEW t \in Tabs, NEW from \in {"reuse", "revoke"}, Step(t, from, "refused"),
         Revoke(FamilyOf(Family(Token(t)))), cause' = cause
  PROVE  /\ Ordinary /\ Calm /\ CallsKept(t) /\ stored' = stored
         /\ call[t].step = from /\ call'[t].step = "refused"
         /\ call'[t].kind = call[t].kind /\ call'[t].token = call[t].token
         /\ \A s \in Ids : Family(s) # Family(Token(t)) => session'[s] = session[s]
<1>0. SessionTypes /\ CallInv(t)
  BY DEF BaseInv
<1>2. stored' = stored /\ lost' = lost
  BY DEF Step
<1>3. /\ CallsKept(t) /\ call[t].step = from /\ call'[t].step = "refused"
      /\ call'[t].kind = call[t].kind /\ call'[t].token = call[t].token
  BY <1>0, StepEffect
<1>4. call[t].kind \in {"refresh", "logout"}
  BY <1>0, <1>3 DEF SessionTypes, Call, CallInv, NoCall
<1>5. RowsKept /\ \A s \in Ids : Family(s) # Family(Token(t)) => session'[s] = session[s]
  BY <1>0, RevokeEffect DEF FamilyOf
<1>6. CallInv(t)'
  BY <1>0, <1>3, <1>4 DEF CallInv, Token
<1>7. TokensMove /\ CallsSound
  BY <1>2, <1>3, <1>6, StatementEffect
<1>8. CauseKept /\ lost' \in 0..MaxLost
  BY <1>0, <1>2, Untouched DEF SessionTypes
<1>9. Calm
  BY <1>3 DEF Calm, CallsKept
<1> QED BY <1>2, <1>3, <1>5, <1>7, <1>8, <1>9 DEF Ordinary

\* The list of sessions to prune is read without changing any.
LEMMA ListEffects ==
  ASSUME BaseInv, NEW t \in Tabs, List(t)
  PROVE  /\ Ordinary /\ Calm /\ Spared /\ CallsKept(t)
         /\ session' = session /\ stored' = stored /\ cause' = cause /\ lost' = lost
         /\ call[t].step = "list" /\ call'[t].step = "prune" /\ call'[t].excess = Excess
         /\ call'[t].kind = call[t].kind /\ call'[t].token = call[t].token
         /\ call'[t].waiting = call[t].waiting
<1>0. SessionTypes /\ CallInv(t) /\ call[t] \in Call
  BY DEF BaseInv, SessionTypes
<1> DEFINE after == [call[t] EXCEPT !.step = "prune", !.excess = Excess]
<1>1. /\ call' = [call EXCEPT ![t] = after] /\ call[t].step = "list"
      /\ session' = session /\ stored' = stored /\ cause' = cause /\ lost' = lost
  BY DEF List
<1>2. /\ after \in Call /\ after.step = "prune" /\ after.excess = Excess
      /\ after.kind = call[t].kind /\ after.token = call[t].token /\ after.waiting = call[t].waiting
  BY <1>0 DEF Call, Excess, Live
<1> HIDE DEF after
<1>3. CallsKept(t) /\ call'[t] = after
  BY <1>0, <1>1, <1>2 DEF SessionTypes, CallsKept
<1>4. call[t].kind \in {"login", "refresh"}
  BY <1>0, <1>1 DEF Call, CallInv, NoCall
<1>5. CallInv(t)'
  BY <1>0, <1>1, <1>2, <1>3, <1>4 DEF CallInv, Token
<1>6. TokensMove /\ CallsSound
  BY <1>1, <1>2, <1>3, <1>5, StatementEffect
<1>7. RowsKept /\ CauseKept /\ lost' \in 0..MaxLost
  BY <1>0, <1>1, Untouched DEF SessionTypes
<1>8. Calm /\ Spared
  BY <1>1, <1>2, <1>3 DEF Calm, CallsKept, Spared, State
<1> QED BY <1>1, <1>2, <1>3, <1>6, <1>7, <1>8 DEF Ordinary

\* Pruning leaves none of the listed sessions live.
LEMMA PruneEffects ==
  ASSUME BaseInv, NEW t \in Tabs, Prune(t)
  PROVE  /\ Ordinary /\ Calm /\ Spared /\ CallsKept(t) /\ stored' = stored /\ lost' = lost
         /\ call[t].step = "prune" /\ call'[t].step = "ok" /\ call'[t].excess = {}
         /\ call'[t].kind = call[t].kind /\ call'[t].token = call[t].token
         /\ call'[t].waiting = call[t].waiting
         /\ \A s \in Ids \cap call[t].excess : session'[s].state # "live"
<1>0. SessionTypes /\ CallInv(t) /\ call[t] \in Call
  BY DEF BaseInv, SessionTypes
<1> DEFINE after == [call[t] EXCEPT !.step = "ok", !.excess = {}]
<1>1. /\ call' = [call EXCEPT ![t] = after] /\ call[t].step = "prune"
      /\ Revoke(call[t].excess) /\ Blame({Family(s) : s \in call[t].excess})
      /\ stored' = stored /\ lost' = lost
  BY DEF Prune
<1>2. /\ after \in Call /\ after.step = "ok" /\ after.excess = {}
      /\ after.kind = call[t].kind /\ after.token = call[t].token /\ after.waiting = call[t].waiting
  BY <1>0 DEF Call
<1> HIDE DEF after
<1>3. CallsKept(t) /\ call'[t] = after
  BY <1>0, <1>1, <1>2 DEF SessionTypes, CallsKept
<1>4. call[t].kind \in {"login", "refresh"}
  BY <1>0, <1>1 DEF Call, CallInv, NoCall
<1>5. CallInv(t)'
  BY <1>0, <1>1, <1>2, <1>3, <1>4 DEF CallInv, Token
<1>6. TokensMove /\ CallsSound
  BY <1>1, <1>2, <1>3, <1>5, StatementEffect
<1>7. /\ RowsKept /\ \A s \in Ids \cap call[t].excess : session'[s].state # "live"
      /\ \A s \in Ids \ call[t].excess : session'[s] = session[s]
  BY <1>0, <1>1, RevokeEffect
<1>8. CauseKept /\ \A s \in call[t].excess : Family(s) \in Ids => cause'[Family(s)] # "none"
  BY <1>0, <1>1, BlameEffect
<1>9. Calm
  BY <1>2, <1>3 DEF Calm, CallsKept
<1>10. Spared
  BY <1>0, <1>7, <1>8, NoneIsNoId DEF Spared, BaseInv, SessionTypes, Row, Family, State
<1>11. lost' \in 0..MaxLost
  BY <1>0, <1>1 DEF SessionTypes
<1> QED BY <1>1, <1>2, <1>3, <1>6, <1>7, <1>8, <1>9, <1>10, <1>11 DEF Ordinary

\* A logout reads its session without changing it.
LEMMA ReadLogoutEffects ==
  ASSUME BaseInv, NEW t \in Tabs, ReadLogout(t)
  PROVE  /\ Ordinary /\ Calm /\ Spared /\ CallsKept(t)
         /\ session' = session /\ stored' = stored /\ cause' = cause
         /\ call[t].kind = "logout" /\ call'[t].kind = "logout"
         /\ call'[t].token = call[t].token
         /\ call[t].step = "read" /\ call'[t].step \in {"revoke", "refused"}
<1>0. SessionTypes /\ CallInv(t)
  BY DEF BaseInv
<1> DEFINE to == IF State(Token(t)) = "live" THEN "revoke" ELSE "refused"
<1>1. call[t].kind = "logout" /\ Step(t, "read", to) /\ session' = session /\ cause' = cause
  BY DEF ReadLogout
<1>2. stored' = stored /\ lost' = lost
  BY <1>1 DEF Step
<1>3. to \in {"revoke", "refused"}
  OBVIOUS
<1> HIDE DEF to
<1>4. /\ CallsKept(t) /\ call[t].step = "read" /\ call'[t].step = to
      /\ call'[t].kind = call[t].kind /\ call'[t].token = call[t].token
  BY <1>0, <1>1, <1>3, StepEffect
<1>5. CallInv(t)'
  BY <1>0, <1>1, <1>3, <1>4 DEF CallInv, Token
<1>6. TokensMove /\ CallsSound
  BY <1>2, <1>4, <1>5, StatementEffect
<1>7. RowsKept /\ CauseKept /\ lost' \in 0..MaxLost
  BY <1>0, <1>1, <1>2, Untouched DEF SessionTypes
<1>8. Calm /\ Spared
  BY <1>1, <1>3, <1>4 DEF Calm, CallsKept, Spared, State
<1> QED BY <1>1, <1>2, <1>3, <1>4, <1>6, <1>7, <1>8 DEF Ordinary

\* A password reset revokes sessions and blames their families.
LEMMA ResetEffects ==
  ASSUME BaseInv, Reset
  PROVE  Ordinary /\ Calm /\ Spared /\ stored' = stored /\ call' = call /\ lost' = lost
<1>0. SessionTypes
  BY DEF BaseInv
<1>1. Revoke(Ids) /\ Blame({Family(s) : s \in Live}) /\ stored' = stored /\ call' = call /\ lost' = lost
  BY DEF Reset
<1>2. RowsKept
  BY <1>0, <1>1, RevokeEffect
<1>3. CauseKept /\ \A s \in Live : Family(s) \in Ids => cause'[Family(s)] # "none"
  BY <1>0, <1>1, BlameEffect
<1>4. TokensMove /\ CallsSound
  BY <1>0, <1>1 DEF BaseInv, SessionTypes, TokensMove, CallsSound, CallInv, Token
<1>5. Spared
  BY <1>0, <1>3, NoneIsNoId DEF Spared, BaseInv, SessionTypes, Row, Family, State, Live
<1>6. Calm /\ lost' \in 0..MaxLost
  BY <1>0, <1>1 DEF Calm, SessionTypes
<1> QED BY <1>1, <1>2, <1>3, <1>4, <1>5, <1>6 DEF Ordinary

\* A request that is over leaves its tab without a call.
LEMMA OverEffect ==
  ASSUME BaseInv, NEW t \in Tabs, call' = [call EXCEPT ![t] = NoCall]
  PROVE  /\ CallsKept(t) /\ call'[t] = NoCall /\ CallsSound /\ Calm
         /\ \A u \in Tabs : call'[u].token \in {None, call[u].token}
         /\ \A u \in Tabs : call'[u].kind = "login" => call'[u] = call[u]
<1>1. NoCall \in Call
  BY DEF NoCall, Call
<1>2. CallsKept(t) /\ call'[t] = NoCall
  BY <1>1 DEF BaseInv, SessionTypes, CallsKept
<1>3. NoCall.kind = "none" /\ NoCall.token = None
  BY DEF NoCall
<1>4. ASSUME NEW u \in Tabs PROVE CallInv(u)'
  BY <1>2, <1>3 DEF BaseInv, CallsKept, CallInv, Token
<1> QED BY <1>2, <1>3, <1>4 DEF CallsSound, Calm, CallsKept

\* An answer gives the browser its new token or takes the old one away.
LEMMA AnswerEffects ==
  ASSUME BaseInv, NEW t \in Tabs, Answer(t)
  PROVE  /\ Ordinary /\ Calm /\ Spared /\ CallsKept(t) /\ call'[t] = NoCall
         /\ call[t].step \in {"ok", "refused"}
         /\ session' = session /\ cause' = cause
         /\ stored' = IF call[t].waiting
                      THEN [stored EXCEPT ![BrowserOf[t]] = IF call[t].step = "ok" THEN Token(t) ELSE None]
                      ELSE stored
<1>0. SessionTypes /\ BrowserOf[t] \in Browsers
  BY SessionsAssumption DEF BaseInv
<1>1. /\ call[t].step \in {"ok", "refused"}
      /\ call' = [call EXCEPT ![t] = NoCall]
      /\ stored' = IF call[t].waiting
                   THEN [stored EXCEPT ![BrowserOf[t]] = IF call[t].step = "ok" THEN Token(t) ELSE None]
                   ELSE stored
      /\ session' = session /\ cause' = cause /\ lost' = lost
  BY DEF Answer
<1>2. /\ CallsKept(t) /\ call'[t] = NoCall /\ CallsSound /\ Calm
      /\ \A u \in Tabs : call'[u].token \in {None, call[u].token}
      /\ \A u \in Tabs : call'[u].kind = "login" => call'[u] = call[u]
  BY <1>1, OverEffect
<1>3. Token(t) \in Ids \cup {None}
  BY <1>0 DEF SessionTypes, Call, Token
<1>4. TokensMove
  <2>1. stored' \in [Browsers -> Ids \cup {None}]
    BY <1>0, <1>1, <1>3 DEF SessionTypes
  <2>2. ASSUME NEW b \in Browsers
        PROVE  \/ stored'[b] \in {None, stored[b]}
               \/ BrowserOf[t] = b /\ stored'[b] = call[t].token
    BY <1>0, <1>1 DEF SessionTypes, Token
  <2> QED BY <1>2, <2>1, <2>2 DEF TokensMove, CallsKept
<1>5. RowsKept /\ CauseKept /\ lost' \in 0..MaxLost
  BY <1>0, <1>1, Untouched DEF SessionTypes
<1>6. Spared
  BY <1>1 DEF Spared, State
<1> QED BY <1>1, <1>2, <1>4, <1>5, <1>6 DEF Ordinary

\* A lost request blames the family of its token, and may clear the browser's.
LEMMA LoseEffects ==
  ASSUME BaseInv, NEW t \in Tabs, Lose(t)
  PROVE  /\ Ordinary /\ Calm /\ Spared /\ CallsKept(t) /\ call'[t] = NoCall
         /\ session' = session /\ lost' = lost + 1
         /\ \A b \in Browsers : stored'[b] \in {None, stored[b]}
         /\ Family(Token(t)) \in Ids => cause'[Family(Token(t))] # "none"
<1>0. SessionTypes /\ BrowserOf[t] \in Browsers
  BY SessionsAssumption DEF BaseInv
<1>1. /\ lost < MaxLost /\ lost' = lost + 1
      /\ call' = [call EXCEPT ![t] = NoCall]
      /\ stored' = IF call[t].waiting /\ call[t].kind # "login"
                   THEN [stored EXCEPT ![BrowserOf[t]] = None] ELSE stored
      /\ Blame({Family(Token(t))}) /\ session' = session
  BY DEF Lose
<1>2. /\ CallsKept(t) /\ call'[t] = NoCall /\ CallsSound /\ Calm
      /\ \A u \in Tabs : call'[u].token \in {None, call[u].token}
      /\ \A u \in Tabs : call'[u].kind = "login" => call'[u] = call[u]
  BY <1>1, OverEffect
<1>3. /\ stored' \in [Browsers -> Ids \cup {None}]
      /\ \A b \in Browsers : stored'[b] \in {None, stored[b]}
  BY <1>0, <1>1 DEF SessionTypes
<1>4. TokensMove
  BY <1>2, <1>3 DEF TokensMove, CallsKept
<1>5. RowsKept /\ lost' \in 0..MaxLost
  BY <1>0, <1>1, Untouched, SessionsAssumption DEF SessionTypes
<1>6. CauseKept /\ (Family(Token(t)) \in Ids => cause'[Family(Token(t))] # "none")
  BY <1>0, <1>1, BlameEffect
<1>7. Spared
  BY <1>1 DEF Spared, State
<1> QED BY <1>1, <1>2, <1>3, <1>4, <1>5, <1>6, <1>7 DEF Ordinary

\* A closed tab's request goes on, and nobody waits for it.
LEMMA CloseEffects ==
  ASSUME BaseInv, NEW t \in Tabs, Close(t)
  PROVE  /\ Ordinary /\ Calm /\ Spared /\ CallsKept(t)
         /\ session' = session /\ stored' = stored /\ lost' = lost + 1
         /\ call'[t].kind = call[t].kind /\ call'[t].token = call[t].token
         /\ call'[t].step = call[t].step /\ call'[t].excess = call[t].excess
         /\ Family(Token(t)) \in Ids => cause'[Family(Token(t))] # "none"
<1>0. SessionTypes /\ CallInv(t) /\ call[t] \in Call
  BY DEF BaseInv, SessionTypes
<1> DEFINE after == [call[t] EXCEPT !.waiting = FALSE]
<1>1. /\ call[t].waiting /\ lost < MaxLost /\ lost' = lost + 1
      /\ call' = [call EXCEPT ![t] = after]
      /\ Blame({Family(Token(t))}) /\ session' = session /\ stored' = stored
  BY DEF Close
<1>2. /\ after \in Call /\ after.step = call[t].step /\ after.excess = call[t].excess
      /\ after.kind = call[t].kind /\ after.token = call[t].token
  BY <1>0 DEF Call
<1> HIDE DEF after
<1>3. CallsKept(t) /\ call'[t] = after
  BY <1>0, <1>1, <1>2 DEF SessionTypes, CallsKept
<1>4. call[t].kind # "none"
  BY <1>0, <1>1 DEF CallInv, NoCall
<1>5. CallInv(t)'
  BY <1>0, <1>2, <1>3, <1>4 DEF CallInv, Token
<1>6. TokensMove /\ CallsSound
  BY <1>1, <1>2, <1>3, <1>5, StatementEffect
<1>7. RowsKept /\ lost' \in 0..MaxLost
  BY <1>0, <1>1, Untouched, SessionsAssumption DEF SessionTypes
<1>8. CauseKept /\ (Family(Token(t)) \in Ids => cause'[Family(Token(t))] # "none")
  BY <1>0, <1>1, BlameEffect
<1>9. Calm /\ Spared
  BY <1>1, <1>2, <1>3 DEF Calm, CallsKept, Spared, State
<1> QED BY <1>1, <1>2, <1>3, <1>6, <1>7, <1>8, <1>9 DEF Ordinary

\* A tab that opens changes no more than that its browser forgets its token.
LEMMA OpenEffects ==
  ASSUME BaseInv, NEW t \in Tabs, Open(t)
  PROVE  /\ Ordinary /\ Calm /\ Spared /\ call' = call /\ session' = session /\ lost' = lost
         /\ \A b \in Browsers : stored'[b] \in {None, stored[b]}
<1>0. SessionTypes /\ BrowserOf[t] \in Browsers
  BY SessionsAssumption DEF BaseInv
<1>1. /\ stored' = stored \/ stored' = [stored EXCEPT ![BrowserOf[t]] = None]
      /\ session' = session /\ call' = call /\ cause' = cause /\ lost' = lost
  BY DEF Open
<1>2. /\ stored' \in [Browsers -> Ids \cup {None}]
      /\ \A b \in Browsers : stored'[b] \in {None, stored[b]}
  BY <1>0, <1>1 DEF SessionTypes
<1>3. TokensMove /\ CallsSound
  BY <1>0, <1>1, <1>2 DEF BaseInv, SessionTypes, TokensMove, CallsSound, CallInv, Token
<1>4. RowsKept /\ CauseKept /\ lost' \in 0..MaxLost
  BY <1>0, <1>1, Untouched DEF SessionTypes
<1>5. Calm /\ Spared
  BY <1>1 DEF Calm, Spared, State
<1> QED BY <1>1, <1>2, <1>3, <1>4, <1>5 DEF Ordinary

\* A session that expires, or is purged after it was revoked.
LEMMA LeaveEffects ==
  ASSUME BaseInv, NEW s \in Ids, Expire(s) \/ Purge(s)
  PROVE  Ordinary /\ Calm /\ Spared /\ call' = call /\ stored' = stored /\ lost' = lost
<1>0. SessionTypes /\ session[s] \in Row
  BY DEF BaseInv, SessionTypes
<1> DEFINE after == [session[s] EXCEPT !.state = "gone"]
<1>1. /\ session' = [session EXCEPT ![s] = after]
      /\ stored' = stored /\ call' = call /\ lost' = lost
      /\ State(s) \in {"live", "revoked"}
  BY DEF Expire, Purge, Leave
<1>2. after \in Row /\ after.state = "gone" /\ after.family = session[s].family
  BY <1>0 DEF Row
<1> HIDE DEF after
<1>3. RowsKept /\ \A other \in Ids : other # s => session'[other] = session[other]
  BY <1>0, <1>1, <1>2 DEF SessionTypes, RowsKept, State
<1>4. TokensMove /\ CallsSound
  BY <1>0, <1>1 DEF BaseInv, SessionTypes, TokensMove, CallsSound, CallInv, Token
<1>5. Calm /\ lost' \in 0..MaxLost
  BY <1>0, <1>1 DEF Calm, SessionTypes
<1>6. CauseKept /\ Spared
  <2>1. CASE Expire(s)
    <3>1. CauseKept /\ (Family(s) \in Ids => cause'[Family(s)] # "none")
      BY <1>0, <2>1, BlameEffect DEF Expire
    <3>2. Family(s) \in Ids
      BY <1>0, <1>1, NoneIsNoId DEF BaseInv, Family, State, Row
    <3> QED BY <1>3, <3>1, <3>2 DEF Spared, State
  <2>2. CASE Purge(s)
    BY <1>0, <1>3, <2>2, Untouched DEF Purge, Spared, State
  <2> QED BY <2>1, <2>2
<1> QED BY <1>1, <1>3, <1>4, <1>5, <1>6 DEF Ordinary

\* Where nothing changes, all of that holds.
LEMMA StutterEffects ==
  ASSUME BaseInv, UNCHANGED <<session, stored, call, cause, lost>>
  PROVE  /\ Ordinary /\ Calm /\ Spared
         /\ session' = session /\ stored' = stored /\ call' = call /\ lost' = lost
<1>1. session' = session /\ stored' = stored /\ call' = call /\ cause' = cause /\ lost' = lost
  OBVIOUS
<1>2. TokensMove /\ CallsSound
  BY <1>1 DEF BaseInv, SessionTypes, TokensMove, CallsSound, CallInv, Token
<1>3. RowsKept /\ CauseKept /\ lost' \in 0..MaxLost
  BY <1>1, Untouched DEF BaseInv, SessionTypes
<1>4. Calm /\ Spared
  BY <1>1 DEF Calm, Spared, State
<1> QED BY <1>1, <1>2, <1>3, <1>4 DEF Ordinary

-----------------------------------------------------------------------------
(* The sessions and the tokens keep their types                            *)

\* Tokens that are stored or sent belong to families that exist.
LEMMA FamilyType ==
  ASSUME BaseInv
  PROVE  /\ \A s \in Ids : State(s) # "absent" <=> Family(s) \in Ids
         /\ \A s \in Ids : State(s) = "absent" => Family(s) = None
         /\ \A t \in Tabs : Token(t) \in Ids \cup {None}
         /\ \A t \in Tabs : Token(t) # None <=> Family(Token(t)) \in Ids
         /\ \A b \in Browsers : stored[b] # None <=> Family(stored[b]) \in Ids
         /\ Family(None) = None
<1>1. \A s \in Ids : /\ State(s) # "absent" <=> Family(s) \in Ids
                     /\ State(s) = "absent" => Family(s) = None
  BY NoneIsNoId DEF BaseInv, SessionTypes, Row, Family, State
<1>2. \A t \in Tabs : Token(t) \in Ids \cup {None}
  BY DEF BaseInv, SessionTypes, Call, Token
<1>3. Family(None) = None
  BY DEF Family
<1>4. \A b \in Browsers : stored[b] \in Ids \cup {None}
  BY DEF BaseInv, SessionTypes
<1>5. \A t \in Tabs : Token(t) # None => State(Token(t)) # "absent"
  BY DEF BaseInv
<1>6. \A b \in Browsers : stored[b] # None => State(stored[b]) # "absent"
  BY DEF BaseInv
<1> QED BY <1>1, <1>2, <1>3, <1>4, <1>5, <1>6, NoneIsNoId

\* A session never changes its family.
LEMMA FamilyKept ==
  ASSUME RowsKept
  PROVE  \A s \in Ids \cup {None} : Family(s)' = Family(s)
BY DEF RowsKept, Family

\* Steps that create no session keep the base of the invariant.
LEMMA OrdinaryBase ==
  ASSUME BaseInv, Ordinary
  PROVE  BaseInv'
<1>1. SessionTypes'
  BY DEF Ordinary, RowsKept, CauseKept, TokensMove, SessionTypes
<1>2. ASSUME NEW s \in Ids PROVE (State(s) = "absent" <=> session[s].family = None)'
  BY DEF Ordinary, RowsKept, BaseInv, State
<1>3. ASSUME NEW token \in Ids, State(token) # "absent" PROVE State(token)' # "absent"
  BY <1>3 DEF Ordinary, RowsKept, State
<1>7. ASSUME NEW s \in Ids, session'[s].family # None PROVE State(session[s].family)' # "absent"
  <2>1. session'[s].family = session[s].family /\ session[s].family \in Ids \cup {None}
    BY DEF Ordinary, RowsKept, BaseInv, SessionTypes, Row
  <2> QED BY <1>3, <1>7, <2>1 DEF BaseInv
<1>4. ASSUME NEW b \in Browsers, stored'[b] # None PROVE State(stored[b])' # "absent"
  <2>1. CASE stored'[b] \in {None, stored[b]}
    BY <1>3, <1>4, <2>1 DEF BaseInv, SessionTypes
  <2>2. CASE \E t \in Tabs : BrowserOf[t] = b /\ stored'[b] = call[t].token /\ call'[t] = NoCall
    <3>1. PICK t \in Tabs : stored'[b] = Token(t)
      BY <2>2 DEF Token
    <3> QED BY <1>3, <1>4, <3>1 DEF BaseInv, SessionTypes, Call, Token
  <2> QED BY <2>1, <2>2 DEF Ordinary, TokensMove
<1>5. ASSUME NEW t \in Tabs, call'[t].token # None PROVE State(Token(t))' # "absent"
  <2>1. BrowserOf[t] \in Browsers
    BY SessionsAssumption
  <2>2. call'[t].token \in {call[t].token, stored[BrowserOf[t]]}
    BY <1>5 DEF Ordinary, TokensMove
  <2>3. State(call'[t].token) # "absent" /\ call'[t].token \in Ids
    BY <1>5, <2>1, <2>2 DEF BaseInv, SessionTypes, Call, Token
  <2> QED BY <1>3, <2>3 DEF Token
<1>6. \A t \in Tabs : CallInv(t)'
  BY DEF Ordinary, CallsSound
<1> QED BY <1>1, <1>2, <1>4, <1>5, <1>6, <1>7 DEF BaseInv, Token

\* A session that is created belongs to a new family or to that of its token.
LEMMA CreateEffects ==
  ASSUME BaseInv, NEW t \in Tabs, Create(t)
  PROVE  /\ BaseInv' /\ CallsKept(t)
         /\ stored' = stored /\ cause' = cause /\ lost' = lost
         /\ call[t].step = "create" /\ call'[t].step = "list"
         /\ call'[t].kind = call[t].kind /\ call'[t].waiting = call[t].waiting
         /\ call'[t].excess = call[t].excess
         /\ \E s \in Ids :
              /\ State(s) = "absent" /\ session'[s].state = "live"
              /\ \A other \in Ids : other # s => session'[other] = session[other]
              /\ call'[t].token = s
              /\ IF Token(t) = None
                 THEN call[t].kind = "login" /\ session'[s].family = s
                 ELSE call[t].kind = "refresh" /\ session'[s].family = Family(Token(t))
<1>0. SessionTypes /\ CallInv(t) /\ call[t] \in Call
  BY DEF BaseInv, SessionTypes
<1>1. PICK s \in Unused :
        /\ call[t].step = "create"
        /\ call' = [call EXCEPT ![t].step = "list", ![t].token = s]
        /\ session' = [session EXCEPT ![s] =
             [state |-> "live", family |-> IF Token(t) = None THEN s ELSE Family(Token(t))]]
        /\ stored' = stored /\ cause' = cause /\ lost' = lost
  BY DEF Create
<1>2. s \in Ids /\ State(s) = "absent" /\ s # None
  BY <1>1, NoneIsNoId DEF Unused
<1> DEFINE after == [call[t] EXCEPT !.step = "list", !.token = s]
           family == IF Token(t) = None THEN s ELSE Family(Token(t))
<1>3. /\ after \in Call /\ after.step = "list" /\ after.token = s
      /\ after.kind = call[t].kind /\ after.waiting = call[t].waiting
      /\ after.excess = call[t].excess
  BY <1>0, <1>2 DEF Call
<1>4. call' = [call EXCEPT ![t] = after]
  BY <1>1
<1>5. call[t].kind \in {"login", "refresh"} /\ (Token(t) = None <=> call[t].kind = "login")
  BY <1>0, <1>1 DEF Call, CallInv, NoCall
<1>6. family \in Ids
  BY <1>2, FamilyType
<1>7. session' = [session EXCEPT ![s] = [state |-> "live", family |-> family]]
  BY <1>1
<1> HIDE DEF after
<1>8. CallsKept(t) /\ call'[t] = after
  BY <1>0, <1>3, <1>4 DEF SessionTypes, CallsKept
<1>9. family = IF Token(t) = None THEN s ELSE Family(Token(t))
  OBVIOUS
<1> HIDE DEF family
<1>10. /\ session' \in [Ids -> Row]
       /\ session'[s].state = "live" /\ session'[s].family = family
       /\ \A other \in Ids : other # s => session'[other] = session[other]
  BY <1>0, <1>2, <1>6, <1>7 DEF SessionTypes, Row
<1>11. BaseInv'
  <2>1. SessionTypes'
    BY <1>0, <1>1, <1>8, <1>10 DEF SessionTypes, CallsKept
  <2>2. ASSUME NEW other \in Ids PROVE (State(other) = "absent" <=> session[other].family = None)'
    BY <1>6, <1>10, NoneIsNoId DEF BaseInv, State
  <2>3. ASSUME NEW token \in Ids, State(token) # "absent" PROVE State(token)' # "absent"
    BY <1>10, <2>3 DEF State
  <2>7. ASSUME NEW other \in Ids, session'[other].family # None
        PROVE  State(session[other].family)' # "absent"
    <3>1. CASE other # s
      <4>1. session[other].family \in Ids /\ State(session[other].family) # "absent"
        BY <1>0, <1>10, <2>7, <3>1 DEF BaseInv, SessionTypes, Row
      <4> QED BY <1>10, <2>3, <3>1, <4>1
    <3>2. CASE other = s /\ Token(t) = None
      BY <1>9, <1>10, <3>2 DEF State
    <3>3. CASE other = s /\ Token(t) # None
      <4>1. Token(t) \in Ids /\ Family(Token(t)) = session[Token(t)].family
        BY <3>3, FamilyType DEF Family
      <4>2. family \in Ids /\ State(family) # "absent"
        BY <1>6, <1>9, <3>3, <4>1, NoneIsNoId DEF BaseInv
      <4> QED BY <1>10, <2>3, <3>3, <4>2
    <3> QED BY <3>1, <3>2, <3>3
  <2>4. ASSUME NEW b \in Browsers, stored'[b] # None PROVE State(stored[b])' # "absent"
    BY <1>1, <2>3, <2>4 DEF BaseInv, SessionTypes
  <2>5. ASSUME NEW u \in Tabs PROVE CallInv(u)'
    BY <1>2, <1>3, <1>5, <1>8 DEF BaseInv, CallsKept, CallInv, Token
  <2>6. ASSUME NEW u \in Tabs, call'[u].token # None PROVE State(Token(u))' # "absent"
    <3>1. CASE u = t
      BY <1>3, <1>8, <1>10, <3>1 DEF State, Token
    <3>2. CASE u # t
      BY <1>8, <2>3, <2>6, <3>2 DEF BaseInv, SessionTypes, Call, CallsKept, Token
    <3> QED BY <3>1, <3>2
  <2> QED BY <2>1, <2>2, <2>4, <2>5, <2>6, <2>7 DEF BaseInv, Token
<1> QED BY <1>1, <1>2, <1>3, <1>5, <1>8, <1>9, <1>10, <1>11

-----------------------------------------------------------------------------
(* One session of a family                                                 *)

\* They add no live session to a family.
LEMMA SessionsShrink ==
  ASSUME BaseInv, RowsKept, NEW f \in Ids
  PROVE  (FamilyOf(f) \cap Live)' \subseteq FamilyOf(f) \cap Live
BY DEF RowsKept, FamilyOf, Live, State, Family

\* The requests of a family, when the calls change and the families do not.
LEMMA RefreshingAfter ==
  ASSUME BaseInv, RowsKept, TokensMove, NEW f \in Ids, NEW t \in Tabs
  PROVE  t \in Refreshing(f)' <=> call'[t].kind = "refresh" /\ Family(call'[t].token) = f
<1>1. call'[t].token \in Ids \cup {None}
  BY DEF TokensMove, Call
<1>2. Family(Token(t))' = Family(call'[t].token)
  BY <1>1 DEF RowsKept, Family, Token
<1> QED BY <1>2 DEF Refreshing, Token

\* Without a new refresh or rotation, one session per family stays one.
LEMMA CalmOne ==
  ASSUME BaseInv, OneInv, Ordinary, Calm
  PROVE  OneInv'
<1> SUFFICES ASSUME NEW f \in Ids, cause'[f] # "overlap"
             PROVE  /\ \A t, u \in Refreshing(f)' : t = u
                    /\ \A x, y \in (FamilyOf(f) \cap Live)' : x = y
                    /\ \A t \in Refreshing(f)' : \A x \in (FamilyOf(f) \cap Live)' :
                         /\ call'[t].step # "create"
                         /\ call'[t].step = "rotate" => x = call'[t].token
  BY DEF OneInv, Token
<1>1. cause[f] # "overlap"
  BY DEF Ordinary, CauseKept
<1>2. (FamilyOf(f) \cap Live)' \subseteq FamilyOf(f) \cap Live
  BY SessionsShrink DEF Ordinary
<1>3. ASSUME NEW t \in Refreshing(f)'
      PROVE  /\ t \in Refreshing(f) /\ call'[t].token = Token(t)
             /\ call'[t].step \in {"rotate", "create"} => call'[t].step = call[t].step
  <2>1. t \in Tabs
    BY DEF Refreshing
  <2>2. call'[t].kind = "refresh" /\ Family(call'[t].token) = f
    BY <2>1, RefreshingAfter DEF Ordinary
  <2> QED BY <2>1, <2>2 DEF Calm, Refreshing, Token
<1> QED BY <1>1, <1>2, <1>3 DEF OneInv, Token

\* A second refresh of a family makes it one that overlaps.
LEMMA SendRefreshOne ==
  ASSUME BaseInv, OneInv, NEW t \in Tabs, SendRefresh(t)
  PROVE  OneInv'
<1> SUFFICES ASSUME NEW f \in Ids, cause'[f] # "overlap"
             PROVE  /\ \A u, v \in Refreshing(f)' : u = v
                    /\ \A x, y \in (FamilyOf(f) \cap Live)' : x = y
                    /\ \A u \in Refreshing(f)' : \A x \in (FamilyOf(f) \cap Live)' :
                         /\ call'[u].step # "create"
                         /\ call'[u].step = "rotate" => x = call'[u].token
  BY DEF OneInv, Token
<1>0. /\ Ordinary /\ CallsKept(t) /\ call'[t].kind = "refresh" /\ call'[t].step = "read"
      /\ cause'[Family(call'[t].token)] # "overlap" => Refreshing(Family(call'[t].token)) = {}
  BY SendRefreshEffects
<1>1. cause[f] # "overlap"
  BY <1>0 DEF Ordinary, CauseKept
<1>2. (FamilyOf(f) \cap Live)' \subseteq FamilyOf(f) \cap Live
  BY <1>0, SessionsShrink DEF Ordinary
<1>3. ASSUME NEW u \in Refreshing(f)', u # t PROVE u \in Refreshing(f) /\ call'[u] = call[u]
  <2>1. u \in Tabs
    BY DEF Refreshing
  <2>2. call'[u].kind = "refresh" /\ Family(call'[u].token) = f
    BY <1>0, <2>1, RefreshingAfter DEF Ordinary
  <2> QED BY <1>0, <1>3, <2>1, <2>2 DEF CallsKept, Refreshing, Token
<1>4. t \in Refreshing(f)' => Refreshing(f) = {}
  BY <1>0, RefreshingAfter DEF Ordinary
<1> QED BY <1>0, <1>1, <1>2, <1>3, <1>4 DEF OneInv, Token

\* A refresh that goes on found its session live, so it is the only one.
LEMMA ReadRefreshOne ==
  ASSUME BaseInv, OneInv, NEW t \in Tabs, ReadRefresh(t)
  PROVE  OneInv'
<1> SUFFICES ASSUME NEW f \in Ids, cause'[f] # "overlap"
             PROVE  /\ \A u, v \in Refreshing(f)' : u = v
                    /\ \A x, y \in (FamilyOf(f) \cap Live)' : x = y
                    /\ \A u \in Refreshing(f)' : \A x \in (FamilyOf(f) \cap Live)' :
                         /\ call'[u].step # "create"
                         /\ call'[u].step = "rotate" => x = call'[u].token
  BY DEF OneInv, Token
<1>0. /\ Ordinary /\ CallsKept(t) /\ call[t].kind = "refresh" /\ cause' = cause
      /\ call'[t].kind = "refresh" /\ call'[t].token = call[t].token
      /\ \/ call'[t].step = "rotate" /\ State(Token(t)) = "live"
         \/ call'[t].step \in {"reuse", "refused"}
  BY ReadRefreshEffects
<1>1. (FamilyOf(f) \cap Live)' \subseteq FamilyOf(f) \cap Live
  BY <1>0, SessionsShrink DEF Ordinary
<1>2. ASSUME NEW u \in Refreshing(f)'
      PROVE  u \in Refreshing(f) /\ call'[u].token = Token(u) /\ (u # t => call'[u] = call[u])
  <2>1. u \in Tabs
    BY DEF Refreshing
  <2>2. call'[u].kind = "refresh" /\ Family(call'[u].token) = f
    BY <1>0, <2>1, RefreshingAfter DEF Ordinary
  <2>3. u # t => call'[u] = call[u]
    BY <1>0, <2>1 DEF CallsKept
  <2> QED BY <1>0, <2>1, <2>2, <2>3 DEF Refreshing, Token
<1>3. t \in Refreshing(f)' /\ call'[t].step = "rotate" => Token(t) \in FamilyOf(f) \cap Live
  BY <1>0, <1>2, FamilyType DEF FamilyOf, Live, Refreshing
<1> QED BY <1>0, <1>1, <1>2, <1>3 DEF OneInv, Token

\* After the rotation no session of the family is live.
LEMMA RotateOne ==
  ASSUME BaseInv, OneInv, NEW t \in Tabs, Rotate(t)
  PROVE  OneInv'
<1> SUFFICES ASSUME NEW f \in Ids, cause'[f] # "overlap"
             PROVE  /\ \A u, v \in Refreshing(f)' : u = v
                    /\ \A x, y \in (FamilyOf(f) \cap Live)' : x = y
                    /\ \A u \in Refreshing(f)' : \A x \in (FamilyOf(f) \cap Live)' :
                         /\ call'[u].step # "create"
                         /\ call'[u].step = "rotate" => x = call'[u].token
  BY DEF OneInv, Token
<1>0. /\ Ordinary /\ CallsKept(t) /\ call[t].kind = "refresh" /\ cause' = cause
      /\ call'[t].kind = "refresh" /\ call'[t].token = call[t].token
      /\ call[t].step = "rotate" /\ call'[t].step = "create"
      /\ session'[Token(t)].state # "live"
  BY RotateEffects
<1>1. (FamilyOf(f) \cap Live)' \subseteq FamilyOf(f) \cap Live
  BY <1>0, SessionsShrink DEF Ordinary
<1>2. ASSUME NEW u \in Refreshing(f)'
      PROVE  u \in Refreshing(f) /\ call'[u].token = Token(u) /\ (u # t => call'[u] = call[u])
  <2>1. u \in Tabs
    BY DEF Refreshing
  <2>2. call'[u].kind = "refresh" /\ Family(call'[u].token) = f
    BY <1>0, <2>1, RefreshingAfter DEF Ordinary
  <2>3. u # t => call'[u] = call[u]
    BY <1>0, <2>1 DEF CallsKept
  <2> QED BY <1>0, <2>1, <2>2, <2>3 DEF Refreshing, Token
<1>3. Token(t) \notin (FamilyOf(f) \cap Live)'
  BY <1>0 DEF Live, State
<1>4. t \in Refreshing(f)' => (FamilyOf(f) \cap Live)' = {}
  BY <1>0, <1>1, <1>2, <1>3 DEF OneInv
<1> QED BY <1>0, <1>1, <1>2, <1>4 DEF OneInv, Token

\* So the session that a refresh creates is the only one.
LEMMA CreateOne ==
  ASSUME BaseInv, OneInv, NEW t \in Tabs, Create(t)
  PROVE  OneInv'
<1> SUFFICES ASSUME NEW f \in Ids, cause'[f] # "overlap"
             PROVE  /\ \A u, v \in Refreshing(f)' : u = v
                    /\ \A x, y \in (FamilyOf(f) \cap Live)' : x = y
                    /\ \A u \in Refreshing(f)' : \A x \in (FamilyOf(f) \cap Live)' :
                         /\ call'[u].step # "create"
                         /\ call'[u].step = "rotate" => x = call'[u].token
  BY DEF OneInv, Token
<1>0. /\ CallsKept(t) /\ cause' = cause
      /\ call[t].step = "create" /\ call'[t].step = "list" /\ call'[t].kind = call[t].kind
  BY CreateEffects
<1>1. PICK s \in Ids :
        /\ State(s) = "absent"
        /\ \A other \in Ids : other # s => session'[other] = session[other]
        /\ call'[t].token = s
        /\ IF Token(t) = None
           THEN call[t].kind = "login" /\ session'[s].family = s
           ELSE call[t].kind = "refresh" /\ session'[s].family = Family(Token(t))
  BY CreateEffects
<1>2. s # None
  BY NoneIsNoId
<1>3. ASSUME NEW u \in Tabs, u # t PROVE Family(Token(u))' = Family(Token(u)) /\ call'[u] = call[u]
  <2>1. call'[u] = call[u]
    BY <1>0, <1>3 DEF CallsKept
  <2>2. Token(u) # s /\ Token(u) \in Ids \cup {None}
    BY <1>1, <1>2, FamilyType DEF BaseInv
  <2> QED BY <1>1, <2>1, <2>2 DEF Family, Token
<1>4. ASSUME NEW u \in Refreshing(f)'
      PROVE  u \in Refreshing(f) /\ (u # t => call'[u] = call[u])
  <2>1. u \in Tabs /\ call'[u].kind = "refresh" /\ Family(Token(u))' = f
    BY DEF Refreshing
  <2>2. CASE u # t
    BY <1>3, <2>1, <2>2 DEF Refreshing, Token
  <2>3. CASE u = t
    <3>1. call[t].kind = "refresh" /\ session'[s].family = Family(Token(t))
      BY <1>0, <1>1, <2>1, <2>3
    <3>2. Family(Token(t))' = session'[s].family
      BY <1>1, <1>2 DEF Family, Token
    <3> QED BY <2>1, <2>3, <3>1, <3>2 DEF Refreshing
  <2> QED BY <2>2, <2>3
<1>5. ASSUME NEW x \in (FamilyOf(f) \cap Live)'
      PROVE  \/ x \in FamilyOf(f) \cap Live /\ x # s
             \/ x = s /\ session'[s].family = f
  BY <1>1, <1>2 DEF FamilyOf, Live, State, Family
<1>7. \A y \in Ids : Family(y) # s
  BY <1>1, <1>2, NoneIsNoId DEF BaseInv, Family
<1>8. ASSUME NEW u \in Refreshing(f)', session'[s].family = f PROVE t \in Refreshing(f) /\ u = t
  <2>1. u \in Refreshing(f) /\ u \in Tabs /\ Token(u) \in Ids \cup {None} /\ Family(Token(u)) = f
    BY <1>4, FamilyType DEF Refreshing
  <2>2. f # s
    BY <1>2, <1>7, <2>1, FamilyType
  <2>3. t \in Refreshing(f)
    BY <1>1, <1>8, <2>2 DEF Refreshing
  <2> QED BY <1>0, <2>1, <2>3 DEF OneInv
<1>6. ASSUME NEW x \in (FamilyOf(f) \cap Live)', session'[s].family = f PROVE x = s
  <2>1. CASE Token(t) = None
    <3>1. f = s
      BY <1>1, <1>6, <2>1
    <3> QED BY <1>5, <1>7, <3>1 DEF FamilyOf
  <2>2. CASE Token(t) # None
    <3>1. t \in Refreshing(f)
      BY <1>1, <1>6, <2>2 DEF Refreshing
    <3> QED BY <1>0, <1>5, <3>1 DEF OneInv
  <2> QED BY <2>1, <2>2
<1>9. ASSUME NEW x, NEW y, x \in (FamilyOf(f) \cap Live)', y \in (FamilyOf(f) \cap Live)' PROVE x = y
  BY <1>0, <1>5, <1>6, <1>9 DEF OneInv
<1>10. ASSUME NEW u \in Refreshing(f)', NEW x \in (FamilyOf(f) \cap Live)'
       PROVE  /\ call'[u].step # "create"
              /\ call'[u].step = "rotate" => x = call'[u].token
  <2>1. CASE session'[s].family = f
    BY <1>0, <1>8, <2>1
  <2>2. CASE session'[s].family # f
    <3>1. x \in FamilyOf(f) \cap Live /\ u \in Refreshing(f)
      BY <1>4, <1>5, <2>2
    <3>2. u = t \/ call'[u] = call[u]
      BY <1>4
    <3>3. /\ call[u].step # "create"
          /\ call[u].step = "rotate" => x = call[u].token
      BY <1>0, <3>1 DEF OneInv, Token
    <3> QED BY <1>0, <3>2, <3>3
  <2> QED BY <2>1, <2>2
<1> QED BY <1>0, <1>4, <1>9, <1>10 DEF OneInv

-----------------------------------------------------------------------------
(* The tokens that browsers store                                          *)

\* Who holds a family after a step held it before.
LEMMA HoldsShrink ==
  ASSUME BaseInv, Ordinary, NEW b \in Browsers, NEW f \in Ids, Holds(b, f)'
  PROVE  Holds(b, f)
<1>1. \A token \in Ids \cup {None} : Family(token)' = Family(token)
  BY FamilyKept DEF Ordinary
<1>2. Family(None) = None /\ f # None
  BY FamilyType, NoneIsNoId
<1>3. CASE Family(stored[b])' = f
  <2>1. stored'[b] \in Ids \cup {None} /\ Family(stored'[b]) = f
    BY <1>3 DEF Ordinary, TokensMove, RowsKept, Family
  <2>2. stored'[b] = stored[b] \/ \E t \in Tabs : BrowserOf[t] = b /\ stored'[b] = Token(t)
    BY <1>2, <2>1 DEF Ordinary, TokensMove, Token
  <2> QED BY <2>1, <2>2 DEF Holds
<1>4. CASE \E t \in Tabs : BrowserOf[t] = b /\ Family(Token(t))' = f
  <2>1. PICK t \in Tabs : BrowserOf[t] = b /\ Family(Token(t))' = f
    BY <1>4
  <2>2. Family(call'[t].token) = f
    BY <2>1 DEF Ordinary, TokensMove, RowsKept, Family, Call, Token
  <2>3. call'[t].token \in {Token(t), stored[b]}
    BY <1>2, <2>1, <2>2 DEF Ordinary, TokensMove, Token
  <2> QED BY <2>1, <2>2, <2>3 DEF Holds
<1> QED BY <1>3, <1>4 DEF Holds

\* A family stays with one browser.
LEMMA OrdinaryOwners ==
  ASSUME BaseInv, OneBrowser, LoginInv, Ordinary
  PROVE  OneBrowser' /\ LoginInv'
<1>1. OneBrowser'
  BY HoldsShrink DEF OneBrowser
<1>2. LoginInv'
  <2> SUFFICES ASSUME NEW t \in Tabs, call'[t].kind = "login", call'[t].token # None
               PROVE  /\ \A b \in Browsers : Family(stored[b])' # Family(Token(t))'
                      /\ \A u \in Tabs : u # t => Family(Token(u))' # Family(Token(t))'
    BY DEF LoginInv, Token
  <2>1. call[t].kind = "login" /\ call'[t].token = Token(t) /\ Token(t) # None
    BY DEF Ordinary, TokensMove, Token
  <2>2. Family(Token(t))' = Family(Token(t)) /\ Family(Token(t)) # None
    BY <2>1, FamilyType, NoneIsNoId DEF Ordinary, RowsKept, Family, Token
  <2>3. ASSUME NEW b \in Browsers PROVE Family(stored[b])' # Family(Token(t))
    <3>1. Family(stored[b])' = Family(stored'[b])
      BY DEF Ordinary, TokensMove, RowsKept, Family
    <3>2. CASE stored'[b] \in {None, stored[b]}
      BY <2>1, <2>2, <3>1, <3>2, FamilyType DEF LoginInv
    <3>3. CASE \E u \in Tabs : BrowserOf[u] = b /\ stored'[b] = call[u].token /\ call'[u] = NoCall
      <4>1. PICK u \in Tabs : stored'[b] = Token(u) /\ call'[u] = NoCall
        BY <3>3 DEF Token
      <4>2. u # t
        BY <4>1 DEF NoCall
      <4> QED BY <2>1, <3>1, <4>1, <4>2 DEF LoginInv
    <3> QED BY <3>2, <3>3 DEF Ordinary, TokensMove
  <2>4. ASSUME NEW u \in Tabs, u # t PROVE Family(Token(u))' # Family(Token(t))
    <3>1. Family(Token(u))' = Family(call'[u].token)
      BY DEF Ordinary, TokensMove, RowsKept, Family, Token, Call
    <3>2. BrowserOf[u] \in Browsers
      BY SessionsAssumption
    <3>3. call'[u].token \in {None, Token(u), stored[BrowserOf[u]]}
      BY DEF Ordinary, TokensMove, Token
    <3> QED BY <2>1, <2>2, <2>4, <3>1, <3>2, <3>3, FamilyType DEF LoginInv
  <2> QED BY <2>2, <2>3, <2>4
<1> QED BY <1>1, <1>2

\* A request of a family without a cause goes on succeeding.
LEMMA UnblamedKept ==
  ASSUME BaseInv, Ordinary, Spared, NEW t \in Tabs, Unblamed(t),
         call'[t].token = call[t].token, call'[t].kind = call[t].kind,
         call'[t].waiting = call[t].waiting,
         call'[t].step = "create" <=> call[t].step = "create",
         call'[t].kind = "refresh" => (call'[t].step \in {"reuse", "refused"} => call[t].step \in {"reuse", "refused"})
  PROVE  Unblamed(t)'
<1> SUFFICES ASSUME call'[t].token # None, cause'[Family(Token(t))'] = "none"
             PROVE  /\ call'[t].kind # "logout"
                    /\ call'[t].kind = "refresh" =>
                         call'[t].waiting /\ call'[t].step \notin {"reuse", "refused"}
                    /\ call'[t].step # "create" => State(Token(t))' = "live"
  BY DEF Unblamed, Token
<1>1. Token(t) \in Ids /\ Family(Token(t)) \in Ids /\ call'[t].token = Token(t)
  BY FamilyType DEF Token
<1>2. Family(Token(t))' = Family(Token(t)) /\ State(Token(t))' = session'[Token(t)].state
  BY <1>1 DEF Ordinary, RowsKept, Family, State, Token
<1>3. cause'[Family(Token(t))] = "none" /\ cause[Family(Token(t))] = "none"
  BY <1>1, <1>2 DEF Ordinary, CauseKept
<1>4. /\ call[t].kind # "logout"
      /\ call[t].kind = "refresh" => call[t].waiting /\ call[t].step \notin {"reuse", "refused"}
      /\ call[t].step # "create" => State(Token(t)) = "live"
  BY <1>1, <1>3 DEF Unblamed
<1> QED BY <1>1, <1>2, <1>3, <1>4 DEF Spared

\* A tab that waits for nothing, or whose family has a cause.
LEMMA UnblamedByCause ==
  ASSUME NEW t \in Tabs,
         call'[t].token = None \/ cause'[Family(Token(t))'] # "none"
  PROVE  Unblamed(t)'
BY DEF Unblamed, Token

\* A stored token goes on working as long as nothing blames its family.
LEMMA StoredKept ==
  ASSUME BaseInv, Ordinary, Spared, StoredTokensWork,
         \A b \in Browsers : stored'[b] \in {None, stored[b]},
         \A f \in Ids : cause'[f] = "none" /\ Refreshing(f)' = {} => Refreshing(f) = {}
  PROVE  StoredTokensWork'
<1> SUFFICES ASSUME NEW b \in Browsers,
                    Family(stored[b])' # None, cause'[Family(stored[b])'] = "none",
                    Refreshing(Family(stored[b]))' = {}
             PROVE  State(stored[b])' = "live"
  BY DEF StoredTokensWork
<1> DEFINE f == Family(stored[b])
<1>1. stored'[b] = stored[b]
  BY DEF Family
<1>2. stored[b] \in Ids /\ f \in Ids /\ f' = f
  <2>1. f' # None
    OBVIOUS
  <2>2. stored[b] # None
    BY <1>1, <2>1 DEF Family
  <2> QED BY <1>1, <2>2, FamilyType DEF Ordinary, RowsKept, Family, BaseInv, SessionTypes
<1>3. cause'[f] = "none" /\ Refreshing(f)' = {}
  BY <1>2
<1> QED
  <2>1. cause[f] = "none" /\ Refreshing(f) = {}
    BY <1>2, <1>3 DEF Ordinary, CauseKept
  <2>2. State(stored[b]) = "live"
    BY <1>2, <2>1, NoneIsNoId DEF StoredTokensWork
  <2> QED BY <1>1, <1>2, <1>3, <2>2 DEF Spared, State

\* The requests of a family are those that were, but for the caller's.
LEMMA RefreshingKept ==
  ASSUME BaseInv, Ordinary, NEW t \in Tabs, CallsKept(t),
         call[t].kind = "refresh" => call'[t].kind = "refresh" /\ call'[t].token = call[t].token
  PROVE  \A f \in Ids : Refreshing(f) \subseteq Refreshing(f)'
<1> SUFFICES ASSUME NEW f \in Ids, NEW u \in Refreshing(f) PROVE u \in Refreshing(f)'
  OBVIOUS
<1>1. u \in Tabs /\ call[u].kind = "refresh" /\ Family(Token(u)) = f
  BY DEF Refreshing
<1>2. call'[u].kind = "refresh" /\ call'[u].token = Token(u)
  BY <1>1 DEF CallsKept, Token
<1> QED BY <1>1, <1>2, RefreshingAfter DEF Ordinary

\* What a step of one tab leaves to be shown of that tab.
LEMMA StoredByTab ==
  ASSUME BaseInv, StoredInv, Ordinary, Spared, NEW t \in Tabs, CallsKept(t), Unblamed(t)',
         \A b \in Browsers : stored'[b] \in {None, stored[b]},
         \A f \in Ids : cause'[f] = "none" /\ Refreshing(f)' = {} => Refreshing(f) = {}
  PROVE  StoredInv'
<1>1. OneBrowser' /\ LoginInv'
  BY OrdinaryOwners DEF StoredInv
<1>2. ASSUME NEW u \in Tabs, u # t PROVE Unblamed(u)'
  <2>1. call'[u] = call[u] /\ Unblamed(u)
    BY <1>2 DEF CallsKept, StoredInv
  <2> QED BY <2>1, UnblamedKept
<1>3. StoredTokensWork'
  BY StoredKept DEF StoredInv
<1> QED BY <1>1, <1>2, <1>3 DEF StoredInv

\* A step that no tab takes part in.
LEMMA StoredByNone ==
  ASSUME BaseInv, StoredInv, Ordinary, Spared, call' = call,
         \A b \in Browsers : stored'[b] \in {None, stored[b]}
  PROVE  StoredInv'
<1>1. OneBrowser' /\ LoginInv'
  BY OrdinaryOwners DEF StoredInv
<1>2. ASSUME NEW u \in Tabs PROVE Unblamed(u)'
  <2>1. call'[u] = call[u] /\ Unblamed(u)
    BY DEF StoredInv
  <2> QED BY <2>1, UnblamedKept
<1>3. ASSUME NEW f \in Ids, NEW u \in Refreshing(f) PROVE u \in Refreshing(f)'
  BY RefreshingAfter DEF Ordinary, Refreshing, Token
<1>4. StoredTokensWork'
  BY <1>3, StoredKept DEF StoredInv
<1> QED BY <1>1, <1>2, <1>4 DEF StoredInv

\* A login is sent without touching a family.
LEMMA SendLoginStored ==
  ASSUME BaseInv, StoredInv, NEW t \in Tabs, SendLogin(t)
  PROVE  StoredInv'
<1>1. /\ Ordinary /\ Spared /\ CallsKept(t) /\ stored' = stored
      /\ call[t] = NoCall /\ call'[t].token = None
  BY SendLoginEffects
<1>2. call[t].kind # "refresh"
  BY <1>1 DEF NoCall
<1>3. \A f \in Ids : Refreshing(f) \subseteq Refreshing(f)'
  BY <1>1, <1>2, RefreshingKept
<1>4. Unblamed(t)'
  BY <1>1, UnblamedByCause
<1> QED BY <1>1, <1>3, <1>4, StoredByTab

\* A logout blames the family before its token stops working.
LEMMA SendLogoutStored ==
  ASSUME BaseInv, StoredInv, NEW t \in Tabs, SendLogout(t)
  PROVE  StoredInv'
<1>1. /\ Ordinary /\ Spared /\ CallsKept(t) /\ stored' = stored /\ session' = session
      /\ call[t] = NoCall /\ cause'[Family(call'[t].token)] # "none"
  BY SendLogoutEffects
<1>2. call[t].kind # "refresh"
  BY <1>1 DEF NoCall
<1>3. \A f \in Ids : Refreshing(f) \subseteq Refreshing(f)'
  BY <1>1, <1>2, RefreshingKept
<1>4. Family(Token(t))' = Family(call'[t].token)
  BY <1>1 DEF Family, Token
<1>5. Unblamed(t)'
  BY <1>1, <1>4, UnblamedByCause
<1> QED BY <1>1, <1>3, <1>5, StoredByTab

\* A refresh that is sent alone leaves no stored token to fail.
LEMMA SendRefreshStored ==
  ASSUME BaseInv, StoredInv, NEW t \in Tabs, SendRefresh(t)
  PROVE  StoredInv'
<1> DEFINE f == Family(stored[BrowserOf[t]])
<1>1. /\ Ordinary /\ Spared /\ CallsKept(t) /\ stored' = stored /\ session' = session
      /\ call[t] = NoCall /\ call'[t].kind = "refresh" /\ call'[t].step = "read" /\ call'[t].waiting
      /\ call'[t].token = stored[BrowserOf[t]]
      /\ f \in Ids
      /\ cause'[f] = "none" => Refreshing(f) = {}
  BY SendRefreshEffects
<1>2. call[t].kind # "refresh"
  BY <1>1 DEF NoCall
<1>3. \A g \in Ids : Refreshing(g) \subseteq Refreshing(g)'
  BY <1>1, <1>2, RefreshingKept
<1>4. Family(Token(t))' = f /\ State(Token(t))' = State(stored[BrowserOf[t]])
  BY <1>1 DEF Family, State, Token
<1>5. BrowserOf[t] \in Browsers /\ f # None
  BY <1>1, SessionsAssumption, NoneIsNoId
<1>6. cause'[f] = "none" => cause[f] = "none"
  BY <1>1 DEF Ordinary, CauseKept
<1>7. cause'[f] = "none" => State(stored[BrowserOf[t]]) = "live"
  BY <1>1, <1>5, <1>6 DEF StoredInv, StoredTokensWork
<1>8. Unblamed(t)'
  BY <1>1, <1>4, <1>7 DEF Unblamed
<1> QED BY <1>1, <1>3, <1>8, StoredByTab

\* A refresh without a cause finds its session live.
LEMMA ReadRefreshStored ==
  ASSUME BaseInv, StoredInv, NEW t \in Tabs, ReadRefresh(t)
  PROVE  StoredInv'
<1>1. /\ Ordinary /\ Spared /\ CallsKept(t) /\ stored' = stored /\ session' = session /\ cause' = cause
      /\ call[t].kind = "refresh" /\ call[t].step = "read"
      /\ call'[t].kind = "refresh" /\ call'[t].token = call[t].token
      /\ call'[t].waiting = call[t].waiting
      /\ \/ call'[t].step = "rotate"
         \/ call'[t].step \in {"reuse", "refused"} /\ State(Token(t)) # "live"
  BY ReadRefreshEffects
<1>2. \A g \in Ids : Refreshing(g) \subseteq Refreshing(g)'
  BY <1>1, RefreshingKept
<1>3. /\ Unblamed(t) /\ Family(Token(t))' = Family(Token(t)) /\ State(Token(t))' = State(Token(t))
      /\ Token(t)' = Token(t)
  BY <1>1 DEF StoredInv, Family, State, Token
<1>4. Unblamed(t)'
  BY <1>1, <1>3 DEF Unblamed
<1> QED BY <1>1, <1>2, <1>4, StoredByTab

\* Only a family with a cause is revoked.
LEMMA RevokeFamilyStored ==
  ASSUME BaseInv, StoredInv, NEW t \in Tabs, RevokeReused(t) \/ RevokeLoggedOut(t)
  PROVE  StoredInv'
<1>0. /\ CallInv(t) /\ call[t] \in Call /\ Unblamed(t)
  BY DEF BaseInv, SessionTypes, StoredInv
<1>1. PICK from \in {"reuse", "revoke"} :
        Step(t, from, "refused") /\ Revoke(FamilyOf(Family(Token(t)))) /\ cause' = cause
  BY DEF RevokeReused, RevokeLoggedOut
<1>2. /\ Ordinary /\ CallsKept(t) /\ stored' = stored
      /\ call[t].step = from /\ call'[t].step = "refused"
      /\ call'[t].kind = call[t].kind /\ call'[t].token = call[t].token
      /\ \A s \in Ids : Family(s) # Family(Token(t)) => session'[s] = session[s]
  BY <1>1, RevokeFamilyEffects
<1>3. call[t].kind \in {"refresh", "logout"} /\ Token(t) # None
  BY <1>0, <1>2 DEF CallInv, Call, NoCall
<1>4. cause[Family(Token(t))] # "none"
  <2>1. CASE call[t].kind = "logout"
    BY <1>0, <1>3, <2>1 DEF Unblamed
  <2>2. CASE call[t].kind = "refresh"
    BY <1>0, <1>2, <1>3, <2>2 DEF Unblamed, CallInv
  <2> QED BY <1>3, <2>1, <2>2
<1>5. Spared
  BY <1>1, <1>2, <1>4 DEF Spared, State
<1>6. \A g \in Ids : Refreshing(g) \subseteq Refreshing(g)'
  BY <1>2, RefreshingKept
<1>7. Family(Token(t))' = Family(Token(t))
  BY <1>2, FamilyType DEF Ordinary, RowsKept, Family, Token
<1>8. Unblamed(t)'
  BY <1>1, <1>4, <1>7, UnblamedByCause
<1> QED BY <1>2, <1>5, <1>6, <1>8, StoredByTab

\* Pruning blames the families of the sessions it revokes.
LEMMA ListPruneStored ==
  ASSUME BaseInv, StoredInv, NEW t \in Tabs, List(t) \/ Prune(t)
  PROVE  StoredInv'
<1>1. /\ Ordinary /\ Spared /\ CallsKept(t) /\ stored' = stored
      /\ call[t].step \in {"list", "prune"} /\ call'[t].step \in {"prune", "ok"}
      /\ call'[t].kind = call[t].kind /\ call'[t].token = call[t].token
      /\ call'[t].waiting = call[t].waiting
  BY ListEffects, PruneEffects
<1>2. \A g \in Ids : Refreshing(g) \subseteq Refreshing(g)'
  BY <1>1, RefreshingKept
<1>3. Unblamed(t)'
  BY <1>1, UnblamedKept DEF StoredInv
<1> QED BY <1>1, <1>2, <1>3, StoredByTab

\* A logout that reads changes no session.
LEMMA ReadLogoutStored ==
  ASSUME BaseInv, StoredInv, NEW t \in Tabs, ReadLogout(t)
  PROVE  StoredInv'
<1>1. /\ Ordinary /\ Spared /\ CallsKept(t) /\ stored' = stored /\ session' = session /\ cause' = cause
      /\ call[t].kind = "logout" /\ call'[t].token = call[t].token
  BY ReadLogoutEffects
<1>2. \A g \in Ids : Refreshing(g) \subseteq Refreshing(g)'
  BY <1>1, RefreshingKept
<1>3. Family(Token(t))' = Family(Token(t))
  BY <1>1 DEF Family, Token
<1>4. Token(t) # None /\ Unblamed(t)
  BY <1>1 DEF BaseInv, CallInv, StoredInv
<1>5. Unblamed(t)'
  BY <1>1, <1>3, <1>4, UnblamedByCause DEF Unblamed
<1> QED BY <1>1, <1>2, <1>5, StoredByTab

\* The loss of an answer blames the family.
LEMMA LoseStored ==
  ASSUME BaseInv, StoredInv, NEW t \in Tabs, Lose(t)
  PROVE  StoredInv'
<1>1. /\ Ordinary /\ Spared /\ CallsKept(t) /\ call'[t] = NoCall
      /\ \A b \in Browsers : stored'[b] \in {None, stored[b]}
      /\ Family(Token(t)) \in Ids => cause'[Family(Token(t))] # "none"
  BY LoseEffects
<1>2. ASSUME NEW f \in Ids, cause'[f] = "none", NEW u \in Refreshing(f) PROVE u \in Refreshing(f)'
  <2>1. u \in Tabs /\ call[u].kind = "refresh" /\ Family(Token(u)) = f
    BY DEF Refreshing
  <2>2. u # t
    BY <1>1, <1>2, <2>1
  <2>3. call'[u] = call[u]
    BY <1>1, <2>1, <2>2 DEF CallsKept
  <2> QED BY <1>1, <2>1, <2>3, RefreshingAfter DEF Ordinary, Token
<1>3. Unblamed(t)'
  BY <1>1, UnblamedByCause DEF NoCall
<1> QED BY <1>1, <1>2, <1>3, StoredByTab

\* So does refusing its user.
LEMMA RefuseUserStored ==
  ASSUME BaseInv, StoredInv, NEW t \in Tabs, RefuseUser(t)
  PROVE  StoredInv'
<1>1. /\ Ordinary /\ Spared /\ CallsKept(t) /\ stored' = stored /\ session' = session
      /\ call'[t].kind = call[t].kind /\ call'[t].token = call[t].token
      /\ Family(Token(t)) \in Ids => cause'[Family(Token(t))] # "none"
  BY RefuseUserEffects
<1>2. \A g \in Ids : Refreshing(g) \subseteq Refreshing(g)'
  BY <1>1, RefreshingKept
<1>3. Family(Token(t))' = Family(Token(t)) /\ call'[t].token = Token(t)
  BY <1>1 DEF Family, Token
<1>4. Unblamed(t)'
  BY <1>1, <1>3, FamilyType, UnblamedByCause
<1> QED BY <1>1, <1>2, <1>4, StoredByTab

\* So does closing a tab.
LEMMA CloseStored ==
  ASSUME BaseInv, StoredInv, NEW t \in Tabs, Close(t)
  PROVE  StoredInv'
<1>1. /\ Ordinary /\ Spared /\ CallsKept(t) /\ stored' = stored /\ session' = session
      /\ call'[t].kind = call[t].kind /\ call'[t].token = call[t].token
      /\ Family(Token(t)) \in Ids => cause'[Family(Token(t))] # "none"
  BY CloseEffects
<1>2. \A g \in Ids : Refreshing(g) \subseteq Refreshing(g)'
  BY <1>1, RefreshingKept
<1>3. Family(Token(t))' = Family(Token(t)) /\ call'[t].token = Token(t)
  BY <1>1 DEF Family, Token
<1>4. Unblamed(t)'
  BY <1>1, <1>3, FamilyType, UnblamedByCause
<1> QED BY <1>1, <1>2, <1>4, StoredByTab

\* The session that is used up is nobody else's, while its family has no cause.
LEMMA RotateStored ==
  ASSUME BaseInv, OneInv, StoredInv, NEW t \in Tabs, Rotate(t)
  PROVE  StoredInv'
<1>1. /\ Ordinary /\ CallsKept(t) /\ stored' = stored /\ cause' = cause
      /\ call[t].kind = "refresh" /\ call[t].step = "rotate"
      /\ call'[t].kind = "refresh" /\ call'[t].step = "create" /\ call'[t].token = call[t].token
      /\ call'[t].waiting = call[t].waiting
      /\ \A s \in Ids : s # Token(t) => session'[s] = session[s]
  BY RotateEffects
<1>2. OneBrowser' /\ LoginInv'
  BY <1>1, OrdinaryOwners DEF StoredInv
<1>3. Token(t) \in Ids /\ Family(Token(t)) \in Ids
  BY <1>1, FamilyType DEF BaseInv, CallInv
<1>4. /\ \A g \in Ids : Refreshing(g) \subseteq Refreshing(g)'
      /\ t \in Refreshing(Family(Token(t)))
  BY <1>1, RefreshingKept DEF Refreshing
<1>5. Family(Token(t))' = Family(Token(t)) /\ Token(t)' = Token(t)
  BY <1>1, FamilyType DEF Ordinary, RowsKept, Family, Token
<1>6. Unblamed(t)'
  BY <1>1, <1>3, <1>5 DEF StoredInv, Unblamed
<1>7. ASSUME NEW u \in Tabs, u # t PROVE Unblamed(u)'
  <2>1. call'[u] = call[u] /\ Unblamed(u) /\ Token(u)' = Token(u)
    BY <1>1, <1>7 DEF CallsKept, StoredInv, Token
  <2>2. Family(Token(u))' = Family(Token(u))
    BY <1>1, <2>1, FamilyType DEF Ordinary, RowsKept, Family, Token
  <2> SUFFICES ASSUME Token(u) # None, cause[Family(Token(u))] = "none"
               PROVE  State(Token(u))' = State(Token(u))
    BY <1>1, <2>1, <2>2 DEF Unblamed
  <2>3. Token(u) \in Ids /\ call[u].kind \in {"login", "refresh"}
    BY <2>1, FamilyType DEF Unblamed, BaseInv, SessionTypes, Call, CallInv, NoCall, Token
  <2>4. Token(u) # Token(t)
    <3>1. CASE call[u].kind = "login"
      BY <1>7, <2>3, <3>1 DEF StoredInv, LoginInv
    <3>2. CASE call[u].kind = "refresh"
      <4>1. ASSUME Token(u) = Token(t) PROVE FALSE
        <5>1. u \in Refreshing(Family(Token(t))) /\ cause[Family(Token(t))] # "overlap"
          BY <3>2, <4>1 DEF Refreshing
        <5> QED BY <1>3, <1>4, <1>7, <5>1 DEF OneInv
      <4> QED BY <4>1
    <3> QED BY <2>3, <3>1, <3>2
  <2> QED BY <1>1, <2>1, <2>3, <2>4 DEF State
<1>8. StoredTokensWork'
  <2> SUFFICES ASSUME NEW b \in Browsers,
                      Family(stored[b])' # None, cause[Family(stored[b])'] = "none",
                      Refreshing(Family(stored[b]))' = {}
               PROVE  State(stored[b])' = "live"
    BY <1>1 DEF StoredTokensWork
  <2> DEFINE f == Family(stored[b])
  <2>1. stored[b] \in Ids /\ f \in Ids /\ f' = f
    BY <1>1, FamilyType DEF Ordinary, RowsKept, Family, BaseInv, SessionTypes
  <2>2. Refreshing(f) = {} /\ cause[f] = "none"
    BY <1>4, <2>1
  <2>3. State(stored[b]) = "live" /\ stored[b] # Token(t)
    BY <1>4, <2>1, <2>2, NoneIsNoId DEF StoredInv, StoredTokensWork
  <2> QED BY <1>1, <2>1, <2>3 DEF State
<1> QED BY <1>2, <1>6, <1>7, <1>8 DEF StoredInv

\* Two browsers do not hold one family: the answer of a refresh comes to the
\* browser that stores the token it used.
LEMMA AnswerStored ==
  ASSUME BaseInv, StoredInv, NEW t \in Tabs, Answer(t)
  PROVE  StoredInv'
<1>1. /\ Ordinary /\ Spared /\ CallsKept(t) /\ call'[t] = NoCall
      /\ call[t].step \in {"ok", "refused"}
      /\ session' = session /\ cause' = cause
      /\ stored' = IF call[t].waiting
                   THEN [stored EXCEPT ![BrowserOf[t]] = IF call[t].step = "ok" THEN Token(t) ELSE None]
                   ELSE stored
  BY AnswerEffects
<1>2. OneBrowser' /\ LoginInv'
  BY <1>1, OrdinaryOwners DEF StoredInv
<1>3. ASSUME NEW u \in Tabs PROVE Unblamed(u)'
  <2>1. CASE u = t
    BY <1>1, <2>1, UnblamedByCause DEF NoCall
  <2>2. CASE u # t
    <3>1. call'[u] = call[u] /\ Unblamed(u)
      BY <1>1, <2>2 DEF CallsKept, StoredInv
    <3> QED BY <1>1, <3>1, UnblamedKept
  <2> QED BY <2>1, <2>2
<1>4. StoredTokensWork'
  <2> SUFFICES ASSUME NEW b \in Browsers,
                      Family(stored[b])' # None, cause[Family(stored[b])'] = "none",
                      Refreshing(Family(stored[b]))' = {}
               PROVE  State(stored[b])' = "live"
    BY <1>1 DEF StoredTokensWork
  <2>0. stored \in [Browsers -> Ids \cup {None}] /\ BrowserOf[t] \in Browsers
    BY SessionsAssumption DEF BaseInv, SessionTypes
  <2>1. Family(stored[b])' = Family(stored'[b]) /\ State(stored[b])' = State(stored'[b])
    BY <1>1 DEF Family, State
  <2>2. CASE call[t].waiting /\ b = BrowserOf[t]
    <3>1. stored'[b] = IF call[t].step = "ok" THEN Token(t) ELSE None
      BY <1>1, <2>0, <2>2
    <3>2. stored'[b] = Token(t) /\ Token(t) # None
      BY <2>1, <3>1, FamilyType
    <3>3. cause[Family(Token(t))] = "none" /\ call[t].step # "create" /\ Unblamed(t)
      BY <1>1, <2>1, <3>2 DEF StoredInv
    <3> QED BY <2>1, <3>2, <3>3 DEF Unblamed
  <2>3. CASE ~ (call[t].waiting /\ b = BrowserOf[t])
    <3> DEFINE f == Family(stored[b])
    <3>1. stored'[b] = stored[b]
      BY <1>1, <2>0, <2>3
    <3>2. f' = f
      BY <2>1, <3>1
    <3>3. stored[b] # None /\ f \in Ids /\ cause[f] = "none" /\ Refreshing(f)' = {}
      BY <2>1, <3>1, <3>2, FamilyType
    <3>4. ASSUME NEW u \in Refreshing(f) PROVE FALSE
      <4>1. u \in Tabs /\ call[u].kind = "refresh" /\ Family(Token(u)) = f
        BY DEF Refreshing
      <4>2. u = t
        <5>1. ASSUME u # t PROVE u \in Refreshing(f)'
          <6>1. call'[u] = call[u]
            BY <1>1, <4>1, <5>1 DEF CallsKept
          <6>2. Family(Token(u))' = Family(Token(u))
            BY <1>1, <6>1 DEF Family, Token
          <6> QED BY <3>2, <4>1, <6>1, <6>2 DEF Refreshing
        <5> QED BY <3>3, <5>1
      <4>3. Token(t) # None
        BY <3>3, <4>1, <4>2, FamilyType
      <4>4. call[t].waiting
        BY <3>3, <4>1, <4>2, <4>3 DEF StoredInv, Unblamed
      <4>5. Holds(b, f) /\ Holds(BrowserOf[t], f)
        BY <4>1, <4>2 DEF Holds
      <4> QED BY <2>0, <2>3, <3>3, <4>4, <4>5 DEF StoredInv, OneBrowser
    <3> HIDE DEF f
    <3>5. Refreshing(f) = {}
      BY <3>4
    <3> USE DEF f
    <3> QED BY <2>1, <3>1, <3>3, <3>5, NoneIsNoId DEF StoredInv, StoredTokensWork
  <2> QED BY <2>2, <2>3
<1> QED BY <1>2, <1>3, <1>4 DEF StoredInv

\* A created session belongs to the family of its request, or to none before.
LEMMA CreateStored ==
  ASSUME BaseInv, StoredInv, NEW t \in Tabs, Create(t)
  PROVE  StoredInv'
<1>1. /\ CallsKept(t) /\ stored' = stored /\ cause' = cause
      /\ call[t].step = "create" /\ call'[t].step = "list"
      /\ call'[t].kind = call[t].kind /\ call'[t].waiting = call[t].waiting
  BY CreateEffects
<1>2. PICK s \in Ids :
        /\ State(s) = "absent" /\ session'[s].state = "live"
        /\ \A other \in Ids : other # s => session'[other] = session[other]
        /\ call'[t].token = s
        /\ IF Token(t) = None
           THEN call[t].kind = "login" /\ session'[s].family = s
           ELSE call[t].kind = "refresh" /\ session'[s].family = Family(Token(t))
  BY CreateEffects
<1>3. s # None /\ \A token \in Ids \cup {None} : Family(token) # s
  BY <1>2, NoneIsNoId DEF BaseInv, Family
<1>4. \A token \in Ids \cup {None} : token # s =>
        Family(token)' = Family(token) /\ (token # None => State(token)' = State(token))
  BY <1>2 DEF Family, State
<1>5. ASSUME NEW b \in Browsers
      PROVE  /\ Family(stored[b])' = Family(stored[b])
             /\ stored[b] # None => State(stored[b])' = State(stored[b])
             /\ Family(stored[b]) # s
  <2>1. stored[b] \in Ids \cup {None} /\ stored[b] # s
    BY <1>2, <1>3 DEF BaseInv, SessionTypes
  <2> QED BY <1>1, <1>2, <1>3, <2>1 DEF Family, State
<1>6. ASSUME NEW u \in Tabs
      PROVE  /\ Family(Token(u)) # s
             /\ u # t => /\ call'[u] = call[u] /\ Token(u)' = Token(u)
                         /\ Family(Token(u))' = Family(Token(u))
                         /\ Token(u) # None => State(Token(u))' = State(Token(u))
  <2>1. Token(u) \in Ids \cup {None} /\ Token(u) # s
    BY <1>2, <1>3, FamilyType DEF BaseInv
  <2>2. u # t => call'[u] = call[u]
    BY <1>1 DEF CallsKept
  <2> QED BY <1>2, <1>3, <2>1, <2>2 DEF Family, State, Token
<1>7. /\ Token(t)' = s /\ State(Token(t))' = "live"
      /\ Family(Token(t))' = IF Token(t) = None THEN s ELSE Family(Token(t))
  BY <1>2, <1>3 DEF Token, State, Family
<1>8. Family(None) = None
  BY FamilyType
<1>9. OneBrowser'
  <2> SUFFICES ASSUME NEW f \in Ids, NEW b \in Browsers, NEW c \in Browsers,
                      Holds(b, f)', Holds(c, f)'
               PROVE  b = c
    BY DEF OneBrowser
  <2>1. CASE Token(t) = None /\ f = s
    <3>1. ASSUME NEW d \in Browsers, Holds(d, f)' PROVE d = BrowserOf[t]
      BY <1>5, <1>6, <2>1, <3>1 DEF Holds
    <3> QED BY <3>1
  <2>2. CASE ~ (Token(t) = None /\ f = s)
    <3>1. ASSUME NEW d \in Browsers, Holds(d, f)' PROVE Holds(d, f)
      <4>1. CASE Family(stored[d])' = f
        BY <1>5, <4>1 DEF Holds
      <4>2. CASE \E u \in Tabs : BrowserOf[u] = d /\ Family(Token(u))' = f
        <5>1. PICK u \in Tabs : BrowserOf[u] = d /\ Family(Token(u))' = f
          BY <4>2
        <5>2. Family(Token(u)) = f
          BY <1>6, <1>7, <2>2, <5>1
        <5> QED BY <5>1, <5>2 DEF Holds
      <4> QED BY <3>1, <4>1, <4>2 DEF Holds
    <3> QED BY <3>1 DEF StoredInv, OneBrowser
  <2> QED BY <2>1, <2>2
<1>10. LoginInv'
  <2> SUFFICES ASSUME NEW u \in Tabs, call'[u].kind = "login", call'[u].token # None
               PROVE  /\ \A b \in Browsers : Family(stored[b])' # Family(Token(u))'
                      /\ \A v \in Tabs : v # u => Family(Token(v))' # Family(Token(u))'
    BY DEF LoginInv, Token
  <2>1. CASE u = t
    <3>1. Family(Token(u))' = s
      BY <1>1, <1>2, <1>7, <2>1
    <3> QED BY <1>5, <1>6, <2>1, <3>1
  <2>2. CASE u # t
    <3>1. call[u].kind = "login" /\ Token(u) # None /\ Family(Token(u))' = Family(Token(u))
      BY <1>6, <2>2 DEF Token
    <3>2. ASSUME NEW v \in Tabs, v # u PROVE Family(Token(v))' # Family(Token(u))
      BY <1>6, <1>7, <3>1, <3>2 DEF StoredInv, LoginInv
    <3> QED BY <1>5, <3>1, <3>2 DEF StoredInv, LoginInv
  <2> QED BY <2>1, <2>2
<1>11. ASSUME NEW u \in Tabs PROVE Unblamed(u)'
  <2>1. CASE u = t
    BY <1>1, <1>2, <1>7, <2>1 DEF StoredInv, Unblamed
  <2>2. CASE u # t
    BY <1>1, <1>6, <2>2 DEF StoredInv, Unblamed
  <2> QED BY <2>1, <2>2
<1>12. StoredTokensWork'
  <2> SUFFICES ASSUME NEW b \in Browsers,
                      Family(stored[b])' # None, cause[Family(stored[b])'] = "none",
                      Refreshing(Family(stored[b]))' = {}
               PROVE  State(stored[b])' = "live"
    BY <1>1 DEF StoredTokensWork
  <2> DEFINE f == Family(stored[b])
  <2>1. f' = f /\ f # None /\ cause[f] = "none" /\ Refreshing(f)' = {}
    BY <1>5
  <2>2. ASSUME NEW u \in Refreshing(f) PROVE u \in Refreshing(f)'
    <3>1. u \in Tabs /\ call[u].kind = "refresh" /\ Family(Token(u)) = f
      BY DEF Refreshing
    <3>2. call'[u].kind = "refresh" /\ Family(Token(u))' = f
      BY <1>1, <1>2, <1>6, <1>7, <3>1
    <3> QED BY <2>1, <3>1, <3>2 DEF Refreshing
  <2>3. State(stored[b]) = "live"
    BY <2>1, <2>2 DEF StoredInv, StoredTokensWork
  <2>4. stored[b] # None
    BY <1>8, <2>1
  <2> QED BY <1>5, <2>3, <2>4
<1> QED BY <1>9, <1>10, <1>11, <1>12 DEF StoredInv

-----------------------------------------------------------------------------
(* The limit on the live sessions                                          *)

\* There are finitely many sessions.
LEMMA FiniteSessions == \A S \in SUBSET Ids : IsFiniteSet(S)
<1>1. MaxSessions \in Int
  BY SessionsAssumption
<1>2. IsFiniteSet(Ids)
  BY <1>1, FS_Interval DEF Ids
<1> QED BY <1>2, FS_Subset

\* There are finitely many tabs.
LEMMA FiniteTabs == \A T \in SUBSET Tabs : IsFiniteSet(T)
BY SessionsAssumption, FS_Subset

\* A set of numbers has a least one.
LEMMA LeastElement ==
  ASSUME NEW S \in SUBSET Nat, S # {}
  PROVE  \E m \in S : \A n \in S : m <= n
<1>1. \E m \in S : \A n \in S : <<n, m>> \notin OpToRel(<, Nat)
  BY NatLessThanWellFounded, WFMin
<1>2. PICK m \in S : \A n \in S : <<n, m>> \notin OpToRel(<, Nat)
  BY <1>1
<1>3. ASSUME NEW n \in S PROVE m <= n
  <2>1. m \in Nat /\ n \in Nat
    OBVIOUS
  <2>2. ~ n < m
    BY <1>2, <2>1 DEF OpToRel
  <2> QED BY <2>1, <2>2
<1> QED BY <1>3

\* A part has no more elements than the whole.
LEMMA CardinalitySubset ==
  ASSUME NEW S, IsFiniteSet(S), NEW T, T \subseteq S
  PROVE  /\ Cardinality(T) <= Cardinality(S)
         /\ Cardinality(T) \in Nat /\ Cardinality(S) \in Nat /\ IsFiniteSet(T)
<1>1. IsFiniteSet(T) /\ Cardinality(T) <= Cardinality(S)
  BY FS_Subset
<1> QED BY <1>1, FS_CardinalityType

\* One more element adds one at most.
LEMMA CardinalityOneMore ==
  ASSUME NEW S, IsFiniteSet(S), NEW x, NEW T, T \subseteq S \cup {x}
  PROVE  /\ Cardinality(T) <= Cardinality(S) + 1
         /\ Cardinality(T) \in Nat /\ Cardinality(S) \in Nat
<1>1. IsFiniteSet(S \cup {x}) /\ Cardinality(S \cup {x}) <= Cardinality(S) + 1
  <2>1. /\ IsFiniteSet(S \cup {x})
        /\ Cardinality(S \cup {x}) = IF x \in S THEN Cardinality(S) ELSE Cardinality(S) + 1
    BY FS_AddElement
  <2>2. Cardinality(S) \in Nat
    BY FS_CardinalityType
  <2> QED BY <2>1, <2>2
<1>2. Cardinality(T) <= Cardinality(S \cup {x}) /\ Cardinality(T) \in Nat
      /\ Cardinality(S \cup {x}) \in Nat
  BY <1>1, CardinalitySubset
<1>3. Cardinality(S) \in Nat
  BY FS_CardinalityType
<1> QED BY <1>1, <1>2, <1>3

\* Without the sessions in excess no more than the limit are left: the oldest
\* that stays has fewer than the limit above it, and all the others are newer.
LEMMA ExcessLeavesLimit ==
  Cardinality(Live \ Excess) <= MaxActive
<1> DEFINE K == Live \ Excess
           Newer(s) == {newer \in Live : newer > s}
<1>1. K \subseteq Live /\ Live \subseteq Ids /\ IsFiniteSet(K) /\ K \in SUBSET Nat
  BY FiniteSessions DEF Live, Ids
<1>2. MaxActive \in Nat \ {0}
  BY SessionsAssumption
<1>3. CASE K = {}
  BY <1>2, <1>3, FS_EmptySet
<1>4. CASE K # {}
  <2>1. PICK m \in K : \A n \in K : m <= n
    BY <1>1, <1>4, LeastElement
  <2>2. IsFiniteSet(Newer(m)) /\ Cardinality(Newer(m)) \in Nat
    <3>1. Newer(m) \in SUBSET Ids
      BY <1>1
    <3> QED BY <3>1, FiniteSessions, FS_CardinalityType
  <2>3. Cardinality(Newer(m)) < MaxActive
    <3>1. ~ Cardinality(Newer(m)) >= MaxActive
      BY <2>1 DEF Excess
    <3> QED BY <1>2, <2>2, <3>1
  <2>4. K \subseteq Newer(m) \cup {m}
    BY <1>1, <2>1
  <2>5. Cardinality(K) <= Cardinality(Newer(m)) + 1 /\ Cardinality(K) \in Nat
    BY <2>2, <2>4, CardinalityOneMore
  <2> QED BY <1>2, <2>2, <2>3, <2>5
<1> QED BY <1>3, <1>4

\* What the limit counts is finite.
LEMMA LimitParts ==
  ASSUME NEW T \in SUBSET Pruning
  PROVE  /\ IsFiniteSet(Live \ Doomed(T)) /\ IsFiniteSet(Listing \ T)
         /\ Cardinality(Live \ Doomed(T)) \in Nat /\ Cardinality(Listing \ T) \in Nat
<1>1. Live \ Doomed(T) \in SUBSET Ids /\ Listing \ T \in SUBSET Tabs
  BY DEF Live, Listing
<1>2. IsFiniteSet(Live \ Doomed(T)) /\ IsFiniteSet(Listing \ T)
  BY <1>1, FiniteSessions, FiniteTabs
<1> QED BY <1>2, FS_CardinalityType

\* A step that leaves the requests about to prune where they are.
LEMMA LimitKept ==
  ASSUME BaseInv, LimitInv, RowsKept, lost' \in Nat, lost' >= lost,
         \A t \in Tabs :
           \/ call'[t].step = call[t].step /\ call'[t].excess = call[t].excess
           \/ call[t].step \notin {"list", "prune"} /\ call'[t].step \notin {"list", "prune"}
  PROVE  LimitInv'
<1>1. Live' \subseteq Live
  BY DEF RowsKept, Live, State
<1>2. Listing' = Listing /\ Pruning' = Pruning
  BY DEF Listing, Pruning
<1> SUFFICES ASSUME NEW T \in SUBSET Pruning
             PROVE  Cardinality(Live' \ Doomed(T)') <= MaxActive + Cardinality(Listing \ T) + lost'
  BY <1>2 DEF LimitInv
<1>3. Doomed(T)' = Doomed(T)
  BY DEF Doomed, Pruning
<1>4. /\ Cardinality(Live \ Doomed(T)) <= MaxActive + Cardinality(Listing \ T) + lost
      /\ IsFiniteSet(Live \ Doomed(T))
      /\ Cardinality(Live \ Doomed(T)) \in Nat /\ Cardinality(Listing \ T) \in Nat
  BY LimitParts DEF LimitInv
<1>5. Cardinality(Live' \ Doomed(T)') <= Cardinality(Live \ Doomed(T))
      /\ Cardinality(Live' \ Doomed(T)') \in Nat
  BY <1>1, <1>3, <1>4, CardinalitySubset
<1>6. lost \in Nat /\ MaxActive \in Nat
  BY SessionsAssumption DEF BaseInv, SessionTypes
<1> QED BY <1>4, <1>5, <1>6

\* A step that neither lists nor prunes keeps the limit.
LEMMA LimitKeptByTab ==
  ASSUME BaseInv, LimitInv, Ordinary, lost' >= lost, NEW t \in Tabs, CallsKept(t),
         \/ call'[t].step = call[t].step /\ call'[t].excess = call[t].excess
         \/ call[t].step \notin {"list", "prune"} /\ call'[t].step \notin {"list", "prune"}
  PROVE  LimitInv'
<1>1. \A u \in Tabs :
        \/ call'[u].step = call[u].step /\ call'[u].excess = call[u].excess
        \/ call[u].step \notin {"list", "prune"} /\ call'[u].step \notin {"list", "prune"}
  BY DEF CallsKept
<1>2. lost' \in Nat
  BY SessionsAssumption DEF Ordinary
<1> QED BY <1>1, <1>2, LimitKept DEF Ordinary

\* A request that creates a session is counted until it has pruned.
LEMMA CreateLimit ==
  ASSUME BaseInv, LimitInv, NEW t \in Tabs, Create(t)
  PROVE  LimitInv'
<1>1. /\ CallsKept(t) /\ lost' = lost
      /\ call[t].step = "create" /\ call'[t].step = "list"
  BY CreateEffects
<1>2. PICK s \in Ids : \A other \in Ids : other # s => session'[other] = session[other]
  BY CreateEffects
<1>3. Live' \subseteq Live \cup {s}
  BY <1>2 DEF Live, State
<1>4. /\ Pruning' = Pruning /\ Listing' = Listing \cup {t}
      /\ t \notin Listing /\ t \notin Pruning
      /\ \A u \in Pruning : call'[u] = call[u]
  BY <1>1 DEF Pruning, Listing, CallsKept
<1> SUFFICES ASSUME NEW T \in SUBSET Pruning
             PROVE  Cardinality(Live' \ Doomed(T)') <= MaxActive + Cardinality(Listing' \ T) + lost
  BY <1>1, <1>4 DEF LimitInv
<1>5. Doomed(T)' = Doomed(T)
  BY <1>4 DEF Doomed
<1>6. /\ Cardinality(Live \ Doomed(T)) <= MaxActive + Cardinality(Listing \ T) + lost
      /\ IsFiniteSet(Live \ Doomed(T)) /\ IsFiniteSet(Listing \ T)
      /\ Cardinality(Live \ Doomed(T)) \in Nat /\ Cardinality(Listing \ T) \in Nat
  BY LimitParts DEF LimitInv
<1>7. /\ Cardinality(Live' \ Doomed(T)') <= Cardinality(Live \ Doomed(T)) + 1
      /\ Cardinality(Live' \ Doomed(T)') \in Nat
  <2>1. Live' \ Doomed(T)' \subseteq (Live \ Doomed(T)) \cup {s}
    BY <1>3, <1>5
  <2> QED BY <1>6, <2>1, CardinalityOneMore
<1>8. Cardinality(Listing' \ T) = Cardinality(Listing \ T) + 1
  <2>1. Listing' \ T = (Listing \ T) \cup {t} /\ t \notin Listing \ T
    BY <1>4
  <2> QED BY <1>6, <2>1, FS_AddElement
<1>9. lost \in Nat /\ MaxActive \in Nat
  BY SessionsAssumption DEF BaseInv, SessionTypes
<1> QED BY <1>6, <1>7, <1>8, <1>9

\* The oldest sessions over the limit are those it lists.
LEMMA ListLimit ==
  ASSUME BaseInv, LimitInv, NEW t \in Tabs, List(t)
  PROVE  LimitInv'
<1>1. /\ CallsKept(t) /\ lost' = lost /\ session' = session
      /\ call[t].step = "list" /\ call'[t].step = "prune" /\ call'[t].excess = Excess
  BY ListEffects
<1>2. Live' = Live
  BY <1>1 DEF Live, State
<1>3. /\ Pruning' = Pruning \cup {t} /\ Listing' = Listing
      /\ \A u \in Pruning : call'[u] = call[u]
  BY <1>1 DEF Pruning, Listing, CallsKept
<1>4. lost \in Nat /\ MaxActive \in Nat
  BY SessionsAssumption DEF BaseInv, SessionTypes
<1> SUFFICES ASSUME NEW T \in SUBSET (Pruning \cup {t})
             PROVE  Cardinality(Live \ Doomed(T)') <= MaxActive + Cardinality(Listing \ T) + lost
  BY <1>1, <1>2, <1>3 DEF LimitInv
<1>5. CASE t \in T
  <2>1. Excess \subseteq Doomed(T)'
    BY <1>1, <1>5 DEF Doomed
  <2>2. IsFiniteSet(Live \ Excess)
    BY FiniteSessions DEF Live
  <2>3. /\ Cardinality(Live \ Doomed(T)') <= Cardinality(Live \ Excess)
        /\ Cardinality(Live \ Doomed(T)') \in Nat /\ Cardinality(Live \ Excess) \in Nat
    BY <2>1, <2>2, CardinalitySubset
  <2>4. Cardinality(Listing \ T) \in Nat
    BY FiniteTabs, FS_CardinalityType DEF Listing
  <2> QED BY <1>4, <2>3, <2>4, ExcessLeavesLimit
<1>6. CASE t \notin T
  <2>1. T \in SUBSET Pruning
    BY <1>6
  <2>2. Doomed(T)' = Doomed(T)
    BY <1>3, <2>1 DEF Doomed
  <2> QED BY <2>1, <2>2 DEF LimitInv
<1> QED BY <1>5, <1>6

\* Once they are revoked the request need not be counted any more.
LEMMA PruneLimit ==
  ASSUME BaseInv, LimitInv, NEW t \in Tabs, Prune(t)
  PROVE  LimitInv'
<1>1. /\ Ordinary /\ CallsKept(t) /\ lost' = lost
      /\ call[t].step = "prune" /\ call'[t].step = "ok"
      /\ \A s \in Ids \cap call[t].excess : session'[s].state # "live"
  BY PruneEffects
<1>2. Live' \subseteq Live \ call[t].excess
  BY <1>1 DEF Live, State, Ordinary, RowsKept
<1>3. /\ Pruning' = Pruning \ {t} /\ Listing' = Listing \ {t}
      /\ t \in Pruning /\ \A u \in Pruning' : call'[u] = call[u]
  BY <1>1 DEF Pruning, Listing, CallsKept
<1> SUFFICES ASSUME NEW T \in SUBSET (Pruning \ {t})
             PROVE  Cardinality(Live' \ Doomed(T)') <= MaxActive + Cardinality(Listing' \ T) + lost
  BY <1>1, <1>3 DEF LimitInv
<1>4. T \cup {t} \in SUBSET Pruning
  BY <1>3
<1>5. Live' \ Doomed(T)' \subseteq Live \ Doomed(T \cup {t})
  <2>1. Doomed(T)' = Doomed(T)
    BY <1>3 DEF Doomed
  <2>2. Doomed(T \cup {t}) = Doomed(T) \cup call[t].excess
    BY DEF Doomed
  <2> QED BY <1>2, <2>1, <2>2
<1>6. Cardinality(Listing' \ T) = Cardinality(Listing \ (T \cup {t}))
  <2>1. Listing' \ T = Listing \ (T \cup {t})
    BY <1>3
  <2> QED BY <2>1
<1>7. /\ Cardinality(Live \ Doomed(T \cup {t})) <= MaxActive + Cardinality(Listing \ (T \cup {t})) + lost
      /\ IsFiniteSet(Live \ Doomed(T \cup {t}))
      /\ Cardinality(Listing \ (T \cup {t})) \in Nat
  BY <1>4, LimitParts DEF LimitInv
<1>8. /\ Cardinality(Live' \ Doomed(T)') <= Cardinality(Live \ Doomed(T \cup {t}))
      /\ Cardinality(Live' \ Doomed(T)') \in Nat
      /\ Cardinality(Live \ Doomed(T \cup {t})) \in Nat
  BY <1>5, <1>7, CardinalitySubset
<1>9. lost \in Nat /\ MaxActive \in Nat
  BY SessionsAssumption DEF BaseInv, SessionTypes
<1> QED BY <1>6, <1>7, <1>8, <1>9

\* A lost request may leave one session more, and is counted.
LEMMA LoseLimit ==
  ASSUME BaseInv, LimitInv, NEW t \in Tabs, Lose(t)
  PROVE  LimitInv'
<1>1. CallsKept(t) /\ call'[t] = NoCall /\ session' = session /\ lost' = lost + 1
  BY LoseEffects
<1>2. Live' = Live
  BY <1>1 DEF Live, State
<1>3. /\ Pruning' \subseteq Pruning /\ Listing \subseteq Listing' \cup {t}
      /\ \A u \in Pruning' : call'[u] = call[u]
  BY <1>1 DEF Pruning, Listing, CallsKept, NoCall
<1> SUFFICES ASSUME NEW T \in SUBSET Pruning'
             PROVE  Cardinality(Live' \ Doomed(T)') <= MaxActive + Cardinality(Listing' \ T) + lost'
  BY DEF LimitInv
<1>4. T \in SUBSET Pruning
  BY <1>3
<1>5. Doomed(T)' = Doomed(T)
  BY <1>3 DEF Doomed
<1>6. /\ Cardinality(Live \ Doomed(T)) <= MaxActive + Cardinality(Listing \ T) + lost
      /\ Cardinality(Live \ Doomed(T)) \in Nat
  BY <1>4, LimitParts DEF LimitInv
<1>7. /\ Cardinality(Listing \ T) <= Cardinality(Listing' \ T) + 1
      /\ Cardinality(Listing \ T) \in Nat /\ Cardinality(Listing' \ T) \in Nat
  <2>1. Listing \ T \subseteq (Listing' \ T) \cup {t}
    BY <1>3
  <2>2. IsFiniteSet(Listing' \ T)
    BY FiniteTabs DEF Listing
  <2> QED BY <2>1, <2>2, CardinalityOneMore
<1>8. lost \in Nat /\ MaxActive \in Nat
  BY SessionsAssumption DEF BaseInv, SessionTypes
<1>9. Live' \ Doomed(T)' = Live \ Doomed(T)
  BY <1>2, <1>5
<1> QED BY <1>1, <1>6, <1>7, <1>8, <1>9

-----------------------------------------------------------------------------
(* The inductive invariant                                                 *)

IInv == BaseInv /\ OneInv /\ StoredInv /\ LimitInv

\* There are no sessions at first.
LEMMA InitIInv == Init => IInv
<1> SUFFICES ASSUME Init PROVE IInv
  OBVIOUS
<1>1. /\ session = [s \in Ids |-> [state |-> "absent", family |-> None]]
      /\ stored = [b \in Browsers |-> None]
      /\ call = [t \in Tabs |-> NoCall]
      /\ cause = [f \in Ids |-> "none"]
      /\ lost = 0
  BY DEF Init
<1>2. /\ \A t \in Tabs : call[t] = NoCall /\ Token(t) = None
      /\ \A s \in Ids : State(s) = "absent" /\ Family(s) = None
      /\ \A b \in Browsers : stored[b] = None
  BY <1>1, NoneIsNoId DEF NoCall, Token, State, Family
<1>3. BaseInv
  <2>1. SessionTypes
    BY <1>1, SessionsAssumption DEF SessionTypes, Row, Call, NoCall
  <2>2. \A t \in Tabs : CallInv(t)
    <3>1. \A t \in Tabs : call[t].kind = "none"
      BY <1>2 DEF NoCall
    <3> QED BY <1>2, <3>1 DEF CallInv
  <2> QED BY <1>1, <1>2, <2>1, <2>2 DEF BaseInv
<1>4. Live = {} /\ Family(None) = None
  BY <1>2 DEF Live, Family
<1>5. OneInv
  <2>1. \A f \in Ids : Refreshing(f) = {}
    BY <1>2 DEF Refreshing, NoCall
  <2> QED BY <1>4, <2>1 DEF OneInv
<1>6. StoredInv
  <2>1. OneBrowser
    BY <1>2, <1>4, NoneIsNoId DEF OneBrowser, Holds
  <2>2. LoginInv /\ \A t \in Tabs : Unblamed(t)
    BY <1>2 DEF LoginInv, Unblamed
  <2>3. StoredTokensWork
    BY <1>2, <1>4 DEF StoredTokensWork
  <2> QED BY <2>1, <2>2, <2>3 DEF StoredInv
<1>7. LimitInv
  <2> SUFFICES ASSUME NEW T \in SUBSET Pruning
               PROVE  Cardinality(Live \ Doomed(T)) <= MaxActive + Cardinality(Listing \ T) + lost
    BY DEF LimitInv
  <2>1. Live \ Doomed(T) = {}
    BY <1>4
  <2>2. Cardinality(Live \ Doomed(T)) = 0
    BY <2>1, FS_EmptySet
  <2>3. Cardinality(Listing \ T) \in Nat
    BY LimitParts
  <2> QED BY <1>1, <2>2, <2>3, SessionsAssumption
<1> QED BY <1>3, <1>5, <1>6, <1>7 DEF IInv

\* The requests lost are counted.
LEMMA LostIsNat == ASSUME SessionTypes PROVE lost \in Nat
BY SessionsAssumption DEF SessionTypes

\* The requests of the web client.
LEMMA SendIInv ==
  ASSUME IInv, NEW t \in Tabs, SendLogin(t) \/ SendRefresh(t) \/ SendLogout(t)
  PROVE  IInv'
<1>0. BaseInv /\ OneInv /\ StoredInv /\ LimitInv /\ lost \in Nat
  BY LostIsNat DEF IInv, BaseInv
<1>1. lost' = lost
  BY DEF SendLogin, SendRefresh, SendLogout, Send
<1>2. CASE SendLogin(t)
  <2>1. Ordinary /\ Calm /\ CallsKept(t) /\ call[t] = NoCall /\ call'[t].step = "create"
    BY <1>0, <1>2, SendLoginEffects
  <2>2. LimitInv'
    BY <1>0, <1>1, <2>1, LimitKeptByTab DEF NoCall
  <2> QED BY <1>0, <1>2, <2>1, <2>2, OrdinaryBase, CalmOne, SendLoginStored DEF IInv
<1>3. CASE SendRefresh(t)
  <2>1. Ordinary /\ CallsKept(t) /\ call[t] = NoCall /\ call'[t].step = "read"
    BY <1>0, <1>3, SendRefreshEffects
  <2>2. LimitInv'
    BY <1>0, <1>1, <2>1, LimitKeptByTab DEF NoCall
  <2> QED BY <1>0, <1>3, <2>1, <2>2, OrdinaryBase, SendRefreshOne, SendRefreshStored DEF IInv
<1>4. CASE SendLogout(t)
  <2>1. Ordinary /\ Calm /\ CallsKept(t) /\ call[t] = NoCall /\ call'[t].step = "read"
    BY <1>0, <1>4, SendLogoutEffects
  <2>2. LimitInv'
    BY <1>0, <1>1, <2>1, LimitKeptByTab DEF NoCall
  <2> QED BY <1>0, <1>4, <2>1, <2>2, OrdinaryBase, CalmOne, SendLogoutStored DEF IInv
<1> QED BY <1>2, <1>3, <1>4

\* The statements of refresh.
LEMMA RefreshIInv ==
  ASSUME IInv, NEW t \in Tabs,
         RefuseUser(t) \/ ReadRefresh(t) \/ RevokeReused(t) \/ Rotate(t) \/ Create(t)
  PROVE  IInv'
<1>0. BaseInv /\ OneInv /\ StoredInv /\ LimitInv /\ lost \in Nat
  BY LostIsNat DEF IInv, BaseInv
<1>1. lost' = lost
  BY DEF RefuseUser, ReadRefresh, RevokeReused, Rotate, Create, Step
<1>2. CASE ReadRefresh(t)
  <2>1. /\ Ordinary /\ CallsKept(t) /\ call[t].step = "read"
        /\ call'[t].step \in {"rotate", "reuse", "refused"}
    BY <1>0, <1>2, ReadRefreshEffects
  <2>2. LimitInv'
    BY <1>0, <1>1, <2>1, LimitKeptByTab
  <2> QED BY <1>0, <1>2, <2>1, <2>2, OrdinaryBase, ReadRefreshOne, ReadRefreshStored DEF IInv
<1>3. CASE RevokeReused(t)
  <2>1. Ordinary /\ Calm /\ CallsKept(t) /\ call[t].step = "reuse" /\ call'[t].step = "refused"
    BY <1>0, <1>3, RevokeFamilyEffects DEF RevokeReused
  <2>2. LimitInv'
    BY <1>0, <1>1, <2>1, LimitKeptByTab
  <2> QED BY <1>0, <1>3, <2>1, <2>2, OrdinaryBase, CalmOne, RevokeFamilyStored DEF IInv
<1>4. CASE Rotate(t)
  <2>1. Ordinary /\ CallsKept(t) /\ call[t].step = "rotate" /\ call'[t].step = "create"
    BY <1>0, <1>4, RotateEffects
  <2>2. LimitInv'
    BY <1>0, <1>1, <2>1, LimitKeptByTab
  <2> QED BY <1>0, <1>4, <2>1, <2>2, OrdinaryBase, RotateOne, RotateStored DEF IInv
<1>5. CASE Create(t)
  BY <1>0, <1>5, CreateEffects, CreateOne, CreateStored, CreateLimit DEF IInv
<1>6. CASE RefuseUser(t)
  <2>1. Ordinary /\ Calm /\ CallsKept(t) /\ call[t].step = "read" /\ call'[t].step = "refused"
    BY <1>0, <1>6, RefuseUserEffects
  <2>2. LimitInv'
    BY <1>0, <1>1, <2>1, LimitKeptByTab
  <2> QED BY <1>0, <1>6, <2>1, <2>2, OrdinaryBase, CalmOne, RefuseUserStored DEF IInv
<1> QED BY <1>2, <1>3, <1>4, <1>5, <1>6

\* The limit, and the statements of logout.
LEMMA PruneLogoutIInv ==
  ASSUME IInv, NEW t \in Tabs, List(t) \/ Prune(t) \/ ReadLogout(t) \/ RevokeLoggedOut(t)
  PROVE  IInv'
<1>0. BaseInv /\ OneInv /\ StoredInv /\ LimitInv /\ lost \in Nat
  BY LostIsNat DEF IInv, BaseInv
<1>1. lost' = lost
  BY DEF List, Prune, ReadLogout, RevokeLoggedOut, Step
<1>2. CASE List(t)
  <2>1. Ordinary /\ Calm
    BY <1>0, <1>2, ListEffects
  <2> QED BY <1>0, <1>2, <2>1, OrdinaryBase, CalmOne, ListPruneStored, ListLimit DEF IInv
<1>3. CASE Prune(t)
  <2>1. Ordinary /\ Calm
    BY <1>0, <1>3, PruneEffects
  <2> QED BY <1>0, <1>3, <2>1, OrdinaryBase, CalmOne, ListPruneStored, PruneLimit DEF IInv
<1>4. CASE ReadLogout(t)
  <2>1. /\ Ordinary /\ Calm /\ CallsKept(t) /\ call[t].step = "read"
        /\ call'[t].step \in {"revoke", "refused"}
    BY <1>0, <1>4, ReadLogoutEffects
  <2>2. LimitInv'
    BY <1>0, <1>1, <2>1, LimitKeptByTab
  <2> QED BY <1>0, <1>4, <2>1, <2>2, OrdinaryBase, CalmOne, ReadLogoutStored DEF IInv
<1>5. CASE RevokeLoggedOut(t)
  <2>1. Ordinary /\ Calm /\ CallsKept(t) /\ call[t].step = "revoke" /\ call'[t].step = "refused"
    BY <1>0, <1>5, RevokeFamilyEffects DEF RevokeLoggedOut
  <2>2. LimitInv'
    BY <1>0, <1>1, <2>1, LimitKeptByTab
  <2> QED BY <1>0, <1>5, <2>1, <2>2, OrdinaryBase, CalmOne, RevokeFamilyStored DEF IInv
<1> QED BY <1>2, <1>3, <1>4, <1>5

\* Answers, and what goes wrong with them.
LEMMA ClientIInv ==
  ASSUME IInv, NEW t \in Tabs, Answer(t) \/ Lose(t) \/ Close(t) \/ Open(t)
  PROVE  IInv'
<1>0. BaseInv /\ OneInv /\ StoredInv /\ LimitInv /\ lost \in Nat
  BY LostIsNat DEF IInv, BaseInv
<1>1. CASE Answer(t)
  <2>1. /\ Ordinary /\ Calm /\ CallsKept(t) /\ call'[t] = NoCall
        /\ call[t].step \in {"ok", "refused"}
    BY <1>0, <1>1, AnswerEffects
  <2>2. lost' = lost
    BY <1>1 DEF Answer
  <2>3. LimitInv'
    BY <1>0, <2>1, <2>2, LimitKeptByTab DEF NoCall
  <2> QED BY <1>0, <1>1, <2>1, <2>3, OrdinaryBase, CalmOne, AnswerStored DEF IInv
<1>2. CASE Lose(t)
  <2>1. Ordinary /\ Calm
    BY <1>0, <1>2, LoseEffects
  <2> QED BY <1>0, <1>2, <2>1, OrdinaryBase, CalmOne, LoseStored, LoseLimit DEF IInv
<1>3. CASE Close(t)
  <2>1. /\ Ordinary /\ Calm /\ CallsKept(t) /\ lost' = lost + 1
        /\ call'[t].step = call[t].step /\ call'[t].excess = call[t].excess
    BY <1>0, <1>3, CloseEffects
  <2>2. LimitInv'
    BY <1>0, <2>1, LimitKeptByTab
  <2> QED BY <1>0, <1>3, <2>1, <2>2, OrdinaryBase, CalmOne, CloseStored DEF IInv
<1>4. CASE Open(t)
  <2>1. /\ Ordinary /\ Calm /\ Spared /\ call' = call /\ lost' = lost
        /\ \A b \in Browsers : stored'[b] \in {None, stored[b]}
    BY <1>0, <1>4, OpenEffects
  <2>2. LimitInv'
    BY <1>0, <2>1, LimitKept DEF Ordinary
  <2> QED BY <1>0, <1>4, <2>1, <2>2, OrdinaryBase, CalmOne, StoredByNone DEF IInv
<1> QED BY <1>1, <1>2, <1>3, <1>4

\* A reset, time, and a step of something else.
LEMMA QuietIInv ==
  ASSUME IInv, Reset \/ (\E s \in Ids : Expire(s) \/ Purge(s))
               \/ UNCHANGED <<session, stored, call, cause, lost>>
  PROVE  IInv'
<1>0. BaseInv /\ OneInv /\ StoredInv /\ LimitInv /\ lost \in Nat
  BY LostIsNat DEF IInv, BaseInv
<1>1. Ordinary /\ Calm /\ Spared /\ call' = call /\ stored' = stored /\ lost' = lost
  BY <1>0, ResetEffects, LeaveEffects, StutterEffects
<1>2. LimitInv'
  BY <1>0, <1>1, LimitKept DEF Ordinary
<1>3. StoredInv'
  BY <1>0, <1>1, StoredByNone
<1> QED BY <1>0, <1>1, <1>2, <1>3, OrdinaryBase, CalmOne DEF IInv

\* Every step keeps the invariant.
LEMMA NextIInv == IInv /\ [Next]_vars => IInv'
<1> SUFFICES ASSUME IInv, Next \/ UNCHANGED vars PROVE IInv'
  OBVIOUS
<1>1. ASSUME NEW t \in Tabs,
             \/ SendLogin(t) \/ SendRefresh(t) \/ SendLogout(t)
             \/ RefuseUser(t) \/ ReadRefresh(t) \/ RevokeReused(t) \/ Rotate(t)
             \/ Create(t) \/ List(t) \/ Prune(t)
             \/ ReadLogout(t) \/ RevokeLoggedOut(t)
             \/ Answer(t) \/ Lose(t) \/ Close(t) \/ Open(t)
      PROVE  IInv'
  BY <1>1, SendIInv, RefreshIInv, PruneLogoutIInv, ClientIInv
<1>2. CASE UNCHANGED <<session, stored, call, cause, lost>>
  BY <1>2, QuietIInv
<1> QED BY <1>1, <1>2, QuietIInv DEF Next, Requests, RefreshNothing, vars

\* So it always holds.
LEMMA SpecIInv == Spec => []IInv
BY InitIInv, NextIInv, PTL DEF Spec

-----------------------------------------------------------------------------
(* The theorems                                                            *)

\* A set whose elements are all equal has one at most.
LEMMA AtMostOne ==
  ASSUME NEW S, IsFiniteSet(S), \A x, y \in S : x = y
  PROVE  Cardinality(S) \in Nat /\ Cardinality(S) <= 1
<1>1. CASE S = {}
  BY <1>1, FS_EmptySet
<1>2. CASE S # {}
  <2>1. PICK x : S = {x}
    BY <1>2
  <2> QED BY <2>1, FS_Singleton
<1> QED BY <1>1, <1>2

\* However many tabs and browsers log in and refresh at the same time, and
\* whichever of their requests are lost between the creation of a session and
\* the pruning of the others (createSession, pruneUserSessions), a user has no
\* more live sessions than the limit, the requests about to prune, and those
\* lost before they did.
THEOREM LiveSessionsAreLimited == Spec => []SessionsWithinLimit
<1>1. IInv => SessionsWithinLimit
  <2> SUFFICES ASSUME IInv PROVE SessionsWithinLimit
    OBVIOUS
  <2>1. {} \in SUBSET Pruning
    OBVIOUS
  <2>2. Cardinality(Live \ Doomed({})) <= MaxActive + Cardinality(Listing \ {}) + lost
    BY <2>1 DEF IInv, LimitInv
  <2>3. Live \ Doomed({}) = Live /\ Listing \ {} = Listing
    BY DEF Doomed
  <2> QED BY <2>2, <2>3 DEF SessionsWithinLimit, Listing
<1> QED BY <1>1, SpecIInv, PTL

\* A family in which no two refreshes overlapped has one session that can be
\* refreshed, present or about to be created (refresh, createSession), whatever
\* the logouts, the resets, the expiry and the lost answers of its browsers.
THEOREM FamiliesHaveOneSession == Spec => []OneSessionPerFamily
<1>1. IInv => OneSessionPerFamily
  <2> SUFFICES ASSUME IInv, NEW f \in Ids, cause[f] # "overlap"
               PROVE  Cardinality(FamilyOf(f) \cap Live)
                        + Cardinality({t \in Refreshing(f) : call[t].step = "create"}) <= 1
    BY DEF OneSessionPerFamily
  <2> DEFINE A == FamilyOf(f) \cap Live
             B == {t \in Refreshing(f) : call[t].step = "create"}
  <2>1. IsFiniteSet(A) /\ IsFiniteSet(B)
    <3>1. A \in SUBSET Ids /\ B \in SUBSET Tabs
      BY DEF Live, Refreshing
    <3> QED BY <3>1, FiniteSessions, FiniteTabs
  <2>2. (\A x, y \in A : x = y) /\ (\A t, u \in B : t = u) /\ (B # {} => A = {})
    BY DEF IInv, OneInv
  <2> HIDE DEF A, B
  <2>3. Cardinality(A) \in Nat /\ Cardinality(A) <= 1 /\ Cardinality(B) \in Nat /\ Cardinality(B) <= 1
    BY <2>1, <2>2, AtMostOne
  <2>4. A = {} => Cardinality(A) = 0
    BY FS_EmptySet
  <2>5. B = {} => Cardinality(B) = 0
    BY FS_EmptySet
  <2>6. Cardinality(A) + Cardinality(B) <= 1
    BY <2>2, <2>3, <2>4, <2>5
  <2> QED BY <2>6 DEF A, B
<1> QED BY <1>1, SpecIInv, PTL

\* In every browser the refresh token that is stored can be used (refreshTokens
\* of the web client, refresh of AuthService), unless its family was logged out,
\* reset, over the limit or expired, an answer was lost, or two of its refreshes
\* overlapped.
THEOREM BrowsersStoreLiveTokens == Spec => []StoredTokensWork
<1>1. IInv => StoredTokensWork
  BY DEF IInv, StoredInv
<1> QED BY <1>1, SpecIInv, PTL
=============================================================================
