----------------------------- MODULE OIDCProofs -----------------------------
(***************************************************************************)
(* Theorems about the logins, for every set of Routemaps, issuers, clients *)
(* and tokens and for every value of the bounds.                           *)
(***************************************************************************)
EXTENDS OIDC, FiniteSetTheorems, TLAPS

-----------------------------------------------------------------------------
(* randomToken: there is an unused token. *)

LEMMA Images ==
    ASSUME NEW S, IsFiniteSet(S), NEW f
    PROVE  /\ IsFiniteSet({f[x] : x \in S})
           /\ Cardinality({f[x] : x \in S}) <= Cardinality(S)
<1> DEFINE T == {f[x] : x \in S}
           g == [x \in S |-> f[x]]
<1>1. g \in Surjection(S, T)
  BY DEF Surjection
<1> HIDE DEF g, T
<1>2. IsFiniteSet(T) /\ Cardinality(T) <= Cardinality(S)
  BY <1>1, FS_Surjection
<1> QED
  BY <1>2 DEF T

LEMMA FreshToken ==
    /\ randomToken \in Token
    /\ \A k \in Routemap : login[k] # randomToken
    /\ \A t \in Tab : tab[t].token # randomToken
<1> DEFINE ofTab  == [t \in Tab |-> tab[t].token]
           Logins == {login[k] : k \in Routemap}
           Tabs   == {ofTab[t] : t \in Tab}
<1>1. IsFiniteSet(Routemap) /\ IsFiniteSet(Tab) /\ IsFiniteSet(Token)
  BY OIDCAssumption
<1>2. IsFiniteSet(Logins) /\ Cardinality(Logins) <= Cardinality(Routemap)
  BY <1>1, Images
<1>3. IsFiniteSet(Tabs) /\ Cardinality(Tabs) <= Cardinality(Tab)
  <2> HIDE DEF ofTab
  <2> QED
    BY <1>1, Images
<1>4. Tabs = {tab[t].token : t \in Tab}
  OBVIOUS
<1> HIDE DEF Logins, Tabs
<1>5. /\ IsFiniteSet(Logins \cup Tabs)
      /\ Cardinality(Logins \cup Tabs) <= Cardinality(Routemap) + Cardinality(Tab)
  <2>1. /\ IsFiniteSet(Logins \cup Tabs)
        /\ Cardinality(Logins \cup Tabs) =
              Cardinality(Logins) + Cardinality(Tabs) - Cardinality(Logins \cap Tabs)
    BY <1>2, <1>3, FS_Union
  <2>2. /\ Cardinality(Logins) \in Nat /\ Cardinality(Tabs) \in Nat
        /\ Cardinality(Routemap) \in Nat /\ Cardinality(Tab) \in Nat
    BY <1>1, <1>2, <1>3, FS_CardinalityType
  <2>3. Cardinality(Logins \cap Tabs) \in Nat
    <3>1. IsFiniteSet(Logins \cap Tabs)
      BY <1>2, FS_Subset
    <3> QED
      BY <3>1, FS_CardinalityType
  <2> QED
    BY <2>1, <2>2, <2>3, <1>2, <1>3
<1>6. ~(Token \subseteq Logins \cup Tabs)
  <2>1. SUFFICES ASSUME Token \in SUBSET (Logins \cup Tabs) PROVE FALSE
    OBVIOUS
  <2>2. Cardinality(Token) <= Cardinality(Logins \cup Tabs)
    BY <1>5, <2>1, FS_Subset
  <2>3. /\ Cardinality(Token) \in Nat /\ Cardinality(Routemap) \in Nat
        /\ Cardinality(Tab) \in Nat /\ Cardinality(Logins \cup Tabs) \in Nat
    BY <1>1, <1>5, FS_CardinalityType
  <2>4. Cardinality(Token) > Cardinality(Routemap) + Cardinality(Tab)
    BY OIDCAssumption
  <2> QED
    BY <2>2, <2>3, <2>4, <1>5
<1>7. \E n \in Token : /\ \A k \in Routemap : login[k] # n
                       /\ \A t \in Tab : tab[t].token # n
  BY <1>4, <1>6 DEF Logins
<1> QED
  BY <1>7 DEF randomToken

-----------------------------------------------------------------------------
(* The inductive invariant. *)

\* A token in a cookie is that of the dashboard its login began on.
OwnTokens ==
    \A j \in Routemap, t \in Tab :
        tab[t].token # Nil /\ login[j] = tab[t].token => j = page[t]

\* A callback that is under way came back to the dashboard it began on.
OwnCallbacks ==
    \A t \in Tab : tab[t].pc = "callback" => tab[t].redirect = page[t]

\* A session cookie was made at the end of a login on its own dashboard.
MadeBy(token, k, l) ==
    /\ l.rm = k /\ l.auth = <<token.iss, token.aud>>
    /\ l.key = token.key /\ token.exp = l.at + SessionTTL

OwnSessions ==
    \A k \in Routemap :
        session[k] # Nil => \E l \in exchanged : MadeBy(session[k], k, l)

AccessInv == TypeOK /\ OwnTokens /\ OwnCallbacks /\ OwnSessions

LEMMA IdleType == Idle \in TabState
  BY DEF Idle, TabState

LEMMA AuthType == ASSUME NEW a \in AuthSpec
                  PROVE  cacheKey(a) \in Issuer \X Client /\ a # Nil
  BY OIDCAssumption DEF AuthSpec, cacheKey

LEMMA PageType == ASSUME AccessInv, NEW t \in Tab PROVE page[t] \in Routemap
  BY DEF AccessInv, TypeOK

LEMMA AccessInit == Init => AccessInv
<1> SUFFICES ASSUME Init PROVE AccessInv
  OBVIOUS
<1>1. TypeOK
  BY OIDCAssumption, IdleType DEF Init, TypeOK, Idle
<1> QED
  BY <1>1 DEF Init, AccessInv, OwnTokens, OwnCallbacks, OwnSessions, Idle

\* What holds of the cookies when a login is sent off.
LEMMA RedirectStep ==
    ASSUME AccessInv, NEW t \in Tab, NEW a \in AuthSpec,
           NEW redirect \in Routemap, Redirect(t, a, redirect), UNCHANGED page
    PROVE  /\ tab' \in [Tab -> TabState]
           /\ login' \in [Routemap -> Token \cup {Nil}]
           /\ \A u \in Tab :
                /\ tab'[u].pc # "idle" => tab'[u].auth # Nil
                /\ tab'[u].pc = "callback" => tab'[u].view # Nil
                /\ tab'[u].pc \in {"idp", "code", "callback"} =>
                       tab'[u].token # Nil /\ tab'[u].redirect # Nil
           /\ OwnTokens' /\ OwnCallbacks'
<1> DEFINE n == randomToken
           new == [pc |-> "idp", auth |-> a, token |-> n,
                   redirect |-> redirect, view |-> Nil]
<1>1. /\ n \in Token /\ n # Nil
      /\ \A j \in Routemap : login[j] # n
      /\ \A u \in Tab : tab[u].token # n
  BY FreshToken, OIDCAssumption
<1>2. a # Nil /\ redirect # Nil
  BY AuthType, OIDCAssumption
<1> HIDE DEF n
<1>3. tab' = [tab EXCEPT ![t] = new] /\ login' = [login EXCEPT ![page[t]] = n]
  BY DEF Redirect, n
<1>4. new \in TabState
  BY <1>1 DEF TabState
<1>5. tab \in [Tab -> TabState] /\ login \in [Routemap -> Token \cup {Nil}]
  BY DEF AccessInv, TypeOK
<1>6. tab' \in [Tab -> TabState] /\ login' \in [Routemap -> Token \cup {Nil}]
  BY <1>1, <1>3, <1>4, <1>5
<1>7. ASSUME NEW u \in Tab
      PROVE  /\ tab'[u].pc # "idle" => tab'[u].auth # Nil
             /\ tab'[u].pc = "callback" => tab'[u].view # Nil
             /\ tab'[u].pc \in {"idp", "code", "callback"} =>
                    tab'[u].token # Nil /\ tab'[u].redirect # Nil
  BY <1>1, <1>2, <1>3, <1>5 DEF AccessInv, TypeOK
<1>8. OwnTokens'
  BY <1>1, <1>3, <1>5 DEF AccessInv, OwnTokens
<1>9. OwnCallbacks'
  BY <1>3, <1>5 DEF AccessInv, OwnCallbacks
<1> QED
  BY <1>6, <1>7, <1>8, <1>9

\* What holds of the sessions when a login on dashboard k ends there.
LEMMA ExchangeStep ==
    ASSUME AccessInv, NEW t \in Tab, NEW a \in AuthSpec, NEW redirect,
           tab[t].redirect = page[t], Exchange(t, a, redirect), UNCHANGED login
    PROVE  /\ tab' = [tab EXCEPT ![t] = Idle]
           /\ session' \in [Routemap -> SessionPayload \cup {Nil}]
           /\ exchanged' \subseteq Login
           /\ OwnSessions'
<1> DEFINE k == page[t]
           token == makeSessionToken(k, a)
           l == [rm |-> k, auth |-> cacheKey(a), key |-> SessionKey, at |-> now]
<1>1. k \in Routemap /\ SessionKey \in Nat /\ now \in Nat /\ SessionTTL \in Nat
  BY OIDCAssumption, PageType DEF AccessInv, TypeOK
<1>2. token \in SessionPayload /\ l \in Login /\ MadeBy(token, k, l)
  BY <1>1, AuthType DEF makeSessionToken, SessionPayload, Login, MadeBy, AuthSpec, cacheKey
<1>3. /\ session \in [Routemap -> SessionPayload \cup {Nil}]
      /\ exchanged \subseteq Login
  BY DEF AccessInv, TypeOK
<1> HIDE DEF token, l
<1>4. \/ session' = [session EXCEPT ![k] = token] /\ exchanged' = exchanged \cup {l}
      \/ session' = session /\ exchanged' = exchanged
  BY DEF Exchange, token, l
<1>5. tab' = [tab EXCEPT ![t] = Idle]
  BY DEF Exchange
<1>6. /\ session' \in [Routemap -> SessionPayload \cup {Nil}]
      /\ exchanged' \subseteq Login
  BY <1>2, <1>3, <1>4
<1>7. OwnSessions'
  <2> SUFFICES ASSUME NEW j \in Routemap, session'[j] # Nil
               PROVE  \E x \in exchanged' : MadeBy(session'[j], j, x)
    BY DEF OwnSessions, MadeBy
  <2>1. CASE session'[j] = session[j]
    <3>1. PICK x \in exchanged : MadeBy(session[j], j, x)
      BY <2>1 DEF AccessInv, OwnSessions
    <3> QED
      BY <3>1, <2>1, <1>4
  <2>2. CASE session'[j] # session[j]
    <3>1. j = k /\ session'[j] = token /\ l \in exchanged'
      BY <2>2, <1>3, <1>4
    <3> QED
      BY <3>1, <1>2
  <2> QED
    BY <2>1, <2>2
<1> QED
  BY <1>5, <1>6, <1>7

\* A tab that goes idle leaves the tokens and the callbacks as they should be.
LEMMA IdleStep ==
    ASSUME AccessInv, NEW t \in Tab, tab' = [tab EXCEPT ![t] = Idle],
           UNCHANGED <<page, login>>
    PROVE  /\ tab' \in [Tab -> TabState]
           /\ \A u \in Tab :
                /\ tab'[u].pc # "idle" => tab'[u].auth # Nil
                /\ tab'[u].pc = "callback" => tab'[u].view # Nil
                /\ tab'[u].pc \in {"idp", "code", "callback"} =>
                       tab'[u].token # Nil /\ tab'[u].redirect # Nil
           /\ OwnTokens' /\ OwnCallbacks'
<1>1. tab \in [Tab -> TabState]
  BY DEF AccessInv, TypeOK
<1>2. tab' \in [Tab -> TabState]
  BY <1>1, IdleType
<1>3. ASSUME NEW u \in Tab
      PROVE  tab'[u] = Idle \/ tab'[u] = tab[u]
  BY <1>1
<1> QED
  BY <1>2, <1>3 DEF AccessInv, TypeOK, Idle, OwnTokens, OwnCallbacks

LEMMA AccessStep == AccessInv /\ [Next]_vars => AccessInv'
<1> SUFFICES ASSUME AccessInv, [Next]_vars PROVE AccessInv'
  OBVIOUS
<1>t. /\ auth \in [Routemap -> AuthSpec \cup {Nil}]
      /\ providers \in [Issuer \X Client -> Routemap \cup {Nil}]
      /\ tab \in [Tab -> TabState]
      /\ login \in [Routemap -> Token \cup {Nil}]
  BY DEF AccessInv, TypeOK
<1>a. ASSUME NEW t \in Tab
      PROVE  /\ tab[t].auth \in AuthSpec \cup {Nil}
             /\ tab[t].view \in AuthSpec \cup {Nil}
             /\ tab[t].redirect \in Routemap \cup {Nil}
             /\ tab[t].pc # "idle" => tab[t].auth \in AuthSpec
             /\ tab[t].pc = "callback" => tab[t].view \in AuthSpec
             /\ tab[t].pc \in {"idp", "code", "callback"} =>
                    tab[t].token # Nil /\ tab[t].redirect \in Routemap
  BY <1>t DEF AccessInv, TypeOK, TabState
<1>1. ASSUME NEW t \in Tab, VisitLogin(t) PROVE AccessInv'
  <2> DEFINE a == auth[page[t]]
             entry == providers[cacheKey(a)]
  <2>1. a \in AuthSpec
    BY <1>1, <1>t, PageType DEF VisitLogin, Admitted
  <2>2. entry \in Routemap \cup {Nil}
    BY <2>1, <1>t, AuthType
  <2>3. CASE entry # Nil
    <3>1. Redirect(t, a, entry)
      BY <1>1, <2>3 DEF VisitLogin
    <3> HIDE DEF entry, a
    <3> QED
      BY <1>1, <2>1, <2>2, <2>3, <3>1, RedirectStep
         DEF VisitLogin, AccessInv, TypeOK, OwnSessions, MadeBy
  <2>4. CASE entry = Nil
    <3> DEFINE new == [Idle EXCEPT !.pc = "discover", !.auth = a]
    <3>1. tab' = [tab EXCEPT ![t] = new] /\ UNCHANGED <<page, login>>
      BY <1>1, <2>4 DEF VisitLogin
    <3>2. /\ new \in TabState /\ new.token = Nil /\ new.pc = "discover"
          /\ new.auth # Nil
      BY <2>1, AuthType DEF Idle, TabState
    <3> HIDE DEF new
    <3>3. TypeOK'
      BY <1>1, <1>t, <3>1, <3>2 DEF VisitLogin, AccessInv, TypeOK
    <3>4. OwnTokens' /\ OwnCallbacks'
      BY <1>t, <3>1, <3>2 DEF AccessInv, OwnTokens, OwnCallbacks
    <3> QED
      BY <1>1, <3>3, <3>4 DEF VisitLogin, AccessInv, OwnSessions, MadeBy
  <2> QED
    BY <2>3, <2>4
<1>2. ASSUME NEW t \in Tab, Discover(t) PROVE AccessInv'
  <2> DEFINE a == tab[t].auth
  <2>1. a \in AuthSpec /\ a.redirect \in Routemap
    BY <1>2, <1>a DEF Discover, AuthSpec
  <2>2. Redirect(t, a, a.redirect)
    BY <1>2 DEF Discover
  <2>3. providers' = [providers EXCEPT ![cacheKey(a)] = a.redirect]
    BY <1>2 DEF Discover
  <2> HIDE DEF a
  <2>4. providers' \in [Issuer \X Client -> Routemap \cup {Nil}]
    BY <2>1, <2>3, <1>t
  <2>5. OwnSessions'
    BY <1>2 DEF Discover, AccessInv, OwnSessions, MadeBy
  <2>6. TypeOK' /\ OwnTokens' /\ OwnCallbacks'
    BY <1>2, <2>1, <2>2, <2>4, RedirectStep DEF Discover, AccessInv, TypeOK
  <2> QED
    BY <2>5, <2>6 DEF AccessInv
<1>3. ASSUME NEW t \in Tab, SignIn(t) PROVE AccessInv'
  <2>1. tab[t].pc = "idp" /\ tab' = [tab EXCEPT ![t].pc = "code"]
    BY <1>3 DEF SignIn
  <2>2. tab' \in [Tab -> TabState]
    BY <2>1, <1>t DEF TabState
  <2>3. TypeOK'
    BY <1>3, <1>t, <2>1, <2>2 DEF SignIn, AccessInv, TypeOK, TabState
  <2>4. OwnTokens' /\ OwnCallbacks'
    BY <1>3, <1>t, <2>1 DEF SignIn, AccessInv, OwnTokens, OwnCallbacks, TabState
  <2> QED
    BY <1>3, <2>3, <2>4 DEF SignIn, AccessInv, OwnSessions, MadeBy
<1>4. ASSUME NEW t \in Tab, handleOIDCCallback(t) PROVE AccessInv'
  <2> DEFINE at == tab[t].redirect
             a  == auth[at]
             accepted == /\ a # Nil
                         /\ login[at] = tab[t].token
                         /\ validateIssuerURL(a.issuer)
  <2>1. tab[t].pc = "code" /\ at \in Routemap /\ tab[t].token # Nil
    BY <1>4, <1>a DEF handleOIDCCallback
  <2>2. CASE ~accepted
    <3>1. tab' = [tab EXCEPT ![t] = Idle] /\ UNCHANGED <<session, exchanged, login>>
      BY <1>4, <2>2 DEF handleOIDCCallback
    <3> QED
      BY <1>4, <3>1, IdleStep
         DEF handleOIDCCallback, AccessInv, TypeOK, OwnSessions, MadeBy
  <2>3. CASE accepted
    <3>1. at = page[t]
      BY <2>1, <2>3 DEF AccessInv, OwnTokens
    <3>2. a \in AuthSpec
      BY <2>1, <2>3, <1>t
    <3>3. CASE providers[cacheKey(a)] # Nil
      <4>1. Exchange(t, a, providers[cacheKey(a)]) /\ UNCHANGED login
        BY <1>4, <2>3, <3>3 DEF handleOIDCCallback
      <4> HIDE DEF a, accepted
      <4> QED
        BY <1>4, <3>1, <3>2, <4>1, ExchangeStep, IdleStep
           DEF handleOIDCCallback, AccessInv, TypeOK
    <3>4. CASE providers[cacheKey(a)] = Nil
      <4> DEFINE new == [tab[t] EXCEPT !.pc = "callback", !.view = a]
      <4>1. /\ tab' = [tab EXCEPT ![t] = new]
            /\ UNCHANGED <<page, session, exchanged, login>>
        BY <1>4, <2>3, <3>4 DEF handleOIDCCallback
      <4>2. /\ new \in TabState
            /\ new.pc = "callback" /\ new.view = a /\ new.auth = tab[t].auth
            /\ new.token = tab[t].token /\ new.redirect = page[t]
        BY <1>t, <3>1, <3>2 DEF TabState
      <4>3. a # Nil /\ tab[t].auth # Nil /\ page[t] # Nil
        BY <2>1, <3>2, <1>a, AuthType, PageType, OIDCAssumption
      <4> HIDE DEF a, accepted, new
      <4>4. tab' \in [Tab -> TabState]
        BY <4>1, <4>2, <1>t
      <4>5. ASSUME NEW u \in Tab
            PROVE  /\ tab'[u].pc # "idle" => tab'[u].auth # Nil
                   /\ tab'[u].pc = "callback" => tab'[u].view # Nil
                   /\ tab'[u].pc \in {"idp", "code", "callback"} =>
                          tab'[u].token # Nil /\ tab'[u].redirect # Nil
        BY <1>t, <2>1, <4>1, <4>2, <4>3 DEF AccessInv, TypeOK
      <4>6. TypeOK'
        BY <1>4, <4>1, <4>4, <4>5 DEF handleOIDCCallback, AccessInv, TypeOK
      <4>7. OwnTokens' /\ OwnCallbacks'
        BY <1>t, <4>1, <4>2 DEF AccessInv, OwnTokens, OwnCallbacks
      <4> QED
        BY <4>1, <4>6, <4>7 DEF AccessInv, OwnSessions, MadeBy
    <3> QED
      BY <3>3, <3>4
  <2> QED
    BY <2>2, <2>3
<1>5. ASSUME NEW t \in Tab, CallbackDiscover(t) PROVE AccessInv'
  <2> DEFINE a == tab[t].view
  <2>1. a \in AuthSpec /\ a.redirect \in Routemap /\ tab[t].redirect = page[t]
    BY <1>5, <1>a DEF CallbackDiscover, AuthSpec, AccessInv, OwnCallbacks
  <2>2. /\ providers' = [providers EXCEPT ![cacheKey(a)] = a.redirect]
        /\ Exchange(t, a, a.redirect) /\ UNCHANGED login
    BY <1>5 DEF CallbackDiscover
  <2> HIDE DEF a
  <2>3. providers' \in [Issuer \X Client -> Routemap \cup {Nil}]
    BY <2>1, <2>2, <1>t
  <2> QED
    BY <1>5, <2>1, <2>2, <2>3, ExchangeStep, IdleStep
       DEF CallbackDiscover, AccessInv, TypeOK
<1>6. ASSUME NEW t \in Tab, CallFails(t) PROVE AccessInv'
  <2>1. tab' = [tab EXCEPT ![t] = Idle] /\ UNCHANGED <<session, exchanged, login>>
    BY <1>6 DEF CallFails
  <2>2. faults' \in 0 .. MaxFaults
    BY <1>6, OIDCAssumption DEF CallFails, AccessInv, TypeOK
  <2>3. OwnSessions'
    BY <2>1 DEF AccessInv, OwnSessions, MadeBy
  <2>4. TypeOK' /\ OwnTokens' /\ OwnCallbacks'
    BY <1>6, <2>1, <2>2, IdleStep DEF CallFails, AccessInv, TypeOK
  <2> QED
    BY <2>3, <2>4 DEF AccessInv
<1>7. ASSUME NEW k \in Routemap, NEW a \in AuthChoice, EditAuth(k, a) PROVE AccessInv'
  <2>1. /\ auth' \in [Routemap -> AuthSpec \cup {Nil}]
        /\ edits' \in 0 .. MaxEdits
    BY <1>7, <1>t, OIDCAssumption DEF EditAuth, AccessInv, TypeOK
  <2>2. TypeOK'
    BY <1>7, <2>1 DEF EditAuth, AccessInv, TypeOK
  <2>3. OwnTokens' /\ OwnCallbacks'
    BY <1>7 DEF EditAuth, AccessInv, OwnTokens, OwnCallbacks
  <2> QED
    BY <1>7, <2>2, <2>3 DEF EditAuth, AccessInv, OwnSessions, MadeBy
<1>8. CASE Restart
  <2>1. /\ SessionKey' \in 1 .. MaxRestarts + 1
        /\ providers' \in [Issuer \X Client -> Routemap \cup {Nil}]
    BY <1>8, OIDCAssumption DEF Restart, AccessInv, TypeOK
  <2>2. tab' \in [Tab -> TabState]
    BY <1>8, <1>t, IdleType DEF Restart
  <2>3. ASSUME NEW u \in Tab PROVE tab'[u] = Idle \/ tab'[u] = tab[u]
    BY <1>8 DEF Restart
  <2>4. TypeOK'
    BY <1>8, <2>1, <2>2, <2>3 DEF Restart, AccessInv, TypeOK, Idle
  <2>5. OwnTokens' /\ OwnCallbacks'
    BY <1>8, <2>3 DEF Restart, AccessInv, OwnTokens, OwnCallbacks, Idle
  <2> QED
    BY <1>8, <2>4, <2>5 DEF Restart, AccessInv, OwnSessions, MadeBy
<1>9. CASE Tick
  <2>1. now' \in 0 .. MaxTime
    BY <1>9, OIDCAssumption DEF Tick, AccessInv, TypeOK
  <2>2. /\ login' \in [Routemap -> Token \cup {Nil}]
        /\ \A j \in Routemap : login'[j] \in {login[j], Nil}
    BY <1>9, <1>t DEF Tick
  <2>3. TypeOK'
    BY <1>9, <2>1, <2>2 DEF Tick, AccessInv, TypeOK
  <2>4. OwnTokens'
    BY <1>9, <2>2 DEF Tick, AccessInv, OwnTokens
  <2> QED
    BY <1>9, <2>3, <2>4 DEF Tick, AccessInv, OwnCallbacks, OwnSessions, MadeBy
<1>10. CASE UNCHANGED vars
  <2>1. TypeOK'
    BY <1>10 DEF vars, AccessInv, TypeOK
  <2>2. OwnTokens' /\ OwnCallbacks' /\ OwnSessions'
    BY <1>10 DEF vars, AccessInv, OwnTokens, OwnCallbacks, OwnSessions, MadeBy
  <2> QED
    BY <2>1, <2>2 DEF AccessInv
<1>11. ASSUME NEW t \in Tab, VisitAnswered(t) PROVE AccessInv'
  BY <1>10, <1>11 DEF VisitAnswered
<1> QED
  BY <1>1, <1>2, <1>3, <1>4, <1>5, <1>6, <1>7, <1>8, <1>9, <1>10, <1>11
     DEF Next, LoginStep

LEMMA AccessSafe == AccessInv => AccessFollowsLogin
<1> SUFFICES ASSUME AccessInv, NEW k \in Routemap, auth[k] # Nil, Admitted(k)
             PROVE  \E l \in exchanged :
                       /\ l.rm = k /\ l.auth = cacheKey(auth[k])
                       /\ l.key = SessionKey /\ now < l.at + SessionTTL
  BY DEF AccessFollowsLogin
<1>1. verifySessionToken(session[k], k, auth[k])
  BY DEF Admitted
<1>2. PICK l \in exchanged : MadeBy(session[k], k, l)
  BY <1>1 DEF verifySessionToken, AccessInv, OwnSessions
<1> QED
  BY <1>1, <1>2 DEF verifySessionToken, MadeBy, cacheKey

\* Every variable of the OIDC flow keeps its type, and a request always has
\* the settings and the login that its next step reads.
THEOREM TypeCorrect == Spec => []TypeOK
<1>1. AccessInv => TypeOK
  BY DEF AccessInv
<1> QED
  BY <1>1, AccessInit, AccessStep, PTL DEF Spec

\* A protected dashboard is shown only on a login of its own, completed under
\* its present settings, in this process and within the life of a session.
THEOREM AccessNeedsLogin == Spec => []AccessFollowsLogin
  BY AccessInit, AccessStep, AccessSafe, PTL DEF Spec
=============================================================================
