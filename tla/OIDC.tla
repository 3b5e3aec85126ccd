-------------------------------- MODULE OIDC --------------------------------
(***************************************************************************)
(* internal/dashboard/oidc.go: Validate, the callback, the provider cache  *)
(* and the session tokens, with a browser that has dashboards open in some *)
(* tabs, and an identity provider.  Cookies are scoped to the path of a    *)
(* Routemap: there is one jar for each, which its tabs share.  State and   *)
(* nonce are drawn and set together and travel together: one token stands  *)
(* for both.                                                               *)
(***************************************************************************)
EXTENDS Naturals, FiniteSets

CONSTANTS
    Routemap,      \* keys of Routemaps; a redirect URL is the callback of one
    Tab,           \* the tabs of the browser
    Issuer,        \* issuer URLs: records with fields https, addrs
    Client,        \* client IDs
    Confidential,  \* clients the identity provider asks for their secret
    Token,         \* the random tokens; there is always an unused one
    AuthChoice,    \* the auth settings users write
    SessionTTL,    \* 8 hours, in ticks of the clock
    MaxTime,       \* bound: ticks
    MaxEdits,      \* bound: edits of auth settings
    MaxRestarts,   \* bound: restarts of the process
    MaxFaults,     \* bound: failed discoveries and look-ups
    Nil

AuthSpec == [issuer : Issuer, client : Client, redirect : Routemap]

ASSUME OIDCAssumption ==
    /\ AuthChoice \subseteq AuthSpec \cup {Nil}
    /\ Nil \notin AuthSpec /\ Nil \notin Token /\ Nil \notin Routemap
    /\ Confidential \subseteq Client
    /\ IsFiniteSet(Routemap) /\ IsFiniteSet(Tab) /\ IsFiniteSet(Token)
    /\ Cardinality(Token) > Cardinality(Routemap) + Cardinality(Tab)
    /\ SessionTTL \in Nat /\ MaxTime \in Nat
    /\ MaxEdits \in Nat /\ MaxRestarts \in Nat /\ MaxFaults \in Nat

VARIABLES
    page,        \* the Routemap whose dashboard each tab shows
    auth,        \* Spec.Auth of the view of each Routemap
    SessionKey,  \* the signing key, new with every process
    providers,   \* the redirect URL in the entry of each issuer and client
    tab,         \* what each tab is at
    login,       \* state and nonce cookie of each Routemap's path
    session,     \* session cookie of each Routemap's path
    now,         \* the clock
    exchanged,   \* the logins the identity provider has completed
    edits, faults

vars == <<page, auth, SessionKey, providers, tab, login, session, now,
          exchanged, edits, faults>>

-----------------------------------------------------------------------------
\* validateIssuerURL: https only, and every address of the host is public.
validateIssuerURL(issuer) == issuer.https /\ issuer.addrs \subseteq {"public"}

cacheKey(a) == <<a.issuer, a.client>>

\* sessionPayload, with the key it is signed with.
SessionPayload ==
    [key : Nat, rm : Routemap, iss : Issuer, aud : Client, exp : Nat]

\* A login the identity provider completed: where it began, and for whom.
Login == [rm : Routemap, auth : Issuer \X Client, key : Nat, at : Nat]

\* What a tab is at: the settings its request read, and the login it is in.
TabState ==
    [pc : {"idle", "discover", "idp", "code", "callback"},
     auth : AuthSpec \cup {Nil}, token : Token \cup {Nil},
     redirect : Routemap \cup {Nil}, view : AuthSpec \cup {Nil}]

Idle == [pc |-> "idle", auth |-> Nil, token |-> Nil, redirect |-> Nil,
         view |-> Nil]

\* A token that is in no cookie and in no login under way.
randomToken ==
    CHOOSE n \in Token :
        /\ \A k \in Routemap : login[k] # n
        /\ \A t \in Tab : tab[t].token # n

makeSessionToken(k, a) ==
    [key |-> SessionKey, rm |-> k, iss |-> a.issuer, aud |-> a.client,
     exp |-> now + SessionTTL]

\* Mutant: the issuer and the client are not compared.
verifyUnbound(token, k, a) ==
    /\ token # Nil
    /\ token.key = SessionKey
    /\ now < token.exp
    /\ token.rm = k

verifySessionToken(token, k, a) ==
    /\ token # Nil
    /\ token.key = SessionKey
    /\ now < token.exp
    /\ token.rm = k /\ token.iss = a.issuer /\ token.aud = a.client

Init ==
    /\ page \in [Tab -> Routemap]
    /\ auth \in [Routemap -> AuthChoice]
    /\ SessionKey = 1
    /\ providers = [ck \in Issuer \X Client |-> Nil]
    /\ tab = [t \in Tab |-> Idle]
    /\ login = [k \in Routemap |-> Nil]
    /\ session = [k \in Routemap |-> Nil]
    /\ now = 0
    /\ exchanged = {}
    /\ edits = 0
    /\ faults = 0

-----------------------------------------------------------------------------
(* Validate. *)

\* Whether the dashboard of k is shown on the cookies the browser has.
Admitted(k) ==
    auth[k] # Nil => verifySessionToken(session[k], k, auth[k])

\* The request passes, or getOrBuildEntry refuses the issuer: an error page.
VisitAnswered(t) ==
    /\ tab[t].pc = "idle"
    /\ ~Admitted(page[t]) => ~validateIssuerURL(auth[page[t]].issuer)
    /\ UNCHANGED vars

\* Mutant: state and nonce cookies that are there already are kept.
RedirectKeeping(t, a, redirect) ==
    LET n == randomToken
    IN  /\ login' = [login EXCEPT ![page[t]] = IF @ = Nil THEN n ELSE @]
        /\ tab' = [tab EXCEPT ![t] =
                     [pc |-> "idp", auth |-> a, token |-> n,
                      redirect |-> redirect, view |-> Nil]]

(***************************************************************************)
(* New state and nonce, over those of a login another tab of the dashboard *)
(* is in, and off to the provider with the redirect URL of the entry.      *)
(***************************************************************************)
Redirect(t, a, redirect) ==
    LET n == randomToken
    IN  /\ login' = [login EXCEPT ![page[t]] = n]
        /\ tab' = [tab EXCEPT ![t] =
                     [pc |-> "idp", auth |-> a, token |-> n,
                      redirect |-> redirect, view |-> Nil]]

\* The session does not verify: a login, with the entry of the cache if any.
VisitLogin(t) ==
    LET a == auth[page[t]]
    IN  /\ tab[t].pc = "idle"
        /\ ~Admitted(page[t])
        /\ validateIssuerURL(a.issuer)
        /\ IF providers[cacheKey(a)] # Nil
           THEN Redirect(t, a, providers[cacheKey(a)])
           ELSE /\ tab' = [tab EXCEPT ![t] =
                             [Idle EXCEPT !.pc = "discover", !.auth = a]]
                /\ UNCHANGED login
        /\ UNCHANGED <<page, auth, SessionKey, providers, session, now, exchanged,
                       edits, faults>>

\* getOrBuildEntry behind its look-up: others may have built an entry since.
Discover(t) ==
    /\ tab[t].pc = "discover"
    /\ LET a == tab[t].auth
       IN  /\ providers' = [providers EXCEPT ![cacheKey(a)] = a.redirect]
           /\ Redirect(t, a, a.redirect)
    /\ UNCHANGED <<page, auth, SessionKey, session, now, exchanged, edits,
                   faults>>

-----------------------------------------------------------------------------
(* The identity provider and the callback. *)

\* The user signs in and is sent back with a code.
SignIn(t) ==
    /\ tab[t].pc = "idp"
    /\ tab' = [tab EXCEPT ![t].pc = "code"]
    /\ UNCHANGED <<page, auth, SessionKey, providers, login, session, now,
                   exchanged, edits, faults>>

(***************************************************************************)
(* The end of a callback with auth settings a and the redirect URL of the  *)
(* entry.  The provider accepts the client, the issuer and the redirect    *)
(* URL the code was given for; the entry has no ClientSecret, so it        *)
(* refuses a client that must show one.  The ID token carries the client   *)
(* and the nonce.                                                          *)
(***************************************************************************)
Exchange(t, a, redirect) ==
    LET at == tab[t].redirect
        ok == /\ cacheKey(a) = cacheKey(tab[t].auth)
              /\ redirect = tab[t].redirect
              /\ a.client \notin Confidential
    IN  /\ session' = IF ok THEN [session EXCEPT ![at] = makeSessionToken(at, a)]
                            ELSE session
        /\ exchanged' = exchanged \cup
              (IF ok THEN {[rm |-> page[t], auth |-> cacheKey(a), key |-> SessionKey,
                            at |-> now]}
                     ELSE {})
        /\ tab' = [tab EXCEPT ![t] = Idle]

\* Mutant: a view without auth settings is not refused.
callbackUnchecked(t) ==
    LET at == tab[t].redirect
        a  == auth[at]
        accepted == login[at] = tab[t].token /\ (a # Nil => validateIssuerURL(a.issuer))
    IN  /\ tab[t].pc = "code"
        /\ IF ~accepted
           THEN tab' = [tab EXCEPT ![t] = Idle] /\ UNCHANGED <<session, exchanged>>
           ELSE IF a # Nil /\ providers[cacheKey(a)] # Nil
           THEN Exchange(t, a, providers[cacheKey(a)])
           ELSE /\ tab' = [tab EXCEPT ![t] =
                             [tab[t] EXCEPT !.pc = "callback", !.view = a]]
                /\ UNCHANGED <<session, exchanged>>
        /\ UNCHANGED <<page, auth, SessionKey, providers, login, now, edits,
                       faults>>

\* The callback of the Routemap whose redirect URL the provider was given.
handleOIDCCallback(t) ==
    LET at == tab[t].redirect
        a  == auth[at]
        accepted == /\ a # Nil
                    /\ login[at] = tab[t].token
                    /\ validateIssuerURL(a.issuer)
    IN  /\ tab[t].pc = "code"
        /\ IF ~accepted
           THEN tab' = [tab EXCEPT ![t] = Idle] /\ UNCHANGED <<session, exchanged>>
           ELSE IF providers[cacheKey(a)] # Nil
           THEN Exchange(t, a, providers[cacheKey(a)])
           ELSE /\ tab' = [tab EXCEPT ![t] =
                             [tab[t] EXCEPT !.pc = "callback", !.view = a]]
                /\ UNCHANGED <<session, exchanged>>
        /\ UNCHANGED <<page, auth, SessionKey, providers, login, now, edits,
                       faults>>

\* getOrBuildEntry had to build, with the settings of the view it was given.
CallbackDiscover(t) ==
    /\ tab[t].pc = "callback"
    /\ LET a == tab[t].view
       IN  /\ providers' = [providers EXCEPT ![cacheKey(a)] = a.redirect]
           /\ Exchange(t, a, a.redirect)
    /\ UNCHANGED <<page, auth, SessionKey, login, now, edits, faults>>

\* validateIssuerURL cannot resolve the host, or discovery or Exchange fails.
CallFails(t) ==
    /\ faults < MaxFaults
    /\ faults' = faults + 1
    /\ tab[t].pc \in {"discover", "code", "callback"}
    /\ tab' = [tab EXCEPT ![t] = Idle]
    /\ UNCHANGED <<page, auth, SessionKey, providers, login, session, now,
                   exchanged, edits>>

-----------------------------------------------------------------------------
(* The rest of the world. *)

EditAuth(k, a) ==
    /\ edits < MaxEdits
    /\ a # auth[k]
    /\ edits' = edits + 1
    /\ auth' = [auth EXCEPT ![k] = a]
    /\ UNCHANGED <<page, SessionKey, providers, tab, login, session, now,
                   exchanged, faults>>

\* NewOIDCConfig in a new process; requests it was in are lost.
Restart ==
    /\ SessionKey <= MaxRestarts
    /\ SessionKey' = SessionKey + 1
    /\ providers' = [ck \in Issuer \X Client |-> Nil]
    /\ tab' = [t \in Tab |->
                 IF tab[t].pc \in {"discover", "callback"} THEN Idle ELSE tab[t]]
    /\ UNCHANGED <<page, auth, login, session, now, exchanged, edits, faults>>

\* Time passes; the state and nonce cookies live for 10 minutes only.
Tick ==
    /\ now < MaxTime
    /\ now' = now + 1
    /\ \E kept \in SUBSET Routemap :
          login' = [k \in Routemap |-> IF k \in kept THEN login[k] ELSE Nil]
    /\ UNCHANGED <<page, auth, SessionKey, providers, tab, session, exchanged,
                   edits, faults>>

\* The steps of a login that is under way.
LoginStep(t) ==
    Discover(t) \/ SignIn(t) \/ handleOIDCCallback(t) \/ CallbackDiscover(t)

Next ==
    \/ \E t \in Tab : VisitAnswered(t) \/ VisitLogin(t) \/ LoginStep(t) \/ CallFails(t)
    \/ \E k \in Routemap, a \in AuthChoice : EditAuth(k, a)
    \/ Restart
    \/ Tick

Spec == Init /\ [][Next]_vars

\* No other tab of the same dashboard is in a login.
Alone(t) ==
    \A u \in Tab : u # t /\ page[u] = page[t] => tab[u].pc = "idle"

(***************************************************************************)
(* Users finish the logins they begin, requests come to an end, and a user *)
(* who is not let in tries again, but need not beside another login.       *)
(***************************************************************************)
Fairness ==
    \A t \in Tab : WF_vars(LoginStep(t)) /\ WF_vars(Alone(t) /\ VisitLogin(t))

FairSpec == Spec /\ Fairness

-----------------------------------------------------------------------------
\* Every variable holds a value of the kind its place in the code can hold, and
\* a request has the settings and the login that the step it is at reads.
TypeOK ==
    /\ page \in [Tab -> Routemap]
    /\ auth \in [Routemap -> AuthSpec \cup {Nil}]
    /\ SessionKey \in 1 .. MaxRestarts + 1
    /\ providers \in [Issuer \X Client -> Routemap \cup {Nil}]
    /\ tab \in [Tab -> TabState]
    /\ login \in [Routemap -> Token \cup {Nil}]
    /\ session \in [Routemap -> SessionPayload \cup {Nil}]
    /\ exchanged \subseteq Login
    /\ now \in 0 .. MaxTime
    /\ edits \in 0 .. MaxEdits /\ faults \in 0 .. MaxFaults
    /\ \A t \in Tab :
         /\ tab[t].pc # "idle" => tab[t].auth # Nil
         /\ tab[t].pc = "callback" => tab[t].view # Nil
         /\ tab[t].pc \in {"idp", "code", "callback"} =>
                tab[t].token # Nil /\ tab[t].redirect # Nil

(***************************************************************************)
(* A protected dashboard is shown only on a login that began on its own    *)
(* page, was completed by the issuer and for the client its settings name  *)
(* now, in this process and less than sessionTTL ago, whatever edits,      *)
(* restarts, provider cache and logins on other dashboards came between    *)
(* (Validate, handleOIDCCallback, verifySessionToken).                     *)
(***************************************************************************)
AccessFollowsLogin ==
    \A k \in Routemap :
        auth[k] # Nil /\ Admitted(k) =>
            \E l \in exchanged :
                /\ l.rm = k /\ l.auth = cacheKey(auth[k])
                /\ l.key = SessionKey /\ now < l.at + SessionTTL

\* The settings docs/oidc.md asks for: an issuer that is accepted and the
\* callback of this dashboard.
SetUp(k) ==
    /\ auth[k] # Nil
    /\ validateIssuerURL(auth[k].issuer)
    /\ auth[k].redirect = k

\* A user tries to get in, in one tab at a time: tabs that begin logins side by
\* side may overwrite each other's cookies.
Trying(k) ==
    /\ \E t \in Tab : page[t] = k
    /\ \A t \in Tab : page[t] = k /\ tab[t].pc # "idle" => Alone(t)

(***************************************************************************)
(* A user who keeps trying gets in, once the settings stay as the guide    *)
(* asks (docs/oidc.md: "The dashboard for any `Routemap` can be protected  *)
(* with OpenID Connect", "after a successful login a signed session cookie *)
(* is issued").                                                            *)
(***************************************************************************)
SetUpLogsIn ==
    \A k \in Routemap : <>[](SetUp(k) /\ Trying(k)) => []<>Admitted(k)

\* What the code asks for on top: a client without a secret, and no entry in
\* the cache with another dashboard's redirect URL for that client.
Workable(k) ==
    /\ SetUp(k)
    /\ auth[k].client \notin Confidential
    /\ providers[cacheKey(auth[k])] \in {Nil, k}

(***************************************************************************)
(* The same for settings that are workable: no login on another dashboard, *)
(* cookie that an earlier tab overwrote or that expired, restart, failed   *)
(* look-up or entry being built at the same time locks the user out        *)
(* (Validate, getOrBuildEntry, handleOIDCCallback).                        *)
(***************************************************************************)
LoginSucceeds ==
    \A k \in Routemap : <>[](Workable(k) /\ Trying(k)) => []<>Admitted(k)
=============================================================================
