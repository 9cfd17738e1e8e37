----------------------------- MODULE SatelliteLogin -----------------------------
(***************************************************************************)
(* Single sign-on across the hosts of one deployment: the hub, which holds *)
(* the authoritative session of a browser, and satellite hosts, each with  *)
(* a session cookie of its own, for one person with several browsers.  An  *)
(* anonymous page view on a satellite is redirected to the hub             *)
(* (BrokerClientSilentLoginMiddleware), which answers with a broker token  *)
(* or with "no session" (silent_login); the satellite's consumer spends    *)
(* the token, starts a local session and sets a marker cookie that keeps   *)
(* the next page views from asking again (broker_client_login).  Logging   *)
(* out deletes every session in the shared store, one after the other.     *)
(*                                                                         *)
(* BrokerToken is extended, not copied: what the hub and the consumers do  *)
(* to tokens and nonces are that module's steps, and its properties are    *)
(* checked here again, of the tokens that logins really use.               *)
(***************************************************************************)
EXTENDS BrokerToken, FiniteSets

CONSTANTS
  Browsers,    \* the browsers of one person
  Satellites,  \* the broker-client hosts
  Hub,         \* the host that CILogon knows
  Surroundings,\* the circumstances the logins may run in, see around
  None         \* no token

Places == Browsers \X Satellites

Sites == Browsers \X (Satellites \cup {Hub})

\* A place has at most one page view in progress, whose consumer runs as the
\* request named after the place; the other requests are other applications'.
ASSUME PlacesAssumption == Places \subseteq Requests

Happenings ==
  {"logout", "lapse", "reassociate", "maintain", "lose", "reopen", "second"}

ASSUME SurroundingsAssumption ==
  Surroundings \subseteq [happens : SUBSET Happenings, used : SUBSET Places]

ASSUME NamesAssumption == Hub \notin Satellites /\ None \notin Tokens

VARIABLES
  around,      \* what may happen around the logins, and the places that are used
  sessions,    \* the sites with a session of the person in the shared store
  markers,     \* the places whose browser has the kc_sso_checked cookie
  visit,       \* how far the navigation at each place has come
  logout,      \* the logout under way: whose, and the sessions left to delete
  associated,  \* the person's sub has an association
  maintained,  \* maintenance mode is on
  strays,      \* history: sessions and tokens begun during a logout, or that
               \*   come from a token or an answer older than the last one
  loggedIn     \* history: a login was completed since the last logout

ssoOnly == <<around, sessions, markers, visit, logout, associated, maintained, strays,
             loggedIn>>

ssoVars == <<vars, ssoOnly>>

At(name) == [at |-> name]

Quiet == [at |-> "quiet"]

VisitState ==
       [at : {"idle", "page", "ask", "login", "consume"}]
  \cup [at : {"granted", "start"}, stray : BOOLEAN]
  \cup [at : {"return"}, token : Tokens \cup {None}]

LogoutState == {Quiet} \cup [at : {"ending"}, origin : Sites, left : SUBSET Sites]

SsoTypeOK ==
  /\ TypeOK
  /\ around \in Surroundings
  /\ sessions \subseteq Sites
  /\ markers \subseteq Places
  /\ visit \in [Places -> VisitState]
  /\ logout \in LogoutState
  /\ associated \in BOOLEAN
  /\ maintained \in BOOLEAN
  /\ strays \subseteq Sites \cup minted
  /\ loggedIn \in BOOLEAN

SsoInit ==
  /\ Init
  /\ around \in Surroundings
  /\ sessions = {}
  /\ markers = {}
  /\ visit = [p \in Places |-> At("idle")]
  /\ logout = Quiet
  /\ associated = TRUE
  /\ maintained = FALSE
  /\ strays = {}
  /\ loggedIn = FALSE

HubOf(p) == <<p[1], Hub>>

Moves(p, state) == visit' = [visit EXCEPT ![p] = state]

\* What begins during a logout, or comes from a stray, is a stray.
Tainted(x) == logout # Quiet \/ x \in strays

\* A session begins under a new key, which no list of keys made before holds.
Begins(x, stray) ==
  /\ sessions' = sessions \cup {x}
  /\ strays' = IF x \in sessions THEN strays
               ELSE IF stray THEN strays \cup {x} ELSE strays \ {x}
  /\ logout' = IF x \in sessions \/ logout = Quiet THEN logout
               ELSE [logout EXCEPT !.left = @ \ {x}]

-------------------------------------------------------------------------------
(* A page view on a satellite.                                             *)

\* Tokens are a bound: a navigation begins while one is left for it.
Spare == Cardinality(Tokens \ minted)
           > Cardinality({p \in Places : visit[p].at # "idle"})

\* The browser asks for a page of the satellite.
Visit(p) ==
  /\ visit[p] = At("idle")
  /\ p \in around.used
  /\ Spare
  /\ Moves(p, At("page"))
  /\ UNCHANGED <<vars, around, sessions, markers, logout, associated, maintained,
                 strays, loggedIn>>

\* _should_check is false: the page is served.
Serve(p) ==
  /\ visit[p] = At("page")
  /\ p \in sessions \cup markers
  /\ Moves(p, At("idle"))
  /\ UNCHANGED <<vars, around, sessions, markers, logout, associated, maintained,
                 strays, loggedIn>>

\* _should_check is true: redirect to the hub's silent-login.
Check(p) ==
  /\ visit[p] = At("page")
  /\ p \notin sessions \cup markers
  /\ Moves(p, At("ask"))
  /\ UNCHANGED <<vars, around, sessions, markers, logout, associated, maintained,
                 strays, loggedIn>>

\* The person follows the satellite's log-in link, which delegates to the
\* hub's; both refuse in maintenance mode.
ClickLogin(p) ==
  /\ visit[p] = At("idle")
  /\ p \in around.used
  /\ Spare
  /\ ~maintained
  /\ Moves(p, At("login"))
  /\ UNCHANGED <<vars, around, sessions, markers, logout, associated, maintained,
                 strays, loggedIn>>

-------------------------------------------------------------------------------
(* The hub.                                                                *)

MayBeAnswered(p) == HubOf(p) \in sessions /\ associated /\ ~maintained

\* silent_login, or cilogon_login of a browser with a session: the session and
\* the association are read; the token is built after that.
Grant(p) ==
  /\ visit[p].at \in {"ask", "login"}
  /\ MayBeAnswered(p)
  /\ Moves(p, [at |-> "granted", stray |-> Tainted(HubOf(p))])
  /\ UNCHANGED <<vars, around, sessions, markers, logout, associated, maintained,
                 strays, loggedIn>>

\* silent_login returns with no_session=1.
Refuse(p) ==
  /\ visit[p] = At("ask")
  /\ ~MayBeAnswered(p)
  /\ Moves(p, [at |-> "return", token |-> None])
  /\ UNCHANGED <<vars, around, sessions, markers, logout, associated, maintained,
                 strays, loggedIn>>

\* callback: CILogon knows the person, the hub starts its session; the token
\* is built after the memberships were synchronised.
Authenticate(p) ==
  /\ visit[p] = At("login")
  /\ HubOf(p) \notin sessions
  /\ associated /\ ~maintained
  /\ Begins(HubOf(p), logout # Quiet)
  /\ loggedIn' = (loggedIn \/ logout = Quiet)
  /\ Moves(p, [at |-> "granted", stray |-> logout # Quiet])
  /\ UNCHANGED <<vars, around, markers, associated, maintained>>

\* The login ends at the maintenance page, at the association page, or with
\* the person.
TurnAway(p) ==
  /\ visit[p] = At("login")
  /\ Moves(p, At("idle"))
  /\ UNCHANGED <<vars, around, sessions, markers, logout, associated, maintained,
                 strays, loggedIn>>

\* build_broker_redirect, and the redirect back to the satellite.
Answer(p, t) ==
  /\ visit[p].at = "granted"
  /\ BuildBrokerRedirect(t)
  /\ strays' = IF visit[p].stray \/ logout # Quiet THEN strays \cup {t} ELSE strays
  /\ Moves(p, [at |-> "return", token |-> t])
  /\ UNCHANGED <<around, sessions, markers, logout, associated, maintained, loggedIn>>

\* Bound: with no token left, build_broker_redirect returns None.
BuildFails(p) ==
  /\ visit[p].at = "granted"
  /\ minted = Tokens
  /\ Moves(p, [at |-> "return", token |-> None])
  /\ UNCHANGED <<vars, around, sessions, markers, logout, associated, maintained,
                 strays, loggedIn>>

-------------------------------------------------------------------------------
(* broker_client_login, the consumer on the satellite.                     *)

\* Mutant of Marked: only a login sets the marker.
MarkedByLogin(p, login) == IF login THEN markers \cup {p} ELSE markers

\* In every case the marker is set.
Marked(p, login) == markers \cup {p}

\* No token, or one whose exp has passed: the person goes on anonymously.
GoOnAnonymously(p) ==
  /\ visit[p].at = "return"
  /\ visit[p].token \in {None} \cup expired
  /\ markers' = Marked(p, FALSE)
  /\ Moves(p, At("page"))
  /\ UNCHANGED <<vars, around, sessions, logout, associated, maintained, strays, loggedIn>>

Present(p) ==
  /\ visit[p].at = "return"
  /\ visit[p].token \in Tokens
  /\ ConsumeBrokerToken(p, visit[p].token)
  /\ Moves(p, At("consume"))
  /\ UNCHANGED <<around, sessions, markers, logout, associated, maintained, strays, loggedIn>>

\* The nonce is looked up; without it the person goes on anonymously.
Look(p) ==
  /\ visit[p] = At("consume")
  /\ LookUpNonce(p)
  /\ IF request[p].token \in nonces
     THEN UNCHANGED <<markers, visit>>
     ELSE markers' = Marked(p, FALSE) /\ Moves(p, At("page"))
  /\ UNCHANGED <<around, sessions, logout, associated, maintained, strays, loggedIn>>

Accept(p) ==
  /\ visit[p] = At("consume")
  /\ DeleteNonce(p)
  /\ Moves(p, [at |-> "start", stray |-> Tainted(request[p].token)])
  /\ UNCHANGED <<around, sessions, markers, logout, associated, maintained, strays, loggedIn>>

\* The association is looked up only now: without it the token is lost.
Start(p) ==
  /\ visit[p].at = "start"
  /\ IF associated
     THEN Begins(p, visit[p].stray \/ logout # Quiet)
     ELSE UNCHANGED <<around, sessions, logout, strays>>
  /\ markers' = Marked(p, associated)
  /\ Moves(p, At("page"))
  /\ UNCHANGED <<vars, around, associated, maintained, loggedIn>>

\* The address of a return is opened again, there or in another browser.
Reopen(p, t) ==
  /\ "reopen" \in around.happens
  /\ visit[p] = At("idle")
  /\ p \in around.used
  /\ Spare
  /\ t \in minted
  /\ Moves(p, [at |-> "return", token |-> t])
  /\ UNCHANGED <<vars, around, sessions, markers, logout, associated, maintained,
                 strays, loggedIn>>

-------------------------------------------------------------------------------
(* app_logout, asked for on any host.                                      *)

\* Mutant of ToDelete: the sessions of the host that is asked.
SessionsOfHost(x) == {y \in sessions : y[2] = x[2]}

\* The session rows of the person, read once.
ToDelete(x) == sessions

\* Bound: one logout at a time.
LogOut(x) ==
  /\ "logout" \in around.happens
  /\ x \in sessions
  /\ logout = Quiet
  /\ logout' = [at |-> "ending", origin |-> x, left |-> ToDelete(x)]
  /\ UNCHANGED <<vars, around, sessions, markers, visit, associated, maintained, strays,
                 loggedIn>>

EndSession(x) ==
  /\ logout # Quiet
  /\ x \in logout.left
  /\ sessions' = sessions \ {x}
  /\ logout' = [logout EXCEPT !.left = @ \ {x}]
  /\ UNCHANGED <<vars, around, markers, visit, associated, maintained, strays, loggedIn>>

\* logout(request), and logout_view clears the marker of its own host.  What
\* is on its way belongs to the time before.
Outdated(v) == IF v.at \in {"granted", "start"} THEN [v EXCEPT !.stray = TRUE] ELSE v

LoggedOut ==
  /\ logout # Quiet
  /\ logout.left = {}
  /\ logout' = Quiet
  /\ markers' = markers \ {logout.origin}
  /\ visit' = [p \in Places |-> Outdated(visit[p])]
  /\ strays' = strays \cup minted
  /\ loggedIn' = FALSE
  /\ UNCHANGED <<vars, around, sessions, associated, maintained>>

-------------------------------------------------------------------------------
(* Around them.                                                            *)

\* Mutant of MarkerExpires: the marker has no max_age.
MarkerStays(p) == FALSE /\ UNCHANGED ssoVars

\* The marker's 300 seconds are longer than a navigation.
MarkerExpires(p) ==
  /\ p \in markers
  /\ visit[p] = At("idle")
  /\ markers' = markers \ {p}
  /\ UNCHANGED <<vars, around, sessions, visit, logout, associated, maintained, strays,
                 loggedIn>>

\* A session's age is over, or its refresh token is refused.
SessionLapses(x) ==
  /\ "lapse" \in around.happens
  /\ x \in sessions
  /\ sessions' = sessions \ {x}
  /\ UNCHANGED <<vars, around, markers, visit, logout, associated, maintained, strays,
                 loggedIn>>

\* The sub is dissociated, or associated again.
Reassociate ==
  /\ "reassociate" \in around.happens
  /\ associated' = ~associated
  /\ UNCHANGED <<vars, around, sessions, markers, visit, logout, maintained, strays,
                 loggedIn>>

SwitchMaintenance ==
  /\ "maintain" \in around.happens
  /\ maintained' = ~maintained
  /\ UNCHANGED <<vars, around, sessions, markers, visit, logout, associated, strays,
                 loggedIn>>

\* The cache, the clock, and a second use of a token, at the hub.
Elsewhere ==
  /\ \/ /\ "lose" \in around.happens
        /\ \E t \in Tokens : DropNonce(t) \/ Expire(t)
     \/ /\ "second" \in around.happens
        /\ \E r \in Requests \ Places : \/ \E t \in Tokens : VerifyBrokerNonce(r, t)
                                        \/ LookUpNonce(r) \/ DeleteNonce(r)
  /\ UNCHANGED ssoOnly

Follow(p) ==
  \/ Serve(p) \/ Check(p) \/ Grant(p) \/ Refuse(p) \/ Authenticate(p) \/ TurnAway(p)
  \/ (\E t \in Tokens : Answer(p, t)) \/ BuildFails(p)
  \/ GoOnAnonymously(p) \/ Present(p) \/ Look(p) \/ Accept(p) \/ Start(p)

SsoNext ==
  \/ \E p \in Places : \/ Visit(p) \/ ClickLogin(p) \/ Follow(p) \/ MarkerExpires(p)
                       \/ \E t \in Tokens : Reopen(p, t)
  \/ \E x \in Sites : LogOut(x) \/ EndSession(x) \/ SessionLapses(x)
  \/ LoggedOut \/ Reassociate \/ SwitchMaintenance \/ Elsewhere

SsoSpec == SsoInit /\ [][SsoNext]_ssoVars

\* A browser follows the redirects it is given, and the marker's time passes:
\* page views that find it do not renew it, so it ends between two of them
\* however fast they follow each other.
SsoFairness ==
  \A p \in Places : WF_ssoVars(Follow(p)) /\ SF_ssoVars(MarkerExpires(p))

SsoFairSpec == SsoSpec /\ SsoFairness

-------------------------------------------------------------------------------
(* Properties.                                                             *)

\* logout_view: it "deletes every session the user holds in the shared store
\* (so a logout on any host, including a broker-client satellite, propagates
\* to all the others)".  After a logout, and until the person logs in again,
\* the only sessions are those begun while it ran or through a token that is
\* older than its end.
LogoutReachesEveryHost == logout = Quiet /\ ~loggedIn => sessions \subseteq strays

\* A navigation on a satellite ends, with a page or at the log-in: the marker
\* keeps the silent check from redirecting the browser for ever.
NavigationsEnd == \A p \in Places : visit[p] # At("idle") ~> visit[p] = At("idle")

\* "Reflect a login made on any other Commons domain onto a broker-client
\* host": while the hub has a session of the browser, a person who goes on
\* looking at pages of a satellite is logged in there sooner or later, however
\* often a token is lost on the way.  (One who keeps opening the address of an
\* old return is not: the consumer sets the marker anew each time.)
LoginReachesSatellites ==
  \A p \in Places :
    /\ "reopen" \notin around.happens
    /\ <>[]MayBeAnswered(p)
    /\ []<>(visit[p].at = "page")
    => []<>(p \in sessions)

\* How many steps a navigation may still have before it: a page that is asked for without
\* the marker may be sent to the hub, one with the marker is served.
Ahead(p) ==
  CASE visit[p].at = "idle" -> 0
    [] visit[p].at = "page" -> IF p \in markers THEN 1 ELSE 8
    [] visit[p].at \in {"ask", "login"} -> 7
    [] visit[p].at = "granted" -> 6
    [] visit[p].at = "return" -> 5
    [] visit[p].at = "consume" -> IF request[p].pc = "lookup" THEN 4 ELSE 3
    [] visit[p].at = "start" -> 2

\* "redirect once to the hub's silent-login ... so it cannot loop"
\* (BrokerClientSilentLoginMiddleware): every redirect brings a navigation nearer to its
\* end, and nothing that others do sends it back but the end of a logout that was asked
\* for there, which clears the marker.
RedirectsRunOut ==
  [][\A p \in Places :
       /\ Follow(p) => Ahead(p)' < Ahead(p)
       /\ visit[p] # At("idle") /\ ~(LoggedOut /\ p = logout.origin)
            => Ahead(p)' <= Ahead(p)]_ssoVars

\* The consumer of a place is at work exactly while the navigation there waits for it, so
\* that a return finds it free and a navigation that waits is answered.
ConsumersAnswer ==
  \A p \in Places :
    /\ visit[p] = At("consume") <=> request[p] # Idle
    /\ visit[p].at = "return" => visit[p].token \in minted \cup {None}

===============================================================================
