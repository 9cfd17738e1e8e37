------------------------------ MODULE TokenRefresh ------------------------------
(***************************************************************************)
(* The login tokens of one user and AutoRefreshTokenMiddleware, which runs *)
(* at the start of every request.  A request loads its session once and    *)
(* works on that copy; it saves the copy, if something changed it, when    *)
(* the response is done.  In between it records the token's association    *)
(* for logout, takes the user's refresh lock in the cache, refreshes a     *)
(* token that is about to expire at CILogon and releases the lock.         *)
(*                                                                         *)
(* The sessions are rows of the database and entries of the cache in front *)
(* of it (SESSION_ENGINE is cached_db): a request asks the cache first and *)
(* fills it from the row; a session is saved and deleted in the row first  *)
(* and in the cache afterwards, and a save never creates a row.            *)
(*                                                                         *)
(* The throttle (should_run_middleware) reads and writes its time stamp in *)
(* two cache calls and forgets after ten seconds, so it bounds no          *)
(* interleaving: here it skips a request or lets it through at random.     *)
(* Left out are the hard_refresh branch, since no code sets that flag to   *)
(* True, and tokens that come without a refresh token.                     *)
(***************************************************************************)
EXTENDS FiniteSets

CONSTANTS
  Sessions,   \* session keys, one per browser that is logged in
  Agents,     \* user-agent strings
  Agent,      \* the user agent that presents each session
  Requests,   \* concurrent requests: threads of the web workers
  Tokens,     \* access and refresh token pairs, reused when forgotten
  NoToken,    \* a session without a token
  Absent,     \* no such session
  Free,       \* nobody holds the lock
  Environments  \* the surroundings in which the program may run

ASSUME AgentAssumption == Agent \in [Sessions -> Agents]
ASSUME ValueAssumption ==
  /\ NoToken \notin Tokens /\ Absent \notin Tokens /\ NoToken # Absent
  /\ Free \notin Requests

\* rotates: CILogon retires a refresh token when it is used; flaky: calls to
\* CILogon may fail; slow: a refresh may take longer than the lock's ten
\* seconds (or the cache may lose the lock); kills: a worker may be killed;
\* breaks: a view may fail, with a response of 500 or above; evicts: the cache loses entries of
\* sessions; serial: one thing
\* is done at a time; browsers: the ones that the user has.
ASSUME EnvironmentAssumption ==
  Environments \subseteq
    [rotates : BOOLEAN, flaky : BOOLEAN, slow : BOOLEAN, kills : BOOLEAN, breaks : BOOLEAN,
     evicts : BOOLEAN, serial : BOOLEAN,
     browsers : SUBSET Sessions]

VARIABLES
  env,       \* the surroundings, which do not change
  store,     \* the rows of the sessions: the token in each
  cached,    \* the entries of the cache in front of them
  row,       \* TokenUserAgentAssociations: the token of each user agent
  lock,      \* refresh-lock of the user: the request that added it
  req,       \* what each request is doing
  expired,   \* tokens within five minutes of expires_at, or past it
  dead,      \* tokens that CILogon no longer honours
  replaced   \* history: tokens that a refresh has replaced

vars == <<env, store, cached, row, lock, req, expired, dead, replaced>>

TokenOrNone == Tokens \cup {NoToken}
SessionState == TokenOrNone \cup {Absent}

\* token: the request's copy of the session; dirty: the copy was modified.
Idle == [pc |-> "idle"]
Steps ==
  {"fill", "associate", "lock", "check", "fetch", "forget", "release", "view", "set"}
RequestState ==
  {Idle} \cup [pc : Steps, session : Sessions, token : SessionState, dirty : BOOLEAN]

TypeOK ==
  /\ env \in Environments
  /\ store \in [Sessions -> SessionState]
  /\ cached \in [Sessions -> SessionState]
  /\ row \in [Agents -> TokenOrNone]
  /\ lock \in Requests \cup {Free}
  /\ req \in [Requests -> RequestState]
  /\ expired \subseteq Tokens
  /\ dead \subseteq Tokens
  /\ replaced \subseteq Tokens

Init ==
  /\ env \in Environments
  /\ store = [s \in Sessions |-> Absent]
  /\ cached = [s \in Sessions |-> Absent]
  /\ row = [a \in Agents |-> NoToken]
  /\ lock = Free
  /\ req = [r \in Requests |-> Idle]
  /\ expired = {}
  /\ dead = {}
  /\ replaced = {}

Busy(r) == req[r].pc # "idle"
At(r, pc) == req[r].pc = pc
GoTo(r, pc) == req' = [req EXCEPT ![r].pc = pc]

-------------------------------------------------------------------------------
(* CILogon.                                                                *)

\* Tokens that something still refers to; the others may be issued (again).
Known ==
  {store[s] : s \in Sessions} \cup {cached[s] : s \in Sessions} \cup {row[a] : a \in Agents}
    \cup {req[r].token : r \in {q \in Requests : Busy(q)}}

\* One that nobody knows; which one does not matter.
Fresh(t) == t \in Tokens \ Known /\ t = CHOOSE u \in Tokens : u \notin Known

\* CILogon issues t, and retires old if it was traded for t.
Issue(t, old) ==
  /\ expired' = expired \cap Known
  /\ dead' = (dead \cap Known) \cup (IF env.rotates THEN old ELSE {})
  /\ replaced' = (replaced \cap Known) \cup old

\* The clock: a token comes within five minutes of its expiry.  Tokens outlive
\* the request that obtained them.
Expire(t) ==
  /\ \E s \in Sessions : t \in {store[s], cached[s]}
  /\ \A r \in Requests : Busy(r) /\ req[r].dirty => req[r].token # t
  /\ expired' = expired \cup {t}
  /\ UNCHANGED <<env, store, cached, row, lock, req, dead, replaced>>

-------------------------------------------------------------------------------
(* Requests.                                                               *)

\* What the cookie of a session is worth: the cache is asked first.
Seen(s) == IF cached[s] # Absent THEN cached[s] ELSE store[s]

\* callback: a browser logs in; its session, whose key is new, is stored with the token.
Login(s, t) ==
  /\ s \in env.browsers
  /\ store[s] = Absent /\ cached[s] = Absent
  /\ \A r \in Requests : Busy(r) => req[r].session # s
  /\ Fresh(t)
  /\ store' = [store EXCEPT ![s] = t]
  /\ cached' = [cached EXCEPT ![s] = t]
  /\ Issue(t, {})
  /\ UNCHANGED <<env, row, lock, req>>

\* fast_fail: without a token, or throttled, a request goes straight to its view.
Onward(t) == IF t = NoToken THEN {"view"} ELSE {"view", "associate"}

Loads(r, s, pcs) ==
  \E pc \in pcs :
    req' = [req EXCEPT ![r] = [pc |-> pc, session |-> s, token |-> Seen(s), dirty |-> FALSE]]

\* Mutant of Arrive: fast_fail does not look at the session.
ArriveAnyway(r, s) ==
  /\ ~Busy(r) /\ r = CHOOSE q \in Requests : ~Busy(q)
  /\ Loads(r, s, {"associate"})
  /\ UNCHANGED <<env, store, cached, row, lock, expired, dead, replaced>>

\* A request arrives at a worker, no matter which, and loads its session, from the cache or
\* else from the row.
Arrive(r, s) ==
  /\ ~Busy(r) /\ r = CHOOSE q \in Requests : ~Busy(q)
  /\ Seen(s) # Absent
  /\ env.serial => \A q \in Requests : ~Busy(q)
  /\ Loads(r, s, IF cached[s] = Absent THEN {"fill"} ELSE Onward(cached[s]))
  /\ UNCHANGED <<env, store, cached, row, lock, expired, dead, replaced>>

\* What was read from the row goes to the cache.
Fill(r) ==
  /\ At(r, "fill")
  /\ cached' = [cached EXCEPT ![req[r].session] = req[r].token]
  /\ \E pc \in Onward(req[r].token) : GoTo(r, pc)
  /\ UNCHANGED <<env, store, row, lock, expired, dead, replaced>>

\* update_or_create of the association, keyed by user agent.
Associate(r) ==
  /\ At(r, "associate")
  /\ row' = [row EXCEPT ![Agent[req[r].session]] = req[r].token]
  /\ GoTo(r, "lock")
  /\ UNCHANGED <<env, store, cached, lock, expired, dead, replaced>>

\* Mutant of AcquireRefreshLock: a request that finds the lock taken goes on
\* to the release.
AcquireOrRelease(r) ==
  /\ At(r, "lock")
  /\ \/ lock = Free /\ lock' = r /\ GoTo(r, "check")
     \/ lock # Free /\ GoTo(r, "release") /\ UNCHANGED lock
  /\ UNCHANGED <<env, store, cached, row, expired, dead, replaced>>

\* acquire_refresh_lock: cache.add; the refresh is skipped if it is taken.
AcquireRefreshLock(r) ==
  /\ At(r, "lock")
  /\ \/ lock = Free /\ lock' = r /\ GoTo(r, "check")
     \/ lock # Free /\ GoTo(r, "view") /\ UNCHANGED lock
  /\ UNCHANGED <<env, store, cached, row, expired, dead, replaced>>

\* "Re-check token from session": the copy that the request loaded.
CheckExpiry(r) ==
  /\ At(r, "check")
  /\ GoTo(r, IF req[r].token \in expired THEN "fetch" ELSE "release")
  /\ UNCHANGED <<env, store, cached, row, lock, expired, dead, replaced>>

\* Mutant of RefreshSucceeds: the copy is not marked as modified.
RefreshUnsaved(r, t) ==
  /\ At(r, "fetch")
  /\ req[r].token \notin dead
  /\ Fresh(t)
  /\ Issue(t, {req[r].token})
  /\ req' = [req EXCEPT ![r] = [@ EXCEPT !.pc = "release", !.token = t]]
  /\ UNCHANGED <<env, store, cached, row, lock>>

\* refresh_user_token: CILogon answers with a new token, which goes to the
\* request's copy of the session.
RefreshSucceeds(r, t) ==
  /\ At(r, "fetch")
  /\ req[r].token \notin dead
  /\ Fresh(t)
  /\ Issue(t, {req[r].token})
  /\ req' = [req EXCEPT ![r] = [@ EXCEPT !.pc = "release", !.token = t, !.dirty = TRUE]]
  /\ UNCHANGED <<env, store, cached, row, lock>>

\* OAuthError, or an answer without an access token: logout flushes the session.  Its row
\* is deleted.
RefreshRefused(r) ==
  /\ At(r, "fetch")
  /\ req[r].token \in dead \/ env.flaky
  /\ store' = [store EXCEPT ![req[r].session] = Absent]
  /\ req' = [req EXCEPT ![r] = [@ EXCEPT !.pc = "forget", !.token = Absent]]
  /\ UNCHANGED <<env, cached, row, lock, expired, dead, replaced>>

\* And then its entry in the cache.
Forget(r) ==
  /\ At(r, "forget")
  /\ cached' = [cached EXCEPT ![req[r].session] = Absent]
  /\ GoTo(r, "release")
  /\ UNCHANGED <<env, store, row, lock, expired, dead, replaced>>

\* Any other exception: the copy loses its token but not its user.  CILogon
\* may have served the request and the answer may have been lost.
RefreshFails(r) ==
  /\ At(r, "fetch")
  /\ env.flaky
  /\ \E served \in BOOLEAN :
       dead' = IF served /\ env.rotates THEN dead \cup {req[r].token} ELSE dead
  /\ req' = [req EXCEPT ![r] =
               [@ EXCEPT !.pc = "release", !.token = NoToken, !.dirty = TRUE]]
  /\ UNCHANGED <<env, store, cached, row, lock, expired, replaced>>

\* release_refresh_lock: cache.delete, whoever added the lock.
ReleaseRefreshLock(r) ==
  /\ At(r, "release")
  /\ lock' = Free
  /\ GoTo(r, "view")
  /\ UNCHANGED <<env, store, cached, row, expired, dead, replaced>>

\* The response is sent and the copy is not saved: nothing is new in it, or the session is
\* gone (for then the update of the row is refused).
Respond(r) ==
  /\ At(r, "view")
  /\ ~req[r].dirty \/ req[r].token = Absent \/ store[req[r].session] = Absent
  /\ req' = [req EXCEPT ![r] = Idle]
  /\ UNCHANGED <<env, store, cached, row, lock, expired, dead, replaced>>

\* With a response of 500 or above nothing is saved, whatever has changed.
ViewFails(r) ==
  /\ At(r, "view")
  /\ env.breaks
  /\ req' = [req EXCEPT ![r] = Idle]
  /\ UNCHANGED <<env, store, cached, row, lock, expired, dead, replaced>>

\* Mutant of SaveRow: the row is created if it is gone.
SaveOrCreateRow(r) ==
  /\ At(r, "view")
  /\ req[r].token # Absent
  /\ store' = [store EXCEPT ![req[r].session] = req[r].token]
  /\ GoTo(r, "set")
  /\ UNCHANGED <<env, cached, row, lock, expired, dead, replaced>>

\* The session middleware saves the copy whole, because the middleware or the view has
\* changed something in it: first the row.
SaveRow(r) ==
  /\ At(r, "view")
  /\ req[r].token # Absent
  /\ store[req[r].session] # Absent
  /\ store' = [store EXCEPT ![req[r].session] = req[r].token]
  /\ GoTo(r, "set")
  /\ UNCHANGED <<env, cached, row, lock, expired, dead, replaced>>

\* Then the entry in the cache.
SetEntry(r) ==
  /\ At(r, "set")
  /\ cached' = [cached EXCEPT ![req[r].session] = req[r].token]
  /\ req' = [req EXCEPT ![r] = Idle]
  /\ UNCHANGED <<env, store, row, lock, expired, dead, replaced>>

-------------------------------------------------------------------------------
(* The environment.                                                        *)

Holding(r) == req[r].pc \in {"check", "fetch", "forget", "release"}

\* Mutant of LockExpires: the lock is added without a timeout.
LockNeverExpires == FALSE /\ UNCHANGED vars

\* The lock's timeout passes: after the holder died, or under a slow one.
LockExpires ==
  /\ lock # Free
  /\ env.slow \/ ~Holding(lock)
  /\ lock' = Free
  /\ UNCHANGED <<env, store, cached, row, req, expired, dead, replaced>>

\* The worker is killed: the copy is lost, and no finally block runs.  (A call to the cache
\* that fails after the row was saved is only logged, and is a kill at that step.)
Kill(r) ==
  /\ env.kills
  /\ Busy(r)
  /\ req' = [req EXCEPT ![r] = Idle]
  /\ UNCHANGED <<env, store, cached, row, lock, expired, dead, replaced>>

\* The cache loses an entry.
Evict(s) ==
  /\ env.evicts
  /\ cached[s] # Absent
  /\ cached' = [cached EXCEPT ![s] = Absent]
  /\ UNCHANGED <<env, store, row, lock, req, expired, dead, replaced>>

Refresh(r) ==
  \/ RefreshRefused(r) \/ RefreshFails(r)
  \/ \E t \in Tokens : RefreshSucceeds(r, t)

Step(r) ==
  \/ Fill(r) \/ Associate(r) \/ AcquireRefreshLock(r) \/ CheckExpiry(r)
  \/ Refresh(r) \/ Forget(r) \/ ReleaseRefreshLock(r)
  \/ Respond(r) \/ SaveRow(r) \/ SetEntry(r)

Next ==
  \/ \E s \in Sessions, t \in Tokens : Login(s, t)
  \/ \E r \in Requests, s \in Sessions : Arrive(r, s)
  \/ \E r \in Requests : Step(r) \/ ViewFails(r) \/ Kill(r)
  \/ \E t \in Tokens : Expire(t)
  \/ \E s \in Sessions : Evict(s)
  \/ LockExpires

Spec == Init /\ [][Next]_vars

\* The throttle lets a request of the session through.
LetThrough(r, s) ==
  /\ Arrive(r, s) \/ (Fill(r) /\ req[r].session = s)
  /\ At(r, "associate")'

\* Workers run on, a dead lock expires, each browser keeps making requests, some of which the
\* throttle lets through, and workers are not killed, nor do views fail, for ever, unless it
\* makes no difference.
Fairness ==
  /\ WF_vars(LockExpires)
  /\ \A r \in Requests : WF_vars(Step(r))
  /\ \A s \in Sessions :
       /\ SF_vars(\E r \in Requests : Arrive(r, s))
       /\ SF_vars(\E r \in Requests : LetThrough(r, s))
  /\ <>[][\A r \in Requests : Kill(r) \/ ViewFails(r) => Step(r)]_vars

FairSpec == Spec /\ Fairness

-------------------------------------------------------------------------------
(* Properties.                                                             *)

\* "Acquire lock before checking token expiration to prevent race conditions":
\* unless a refresh outlasts the lock, no two requests of the user are between
\* taking and releasing it.
OneRefreshAtATime ==
  ~env.slow => \A r, q \in Requests : Holding(r) /\ Holding(q) => r = q

\* "Re-check token from session in case another request refreshed it": no
\* request trades a token that another request has already traded.
RefreshesCurrentToken ==
  \A r \in Requests : At(r, "fetch") => req[r].token \notin replaced

\* Between requests, what a browser is logged in with is the latest token that
\* CILogon issued for it, never one that a refresh has replaced, if requests do
\* not overlap, workers live and views do not fail.
SessionsHoldCurrentToken ==
  env.serial /\ ~env.kills /\ ~env.breaks =>
    \A s \in Sessions :
      (\A r \in Requests : Busy(r) => req[r].session # s) =>
        store[s] \notin replaced /\ cached[s] \notin replaced

\* If CILogon answers and honours old refresh tokens, no request, overtaken or
\* killed, ends the session of a user who did not log out.
SessionsSurvive ==
  [][~env.rotates /\ ~env.flaky =>
       \A s \in Sessions : store[s] # Absent => store'[s] # Absent]_vars

\* Requests whose next step writes the entry of the session after they have seen its row.
Late(s) == {r \in Requests : req[r].pc \in {"fill", "set"} /\ req[r].session = s}

\* Once its row is deleted, a session comes back only with a login, except that each request
\* which was then between its row and its entry may put the entry back, once: no request
\* starts to write either, so the session stays ended when its entry goes again.
SessionsDoNotRevive ==
  [][\A s \in Sessions :
       \/ store[s] # Absent
       \/ Fresh(store'[s])
       \/ /\ store'[s] = Absent
          /\ Late(s)' \subseteq Late(s)
          /\ cached'[s] \in {cached[s], Absent} \/ Late(s)' # Late(s)]_vars

\* "finally: self.release_refresh_lock": however a refresh ends, the lock goes with it, and
\* while it runs nobody else's release takes the lock away.  Only a worker that is killed
\* leaves a lock behind, only a refresh that outlasts the lock runs without it.
LockGoesWithRefresh ==
  ~env.slow /\ ~env.kills => \A r \in Requests : lock = r <=> Holding(r)

\* From some time on, the user's other browsers make no requests.
Alone(s) == <>[][\A z \in Sessions \ {s}, r \in Requests : ~Arrive(r, z)]_vars

\* A token about to expire is replaced or dropped, though workers die while they hold the lock
\* and views fail after a refresh, once the user's other browsers leave the lock alone: for it
\* is one lock for all of them.
ExpiredTokenIsReplaced ==
  \A s \in Sessions :
    Alone(s) => (Seen(s) \in expired ~> Seen(s) \notin expired)

===============================================================================
