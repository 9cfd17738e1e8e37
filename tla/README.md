# Verification of the Knowledge Commons identity service

Knowledge Commons Profiles is a Django application that keeps the profiles of
the Commons' members, logs them in through CILogon, tells the other Commons
applications (WordPress, Works) who is logged in, and learns from partner
societies who is a member. This directory holds TLA+ modules of the parts of it
where the order of events matters, the configurations with which TLC checks them
on small instances, and proofs, checked by TLAPS, that the most important
properties hold for every size of instance.

Source paths below are relative to `knowledge_commons_profiles/`.
`PROJECT.json` maps each definition to the lines it models.

Contents: [1 The system](#1-the-system) ·
[2 Modules](#2-modules) · [3 Properties and runs](#3-properties-and-runs) ·
[4 Bounds](#4-bounds) · [5 Fairness](#5-fairness) · [6 Proofs](#6-proofs) ·
[7 Findings and observations](#7-findings-and-observations) ·
[8 What is left](#8-what-is-left) · [9 Running it](#9-running-it)

## 1 The system

### Processes and shared state

The web application runs as gunicorn workers with threads; a separate ASGI
service, IDMS, serves the broker's silent login and nonce verification; satellite
hosts run the same code with their own sessions; and the website monitor is a
process of its own. They share

* PostgreSQL (profiles, sub associations, e-mail verifications, token
  associations, the sessions that `cached_db` writes through),
* Redis as the default cache (nonces, refresh locks, throttles, session copies,
  the maintenance mirror, cached pages),
* and, for the monitor, one S3 object and one listener rule of a load balancer.

`config/settings/base.py` sets `ATOMIC_REQUESTS` in line 59 and overwrites the
dictionary it sets it in in line 61, so a view is *not* a transaction unless it
says so; each statement commits by itself. (The document `ASYNC_IDMS.md` in the
repository's root, line 21, says the opposite.) The admin site opens its own
transactions, and `register` and the CSV import are marked `transaction.atomic`.
This is why the modules below have a step per statement almost everywhere.

A worker may be killed at any statement: gunicorn's timeout is 15 seconds, and a
deployment replaces containers.

### Components

| Component | State it keeps | Operations | Talks to | What is hard about it |
|---|---|---|---|---|
| Website monitor (`cron/monitor_website.py`) | `MonitorState` in memory; a record in S3; the condition of a listener rule | poll, capture methods, modify the rule, save, restore, delete the record, load at start | elbv2, S3, the website, e-mail | kills between calls, restarts, two processes during a deployment, calls that fail, durations |
| Broker tokens (`cilogon/oauth.py`, `broker_client.py`, `broker_views.py`) | nonce of each token in the cache | build, consume, verify | satellites and applications | two requests with one token, expiry, eviction |
| Token refresh (`cilogon/middleware.py`) | a session's row and its entry in the cache, the copy of each request, refresh lock, one association per user agent | load, associate, lock, check, refresh, release, save the session | CILogon | stale session copies, a store of two parts, a lock that times out, a killed holder, a refused refresh, a response that is not saved |
| Universal logout and garbage collection (`cilogon/views.py`, `middleware.py`, `rest_api/views.py`) | associations, sessions | list, revoke, delete associations, delete sessions, collect by age | CILogon, the logout endpoints of the applications | requests in flight, revocations that fail, two lists that are read at different times |
| Registration, association, activation (`cilogon/views.py`) | `Profile`, `User`, `SubAssociation`, `EmailVerification` | register, associate, activate, callback, remove a login, edit addresses | CILogon, e-mail, the associations webhook, Mailchimp | double clicks, two links, kills between statements, rows saved after they were deleted, addresses that come in four ways |
| Maintenance mode (`cilogon/models.py`, `common/middleware.py`) | one row, its mirror in the cache | save, read through, gate | every request | the mirror and the row, outages, a login of two requests |
| Satellite single sign-on (`cilogon/middleware.py`, `views.py`) | a marker cookie and a local session per host | silent check, answer, consume, set the marker, log out of all hosts | hub and satellites | redirects that must not loop, a marker that hides a login, a token older than a logout |
| Profile record and its editors (`cilogon/views.py`, `newprofile/`) | one row of `Profile` | addresses, networks, roles, forms, uploads | Mailchimp, WordPress, storage | every editor loads, changes and saves the whole row |
| External membership sync (`rest_api/sync.py`, `cilogon/sync_apis/`) | `is_member_of`, `last_sync`, roles; a rate-limit counter; clients shared by threads | sync, refresh local memberships, webhooks | MLA, MSU, ARLISNA, UP, subscribers | slow calls inside load and save, partners that fail, a shared answer |
| Society enrolment, CSV import (`newprofile/society_enrolment.py`, `cilogon/views.py`) | `role_overrides` | enrol, replace | profile record, webhooks | bulk writers beside all others |
| Host and network routing (`common/middleware.py`, `cilogon/oauth.py`) | none | slug, cookie domain, forwarding address | – | corner cases of names |
| Usernames (`cilogon/reserved_usernames.py`, `newprofile/username_collisions.py`) | list of reserved terms | match, plan renames | – | a plan whose own names collide |
| Profile layout (`static/js/profile-sort.js`, `newprofile/views/profile/`) | what a tab shows; columns of the profile; a cached panel | drag, click, choose a style, submit; save a part; list the works | the views, the Works service, visitors | requests that overtake each other, whole rows saved after a slow call, a cache nobody clears |
| Feeds (`newprofile/works.py`, `mastodon.py`), search, members, REST serializers, admin, templates, commands | caches with a timeout | fetch, format | other services | little: they keep nothing that another part relies on |

How they interact: *register* and *association* create verifications that
*activate* consumes; activate and *callback* create the session that *token
refresh* keeps alive and *logout* ends; the session is what the *broker* turns
into tokens for satellites and applications; sync, enrolment and the editors
write the profile that activation created, and the *layout* of its page is columns
of the same row; maintenance mode is read before any of them.

## 2 Modules

| Module | Models | Uses |
|---|---|---|
| `ProtectionLease` | abstract: a lease of the unrestricted rule that is held and given back | |
| `WebsiteMonitor` | the monitor, its processes, S3 and the listener rule | `ProtectionLease` |
| `OneTimeToken` | abstract: a token that is accepted once, whoever presents it | |
| `BrokerToken` | the nonce in the cache and the requests that present a token | `OneTimeToken` |
| `SatelliteLogin` | page views and logins on satellites, the hub's answers, logging out of every host; composed with `BrokerToken` | extends `BrokerToken` |
| `TokenRefresh` | sessions, associations, the refresh lock, CILogon's tokens | |
| `TokenRevocation` | universal logout and the garbage collector, composed with `TokenRefresh` | extends `TokenRefresh` |
| `Accounts` | the tables of accounts and the handlers that write them | |
| `MaintenanceMode` | the row, the mirror, the admin's transaction, the gates | |
| `ProfileRecord` | the row of a profile, the handlers that load and save it, the sync with partners, the roles, WordPress's address | |
| `ProfileLayout` | the tabs of the edit page, the requests they send, the views that answer, the panel that visitors see | |

`MC…` modules give each a small instance; `…Proofs` modules hold theorems.

**Conventions.** An action is one statement (or one call) of the code together
with everything the code does locally until the next one, so that every
interleaving the database and the cache allow is a behaviour. A process, request
or handler is a function value with its program counter (`pc`, `at`) and the local
variables that survive a step: a request's *copy* of a session or row is such a
local variable, and stale copies are therefore in the model. Whatever the code
does not control — CILogon, S3, Redis, a killed worker, a clock — is an action or
a nondeterministic choice.

Each module has a variable `env`, chosen initially and never changed: a record
that says what may go wrong in that behaviour (calls that fail, workers that are
killed, requests that overlap, …). A property that holds only in some
surroundings says so in its antecedent, and one run checks all of them. (In
`SatelliteLogin` it is called `around` and is a set of things that may happen.) This
keeps the conditions visible where the property is stated, instead of in a
configuration. Operators with the comment *Mutant of X* are the plausible bugs
with which the properties were tried: with one of them in the place of X, TLC must
find the property violated.

### WebsiteMonitor

`mon[m]` is the `MonitorState` of a process with its program counter; `rule` the
http-request-method condition; `s3` the record. `Start`, `InitializeWithoutRecord`
and `InitializeFromRecord` are `initialize_state_from_s3`; `SiteUp` and `SiteDown`
the poll; `CaptureMethods`, `InspectBeforeRemoval`, `RemoveRestriction`,
`SaveState` the way into protection, one action per AWS call;
`InspectBeforeRestore`, `RestoreRestriction`, `ForgetAndRest` the way out. `Kill`
may strike before any step that `env` allows. Time is kept as ages: `Tick` makes
all of them older, capped at the longest duration. A failed download and an absent
record are the same to the code, and so to the model.

### BrokerToken

`BuildBrokerRedirect` stores a nonce; `ConsumeBrokerToken` (satellites) and
`VerifyBrokerNonce` (applications) begin a request; `LookUpNonce` and `DeleteNonce`
are its two cache calls. A nonce expires, is evicted, or is deleted. Encryption is
abstract: a token is a model value that nobody can make up.

### SatelliteLogin

`SatelliteLogin` extends `BrokerToken`: its steps are conjunctions of that module's
actions with what a login does beside them, so that the tokens whose properties are
checked are those that logins really use. A *site* is a browser at a host (the hub or
a satellite), a *place* a site at a satellite. `sessions` is the set of sites with a
session row of the person; `markers` the places with the cookie `kc_sso_checked`;
`visit[p]` is how far the navigation at a place has come.

| Action | Code |
|---|---|
| `Visit`, `Serve`, `Check` | a request and `BrokerClientSilentLoginMiddleware`: served if the browser has a session or the marker, redirected otherwise |
| `ClickLogin`, `Authenticate`, `TurnAway` | `cilogon_login` on a satellite and at the hub, and the callback |
| `Grant`, `Refuse` | `silent_login`: session, association and maintenance mode are read |
| `Answer`, `BuildFails` | `build_broker_redirect`, after that |
| `Present`, `Look`, `Accept`, `Start`, `GoOnAnonymously` | `broker_client_login`: `exp`, nonce, deletion, association and session, and the marker, which is set in every case |
| `LogOut`, `EndSession`, `LoggedOut` | `app_logout`: the rows are listed once and deleted one after the other; the marker of the host that was asked is removed last |
| `MarkerExpires`, `SessionLapses`, `Reassociate`, `SwitchMaintenance`, `Reopen`, `Elsewhere` | time, dissociation, administrators, the history of a browser, other applications and the cache |

`strays` is history and has two kinds of members: tokens that were built, and sessions
that began, while a logout ran or from something older than it.

### TokenRefresh and TokenRevocation

The session engine is `cached_db` (`config/settings/base.py:254`), so a session has two
parts: `store[s]` is its row, `cached[s]` its entry in the cache, and what a cookie is worth
(`Seen`) is the entry if there is one, the row otherwise. `Arrive` loads it into
`req[r].token`, and `Fill` puts what was read from the row into the cache. `Associate`,
`AcquireRefreshLock`, `CheckExpiry`, `RefreshSucceeds`/`RefreshRefused`/`RefreshFails` and
`ReleaseRefreshLock` are the middleware. A session is saved in two steps, `SaveRow` (which
never creates a row: `SessionStore.save` with `must_create=False`) and `SetEntry`, and
deleted in two, `RefreshRefused` and `Forget`. `Respond` is a response after which nothing
is saved, `ViewFails` one of 500 or above, after which Django saves nothing either. `Evict`
is the cache losing an entry, `LockExpires` the ten-second timeout of the lock. The throttle
admits or skips a request at random, since it neither excludes nor guarantees anything.
Token pairs are reused once nothing refers to them.

`TokenRevocation` adds `app_logout` and the collector step by step: listing the
associations, revoking (which may fail and is then only logged), deleting them, and deleting
the sessions one by one, the row (`DeleteRow`) before the entry (`DeleteEntry`), the browser's
own at the end (`FlushOwn`). `LogOutHere` is the logout of a request,
`LogOutByApi` the one another application asks for. `Serve` is `TokenRefresh`'s own
next-state relation with the new variables unchanged. `logout.owed` is history: the sessions
that were listed, without those into whose entry a request was about to write when their row
was deleted.

### Accounts

`profile`, `others`, `users`, `linked`, `mail` and `offer` are the tables (the last two are
the verifications, of associations and of addresses); `request[r]` is a
handler between two statements. `Register` stops after the checks and
`CreateAccount` writes, since nothing in between holds a lock. `Activate`,
`CreateAssociation`, `DeleteVerification`, `Announce`, `Welcome` and `LogIn` are
the statements of the POST of an activation link; `Callback` and `SaveLogin` load
and save an association, and append the address that the provider gives to the profile.
`MakePrimary`, `RemoveAddress`, `AskAddress` and `OpenAddress` are what an owner does with
addresses (`manage_login`, `new_email_verified`): they load the row, `SaveProfile` writes it
whole, `DropLink` deletes the link. Every mail deletes the links that have expired
(`Collected`, `Remaining`). Counters (`effects`, `told`, `welcomes`, `loggedIn`) are
history and saturate at two.

### MaintenanceMode

`SaveRow`, `WriteMirror` and `Commit` are `MaintenanceMode.save` inside the
transaction of the admin page: the mirror is written *before* the commit.
`LookUp`, `Load` and `Fill` are `get_state`, and `FailOpen` its `except`. A visit
is a login, its callback, an unsafe method or a silent login; `Blocked` is the
decision each of them takes. `seen` is history: what was in force at some time
since the visit began.

### ProfileRecord

`row[u]` holds the columns of `Profile` that several parties write: the addresses,
the networks (`role_overrides`), the memberships and whether `last_sync` is recent.
A handler is a record with the `copy` it loaded: `AddAddress`, `RemoveAddress`,
`MakePrimary`, `Login`, `ChangeNetworks`, `EditProfile`, `ViewRoles`, `BeginSync`,
`Enrol` and `Refresh` load the row and change the copy; `Save` writes every column of
it; `SaveColumns` writes one or two, as `save(update_fields=…)` does. `Sync` sets the
partners to ask; `Search`, `Ask` and `UpdateRoles` are `_sync_class` for one of them,
`Store` the save at the end; `AfterSave` says which handler goes on to sync the same
copy (a login, `manage_roles`) or to tell WordPress. Partners are asked in any order,
which includes that of the settings. `was` and `wasnt` are history: what was so at
some time since the sync began. The clients in `Shared` (UP) keep the last answer in
the object that all threads of a worker use, so `Search` of one thread changes the
`answer` another is about to read. An answer that a partner's cache still gives is
part of `standing`.

### ProfileLayout

`page[p]` is a tab with the edit page: what it shows, and how many handlers are
registered on each of its checkboxes. `profile-sort.js` saves nothing on demand: `Change`
is a drag or a click, which changes what the page shows and sends it (`saveOrder`);
`Post` puts as many requests under way as handlers fire, since `htmx:afterSwap` (`Swap`)
registers all of them again. `ChooseStyle`, `AskForList` and `Submit` are the requests
that htmx and the form send. A request is a record that `Load`s the row, and `Save`s,
`SaveAndList`s (after the Works service was asked) or `SaveForm`s every column of it;
requests are handled in any order, `Lose` is one that fails, `Other` a handler of another
page (one of those in `ProfileRecord`). `Arranged` is `process_orders`: a saved order,
without what is no longer configured and followed by what it does not name; `View` and
`Panel` are the row as its owner and as visitors see it.

For visitors `StartRender`, `Fill` and `RenderFails` are `works_deposits`, with the cache
entry `cached`; `Tick` makes entries and listings older, and counts in `past` for how long
what they hold has not been so. `wanted` is history: the value of each part that the
member last asked for, or `None` if another request may undo it.

## 3 Properties and runs

Every module has one type invariant. The other properties, what each says of the
code, and in which surroundings:

**`monitor`** (`MCWebsiteMonitor_all.cfg`) — five surroundings: a process that may
be killed anywhere but between `modify-rule` and the write to S3, while elbv2 is
flaky; two processes with everything flaky; a single one that is not killed,
likewise; one without a bucket; one that may be killed anywhere while S3 is flaky.

| Property | Says | Where |
|---|---|---|
| `RemovalIsRecorded` | while the rule is open, the S3 record says so, or a process is just about to write it | one process, S3 reliable, no kill before the write |
| `RemovalIsRemembered` | while the rule is open, some running process knows it and has yet to restore it | no kills; any number of processes |
| `PollingMeansRestricted` | a process that polls for failures does so behind a restricted rule – otherwise the next outage would capture "unrestricted" as what to restore | as the first |
| `OriginalMethodsComeBack` | the rule is unrestricted or has the methods it was configured with | one process, elbv2 reliable |
| `ImplementsLease` | the monitor implements `ProtectionLease`: what was opened stays open for the activation period, across restarts | as the first |
| `RememberedProtectionIsRemovedAgain` | (liveness) protection that a process or the record remembers is eventually taken back, if elbv2 works and the processes run from some time on | as the first, or no kills |

**`monitor_lost_removal`** — violated: `ProtectionIsRemovedAgain`, the promise of
the notification e-mail (section 7).

**`single_sign_on`** (`MCSatelliteLogin_all.cfg`) — one browser, two satellites, two
tokens and another application, in four surroundings: logouts while tokens are lost and
the sub is dissociated; logouts with two satellites, sessions that end and addresses
that are opened again; maintenance, with tokens lost, opened again and used twice; two
satellites with tokens used twice.

| Property | Says | Where |
|---|---|---|
| `LogoutReachesEveryHost` | after a logout, and until the person logs in again, no host has a session of theirs but those that began while it ran or from an answer older than its end | always |
| `ImplementsOneTimeToken` | with everything logins do to it, a token is a `OneTimeToken`: accepted once, then worthless for ever, unless two requests present it at the same time | always |
| `NavigationsEnd` | (liveness) a page view or login ends; the browser is not redirected between hub and satellite for ever | always |
| `LoginReachesSatellites` | (liveness) while the hub has a session, a person who goes on looking at pages of a satellite is logged in there, again and again, however many tokens are lost | returns are not opened again |

**`broker_replay`** — violated: `AcceptedAtMostOnce`.

**`refresh`** — one browser with two requests that overlap (a cache that loses sessions; a
lock that expires under its holder, and views that fail), or two browsers and one request at a
time (an unreliable CILogon; kills and views that fail).

| Property | Says | Where |
|---|---|---|
| `OneRefreshAtATime` | no two requests of a user are between taking the lock and giving it back | refreshes do not outlive the lock |
| `SessionsHoldCurrentToken` | at rest no session holds a token that a refresh has replaced, neither in its row nor in the cache | requests one at a time, no kills, no views that fail |
| `SessionsDoNotRevive` | once its row is deleted, by a logout or a refused refresh, a session comes back by a login only; its entry in the cache may be put back, once each, by the requests that were between row and entry at that moment, and by no others | always |
| `ExpiredTokenIsReplaced` | (liveness) an expired token is replaced or dropped, though workers die with the lock and views fail after a refresh | the user's other browsers make no requests from some time on |

**`refresh_recheck`** — violated: `RefreshesCurrentToken`.

**`logout`** — requests beside a logout or a collection, while CILogon is unreliable, or
while workers are killed and the cache loses sessions; two browsers and one thing at a time.
`LogoutEndsSessions`: at the end of a logout every session that had a row when the rows were
listed is gone from the database and from the cache, although requests save their copies
meanwhile; only a request that was between the row and the entry of a session when its row was
deleted may have put the entry back. `OnlyRevokedAreForgotten`: the row of a token is deleted
only after the token was revoked, if CILogon answers and one thing is done at a time.

**`accounts`** — two people, addresses, provider identities, links for associations and
requests, one link for an address; seven surroundings: removals; removals and outages; kills;
edits of addresses; overlapping requests; these with removals; these with edits.

| Property | Says | Where |
|---|---|---|
| `OnlyTheConfirmedLogIn` | nobody is linked to an identity, or logged in, without a link mailed for exactly this pair having been opened | always |
| `LinksTakeEffectOnce` | a link links once, also when it is posted twice at the same time | no login is removed |
| `NothingIsDoubled` | nobody registers with an address that another profile has, as its primary or as a secondary one, whatever logins, mailed links and edits have done to addresses before; and the tasks for a new member run once (`RegisteredAddressesAreFree`, `WelcomedOnce`) | requests one at a time; for the tasks, no login is removed |
| `RemovedLoginsStayRemoved` | a login that was removed comes back only through a link that is still good | requests one at a time |
| `ActivationsAreCompleted` | (liveness) an activation is announced, and its profile welcomed | no kills, the other services answer |

**`maintenance`** — two administrators, two visits, three surroundings.
`MirrorFollowsRow`: the mirror is the row or what is being saved.
`ReadOnlyWhileOn`: a visit during all of which the switch was on gets through only
if it is a login or a write of staff; in particular a login that began before is
not completed. Both hold while the cache keeps its entry and no transaction is
rolled back. `VisitsAreAnswered` (liveness): every visit is answered, through
outages and beside a first save. **`maintenance_staff`** — violated:
`StaffCanSignIn`.

**`profile_record`** — one profile, two handlers at a time, six surroundings.

| Property | Says | Where |
|---|---|---|
| `AddressesSurvive` | an address is lost only to the request that was asked to remove it | whole-row handlers of a profile do not overlap; enrolments and refreshes may run beside them |
| `OverridesSurvive` | the same of networks, although one request saves the row up to three times | requests one at a time |
| `MembershipIsHeard` | a sync stores a membership, or the lack of one, only if it was so at some time during the sync, whatever else loads and saves the row | partners answer; for a shared client, threads do not share it |
| `MembershipReturns` | (liveness) a membership that was withdrawn because a partner failed, or by the save of an older row, comes back, again and again, while the partner confirms it | the client is not shared by threads |

**`profile_layout`** — one or two tabs, two requests, five surroundings: a patient member
who drags fields; one who uses the list of works; two tabs used at once; one tab in a
hurry, with requests that fail and other writers of the row; visitors, while works are
hidden and shown.

| Property | Says | Where |
|---|---|---|
| `UncontestedChangesPersist` | a change that no other request of its part overlapped, and that no request with an older row was beside, is stored, and the requests for other parts, other tabs and other applications, which all save the whole row, do not undo it | always |
| `PageAgreesWithRow` | what a tab shows, through lists that are loaded again, is what is stored | one tab, whose member waits for answers; nothing fails |
| `VisitorsSeeRecent` | what the cache has for visitors was so not longer ago than an entry lives and a listing takes | always |
| `ChangesReachVisitors` | (liveness) if the row stays as it is, visitors come to see it | someone visits |

Eleven further properties are proved (section 6) and not run on their own: `ReplayIsRefused`
and `UncontestedIsAcceptedOnce`, which `ImplementsOneTimeToken` implies;
`RegisteredAddressesAreFree` and `WelcomedOnce`, the parts of `NothingIsDoubled`;
`SessionsSurvive` (no request ends a session while CILogon answers and still honours the
token before the last); `WordPressHasPrimary` (WordPress has the primary address once the
request that changed it is done, if nothing fails and whole-row handlers do not overlap);
`RolesAgree` (roles and memberships agree between requests, also when partners fail, with
requests one at a time and no kills); `LockGoesWithRefresh` (a request holds the lock exactly
while it is between acquiring and releasing it, if no refresh outlasts the lock and no worker
is killed); `RedirectsRunOut` (each redirect brings a navigation
nearer to its end, and only the end of a logout asked for there sends it back);
`ConsumersAnswer` (a consumer is at work exactly while a navigation waits for it);
`NobodyIsForgotten` (what follows an association is done, or some request is still to do it,
while no worker is killed and the other services answer).

## 4 Bounds

TLC explores each instance completely.

| Run | Instance | Why it is enough |
|---|---|---|
| `monitor` | two processes, two conditions of the rule, activation 3, grace period 2, threshold 2 failures | activation > grace > 1, so that a restart can fall into each; two processes are what a rolling deployment has |
| `monitor_lost_removal` | one process at a time, 2 / 1 / 2 | the counterexample needs no more |
| `single_sign_on` | one browser, two satellites, the hub, two tokens, one other application; one logout at a time | browsers share only the list that logout makes, and a session at the second satellite is to that list what one in a second browser is; two tokens are one that is lost, or older than a logout, and one that is not |
| `broker_replay` | one token, two requests | the counterexample needs no more |
| `refresh`, `refresh_recheck` | two requests on one session, or two sessions of one user agent and one request at a time; six token pairs | one request refreshes, the other has a copy of before; two sessions share row, lock and throttle; six pairs are one per place that can hold one (row and entry of the session, association, two copies) and a fresh one. Two browsers whose requests overlap are beyond what TLC explores in a few minutes; the safety properties are proved for them, `ExpiredTokenIsReplaced` is checked without them |
| `logout` | one request beside a logout or a collection and one session; two sessions and one thing at a time; four pairs | a session is ended before or after, or between the halves of, what the request saves; the theorems have any number |
| `accounts` | two of each of usernames, addresses, subs, links for associations and requests, one link for an address, seven surroundings | every property relates at most two of a kind; a second link for an address would find what the first has left |
| `maintenance` | two administrators, two visits, the states *off* and *on* | a save beside a save, a read beside a read; the message of a state does not matter |
| `profile_record` | one profile, two handlers, two addresses, one network, two partners of which one has a shared client | profiles meet only in the shared client, and what a thread then hears is wrong for another person of any kind, which `MembershipIsHeard` leaves out; a handler beside another is what every property needs; two addresses are a primary and a secondary one that change places |
| `profile_layout` | two tabs, two requests, two columns of two fields and a retired one, two works under a heading each, two styles, at most two handlers; entries live two ticks, a listing takes one | every property relates two requests or two parts; two elements are the least that have an order; a listing that is shorter than the life of an entry can still fill the cache after a save |

Ages (`mon`, the record) grow up to the longest duration and stay there: the code
compares them with durations only. Counters that only properties read (`effects`,
`welcomes`, `accepted`) saturate at two, which is "more than once". In `Accounts`
the links are used up – a secret is not issued twice – and in `SatelliteLogin` the
tokens are: a navigation begins only while a token is left for it (`Spare`), and when they
are used up the hub answers without one (`BuildFails`, which the code does when it cannot
build one). These two runs do without the check for deadlock; in all other runs a deadlock
would be reported. Because tokens run out, `LoginReachesSatellites` is about behaviours in
which page views go on behind markers and sessions when they have. Tokens,
requests and processes are symmetric, and symmetry is used only in runs without
liveness.

## 5 Fairness

* **WebsiteMonitor.** `WF(Tick)`: time passes. `WF(Start(m))`: the container is
  started again (`restart: unless-stopped` in `docker-compose.production.yml:90`). `WF(Progress(m))`: the main
  loop goes on; every AWS call has a timeout. Nothing is assumed of the website, S3
  or elbv2: the liveness property itself says that the rule is restricted again and
  again *if* elbv2 works and the processes run from some time on.
* **TokenRefresh.** `WF(LockExpires)`: Redis expires keys. `WF(Step(r))`: a worker
  that is not killed goes on. `SF`, for each session, of the arrival of a request, and of one
  that the throttle lets through: somebody keeps using the session, and the throttle lets a
  request through after its ten seconds. `<>[]` no kill and no view that fails, unless it looks
  like a response that had nothing to save: workers die, and views fail, finitely often.
  Nothing makes the lock fair to the browsers of a user, so the property speaks of those whose
  others have stopped.
* **Accounts.** `WF(Step(r) ∨ EditStep(r))`: a request goes on. Nobody is assumed to open a
  link, to log in or to edit.
* **MaintenanceMode.** `WF` of the rest of a save that has begun, and of the steps of
  a visit. Nobody is assumed to save, nor a cache to come back.
* **ProfileRecord.** `WF(Step(h))`: a handler goes on; every call to a partner has a
  timeout. `WF(Age(u))`: a day passes. `SF` of a sync that a recent result may answer,
  for each profile: the detail page of the REST API syncs, and other applications and
  the person's logins keep asking. `<>[]` no kill but one
  that looks like a step, and no answer that ends a sync by an exception. Nothing is assumed of partners: the
  property speaks of those that answer from some time on.

* **SatelliteLogin.** `WF(Follow(p))`: a browser follows the redirects it is given, and a
  request ends. `SF(MarkerExpires(p))`: the cookie has a `max_age` that page views do not
  renew, so it ends between two of them however fast they follow each other (in the model
  it ends between navigations only, so that weak fairness would not do). Nobody is assumed
  to look at a page; the property says for whom it speaks.
* **ProfileLayout.** `WF(Tick)`: time passes. `WF(Fill ∨ RenderFails)`: a listing ends, the
  Works client has timeouts. Nothing is assumed of the member or of requests.

`TokenRevocation` has safety properties only.

## 6 Proofs

TLAPS checks the theorems below for every number of processes, requests, tokens,
people and so on, and for every choice of surroundings. They rest on the named
assumptions on the constants and on nothing else: durations are ordered
(`TimingAssumption`), the marker values for *none* differ from the values they
stand beside (`NoRecordAssumption`, `MethodsAssumption`, `ValueAssumption`,
`StatesAssumption`, `AccountsAssumption`, `PartnerAssumption`, `NoneAssumption`), each session
has a user agent (`AgentAssumption`), no field or heading is configured twice
(`ConfigurationAssumption`), bounds are numbers (`BoundsAssumption`), and surroundings are
records of the kind the module declares (`EnvironmentAssumption`). TLC evaluates them in the
runs.

| Module | Theorems | The argument |
|---|---|---|
| `WebsiteMonitorProofs` | `TypeCorrect`, `RemovalRecorded`, `PollingRestricted`, `RemovalRemembered`, `OriginalsRestored`, `MonitorImplementsLease` | `ControlInv` ties phases to program counters: what a process has captured, what it believes about the rule. `RestartInv` adds what a restart must find: the rule is open only if the record, or the process that is about to write it, says so, and a process that polls knows the rule to be restricted. `RemovalIsRemembered` is inductive with `ControlInv`. `Faithful`: whatever remembers methods, process or record, remembers the configured ones. `LeaseInv`: nothing that remembers when the rule was opened is older than the opening, because a process that polls has left no old record behind; with it and `RestartInv` every step is one of the lease or a stutter |
| `BrokerTokenProofs` | `TypeCorrect`, `ReplayRefused`, `AcceptedOnce`, `Implements`; `LoginsUseTheBroker`, `LoginsKeepThePromise`, `SsoTypeCorrect`, `LogoutReaches`, `ConsumersReady`, `NoRedirectLoop` | `IInv`: what a request that survives has seen was minted. `OnceInv`: a token without contest has been accepted as often as it was spent, and has at most one user. The refinement maps a token to *live* while its nonce is in the cache or a request that found it has not decided. `LoginsUseTheBroker`: every step of `SatelliteLogin` is a step of `BrokerToken` or leaves it alone, so all of this holds of the deployment, the refinement included (`LoginsKeepThePromise`). `Ahead`, the steps that a navigation may still have before it, is the variant of `NoRedirectLoop`; it needs `ConsumersAnswer`. `LogoutInv`: while a logout runs, the sessions are those it has still to delete and strays; afterwards, until the next login, everything that may yet become a session is a stray (`AllFromBefore`) |
| `TokenRefreshProofs` | `TypeCorrect`, `OneRefresh`, `NoRevival`, `Survival`, `HoldsCurrent`, `LockIsReleased` | `HolderAdded`: a request past the lock holds it unless it timed out. `Carries`: a request before the end of a refresh carries a token. `NoRevival`: of a session without a row (`StaysEnded`), no step adds a request that is between row and entry, and only such a request writes the entry; each action is one case (`Ends`, `EndsByGoTo`, `EndsByLeaving`). `Benign`: while CILogon answers and honours old tokens no token is dead and no request has dropped its session. `Current`: with one request at a time, what row, entry or copy hold is current unless a request has just replaced it and has still to save it; it needs `Distinct`, that no two sessions hold the same token, and `Backed`, that an entry without a row is about to be deleted. `NoneLeft`: a lock that is taken is held by a request at work |
| `TokenRevocationProofs` | `LogoutEndsThemAll`, `OneRefreshBesideLogout`, `AllTypeCorrect`, `ForgottenAfterRevoked` | `Owing`: of the sessions owed to the logout only those still on the list, or half deleted (`OneHalf`: at most one), exist in either part, and nobody who could write the entry of the others is at work; it relies on a response never creating a row. The second theorem carries `OneRefreshAtATime` over to the composition. `OldRows`: a row that is gone has no age. `Accounted`: a row that a logout or a collection will delete has been revoked, or is still among those to be revoked |
| `AccountsProofs` | `TypeCorrect`, `ConfirmedLogIn`, `LinksWorkOnce`, `RegistrationsAreFree`, `WelcomesOnce`, `NothingDoubled`, `RemovedStayRemoved`, `NobodyForgotten` | Seven layers, each proved with the ones before it: `Types` (with `Held`: what a request carries, and `Rows`: whoever is linked, logging in or adding an address has a profile; `Editing`: what an edit of addresses leaves alone, so that the other layers treat all of them as one), `Confirmation` (links, logins and requests past the association are confirmed by a link), `Effects` (a link that took effect is the reason its sub is linked), `Serial` (at most one request at work, and what it has checked still holds: an address that a registration found free is free when the profile is written), `Welcoming` (who has been welcomed is linked, or its welcome is the request's), `StillGood` (with one request at work, the link of an activation is good until it takes effect, and the login of a callback stays linked), `Promised` (whoever is associated has been announced and welcomed, or a request that cannot stop before is to do it; the same is kept of whoever a callback may yet associate again, `Owed`, and an activation that leaves the welcome to another has one to leave it to, `Trusts`) |
| `MaintenanceModeProofs` | `TypeCorrect`, `Inductive`, `MirrorFollows`, `ReadOnly` | `Locked`: one transaction at a time holds the row. `Mirrored`: the mirror is in force. `Follows`: what a visit has read is among what was in force since it began |
| `ProfileRecordProofs` | `TypeCorrect`, `AddressesKept`, `OverridesKept`, `MembershipHeard`, `PrimaryTold`, `RolesMatch` | `WorkBegins`: what any request begins with, so that the ten ways to begin are one case afterwards. `QuietSteps`, `SilentSteps`: the asking of partners and the world leave rows and copies alone. `Hearing`: what has been found of a partner, or is about to be, was so since the sync began. `Kept`: a copy has all that its row has but what its handler was asked to remove, and handlers overlap no more than allowed. `Tellings`: row and WordPress differ only between the save of a new primary address and the call. `Matched`: a sync has found exactly what it made active of those it asked |
| `ProfileLayoutProofs` | `ChangesStay`, `VisitorsRecent`, `ProcessOrders`, `TypeCorrect`, `PageAgrees` | `Carries`: what is under way for a part has the value that is wanted. `Settled`: if nothing is, the row has it, and so has every copy that may still be saved. A request with an older copy gives up the claim when the other is stored (`Outdated`), not when it is saved itself; that is why the copies belong to the invariant. `Recent`: a listing is out of date no longer than it runs, an entry no longer than it lives and its listing ran. `KeptProperties`, `KeptPrecedes`: what a filter of a sequence keeps, and in which order, by induction. `TInv`: the value that a request carries is one that a page can show, so the row it saves is a row, and what a page shows of any row is complete (`ArrangedComplete`). `PInv`: the requests under way are those of one change, each carries what the tab shows, and what it has loaded is the row but for that part (`Attended`); the tab shows every other part as the row has it (`Agrees`) |

The invariants were checked by TLC on the small instances before they were proved.
Each is needed because the property is not inductive by itself: `OneRefreshAtATime`,
for instance, speaks of requests between lock and release, and a step from a state in
which one of them does not hold the lock would break it; `HolderAdded` excludes such
states.

`PageAgreesWithRow` shows it best. It speaks of moments when nothing is under way, but
what the tab shows then depends on the row that a request loaded some steps before: a
state in which that copy is older than the row satisfies the property, and the save
that follows breaks it. `PInv` excludes such states, for a member who waits; for a member
who does not they occur, and the property is not claimed. `PInv` needs `TInv`, since an order
that is complete is shown as it is (`ArrangedIdle`) and an order with a field missing is not.

**What `process_orders` returns** is proved for every order, configured or stored.
`Kept`, the comprehension with a condition, is a recursive function on the positions of
a sequence, not a recursive operator. The induction theorems of the library take a
predicate as a parameter, which the provers cannot instantiate; `NatInductive` says the
same of a set of numbers and follows from `WFMin` of the library (a set without a least
element is empty). With the set of positions up to which a statement holds, that is all the
induction these proofs need: first that the equations of `Kept` have a solution
(`FilterExists`), then what it is.

Only model-checked are the eight liveness properties: `RememberedProtectionIsRemovedAgain`,
`NavigationsEnd`, `LoginReachesSatellites`, `ExpiredTokenIsReplaced`,
`ActivationsAreCompleted`, `VisitsAreAnswered`, `MembershipReturns` and
`ChangesReachVisitors`. TLAPS proves neither fairness arguments with `ENABLED` nor what they
imply. For some the other half is proved, that the steps which fairness promises lead where
they should. `NoRedirectLoop`: a step of a navigation brings it nearer to its end, and of the
steps of others only the end of a logout asked for there does not. `NobodyForgotten`: for
everything that an activation has left to do there is a request at work, if nothing is killed
and the other services answer. `LockIsReleased`: only a killed worker leaves behind a lock that
must run out before a token is refreshed.
`RemovalRemembered`: a rule that is open is remembered by whoever is to restrict it.
`VisitorsRecent`: what visitors see is recent as long as entries expire. Every invariant and
every action property of the passing runs is a theorem. That a bound is *reached* (the state
spaces of section 4) is also a matter of the runs: a proof does not show that the interesting
case occurs, the runs do.

## 7 Findings and observations

Four statements of the code's own comments or texts are not what the code does. Each
has a run in which TLC finds the counterexample.

1. **Protection that is never taken back** (`monitor_lost_removal`). The e-mail says
   that protection is "automatically removed after 1 hour" (`monitor_website.py:404`).
   If the process is stopped after `modify-rule` (728) and before the write to S3
   (735), the next process finds no record, and nothing remembers that the rule is
   open. The same happens if that write fails and a restart follows.
2. **A nonce that is accepted twice** (`broker_replay`). The comment at
   `broker_client.py:92-93` speaks of single use; `cache.get` and `cache.delete` are
   two calls, and requests between them all succeed.
3. **The check under the lock is of the old token** (`refresh_recheck`).
   `middleware.py:178` says that the token is checked again because another request
   may have refreshed it; line 179 asks about the copy the request loaded with its
   session. A request that waited refreshes a token that has already been replaced.
4. **Staff cannot sign in during maintenance** (`maintenance_staff`). A comment
   (`views.py:145`) lets staff past the page "so they can still sign in";
   `cilogon_login` logs them out (202-203) before it sends them to CILogon, and the
   callback, now of an anonymous visitor, meets the page (232).

Observations that follow from the models but contradict no text:

*Monitor.* If the first `describe-rules` fails and the second succeeds, the default
methods are recorded as the original ones and restored later. A failed delete leaves
a record on whose behalf a later process restores again.

*Tokens.* Logout deletes associations that were recorded after it had listed them, so
their tokens are never revoked; session tokens that no association names are not
revoked either. The collector goes by the creation of a row that is updated in place:
it revokes the token of a browser that has been in use for longer than the limit.
A worker killed after CILogon answered loses the new token pair, and so does a view that
fails after a refresh: with a response of 500 or above the session is not saved, and it keeps
the token that was replaced (`SessionsHoldCurrentToken` excepts it).
A request that has updated the row of its session, or has read it, and writes the entry of
the cache after a logout or a refused refresh has deleted both, revives the session: its
cookie is good as long as the entry lives, though nothing can be saved to it and later
logouts, which list rows, do not find it. `SessionsDoNotRevive` and `LogoutEndsSessions`
except exactly these entries. One lock, and one throttle per user agent, serve all
browsers of a user: requests of one can hold the lock at every attempt of another, whose
token then expires (`ExpiredTokenIsReplaced` is about browsers whose others are quiet,
`Alone`).

*Single sign-on.* `logout_view` says that it deletes every session in the store, "so a
logout on any host … propagates to all the others". A token that the hub had granted or
built before starts a session on a satellite all the same, after the logout is over;
`LogoutReachesEveryHost` excepts these sessions, and no others. A token is spent before
its association is looked up: without one it is lost, and the person goes on anonymously
until the marker expires. A person who keeps opening the address of an old return sets
the marker anew each time and is not logged in by it. A browser that refuses cookies is
redirected to the hub and back with every page.

*Layout.* A member in a hurry loses changes: two requests that are sent at once each save
the whole row they loaded, and the one that lists the works again saves it after the Works
service has answered, which takes up to half a minute. (`TESTING.md:139` expects changes
of works to persist; let `UncontestedChangesPersist` speak of contested changes too, and
TLC shows the loss.) The order that is saved names the works that were listed, at most a
hundred; the settings of others are dropped. `TESTING.md:129` speaks of dragging sections
between columns, the page allows it within a column only. The save views delete keys of
the cache that nothing writes; what visitors see changes when the entry expires, one
lifetime after it was filled, which is a listing later than the row was read. The save
views act on the row of whoever asks, also when staff edits another person's page. One
click sends as many requests as lists have been loaded since the page was.

*Accounts.* Two simultaneous registrations with the same address and different
usernames both succeed. Two links of one profile opened at the same time are both
welcomed. `callback` saves an association that it loaded before, and thereby inserts
one that was removed in between. Who removes the last login and adds one again counts
as new. A callback appends the address that the provider gives (`views.py:289-296`),
the link for a new address the one that was asked for (993-997), without looking at other
profiles, and either can then be made the primary one (1004-1028): two profiles can come to
have the same primary address, one request after the other. Only registration, and the mail
for a new address, look; `NothingIsDoubled` says that registration finds whatever the others
have left. A worker killed after `SubAssociation` was created never completes the tasks
of the activation, since the link does not work a second time; a failed announcement
or Mailchimp call is only logged.

*Profile record.* Every editor saves the whole row it loaded. A sync loads it before
calls to partners that take seconds, and then saves addresses, networks and texts as
they were: an address verified, a network joined or a form saved meanwhile is lost
(remove `env.overlap # "all"` from `AddressesSurvive`, or let `OverridesSurvive` speak of
overlapping requests, and TLC shows it). `refresh_local_memberships` writes the whole
of `is_member_of` from the copy it loaded: the memberships of partners, which its doc
string (`sync.py:198-200`) calls preserved, are those of the load. A partner that does
not answer, or that the rate limit keeps from being asked, looks like one that does not
know the person: the membership is withdrawn, the role expires, and `last_sync` is set,
so that it stays withdrawn up to `SYNC_HOURS`. A partner whose answer cannot be read ends the
sync by an exception (`up.py:468-474` uses the empty answer of 500-516; `sync.py:98-128`
saves nothing then): as long as it goes on, no membership of any partner is stored, while the
roles of those that were asked before it have changed already. The limit itself reads and writes its
count in two steps, is shared by three partners under one key, and begins its window anew
with every call. Whether an address is in use is asked when a mail is sent, not when its
link is opened: two people can come to have the same secondary address, and a person one
that has become somebody's primary one. The UP client is one object for eight
threads and keeps the last answer: a search for one person between the search and the
question for another answers for the wrong one. A second link for the same address,
opened after the address became the primary one, makes it secondary as well. Two
requests that change the primary address at once may tell WordPress in the other order.

*Maintenance.* The mirror is written before the commit, so that a state that is
rolled back stays in the cache, without a timeout. A reader that misses the cache
loads the old row; an administrator saves, writes the mirror and commits; the reader
fills the cache with the old state, which stays until the next save. The doc string
(`models.py:181-182`) that a toggle takes effect on the very next request therefore
holds only while the cache keeps its entry; the property says so.

## 8 What is left

What the modules leave out:

* *MaintenanceMode*: the third read of the state, by the context processor of a page;
  a sign-in through the Django admin between a login and its callback.
  `broker_client_login` (`views.py:333-379`) has no gate and is not a visit.
* *WebsiteMonitor*: a `modify-rule` that AWS carries out although the call fails
  (`monitor_website.py:370-372`): the rule is then open and nobody remembers it. The properties
  do not speak of it.
* *TokenRefresh*: tokens without a refresh token, with which `Associate` fails
  (`middleware.py:119-120`) and a refresh is given up (239-246); associations of other
  applications, and the duplicates they make (127-143).
* *Accounts*: a row that was deleted and created again between the two halves of
  `callback` counts as the same row; the syncs after a callback and a welcome, which save the
  whole row again later, are in `ProfileRecord` (they matter to requests that overlap only).
* *ProfileRecord*: which address a partner knows a person by, the identifiers and groups
  of partners, the memberships computed from COmanage roles, the texts, the webhooks and
  Mailchimp, the admin form, roles that do not exist yet; the rate limit is a partner that
  does not answer. UP's `is_member` may say `None` (`up.py:433`), which counts as no: no use of
  it tells the two apart. An edit that changes nothing is not begun.
* *SatelliteLogin*: one person, whose association is one fact; two logouts at the same
  time; the page on which the browser lands; the refresh of CILogon's tokens, which
  `TokenRefresh` has: here it is a session that lapses; a login at the hub by a browser that has
  a session but no association, or whose answer cannot be built, which ends all sessions of the
  user first (`views.py:197-202`; for the model, a logout before a login); and where a browser
  goes when the hub has no address to answer to (311-315).
* *ProfileLayout*: the texts of the form and the other rows that `ProfileRecord` has (its
  handlers are `Other` here); works that appear or disappear; the member's own edits from
  a page of another person; that the headings of the list come from a second load of the row
  (`works.py:36-42`), and that a list which the Works service did not deliver is shown empty
  while the chosen style is saved.

### Not modelled

The components with status *not_modelled* in `PROJECT.json`, for these reasons. Host names,
reserved terms and addresses are taken apart character by character: what can be wrong in
that is a case of a string, which the unit tests enumerate and a model would only repeat.
Search, members, serializers, admin, templates and forms read the database and keep
nothing; management commands are run by one person, alone. The feeds format what others
publish.

Of the JavaScript in the repository only `static/js/profile-sort.js` belongs to the program.
`static/js/material-dashboard.js`, `plugins/bootstrap-notify.js`, `plugins/Chart.extension.js`,
`plugins/world.js` and the TinyMCE files under `static/tinymcelocal/` are third-party
libraries, a theme, maps and translations; they keep no state that the program reads, and
are not modelled. The Python code under `citeproc/` is a vendored
library.

### What could follow

1. The associations that other applications store, as a refinement of `TokenRefresh`; the
   relay of a logout to them.
2. The mails under way for secondary addresses, and the people who share the client of a
   partner, as extensions of `ProfileRecord`; the count of the rate limit.
3. Proofs: that two tabs of a member who waits for both agree with the row in the parts that
   only one of them has changed, which needs a history of the saves.

## 9 Running it

    tlc -workers 2 -config MCWebsiteMonitor_all.cfg MCWebsiteMonitor
    tlapm WebsiteMonitorProofs.tla

A configuration `MCx_y.cfg` belongs to the module `MCx`. `MCMaintenanceMode_all.cfg` has the most
states (560 000 distinct ones) and takes, like `MCTokenRefresh_all.cfg` with its liveness, about a
minute and a half with two workers; the others take less. The proofs take a few minutes each.
