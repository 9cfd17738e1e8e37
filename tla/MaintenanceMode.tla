---------------------------- MODULE MaintenanceMode ----------------------------
(***************************************************************************)
(* The switch that makes the identity system read-only: one database row,  *)
(* mirrored in the shared cache without a timeout.  An administrator saves *)
(* the row in the transaction of the admin page, and save writes the       *)
(* mirror before that transaction commits.  Requests read the mirror; a    *)
(* request that finds none loads the row, creating it if need be, and      *)
(* fills the mirror.  Any error of the cache or of the database makes a    *)
(* request believe that there is no maintenance.                           *)
(*                                                                         *)
(* A state of the switch is a model value: what the page says matters only *)
(* in that one state differs from another.                                 *)
(***************************************************************************)
EXTENDS Naturals

CONSTANTS
  Admins,       \* staff on the admin page
  Requests,     \* browsers, each with one visit at a time
  States,       \* values of (enabled, title, message)
  On,           \* those with enabled = True
  Default,      \* _default_state, also what a new row holds
  None,         \* no row / no entry in the cache
  Environments  \* the surroundings in which the program may run

ASSUME StatesAssumption == On \subseteq States /\ Default \in States \ On /\ None \notin States

\* forgets: the cache starts empty and may lose the entry; outages: calls to the
\* cache, and a request's calls to the database, may fail; aborts: the
\* transaction of the admin page may roll back after save; alone: there is one
\* visit at a time.
ASSUME EnvironmentAssumption ==
  Environments \subseteq [forgets : BOOLEAN, outages : BOOLEAN, aborts : BOOLEAN,
                            alone : BOOLEAN]

VARIABLES
  env,      \* the surroundings, which do not change
  row,      \* the committed row
  mirror,   \* the cache entry maintenance_mode:state
  admin,    \* what each administrator is saving
  request   \* what each request is doing

vars == <<env, row, mirror, admin, request>>

Idle == [at |-> "idle"]

AdminState == {Idle} \cup [at : {"mirror", "commit"}, state : States]

\* login and callback: the two requests of a login; write: an unsafe method;
\* silent: silent_login of the broker.  staff: by staff, or, for a write, on a
\* path of the allowlist.
Visits == [kind : {"login", "callback", "write", "silent"}, staff : BOOLEAN]

\* away: the browser is at CILogon between the two requests of a login.
\* page: the request is blocked and reads the state to render the page;
\* state: what it loaded or was told; seen: history, what was in force or being
\* saved since it began, until it is blocked.
RequestState ==
  {Idle} \cup [at : {"away"}, visit : Visits] \cup
  [at : {"get", "load"}, visit : Visits, page : BOOLEAN, state : {None},
   seen : SUBSET States] \cup
  [at : {"fill", "told"}, visit : Visits, page : BOOLEAN, state : States,
   seen : SUBSET States]

TypeOK ==
  /\ env \in Environments
  /\ row \in States \cup {None}
  /\ mirror \in States \cup {None}
  /\ admin \in [Admins -> AdminState]
  /\ request \in [Requests -> RequestState]

Init ==
  /\ env \in Environments
  /\ row \in States \cup {None}
  /\ mirror = IF env.forgets THEN None ELSE row
  /\ env.forgets \/ row # None
  /\ admin = [a \in Admins |-> Idle]
  /\ request = [r \in Requests |-> Idle]

Pending == {admin[a].state : a \in {b \in Admins : admin[b] # Idle}}
InForce == ({row} \ {None}) \cup Pending

At(r, where) == request[r].at = where
GoTo(r, where) == request' = [request EXCEPT ![r].at = where]
Tell(r, s) == request' = [request EXCEPT ![r].at = "told", ![r].state = s]
AdminGoesTo(a, local) == admin' = [admin EXCEPT ![a] = local]

-------------------------------------------------------------------------------
(* MaintenanceMode.save in the transaction of the admin page.              *)

\* The update locks the row: there is one transaction at a time.
SaveRow(a, s) ==
  /\ Pending = {}
  /\ AdminGoesTo(a, [at |-> "mirror", state |-> s])
  /\ request' = [r \in Requests |->
                   IF request[r].at \in {"idle", "away"} \/ request[r].page THEN request[r]
                   ELSE [request[r] EXCEPT !.seen = @ \cup {s}]]
  /\ UNCHANGED <<env, row, mirror>>

\* Mutant of WriteMirror: save leaves the mirror to the next reader.
ForgetToWriteMirror(a) ==
  /\ admin[a].at = "mirror"
  /\ AdminGoesTo(a, [admin[a] EXCEPT !.at = "commit"])
  /\ UNCHANGED <<env, row, mirror, request>>

WriteMirror(a) ==
  /\ admin[a].at = "mirror"
  /\ mirror' = admin[a].state
  /\ AdminGoesTo(a, [admin[a] EXCEPT !.at = "commit"])
  /\ UNCHANGED <<env, row, request>>

Commit(a) ==
  /\ admin[a].at = "commit"
  /\ row' = admin[a].state
  /\ AdminGoesTo(a, Idle)
  /\ UNCHANGED <<env, mirror, request>>

\* A cache.set that raises may have reached the cache all the same.
SetFails(s) == env.outages /\ mirror' \in {mirror, s}

\* cache.set raises, or what the admin page does after save fails.
RollBack(a) ==
  /\ \/ admin[a].at = "mirror" /\ SetFails(admin[a].state)
     \/ admin[a].at = "commit" /\ env.aborts /\ UNCHANGED mirror
  /\ AdminGoesTo(a, Idle)
  /\ UNCHANGED <<env, row, request>>

-------------------------------------------------------------------------------
(* A visit, and get_state within it.                                       *)

Visit(v) ==
  [at |-> "get", visit |-> v, page |-> FALSE, state |-> None, seen |-> InForce]

Begin(r, v) ==
  /\ At(r, "idle") /\ v.kind # "callback"
  /\ env.alone => \A q \in Requests : At(q, "idle")
  /\ request' = [request EXCEPT ![r] = Visit(v)]
  /\ UNCHANGED <<env, row, mirror, admin>>

\* CILogon sends the browser to the callback.
ComeBack(r) ==
  /\ At(r, "away")
  /\ request' = [request EXCEPT ![r] = Visit([request[r].visit EXCEPT !.kind = "callback"])]
  /\ UNCHANGED <<env, row, mirror, admin>>

LookUp(r) ==
  /\ At(r, "get")
  /\ IF mirror = None THEN GoTo(r, "load") ELSE Tell(r, mirror)
  /\ UNCHANGED <<env, row, mirror, admin>>

\* Mutant of Load: the row is looked for and not created.
LoadIfThere(r) ==
  /\ At(r, "load")
  /\ request' = [request EXCEPT ![r].at = "fill", ![r].state = row]
  /\ UNCHANGED <<env, row, mirror, admin>>

\* get_or_create waits for a transaction that is inserting the row.
Load(r) ==
  /\ At(r, "load")
  /\ row = None => Pending = {}
  /\ row' = IF row = None THEN Default ELSE row
  /\ request' = [request EXCEPT ![r].at = "fill", ![r].state = row']
  /\ UNCHANGED <<env, mirror, admin>>

Fill(r) ==
  /\ At(r, "fill")
  /\ mirror' = request[r].state
  /\ GoTo(r, "told")
  /\ UNCHANGED <<env, row, admin>>

\* Mutant of FailOpen: a failed call is tried again.
TryAgain(r) ==
  /\ env.outages /\ request[r].at \in {"get", "load"}
  /\ GoTo(r, "get")
  /\ UNCHANGED <<env, row, mirror, admin>>

FailOpen(r) ==
  /\ \/ request[r].at \in {"get", "load"} /\ env.outages /\ UNCHANGED mirror
     \/ At(r, "fill") /\ SetFails(request[r].state)
  /\ Tell(r, Default)
  /\ UNCHANGED <<env, row, admin>>

-------------------------------------------------------------------------------
(* The gates: maintenance_block, the read-only middleware and silent_login. *)

\* Mutant of Blocked: the callback lets a login complete that was let begin.
BlockedUnlessBegun(r) ==
  LET v == request[r].visit IN
    /\ request[r].state \in On
    /\ v.kind # "callback" /\ (v.kind # "silent" => ~v.staff)

\* The first request of a login logs its user out, so that the callback finds
\* nobody to bypass for; silent_login lets nobody bypass.
Blocked(r) ==
  LET v == request[r].visit IN
    /\ request[r].state \in On
    /\ v.kind \in {"login", "write"} => ~v.staff

\* A write, a session or a token; or, from login, a redirect to CILogon, unless
\* the user is signed in and came from the broker.
Proceed(r) ==
  /\ At(r, "told") /\ ~request[r].page /\ ~Blocked(r)
  /\ \E next \in {Idle, [at |-> "away", visit |-> request[r].visit]} :
       /\ next # Idle => request[r].visit.kind = "login"
       /\ request' = [request EXCEPT ![r] = next]
  /\ UNCHANGED <<env, row, mirror, admin>>

\* The broker answers "no session", the others read the state for the page.
Refuse(r) ==
  /\ At(r, "told") /\ ~request[r].page /\ Blocked(r)
  /\ request' = [request EXCEPT ![r] =
                   IF @.visit.kind = "silent" THEN Idle
                   ELSE [@ EXCEPT !.at = "get", !.page = TRUE, !.state = None, !.seen = {}]]
  /\ UNCHANGED <<env, row, mirror, admin>>

ShowPage(r) ==
  /\ At(r, "told") /\ request[r].page
  /\ request' = [request EXCEPT ![r] = Idle]
  /\ UNCHANGED <<env, row, mirror, admin>>

-------------------------------------------------------------------------------

\* Redis restarts, or somebody clears the cache.
LoseMirror ==
  /\ env.forgets /\ mirror # None
  /\ mirror' = None
  /\ UNCHANGED <<env, row, admin, request>>

Administer(a) ==
  (\E s \in States : SaveRow(a, s)) \/ WriteMirror(a) \/ Commit(a) \/ RollBack(a)

GetState(r) == LookUp(r) \/ Load(r) \/ Fill(r) \/ FailOpen(r)

Step(r) == GetState(r) \/ Proceed(r) \/ Refuse(r) \/ ShowPage(r)

Next ==
  \/ \E a \in Admins : Administer(a)
  \/ \E r \in Requests : (\E v \in Visits : Begin(r, v)) \/ ComeBack(r) \/ Step(r)
  \/ LoseMirror

Spec == Init /\ [][Next]_vars

-------------------------------------------------------------------------------
Fairness ==
  /\ \A a \in Admins : WF_vars(WriteMirror(a) \/ Commit(a) \/ RollBack(a))
  /\ \A r \in Requests : WF_vars(Step(r))

FairSpec == Spec /\ Fairness

\* Nothing is lost and nothing fails.
Reliable == ~env.forgets /\ ~env.outages /\ ~env.aborts

(* save writes the row and the mirror in two steps, in a transaction that    *)
(* others wait for: once the cache holds the state, and as long as neither   *)
(* it nor the transaction fails, the mirror is the row or what is being      *)
(* saved, whatever several administrators do at once.                        *)
MirrorFollowsRow == Reliable => mirror \in InForce

(* The gates of logins, callbacks, writes and the broker: a visit during all *)
(* of which the switch was on gets through only if it is a login or a write  *)
(* by staff.  So a login that began before the switch was turned on is not   *)
(* completed after it.                                                       *)
ReadOnlyWhileOn ==
  [][\A r \in Requests :
       Reliable /\ Proceed(r) /\ request[r].seen \subseteq On =>
         request[r].visit.staff /\ request[r].visit.kind \in {"login", "write"}]_vars

(* The accessors fail open and wait for nobody for ever: every visit gets an *)
(* answer, during outages, with an empty cache and beside a first save.      *)
VisitsAreAnswered ==
  \A r \in Requests : request[r].at = "get" ~> request[r].at \in {"idle", "away"}

(* cilogon_login says that staff bypass the maintenance page so that they    *)
(* can still sign in: a login that staff began is not refused half way.      *)
StaffCanSignIn ==
  \A r \in Requests :
    request[r].at \notin {"idle", "away"} /\ request[r].page =>
      ~(request[r].visit.staff /\ request[r].visit.kind = "callback")
================================================================================
