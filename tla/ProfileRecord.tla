----------------------------- MODULE ProfileRecord -----------------------------
(***************************************************************************)
(* The row of a Profile and everything that writes it.                     *)
(*                                                                         *)
(* A handler loads the row, changes its copy, and saves every column of    *)
(* the copy (views of cilogon and newprofile), or, if it is an enrolment   *)
(* or a refresh from the local roles, two columns or one.  Between load    *)
(* and save lies the synchronisation with the partner societies            *)
(* (rest_api/sync.py): for each partner a search by address, a question    *)
(* whether the person found is a member, and an update of the roles.  The  *)
(* client of a partner is one object per worker process; some partners'    *)
(* clients keep the last answer in it.                                     *)
(*                                                                         *)
(* Outside the model: which address a partner knows a person by, the       *)
(* memberships in societies without a partner, the texts of a profile.     *)
(***************************************************************************)
EXTENDS Naturals

CONSTANTS Users, Addresses, Networks,
          Partners,      \* the partner societies that are asked
          Shared,        \* those whose client keeps the last answer
          Handlers,      \* requests and commands at work
          Environments,  \* the circumstances it may run in, see env
          None

ColumnKinds == {"enrol", "refresh"}
RowKinds == {"add", "remove", "primary", "login", "network", "staff", "form", "sync"}
Kinds == ColumnKinds \cup RowKinds

ASSUME PartnerAssumption == Shared \subseteq Partners /\ None \notin Partners

ASSUME DataAssumption == Addresses \cap Networks = {}

ASSUME EnvironmentAssumption ==
  Environments \subseteq
    [users: SUBSET Users, kinds: SUBSET Kinds, asked: SUBSET Partners,
     overlap: {"none", "columns", "all"},
     flaky: BOOLEAN, threads: BOOLEAN, kills: BOOLEAN]

Row == [email: Addresses, emails: SUBSET Addresses, overrides: SUBSET Networks,
        member: SUBSET Partners, fresh: BOOLEAN]

VARIABLES
  env,       \* whose profiles and which handlers there are; asked: the partners in
             \* EXTERNAL_SYNC_CLASSES; overlap: no two handlers overlap, or of
             \* those of one profile all but one save single columns, or all do;
             \* flaky: other services may not answer; threads: the handlers
             \* are threads of one process; kills: they are killed
  row,       \* the Profile of each user; fresh: last_sync is recent
  active,    \* the partners for which the user's Role is active
  wordpress, \* the address that WordPress has of each user
  standing,  \* the partners that confirm each user to be a member, if asked, or
             \* through an answer of theirs that is still in the cache
  up,        \* the partners that answer (and are below the rate limit)
  handler    \* the handlers and their local variables

vars == <<env, row, active, wordpress, standing, up, handler>>

Idle == [at |-> "idle"]

\* copy: the Profile the handler loaded; drop: what it was asked to remove from it;
\* again: whether a second sync follows; left: the partners still to ask; found:
\* is_member_of so far; partner, answer: the one being asked and what it says;
\* was, wasnt: the partners the user was, or was not, a member of at some time
\* since the sync began.
Work ==
  [at: {"save", "tell", "columns", "sync", "ask", "roles"}, kind: Kinds, user: Users,
   copy: Row, drop: SUBSET (Addresses \cup Networks), again: BOOLEAN,
   left: SUBSET Partners, found: SUBSET Partners,
   partner: Partners \cup {None}, answer: BOOLEAN,
   was: SUBSET Partners, wasnt: SUBSET Partners]

Known(r) == {r.email} \cup r.emails

TypeOK ==
  /\ env \in Environments
  /\ row \in [Users -> Row]
  /\ active \in [Users -> SUBSET Partners]
  /\ wordpress \in [Users -> Addresses]
  /\ standing \in [Users -> SUBSET Partners]
  /\ up \subseteq Partners
  /\ handler \in [Handlers -> {Idle} \cup Work]

\* Newly activated profiles, before the first sync.
Init ==
  /\ env \in Environments
  /\ row \in [Users -> [email: Addresses, emails: {{}}, overrides: {{}},
                        member: {{}}, fresh: {FALSE}]]
  /\ active = [u \in Users |-> {}]
  /\ wordpress = [u \in Users |-> row[u].email]
  /\ standing = [u \in Users |-> {}]
  /\ up = Partners
  /\ handler = [h \in Handlers |-> Idle]

At(h, label) == handler[h].at = label
Busy(h) == ~At(h, "idle")
HasRow(h, u) == Busy(h) /\ handler[h].user = u /\ handler[h].kind \in RowKinds

GoTo(h, state) == handler' = [handler EXCEPT ![h] = state]

-------------------------------------------------------------------------------
(* Handlers begin: the row is loaded and the copy changed.                 *)

\* Overlapping handlers are what env allows.
Admits(u, kind) ==
  /\ u \in env.users /\ kind \in env.kinds
  /\ env.overlap = "none" => \A h \in Handlers : ~Busy(h)
  /\ env.overlap = "columns" /\ kind \in RowKinds => \A h \in Handlers : ~HasRow(h, u)

Loaded(u, kind, label) ==
  [at |-> label, kind |-> kind, user |-> u, copy |-> row[u], drop |-> {},
   again |-> FALSE, left |-> {}, found |-> {}, partner |-> None, answer |-> FALSE,
   was |-> {}, wasnt |-> {}]

\* ExternalSync.sync with the copy at hand.
Sync(state) ==
  [state EXCEPT !.at = "sync", !.left = env.asked, !.found = {},
                !.was = standing[state.user], !.wasnt = Partners \ standing[state.user]]

\* Mutant of Due: only those who were members are asked about again.
DueForMembers(copy, cache) == ~cache \/ (~copy.fresh /\ copy.member # {})

\* The recent result of an earlier sync will do, if the caller says so.
Due(copy, cache) == ~(cache /\ copy.fresh)

Begin(h, u, kind, state) ==
  /\ ~Busy(h) /\ Admits(u, kind)
  /\ GoTo(h, state)
  /\ UNCHANGED <<env, row, active, wordpress, standing, up>>

\* new_email_verified: the link that was mailed to a new address was opened.
AddAddress(h, u, a) ==
  LET loaded == Loaded(u, "add", "save") IN
  /\ a \notin row[u].emails
  /\ Begin(h, u, "add", [loaded EXCEPT !.copy.emails = @ \cup {a}])

\* _remove_secondary_email
RemoveAddress(h, u, a) ==
  LET loaded == Loaded(u, "remove", "save") IN
  /\ a \in row[u].emails
  /\ Begin(h, u, "remove", [loaded EXCEPT !.copy.emails = @ \ {a}, !.drop = {a}])

\* Mutant of MakePrimary: the old primary address is given up.
MakePrimaryOnly(h, u, a) ==
  LET loaded == Loaded(u, "primary", "save") IN
  /\ a \in row[u].emails
  /\ Begin(h, u, "primary", [loaded EXCEPT !.copy.emails = @ \ {a}, !.copy.email = a])

\* _make_email_primary: the old primary address becomes a secondary one.
MakePrimary(h, u, a) ==
  LET loaded == Loaded(u, "primary", "save") IN
  /\ a \in row[u].emails
  /\ Begin(h, u, "primary",
       [loaded EXCEPT !.copy.emails = Known(row[u]) \ {a}, !.copy.email = a])

\* Mutant of Login: does not ask whether the provider reports an address.
LoginWithoutAddress(h, u, a) ==
  LET loaded == Loaded(u, "login", "save") IN
  IF a \notin Known(row[u])
    THEN Begin(h, u, "login", [loaded EXCEPT !.copy.emails = @ \cup {a}])
    ELSE Due(row[u], TRUE) /\ Begin(h, u, "login", Sync(loaded))

\* callback: an address that the provider reports (or None) and the profile lacks
\* is added; then the same copy is synced, unless its sync is recent.
Login(h, u, a) ==
  LET loaded == Loaded(u, "login", "save") IN
  IF a \notin {None} \cup Known(row[u])
    THEN Begin(h, u, "login", [loaded EXCEPT !.copy.emails = @ \cup {a}])
    ELSE Due(row[u], TRUE) /\ Begin(h, u, "login", Sync(loaded))

Toggle(set, x) == IF x \in set THEN set \ {x} ELSE set \cup {x}

\* Joining and leaving a network, the import of a CSV file ("network"), and
\* manage_roles ("staff"), which goes on to sync the copy it saved, twice.
ChangeNetworks(h, u, kind, n) ==
  LET loaded == Loaded(u, kind, "save") IN
  Begin(h, u, kind,
    [loaded EXCEPT !.copy.overrides = Toggle(@, n),
                   !.drop = row[u].overrides \cap {n}, !.again = (kind = "staff")])

\* A form of the profile: the texts change, and every column is saved.
EditProfile(h, u) == Begin(h, u, "form", Loaded(u, "form", "save"))

\* manage_roles without an edit.
ViewRoles(h, u) ==
  LET loaded == Loaded(u, "staff", "sync") IN
  Begin(h, u, "staff", Sync([loaded EXCEPT !.again = TRUE]))

\* A page or command that syncs a profile (cache: a recent result will do).
BeginSync(h, u, cache) ==
  /\ Due(row[u], cache)
  /\ Begin(h, u, "sync", Sync(Loaded(u, "sync", "sync")))

\* society_enrolment, which refreshes only if the person was enrolled before, and
\* the commands that refresh the local memberships.
Enrol(h, u, n) ==
  LET loaded == Loaded(u, "enrol", "columns") IN
  Begin(h, u, "enrol", IF n \in row[u].overrides
                         THEN [loaded EXCEPT !.kind = "refresh"]
                         ELSE [loaded EXCEPT !.copy.overrides = @ \cup {n}])

Refresh(h, u) == Begin(h, u, "refresh", Loaded(u, "refresh", "columns"))

-------------------------------------------------------------------------------
(* Handlers go on.                                                         *)

\* Mutant of AfterSave: manage_roles syncs the profile as it was before the edit.
AfterSaveBefore(state) ==
  CASE state.kind = "primary" -> [state EXCEPT !.at = "tell"]
    [] state.kind = "login" /\ Due(state.copy, TRUE) -> Sync(state)
    [] state.kind = "staff" -> Sync([state EXCEPT !.copy = row[state.user]])
    [] OTHER -> Idle

\* What follows the save of an edit.
AfterSave(state) ==
  CASE state.kind = "primary" -> [state EXCEPT !.at = "tell"]
    [] state.kind = "login" /\ Due(state.copy, TRUE) -> Sync(state)
    [] state.kind = "staff" -> Sync(state)
    [] OTHER -> Idle

Save(h) ==
  /\ At(h, "save")
  /\ row' = [row EXCEPT ![handler[h].user] = handler[h].copy]
  /\ GoTo(h, AfterSave(handler[h]))
  /\ UNCHANGED <<env, active, wordpress, standing, up>>

\* sync_email_to_wordpress; a failure is logged.
Tell(h) ==
  /\ At(h, "tell")
  /\ \/ wordpress' = [wordpress EXCEPT ![handler[h].user] = handler[h].copy.email]
     \/ env.flaky /\ UNCHANGED wordpress
  /\ GoTo(h, Idle)
  /\ UNCHANGED <<env, row, active, standing, up>>

\* refresh_local_memberships saves is_member_of of the copy alone; an enrolment
\* saves role_overrides before, in one transaction with it.
SaveColumns(h) ==
  LET u == handler[h].user
      c == handler[h].copy
  IN
  /\ At(h, "columns")
  /\ row' = [row EXCEPT ![u].member = c.member,
                        ![u].overrides = IF handler[h].kind = "enrol" THEN c.overrides ELSE @]
  /\ GoTo(h, Idle)
  /\ UNCHANGED <<env, active, wordpress, standing, up>>

\* search_multiple: a partner that does not answer, or that the rate limit keeps
\* from being asked, looks like one that does not know the person.  A client that
\* keeps its last answer keeps it for the other threads too.
Search(h, p) ==
  LET w == handler[h]
      member == p \in standing[w.user]
      Hears(k) == k # h /\ env.threads /\ p \in Shared /\ p \in up
                    /\ At(k, "ask") /\ handler[k].partner = p
  IN
  /\ At(h, "sync") /\ p \in w.left
  /\ \E hit \in BOOLEAN :
       /\ hit => p \in up
       /\ p \in up /\ member => hit
       /\ handler' = [k \in Handlers |->
            IF k = h
              THEN [w EXCEPT !.at = IF hit THEN "ask" ELSE "roles", !.partner = p,
                             !.answer = hit /\ member /\ p \in Shared]
            ELSE IF Hears(k) THEN [handler[k] EXCEPT !.answer = member]
            ELSE handler[k]]
  /\ UNCHANGED <<env, row, active, wordpress, standing, up>>

\* is_member: asks the partner about the person found (no answer means no), or
\* reads the last answer to a search, which may hold None: no use of it tells that
\* from False.
Ask(h) ==
  LET w == handler[h]
      p == w.partner
      member == IF p \in Shared THEN w.answer ELSE p \in up /\ p \in standing[w.user]
  IN
  /\ At(h, "ask")
  /\ GoTo(h, [w EXCEPT !.at = "roles", !.answer = member])
  /\ UNCHANGED <<env, row, active, wordpress, standing, up>>

\* Mutant of UpdateRoles: a membership on record is kept when the partner says no.
UpdateRolesKeeping(h) ==
  LET w == handler[h]
      With(set) == IF w.answer \/ w.partner \in w.copy.member THEN set \cup {w.partner}
                                                             ELSE set \ {w.partner}
  IN
  /\ At(h, "roles")
  /\ active' = [active EXCEPT ![w.user] = With(@)]
  /\ GoTo(h, [w EXCEPT !.at = "sync", !.found = With(@), !.left = @ \ {w.partner},
                       !.partner = None, !.answer = FALSE])
  /\ UNCHANGED <<env, row, wordpress, standing, up>>

\* The Role of the person at the partner is made active or expired.
UpdateRoles(h) ==
  LET w == handler[h]
      With(set) == IF w.answer THEN set \cup {w.partner} ELSE set \ {w.partner}
  IN
  /\ At(h, "roles")
  /\ active' = [active EXCEPT ![w.user] = With(@)]
  /\ GoTo(h, [w EXCEPT !.at = "sync", !.found = With(@), !.left = @ \ {w.partner},
                       !.partner = None, !.answer = FALSE])
  /\ UNCHANGED <<env, row, wordpress, standing, up>>

\* The end of sync: every column of the copy is saved with the new memberships.
Store(h) ==
  LET w == handler[h]
      copy == [w.copy EXCEPT !.member = w.found, !.fresh = TRUE]
      state == [w EXCEPT !.copy = copy, !.again = FALSE]
  IN
  /\ At(h, "sync") /\ w.left = {}
  /\ row' = [row EXCEPT ![w.user] = copy]
  /\ GoTo(h, IF w.again THEN Sync(state) ELSE Idle)
  /\ UNCHANGED <<env, active, wordpress, standing, up>>

Step(h) ==
  \/ Save(h)
  \/ Tell(h)
  \/ SaveColumns(h)
  \/ \E p \in Partners : Search(h, p)
  \/ Ask(h)
  \/ UpdateRoles(h)
  \/ Store(h)

\* A worker is killed, or an exception ends the request, as an answer that cannot be
\* read ends a sync (UP's client then has no records to look at).  What it has not saved is
\* lost; a transaction is rolled back.
Kill(h) ==
  /\ env.kills /\ Busy(h)
  /\ GoTo(h, Idle)
  /\ UNCHANGED <<env, row, active, wordpress, standing, up>>

-------------------------------------------------------------------------------
(* The world.                                                              *)

\* A person becomes a member of a partner society, or ceases to be one.
ChangeStanding(u, p) ==
  LET now == Toggle(standing[u], p)
      Syncs(h) == handler[h].at \in {"sync", "ask", "roles"} /\ handler[h].user = u
  IN
  /\ u \in env.users /\ p \in env.asked
  /\ standing' = [standing EXCEPT ![u] = now]
  /\ handler' = [h \in Handlers |-> IF Syncs(h)
                                      THEN [handler[h] EXCEPT !.was = @ \cup now,
                                                              !.wasnt = @ \cup (Partners \ now)]
                                      ELSE handler[h]]
  /\ UNCHANGED <<env, row, active, wordpress, up>>

\* A partner stops answering, or answers again.
Outage(p) ==
  /\ env.flaky /\ p \in env.asked
  /\ up' = Toggle(up, p)
  /\ UNCHANGED <<env, row, active, wordpress, standing, handler>>

\* SYNC_HOURS have passed since the last sync; last_sync of a copy that a handler
\* still has is as old.
Age(u) ==
  /\ row[u].fresh
  /\ row' = [row EXCEPT ![u].fresh = FALSE]
  /\ handler' = [h \in Handlers |-> IF Busy(h) /\ handler[h].user = u
                                      THEN [handler[h] EXCEPT !.copy.fresh = FALSE]
                                      ELSE handler[h]]
  /\ UNCHANGED <<env, active, wordpress, standing, up>>

BeginWork(h, u) ==
  \/ \E a \in Addresses :
       AddAddress(h, u, a) \/ RemoveAddress(h, u, a) \/ MakePrimary(h, u, a)
  \/ \E a \in Addresses \cup {None} : Login(h, u, a)
  \/ \E n \in Networks : Enrol(h, u, n) \/ \E kind \in {"network", "staff"} : ChangeNetworks(h, u, kind, n)
  \/ EditProfile(h, u)
  \/ ViewRoles(h, u)
  \/ Refresh(h, u)
  \/ \E cache \in BOOLEAN : BeginSync(h, u, cache)

Next ==
  \/ \E h \in Handlers : (\E u \in Users : BeginWork(h, u)) \/ Step(h) \/ Kill(h)
  \/ \E u \in Users : Age(u) \/ \E p \in Partners : ChangeStanding(u, p)
  \/ \E p \in Partners : Outage(p)

Spec == Init /\ [][Next]_vars

\* Handlers go on, days pass, other applications keep asking for a profile that
\* they let the cache answer for, and from some time on no worker is killed nor a sync
\* ended by an answer that cannot be read (a Kill that looks like a Step is one).
Fairness ==
  /\ \A h \in Handlers : WF_vars(Step(h))
  /\ \A u \in Users : WF_vars(Age(u))
  /\ \A u \in Users : SF_vars(\E h \in Handlers : BeginSync(h, u, TRUE))
  /\ <>[][\A h \in Handlers : Kill(h) => Step(h)]_vars

FairSpec == Spec /\ Fairness

-------------------------------------------------------------------------------
(* Properties.                                                             *)

\* An address that a profile has is lost only to the request that was asked to
\* remove it, as long as the handlers that save whole rows do not overlap:
\* enrolments and refreshes may, because they save their columns only.
AddressesSurvive ==
  [][env.overlap # "all" =>
       \A u \in Users : \A a \in Known(row[u]) \ Known(row'[u]) :
         \E h \in Handlers : At(h, "save") /\ handler[h].user = u /\ a \in handler[h].drop]_vars

\* The same of the networks of a profile, if no handlers overlap at all: the
\* sync at the end of manage_roles saves the row again and must not undo the edit.
OverridesSurvive ==
  [][env.overlap = "none" =>
       \A u \in Users : \A n \in row[u].overrides \ row'[u].overrides :
         \E h \in Handlers : At(h, "save") /\ handler[h].user = u /\ n \in handler[h].drop]_vars

\* What a sync stores of a partner was so at some time during the sync, whatever
\* else saves the row or asks the partner, if partners answer - and if threads
\* do not share the client that keeps the last answer.
MembershipIsHeard ==
  [][~env.flaky =>
       \A h \in Handlers : Store(h) =>
         \A p \in env.asked \ (IF env.threads THEN Shared ELSE {}) :
           p \in (IF p \in row'[handler[h].user].member THEN handler[h].was ELSE handler[h].wasnt)]_vars

\* The roles and the memberships of a person agree between requests, also when
\* partners do not answer, if handlers neither overlap nor are killed.
RolesAgree ==
  env.overlap = "none" /\ ~env.kills /\ (\A h \in Handlers : ~Busy(h)) =>
    \A u \in Users : active[u] = row[u].member

\* WordPress has the primary address, once the request that changed it is done.
WordPressHasPrimary ==
  env.overlap # "all" /\ ~env.flaky /\ ~env.kills =>
    \A u \in Users : (\A h \in Handlers : ~HasRow(h, u)) => wordpress[u] = row[u].email

\* A membership that was withdrawn because a partner did not answer, or by the
\* save of an older row, comes back while the partner answers and confirms it.
MembershipReturns ==
  \A u \in Users, p \in Partners :
    /\ u \in env.users /\ p \in env.asked /\ "sync" \in env.kinds
    /\ ~env.threads
    /\ <>[](p \in standing[u] /\ p \in up)
    => []<>(p \in row[u].member)
===============================================================================
