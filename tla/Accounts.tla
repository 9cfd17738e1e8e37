------------------------------- MODULE Accounts -------------------------------
(***************************************************************************)
(* Registration, association and activation (cilogon/views.py): how a      *)
(* person who signs in at an identity provider as some `sub` gets to be a  *)
(* profile.                                                                *)
(*                                                                         *)
(* A person registers a new profile, or asks to be associated with an      *)
(* existing one by naming one of its email addresses; either way a link    *)
(* with a secret is mailed to the address, and opening it (activate) makes *)
(* the SubAssociation, tells the other applications and, the first time    *)
(* for a profile, runs the welcome tasks.  From then on a callback from    *)
(* the provider finds the SubAssociation and logs its profile in, until    *)
(* the person removes that way of logging in.  A profile has one primary   *)
(* and any number of secondary addresses: its owner adds one through a     *)
(* mailed link (new_email_verified), removes one or makes one the primary  *)
(* (manage_login), and a callback adds the address that the provider gives.*)
(*                                                                         *)
(* register is one database transaction: it reads what is committed,       *)
(* and everything it writes is committed together.  callback loads the     *)
(* SubAssociation and its profile before its transaction.  activate and    *)
(* the views that edit addresses run outside a transaction: every          *)
(* statement commits by itself, and a profile is written whole, as it was  *)
(* loaded but for the change.                                              *)
(***************************************************************************)
EXTENDS Naturals

CONSTANTS Usernames, Emails, Subs, Requests,
          Secrets,       \* of the links for an association
          Links,         \* of the links for a new address
          Environments,  \* the circumstances it may run in, see env
          None

Tables == [Usernames -> Emails \cup {None}]

Verifications ==
  [state: {"live", "expired", "deleted"}, user: Usernames, sub: Subs]

Offers == [user: Usernames, email: Emails]

ASSUME AccountsAssumption ==
  /\ None \notin Usernames /\ None \notin Emails /\ None \notin Verifications
  /\ None \notin Offers /\ None \notin Links
  /\ Environments \subseteq
       [serial: BOOLEAN, kills: BOOLEAN, outages: BOOLEAN, removals: BOOLEAN,
        edits: BOOLEAN, known: SUBSET Emails, imported: Tables]

VARIABLES
  env,      \* serial: the requests come one after the other; kills: workers are
            \* killed; outages: other services may not answer; removals: people
            \* remove ways of logging in; edits: they edit their addresses;
            \* known: the addresses that providers may give; imported: the
            \* profiles the system starts with, without a User
  profile,  \* Profile.email by username, None if there is no such profile
  others,   \* Profile.emails, the secondary addresses
  users,    \* the usernames that have a Django User
  linked,   \* SubAssociation: the profile of a sub, None if it has none
  mail,     \* EmailVerification by its secret, None before it is drawn; a
            \* deleted one is kept here to tell what it was for
  offer,    \* EmailVerification for a new address, by its secret: whose and which
  request,  \* the handlers in progress and their local variables
  effects,  \* how often a secret has made an association (counted to Many)
  told,     \* the associations the other applications were told of
  welcomes, \* how often a profile got the welcome tasks (counted to Many)
  loggedIn  \* the profiles somebody was ever logged in as

tables == <<profile, others, users, linked>>
history == <<effects, told, welcomes, loggedIn>>
vars == <<env, tables, mail, offer, request, history>>

Many == 2
Once(n) == IF n = 0 THEN 1 ELSE Many

Idle == [at |-> "idle"]
Activation == {"associate", "delete", "announce", "welcome", "login"}

Locals ==
  {Idle}
    \cup [at: {"create"}, user: Usernames, email: Emails, sub: Subs, secret: Secrets]
    \cup [at: Activation, secret: Secrets, new: BOOLEAN]
    \cup [at: {"save"}, user: Usernames, sub: Subs, email: Emails \cup {None},
          primary: Emails, others: SUBSET Emails]
    \cup [at: {"write"}, user: Usernames, primary: Emails, others: SUBSET Emails,
          link: Links \cup {None}]
    \cup [at: {"drop"}, link: Links]

\* The types, and that a verification belongs to a profile that exists.
TypeOK ==
  /\ env \in Environments
  /\ profile \in Tables
  /\ others \in [Usernames -> SUBSET Emails]
  /\ users \subseteq Usernames
  /\ linked \in [Subs -> Usernames \cup {None}]
  /\ mail \in [Secrets -> Verifications \cup {None}]
  /\ \A k \in Secrets : mail[k] # None => profile[mail[k].user] # None
  /\ offer \in [Links -> Offers \cup {None}]
  /\ request \in [Requests -> Locals]
  /\ effects \in [Secrets -> 0..Many]
  /\ told \subseteq Subs \X Usernames
  /\ welcomes \in [Usernames -> 0..Many]
  /\ loggedIn \subseteq Usernames

Init ==
  /\ env \in Environments
  /\ profile = env.imported
  /\ others = [u \in Usernames |-> {}]
  /\ users = {}
  /\ linked = [s \in Subs |-> None]
  /\ mail = [k \in Secrets |-> None]
  /\ offer = [k \in Links |-> None]
  /\ request = [r \in Requests |-> Idle]
  /\ effects = [k \in Secrets |-> 0]
  /\ told = {}
  /\ welcomes = [u \in Usernames |-> 0]
  /\ loggedIn = {}
-------------------------------------------------------------------------------
At(r, where) == request[r].at = where

GoTo(r, local) == request' = [request EXCEPT ![r] = local]

Advance(r, where) == request' = [request EXCEPT ![r].at = where]

MayBegin == env.serial => \A r \in Requests : At(r, "idle")

\* A request arrives at a worker that is idle, no matter which.
Arrives(r) == At(r, "idle") /\ (r = CHOOSE q \in Requests : At(q, "idle")) /\ MayBegin

\* The profiles found by an address: by Profile.email, or else by Profile.emails.
Holders(e) ==
  LET primary == {u \in Usernames : profile[u] = e}
  IN IF primary # {} THEN primary
     ELSE {u \in Usernames : profile[u] # None /\ e \in others[u]}

\* garbage_collect: with every link that is mailed the expired ones are deleted, ...
Collected ==
  [k \in Secrets |->
     IF mail[k] # None /\ mail[k].state = "expired"
     THEN [mail[k] EXCEPT !.state = "deleted"] ELSE mail[k]]

\* ... and those for an address that have expired, which may be any.
Remaining(gone) == [k \in Links |-> IF k \in gone THEN None ELSE offer[k]]

SomeOffersExpired == \E gone \in SUBSET Links : offer' = Remaining(gone)

\* A link for an association is mailed.
Sent(secret, u, s) ==
  [Collected EXCEPT ![secret] = [state |-> "live", user |-> u, sub |-> s]]

\* A secret nobody drew before: each is a new UUID, no matter which.
Unused(k) ==
  mail[k] = None /\ \A r \in Requests : At(r, "create") => request[r].secret # k

Fresh(k) == Unused(k) /\ k = CHOOSE j \in Secrets : Unused(j)

\* Mutant of Register: without the checks of the address.
RegisterAnyAddress(r, u, e, s) ==
  /\ Arrives(r)
  /\ profile[u] = None /\ u \notin users
  /\ \E k \in Secrets :
       /\ Fresh(k)
       /\ GoTo(r, [at |-> "create", user |-> u, email |-> e, sub |-> s, secret |-> k])
  /\ UNCHANGED <<env, tables, mail, offer, history>>

\* register: the checks of the form, against what is committed.
Register(r, u, e, s) ==
  /\ Arrives(r)
  /\ profile[u] = None /\ u \notin users
  /\ Holders(e) = {}
  /\ \E k \in Secrets :
       /\ Fresh(k)
       /\ GoTo(r, [at |-> "create", user |-> u, email |-> e, sub |-> s, secret |-> k])
  /\ UNCHANGED <<env, tables, mail, offer, history>>

\* Mutant of CreateAccount: makes the association before the address is verified.
CreateAssociated(r) ==
  LET q == request[r] IN
  /\ At(r, "create")
  /\ profile[q.user] = None /\ q.user \notin users /\ linked[q.sub] = None
  /\ profile' = [profile EXCEPT ![q.user] = q.email]
  /\ users' = users \cup {q.user}
  /\ linked' = [linked EXCEPT ![q.sub] = q.user]
  /\ mail' = Sent(q.secret, q.user, q.sub)
  /\ GoTo(r, Idle)
  /\ UNCHANGED <<env, others, offer, history>>

\* register: the Profile, its User and the verification are written and the
\* link is mailed; a username that was taken meanwhile is an IntegrityError,
\* and nothing is written.
CreateAccount(r) ==
  LET q == request[r] IN
  /\ At(r, "create")
  /\ \/ /\ profile[q.user] = None /\ q.user \notin users
        /\ profile' = [profile EXCEPT ![q.user] = q.email]
        /\ users' = users \cup {q.user}
        /\ mail' = Sent(q.secret, q.user, q.sub)
        /\ SomeOffersExpired
     \/ /\ profile[q.user] # None \/ q.user \in users
        /\ UNCHANGED <<profile, users, mail, offer>>
  /\ GoTo(r, Idle)
  /\ UNCHANGED <<env, others, linked, history>>

\* Mutant of Associate: goes on when no profile was found.
AssociateUnknown(e, s) ==
  /\ MayBegin
  /\ \E k \in Secrets, u \in Usernames : Fresh(k) /\ mail' = Sent(k, u, s)
  /\ UNCHANGED <<env, tables, offer, request, history>>

\* association: a link for the profile that has the address.
Associate(e, s) ==
  /\ MayBegin
  /\ \E k \in Secrets, u \in Holders(e) : Fresh(k) /\ mail' = Sent(k, u, s)
  /\ SomeOffersExpired
  /\ UNCHANGED <<env, tables, request, history>>

\* VERIFICATION_LIMIT_HOURS go by.
Expire(k) ==
  /\ mail[k] # None /\ mail[k].state = "live"
  /\ mail' = [mail EXCEPT ![k].state = "expired"]
  /\ UNCHANGED <<env, tables, offer, request, history>>

\* Mutant of Activate: takes every activation for a new registration.
ActivateAsNew(r, k) ==
  /\ Arrives(r)
  /\ mail[k] # None /\ mail[k].state = "live"
  /\ GoTo(r, [at |-> "associate", secret |-> k, new |-> TRUE])
  /\ UNCHANGED <<env, tables, mail, offer, history>>

\* Mutant of Activate: works from a link that was used.
ActivateUsed(r, k) ==
  /\ Arrives(r)
  /\ mail[k] # None
  /\ GoTo(r, [at |-> "associate", secret |-> k,
              new |-> \A s \in Subs : linked[s] # mail[k].user])
  /\ UNCHANGED <<env, tables, mail, offer, history>>

\* activate: the link is found, has not expired, and it is noted whether the
\* profile has no association yet.
Activate(r, k) ==
  /\ Arrives(r)
  /\ mail[k] # None /\ mail[k].state = "live"
  /\ GoTo(r, [at |-> "associate", secret |-> k,
              new |-> \A s \in Subs : linked[s] # mail[k].user])
  /\ UNCHANGED <<env, tables, mail, offer, history>>

\* Mutant of CreateAssociation: get_or_create instead of create.
GetOrCreateAssociation(r) ==
  LET k == request[r].secret
      s == mail[k].sub
  IN
  /\ At(r, "associate")
  /\ linked[s] \in {None, mail[k].user}
  /\ linked' = [linked EXCEPT ![s] = mail[k].user]
  /\ effects' = [effects EXCEPT ![k] = Once(@)]
  /\ Advance(r, "delete")
  /\ UNCHANGED <<env, profile, others, users, mail, offer, told, welcomes, loggedIn>>

\* activate: SubAssociation.objects.create; the sub of an association is unique.
CreateAssociation(r) ==
  LET k == request[r].secret
      s == mail[k].sub
  IN
  /\ At(r, "associate")
  /\ \/ /\ linked[s] = None
        /\ linked' = [linked EXCEPT ![s] = mail[k].user]
        /\ effects' = [effects EXCEPT ![k] = Once(@)]
        /\ Advance(r, "delete")
     \/ /\ linked[s] # None
        /\ GoTo(r, Idle)
        /\ UNCHANGED <<linked, effects>>
  /\ UNCHANGED <<env, profile, others, users, mail, offer, told, welcomes, loggedIn>>

\* activate: verify.delete(), which finds nothing to delete if it is gone.
DeleteVerification(r) ==
  /\ At(r, "delete")
  /\ mail' = [mail EXCEPT ![request[r].secret].state = "deleted"]
  /\ Advance(r, "announce")
  /\ UNCHANGED <<env, tables, offer, history>>

\* Mutant of Announce: only new registrations are told.
AnnounceNew(r) ==
  LET m == mail[request[r].secret] IN
  /\ At(r, "announce")
  /\ told' = IF request[r].new THEN told \cup {<<m.sub, m.user>>} ELSE told
  /\ Advance(r, IF request[r].new THEN "welcome" ELSE "login")
  /\ UNCHANGED <<env, tables, mail, offer, effects, welcomes, loggedIn>>

\* activate: send_association_message; that nobody answered is only logged.
Announce(r) ==
  LET m == mail[request[r].secret] IN
  /\ At(r, "announce")
  /\ \/ told' = told \cup {<<m.sub, m.user>>}
     \/ env.outages /\ told' = told
  /\ Advance(r, IF request[r].new THEN "welcome" ELSE "login")
  /\ UNCHANGED <<env, tables, mail, offer, effects, welcomes, loggedIn>>

\* activate: the tasks of a new registration (Mailchimp, ExternalSync); that a
\* service did not answer is only logged.
Welcome(r) ==
  /\ At(r, "welcome")
  /\ \/ welcomes' = [welcomes EXCEPT ![mail[request[r].secret].user] = Once(@)]
     \/ env.outages /\ welcomes' = welcomes
  /\ Advance(r, "login")
  /\ UNCHANGED <<env, tables, mail, offer, effects, told, loggedIn>>

\* activate: log the person in, if the profile has a User.
LogIn(r) ==
  /\ At(r, "login")
  /\ loggedIn' = loggedIn \cup ({mail[request[r].secret].user} \cap users)
  /\ GoTo(r, Idle)
  /\ UNCHANGED <<env, tables, mail, offer, effects, told, welcomes>>

\* callback: somebody comes back from the provider as s, who has the address e
\* there, or none; the association and the row of its profile are loaded.
Callback(r, s, e) ==
  /\ Arrives(r)
  /\ e \in env.known \cup {None}
  /\ linked[s] # None
  /\ GoTo(r, [at |-> "save", user |-> linked[s], sub |-> s, email |-> e,
              primary |-> profile[linked[s]], others |-> others[linked[s]]])
  /\ UNCHANGED <<env, tables, mail, offer, history>>

\* The row of a profile is written.
WriteProfile(u, primary, secondary) ==
  /\ profile' = [profile EXCEPT ![u] = primary]
  /\ others' = [others EXCEPT ![u] = secondary]

\* callback: the transaction.  Saving the association updates its row, or
\* inserts it if it was deleted meanwhile, which fails if the sub is another
\* profile's by then (a row deleted and made again for the same profile is
\* taken for the same row); the User is found or made and logged in; an address
\* the loaded profile does not have is appended to it, whoever else has it, and
\* the row is written.
SaveLogin(r) ==
  LET q == request[r] IN
  /\ At(r, "save")
  /\ \/ /\ linked[q.sub] \in {q.user, None}
        /\ linked' = [linked EXCEPT ![q.sub] = q.user]
        /\ users' = users \cup {q.user}
        /\ loggedIn' = loggedIn \cup {q.user}
        /\ IF q.email \in {None, q.primary} \cup q.others
           THEN UNCHANGED <<profile, others>>
           ELSE WriteProfile(q.user, q.primary, q.others \cup {q.email})
     \/ /\ linked[q.sub] \notin {q.user, None}
        /\ UNCHANGED <<linked, users, loggedIn, profile, others>>
  /\ GoTo(r, Idle)
  /\ UNCHANGED <<env, mail, offer, effects, told, welcomes>>

\* manage_login: a person removes one of their ways of logging in.
RemoveLogin(s) ==
  /\ env.removals /\ MayBegin
  /\ linked[s] \in loggedIn
  /\ linked' = [linked EXCEPT ![s] = None]
  /\ UNCHANGED <<env, profile, others, users, mail, offer, request, history>>

\* manage_login: the row of u is loaded, by its owner or by a member of staff,
\* and is to be written with these addresses.
Edit(r, u, primary, secondary) ==
  /\ Arrives(r)
  /\ env.edits /\ loggedIn # {} /\ profile[u] # None
  /\ GoTo(r, [at |-> "write", user |-> u, primary |-> primary, others |-> secondary,
              link |-> None])
  /\ UNCHANGED <<env, tables, mail, offer, history>>

\* _make_email_primary: a secondary address changes places with the primary one,
\* whoever else has it.
MakePrimary(r, u, e) ==
  /\ e \in others[u]
  /\ Edit(r, u, e, (others[u] \cup {profile[u]}) \ {e})

\* _remove_secondary_email.
RemoveAddress(r, u, e) ==
  /\ e \in others[u]
  /\ Edit(r, u, profile[u], others[u] \ {e})

\* A secret that is in no mail.
Free(k) ==
  /\ offer[k] = None
  /\ \A r \in Requests : request[r].at \in {"write", "drop"} => request[r].link # k

\* _add_secondary_email: a link is mailed to an address that nobody has.
AskAddress(u, e) ==
  /\ env.edits /\ MayBegin
  /\ loggedIn # {} /\ profile[u] # None
  /\ Holders(e) = {}
  /\ \E k \in Links, gone \in SUBSET Links :
       /\ Free(k) /\ k = CHOOSE j \in Links : Free(j)
       /\ offer' = [Remaining(gone) EXCEPT ![k] = [user |-> u, email |-> e]]
  /\ mail' = Collected
  /\ UNCHANGED <<env, tables, request, history>>

\* new_email_verified: the link is found, expired or not, and the row loaded; an
\* address it does not have among the others is to be appended, without a
\* further check.
OpenAddress(r, k) ==
  LET u == offer[k].user
      e == offer[k].email
  IN
  /\ Arrives(r)
  /\ offer[k] # None
  /\ GoTo(r, IF e \in others[u] THEN [at |-> "drop", link |-> k]
             ELSE [at |-> "write", user |-> u, primary |-> profile[u],
                   others |-> others[u] \cup {e}, link |-> k])
  /\ UNCHANGED <<env, tables, mail, offer, history>>

\* profile.save().
SaveProfile(r) ==
  LET q == request[r] IN
  /\ At(r, "write")
  /\ WriteProfile(q.user, q.primary, q.others)
  /\ GoTo(r, IF q.link = None THEN Idle ELSE [at |-> "drop", link |-> q.link])
  /\ UNCHANGED <<env, users, linked, mail, offer, history>>

\* new_email_verified: verify.delete().
DropLink(r) ==
  /\ At(r, "drop")
  /\ offer' = [offer EXCEPT ![request[r].link] = None]
  /\ GoTo(r, Idle)
  /\ UNCHANGED <<env, tables, mail, history>>

\* The worker of a request is killed; an open transaction is rolled back.
Kill(r) ==
  /\ env.kills /\ ~At(r, "idle")
  /\ GoTo(r, Idle)
  /\ UNCHANGED <<env, tables, mail, offer, history>>

Step(r) ==
  \/ CreateAccount(r) \/ SaveLogin(r)
  \/ CreateAssociation(r) \/ DeleteVerification(r)
  \/ Announce(r) \/ Welcome(r) \/ LogIn(r)

Begin(r) ==
  \/ \E u \in Usernames, e \in Emails, s \in Subs : Register(r, u, e, s)
  \/ \E k \in Secrets : Activate(r, k)
  \/ \E s \in Subs, e \in Emails \cup {None} : Callback(r, s, e)

EditStep(r) == SaveProfile(r) \/ DropLink(r)

EditAddresses ==
  \E r \in Requests :
    \/ \E u \in Usernames, e \in Emails : MakePrimary(r, u, e) \/ RemoveAddress(r, u, e)
    \/ \E k \in Links : OpenAddress(r, k)
    \/ EditStep(r)

Next ==
  \/ \E r \in Requests : Begin(r) \/ Step(r) \/ Kill(r)
  \/ \E e \in Emails, s \in Subs : Associate(e, s)
  \/ \E s \in Subs : RemoveLogin(s)
  \/ \E k \in Secrets : Expire(k)
  \/ \E u \in Usernames, e \in Emails : AskAddress(u, e)
  \/ EditAddresses

Spec == Init /\ [][Next]_vars

\* A request that has begun is carried to its end, by its own thread.
FairSpec == Spec /\ \A r \in Requests : WF_vars(Step(r) \/ EditStep(r))
-------------------------------------------------------------------------------
\* Some link for the profile u was opened.
Confirmed(u) == \E k \in Secrets : effects[k] > 0 /\ mail[k].user = u

\* An association is never made, nor anybody logged in, before a link that was
\* mailed for exactly that was opened: register makes the profile and its User
\* but no association, and only an association lets a callback log in.
OnlyTheConfirmedLogIn ==
  /\ \A s \in Subs : linked[s] # None =>
       \E k \in Secrets :
         effects[k] > 0 /\ mail[k].sub = s /\ mail[k].user = linked[s]
  /\ \A u \in loggedIn : Confirmed(u)

\* A link takes effect once, however often and however concurrently it is
\* posted, as long as nobody removes the login that it made: the unique sub of
\* SubAssociation stops the second request, not the deleted verification.
LinksTakeEffectOnce == ~env.removals => \A k \in Secrets : effects[k] <= 1

\* The welcome tasks of a profile run once, if the requests come one after the
\* other and no login is removed: activate takes a profile without an
\* association for a new registration.
WelcomedOnce == env.serial /\ ~env.removals => \A u \in Usernames : welcomes[u] <= 1

\* The address that a profile is registered with is nobody else's, neither as the
\* primary nor as a secondary one, if the requests come one after the other: the
\* database does not see to that, only the checks of register do.
RegisteredAddressesAreFree ==
  [][env.serial =>
       \A u \in Usernames :
         profile[u] = None /\ profile'[u] # None => Holders(profile'[u]) = {}]_vars

\* Neither an address at a registration nor a welcome is given twice.
NothingIsDoubled == RegisteredAddressesAreFree /\ []WelcomedOnce

\* A login that was removed comes back only through a link that is still good,
\* if the requests come one after the other.
RemovedLoginsStayRemoved ==
  [][env.serial =>
       \A s \in Subs : linked[s] = None /\ linked'[s] # None =>
         \E k \in Secrets :
           /\ mail[k] # None /\ mail[k].state # "deleted"
           /\ mail[k].sub = s /\ mail[k].user = linked'[s]]_vars

\* Every association is told to the other applications, and its profile gets the
\* welcome tasks, unless workers are killed or those services do not answer:
\* what was missed then is never made up for, because the link no longer works.
ActivationsAreCompleted ==
  \A s \in Subs, u \in Usernames :
    linked[s] = u /\ ~env.kills /\ ~env.outages ~> <<s, u>> \in told /\ welcomes[u] > 0

\* The request r is still to tell the others that s is associated with u.
Tells(r, s, u) ==
  /\ request[r].at \in {"delete", "announce"}
  /\ mail[request[r].secret].sub = s /\ mail[request[r].secret].user = u

\* The request r is still to welcome u.
Greets(r, u) ==
  /\ request[r].at \in {"delete", "announce", "welcome"} /\ request[r].new
  /\ mail[request[r].secret].user = u

\* What is still to be done for a new association is written down nowhere, and only the
\* first association of a profile is taken for a registration; yet none is forgotten while
\* no worker is killed and the other services answer, however activations of one profile
\* overlap: some request is still to do it.
NobodyIsForgotten ==
  ~env.kills /\ ~env.outages =>
    \A s \in Subs, u \in Usernames : linked[s] = u =>
      /\ <<s, u>> \in told \/ \E r \in Requests : Tells(r, s, u)
      /\ welcomes[u] > 0 \/ \E r \in Requests : Greets(r, u)
===============================================================================
