---------------------------- MODULE AccountsProofs ----------------------------
(***************************************************************************)
(* Theorems about Accounts, for any number of profiles, addresses, subs,   *)
(* links and requests.  Each group of facts is an invariant of its own     *)
(* that rests on the ones before it:                                       *)
(*   Types       the types, and which secrets the requests hold;           *)
(*   Confirmation  what was opened before anybody is linked or logged in;  *)
(*   Effects     what a link has done, if no login is removed;             *)
(*   Serial      what holds while the requests come one after the other;   *)
(*   Welcoming   whom the welcome tasks have run for;                      *)
(*   StillGood   that a link at work is good, if requests do not overlap;  *)
(*   Promised    what an association entails is done, or somebody's to do. *)
(***************************************************************************)
EXTENDS Accounts, TLAPS

\* What a request holds at each of its steps.
LEMMA Kinds ==
  ASSUME NEW q \in Locals
  PROVE  /\ \/ q.at \in {"idle", "create", "save", "write", "drop"}
            \/ q.at \in Activation
         /\ q.at = "idle" => q = Idle
         /\ q.at = "create" => q.user \in Usernames /\ q.email \in Emails
                                 /\ q.sub \in Subs /\ q.secret \in Secrets
         /\ q.at = "save" => q.user \in Usernames /\ q.email \in Emails \cup {None}
                                 /\ q.sub \in Subs /\ q.others \subseteq Emails
                                 /\ q.primary \in Emails
         /\ q.at = "write" => q.user \in Usernames /\ q.primary \in Emails
                                 /\ q.others \subseteq Emails
                                 /\ q.link \in Links \cup {None}
         /\ q.at = "drop" => q.link \in Links
         /\ q.at \in Activation => q.secret \in Secrets /\ q.new \in BOOLEAN
  BY DEF Locals, Idle, Activation

LEMMA GoToEffect ==
  ASSUME request \in [Requests -> Locals], NEW r \in Requests, NEW q \in Locals,
         GoTo(r, q)
  PROVE  /\ request' \in [Requests -> Locals]
         /\ request'[r] = q
         /\ \A o \in Requests \ {r} : request'[o] = request[o]
  BY DEF GoTo

LEMMA AdvanceEffect ==
  ASSUME request \in [Requests -> Locals], NEW r \in Requests,
         request[r].at \in Activation, NEW w \in Activation, Advance(r, w)
  PROVE  /\ request' \in [Requests -> Locals]
         /\ request'[r].at = w
         /\ request'[r].secret = request[r].secret
         /\ request'[r].new = request[r].new
         /\ \A o \in Requests \ {r} : request'[o] = request[o]
<1>1. request[r] \in [at: Activation, secret: Secrets, new: BOOLEAN]
  BY DEF Locals, Idle, Activation
<1>2. [request[r] EXCEPT !.at = w] \in [at: Activation, secret: Secrets, new: BOOLEAN]
  BY <1>1
<1>3. [request[r] EXCEPT !.at = w] \in Locals
  BY <1>2 DEF Locals
<1> QED
  BY <1>1, <1>3 DEF Advance

\* The collection forgets nobody.
LEMMA CollectedEffect ==
  ASSUME mail \in [Secrets -> Verifications \cup {None}], None \notin Verifications
  PROVE  /\ Collected \in [Secrets -> Verifications \cup {None}]
         /\ \A k \in Secrets :
              /\ mail[k] = None => Collected[k] = None
              /\ mail[k] # None => /\ Collected[k] # None
                                   /\ Collected[k].user = mail[k].user
                                   /\ Collected[k].sub = mail[k].sub
  BY DEF Collected, Verifications

\* What is left of the links for addresses.
LEMMA RemainingEffect ==
  ASSUME offer \in [Links -> Offers \cup {None}], NEW gone
  PROVE  /\ Remaining(gone) \in [Links -> Offers \cup {None}]
         /\ \A k \in Links : Remaining(gone)[k] \in {offer[k], None}
  BY DEF Remaining

\* A mail table stays one when a link is sent, and forgets nobody.
LEMMA SentEffect ==
  ASSUME mail \in [Secrets -> Verifications \cup {None}],
         NEW secret \in Secrets, NEW u \in Usernames, NEW s \in Subs,
         mail[secret] = None, None \notin Verifications
  PROVE  /\ Sent(secret, u, s) \in [Secrets -> Verifications \cup {None}]
         /\ Sent(secret, u, s)[secret] # None
         /\ Sent(secret, u, s)[secret].user = u
         /\ Sent(secret, u, s)[secret].sub = s
         /\ \A k \in Secrets \ {secret} :
              /\ mail[k] = None => Sent(secret, u, s)[k] = None
              /\ mail[k] # None => /\ Sent(secret, u, s)[k] # None
                                   /\ Sent(secret, u, s)[k].user = mail[k].user
                                   /\ Sent(secret, u, s)[k].sub = mail[k].sub
<1>1. /\ Collected \in [Secrets -> Verifications \cup {None}]
      /\ \A k \in Secrets :
           /\ mail[k] = None => Collected[k] = None
           /\ mail[k] # None => /\ Collected[k] # None
                                /\ Collected[k].user = mail[k].user
                                /\ Collected[k].sub = mail[k].sub
  BY CollectedEffect
<1>2. [state |-> "live", user |-> u, sub |-> s] \in Verifications
  BY DEF Verifications
<1> QED
  BY <1>1, <1>2 DEF Sent
-------------------------------------------------------------------------------
\* A registration holds a secret of its own that nobody was mailed; an
\* activation, and what was done, has a verification behind it.
Held ==
  /\ \A r \in Requests : At(r, "create") => mail[request[r].secret] = None
  /\ \A r, o \in Requests :
       At(r, "create") /\ At(o, "create") /\ r # o =>
         request[r].secret # request[o].secret
  /\ \A r \in Requests :
       request[r].at \in Activation => mail[request[r].secret] # None
  /\ \A k \in Secrets : effects[k] > 0 => mail[k] # None

\* Whoever is linked, logging in or adding an address has a profile.
Rows ==
  /\ \A s \in Subs : linked[s] # None => profile[linked[s]] # None
  /\ \A k \in Links : offer[k] # None => profile[offer[k].user] # None
  /\ \A r \in Requests :
       At(r, "save") \/ At(r, "write") => profile[request[r].user] # None

Types == TypeOK /\ Held /\ Rows

\* What a verification was for is never forgotten, nor that it was used.
Remembers ==
  \A k \in Secrets :
    /\ mail[k] # None => /\ mail'[k] # None
                         /\ mail'[k].user = mail[k].user
                         /\ mail'[k].sub = mail[k].sub
    /\ effects[k] > 0 => effects'[k] > 0

\* No profile is deleted.
ProfilesStay == \A u \in Usernames : profile[u] # None => profile'[u] # None

\* Steps that leave the links for addresses alone keep the rest of the facts, if what they
\* link has a profile, and what they undertake.
LEMMA RowsKept ==
  ASSUME TypeOK, Rows, ProfilesStay,
         \A k \in Links : offer'[k] \in {offer[k], None},
         \A s \in Subs : linked'[s] # linked[s] /\ linked'[s] # None =>
           profile'[linked'[s]] # None,
         \A r \in Requests :
           request'[r] # request[r] /\ (At(r, "save") \/ At(r, "write"))' =>
             profile'[request'[r].user] # None
  PROVE  Rows'
<1>1. ASSUME NEW s \in Subs, linked'[s] # None PROVE profile'[linked'[s]] # None
  <2>1. CASE linked'[s] = linked[s]
    <3>1. linked[s] \in Usernames /\ profile[linked[s]] # None
      BY <1>1, <2>1 DEF TypeOK, Rows
    <3> QED
      BY <2>1, <3>1 DEF ProfilesStay
  <2> QED
    BY <1>1, <2>1
<1>2. ASSUME NEW k \in Links, offer'[k] # None PROVE profile'[offer'[k].user] # None
  <2>1. offer'[k] = offer[k] /\ offer[k] # None
    BY <1>2
  <2>2. offer[k].user \in Usernames /\ profile[offer[k].user] # None
    BY <2>1 DEF TypeOK, Rows, Offers
  <2> QED
    BY <2>1, <2>2 DEF ProfilesStay
<1>3. ASSUME NEW r \in Requests, (At(r, "save") \/ At(r, "write"))'
      PROVE  profile'[request'[r].user] # None
  <2>1. CASE request'[r] = request[r]
    <3>1. request[r].user \in Usernames /\ profile[request[r].user] # None
      BY <1>3, <2>1, Kinds DEF TypeOK, Rows, At
    <3> QED
      BY <2>1, <3>1 DEF ProfilesStay
  <2> QED
    BY <1>3, <2>1
<1> QED
  BY <1>1, <1>2, <1>3 DEF Rows

LEMMA TypesInit == Init => Types
<1> SUFFICES ASSUME Init PROVE Types
  OBVIOUS
<1>1. Idle \in Locals /\ Idle.at # "create" /\ Idle.at \notin Activation
  BY DEF Locals, Idle, Activation
<1>2. TypeOK
  BY <1>1, AccountsAssumption DEF Init, TypeOK, Many, Tables
<1>3. Held
  BY <1>1 DEF Init, Held, At
<1>4. Rows
  BY <1>1 DEF Init, Rows, At, Idle
<1> QED
  BY <1>2, <1>3, <1>4 DEF Types

LEMMA RegisterTypes ==
  ASSUME Types, NEW r \in Requests, NEW u \in Usernames, NEW e \in Emails,
         NEW s \in Subs, Register(r, u, e, s)
  PROVE  Types' /\ Remembers
<1>1. PICK k \in Secrets :
        /\ Fresh(k)
        /\ GoTo(r, [at |-> "create", user |-> u, email |-> e, sub |-> s, secret |-> k])
  BY DEF Register
<1>2. UNCHANGED <<env, profile, others, users, linked, mail, offer, effects, told, welcomes, loggedIn>>
  BY DEF Register, tables, history
<1> DEFINE q == [at |-> "create", user |-> u, email |-> e, sub |-> s, secret |-> k]
<1>3. q \in Locals /\ q.at = "create" /\ q.secret = k /\ q.at \notin Activation
  BY DEF Locals, Activation
<1>4. GoTo(r, q)
  BY <1>1
<1> HIDE DEF q
<1>5. /\ request' \in [Requests -> Locals]
      /\ request'[r] = q
      /\ \A o \in Requests \ {r} : request'[o] = request[o]
  BY <1>3, <1>4, GoToEffect DEF Types, TypeOK
<1>6. TypeOK'
  BY <1>2, <1>5 DEF Types, TypeOK
<1>7. Held'
  BY <1>1, <1>2, <1>3, <1>5 DEF Types, Held, At, Fresh, Unused
<1>8. Rows'
  BY <1>2, <1>3, <1>5, RowsKept DEF Types, ProfilesStay, At
<1> QED
  BY <1>2, <1>6, <1>7, <1>8 DEF Types, Remembers

LEMMA CreateAccountTypes ==
  ASSUME Types, NEW r \in Requests, CreateAccount(r)
  PROVE  Types' /\ Remembers
<1> DEFINE q == request[r]
<1>1. /\ q.user \in Usernames /\ q.email \in Emails /\ q.sub \in Subs /\ q.secret \in Secrets
      /\ At(r, "create") /\ mail[q.secret] = None
  BY Kinds DEF CreateAccount, At, Types, TypeOK, Held
<1>2. /\ request' \in [Requests -> Locals]
      /\ request'[r].at = "idle"
      /\ \A o \in Requests \ {r} : request'[o] = request[o]
  BY GoToEffect DEF CreateAccount, Types, TypeOK, Locals, Idle
<1>3. /\ UNCHANGED <<env, others, linked, effects, told, welcomes, loggedIn>>
      /\ offer' \in [Links -> Offers \cup {None}]
      /\ \A k \in Links : offer'[k] \in {offer[k], None}
  BY RemainingEffect DEF CreateAccount, SomeOffersExpired, Types, TypeOK, history
<1>4. CASE UNCHANGED <<profile, users, mail>>
  <2>1. TypeOK' /\ Held' /\ Remembers
    BY <1>2, <1>3, <1>4 DEF Types, TypeOK, Held, At, Activation, Remembers
  <2>2. Rows'
    BY <1>2, <1>3, <1>4, RowsKept DEF Types, ProfilesStay, At
  <2> QED
    BY <2>1, <2>2 DEF Types
<1>5. CASE /\ profile' = [profile EXCEPT ![q.user] = q.email]
           /\ users' = users \cup {q.user}
           /\ mail' = Sent(q.secret, q.user, q.sub)
  <2>1. /\ mail' \in [Secrets -> Verifications \cup {None}]
        /\ mail'[q.secret] # None /\ mail'[q.secret].user = q.user
        /\ \A k \in Secrets \ {q.secret} :
             /\ mail[k] = None => mail'[k] = None
             /\ mail[k] # None => /\ mail'[k] # None
                                  /\ mail'[k].user = mail[k].user
                                  /\ mail'[k].sub = mail[k].sub
    BY <1>1, <1>5, SentEffect, AccountsAssumption DEF Types, TypeOK
  <2>2. /\ profile' \in Tables
        /\ profile'[q.user] # None
        /\ \A u \in Usernames : profile[u] # None => profile'[u] # None
    BY <1>1, <1>5, AccountsAssumption DEF Types, TypeOK, Tables
  <2>3. \A k \in Secrets : mail'[k] # None => profile'[mail'[k].user] # None
    <3>1. \A k \in Secrets : mail[k] # None => mail[k].user \in Usernames
      BY AccountsAssumption DEF Types, TypeOK, Verifications
    <3> QED
      BY <2>1, <2>2, <3>1 DEF Types, TypeOK
  <2>4. users' \subseteq Usernames
    BY <1>1, <1>5 DEF Types, TypeOK
  <2>5. TypeOK'
    BY <1>2, <1>3, <2>1, <2>2, <2>3, <2>4 DEF Types, TypeOK
  <2> HIDE DEF q
  <2>6. \A o \in Requests : request'[o].at # "idle" => o # r /\ request'[o] = request[o]
    BY <1>2
  <2>7. \A o \in Requests \ {r} : At(o, "create") => request[o].secret \in Secrets \ {q.secret}
    BY <1>1, Kinds DEF Types, TypeOK, Held, At, q
  <2>8. \A o \in Requests : request[o].at \in Activation => request[o].secret \in Secrets
    BY Kinds DEF Types, TypeOK
  <2>9. Held'
    BY <1>1, <1>3, <2>1, <2>6, <2>7, <2>8 DEF Types, Held, At, Activation
  <2>10. Remembers
    BY <1>1, <1>3, <2>1 DEF Remembers
  <2>11. Rows'
    BY <1>2, <1>3, <2>2, RowsKept DEF Types, ProfilesStay, At
  <2> QED
    BY <2>5, <2>9, <2>10, <2>11 DEF Types
<1> QED
  BY <1>4, <1>5 DEF CreateAccount

LEMMA AssociateTypes ==
  ASSUME Types, NEW e \in Emails, NEW s \in Subs, Associate(e, s)
  PROVE  Types' /\ Remembers
<1>1. PICK k \in Secrets, u \in Holders(e) : Fresh(k) /\ mail' = Sent(k, u, s)
  BY DEF Associate
<1>2. u \in Usernames /\ profile[u] # None
  BY AccountsAssumption DEF Holders
<1>3. /\ UNCHANGED <<env, profile, others, users, linked, request, effects, told, welcomes, loggedIn>>
      /\ offer' \in [Links -> Offers \cup {None}]
      /\ \A j \in Links : offer'[j] \in {offer[j], None}
  BY RemainingEffect DEF Associate, SomeOffersExpired, Types, TypeOK, tables, history
<1>4. /\ mail' \in [Secrets -> Verifications \cup {None}]
      /\ mail'[k] # None /\ mail'[k].user = u
      /\ \A j \in Secrets \ {k} :
           /\ mail[j] = None => mail'[j] = None
           /\ mail[j] # None => /\ mail'[j] # None
                                /\ mail'[j].user = mail[j].user
                                /\ mail'[j].sub = mail[j].sub
  BY <1>1, <1>2, SentEffect, AccountsAssumption DEF Types, TypeOK, Fresh, Unused
<1>5. mail[k] = None /\ \A o \in Requests : At(o, "create") => request[o].secret # k
  BY <1>1 DEF Fresh, Unused
<1>6. TypeOK'
  BY <1>2, <1>3, <1>4 DEF Types, TypeOK
<1>7. \A o \in Requests :
        At(o, "create") \/ request[o].at \in Activation => request[o].secret \in Secrets
  BY Kinds DEF Types, TypeOK, At
<1>8. Held'
  BY <1>3, <1>4, <1>5, <1>7 DEF Types, Held, At
<1>9. Remembers
  BY <1>3, <1>4, <1>5 DEF Remembers
<1>10. Rows'
  BY <1>3, RowsKept DEF Types, ProfilesStay, At
<1> QED
  BY <1>6, <1>8, <1>9, <1>10 DEF Types

\* Steps that leave the verifications and the profiles alone: what the request
\* holds is all that matters.
LEMMA ElsewhereTypes ==
  ASSUME Types, UNCHANGED <<env, mail, offer>>, NEW r \in Requests,
         profile' \in Tables, ProfilesStay,
         request' \in [Requests -> Locals],
         \A o \in Requests \ {r} : request'[o] = request[o],
         ~At(r, "create")',
         request'[r].at \in Activation =>
           request'[r].secret \in Secrets /\ mail[request'[r].secret] # None,
         others' \in [Usernames -> SUBSET Emails], users' \subseteq Usernames,
         linked' \in [Subs -> Usernames \cup {None}],
         \A s \in Subs : linked'[s] # linked[s] /\ linked'[s] # None =>
           profile[linked'[s]] # None,
         (At(r, "save") \/ At(r, "write"))' => profile[request'[r].user] # None,
         effects' \in [Secrets -> 0..Many],
         \A k \in Secrets : effects[k] > 0 => effects'[k] > 0,
         \A k \in Secrets : effects'[k] > 0 => mail[k] # None,
         told' \subseteq Subs \X Usernames,
         welcomes' \in [Usernames -> 0..Many], loggedIn' \subseteq Usernames
  PROVE  Types' /\ Remembers
<1>1. TypeOK'
  <2>1. \A k \in Secrets : mail[k] # None => mail[k].user \in Usernames
    BY DEF Types, TypeOK, Verifications
  <2> QED
    BY <2>1 DEF Types, TypeOK, ProfilesStay
<1>2. Held'
  BY DEF Types, Held, At
<1>3. Remembers
  BY DEF Remembers
<1>4. Rows'
  <2>1. \A s \in Subs : linked'[s] \in Usernames \cup {None}
    OBVIOUS
  <2>2. (At(r, "save") \/ At(r, "write"))' => request'[r].user \in Usernames
    BY Kinds DEF At
  <2> QED
    BY <2>1, <2>2, RowsKept DEF Types, ProfilesStay, At
<1> QED
  BY <1>1, <1>2, <1>3, <1>4 DEF Types

LEMMA WriteEffect ==
  ASSUME Types, NEW u \in Usernames, NEW primary \in Emails, NEW secondary \in SUBSET Emails,
         WriteProfile(u, primary, secondary)
  PROVE  /\ profile' \in Tables /\ ProfilesStay
         /\ others' \in [Usernames -> SUBSET Emails]
  BY AccountsAssumption DEF WriteProfile, Types, TypeOK, Tables, ProfilesStay

LEMMA EndEffect ==
  ASSUME Types, NEW r \in Requests, GoTo(r, Idle)
  PROVE  /\ request' \in [Requests -> Locals]
         /\ request'[r] = Idle
         /\ request'[r].at = "idle"
         /\ ~At(r, "create")' /\ ~(At(r, "save") \/ At(r, "write"))' /\ request'[r].at \notin Activation
         /\ \A o \in Requests \ {r} : request'[o] = request[o]
<1>1. Idle \in Locals /\ Idle.at = "idle"
  BY DEF Locals, Idle
<1>2. /\ request' \in [Requests -> Locals]
      /\ request'[r] = Idle
      /\ \A o \in Requests \ {r} : request'[o] = request[o]
  BY <1>1, GoToEffect DEF Types, TypeOK
<1> QED
  BY <1>1, <1>2 DEF At, Activation

\* The verification that an activation works from.
LEMMA Opened ==
  ASSUME Types, NEW r \in Requests, request[r].at \in Activation
  PROVE  LET k == request[r].secret IN
         /\ k \in Secrets /\ mail[k] # None /\ mail[k] \in Verifications
         /\ mail[k].user \in Usernames /\ mail[k].sub \in Subs
<1>1. request[r].secret \in Secrets /\ mail[request[r].secret] # None
  BY Kinds DEF Types, TypeOK, Held
<1> QED
  BY <1>1 DEF Types, TypeOK, Verifications

LEMMA ActivateTypes ==
  ASSUME Types, NEW r \in Requests, NEW k \in Secrets, Activate(r, k)
  PROVE  Types' /\ Remembers
<1> DEFINE new == \A s \in Subs : linked[s] # mail[k].user
           q == [at |-> "associate", secret |-> k, new |-> new]
<1>1. GoTo(r, q) /\ mail[k] # None
  BY DEF Activate
<1>2. new \in BOOLEAN
  OBVIOUS
<1> HIDE DEF new
<1>3. q \in Locals /\ q.at = "associate" /\ q.secret = k
  BY <1>2 DEF Locals, Activation
<1> HIDE DEF q
<1>4. /\ request' \in [Requests -> Locals]
      /\ request'[r] = q
      /\ \A o \in Requests \ {r} : request'[o] = request[o]
  BY <1>1, <1>3, GoToEffect DEF Types, TypeOK
<1>5. UNCHANGED <<env, profile, others, users, linked, mail, offer, effects, told, welcomes, loggedIn>>
  BY DEF Activate, tables, history
<1>6. ~At(r, "create")' /\ ~(At(r, "save") \/ At(r, "write"))' /\ request'[r].secret = k
  BY <1>3, <1>4 DEF At
<1> QED
  BY <1>1, <1>4, <1>5, <1>6, ElsewhereTypes DEF Types, TypeOK, Held, ProfilesStay

LEMMA CallbackTypes ==
  ASSUME Types, NEW r \in Requests, NEW s \in Subs, NEW e \in Emails \cup {None},
         Callback(r, s, e)
  PROVE  Types' /\ Remembers
<1> DEFINE q == [at |-> "save", user |-> linked[s], sub |-> s, email |-> e,
                 primary |-> profile[linked[s]], others |-> others[linked[s]]]
<1>1. GoTo(r, q) /\ linked[s] \in Usernames
  BY DEF Callback, Types, TypeOK
<1>2. /\ q \in Locals /\ q.at = "save"
      /\ q.user \in Usernames /\ profile[q.user] # None
  <2>1. profile[linked[s]] \in Emails /\ others[linked[s]] \subseteq Emails
    BY <1>1, AccountsAssumption DEF Callback, Types, TypeOK, Rows, Tables
  <2> QED
    BY <1>1, <2>1, AccountsAssumption DEF Locals
<1> HIDE DEF q
<1>3. /\ request' \in [Requests -> Locals]
      /\ request'[r] = q
      /\ \A o \in Requests \ {r} : request'[o] = request[o]
  BY <1>1, <1>2, GoToEffect DEF Types, TypeOK
<1>4. UNCHANGED <<env, profile, others, users, linked, mail, offer, effects, told, welcomes, loggedIn>>
  BY DEF Callback, tables, history
<1>5. ~At(r, "create")' /\ request'[r].at \notin Activation /\ profile[request'[r].user] # None
  BY <1>2, <1>3 DEF At, Activation
<1> QED
  BY <1>3, <1>4, <1>5, ElsewhereTypes DEF Types, TypeOK, Held, ProfilesStay

LEMMA KillTypes ==
  ASSUME Types, NEW r \in Requests, Kill(r)
  PROVE  Types' /\ Remembers
<1>1. UNCHANGED <<env, profile, others, users, linked, mail, offer, effects, told, welcomes, loggedIn>>
  BY DEF Kill, tables, history
<1>2. GoTo(r, Idle)
  BY DEF Kill
<1> QED
  BY <1>1, <1>2, EndEffect, ElsewhereTypes DEF Types, TypeOK, Held, ProfilesStay

LEMMA SaveLoginTypes ==
  ASSUME Types, NEW r \in Requests, SaveLogin(r)
  PROVE  Types' /\ Remembers
<1> DEFINE q == request[r]
<1>1. /\ q.user \in Usernames /\ q.email \in Emails \cup {None}
      /\ q.sub \in Subs /\ q.others \subseteq Emails /\ q.primary \in Emails
      /\ profile[q.user] # None
  BY Kinds DEF SaveLogin, At, Types, TypeOK, Rows
<1>2. /\ UNCHANGED <<env, mail, offer, effects, told, welcomes>>
      /\ GoTo(r, Idle)
  BY DEF SaveLogin
<1>3. /\ users' \subseteq Usernames
      /\ linked' \in [Subs -> Usernames \cup {None}] /\ loggedIn' \subseteq Usernames
      /\ \A s \in Subs : linked'[s] # linked[s] => linked'[s] = q.user
  BY <1>1 DEF SaveLogin, Types, TypeOK
<1>4. /\ profile' \in Tables /\ ProfilesStay
      /\ others' \in [Usernames -> SUBSET Emails]
  <2>1. CASE UNCHANGED <<profile, others>>
    BY <2>1 DEF Types, TypeOK, ProfilesStay
  <2>2. CASE WriteProfile(q.user, q.primary, q.others \cup {q.email}) /\ q.email # None
    <3>1. q.others \cup {q.email} \subseteq Emails
      BY <1>1, <2>2
    <3> QED
      BY <1>1, <2>2, <3>1, WriteEffect
  <2> QED
    BY <2>1, <2>2 DEF SaveLogin
<1> HIDE DEF q
<1> QED
  BY <1>1, <1>2, <1>3, <1>4, EndEffect, ElsewhereTypes DEF Types, TypeOK, Held

LEMMA CreateAssociationTypes ==
  ASSUME Types, NEW r \in Requests, CreateAssociation(r)
  PROVE  Types' /\ Remembers
<1> DEFINE k == request[r].secret
<1>1. /\ request[r].at \in Activation
      /\ k \in Secrets /\ mail[k] # None
      /\ mail[k].user \in Usernames /\ mail[k].sub \in Subs
  BY Opened DEF CreateAssociation, At, Activation
<1>2. UNCHANGED <<env, profile, others, users, mail, offer, told, welcomes, loggedIn>>
  BY DEF CreateAssociation
<1>3. CASE GoTo(r, Idle) /\ UNCHANGED <<linked, effects>>
  BY <1>2, <1>3, EndEffect, ElsewhereTypes DEF Types, TypeOK, Held, ProfilesStay
<1>4. CASE /\ linked' = [linked EXCEPT ![mail[k].sub] = mail[k].user]
           /\ effects' = [effects EXCEPT ![k] = Once(@)]
           /\ Advance(r, "delete")
  <2>1. /\ request' \in [Requests -> Locals]
        /\ request'[r].at = "delete" /\ request'[r].secret = k
        /\ \A o \in Requests \ {r} : request'[o] = request[o]
    BY <1>1, <1>4, AdvanceEffect DEF Types, TypeOK, Activation
  <2>2. /\ linked' \in [Subs -> Usernames \cup {None}]
        /\ \A s \in Subs : linked'[s] # linked[s] => profile[linked'[s]] # None
    BY <1>1, <1>4 DEF Types, TypeOK
  <2>3. /\ effects' \in [Secrets -> 0..Many]
        /\ \A j \in Secrets : effects[j] > 0 => effects'[j] > 0
        /\ \A j \in Secrets : effects'[j] > 0 => mail[j] # None
    BY <1>1, <1>4 DEF Types, TypeOK, Held, Once, Many
  <2>4. ~At(r, "create")' /\ ~(At(r, "save") \/ At(r, "write"))'
    BY <2>1 DEF At
  <2> HIDE DEF k
  <2> QED
    BY <1>1, <1>2, <2>1, <2>2, <2>3, <2>4, ElsewhereTypes DEF Types, TypeOK, ProfilesStay
<1> QED
  BY <1>3, <1>4 DEF CreateAssociation

LEMMA AnnounceTypes ==
  ASSUME Types, NEW r \in Requests, Announce(r)
  PROVE  Types' /\ Remembers
<1> DEFINE k == request[r].secret
           w == IF request[r].new THEN "welcome" ELSE "login"
<1>1. /\ request[r].at \in Activation
      /\ k \in Secrets /\ mail[k] # None
      /\ mail[k].user \in Usernames /\ mail[k].sub \in Subs
  BY Opened DEF Announce, At, Activation
<1>2. told' \in {told, told \cup {<<mail[k].sub, mail[k].user>>}}
  BY DEF Announce
<1>3. UNCHANGED <<env, profile, others, users, linked, mail, offer, effects, welcomes, loggedIn>>
  BY DEF Announce, tables
<1>4. w \in Activation /\ w \in {"welcome", "login"} /\ Advance(r, w)
  BY DEF Announce, Activation
<1> HIDE DEF w
<1>5. /\ request' \in [Requests -> Locals]
      /\ request'[r].at = w /\ request'[r].secret = k
      /\ \A o \in Requests \ {r} : request'[o] = request[o]
  BY <1>1, <1>4, AdvanceEffect DEF Types, TypeOK
<1>6. ~At(r, "create")' /\ ~(At(r, "save") \/ At(r, "write"))'
  BY <1>4, <1>5 DEF At
<1> HIDE DEF k
<1>7. told' \subseteq Subs \X Usernames
  BY <1>1, <1>2 DEF Types, TypeOK
<1> QED
  BY <1>1, <1>3, <1>5, <1>6, <1>7, ElsewhereTypes DEF Types, TypeOK, Held, ProfilesStay

LEMMA WelcomeTypes ==
  ASSUME Types, NEW r \in Requests, Welcome(r)
  PROVE  Types' /\ Remembers
<1> DEFINE k == request[r].secret
<1>1. /\ request[r].at \in Activation
      /\ k \in Secrets /\ mail[k] # None /\ mail[k].user \in Usernames
  BY Opened DEF Welcome, At, Activation
<1>2. UNCHANGED <<env, profile, others, users, linked, mail, offer, effects, told, loggedIn>>
  BY DEF Welcome, tables
<1>3. welcomes' \in [Usernames -> 0..Many]
  BY <1>1 DEF Welcome, Types, TypeOK, Once, Many
<1>4. /\ request' \in [Requests -> Locals]
      /\ request'[r].at = "login" /\ request'[r].secret = k
      /\ \A o \in Requests \ {r} : request'[o] = request[o]
  BY <1>1, AdvanceEffect DEF Welcome, Types, TypeOK, Activation
<1>5. ~At(r, "create")' /\ ~(At(r, "save") \/ At(r, "write"))'
  BY <1>4 DEF At
<1> HIDE DEF k
<1> QED
  BY <1>1, <1>2, <1>3, <1>4, <1>5, ElsewhereTypes DEF Types, TypeOK, Held, ProfilesStay

LEMMA LogInTypes ==
  ASSUME Types, NEW r \in Requests, LogIn(r)
  PROVE  Types' /\ Remembers
<1>1. UNCHANGED <<env, profile, others, users, linked, mail, offer, effects, told, welcomes>>
  BY DEF LogIn, tables
<1>2. GoTo(r, Idle) /\ loggedIn' \subseteq Usernames
  BY DEF LogIn, Types, TypeOK
<1> QED
  BY <1>1, <1>2, EndEffect, ElsewhereTypes DEF Types, TypeOK, Held, ProfilesStay

\* Changing the state of a verification.
LEMMA Marked ==
  ASSUME Types, NEW k \in Secrets, mail[k] # None,
         NEW state \in {"live", "expired", "deleted"},
         mail' = [mail EXCEPT ![k].state = state]
  PROVE  /\ mail' \in [Secrets -> Verifications \cup {None}]
         /\ \A j \in Secrets :
              /\ mail'[j] = None <=> mail[j] = None
              /\ mail[j] # None => /\ mail'[j].user = mail[j].user
                                   /\ mail'[j].sub = mail[j].sub
<1>1. mail[k] \in Verifications
  BY DEF Types, TypeOK
<1>2. /\ [mail[k] EXCEPT !.state = state] \in Verifications
      /\ [mail[k] EXCEPT !.state = state].user = mail[k].user
      /\ [mail[k] EXCEPT !.state = state].sub = mail[k].sub
  BY <1>1 DEF Verifications
<1>3. mail' = [mail EXCEPT ![k] = [mail[k] EXCEPT !.state = state]]
  BY DEF Types, TypeOK
<1> QED
  BY <1>2, <1>3, AccountsAssumption DEF Types, TypeOK

LEMMA ExpireTypes ==
  ASSUME Types, NEW k \in Secrets, Expire(k)
  PROVE  Types' /\ Remembers
<1>1. UNCHANGED <<env, profile, others, users, linked, offer, request, effects, told, welcomes, loggedIn>>
  BY DEF Expire, tables, history
<1>2. /\ mail' \in [Secrets -> Verifications \cup {None}]
      /\ \A j \in Secrets :
           /\ mail'[j] = None <=> mail[j] = None
           /\ mail[j] # None => /\ mail'[j].user = mail[j].user
                                /\ mail'[j].sub = mail[j].sub
  BY Marked DEF Expire
<1>3. \A o \in Requests :
        At(o, "create") \/ request[o].at \in Activation => request[o].secret \in Secrets
  BY Kinds DEF Types, TypeOK, At
<1>4. TypeOK' /\ Held'
  BY <1>1, <1>2, <1>3 DEF Types, TypeOK, Held, At
<1>5. Rows'
  BY <1>1, RowsKept DEF Types, ProfilesStay
<1> QED
  BY <1>1, <1>2, <1>4, <1>5 DEF Types, Remembers

LEMMA DeleteVerificationTypes ==
  ASSUME Types, NEW r \in Requests, DeleteVerification(r)
  PROVE  Types' /\ Remembers
<1> DEFINE k == request[r].secret
<1>1. request[r].at \in Activation /\ k \in Secrets /\ mail[k] # None
  BY Opened DEF DeleteVerification, At, Activation
<1>2. UNCHANGED <<env, profile, others, users, linked, offer, effects, told, welcomes, loggedIn>>
  BY DEF DeleteVerification, tables, history
<1>3. /\ mail' \in [Secrets -> Verifications \cup {None}]
      /\ \A j \in Secrets :
           /\ mail'[j] = None <=> mail[j] = None
           /\ mail[j] # None => /\ mail'[j].user = mail[j].user
                                /\ mail'[j].sub = mail[j].sub
  BY <1>1, Marked DEF DeleteVerification
<1>4. /\ request' \in [Requests -> Locals]
      /\ request'[r].at = "announce" /\ request'[r].secret = k
      /\ \A o \in Requests \ {r} : request'[o] = request[o]
  BY <1>1, AdvanceEffect DEF DeleteVerification, Types, TypeOK, Activation
<1>5. \A o \in Requests :
        At(o, "create") \/ request[o].at \in Activation => request[o].secret \in Secrets
  BY Kinds DEF Types, TypeOK, At
<1>6. TypeOK'
  BY <1>2, <1>3, <1>4 DEF Types, TypeOK
<1> HIDE DEF k
<1>7. Held'
  BY <1>1, <1>2, <1>3, <1>4, <1>5 DEF Types, Held, At
<1>8. Rows'
  <2>1. \A o \in Requests : request'[o] # request[o] => ~(At(o, "save") \/ At(o, "write"))'
    BY <1>4 DEF At
  <2> QED
    BY <1>2, <2>1, RowsKept DEF Types, ProfilesStay
<1> QED
  BY <1>2, <1>3, <1>6, <1>7, <1>8 DEF Types, Remembers

LEMMA RemoveLoginTypes ==
  ASSUME Types, NEW s \in Subs, RemoveLogin(s)
  PROVE  Types' /\ Remembers
<1>1. UNCHANGED <<env, profile, others, users, mail, offer, request, effects, told, welcomes, loggedIn>>
  BY DEF RemoveLogin, history
<1>2. /\ linked' \in [Subs -> Usernames \cup {None}]
      /\ \A o \in Subs : linked'[o] # linked[o] => linked'[o] = None
  BY DEF RemoveLogin, Types, TypeOK
<1>3. TypeOK' /\ Held' /\ Remembers
  BY <1>1, <1>2 DEF Types, TypeOK, Held, At, Remembers
<1>4. Rows'
  BY <1>1, <1>2, RowsKept DEF Types, ProfilesStay
<1> QED
  BY <1>3, <1>4 DEF Types

\* An edit of addresses changes nothing before it is saved.
LEMMA UndertakenTypes ==
  ASSUME Types, NEW r \in Requests, NEW q \in Locals, q.at \in {"write", "drop"}, GoTo(r, q),
         q.at = "write" => profile[q.user] # None,
         UNCHANGED <<env, tables, mail, offer, history>>
  PROVE  Types' /\ Remembers
<1>1. UNCHANGED <<env, profile, others, users, linked, mail, offer, effects, told, welcomes, loggedIn>>
  BY DEF tables, history
<1>2. /\ request' \in [Requests -> Locals]
      /\ request'[r] = q
      /\ \A o \in Requests \ {r} : request'[o] = request[o]
  BY GoToEffect DEF Types, TypeOK
<1>3. /\ ~At(r, "create")' /\ request'[r].at \notin Activation
      /\ (At(r, "save") \/ At(r, "write"))' => profile[request'[r].user] # None
  BY <1>2 DEF At, Activation
<1> QED
  BY <1>1, <1>2, <1>3, ElsewhereTypes DEF Types, TypeOK, Held, ProfilesStay

LEMMA EditTypes ==
  ASSUME Types, NEW r \in Requests, NEW u \in Usernames, NEW primary, NEW secondary,
         profile[u] # None => primary \in Emails,
         secondary \subseteq Emails,
         Edit(r, u, primary, secondary)
  PROVE  Types' /\ Remembers
<1> DEFINE q == [at |-> "write", user |-> u, primary |-> primary, others |-> secondary,
                 link |-> None]
<1>1. q \in Locals /\ q.at = "write" /\ q.user = u /\ profile[u] # None /\ GoTo(r, q)
  BY DEF Edit, Locals
<1> HIDE DEF q
<1>2. UNCHANGED <<env, tables, mail, offer, history>>
  BY DEF Edit
<1> QED
  BY <1>1, <1>2, UndertakenTypes

LEMMA AddressTypes ==
  ASSUME Types, NEW r \in Requests, NEW u \in Usernames, NEW e \in Emails,
         MakePrimary(r, u, e) \/ RemoveAddress(r, u, e)
  PROVE  Types' /\ Remembers
<1>1. others[u] \subseteq Emails /\ profile[u] \in Emails
  BY AccountsAssumption DEF MakePrimary, RemoveAddress, Edit, Types, TypeOK, Tables
<1>2. /\ (others[u] \cup {profile[u]}) \ {e} \subseteq Emails
      /\ others[u] \ {e} \subseteq Emails
  BY <1>1
<1> QED
  BY <1>1, <1>2, EditTypes DEF MakePrimary, RemoveAddress

LEMMA OpenAddressTypes ==
  ASSUME Types, NEW r \in Requests, NEW k \in Links, OpenAddress(r, k)
  PROVE  Types' /\ Remembers
<1> DEFINE u == offer[k].user
           e == offer[k].email
           q == IF e \in others[u] THEN [at |-> "drop", link |-> k]
                ELSE [at |-> "write", user |-> u, primary |-> profile[u],
                      others |-> others[u] \cup {e}, link |-> k]
<1>1. u \in Usernames /\ e \in Emails /\ profile[u] # None
  BY DEF OpenAddress, Types, TypeOK, Rows, Offers
<1>2. others[u] \subseteq Emails /\ profile[u] \in Emails
  BY <1>1 DEF Types, TypeOK, Tables
<1>3. GoTo(r, q) /\ UNCHANGED <<env, tables, mail, offer, history>>
  BY DEF OpenAddress
<1> HIDE DEF u, e
<1>4. /\ q \in Locals /\ q.at \in {"write", "drop"}
      /\ q.at = "write" => profile[q.user] # None
  <2>1. CASE e \in others[u]
    BY <2>1 DEF Locals
  <2>2. CASE e \notin others[u]
    BY <1>1, <1>2, <2>2 DEF Locals
  <2> QED
    BY <2>1, <2>2
<1> HIDE DEF q
<1> QED
  BY <1>3, <1>4, UndertakenTypes

LEMMA SaveProfileTypes ==
  ASSUME Types, NEW r \in Requests, SaveProfile(r)
  PROVE  Types' /\ Remembers
<1> DEFINE q == request[r]
           next == IF q.link = None THEN Idle ELSE [at |-> "drop", link |-> q.link]
<1>1. /\ q.user \in Usernames /\ q.primary \in Emails /\ q.others \in SUBSET Emails
      /\ q.link \in Links \cup {None}
  BY Kinds DEF SaveProfile, At, Types, TypeOK
<1>2. /\ UNCHANGED <<env, users, linked, mail, offer, effects, told, welcomes, loggedIn>>
      /\ GoTo(r, next) /\ WriteProfile(q.user, q.primary, q.others)
  BY DEF SaveProfile, history
<1>3. next \in Locals /\ next.at \in {"idle", "drop"}
  BY <1>1 DEF Locals, Idle
<1>4. /\ profile' \in Tables /\ ProfilesStay
      /\ others' \in [Usernames -> SUBSET Emails]
  BY <1>1, <1>2, WriteEffect
<1> HIDE DEF q, next
<1>5. /\ request' \in [Requests -> Locals]
      /\ request'[r] = next
      /\ \A o \in Requests \ {r} : request'[o] = request[o]
  BY <1>2, <1>3, GoToEffect DEF Types, TypeOK
<1>6. ~At(r, "create")' /\ ~(At(r, "save") \/ At(r, "write"))' /\ request'[r].at \notin Activation
  BY <1>3, <1>5 DEF At, Activation
<1> QED
  BY <1>2, <1>4, <1>5, <1>6, ElsewhereTypes DEF Types, TypeOK, Held

\* Steps that change the links for addresses only.
LEMMA OfferedTypes ==
  ASSUME Types, UNCHANGED <<env, tables, mail, history>>,
         offer' \in [Links -> Offers \cup {None}],
         \A k \in Links : offer'[k] # None => profile[offer'[k].user] # None,
         request' \in [Requests -> Locals],
         \A o \in Requests : request'[o] = request[o] \/ request'[o] = Idle
  PROVE  Types' /\ Remembers
<1>1. UNCHANGED <<env, profile, others, users, linked, mail, effects, told, welcomes, loggedIn>>
  BY DEF tables, history
<1>2. \A o \in Requests :
        \/ request'[o] = request[o]
        \/ ~At(o, "create")' /\ ~(At(o, "save") \/ At(o, "write"))' /\ request'[o].at \notin Activation
  BY DEF At, Idle, Activation
<1>3. TypeOK'
  BY <1>1 DEF Types, TypeOK
<1>4. Held'
  BY <1>1, <1>2 DEF Types, Held, At
<1>5. Rows'
  BY <1>1, <1>2 DEF Types, Rows, At
<1> QED
  BY <1>1, <1>3, <1>4, <1>5 DEF Types, Remembers

LEMMA AskAddressTypes ==
  ASSUME Types, NEW u \in Usernames, NEW e \in Emails, AskAddress(u, e)
  PROVE  Types' /\ Remembers
<1>1. /\ UNCHANGED <<env, profile, others, users, linked, request, effects, told, welcomes, loggedIn>>
      /\ profile[u] # None /\ mail' = Collected
  BY DEF AskAddress, tables, history
<1>2. PICK k \in Links, gone \in SUBSET Links :
        offer' = [Remaining(gone) EXCEPT ![k] = [user |-> u, email |-> e]]
  BY DEF AskAddress
<1>3. [user |-> u, email |-> e] \in Offers
  BY DEF Offers
<1>4. /\ Remaining(gone) \in [Links -> Offers \cup {None}]
      /\ \A j \in Links : Remaining(gone)[j] \in {offer[j], None}
  BY RemainingEffect DEF Types, TypeOK
<1>5. /\ offer' \in [Links -> Offers \cup {None}]
      /\ \A j \in Links : offer'[j] # None => profile[offer'[j].user] # None
  BY <1>1, <1>2, <1>3, <1>4 DEF Types, Rows
<1>6. /\ mail' \in [Secrets -> Verifications \cup {None}]
      /\ \A j \in Secrets :
           /\ mail[j] = None => mail'[j] = None
           /\ mail[j] # None => /\ mail'[j] # None
                                /\ mail'[j].user = mail[j].user
                                /\ mail'[j].sub = mail[j].sub
  BY <1>1, CollectedEffect, AccountsAssumption DEF Types, TypeOK
<1>7. \A o \in Requests :
        At(o, "create") \/ request[o].at \in Activation => request[o].secret \in Secrets
  BY Kinds DEF Types, TypeOK, At
<1>8. TypeOK' /\ Held'
  BY <1>1, <1>5, <1>6, <1>7 DEF Types, TypeOK, Held, At
<1>9. Rows'
  BY <1>1, <1>5 DEF Types, Rows, At
<1> QED
  BY <1>1, <1>6, <1>8, <1>9 DEF Types, Remembers

LEMMA DropLinkTypes ==
  ASSUME Types, NEW r \in Requests, DropLink(r)
  PROVE  Types' /\ Remembers
<1>1. request[r].link \in Links
  BY Kinds DEF DropLink, At, Types, TypeOK
<1>2. /\ offer' \in [Links -> Offers \cup {None}]
      /\ \A j \in Links : offer'[j] # None => profile[offer'[j].user] # None
  BY <1>1 DEF DropLink, Types, TypeOK, Rows
<1>3. /\ request' \in [Requests -> Locals]
      /\ \A o \in Requests : request'[o] = request[o] \/ request'[o] = Idle
  BY EndEffect DEF DropLink
<1> QED
  BY <1>2, <1>3, OfferedTypes DEF DropLink

LEMMA EditingTypes == ASSUME Types, EditAddresses PROVE Types' /\ Remembers
  BY AddressTypes, OpenAddressTypes, SaveProfileTypes, DropLinkTypes DEF EditAddresses, EditStep

\* Edits of addresses have nothing to do with links, logins and what follows them.
Editing ==
  /\ UNCHANGED <<env, users, linked, mail, effects, told, welcomes, loggedIn>>
  /\ \A r \in Requests : request'[r] # request[r] =>
       /\ request[r].at \in {"idle", "write", "drop"}
       /\ request'[r].at \in {"idle", "write", "drop"}

LEMMA OneEdit ==
  ASSUME Types, NEW r \in Requests, NEW q, GoTo(r, q),
         request[r].at \in {"idle", "write", "drop"},
         q.at \in {"idle", "write", "drop"},
         UNCHANGED <<env, users, linked, mail, effects, told, welcomes, loggedIn>>
  PROVE  Editing
  BY DEF GoTo, Types, TypeOK, Editing

LEMMA EditsEdit == ASSUME Types, EditAddresses PROVE Editing
<1>1. ASSUME NEW r \in Requests, NEW u \in Usernames, NEW primary, NEW secondary,
             Edit(r, u, primary, secondary)
      PROVE  Editing
  <2>1. /\ request[r].at = "idle"
        /\ UNCHANGED <<env, users, linked, mail, effects, told, welcomes, loggedIn>>
        /\ GoTo(r, [at |-> "write", user |-> u, primary |-> primary, others |-> secondary,
                    link |-> None])
    BY <1>1 DEF Edit, Arrives, At, tables, history
  <2> QED
    BY <2>1, OneEdit
<1>2. ASSUME NEW r \in Requests, NEW k \in Links, OpenAddress(r, k) PROVE Editing
  <2> DEFINE u == offer[k].user
             e == offer[k].email
             q == IF e \in others[u] THEN [at |-> "drop", link |-> k]
                  ELSE [at |-> "write", user |-> u, primary |-> profile[u],
                        others |-> others[u] \cup {e}, link |-> k]
  <2>1. /\ request[r].at = "idle"
        /\ UNCHANGED <<env, users, linked, mail, effects, told, welcomes, loggedIn>>
        /\ GoTo(r, q)
    BY <1>2 DEF OpenAddress, Arrives, At, tables, history
  <2>2. q.at \in {"write", "drop"}
    OBVIOUS
  <2> HIDE DEF q
  <2> QED
    BY <2>1, <2>2, OneEdit
<1>3. ASSUME NEW r \in Requests, EditStep(r) PROVE Editing
  <2> DEFINE q == IF request[r].link = None THEN Idle
                  ELSE [at |-> "drop", link |-> request[r].link]
  <2>1. /\ request[r].at \in {"write", "drop"}
        /\ UNCHANGED <<env, users, linked, mail, effects, told, welcomes, loggedIn>>
        /\ GoTo(r, q) \/ GoTo(r, Idle)
    BY <1>3 DEF EditStep, SaveProfile, DropLink, At, tables, history
  <2>2. q.at \in {"idle", "drop"} /\ Idle.at = "idle"
    BY DEF Idle
  <2> HIDE DEF q
  <2> QED
    BY <2>1, <2>2, OneEdit
<1> QED
  BY <1>1, <1>2, <1>3 DEF EditAddresses, MakePrimary, RemoveAddress

LEMMA TypesStep ==
  ASSUME Types, [Next]_vars
  PROVE  Types' /\ Remembers
<1>1. CASE UNCHANGED vars
  BY <1>1 DEF vars, tables, history, Types, TypeOK, Held, Rows, At, Remembers
<1>2. ASSUME NEW r \in Requests, Begin(r) PROVE Types' /\ Remembers
  BY <1>2, RegisterTypes, ActivateTypes, CallbackTypes DEF Begin
<1>3. ASSUME NEW r \in Requests, Step(r) PROVE Types' /\ Remembers
  BY <1>3, CreateAccountTypes, SaveLoginTypes, CreateAssociationTypes,
     DeleteVerificationTypes, AnnounceTypes, WelcomeTypes, LogInTypes DEF Step
<1> QED
  BY <1>1, <1>2, <1>3, KillTypes, AssociateTypes, AskAddressTypes, RemoveLoginTypes, ExpireTypes, EditingTypes
     DEF Next

\* The types of every variable, and that a verification always belongs to a
\* profile that exists.
THEOREM TypeCorrect == Spec => []TypeOK
<1>1. Spec => []Types
  BY TypesInit, TypesStep, PTL DEF Spec
<1>2. Types => TypeOK
  BY DEF Types
<1> QED
  BY <1>1, <1>2, PTL
-------------------------------------------------------------------------------
\* A link for the association of s with u was opened, as effects and mail tell.
Confirms(done, table, k, s, u) ==
  done[k] > 0 /\ table[k].sub = s /\ table[k].user = u

\* OnlyTheConfirmedLogIn, and the same of what requests are about to do.
Confirmation ==
  /\ \A s \in Subs : linked[s] # None =>
       \E k \in Secrets : Confirms(effects, mail, k, s, linked[s])
  /\ \A u \in loggedIn : \E k \in Secrets, s \in Subs : Confirms(effects, mail, k, s, u)
  /\ \A r \in Requests :
       request[r].at \in Activation \ {"associate"} => effects[request[r].secret] > 0
  /\ \A r \in Requests : At(r, "save") =>
       \E k \in Secrets : Confirms(effects, mail, k, request[r].sub, request[r].user)

LEMMA ConfirmsStays ==
  ASSUME Types, Remembers, NEW k \in Secrets, NEW s, NEW u,
         Confirms(effects, mail, k, s, u)
  PROVE  Confirms(effects', mail', k, s, u)
  BY DEF Types, Held, Remembers, Confirms

LEMMA ConfirmationInit == Init => Confirmation
<1> SUFFICES ASSUME Init PROVE Confirmation
  OBVIOUS
<1>1. \A r \in Requests : request[r].at = "idle"
  BY DEF Init, Idle
<1> QED
  BY <1>1 DEF Init, Confirmation, At, Activation

\* A step keeps Confirmation if what it links, logs in or undertakes is confirmed.
LEMMA ConfirmationKept ==
  ASSUME Types, Remembers, Confirmation,
         \A s \in Subs : linked'[s] # None /\ linked'[s] # linked[s] =>
           \E k \in Secrets : Confirms(effects', mail', k, s, linked'[s]),
         \A u \in loggedIn' \ loggedIn :
           \E k \in Secrets, s \in Subs : Confirms(effects', mail', k, s, u),
         \A r \in Requests : request'[r] # request[r] =>
           /\ request'[r].at \in Activation \ {"associate"} =>
                effects'[request'[r].secret] > 0
           /\ request'[r].at = "save" => \E k \in Secrets :
                Confirms(effects', mail', k, request'[r].sub, request'[r].user)
  PROVE  Confirmation'
<1>1. ASSUME NEW s \in Subs, linked'[s] # None, linked'[s] = linked[s]
      PROVE  \E k \in Secrets : Confirms(effects', mail', k, s, linked'[s])
  <2>1. PICK k \in Secrets : Confirms(effects, mail, k, s, linked[s])
    BY <1>1 DEF Confirmation
  <2> QED
    BY <1>1, <2>1, ConfirmsStays
<1>2. ASSUME NEW u \in loggedIn' \cap loggedIn
      PROVE  \E k \in Secrets, s \in Subs : Confirms(effects', mail', k, s, u)
  <2>1. PICK k \in Secrets, s \in Subs : Confirms(effects, mail, k, s, u)
    BY <1>2 DEF Confirmation
  <2> QED
    BY <2>1, ConfirmsStays
<1>3. ASSUME NEW r \in Requests, request'[r] = request[r],
             request[r].at \in Activation \ {"associate"}
      PROVE  effects'[request'[r].secret] > 0
  <2>1. request[r].secret \in Secrets
    BY <1>3, Kinds DEF Types, TypeOK
  <2> QED
    BY <1>3, <2>1 DEF Confirmation, Remembers
<1>4. ASSUME NEW r \in Requests, request'[r] = request[r], request[r].at = "save"
      PROVE  \E k \in Secrets :
               Confirms(effects', mail', k, request'[r].sub, request'[r].user)
  <2>1. PICK k \in Secrets : Confirms(effects, mail, k, request[r].sub, request[r].user)
    BY <1>4 DEF Confirmation, At
  <2> QED
    BY <1>4, <2>1, ConfirmsStays
<1> QED
  BY <1>1, <1>2, <1>3, <1>4 DEF Confirmation, At

LEMMA OthersSame ==
  ASSUME Types, NEW r \in Requests, NEW q \in Locals, GoTo(r, q)
  PROVE  /\ request'[r] = q
         /\ \A o \in Requests \ {r} : request'[o] = request[o]
  BY GoToEffect DEF Types, TypeOK

\* Steps that link nobody, log nobody in and do not go on with an activation.
LEMMA NothingConfirmed ==
  ASSUME Types, Remembers, Confirmation, linked' = linked, loggedIn' = loggedIn,
         \A r \in Requests : request'[r] # request[r] =>
           request'[r].at \in {"idle", "create", "associate"}
  PROVE  Confirmation'
<1>1. \A r \in Requests : request'[r] # request[r] =>
        request'[r].at \notin Activation \ {"associate"} /\ request'[r].at # "save"
  BY DEF Activation
<1> QED
  BY <1>1, ConfirmationKept

LEMMA BeginConfirmation ==
  ASSUME Types, Remembers, Confirmation, NEW r \in Requests, Begin(r)
  PROVE  Confirmation'
<1>1. CASE \E u \in Usernames, e \in Emails, s \in Subs : Register(r, u, e, s)
  <2>1. PICK u \in Usernames, e \in Emails, s \in Subs : Register(r, u, e, s)
    BY <1>1
  <2>2. PICK k \in Secrets :
          GoTo(r, [at |-> "create", user |-> u, email |-> e, sub |-> s, secret |-> k])
    BY <2>1 DEF Register
  <2>3. linked' = linked /\ loggedIn' = loggedIn
    BY <2>1 DEF Register, tables, history
  <2>4. [at |-> "create", user |-> u, email |-> e, sub |-> s, secret |-> k] \in Locals
    BY DEF Locals
  <2>5. \A o \in Requests : request'[o] # request[o] => request'[o].at = "create"
    BY <2>2, <2>4, OthersSame
  <2> QED
    BY <2>3, <2>5, NothingConfirmed
<1>2. CASE \E k \in Secrets : Activate(r, k)
  <2>1. PICK k \in Secrets : Activate(r, k)
    BY <1>2
  <2>2. linked' = linked /\ loggedIn' = loggedIn
    BY <2>1 DEF Activate, tables, history
  <2> DEFINE new == \A s \in Subs : linked[s] # mail[k].user
             q == [at |-> "associate", secret |-> k, new |-> new]
  <2>3. GoTo(r, q) /\ new \in BOOLEAN
    BY <2>1 DEF Activate
  <2> HIDE DEF new
  <2>4. q \in Locals /\ q.at = "associate"
    BY <2>3 DEF Locals, Activation
  <2> HIDE DEF q
  <2>5. \A o \in Requests : request'[o] # request[o] => request'[o].at = "associate"
    BY <2>3, <2>4, OthersSame
  <2> QED
    BY <2>2, <2>5, NothingConfirmed
<1>3. CASE \E s \in Subs, e \in Emails \cup {None} : Callback(r, s, e)
  <2>1. PICK s \in Subs, e \in Emails \cup {None} : Callback(r, s, e)
    BY <1>3
  <2>2. linked' = linked /\ loggedIn' = loggedIn /\ linked[s] # None
    BY <2>1 DEF Callback, tables, history
  <2> DEFINE q == [at |-> "save", user |-> linked[s], sub |-> s, email |-> e,
                   primary |-> profile[linked[s]], others |-> others[linked[s]]]
  <2>3. GoTo(r, q)
    BY <2>1 DEF Callback
  <2>4. q \in Locals /\ q.at = "save" /\ q.sub = s /\ q.user = linked[s]
    <3>1. profile[linked[s]] \in Emails /\ others[linked[s]] \subseteq Emails
      BY <2>2, AccountsAssumption DEF Types, TypeOK, Rows, Tables
    <3> QED
      BY <2>2, <3>1, AccountsAssumption DEF Locals, Types, TypeOK
  <2> HIDE DEF q
  <2>5. PICK k \in Secrets : Confirms(effects, mail, k, s, linked[s])
    BY <2>2 DEF Confirmation
  <2>6. Confirms(effects', mail', k, s, linked[s])
    BY <2>5, ConfirmsStays
  <2>7. \A o \in Requests : request'[o] # request[o] =>
          request'[o].at = "save" /\ request'[o].sub = s /\ request'[o].user = linked[s]
    BY <2>3, <2>4, OthersSame
  <2>8. "save" \notin Activation
    BY DEF Activation
  <2> QED
    BY <2>2, <2>6, <2>7, <2>8, ConfirmationKept
<1> QED
  BY <1>1, <1>2, <1>3 DEF Begin

LEMMA CreateAssociationConfirmation ==
  ASSUME Types, Remembers, Confirmation, NEW r \in Requests, CreateAssociation(r)
  PROVE  Confirmation'
<1> DEFINE k == request[r].secret
           m == mail[k]
<1>1. /\ request[r].at \in Activation
      /\ k \in Secrets /\ m.user \in Usernames /\ m.sub \in Subs
  BY Opened DEF CreateAssociation, At, Activation
<1>2. UNCHANGED <<mail, loggedIn>>
  BY DEF CreateAssociation
<1>3. CASE GoTo(r, Idle) /\ UNCHANGED <<linked, effects>>
  BY <1>2, <1>3, EndEffect, NothingConfirmed
<1>4. CASE /\ linked' = [linked EXCEPT ![m.sub] = m.user]
           /\ effects' = [effects EXCEPT ![k] = Once(@)]
           /\ Advance(r, "delete")
  <2>1. /\ request'[r].at = "delete" /\ request'[r].secret = k
        /\ \A o \in Requests \ {r} : request'[o] = request[o]
    BY <1>1, <1>4, AdvanceEffect DEF Types, TypeOK, Activation
  <2>2. effects'[k] > 0
    BY <1>1, <1>4 DEF Types, TypeOK, Once, Many
  <2>3. \A s \in Subs : linked'[s] # linked[s] => s = m.sub /\ linked'[s] = m.user
    BY <1>1, <1>4 DEF Types, TypeOK
  <2>4. Confirms(effects', mail', k, m.sub, m.user)
    BY <1>2, <2>2 DEF Confirms
  <2>5. \A o \in Requests : request'[o] # request[o] =>
          request'[o].at = "delete" /\ request'[o].secret = k
    BY <2>1
  <2> HIDE DEF k, m
  <2> QED
    BY <1>1, <1>2, <2>2, <2>3, <2>4, <2>5, ConfirmationKept
<1> QED
  BY <1>3, <1>4 DEF CreateAssociation

\* The steps of an activation after its association: they go on, and the last
\* one logs in the person the link was for.
LEMMA GoOnConfirmation ==
  ASSUME Types, Remembers, Confirmation, NEW r \in Requests,
         request[r].at \in Activation \ {"associate"}, linked' = linked,
         \A o \in Requests \ {r} : request'[o] = request[o],
         \/ request'[r].at = "idle"
         \/ request'[r].at \in Activation /\ request'[r].secret = request[r].secret,
         loggedIn' \subseteq loggedIn \cup {mail[request[r].secret].user}
  PROVE  Confirmation'
<1> DEFINE k == request[r].secret
<1>1. k \in Secrets /\ mail[k].sub \in Subs
  BY Opened
<1>2. Confirms(effects, mail, k, mail[k].sub, mail[k].user)
  BY DEF Confirmation, Confirms
<1>3. Confirms(effects', mail', k, mail[k].sub, mail[k].user)
  BY <1>1, <1>2, ConfirmsStays
<1>4. effects'[k] > 0
  BY <1>3 DEF Confirms
<1>5. \A o \in Requests : request'[o] # request[o] =>
        /\ request'[o].at \in Activation \ {"associate"} => request'[o].secret = k
        /\ request'[o].at # "save"
  BY DEF Activation
<1> HIDE DEF k
<1> QED
  BY <1>1, <1>3, <1>4, <1>5, ConfirmationKept DEF k

LEMMA StepConfirmation ==
  ASSUME Types, Remembers, Confirmation, NEW r \in Requests, Step(r)
  PROVE  Confirmation'
<1>1. CASE CreateAccount(r)
  <2>1. linked' = linked /\ loggedIn' = loggedIn /\ GoTo(r, Idle)
    BY <1>1 DEF CreateAccount, history
  <2> QED
    BY <2>1, EndEffect, NothingConfirmed
<1>2. CASE SaveLogin(r)
  <2> DEFINE q == request[r]
  <2>1. /\ q.user \in Usernames /\ q.sub \in Subs
        /\ At(r, "save") /\ GoTo(r, Idle)
    BY <1>2, Kinds DEF SaveLogin, At, Types, TypeOK
  <2>2. PICK k \in Secrets : Confirms(effects, mail, k, q.sub, q.user)
    BY <2>1 DEF Confirmation
  <2>3. Confirms(effects', mail', k, q.sub, q.user)
    BY <2>1, <2>2, ConfirmsStays
  <2>4. \A s \in Subs : linked'[s] # linked[s] => s = q.sub /\ linked'[s] = q.user
    BY <1>2, <2>1 DEF SaveLogin, Types, TypeOK
  <2>5. \A u \in loggedIn' \ loggedIn : u = q.user
    BY <1>2 DEF SaveLogin
  <2>6. \A o \in Requests : request'[o] # request[o] => request'[o].at = "idle"
    BY <2>1, EndEffect
  <2>7. "idle" \notin Activation
    BY DEF Activation
  <2> HIDE DEF q
  <2> QED
    BY <2>1, <2>3, <2>4, <2>5, <2>6, <2>7, ConfirmationKept
<1>3. CASE CreateAssociation(r)
  BY <1>3, CreateAssociationConfirmation
<1>4. CASE DeleteVerification(r) \/ Announce(r) \/ Welcome(r)
  <2> DEFINE w == IF request[r].new THEN "welcome" ELSE "login"
  <2>1. /\ request[r].at \in Activation \ {"associate"}
        /\ linked' = linked /\ loggedIn' = loggedIn
        /\ \/ Advance(r, "announce") \/ Advance(r, "login") \/ Advance(r, w)
    BY <1>4 DEF DeleteVerification, Announce, Welcome, At, Activation, tables, history
  <2>2. w \in Activation /\ "announce" \in Activation /\ "login" \in Activation
    BY DEF Activation
  <2> HIDE DEF w
  <2>3. /\ request'[r].at \in Activation /\ request'[r].secret = request[r].secret
        /\ \A o \in Requests \ {r} : request'[o] = request[o]
    BY <2>1, <2>2, AdvanceEffect DEF Types, TypeOK
  <2> QED
    BY <2>1, <2>3, GoOnConfirmation
<1>5. CASE LogIn(r)
  <2>1. /\ request[r].at \in Activation \ {"associate"}
        /\ linked' = linked /\ GoTo(r, Idle)
        /\ loggedIn' \subseteq loggedIn \cup {mail[request[r].secret].user}
    BY <1>5 DEF LogIn, At, Activation, tables
  <2> QED
    BY <2>1, EndEffect, GoOnConfirmation
<1> QED
  BY <1>1, <1>2, <1>3, <1>4, <1>5 DEF Step

LEMMA ConfirmationStep ==
  ASSUME Types, Confirmation, [Next]_vars
  PROVE  Confirmation'
<1> USE TypesStep
<1>1. CASE UNCHANGED vars
  <2>1. UNCHANGED <<linked, loggedIn, request>>
    BY <1>1 DEF vars, tables, history
  <2> QED
    BY <2>1, NothingConfirmed
<1>2. CASE \E r \in Requests : Begin(r)
  BY <1>2, BeginConfirmation
<1>3. CASE \E r \in Requests : Step(r)
  BY <1>3, StepConfirmation
<1>4. ASSUME NEW r \in Requests, Kill(r) PROVE Confirmation'
  <2>1. linked' = linked /\ loggedIn' = loggedIn /\ GoTo(r, Idle)
    BY <1>4 DEF Kill, tables, history
  <2> QED
    BY <2>1, EndEffect, NothingConfirmed
<1>5. CASE \/ \E e \in Emails, s \in Subs : Associate(e, s)
           \/ \E v \in Usernames, e \in Emails : AskAddress(v, e)
           \/ \E k \in Secrets : Expire(k)
  <2>1. UNCHANGED <<linked, loggedIn, request>>
    BY <1>5 DEF Associate, AskAddress, Expire, tables, history
  <2> QED
    BY <2>1, NothingConfirmed
<1>6. ASSUME NEW s \in Subs, RemoveLogin(s) PROVE Confirmation'
  <2>1. UNCHANGED <<loggedIn, request>>
    BY <1>6 DEF RemoveLogin, history
  <2>2. \A o \in Subs : linked'[o] # linked[o] => linked'[o] = None
    BY <1>6 DEF RemoveLogin, Types, TypeOK
  <2> QED
    BY <2>1, <2>2, ConfirmationKept
<1>7. CASE EditAddresses
  <2>1. Editing
    BY <1>7, EditsEdit
  <2>2. \A r \in Requests : request'[r] # request[r] =>
          request'[r].at \notin Activation /\ request'[r].at # "save"
    BY <2>1 DEF Editing, Activation
  <2> QED
    BY <2>1, <2>2, ConfirmationKept DEF Editing
<1> QED
  BY <1>1, <1>2, <1>3, <1>4, <1>5, <1>6, <1>7 DEF Next

LEMMA TypesAlways == Spec => []Types
  BY TypesInit, TypesStep, PTL DEF Spec

\* Nobody is associated or logged in before a link mailed for exactly that was
\* opened, whatever the requests, the killed workers and the removals.
THEOREM ConfirmedLogIn == Spec => []OnlyTheConfirmedLogIn
<1>1. Types /\ Confirmation /\ [Next]_vars => Types' /\ Confirmation'
  BY TypesStep, ConfirmationStep
<1>2. Spec => [](Types /\ Confirmation)
  BY TypesInit, ConfirmationInit, <1>1, PTL DEF Spec
<1>3. Confirmation => OnlyTheConfirmedLogIn
  BY DEF Confirmation, OnlyTheConfirmedLogIn, Confirmed, Confirms
<1> QED
  BY <1>2, <1>3, PTL
-------------------------------------------------------------------------------
\* If no login is removed, what a link has made is still there.
Effects ==
  ~env.removals =>
    \A k \in Secrets :
      /\ effects[k] <= 1
      /\ effects[k] > 0 => linked[mail[k].sub] = mail[k].user

LEMMA EffectsInit == Init => Effects
  BY DEF Init, Effects

LEMMA EnvStays == ASSUME [Next]_vars PROVE env' = env
<1>1. CASE UNCHANGED vars
  BY <1>1 DEF vars
<1>2. ASSUME NEW r \in Requests, Begin(r) \/ Step(r) \/ Kill(r) PROVE env' = env
  BY <1>2 DEF Begin, Step, Kill, Register, Activate, Callback, CreateAccount, SaveLogin,
     CreateAssociation, DeleteVerification, Announce, Welcome, LogIn
<1>3. CASE \/ \E e \in Emails, s \in Subs : Associate(e, s)
           \/ \E v \in Usernames, e \in Emails : AskAddress(v, e)
           \/ \E s \in Subs : RemoveLogin(s)
           \/ \E k \in Secrets : Expire(k)
  BY <1>3 DEF Associate, AskAddress, RemoveLogin, Expire
<1>4. CASE EditAddresses
  BY <1>4 DEF EditAddresses, EditStep, MakePrimary, RemoveAddress, Edit,
     OpenAddress, SaveProfile, DropLink
<1> QED
  BY <1>1, <1>2, <1>3, <1>4 DEF Next

\* Without removals an association is for ever, and only CreateAssociation
\* counts an effect.
LEMMA LinksStay ==
  ASSUME Types, [Next]_vars, ~env.removals
  PROVE  /\ \A s \in Subs : linked[s] # None => linked'[s] = linked[s]
         /\ effects' # effects => \E r \in Requests : CreateAssociation(r)
<1> DEFINE Goal == /\ \A s \in Subs : linked[s] # None => linked'[s] = linked[s]
                   /\ effects' # effects => \E r \in Requests : CreateAssociation(r)
<1>1. CASE UNCHANGED vars
  BY <1>1 DEF vars, tables, history
<1>2. ASSUME NEW r \in Requests, Begin(r) PROVE Goal
  <2>1. UNCHANGED <<linked, effects>>
    BY <1>2 DEF Begin, Register, Activate, Callback, tables, history
  <2> QED
    BY <2>1
<1>3. ASSUME NEW r \in Requests, Step(r) PROVE Goal
  <2>1. CASE CreateAccount(r) \/ DeleteVerification(r) \/ Announce(r) \/ Welcome(r) \/ LogIn(r)
    <3>1. UNCHANGED <<linked, effects>>
      BY <2>1 DEF CreateAccount, DeleteVerification, Announce, Welcome, LogIn, tables, history
    <3> QED
      BY <3>1
  <2>2. CASE SaveLogin(r)
    <3>1. request[r].sub \in Subs /\ request[r].user \in Usernames
      BY <2>2, Kinds DEF SaveLogin, At, Types, TypeOK
    <3> QED
      BY <2>2, <3>1 DEF SaveLogin, Types, TypeOK
  <2>3. CASE CreateAssociation(r)
    <3>1. mail[request[r].secret].sub \in Subs
      BY <2>3, Opened DEF CreateAssociation, At, Activation
    <3> QED
      BY <2>3, <3>1 DEF CreateAssociation, Types, TypeOK
  <2> QED
    BY <1>3, <2>1, <2>2, <2>3 DEF Step
<1>4. ASSUME NEW r \in Requests, Kill(r) PROVE Goal
  BY <1>4 DEF Kill, tables, history
<1>5. CASE \/ \E e \in Emails, s \in Subs : Associate(e, s)
           \/ \E v \in Usernames, e \in Emails : AskAddress(v, e)
           \/ \E k \in Secrets : Expire(k)
  BY <1>5 DEF Associate, AskAddress, Expire, tables, history
<1>6. CASE \E s \in Subs : RemoveLogin(s)
  BY <1>6 DEF RemoveLogin
<1>7. CASE EditAddresses
  BY <1>7, EditsEdit DEF Editing
<1> QED
  BY <1>1, <1>2, <1>3, <1>4, <1>5, <1>6, <1>7 DEF Next

LEMMA EffectsStep ==
  ASSUME Types, Effects, [Next]_vars
  PROVE  Effects'
<1> SUFFICES ASSUME ~env.removals, NEW k \in Secrets
             PROVE  /\ effects'[k] <= 1
                    /\ effects'[k] > 0 => linked'[mail'[k].sub] = mail'[k].user
  BY EnvStays DEF Effects
<1>1. Types' /\ Remembers
  BY TypesStep
<1>2. ASSUME effects[k] > 0 PROVE /\ linked'[mail'[k].sub] = mail'[k].user
                                  /\ linked[mail[k].sub] # None
  <2>1. mail[k] # None /\ mail[k] \in Verifications
    BY <1>2 DEF Types, TypeOK, Held
  <2>2. linked[mail[k].sub] = mail[k].user
    BY <1>2 DEF Effects
  <2>3. mail[k].sub \in Subs /\ mail[k].user # None
    BY <2>1, AccountsAssumption DEF Verifications
  <2> QED
    BY <1>1, <2>1, <2>2, <2>3, LinksStay DEF Remembers
<1>3. CASE effects'[k] = effects[k]
  BY <1>2, <1>3 DEF Effects
<1>4. CASE effects'[k] # effects[k]
  <2>1. PICK r \in Requests : CreateAssociation(r)
    BY <1>4, LinksStay
  <2>2. /\ request[r].secret \in Secrets
        /\ mail[request[r].secret].sub \in Subs
    BY <2>1, Opened DEF CreateAssociation, At, Activation
  <2>3. /\ k = request[r].secret
        /\ linked[mail[k].sub] = None
        /\ linked' = [linked EXCEPT ![mail[k].sub] = mail[k].user]
        /\ effects'[k] = Once(effects[k])
        /\ mail' = mail
    BY <1>4, <2>1, <2>2 DEF CreateAssociation, Types, TypeOK
  <2>4. effects[k] \in 0..Many /\ ~(effects[k] > 0)
    BY <1>2, <2>3 DEF Types, TypeOK
  <2>5. effects'[k] = 1
    BY <2>3, <2>4 DEF Once, Many
  <2> QED
    BY <2>2, <2>3, <2>5 DEF Types, TypeOK
<1> QED
  BY <1>3, <1>4

\* A link takes effect once, however concurrently it is posted, if no login is
\* removed.
THEOREM LinksWorkOnce == Spec => []LinksTakeEffectOnce
<1>1. Types /\ Effects /\ [Next]_vars => Types' /\ Effects'
  BY TypesStep, EffectsStep
<1>2. Spec => [](Types /\ Effects)
  BY TypesInit, EffectsInit, <1>1, PTL DEF Spec
<1>3. Effects => LinksTakeEffectOnce
  BY DEF Effects, LinksTakeEffectOnce
<1> QED
  BY <1>2, <1>3, PTL
-------------------------------------------------------------------------------
\* While the requests come one after the other at most one is in progress, and
\* the address that a registration found free stays free.
Serial ==
  env.serial =>
    /\ \A r, o \in Requests : ~At(r, "idle") /\ ~At(o, "idle") => r = o
    /\ \A r \in Requests : At(r, "create") => Holders(request[r].email) = {}

LEMMA SerialInit == Init => Serial
<1> SUFFICES ASSUME Init PROVE Serial
  OBVIOUS
<1>1. \A r \in Requests : At(r, "idle")
  BY DEF Init, Idle, At
<1> QED
  BY <1>1 DEF Serial, At

\* Steps that keep a request where it is, end it or let it go on from a step that
\* is not "idle" to one that is not "create", and that write no profile while another
\* request is registering one.
LEMMA SerialKept ==
  ASSUME Types, Serial, UNCHANGED env,
         \A r \in Requests : request'[r] # request[r] =>
           ~At(r, "create")' /\ (At(r, "idle") => At(r, "idle")'),
         UNCHANGED <<profile, others>> \/ \A r \in Requests : ~At(r, "create")'
  PROVE  Serial'
  BY DEF Serial, At, Holders

\* A request begins only when all are idle.
LEMMA SerialBegun ==
  ASSUME Types, env.serial, UNCHANGED <<profile, others>>, NEW r \in Requests, NEW q,
         GoTo(r, q), Arrives(r), q.at = "create" => Holders(q.email) = {}
  PROVE  Serial'
<1>1. \A o \in Requests : At(o, "idle")
  BY DEF Arrives, MayBegin
<1>2. request'[r] = q /\ \A o \in Requests \ {r} : At(o, "idle")'
  BY <1>1 DEF GoTo, At, Types, TypeOK
<1> QED
  BY <1>2 DEF Serial, At, Holders

\* A request that goes on or ends is the only one.
LEMMA SerialGoesOn ==
  ASSUME Types, Serial, env.serial, UNCHANGED env, NEW r \in Requests, ~At(r, "idle"),
         \A o \in Requests \ {r} : request'[o] = request[o],
         request'[r].at # "create"
  PROVE  Serial'
<1>1. \A o \in Requests \ {r} : At(o, "idle")
  BY DEF Serial
<1> QED
  BY <1>1 DEF Serial, At

LEMMA SerialEdits == ASSUME Types, Serial, env.serial, EditAddresses PROVE Serial'
<1>1. env' = env
  BY EditsEdit DEF Editing
<1>2. ASSUME NEW r \in Requests, NEW u \in Usernames, NEW primary, NEW secondary,
             Edit(r, u, primary, secondary)
      PROVE  Serial'
  BY <1>2, SerialBegun DEF Edit, tables
<1>3. ASSUME NEW r \in Requests, NEW k \in Links, OpenAddress(r, k) PROVE Serial'
  BY <1>3, SerialBegun DEF OpenAddress, tables
<1>4. ASSUME NEW r \in Requests, EditStep(r) PROVE Serial'
  <2>1. ~At(r, "idle") /\ request'[r].at # "create"
    BY <1>4, EditsEdit DEF EditAddresses, EditStep, SaveProfile, DropLink, At, Editing
  <2>2. \A o \in Requests \ {r} : request'[o] = request[o]
    BY <1>4 DEF EditStep, SaveProfile, DropLink, GoTo, Types, TypeOK
  <2> QED
    BY <1>1, <2>1, <2>2, SerialGoesOn
<1> QED
  BY <1>2, <1>3, <1>4 DEF EditAddresses, MakePrimary, RemoveAddress

LEMMA SerialStep ==
  ASSUME Types, Serial, [Next]_vars
  PROVE  Serial'
<1> SUFFICES ASSUME env.serial PROVE Serial'
  BY EnvStays DEF Serial
<1> USE EnvStays
<1>1. CASE \/ UNCHANGED vars
           \/ \E e \in Emails, s \in Subs : Associate(e, s)
           \/ \E v \in Usernames, e \in Emails : AskAddress(v, e)
           \/ \E s \in Subs : RemoveLogin(s)
           \/ \E k \in Secrets : Expire(k)
  <2>1. UNCHANGED <<profile, others, request>>
    BY <1>1 DEF Associate, AskAddress, RemoveLogin, Expire, vars, tables, history
  <2> QED
    BY <2>1, SerialKept
<1>2. ASSUME NEW r \in Requests, Begin(r) PROVE Serial'
  <2>1. Arrives(r) /\ UNCHANGED <<profile, others>>
    BY <1>2 DEF Begin, Register, Activate, Callback, tables
  <2>2. CASE \E u \in Usernames, e \in Emails, s \in Subs : Register(r, u, e, s)
    BY <2>1, <2>2, SerialBegun DEF Register
  <2>3. CASE \E k \in Secrets : Activate(r, k)
    BY <2>1, <2>3, SerialBegun DEF Activate
  <2>4. CASE \E s \in Subs, e \in Emails \cup {None} : Callback(r, s, e)
    BY <2>1, <2>4, SerialBegun DEF Callback
  <2> QED
    BY <1>2, <2>2, <2>3, <2>4 DEF Begin
<1>3. ASSUME NEW r \in Requests, Step(r) \/ Kill(r) PROVE Serial'
  <2>1. ~At(r, "idle")
    BY <1>3 DEF Step, CreateAccount, SaveLogin, CreateAssociation, DeleteVerification,
       Announce, Welcome, LogIn, Kill, At
  <2>2. \/ GoTo(r, Idle)
        \/ request[r].at \in Activation /\ \E w \in Activation : Advance(r, w)
    BY <1>3 DEF Step, CreateAccount, SaveLogin, CreateAssociation, DeleteVerification,
       Announce, Welcome, LogIn, Kill, At, Activation
  <2>3. /\ \A o \in Requests \ {r} : request'[o] = request[o]
        /\ request'[r].at # "create"
    BY <2>2, EndEffect, AdvanceEffect DEF Types, TypeOK, Activation
  <2> QED
    BY <2>1, <2>3, SerialGoesOn
<1> QED
  BY <1>1, <1>2, <1>3, SerialEdits DEF Next

\* Only a registration makes a profile, of the address that it has checked.
LEMMA MadeByRegistration ==
  ASSUME Types, [Next]_vars, NEW u \in Usernames, profile[u] = None, profile'[u] # None
  PROVE  \E r \in Requests : At(r, "create") /\ profile'[u] = request[r].email
<1>1. ASSUME NEW v \in Usernames, NEW primary, NEW secondary,
             WriteProfile(v, primary, secondary), profile[v] # None
      PROVE  FALSE
  BY <1>1 DEF WriteProfile, Types, TypeOK, Tables
<1>2. ASSUME NEW r \in Requests, SaveLogin(r) PROVE FALSE
  <2>1. request[r].user \in Usernames /\ profile[request[r].user] # None
    BY <1>2, Kinds DEF SaveLogin, At, Types, TypeOK, Rows
  <2>2. profile' # profile
    OBVIOUS
  <2> QED
    BY <1>1, <1>2, <2>1, <2>2 DEF SaveLogin
<1>3. ASSUME NEW r \in Requests, SaveProfile(r) PROVE FALSE
  <2>1. request[r].user \in Usernames /\ profile[request[r].user] # None
    BY <1>3, Kinds DEF SaveProfile, At, Types, TypeOK, Rows
  <2> QED
    BY <1>1, <1>3, <2>1 DEF SaveProfile
<1>4. ASSUME profile' = profile PROVE FALSE
  BY <1>4
<1>5. ASSUME NEW r \in Requests, CreateAccount(r)
      PROVE  At(r, "create") /\ profile'[u] = request[r].email
  <2>1. profile' = [profile EXCEPT ![request[r].user] = request[r].email]
    BY <1>4, <1>5 DEF CreateAccount
  <2> QED
    BY <1>5, <2>1 DEF CreateAccount, Types, TypeOK, Tables
<1>6. \/ \E r \in Requests : CreateAccount(r) \/ SaveLogin(r) \/ SaveProfile(r)
      \/ profile' = profile
  <2>1. ASSUME EditAddresses
        PROVE  (\E r \in Requests : SaveProfile(r)) \/ profile' = profile
    BY <2>1 DEF EditAddresses, EditStep, MakePrimary, RemoveAddress, Edit,
       OpenAddress, DropLink, tables
  <2>2. ASSUME NEW r \in Requests, Begin(r) \/ Kill(r) PROVE profile' = profile
    BY <2>2 DEF Begin, Register, Activate, Callback, Kill, tables
  <2>3. ASSUME NEW r \in Requests, Step(r)
        PROVE  CreateAccount(r) \/ SaveLogin(r) \/ profile' = profile
    BY <2>3 DEF Step, CreateAssociation, DeleteVerification, Announce, Welcome, LogIn, tables
  <2>4. ASSUME \/ UNCHANGED vars
               \/ \E e \in Emails, s \in Subs : Associate(e, s)
               \/ \E v \in Usernames, e \in Emails : AskAddress(v, e)
               \/ \E s \in Subs : RemoveLogin(s)
               \/ \E k \in Secrets : Expire(k)
        PROVE  profile' = profile
    BY <2>4 DEF Associate, AskAddress, RemoveLogin, Expire, vars, tables
  <2> QED
    BY <2>1, <2>2, <2>3, <2>4 DEF Next
<1> QED
  BY <1>2, <1>3, <1>4, <1>5, <1>6

\* The address that a profile is registered with (register) is nobody else's while the
\* requests come one after the other, for any number of profiles and addresses and however
\* they are edited.
THEOREM RegistrationsAreFree == Spec => RegisteredAddressesAreFree
<1>1. Types /\ Serial /\ [Next]_vars => Types' /\ Serial'
  BY TypesStep, SerialStep
<1>2. Spec => [](Types /\ Serial)
  BY TypesInit, SerialInit, <1>1, PTL DEF Spec
<1>3. Types /\ Serial /\ [Next]_vars =>
        [env.serial =>
           \A u \in Usernames :
             profile[u] = None /\ profile'[u] # None => Holders(profile'[u]) = {}]_vars
  BY MadeByRegistration DEF Serial
<1> QED
  BY <1>2, <1>3, PTL DEF Spec, RegisteredAddressesAreFree

\* An activation on its way to the welcome tasks.
Greeting(q) ==
  q.at = "welcome" \/ (q.at \in {"associate", "delete", "announce"} /\ q.new)

\* Whoever was welcomed has an association, and whoever is about to be welcomed
\* was not yet.
Welcoming ==
  env.serial /\ ~env.removals =>
    /\ \A u \in Usernames :
         /\ welcomes[u] <= 1
         /\ welcomes[u] > 0 => \E s \in Subs : linked[s] = u
    /\ \A r \in Requests :
         Greeting(request[r]) => welcomes[mail[request[r].secret].user] = 0

AllInv == Types /\ Confirmation /\ Effects /\ Serial /\ Welcoming

LEMMA WelcomingInit == Init => Welcoming
<1> SUFFICES ASSUME Init PROVE Welcoming
  OBVIOUS
<1>1. \A r \in Requests : ~Greeting(request[r])
  BY DEF Init, Idle, Greeting, Activation
<1> QED
  BY <1>1 DEF Init, Welcoming

\* The steps that welcome nobody: every request that is about to was so before,
\* from the same link, or has just found its profile without an association.
LEMMA WelcomingKept ==
  ASSUME AllInv, [Next]_vars, env.serial, ~env.removals, welcomes' = welcomes,
         \A r \in Requests : Greeting(request'[r]) =>
           \/ Greeting(request[r]) /\ request'[r].secret = request[r].secret
           \/ /\ request'[r].secret \in Secrets
              /\ mail[request'[r].secret] # None
              /\ \A s \in Subs : linked[s] # mail[request'[r].secret].user
  PROVE  Welcoming'
<1>1. Remembers /\ env' = env
  BY TypesStep, EnvStays DEF AllInv
<1>2. ASSUME NEW u \in Usernames, welcomes[u] > 0
      PROVE  \E s \in Subs : linked'[s] = u
  <2>1. PICK s \in Subs : linked[s] = u
    BY <1>2 DEF AllInv, Welcoming
  <2>2. linked[s] # None
    BY <2>1, AccountsAssumption
  <2> QED
    BY <2>1, <2>2, LinksStay DEF AllInv
<1>3. ASSUME NEW r \in Requests, Greeting(request'[r])
      PROVE  welcomes'[mail'[request'[r].secret].user] = 0
  <2> DEFINE k == request'[r].secret
  <2>1. CASE Greeting(request[r]) /\ k = request[r].secret
    <3>1. k \in Secrets /\ mail[k] # None
      BY <2>1, Opened DEF AllInv, Greeting, Activation
    <3>2. welcomes[mail[k].user] = 0
      BY <2>1 DEF AllInv, Welcoming
    <3> QED
      BY <1>1, <3>1, <3>2 DEF Remembers
  <2>2. CASE /\ k \in Secrets /\ mail[k] # None
             /\ \A s \in Subs : linked[s] # mail[k].user
    <3>1. mail[k].user \in Usernames
      BY <2>2 DEF AllInv, Types, TypeOK, Verifications
    <3>2. ~(welcomes[mail[k].user] > 0) /\ welcomes[mail[k].user] \in 0..Many
      BY <2>2, <3>1 DEF AllInv, Welcoming, Types, TypeOK
    <3> QED
      BY <1>1, <2>2, <3>2 DEF Remembers, Many
  <2> QED
    BY <1>3, <2>1, <2>2
<1> QED
  BY <1>1, <1>2, <1>3 DEF AllInv, Welcoming

LEMMA WelcomeWelcoming ==
  ASSUME AllInv, env.serial, ~env.removals, NEW r \in Requests, Welcome(r),
         welcomes' # welcomes
  PROVE  Welcoming'
<1> DEFINE k == request[r].secret
           u == mail[k].user
<1>1. /\ request[r].at \in Activation \ {"associate"}
      /\ k \in Secrets /\ mail[k] # None /\ u \in Usernames /\ mail[k].sub \in Subs
  BY Opened DEF AllInv, Welcome, At, Activation
<1>2. /\ UNCHANGED <<env, linked, mail>>
      /\ welcomes' = [welcomes EXCEPT ![u] = Once(@)]
  BY DEF Welcome, tables
<1>3. linked[mail[k].sub] = u
  BY <1>1 DEF AllInv, Confirmation, Effects
<1>4. Greeting(request[r]) /\ ~At(r, "idle")
  BY DEF Welcome, Greeting, At
<1>5. welcomes'[u] = 1 /\ \A v \in Usernames \ {u} : welcomes'[v] = welcomes[v]
  BY <1>1, <1>2, <1>4 DEF AllInv, Types, TypeOK, Welcoming, Once
<1>6. request'[r].at = "login" /\ \A o \in Requests \ {r} : request'[o] = request[o]
  BY <1>1, AdvanceEffect DEF Welcome, AllInv, Types, TypeOK, Activation
<1>7. \A o \in Requests : ~Greeting(request'[o])
  BY <1>4, <1>6 DEF AllInv, Serial, At, Greeting
<1> HIDE DEF k, u
<1>8. \A v \in Usernames :
        welcomes'[v] <= 1 /\ (welcomes'[v] > 0 => \E s \in Subs : linked'[s] = v)
  BY <1>1, <1>2, <1>3, <1>5 DEF AllInv, Welcoming
<1> QED
  BY <1>7, <1>8 DEF Welcoming

LEMMA WelcomingStep ==
  ASSUME AllInv, [Next]_vars
  PROVE  Welcoming'
<1> SUFFICES ASSUME env.serial, ~env.removals PROVE Welcoming'
  BY EnvStays DEF Welcoming
<1> DEFINE Goal ==
      /\ welcomes' = welcomes
      /\ \A r \in Requests : Greeting(request'[r]) =>
           \/ Greeting(request[r]) /\ request'[r].secret = request[r].secret
           \/ /\ request'[r].secret \in Secrets
              /\ mail[request'[r].secret] # None
              /\ \A s \in Subs : linked[s] # mail[request'[r].secret].user
<1>1. CASE \/ UNCHANGED vars
           \/ \E e \in Emails, s \in Subs : Associate(e, s)
           \/ \E v \in Usernames, e \in Emails : AskAddress(v, e)
           \/ \E s \in Subs : RemoveLogin(s)
           \/ \E k \in Secrets : Expire(k)
  <2>1. UNCHANGED <<welcomes, request>>
    BY <1>1 DEF Associate, AskAddress, RemoveLogin, Expire, vars, tables, history
  <2> QED
    BY <2>1, WelcomingKept
<1>2. ASSUME NEW r \in Requests, Begin(r) PROVE Goal
  <2>1. welcomes' = welcomes
    BY <1>2 DEF Begin, Register, Activate, Callback, history
  <2>2. CASE \E u \in Usernames, e \in Emails, s \in Subs : Register(r, u, e, s)
    <3>1. PICK u \in Usernames, e \in Emails, s \in Subs : Register(r, u, e, s)
      BY <2>2
    <3>2. PICK k \in Secrets :
            GoTo(r, [at |-> "create", user |-> u, email |-> e, sub |-> s, secret |-> k])
      BY <3>1 DEF Register
    <3>3. [at |-> "create", user |-> u, email |-> e, sub |-> s, secret |-> k] \in Locals
      BY DEF Locals
    <3>4. /\ request'[r].at = "create"
          /\ \A o \in Requests \ {r} : request'[o] = request[o]
      BY <3>2, <3>3, OthersSame DEF AllInv
    <3> QED
      BY <2>1, <3>4 DEF Greeting
  <2>3. CASE \E s \in Subs, e \in Emails \cup {None} : Callback(r, s, e)
    <3>1. request'[r].at = "save" /\ \A o \in Requests \ {r} : request'[o] = request[o]
      BY <2>3 DEF Callback, GoTo, AllInv, Types, TypeOK
    <3> QED
      BY <2>1, <3>1 DEF Greeting
  <2>4. CASE \E k \in Secrets : Activate(r, k)
    <3>1. PICK k \in Secrets : Activate(r, k)
      BY <2>4
    <3> DEFINE new == \A s \in Subs : linked[s] # mail[k].user
               q == [at |-> "associate", secret |-> k, new |-> new]
    <3>2. GoTo(r, q) /\ mail[k] # None /\ new \in BOOLEAN
      BY <3>1 DEF Activate
    <3> HIDE DEF new
    <3>3. q \in Locals /\ q.secret = k /\ q.new = new /\ q.at = "associate"
      BY <3>2 DEF Locals, Activation
    <3> HIDE DEF q
    <3>4. /\ request'[r] = q
          /\ \A o \in Requests \ {r} : request'[o] = request[o]
      BY <3>2, <3>3, OthersSame DEF AllInv
    <3>5. Greeting(q) => \A s \in Subs : linked[s] # mail[k].user
      BY <3>3 DEF Greeting, new
    <3> QED
      BY <2>1, <3>2, <3>3, <3>4, <3>5
  <2> QED
    BY <1>2, <2>2, <2>3, <2>4 DEF Begin
<1>3. ASSUME NEW r \in Requests,
             (Step(r) /\ (Welcome(r) => welcomes' = welcomes)) \/ Kill(r)
      PROVE  Goal
  <2>1. welcomes' = welcomes
    BY <1>3 DEF Step, CreateAccount, SaveLogin, CreateAssociation, DeleteVerification,
       Announce, LogIn, Kill, history
  <2>2. CASE GoTo(r, Idle)
    <3>1. request'[r].at = "idle" /\ \A o \in Requests \ {r} : request'[o] = request[o]
      BY <2>2, EndEffect DEF AllInv
    <3> QED
      BY <2>1, <3>1 DEF Greeting
  <2>3. CASE ~GoTo(r, Idle)
    <3>1. \/ request[r].at = "associate" /\ Advance(r, "delete")
          \/ request[r].at = "delete" /\ Advance(r, "announce")
          \/ /\ request[r].at = "announce"
             /\ Advance(r, IF request[r].new THEN "welcome" ELSE "login")
          \/ request[r].at = "welcome" /\ Advance(r, "login")
      BY <1>3, <2>3 DEF Step, CreateAccount, SaveLogin, CreateAssociation,
         DeleteVerification, Announce, Welcome, LogIn, Kill, At
    <3>2. PICK w \in {"delete", "announce", "welcome", "login"} :
            /\ Advance(r, w)
            /\ request[r].at \in {"associate", "delete", "announce", "welcome"}
            /\ w \in {"delete", "announce"} => request[r].at \in {"associate", "delete"}
            /\ w = "welcome" => request[r].at = "announce" /\ request[r].new
      BY <3>1
    <3>3. /\ request'[r].at = w /\ request'[r].secret = request[r].secret
          /\ request'[r].new = request[r].new
          /\ \A o \in Requests \ {r} : request'[o] = request[o]
      BY <3>2, AdvanceEffect DEF AllInv, Types, TypeOK, Activation
    <3> QED
      BY <2>1, <3>2, <3>3 DEF Greeting
  <2> QED
    BY <2>2, <2>3
<1>4. ASSUME Goal PROVE Welcoming'
  BY <1>4, WelcomingKept
<1> HIDE DEF Goal
<1>5. CASE \E r \in Requests : Begin(r) \/ Step(r) \/ Kill(r)
  BY <1>2, <1>3, <1>4, <1>5, WelcomeWelcoming
<1>6. CASE EditAddresses
  <2>1. Editing
    BY <1>6, EditsEdit DEF AllInv
  <2>2. \A r \in Requests : Greeting(request'[r]) => request'[r] = request[r]
    BY <2>1 DEF Editing, Greeting
  <2> QED
    BY <2>1, <2>2, WelcomingKept DEF Editing
<1> QED
  BY <1>1, <1>5, <1>6 DEF Next

\* A profile gets the welcome tasks once, if the requests come one after the
\* other and no login is removed.
THEOREM WelcomesOnce == Spec => []WelcomedOnce
<1>1. Init => AllInv
  BY TypesInit, ConfirmationInit, EffectsInit, SerialInit, WelcomingInit DEF AllInv
<1>2. AllInv /\ [Next]_vars => AllInv'
  BY TypesStep, ConfirmationStep, EffectsStep, SerialStep, WelcomingStep DEF AllInv
<1>3. AllInv => WelcomedOnce
  BY DEF AllInv, Welcoming, WelcomedOnce
<1> QED
  BY <1>1, <1>2, <1>3, PTL DEF Spec

\* While the requests come one after the other a profile is registered with an address
\* that nobody else has, and if no login is removed it is welcomed once.
THEOREM NothingDoubled == Spec => NothingIsDoubled
  BY RegistrationsAreFree, WelcomesOnce, PTL DEF NothingIsDoubled
-------------------------------------------------------------------------------
\* While the requests come one after the other, the link of an activation stays
\* good until it has taken effect, and the login of a callback stays linked.
StillGood ==
  env.serial =>
    \A r \in Requests :
      /\ At(r, "associate") => mail[request[r].secret].state # "deleted"
      /\ At(r, "save") => linked[request[r].sub] = request[r].user

LEMMA StillGoodInit == Init => StillGood
  BY DEF Init, StillGood, At, Idle

\* Steps of a request that neither begin an activation nor a callback: no other
\* request is at work.
LEMMA StillGoodAlone ==
  ASSUME env.serial, Serial, UNCHANGED env, NEW r \in Requests, ~At(r, "idle"),
         ~At(r, "associate")', ~At(r, "save")',
         \A o \in Requests \ {r} : request'[o] = request[o]
  PROVE  StillGood'
<1>1. \A o \in Requests \ {r} : At(o, "idle")'
  BY DEF Serial, At
<1> QED
  BY <1>1 DEF StillGood, At

LEMMA StillGoodBegin ==
  ASSUME Types, env.serial, NEW r \in Requests, Begin(r)
  PROVE  StillGood'
<1>1. /\ \A o \in Requests : At(o, "idle")
      /\ UNCHANGED <<linked, mail>>
  BY DEF Begin, Register, Activate, Callback, Arrives, MayBegin, tables
<1>2. ASSUME NEW q, GoTo(r, q)
      PROVE  request'[r] = q /\ \A o \in Requests \ {r} : At(o, "idle")'
  BY <1>1, <1>2 DEF GoTo, At, Types, TypeOK
<1>3. CASE \E u \in Usernames, e \in Emails, s \in Subs : Register(r, u, e, s)
  <2>1. \A o \in Requests : ~At(o, "associate")' /\ ~At(o, "save")'
    BY <1>2, <1>3 DEF Register, At
  <2> QED
    BY <2>1 DEF StillGood
<1>4. CASE \E k \in Secrets : Activate(r, k)
  <2>1. PICK k \in Secrets : Activate(r, k)
    BY <1>4
  <2>2. /\ mail[k].state = "live" /\ At(r, "associate")' /\ request'[r].secret = k
        /\ \A o \in Requests \ {r} : At(o, "idle")'
    BY <1>2, <2>1 DEF Activate, At
  <2> QED
    BY <1>1, <2>2 DEF StillGood, At
<1>5. CASE \E s \in Subs, e \in Emails \cup {None} : Callback(r, s, e)
  <2>1. PICK s \in Subs, e \in Emails \cup {None} : Callback(r, s, e)
    BY <1>5
  <2>2. /\ At(r, "save")' /\ request'[r].sub = s /\ request'[r].user = linked[s]
        /\ \A o \in Requests \ {r} : At(o, "idle")'
    BY <1>2, <2>1 DEF Callback, At
  <2> QED
    BY <1>1, <2>2 DEF StillGood, At
<1> QED
  BY <1>3, <1>4, <1>5 DEF Begin

LEMMA StillGoodStep ==
  ASSUME Types, Serial, StillGood, [Next]_vars
  PROVE  StillGood'
<1> SUFFICES ASSUME env.serial PROVE StillGood'
  BY EnvStays DEF StillGood
<1> USE EnvStays
<1>1. ASSUME NEW r \in Requests, Begin(r) PROVE StillGood'
  BY <1>1, StillGoodBegin
<1>2. ASSUME NEW r \in Requests, Step(r) \/ Kill(r) PROVE StillGood'
  <2>1. ~At(r, "idle")
    BY <1>2 DEF Step, CreateAccount, SaveLogin, CreateAssociation, DeleteVerification,
       Announce, Welcome, LogIn, Kill, At
  <2>2. \/ GoTo(r, Idle)
        \/ request[r].at \in Activation /\ \E w \in Activation \ {"associate"} : Advance(r, w)
    BY <1>2 DEF Step, CreateAccount, SaveLogin, CreateAssociation, DeleteVerification,
       Announce, Welcome, LogIn, Kill, At, Activation
  <2>3. /\ \A o \in Requests \ {r} : request'[o] = request[o]
        /\ request'[r].at \notin {"associate", "save"}
    BY <2>2, EndEffect, AdvanceEffect DEF Types, TypeOK, Activation
  <2> QED
    BY <2>1, <2>3, StillGoodAlone DEF At
<1>3. CASE \/ \E e \in Emails, s \in Subs : Associate(e, s)
           \/ \E v \in Usernames, e \in Emails : AskAddress(v, e)
           \/ \E s \in Subs : RemoveLogin(s)
  <2>1. request' = request /\ \A o \in Requests : At(o, "idle")
    BY <1>3 DEF Associate, AskAddress, RemoveLogin, MayBegin
  <2> QED
    BY <2>1 DEF StillGood, At
<1>4. ASSUME NEW k \in Secrets, Expire(k) PROVE StillGood'
  <2>1. /\ UNCHANGED <<request, linked>>
        /\ mail' = [mail EXCEPT ![k].state = "expired"]
    BY <1>4 DEF Expire, tables
  <2>2. ASSUME NEW r \in Requests, At(r, "associate"),
               mail[request[r].secret].state # "deleted"
        PROVE  mail'[request[r].secret].state # "deleted"
    <3>1. request[r].secret \in Secrets /\ mail[request[r].secret] \in Verifications
      BY <2>2, Opened DEF At, Activation
    <3> QED
      BY <2>1, <2>2, <3>1 DEF Types, TypeOK, Verifications
  <2> QED
    BY <2>1, <2>2 DEF StillGood, At
<1>5. CASE UNCHANGED vars
  BY <1>5 DEF vars, tables, StillGood, At
<1>6. CASE EditAddresses
  BY <1>6, EditsEdit DEF Editing, StillGood, At
<1> QED
  BY <1>1, <1>2, <1>3, <1>4, <1>5, <1>6 DEF Next

\* A sub gets an association by an activation only: a callback finds its own.
LEMMA LinkedByActivation ==
  ASSUME Types, StillGood, env.serial, [Next]_vars,
         NEW s \in Subs, linked[s] = None, linked'[s] # None
  PROVE  \E k \in Secrets :
           /\ mail[k] # None /\ mail[k].state # "deleted"
           /\ mail[k].sub = s /\ mail[k].user = linked'[s]
<1>1. PICK r \in Requests : SaveLogin(r) \/ CreateAssociation(r)
  <2>1. linked' # linked /\ ~(\E x \in Subs : RemoveLogin(x)) /\ ~EditAddresses
    BY EditsEdit DEF Editing, RemoveLogin, Types, TypeOK
  <2> QED
    BY <2>1 DEF Next, Begin, Step, Kill, vars, tables, Register, Activate, Callback, Associate,
       AskAddress, Expire, CreateAccount, DeleteVerification, Announce, Welcome, LogIn
<1>2. CASE SaveLogin(r)
  <2>1. /\ request[r].sub \in Subs /\ request[r].user \in Usernames
        /\ linked[request[r].sub] = request[r].user
    BY <1>2, Kinds DEF SaveLogin, At, Types, TypeOK, StillGood
  <2>2. linked' = linked
    BY <1>2, <2>1 DEF SaveLogin, Types, TypeOK
  <2> QED
    BY <2>2
<1>3. CASE CreateAssociation(r)
  <2> DEFINE k == request[r].secret
  <2>1. k \in Secrets /\ mail[k] # None /\ mail[k].sub \in Subs /\ mail[k].state # "deleted"
    BY <1>3, Opened DEF CreateAssociation, At, Activation, StillGood
  <2>2. linked' = [linked EXCEPT ![mail[k].sub] = mail[k].user]
    BY <1>3 DEF CreateAssociation
  <2>3. s = mail[k].sub /\ linked'[s] = mail[k].user
    BY <2>1, <2>2 DEF Types, TypeOK
  <2> QED
    BY <2>1, <2>3
<1> QED
  BY <1>1, <1>2, <1>3

\* A login that its owner removed (manage_login) comes back only by a link that is
\* still good, for any number of profiles, links and requests that come one after
\* the other, whichever workers are killed.
THEOREM RemovedStayRemoved == Spec => RemovedLoginsStayRemoved
<1>1. Types /\ Serial /\ StillGood /\ [Next]_vars => Types' /\ Serial' /\ StillGood'
  BY TypesStep, SerialStep, StillGoodStep
<1>2. Spec => [](Types /\ Serial /\ StillGood)
  BY TypesInit, SerialInit, StillGoodInit, <1>1, PTL DEF Spec
<1>3. Types /\ StillGood /\ [Next]_vars =>
        [env.serial =>
           \A s \in Subs : linked[s] = None /\ linked'[s] # None =>
             \E k \in Secrets :
               /\ mail[k] # None /\ mail[k].state # "deleted"
               /\ mail[k].sub = s /\ mail[k].user = linked'[s]]_vars
  BY LinkedByActivation
<1> QED
  BY <1>2, <1>3, PTL DEF Spec, RemovedLoginsStayRemoved

-------------------------------------------------------------------------------
\* What is told and who is welcomed, or will be by a request.
Told(s, u) == <<s, u>> \in told \/ \E r \in Requests : Tells(r, s, u)
Greeted(u) == welcomes[u] > 0 \/ \E r \in Requests : Greets(r, u)

\* Beyond the associations: a callback may make one again that was removed meanwhile, and
\* an activation that found its profile associated leaves the welcome to another.
Owed(s, u) ==
  \/ linked[s] = u
  \/ \E r \in Requests : At(r, "save") /\ request[r].sub = s /\ request[r].user = u

Trusts(r, u) ==
  At(r, "associate") /\ ~request[r].new /\ mail[request[r].secret].user = u

Promised ==
  ~env.kills /\ ~env.outages =>
    \A s \in Subs, u \in Usernames :
      /\ Owed(s, u) => Told(s, u) /\ Greeted(u)
      /\ \A r \in Requests : Trusts(r, u) => Greeted(u)

LEMMA PromisedInit == Init => Promised
<1> SUFFICES ASSUME Init PROVE Promised
  OBVIOUS
<1>1. \A r \in Requests : ~At(r, "save") /\ ~At(r, "associate")
  BY DEF Init, Idle, At
<1>2. \A s \in Subs : linked[s] = None
  BY DEF Init
<1>3. \A s \in Subs, u \in Usernames : linked[s] # u
  BY <1>2, AccountsAssumption
<1> QED
  BY <1>1, <1>3 DEF Promised, Owed, Trusts

\* Only its own steps change what an activation does.
LEMMA OwnSteps ==
  ASSUME Types, [Next]_vars, ~env.kills, NEW r \in Requests, request[r].at \in Activation
  PROVE  \/ request'[r] = request[r]
         \/ CreateAssociation(r) \/ DeleteVerification(r) \/ Announce(r) \/ Welcome(r)
         \/ LogIn(r)
<1>1. CASE \/ UNCHANGED vars
           \/ \E e \in Emails, s \in Subs : Associate(e, s)
           \/ \E v \in Usernames, e \in Emails : AskAddress(v, e)
           \/ \E s \in Subs : RemoveLogin(s)
           \/ \E k \in Secrets : Expire(k)
  BY <1>1 DEF Associate, AskAddress, RemoveLogin, Expire, vars, tables
<1>2. ASSUME NEW o \in Requests, Begin(o) PROVE request'[r] = request[r]
  <2>1. o # r
    BY <1>2 DEF Begin, Register, Activate, Callback, Arrives, At, Activation
  <2> QED
    BY <1>2, <2>1 DEF Begin, Register, Activate, Callback, GoTo, Types, TypeOK
<1>3. ASSUME NEW o \in Requests, o # r, Step(o) PROVE request'[r] = request[r]
  BY <1>3 DEF Step, CreateAccount, SaveLogin, CreateAssociation, DeleteVerification,
     Announce, Welcome, LogIn, GoTo, Advance, Types, TypeOK
<1>4. ASSUME Step(r)
      PROVE  \/ CreateAssociation(r) \/ DeleteVerification(r) \/ Announce(r) \/ Welcome(r)
             \/ LogIn(r)
  BY <1>4 DEF Step, CreateAccount, SaveLogin, At, Activation
<1>5. CASE EditAddresses
  BY <1>5, EditsEdit DEF Editing, Activation
<1> QED
  BY <1>1, <1>2, <1>3, <1>4, <1>5 DEF Next, Kill

\* Nothing that was told or given is taken back.
LEMMA NothingTakenBack ==
  ASSUME Types, [Next]_vars
  PROVE  told \subseteq told' /\ \A u \in Usernames : welcomes[u] > 0 => welcomes'[u] > 0
<1>1. ASSUME NEW r \in Requests, Welcome(r)
      PROVE  told' = told /\ \A u \in Usernames : welcomes[u] > 0 => welcomes'[u] > 0
  BY <1>1 DEF Welcome, Once, Many, Types, TypeOK
<1>2. ASSUME NEW r \in Requests, Announce(r)
      PROVE  told \subseteq told' /\ welcomes' = welcomes
  BY <1>2 DEF Announce
<1>3. ASSUME NEW r \in Requests,
             \/ Begin(r) \/ Kill(r) \/ CreateAccount(r) \/ SaveLogin(r)
             \/ CreateAssociation(r) \/ DeleteVerification(r) \/ LogIn(r)
      PROVE  UNCHANGED <<told, welcomes>>
  BY <1>3 DEF Begin, Register, Activate, Callback, Kill, CreateAccount, SaveLogin,
     CreateAssociation, DeleteVerification, LogIn, history
<1>4. CASE \/ UNCHANGED vars
           \/ \E e \in Emails, s \in Subs : Associate(e, s)
           \/ \E v \in Usernames, e \in Emails : AskAddress(v, e)
           \/ \E s \in Subs : RemoveLogin(s)
           \/ \E k \in Secrets : Expire(k)
  BY <1>4 DEF Associate, AskAddress, RemoveLogin, Expire, vars, history
<1>5. CASE EditAddresses
  BY <1>5, EditsEdit DEF Editing
<1> QED
  BY <1>1, <1>2, <1>3, <1>4, <1>5 DEF Next, Step

\* An activation on its way, before a step and after it.
LEMMA ActivationGoesOn ==
  ASSUME Types, [Next]_vars, ~env.kills, ~env.outages,
         NEW r \in Requests, request[r].at \in {"delete", "announce", "welcome"}
  PROVE  LET k == request[r].secret IN
         /\ \/ /\ request'[r].at = request[r].at
               /\ request'[r].secret = k /\ request'[r].new = request[r].new
            \/ /\ request[r].at = "delete" /\ request'[r].at = "announce"
               /\ request'[r].secret = k /\ request'[r].new = request[r].new
            \/ /\ request[r].at = "announce" /\ <<mail[k].sub, mail[k].user>> \in told'
               /\ request[r].new => /\ request'[r].at = "welcome" /\ request'[r].new
                                    /\ request'[r].secret = k
            \/ request[r].at = "welcome" /\ welcomes'[mail[k].user] > 0
         /\ mail'[k].sub = mail[k].sub /\ mail'[k].user = mail[k].user
<1> DEFINE k == request[r].secret
<1>1. request[r].at \in Activation /\ k \in Secrets /\ mail[k] # None
      /\ mail[k].user \in Usernames /\ request \in [Requests -> Locals]
  BY Opened DEF Activation, Types, TypeOK
<1>2. mail'[k].sub = mail[k].sub /\ mail'[k].user = mail[k].user
  BY <1>1, TypesStep DEF Remembers
<1>3. CASE request'[r] = request[r]
  BY <1>2, <1>3
<1>4. CASE DeleteVerification(r)
  BY <1>1, <1>2, <1>4, AdvanceEffect DEF DeleteVerification, At, Activation
<1>5. CASE Announce(r)
  <2>1. told' = told \cup {<<mail[k].sub, mail[k].user>>} /\ request[r].at = "announce"
    BY <1>5 DEF Announce, At
  <2>2. ASSUME request[r].new
        PROVE  request'[r].at = "welcome" /\ request'[r].new /\ request'[r].secret = k
    BY <1>1, <1>5, <2>2, AdvanceEffect DEF Announce, Activation
  <2> QED
    BY <1>2, <2>1, <2>2
<1>6. CASE Welcome(r)
  <2>1. welcomes' = [welcomes EXCEPT ![mail[k].user] = Once(welcomes[mail[k].user])]
        /\ request[r].at = "welcome"
    BY <1>6 DEF Welcome, At
  <2>2. welcomes'[mail[k].user] = Once(welcomes[mail[k].user])
    BY <1>1, <2>1 DEF Types, TypeOK
  <2>3. welcomes'[mail[k].user] > 0
    BY <2>2 DEF Once, Many
  <2> QED
    BY <1>2, <2>1, <2>3
<1>7. CASE CreateAssociation(r) \/ LogIn(r)
  BY <1>7 DEF CreateAssociation, LogIn, At
<1> HIDE DEF k
<1> QED
  BY <1>1, <1>3, <1>4, <1>5, <1>6, <1>7, OwnSteps DEF k

\* What is told or will be stays so.
LEMMA ToldStays ==
  ASSUME Types, [Next]_vars, ~env.kills, ~env.outages, NEW s, NEW u, Told(s, u)
  PROVE  Told(s, u)'
<1>1. CASE <<s, u>> \in told
  BY <1>1, NothingTakenBack DEF Told
<1>2. ASSUME NEW r \in Requests, Tells(r, s, u) PROVE Told(s, u)'
  <2>1. request[r].at \in {"delete", "announce"}
        /\ mail[request[r].secret].sub = s /\ mail[request[r].secret].user = u
    BY <1>2 DEF Tells
  <2>2. Tells(r, s, u)' \/ <<s, u>> \in told'
    BY <2>1, ActivationGoesOn DEF Tells
  <2> QED
    BY <2>2 DEF Told
<1> QED
  BY <1>1, <1>2 DEF Told

\* Who is welcomed or will be stays so.
LEMMA GreetedStays ==
  ASSUME Types, [Next]_vars, ~env.kills, ~env.outages, NEW u \in Usernames, Greeted(u)
  PROVE  Greeted(u)'
<1>1. CASE welcomes[u] > 0
  BY <1>1, NothingTakenBack DEF Greeted
<1>2. ASSUME NEW r \in Requests, Greets(r, u) PROVE Greeted(u)'
  <2>1. request[r].at \in {"delete", "announce", "welcome"} /\ request[r].new
        /\ mail[request[r].secret].user = u
    BY <1>2 DEF Greets
  <2>2. Greets(r, u)' \/ welcomes'[u] > 0
    BY <2>1, ActivationGoesOn DEF Greets
  <2> QED
    BY <2>2 DEF Greeted
<1> QED
  BY <1>1, <1>2 DEF Greeted

\* Where an association comes from, or a callback that may make it again.
LEMMA OwedBefore ==
  ASSUME Types, [Next]_vars, NEW s \in Subs, NEW u \in Usernames, Owed(s, u)', ~Owed(s, u)
  PROVE  \E r \in Requests :
           /\ CreateAssociation(r) /\ request'[r].at = "delete"
           /\ mail[request[r].secret].sub = s /\ mail[request[r].secret].user = u
<1>1. CASE UNCHANGED vars
  BY <1>1 DEF vars, tables, Owed, At
<1>2. CASE \/ \E e \in Emails, x \in Subs : Associate(e, x)
           \/ \E v \in Usernames, e \in Emails : AskAddress(v, e)
           \/ \E k \in Secrets : Expire(k)
  BY <1>2 DEF Associate, AskAddress, Expire, tables, Owed, At
<1>3. ASSUME NEW x \in Subs, RemoveLogin(x) PROVE FALSE
  <2>1. request' = request /\ linked'[s] \in {linked[s], None}
    BY <1>3 DEF RemoveLogin, Types, TypeOK
  <2> QED
    BY <2>1, AccountsAssumption DEF Owed, At
<1>4. ASSUME NEW r \in Requests, request'[r].at # "save", linked' = linked,
             \A o \in Requests \ {r} : request'[o] = request[o]
      PROVE  FALSE
  BY <1>4 DEF Owed, At
<1>5. ASSUME NEW r \in Requests, Kill(r) \/ CreateAccount(r) \/ LogIn(r) PROVE FALSE
  <2>1. GoTo(r, Idle) /\ linked' = linked
    BY <1>5 DEF Kill, CreateAccount, LogIn, tables
  <2> QED
    BY <1>4, <2>1, EndEffect
<1>6. ASSUME NEW r \in Requests, NEW x \in Usernames, NEW e \in Emails, NEW y \in Subs,
             Register(r, x, e, y)
      PROVE  FALSE
  <2>1. PICK k \in Secrets :
          GoTo(r, [at |-> "create", user |-> x, email |-> e, sub |-> y, secret |-> k])
    BY <1>6 DEF Register
  <2>2. [at |-> "create", user |-> x, email |-> e, sub |-> y, secret |-> k] \in Locals
    BY DEF Locals
  <2>3. linked' = linked
    BY <1>6 DEF Register, tables
  <2> QED
    BY <1>4, <2>1, <2>2, <2>3, OthersSame
<1>7. ASSUME NEW r \in Requests, NEW k \in Secrets, Activate(r, k) PROVE FALSE
  <2> DEFINE new == \A x \in Subs : linked[x] # mail[k].user
             q == [at |-> "associate", secret |-> k, new |-> new]
  <2>1. GoTo(r, q) /\ new \in BOOLEAN /\ linked' = linked
    BY <1>7 DEF Activate, tables
  <2> HIDE DEF new
  <2>2. q \in Locals /\ q.at = "associate"
    BY <2>1 DEF Locals, Activation
  <2> HIDE DEF q
  <2> QED
    BY <1>4, <2>1, <2>2, OthersSame
<1>8. ASSUME NEW r \in Requests, NEW x \in Subs, NEW e \in Emails \cup {None},
             Callback(r, x, e)
      PROVE  FALSE
  <2> DEFINE q == [at |-> "save", user |-> linked[x], sub |-> x, email |-> e,
                   primary |-> profile[linked[x]], others |-> others[linked[x]]]
  <2>1. GoTo(r, q) /\ linked' = linked
    BY <1>8 DEF Callback, tables
  <2>2. request'[r] = q /\ \A o \in Requests \ {r} : request'[o] = request[o]
    BY <1>8 DEF Callback, GoTo, Types, TypeOK
  <2>3. q.sub = x /\ q.user = linked[x]
    OBVIOUS
  <2> HIDE DEF q
  <2> QED
    BY <2>1, <2>2, <2>3 DEF Owed, At
<1>9. ASSUME NEW r \in Requests, SaveLogin(r) PROVE FALSE
  <2>1. At(r, "save") /\ GoTo(r, Idle)
        /\ \/ linked' = [linked EXCEPT ![request[r].sub] = request[r].user]
           \/ linked' = linked
    BY <1>9 DEF SaveLogin
  <2>2. /\ request'[r].at = "idle"
        /\ \A o \in Requests \ {r} : request'[o] = request[o]
    BY <2>1, EndEffect
  <2>3. linked'[s] = linked[s] \/ (request[r].sub = s /\ linked'[s] = request[r].user)
    BY <2>1 DEF Types, TypeOK
  <2> QED
    BY <2>1, <2>2, <2>3 DEF Owed, At
<1>10. ASSUME NEW r \in Requests, DeleteVerification(r) \/ Announce(r) \/ Welcome(r)
       PROVE  FALSE
  <2>1. PICK w \in {"announce", "welcome", "login"} : Advance(r, w)
    BY <1>10 DEF DeleteVerification, Announce, Welcome
  <2>2. request[r].at \in Activation /\ linked' = linked
    BY <1>10 DEF DeleteVerification, Announce, Welcome, At, Activation, tables
  <2>3. request'[r].at = w /\ \A o \in Requests \ {r} : request'[o] = request[o]
    BY <2>1, <2>2, AdvanceEffect DEF Types, TypeOK, Activation
  <2> QED
    BY <1>4, <2>2, <2>3
<1>11. ASSUME NEW r \in Requests, CreateAssociation(r)
       PROVE  /\ request'[r].at = "delete"
              /\ mail[request[r].secret].sub = s /\ mail[request[r].secret].user = u
  <2> DEFINE k == request[r].secret
  <2>1. request[r].at \in Activation /\ mail[k].sub \in Subs
    BY <1>11, Opened DEF CreateAssociation, At, Activation
  <2>2. CASE GoTo(r, Idle) /\ linked' = linked
    BY <1>4, <2>2, EndEffect
  <2>3. CASE Advance(r, "delete") /\ linked' = [linked EXCEPT ![mail[k].sub] = mail[k].user]
    <3>1. request'[r].at = "delete" /\ \A o \in Requests \ {r} : request'[o] = request[o]
      BY <2>1, <2>3, AdvanceEffect DEF Types, TypeOK, Activation
    <3>2. linked'[s] = u /\ linked[s] # u
      BY <3>1 DEF Owed, At
    <3>3. mail[k].sub = s /\ mail[k].user = u
      BY <2>1, <2>3, <3>2 DEF Types, TypeOK
    <3> QED
      BY <3>1, <3>3
  <2> HIDE DEF k
  <2> QED
    BY <1>11, <2>2, <2>3 DEF CreateAssociation, k
<1>12. ASSUME EditAddresses PROVE FALSE
  BY <1>12, EditsEdit DEF Editing, Owed, At
<1> QED
  BY <1>1, <1>2, <1>3, <1>5, <1>6, <1>7, <1>8, <1>9, <1>10, <1>11, <1>12 DEF Next, Begin, Step

\* An activation that is not taken for a registration has found an association.
LEMMA TrustsBefore ==
  ASSUME Types, [Next]_vars, NEW u \in Usernames, NEW r \in Requests,
         Trusts(r, u)', ~Trusts(r, u)
  PROVE  \E s \in Subs : linked[s] = u
<1>0. Remembers
  BY TypesStep
<1>1. request'[r].at = "associate" /\ request'[r] # request[r]
  <2>1. ASSUME request'[r] = request[r] PROVE FALSE
    <3>1. At(r, "associate") /\ request[r].at \in Activation
      BY <2>1 DEF Trusts, At, Activation
    <3>2. mail'[request[r].secret].user = mail[request[r].secret].user
      BY <1>0, <3>1, Opened DEF Remembers
    <3> QED
      BY <2>1, <3>2 DEF Trusts, At
  <2> QED
    BY <2>1 DEF Trusts, At
<1>2. PICK k \in Secrets : Activate(r, k)
  <2>1. ASSUME NEW o \in Requests, Step(o) \/ Kill(o) PROVE FALSE
    <3>1. CASE GoTo(o, Idle)
      BY <1>1, <3>1, EndEffect
    <3>2. CASE ~GoTo(o, Idle)
      <4>1. PICK w \in {"delete", "announce", "welcome", "login"} :
              Advance(o, w) /\ request[o].at \in Activation
        BY <2>1, <3>2 DEF Step, Kill, CreateAccount, SaveLogin, CreateAssociation,
           DeleteVerification, Announce, Welcome, LogIn, At, Activation
      <4>2. request'[o].at = w /\ \A x \in Requests \ {o} : request'[x] = request[x]
        BY <4>1, AdvanceEffect DEF Types, TypeOK, Activation
      <4> QED
        BY <1>1, <4>2
    <3> QED
      BY <3>1, <3>2
  <2>2. ASSUME \/ UNCHANGED vars
               \/ \E e \in Emails, s \in Subs : Associate(e, s)
               \/ \E v \in Usernames, e \in Emails : AskAddress(v, e)
               \/ \E s \in Subs : RemoveLogin(s)
               \/ \E k \in Secrets : Expire(k)
        PROVE  FALSE
    BY <1>1, <2>2 DEF Associate, AskAddress, RemoveLogin, Expire, vars
  <2>3. ASSUME NEW o \in Requests, Begin(o)
        PROVE  \E k \in Secrets : Activate(r, k)
    BY <1>1, <2>3 DEF Begin, Register, Callback, Activate, GoTo, Types, TypeOK
  <2>4. ASSUME EditAddresses PROVE FALSE
    BY <1>1, <2>4, EditsEdit DEF Editing
  <2> QED
    BY <2>1, <2>2, <2>3, <2>4 DEF Next
<1>3. mail[k] # None /\ mail'[k].user = mail[k].user
  BY <1>0, <1>2 DEF Activate, Remembers
<1> DEFINE new == \A x \in Subs : linked[x] # mail[k].user
<1>4. request'[r] = [at |-> "associate", secret |-> k, new |-> new]
  BY <1>2 DEF Activate, GoTo, Types, TypeOK
<1>5. ~new /\ mail[k].user = u
  BY <1>3, <1>4 DEF Trusts
<1> QED
  BY <1>5

LEMMA PromisedStep ==
  ASSUME Types, Promised, [Next]_vars
  PROVE  Promised'
<1> SUFFICES ASSUME ~env.kills, ~env.outages, NEW s \in Subs, NEW u \in Usernames
             PROVE  /\ Owed(s, u)' => Told(s, u)' /\ Greeted(u)'
                    /\ \A r \in Requests : Trusts(r, u)' => Greeted(u)'
  BY EnvStays DEF Promised
<1>1. ASSUME NEW r \in Requests, Trusts(r, u) PROVE Greeted(u)'
  BY <1>1, GreetedStays DEF Promised
<1>2. ASSUME NEW r \in Requests, Trusts(r, u)', ~Trusts(r, u) PROVE Greeted(u)'
  <2>1. PICK x \in Subs : linked[x] = u
    BY <1>2, TrustsBefore
  <2>2. Greeted(u)
    BY <2>1 DEF Promised, Owed
  <2> QED
    BY <2>2, GreetedStays
<1>3. CASE Owed(s, u)
  BY <1>1, <1>2, <1>3, ToldStays, GreetedStays DEF Promised
<1>4. CASE Owed(s, u)' /\ ~Owed(s, u)
  <2>1. PICK r \in Requests :
          /\ CreateAssociation(r) /\ request'[r].at = "delete"
          /\ mail[request[r].secret].sub = s /\ mail[request[r].secret].user = u
    BY <1>4, OwedBefore
  <2> DEFINE k == request[r].secret
  <2>2. request[r].at = "associate" /\ request[r].at \in Activation /\ k \in Secrets
        /\ mail[k] # None
    BY <2>1, Opened DEF CreateAssociation, At, Activation
  <2>3. ~GoTo(r, Idle)
    BY <2>1, EndEffect
  <2>4. Advance(r, "delete") /\ mail' = mail
    BY <2>1, <2>3 DEF CreateAssociation
  <2>5. request'[r].secret = k /\ request'[r].new = request[r].new
    BY <2>2, <2>4, AdvanceEffect DEF Types, TypeOK, Activation
  <2>6. Tells(r, s, u)'
    BY <2>1, <2>4, <2>5 DEF Tells
  <2>7. CASE request[r].new
    <3>1. Greets(r, u)'
      BY <2>1, <2>4, <2>5, <2>7 DEF Greets
    <3> QED
      BY <1>1, <1>2, <2>6, <3>1 DEF Told, Greeted
  <2>8. CASE ~request[r].new
    <3>1. Trusts(r, u)
      BY <2>1, <2>2, <2>8 DEF Trusts, At
    <3> QED
      BY <1>1, <1>2, <2>6, <3>1 DEF Told
  <2> QED
    BY <2>7, <2>8
<1> QED
  BY <1>1, <1>2, <1>3, <1>4

\* What follows an association (activate: the message to the other applications, and the
\* tasks of a new registration) is never forgotten while no worker is killed and the other
\* services answer, for any number of profiles, subs, links and overlapping requests:
\* what is not done yet, a request is still to do.
THEOREM NobodyForgotten == Spec => []NobodyIsForgotten
<1>1. Types /\ Promised /\ [Next]_vars => Types' /\ Promised'
  BY TypesStep, PromisedStep
<1>2. Spec => [](Types /\ Promised)
  BY TypesInit, PromisedInit, <1>1, PTL DEF Spec
<1>3. Promised => NobodyIsForgotten
  BY DEF Promised, NobodyIsForgotten, Owed, Told, Greeted
<1> QED
  BY <1>2, <1>3, PTL
===============================================================================
