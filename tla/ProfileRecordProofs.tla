-------------------------- MODULE ProfileRecordProofs --------------------------
(***************************************************************************)
(* Proofs about ProfileRecord.  What a handler begins with is one lemma,   *)
(* so that each invariant is shown of one beginning, of the steps that     *)
(* follow it, and of the world.                                            *)
(***************************************************************************)
EXTENDS ProfileRecord, TLAPS

-------------------------------------------------------------------------------
(* Types.                                                                  *)

\* What env allows is what the constants allow.
LEMMA EnvTyped ==
  ASSUME env \in Environments
  PROVE  /\ env.users \subseteq Users /\ env.kinds \subseteq Kinds
         /\ env.asked \subseteq Partners
         /\ env.overlap \in {"none", "columns", "all"}
         /\ env.flaky \in BOOLEAN /\ env.threads \in BOOLEAN /\ env.kills \in BOOLEAN
  BY EnvironmentAssumption

\* A handler that is not idle carries the local variables of a request.
LEMMA BusyIsWork ==
  ASSUME TypeOK, NEW h \in Handlers, Busy(h)
  PROVE  handler[h] \in Work
  BY DEF TypeOK, Busy, At, Idle

\* What is loaded from a row.
LEMMA LoadedTyped ==
  ASSUME TypeOK, NEW u \in Users, NEW kind \in Kinds,
         NEW label \in {"save", "tell", "columns", "sync", "ask", "roles"}
  PROVE  Loaded(u, kind, label) \in Work
  BY DEF TypeOK, Loaded, Work

\* A sync begins with a typed state.
LEMMA SyncTyped ==
  ASSUME TypeOK, NEW w \in Work
  PROVE  Sync(w) \in Work
  BY EnvTyped DEF TypeOK, Sync, Work

\* What is known of a handler that begins: its copy has everything that the row
\* has but what it was asked to remove, and a sync has the partners before it.
Beginning(u, w) ==
  /\ w \in Work
  /\ w.user = u
  /\ w.at \in {"save", "columns", "sync"}
  /\ w.at = "columns" <=> w.kind \notin RowKinds
  /\ w.copy.member = row[u].member
  /\ Known(row[u]) \ w.drop \subseteq Known(w.copy)
  /\ row[u].overrides \ w.drop \subseteq w.copy.overrides
  /\ w.at # "save" => w.drop = {}
  /\ w.kind # "primary" => w.copy.email = row[u].email
  /\ w.kind = "primary" => w.at = "save"
  /\ w.at = "sync" => /\ w.left = env.asked /\ w.found = {}
                      /\ w.was = standing[u] /\ w.wasnt = Partners \ standing[u]

Begins(h, u, w) ==
  /\ ~Busy(h)
  /\ Beginning(u, w)
  /\ handler' = [handler EXCEPT ![h] = w]
  /\ UNCHANGED <<env, row, active, wordpress, standing, up>>
  /\ env.overlap = "none" => \A k \in Handlers : ~Busy(k)
  /\ env.overlap = "columns" /\ w.kind \in RowKinds => \A k \in Handlers : ~HasRow(k, u)

\* A Begin with such a state.
LEMMA BeginBegins ==
  ASSUME NEW h \in Handlers, NEW u \in Users, NEW kind, NEW w,
         Begin(h, u, kind, w), Beginning(u, w),
         kind \in RowKinds <=> w.kind \in RowKinds
  PROVE  Begins(h, u, w)
  BY DEF Begin, Begins, Admits, GoTo

\* A sync of what has just been loaded.
LEMMA SyncBeginning ==
  ASSUME TypeOK, NEW u \in Users, NEW v \in Work,
         v.user = u, v.kind \in RowKinds, v.kind # "primary",
         v.copy = row[u], v.drop = {}
  PROVE  Beginning(u, Sync(v)) /\ Sync(v).kind = v.kind
<1>1. Sync(v) \in Work
  BY SyncTyped
<1>2. LET w == Sync(v) IN
      /\ w.user = u /\ w.kind = v.kind /\ w.copy = row[u] /\ w.drop = {} /\ w.at = "sync"
      /\ w.left = env.asked /\ w.found = {}
      /\ w.was = standing[u] /\ w.wasnt = Partners \ standing[u]
  BY DEF Sync, Work
<1> QED
  BY <1>1, <1>2 DEF Beginning

\* Every request that begins, begins with such a state.
LEMMA WorkBegins ==
  ASSUME TypeOK, NEW h \in Handlers, NEW u \in Users, BeginWork(h, u)
  PROVE  \E w : Begins(h, u, w)
<1> USE DEF Kinds, RowKinds, ColumnKinds
<1>0. row[u] \in Row
  BY DEF TypeOK
<1>1. ASSUME NEW kind \in Kinds, NEW label \in {"save", "columns", "sync"}
      PROVE  LET v == Loaded(u, kind, label) IN
             /\ v \in Work /\ v.at = label /\ v.kind = kind /\ v.user = u
             /\ v.copy = row[u] /\ v.drop = {} /\ v.again = FALSE
  BY LoadedTyped DEF Loaded
<1>2. ASSUME NEW a \in Addresses, AddAddress(h, u, a)
      PROVE  \E w : Begins(h, u, w)
  <2> DEFINE v == Loaded(u, "add", "save")
             w == [v EXCEPT !.copy.emails = @ \cup {a}]
  <2>1. v \in Work /\ v.at = "save" /\ v.kind = "add" /\ v.user = u
        /\ v.copy = row[u] /\ v.drop = {}
    BY <1>1
  <2>2. Begin(h, u, "add", w)
    BY <1>2 DEF AddAddress
  <2> HIDE DEF v
  <2>3. w \in Work /\ w.at = "save" /\ w.kind = "add" /\ w.user = u /\ w.drop = {}
        /\ w.copy = [row[u] EXCEPT !.emails = @ \cup {a}]
    BY <2>1, <1>0 DEF Work, Row
  <2> HIDE DEF w
  <2>4. Beginning(u, w)
    BY <2>3, <1>0 DEF Beginning, Known, Row
  <2> QED
    BY <2>2, <2>3, <2>4, BeginBegins
<1>3. ASSUME NEW a \in Addresses, RemoveAddress(h, u, a)
      PROVE  \E w : Begins(h, u, w)
  <2> DEFINE v == Loaded(u, "remove", "save")
             w == [v EXCEPT !.copy.emails = @ \ {a}, !.drop = {a}]
  <2>1. v \in Work /\ v.at = "save" /\ v.kind = "remove" /\ v.user = u /\ v.copy = row[u]
    BY <1>1
  <2>2. Begin(h, u, "remove", w)
    BY <1>3 DEF RemoveAddress
  <2> HIDE DEF v
  <2>3. w \in Work /\ w.at = "save" /\ w.kind = "remove" /\ w.user = u /\ w.drop = {a}
        /\ w.copy = [row[u] EXCEPT !.emails = @ \ {a}]
    BY <2>1, <1>0 DEF Work, Row
  <2> HIDE DEF w
  <2>4. Beginning(u, w)
    BY <2>3, <1>0 DEF Beginning, Known, Row
  <2> QED
    BY <2>2, <2>3, <2>4, BeginBegins
<1>4. ASSUME NEW a \in Addresses, MakePrimary(h, u, a)
      PROVE  \E w : Begins(h, u, w)
  <2> DEFINE v == Loaded(u, "primary", "save")
             w == [v EXCEPT !.copy.emails = Known(row[u]) \ {a}, !.copy.email = a]
  <2>1. v \in Work /\ v.at = "save" /\ v.kind = "primary" /\ v.user = u
        /\ v.copy = row[u] /\ v.drop = {}
    BY <1>1
  <2>2. Begin(h, u, "primary", w)
    BY <1>4 DEF MakePrimary
  <2> HIDE DEF v
  <2>3. Known(row[u]) \subseteq Addresses
    BY <1>0 DEF Known, Row
  <2>4. w \in Work /\ w.at = "save" /\ w.kind = "primary" /\ w.user = u /\ w.drop = {}
        /\ w.copy = [row[u] EXCEPT !.emails = Known(row[u]) \ {a}, !.email = a]
    BY <2>1, <2>3, <1>0 DEF Work, Row
  <2> HIDE DEF w
  <2>5. Beginning(u, w)
    BY <2>4, <1>0 DEF Beginning, Known, Row
  <2> QED
    BY <2>2, <2>4, <2>5, BeginBegins
<1>5. ASSUME NEW a \in Addresses \cup {None}, Login(h, u, a)
      PROVE  \E w : Begins(h, u, w)
  <2>1. CASE a \in Addresses \ Known(row[u]) /\ a # None
    <3> DEFINE v == Loaded(u, "login", "save")
               w == [v EXCEPT !.copy.emails = @ \cup {a}]
    <3>1. v \in Work /\ v.at = "save" /\ v.kind = "login" /\ v.user = u
          /\ v.copy = row[u] /\ v.drop = {}
      BY <1>1
    <3>2. Begin(h, u, "login", w)
      BY <1>5, <2>1 DEF Login
    <3> HIDE DEF v
    <3>3. w \in Work /\ w.at = "save" /\ w.kind = "login" /\ w.user = u /\ w.drop = {}
          /\ w.copy = [row[u] EXCEPT !.emails = @ \cup {a}]
      BY <2>1, <3>1, <1>0 DEF Work, Row
    <3> HIDE DEF w
    <3>4. Beginning(u, w)
      BY <3>3, <1>0 DEF Beginning, Known, Row
    <3> QED
      BY <3>2, <3>3, <3>4, BeginBegins
  <2>2. CASE a \in {None} \cup Known(row[u])
    <3> DEFINE v == Loaded(u, "login", "save")
               w == Sync(v)
    <3>1. v \in Work /\ v.kind = "login" /\ v.user = u /\ v.copy = row[u] /\ v.drop = {}
      BY <1>1
    <3>2. Begin(h, u, "login", w)
      BY <1>5, <2>2 DEF Login
    <3> HIDE DEF v
    <3>3. Beginning(u, w) /\ w.kind = "login"
      BY <3>1, SyncBeginning
    <3> HIDE DEF w
    <3> QED
      BY <3>2, <3>3, BeginBegins
  <2> QED
    BY <2>1, <2>2
<1>6. ASSUME NEW n \in Networks, NEW kind \in {"network", "staff"}, ChangeNetworks(h, u, kind, n)
      PROVE  \E w : Begins(h, u, w)
  <2> DEFINE v == Loaded(u, kind, "save")
             w == [v EXCEPT !.copy.overrides = Toggle(@, n),
                            !.drop = row[u].overrides \cap {n}, !.again = (kind = "staff")]
  <2>1. v \in Work /\ v.at = "save" /\ v.kind = kind /\ v.user = u /\ v.copy = row[u]
    BY <1>1
  <2>2. Begin(h, u, kind, w)
    BY <1>6 DEF ChangeNetworks
  <2> HIDE DEF v
  <2>3. Toggle(row[u].overrides, n) \in SUBSET Networks
        /\ row[u].overrides \ (row[u].overrides \cap {n}) \subseteq Toggle(row[u].overrides, n)
    BY <1>0 DEF Toggle, Row
  <2>4. w \in Work /\ w.at = "save" /\ w.kind = kind /\ w.user = u
        /\ w.drop = row[u].overrides \cap {n}
        /\ w.copy = [row[u] EXCEPT !.overrides = Toggle(@, n)]
    BY <2>1, <2>3, <1>0 DEF Work, Row
  <2> HIDE DEF w
  <2>5. Beginning(u, w)
    BY <2>3, <2>4, <1>0 DEF Beginning, Known, Row
  <2> QED
    BY <2>2, <2>4, <2>5, BeginBegins
<1>7. ASSUME EditProfile(h, u)
      PROVE  \E w : Begins(h, u, w)
  <2> DEFINE w == Loaded(u, "form", "save")
  <2>1. w \in Work /\ w.at = "save" /\ w.kind = "form" /\ w.user = u
        /\ w.copy = row[u] /\ w.drop = {}
    BY <1>1
  <2>2. Begin(h, u, "form", w)
    BY <1>7 DEF EditProfile
  <2> HIDE DEF w
  <2>3. Beginning(u, w)
    BY <2>1 DEF Beginning
  <2> QED
    BY <2>1, <2>2, <2>3, BeginBegins
<1>8. ASSUME NEW kind \in {"staff", "sync"}, NEW w, Begin(h, u, kind, w),
             Beginning(u, w), w.kind = kind
      PROVE  \E x : Begins(h, u, x)
  BY <1>8, BeginBegins
<1>9. ASSUME ViewRoles(h, u)
      PROVE  \E w : Begins(h, u, w)
  <2> DEFINE v == Loaded(u, "staff", "sync")
             w == Sync([v EXCEPT !.again = TRUE])
  <2>1. Begin(h, u, "staff", w)
    BY <1>9 DEF ViewRoles
  <2>2. v \in Work /\ v.kind = "staff" /\ v.user = u /\ v.copy = row[u] /\ v.drop = {}
    BY <1>1
  <2> HIDE DEF v
  <2>3. [v EXCEPT !.again = TRUE] \in Work
        /\ LET x == [v EXCEPT !.again = TRUE] IN
           x.user = u /\ x.kind = "staff" /\ x.copy = row[u] /\ x.drop = {}
    BY <2>2 DEF Work
  <2>4. Beginning(u, w) /\ w.kind = "staff"
    BY <2>3, SyncBeginning
  <2> HIDE DEF w
  <2> QED
    BY <1>8, <2>1, <2>4
<1>10. ASSUME NEW cache \in BOOLEAN, BeginSync(h, u, cache)
       PROVE  \E w : Begins(h, u, w)
  <2> DEFINE v == Loaded(u, "sync", "sync")
             w == Sync(v)
  <2>1. Begin(h, u, "sync", w)
    BY <1>10 DEF BeginSync
  <2>2. v \in Work /\ v.user = u /\ v.kind = "sync" /\ v.copy = row[u] /\ v.drop = {}
    BY <1>1
  <2> HIDE DEF v
  <2>3. Beginning(u, w) /\ w.kind = "sync"
    BY <2>2, SyncBeginning
  <2> HIDE DEF w
  <2> QED
    BY <1>8, <2>1, <2>3
<1>11. ASSUME NEW n \in Networks, Enrol(h, u, n)
       PROVE  \E w : Begins(h, u, w)
  <2> DEFINE v == Loaded(u, "enrol", "columns")
             w == IF n \in row[u].overrides
                    THEN [v EXCEPT !.kind = "refresh"]
                    ELSE [v EXCEPT !.copy.overrides = @ \cup {n}]
  <2>1. v \in Work /\ v.at = "columns" /\ v.kind = "enrol" /\ v.user = u
        /\ v.copy = row[u] /\ v.drop = {}
    BY <1>1
  <2>2. Begin(h, u, "enrol", w)
    BY <1>11 DEF Enrol
  <2> HIDE DEF v
  <2>3. w \in Work /\ w.at = "columns" /\ w.kind \in ColumnKinds /\ w.user = u /\ w.drop = {}
        /\ w.copy \in {row[u], [row[u] EXCEPT !.overrides = @ \cup {n}]}
    BY <2>1, <1>0 DEF Work, Row
  <2> HIDE DEF w
  <2>4. Beginning(u, w)
    BY <2>3, <1>0 DEF Beginning, Known, Row
  <2> QED
    BY <2>2, <2>3, <2>4, BeginBegins
<1>12. ASSUME Refresh(h, u)
       PROVE  \E w : Begins(h, u, w)
  <2> DEFINE w == Loaded(u, "refresh", "columns")
  <2>1. w \in Work /\ w.at = "columns" /\ w.kind = "refresh" /\ w.user = u
        /\ w.copy = row[u] /\ w.drop = {}
    BY <1>1
  <2>2. Begin(h, u, "refresh", w)
    BY <1>12 DEF Refresh
  <2> HIDE DEF w
  <2>3. Beginning(u, w)
    BY <2>1 DEF Beginning
  <2> QED
    BY <2>1, <2>2, <2>3, BeginBegins
<1> QED
  BY <1>2, <1>3, <1>4, <1>5, <1>6, <1>7, <1>9, <1>10, <1>11, <1>12 DEF BeginWork

-------------------------------------------------------------------------------
(* Type correctness.                                                       *)

\* What a handler goes on with after the save of an edit.
LEMMA AfterSaveCases ==
  ASSUME TypeOK, NEW w \in Work
  PROVE  AfterSave(w) \in {Idle, [w EXCEPT !.at = "tell"], Sync(w)}
  BY DEF AfterSave

\* A handler that goes on after a save goes on with what it saved.
LEMMA AfterSaveGoesOn ==
  ASSUME TypeOK, NEW w \in Work
  PROVE  LET v == AfterSave(w) IN
         /\ v.at \in {"idle", "tell", "sync"}
         /\ v.at # "idle" => v.user = w.user /\ v.kind = w.kind /\ v.copy = w.copy
<1>1. CASE AfterSave(w) = Idle
  BY <1>1 DEF Idle
<1>2. CASE AfterSave(w) = [w EXCEPT !.at = "tell"]
  BY <1>2 DEF Work
<1>3. CASE AfterSave(w) = Sync(w)
  BY <1>3 DEF Sync, Work
<1> QED
  BY <1>1, <1>2, <1>3, AfterSaveCases

\* What it goes on with is typed.
LEMMA AfterSaveTyped ==
  ASSUME TypeOK, NEW w \in Work
  PROVE  AfterSave(w) \in {Idle} \cup Work
<1>1. [w EXCEPT !.at = "tell"] \in Work
  BY DEF Work
<1> QED
  BY <1>1, SyncTyped, AfterSaveCases

\* A handler that asks a partner has yet to ask it, and asks only those of env.
Asking(w) ==
  w.at \in {"sync", "ask", "roles"} => /\ w.left \subseteq env.asked
                                       /\ w.at # "sync" => w.partner \in w.left

Types == TypeOK /\ \A h \in Handlers : Asking(handler[h])

\* A person's standing changes: the syncs of the person take note of it.
Noted(u, now, h) ==
  IF handler[h].at \in {"sync", "ask", "roles"} /\ handler[h].user = u
    THEN [handler[h] EXCEPT !.was = @ \cup now, !.wasnt = @ \cup (Partners \ now)]
    ELSE handler[h]

\* The threads that hear the answer to a search of h, and what it leaves them with.
Hears(h, p, k) ==
  k # h /\ env.threads /\ p \in Shared /\ p \in up /\ At(k, "ask") /\ handler[k].partner = p

Searched(h, p, hit, k) ==
  LET member == p \in standing[handler[h].user] IN
  IF k = h
    THEN [handler[h] EXCEPT !.at = IF hit THEN "ask" ELSE "roles", !.partner = p,
                            !.answer = hit /\ member /\ p \in Shared]
  ELSE IF Hears(h, p, k) THEN [handler[k] EXCEPT !.answer = member]
  ELSE handler[k]

\* A search with its effect on each handler spelled out.
LEMMA SearchStep ==
  ASSUME NEW h \in Handlers, NEW p \in Partners, Search(h, p)
  PROVE  \E hit \in BOOLEAN :
           /\ hit => p \in up
           /\ p \in up /\ p \in standing[handler[h].user] => hit
           /\ handler' = [k \in Handlers |-> Searched(h, p, hit, k)]
  BY DEF Search, Searched, Hears

\* Types are preserved by every step.
LEMMA TypesPreserved ==
  ASSUME Types, [Next]_vars
  PROVE  TypeOK'
<1> USE DEF Types, TypeOK
<1>1. ASSUME NEW h \in Handlers, NEW u \in Users, BeginWork(h, u)
      PROVE  TypeOK'
  <2>1. PICK w : Begins(h, u, w)
    BY <1>1, WorkBegins
  <2> QED
    BY <2>1 DEF Begins, Beginning
<1>2. ASSUME NEW h \in Handlers, Save(h)
      PROVE  TypeOK'
  <2>1. handler[h] \in Work
    BY <1>2, BusyIsWork DEF Save, Busy, At
  <2>2. AfterSave(handler[h]) \in {Idle} \cup Work
    BY <2>1, AfterSaveTyped
  <2>3. handler[h].copy \in Row /\ handler[h].user \in Users
    BY <2>1 DEF Work
  <2> QED
    BY <1>2, <2>2, <2>3 DEF Save, GoTo
<1>3. ASSUME NEW h \in Handlers, Tell(h)
      PROVE  TypeOK'
  <2>1. handler[h] \in Work
    BY <1>3, BusyIsWork DEF Tell, Busy, At
  <2>2. handler[h].copy.email \in Addresses /\ handler[h].user \in Users
    BY <2>1 DEF Work, Row
  <2> QED
    BY <1>3, <2>2 DEF Tell, GoTo
<1>4. ASSUME NEW h \in Handlers, SaveColumns(h)
      PROVE  TypeOK'
  <2>1. handler[h] \in Work
    BY <1>4, BusyIsWork DEF SaveColumns, Busy, At
  <2>2. handler[h].copy \in Row /\ handler[h].user \in Users
    BY <2>1 DEF Work
  <2>3. row' \in [Users -> Row]
    BY <1>4, <2>2 DEF SaveColumns, Row
  <2> QED
    BY <1>4, <2>3 DEF SaveColumns, GoTo
<1>5. ASSUME NEW h \in Handlers, NEW p \in Partners, Search(h, p)
      PROVE  TypeOK'
  <2>1. handler[h] \in Work
    BY <1>5, BusyIsWork DEF Search, Busy, At
  <2>2. \A at \in {"ask", "roles"}, b \in BOOLEAN :
           [handler[h] EXCEPT !.at = at, !.partner = p, !.answer = b] \in Work
    BY <2>1 DEF Work
  <2>3. \A k \in Handlers, b \in BOOLEAN :
           At(k, "ask") => [handler[k] EXCEPT !.answer = b] \in Work
    BY BusyIsWork DEF Work, Busy, At
  <2>4. handler[h].user \in Users
    BY <2>1 DEF Work
  <2>5. PICK hit \in BOOLEAN : handler' = [k \in Handlers |-> Searched(h, p, hit, k)]
    BY <1>5, SearchStep
  <2>6. \A k \in Handlers : Searched(h, p, hit, k) \in {Idle} \cup Work
    <3> TAKE k \in Handlers
    <3>1. (p \in standing[handler[h].user]) \in BOOLEAN
          /\ (hit /\ p \in standing[handler[h].user] /\ p \in Shared) \in BOOLEAN
      OBVIOUS
    <3>2. handler[k] \in {Idle} \cup Work
      OBVIOUS
    <3> HIDE DEF Types, TypeOK
    <3>3. CASE k = h
      BY <2>2, <3>1, <3>3 DEF Searched
    <3>4. CASE k # h /\ Hears(h, p, k)
      BY <2>3, <3>1, <3>4 DEF Searched, Hears
    <3>5. CASE k # h /\ ~Hears(h, p, k)
      BY <3>2, <3>5 DEF Searched
    <3> QED
      BY <3>3, <3>4, <3>5
  <2>7. handler' \in [Handlers -> {Idle} \cup Work]
    <3> HIDE DEF Types, TypeOK
    <3> QED
      BY <2>5, <2>6
  <2> QED
    BY <1>5, <2>7 DEF Search
<1>6. ASSUME NEW h \in Handlers, Ask(h)
      PROVE  TypeOK'
  <2>1. handler[h] \in Work
    BY <1>6, BusyIsWork DEF Ask, Busy, At
  <2>2. \A b \in BOOLEAN : [handler[h] EXCEPT !.at = "roles", !.answer = b] \in Work
    BY <2>1 DEF Work
  <2>3. handler[h].user \in Users /\ handler[h].answer \in BOOLEAN
    BY <2>1 DEF Work
  <2>4. handler' \in [Handlers -> {Idle} \cup Work]
    BY <1>6, <2>2, <2>3 DEF Ask, GoTo
  <2> QED
    BY <1>6, <2>4 DEF Ask
<1>7. ASSUME NEW h \in Handlers, UpdateRoles(h)
      PROVE  TypeOK'
  <2>1. handler[h] \in Work
    BY <1>7, BusyIsWork DEF UpdateRoles, Busy, At
  <2>2. handler[h].partner \in Partners
    BY <1>7, <2>1 DEF UpdateRoles, At, Asking, Work
  <2>3. \A found \in SUBSET Partners :
           [handler[h] EXCEPT !.at = "sync", !.found = found,
                              !.left = @ \ {handler[h].partner}, !.partner = None,
                              !.answer = FALSE] \in Work
    BY <2>1 DEF Work
  <2>4. handler[h].user \in Users /\ handler[h].found \in SUBSET Partners
    BY <2>1 DEF Work
  <2>5. handler' \in [Handlers -> {Idle} \cup Work]
    BY <1>7, <2>2, <2>3, <2>4 DEF UpdateRoles, GoTo
  <2>6. active' \in [Users -> SUBSET Partners]
    BY <1>7, <2>2, <2>4 DEF UpdateRoles
  <2> QED
    BY <1>7, <2>5, <2>6 DEF UpdateRoles
<1>8. ASSUME NEW h \in Handlers, Store(h)
      PROVE  TypeOK'
  <2> DEFINE copy == [handler[h].copy EXCEPT !.member = handler[h].found, !.fresh = TRUE]
             state == [handler[h] EXCEPT !.copy = copy, !.again = FALSE]
  <2>1. handler[h] \in Work
    BY <1>8, BusyIsWork DEF Store, Busy, At
  <2>2. copy \in Row /\ handler[h].user \in Users
    BY <2>1 DEF Work, Row
  <2>3. state \in Work
    <3> HIDE DEF copy
    <3> QED
      BY <2>1, <2>2 DEF Work
  <2>4. row' = [row EXCEPT ![handler[h].user] = copy]
        /\ handler' = [handler EXCEPT ![h] = IF handler[h].again THEN Sync(state) ELSE Idle]
    BY <1>8 DEF Store, GoTo
  <2> HIDE DEF copy, state
  <2>5. Sync(state) \in Work
    BY <2>3, SyncTyped
  <2> QED
    BY <1>8, <2>2, <2>4, <2>5 DEF Store
<1>9. ASSUME NEW h \in Handlers, Kill(h)
      PROVE  TypeOK'
  BY <1>9 DEF Kill, GoTo
<1>10. ASSUME NEW u \in Users, NEW p \in Partners, ChangeStanding(u, p)
       PROVE  TypeOK'
  <2> DEFINE now == Toggle(standing[u], p)
  <2>1. now \in SUBSET Partners
    BY DEF Toggle
  <2>2. handler' = [h \in Handlers |-> Noted(u, now, h)]
    BY <1>10 DEF ChangeStanding, Noted
  <2>3. standing' = [standing EXCEPT ![u] = now]
    BY <1>10 DEF ChangeStanding
  <2> HIDE DEF now
  <2>4. \A h \in Handlers : handler[h] \in Work =>
           [handler[h] EXCEPT !.was = @ \cup now, !.wasnt = @ \cup (Partners \ now)] \in Work
    BY <2>1 DEF Work
  <2>5. \A h \in Handlers : Noted(u, now, h) \in {Idle} \cup Work
    BY <2>4, BusyIsWork DEF Noted, Busy, At
  <2>6. handler' \in [Handlers -> {Idle} \cup Work]
    <3> HIDE DEF Types, TypeOK
    <3> QED
      BY <2>2, <2>5
  <2>7. standing' \in [Users -> SUBSET Partners]
    BY <2>1, <2>3
  <2> QED
    BY <1>10, <2>6, <2>7 DEF ChangeStanding
<1>11. ASSUME NEW p \in Partners, Outage(p)
       PROVE  TypeOK'
  BY <1>11 DEF Outage, Toggle
<1>12. ASSUME NEW u \in Users, Age(u)
       PROVE  TypeOK'
  <2>1. row' \in [Users -> Row]
    BY <1>12 DEF Age, Row
  <2>2. \A h \in Handlers : handler[h] \in Work => [handler[h] EXCEPT !.copy.fresh = FALSE] \in Work
    BY DEF Work, Row
  <2>3. handler' \in [Handlers -> {Idle} \cup Work]
    BY <1>12, <2>2, BusyIsWork DEF Age
  <2> QED
    BY <1>12, <2>1, <2>3 DEF Age
<1>13. ASSUME UNCHANGED vars
       PROVE  TypeOK'
  BY <1>13 DEF vars
<1> QED
  BY <1>1, <1>2, <1>3, <1>4, <1>5, <1>6, <1>7, <1>8, <1>9, <1>10, <1>11, <1>12, <1>13
     DEF Next, Step

\* A sync has all partners of env before it.
LEMMA SyncAsks ==
  ASSUME NEW w \in Work
  PROVE  Asking(Sync(w)) /\ Sync(w).at = "sync" /\ Sync(w).left = env.asked
  BY DEF Asking, Sync, Work

\* env is chosen once.
LEMMA EnvStays ==
  ASSUME [Next]_vars
  PROVE  env' = env
<1>1. ASSUME NEW h \in Handlers, NEW u \in Users, BeginWork(h, u)
      PROVE  env' = env
  BY <1>1 DEF BeginWork, AddAddress, RemoveAddress, MakePrimary, Login, ChangeNetworks,
              EditProfile, ViewRoles, Enrol, Refresh, BeginSync, Begin
<1>2. ASSUME NEW h \in Handlers, Step(h) \/ Kill(h)
      PROVE  env' = env
  BY <1>2 DEF Step, Save, Tell, SaveColumns, Search, Ask, UpdateRoles, Store, Kill
<1> QED
  BY <1>1, <1>2 DEF Next, vars, ChangeStanding, Outage, Age

\* What the partners left and the one being asked have to do with each other is
\* preserved by every step.
LEMMA AskingPreserved ==
  ASSUME Types, [Next]_vars
  PROVE  \A k \in Handlers : Asking(handler[k])'
<1> SUFFICES ASSUME NEW k \in Handlers
             PROVE  Asking(handler[k])'
  OBVIOUS
<1>1. env' = env /\ TypeOK /\ Asking(handler[k]) /\ handler \in [Handlers -> {Idle} \cup Work]
  BY EnvStays DEF Types, TypeOK
<1>2. ASSUME NEW h \in Handlers, NEW u \in Users, BeginWork(h, u)
      PROVE  Asking(handler[k])'
  <2>1. PICK w : Begins(h, u, w)
    BY <1>1, <1>2, WorkBegins
  <2> QED
    BY <1>1, <2>1 DEF Begins, Beginning, Asking
<1>3. ASSUME NEW h \in Handlers, Save(h)
      PROVE  Asking(handler[k])'
  <2>1. handler[h] \in Work
    BY <1>1, <1>3, BusyIsWork DEF Save, Busy, At
  <2>2. AfterSave(handler[h]) \in {Idle, [handler[h] EXCEPT !.at = "tell"], Sync(handler[h])}
    BY <1>1, <2>1, AfterSaveCases
  <2>3. Asking(AfterSave(handler[h]))
    <3>1. Asking([handler[h] EXCEPT !.at = "tell"])
      BY <2>1 DEF Asking, Work
    <3>2. Asking(Idle)
      BY DEF Asking, Idle
    <3> QED
      BY <2>1, <2>2, <3>1, <3>2, SyncAsks
  <2> QED
    BY <1>1, <1>3, <2>3 DEF Save, GoTo, Asking
<1>4. ASSUME NEW h \in Handlers, Tell(h) \/ SaveColumns(h) \/ Kill(h)
      PROVE  Asking(handler[k])'
  BY <1>1, <1>4 DEF Tell, SaveColumns, Kill, GoTo, Asking, Idle
<1>5. ASSUME NEW h \in Handlers, NEW p \in Partners, Search(h, p)
      PROVE  Asking(handler[k])'
  <2>1. handler[h] \in Work /\ p \in handler[h].left /\ handler[h].at = "sync"
    BY <1>1, <1>5, BusyIsWork DEF Search, Busy, At
  <2>2. Asking(handler[h])
    BY DEF Types
  <2>3. PICK hit \in BOOLEAN : handler' = [j \in Handlers |-> Searched(h, p, hit, j)]
    BY <1>5, SearchStep
  <2>4. CASE k = h
    BY <1>1, <2>1, <2>2, <2>3, <2>4 DEF Searched, Asking, Work
  <2>5. CASE k # h /\ Hears(h, p, k)
    <3>1. handler[k] \in Work
      BY <1>1, <2>5, BusyIsWork DEF Hears, Busy, At
    <3> QED
      BY <1>1, <2>3, <2>5, <3>1 DEF Searched, Asking, Work
  <2>6. CASE k # h /\ ~Hears(h, p, k)
    BY <1>1, <2>3, <2>6 DEF Searched, Asking
  <2> QED
    BY <2>4, <2>5, <2>6
<1>6. ASSUME NEW h \in Handlers, Ask(h)
      PROVE  Asking(handler[k])'
  <2>1. handler[h] \in Work /\ handler[h].at = "ask"
    BY <1>1, <1>6, BusyIsWork DEF Ask, Busy, At
  <2> QED
    BY <1>1, <1>6, <2>1 DEF Ask, GoTo, Asking, Work
<1>7. ASSUME NEW h \in Handlers, UpdateRoles(h)
      PROVE  Asking(handler[k])'
  <2>1. handler[h] \in Work /\ handler[h].at = "roles"
    BY <1>1, <1>7, BusyIsWork DEF UpdateRoles, Busy, At
  <2> QED
    BY <1>1, <1>7, <2>1 DEF UpdateRoles, GoTo, Asking, Work
<1>8. ASSUME NEW h \in Handlers, Store(h)
      PROVE  Asking(handler[k])'
  <2>1. handler[h] \in Work
    BY <1>1, <1>8, BusyIsWork DEF Store, Busy, At
  <2>2. PICK w : /\ w = [handler[h] EXCEPT
                          !.copy = [handler[h].copy EXCEPT !.member = handler[h].found, !.fresh = TRUE],
                          !.again = FALSE]
                 /\ handler' = [handler EXCEPT ![h] = IF handler[h].again THEN Sync(w) ELSE Idle]
    BY <1>8 DEF Store, GoTo
  <2>3. w \in Work
    BY <2>1, <2>2 DEF Work, Row
  <2>4. Asking(Sync(w)) /\ Asking(Idle)
    BY <2>3, SyncAsks DEF Asking, Idle
  <2> QED
    BY <1>1, <2>2, <2>4 DEF Asking
<1>9. ASSUME NEW u \in Users, NEW p \in Partners, ChangeStanding(u, p)
      PROVE  Asking(handler[k])'
  <2>1. handler'[k] = Noted(u, Toggle(standing[u], p), k)
    BY <1>9 DEF ChangeStanding, Noted
  <2>2. Busy(k) => handler[k] \in Work
    BY <1>1, BusyIsWork
  <2> QED
    BY <1>1, <2>1, <2>2 DEF Noted, Asking, Work, Busy, At
<1>10. ASSUME NEW u \in Users, Age(u)
       PROVE  Asking(handler[k])'
  <2>1. Busy(k) => handler[k] \in Work
    BY <1>1, BusyIsWork
  <2> QED
    BY <1>1, <1>10, <2>1 DEF Age, Asking, Work, Busy, At
<1>11. ASSUME UNCHANGED handler
       PROVE  Asking(handler[k])'
  BY <1>1, <1>11 DEF Asking
<1> QED
  BY <1>2, <1>3, <1>4, <1>5, <1>6, <1>7, <1>8, <1>9, <1>10, <1>11
     DEF Next, Step, Outage, vars

\* Newly activated profiles are typed.
LEMMA InitTypes == Init => Types
<1> SUFFICES ASSUME Init
             PROVE  Types
  OBVIOUS
<1>1. row \in [Users -> Row]
  BY DEF Init, Row
<1>2. wordpress \in [Users -> Addresses]
  BY <1>1 DEF Init, Row
<1>3. handler \in [Handlers -> {Idle}]
  BY DEF Init
<1> QED
  BY <1>1, <1>2, <1>3 DEF Init, Types, TypeOK, Idle, Asking

\* Types, and what syncs ask, hold always.
LEMMA AlwaysTypes == Spec => []Types
<1>1. Types /\ [Next]_vars => Types'
  BY TypesPreserved, AskingPreserved DEF Types
<1> QED
  BY <1>1, InitTypes, PTL DEF Spec

\* The variables keep their types, for any number of profiles, partners, networks
\* and handlers, in every surrounding.
THEOREM TypeCorrect == Spec => []TypeOK
<1>1. Types => TypeOK
  BY DEF Types
<1> QED
  BY <1>1, AlwaysTypes, PTL

-------------------------------------------------------------------------------
(* What a sync stores was heard during the sync.                           *)

\* The partners whose answers a handler keeps to itself.
Heeded == env.asked \ (IF env.threads THEN Shared ELSE {})

\* What a sync has found of a partner, or is about to, was so since it began, and
\* what is so now is noted.
Hearing(w) ==
  w.at \in {"sync", "ask", "roles"} =>
    /\ standing[w.user] \subseteq w.was
    /\ Partners \ standing[w.user] \subseteq w.wasnt
    /\ \A p \in Heeded \ w.left : p \in (IF p \in w.found THEN w.was ELSE w.wasnt)
    /\ w.partner \in Heeded /\ (w.at = "roles" \/ (w.at = "ask" /\ w.partner \in Shared))
         => w.partner \in (IF w.answer THEN w.was ELSE w.wasnt)

Hearings == ~env.flaky => up = Partners /\ \A h \in Handlers : Hearing(handler[h])

\* A sync begins with what is so.
LEMMA SyncHears ==
  ASSUME TypeOK, NEW w \in Work
  PROVE  Hearing(Sync(w))
<1>1. LET v == Sync(w) IN
      /\ v.at = "sync" /\ v.user = w.user /\ v.left = env.asked /\ v.found = {}
      /\ v.was = standing[w.user] /\ v.wasnt = Partners \ standing[w.user]
  BY DEF Sync, Work
<1> QED
  BY <1>1 DEF Hearing, Heeded

\* Partners fail only where env says so.
LEMMA UpStays ==
  ASSUME [Next]_vars, ~env.flaky
  PROVE  up' = up
<1>1. ASSUME NEW h \in Handlers, NEW u \in Users, BeginWork(h, u)
      PROVE  up' = up
  BY <1>1 DEF BeginWork, AddAddress, RemoveAddress, MakePrimary, Login, ChangeNetworks,
              EditProfile, ViewRoles, Enrol, Refresh, BeginSync, Begin
<1>2. ASSUME NEW h \in Handlers, Step(h) \/ Kill(h)
      PROVE  up' = up
  BY <1>2 DEF Step, Save, Tell, SaveColumns, Search, Ask, UpdateRoles, Store, Kill
<1> QED
  BY <1>1, <1>2 DEF Next, vars, ChangeStanding, Outage, Age

\* Every step keeps what has been heard.
LEMMA HearingsPreserved ==
  ASSUME Types, Hearings, [Next]_vars
  PROVE  Hearings'
<1>0. env' = env
  BY EnvStays
<1> SUFFICES ASSUME ~env.flaky, NEW k \in Handlers
             PROVE  Hearing(handler[k])'
  BY <1>0, UpStays DEF Hearings
<1>1. up = Partners /\ Hearing(handler[k]) /\ TypeOK
      /\ handler \in [Handlers -> {Idle} \cup Work] /\ standing \in [Users -> SUBSET Partners]
  BY DEF Hearings, Types, TypeOK
<1>2. ASSUME handler'[k] = handler[k], UNCHANGED <<standing, up>>
      PROVE  Hearing(handler[k])'
  BY <1>0, <1>1, <1>2 DEF Hearing, Heeded
<1>3. ASSUME NEW h \in Handlers, NEW w, Hearing(w), UNCHANGED <<standing, up>>,
             handler' = [handler EXCEPT ![h] = w]
      PROVE  Hearing(handler[k])'
  BY <1>0, <1>1, <1>3 DEF Hearing, Heeded
<1>4. Hearing(Idle)
  BY DEF Hearing, Idle
<1>5. ASSUME NEW h \in Handlers, NEW u \in Users, BeginWork(h, u)
      PROVE  Hearing(handler[k])'
  <2>1. PICK w : Begins(h, u, w)
    BY <1>1, <1>5, WorkBegins
  <2>2. Hearing(w)
    BY <2>1 DEF Begins, Beginning, Hearing, Heeded
  <2> QED
    BY <1>3, <2>1, <2>2 DEF Begins
<1>6. ASSUME NEW h \in Handlers, Save(h)
      PROVE  Hearing(handler[k])'
  <2>1. handler[h] \in Work
    BY <1>1, <1>6, BusyIsWork DEF Save, Busy, At
  <2>2. AfterSave(handler[h]) \in {Idle, [handler[h] EXCEPT !.at = "tell"], Sync(handler[h])}
    BY <1>1, <2>1, AfterSaveCases
  <2>3. Hearing([handler[h] EXCEPT !.at = "tell"])
    BY <2>1 DEF Hearing, Work
  <2>4. Hearing(AfterSave(handler[h]))
    BY <1>1, <1>4, <2>1, <2>2, <2>3, SyncHears
  <2> QED
    BY <1>3, <1>6, <2>4 DEF Save, GoTo
<1>7. ASSUME NEW h \in Handlers, Tell(h) \/ SaveColumns(h) \/ Kill(h)
      PROVE  Hearing(handler[k])'
  BY <1>3, <1>4, <1>7 DEF Tell, SaveColumns, Kill, GoTo
<1>8. ASSUME NEW h \in Handlers, NEW p \in Partners, Search(h, p)
      PROVE  Hearing(handler[k])'
  <2>1. handler[h] \in Work /\ handler[h].at = "sync" /\ Hearing(handler[h])
    BY <1>1, <1>8, BusyIsWork DEF Search, Busy, At, Hearings
  <2>2. PICK hit \in BOOLEAN :
           /\ p \in up /\ p \in standing[handler[h].user] => hit
           /\ handler' = [j \in Handlers |-> Searched(h, p, hit, j)]
    BY <1>8, SearchStep
  <2>3. UNCHANGED <<standing, up>>
    BY <1>8 DEF Search
  <2>4. CASE k = h
    <3> DEFINE w == Searched(h, p, hit, h)
    <3>1. /\ w.user = handler[h].user /\ w.left = handler[h].left /\ w.found = handler[h].found
          /\ w.was = handler[h].was /\ w.wasnt = handler[h].wasnt /\ w.partner = p
          /\ w.at = IF hit THEN "ask" ELSE "roles"
          /\ w.answer = (hit /\ p \in standing[handler[h].user] /\ p \in Shared)
      BY <2>1 DEF Searched, Work
    <3>2. w.answer => p \in handler[h].was
      BY <2>1, <3>1 DEF Hearing
    <3>3. w.at = "roles" \/ p \in Shared => (~w.answer => p \in handler[h].wasnt)
      BY <1>1, <2>1, <2>2, <3>1 DEF Hearing
    <3> HIDE DEF w
    <3>4. Hearing(w)
      BY <2>1, <3>1, <3>2, <3>3 DEF Hearing
    <3>5. handler'[k] = w
      BY <2>2, <2>4 DEF w
    <3> QED
      BY <1>0, <1>1, <2>3, <3>4, <3>5 DEF Hearing, Heeded
  <2>5. CASE k # h /\ Hears(h, p, k)
    <3>1. handler[k] \in Work /\ handler[k].at = "ask" /\ handler[k].partner = p
      BY <1>1, <2>5, BusyIsWork DEF Hears, Busy, At
    <3>2. p \notin Heeded
      BY <2>5 DEF Hears, Heeded
    <3> DEFINE w == Searched(h, p, hit, k)
    <3>3. /\ w.user = handler[k].user /\ w.left = handler[k].left /\ w.found = handler[k].found
          /\ w.was = handler[k].was /\ w.wasnt = handler[k].wasnt /\ w.partner = p
          /\ w.at = "ask"
      BY <2>5, <3>1 DEF Searched, Work
    <3> HIDE DEF w
    <3>4. Hearing(w)
      BY <1>1, <3>1, <3>2, <3>3 DEF Hearing
    <3>5. handler'[k] = w
      BY <2>2 DEF w
    <3> QED
      BY <1>0, <1>1, <2>3, <3>4, <3>5 DEF Hearing, Heeded
  <2>6. CASE k # h /\ ~Hears(h, p, k)
    BY <1>2, <2>2, <2>3, <2>6 DEF Searched
  <2> QED
    BY <2>4, <2>5, <2>6
<1>9. ASSUME NEW h \in Handlers, Ask(h)
      PROVE  Hearing(handler[k])'
  <2> DEFINE p == handler[h].partner
             member == IF p \in Shared THEN handler[h].answer
                                       ELSE p \in up /\ p \in standing[handler[h].user]
             w == [handler[h] EXCEPT !.at = "roles", !.answer = member]
  <2>1. handler[h] \in Work /\ handler[h].at = "ask" /\ Hearing(handler[h]) /\ p \in Partners
    BY <1>1, <1>9, BusyIsWork DEF Ask, Busy, At, Hearings, Types, Asking, Work
  <2>2. handler' = [handler EXCEPT ![h] = w] /\ UNCHANGED <<standing, up>>
    BY <1>9 DEF Ask, GoTo
  <2>3. p \in Heeded => p \in (IF member THEN handler[h].was ELSE handler[h].wasnt)
    BY <1>1, <2>1 DEF Hearing
  <2> HIDE DEF member
  <2>4. Hearing(w)
    BY <2>1, <2>3 DEF Hearing, Work
  <2> HIDE DEF w
  <2> QED
    BY <1>3, <2>2, <2>4
<1>10. ASSUME NEW h \in Handlers, UpdateRoles(h)
       PROVE  Hearing(handler[k])'
  <2> DEFINE p == handler[h].partner
             found == IF handler[h].answer THEN handler[h].found \cup {p} ELSE handler[h].found \ {p}
             w == [handler[h] EXCEPT !.at = "sync", !.found = found, !.left = @ \ {p},
                                     !.partner = None, !.answer = FALSE]
  <2>1. handler[h] \in Work /\ handler[h].at = "roles" /\ Hearing(handler[h])
    BY <1>1, <1>10, BusyIsWork DEF UpdateRoles, Busy, At, Hearings
  <2>2. handler' = [handler EXCEPT ![h] = w] /\ UNCHANGED <<standing, up>>
    BY <1>10 DEF UpdateRoles, GoTo
  <2>3. \A q \in Heeded \ (handler[h].left \ {p}) :
           q \in (IF q \in found THEN handler[h].was ELSE handler[h].wasnt)
    BY <2>1 DEF Hearing
  <2> HIDE DEF found
  <2>4. /\ w.at = "sync" /\ w.user = handler[h].user /\ w.left = handler[h].left \ {p}
        /\ w.found = found /\ w.was = handler[h].was /\ w.wasnt = handler[h].wasnt
    BY <2>1 DEF Work
  <2> HIDE DEF w
  <2>5. Hearing(w)
    BY <2>1, <2>3, <2>4 DEF Hearing
  <2> QED
    BY <1>3, <2>2, <2>5
<1>11. ASSUME NEW h \in Handlers, Store(h)
       PROVE  Hearing(handler[k])'
  <2>1. handler[h] \in Work
    BY <1>1, <1>11, BusyIsWork DEF Store, Busy, At
  <2>2. PICK w : /\ w = [handler[h] EXCEPT
                          !.copy = [handler[h].copy EXCEPT !.member = handler[h].found, !.fresh = TRUE],
                          !.again = FALSE]
                 /\ handler' = [handler EXCEPT ![h] = IF handler[h].again THEN Sync(w) ELSE Idle]
    BY <1>11 DEF Store, GoTo
  <2>3. w \in Work
    BY <2>1, <2>2 DEF Work, Row
  <2>4. Hearing(IF handler[h].again THEN Sync(w) ELSE Idle)
    BY <1>1, <1>4, <2>3, SyncHears
  <2> QED
    BY <1>3, <1>11, <2>2, <2>4 DEF Store
<1>12. ASSUME NEW u \in Users, NEW p \in Partners, ChangeStanding(u, p)
       PROVE  Hearing(handler[k])'
  <2> DEFINE now == Toggle(standing[u], p)
  <2>1. handler'[k] = Noted(u, now, k) /\ standing' = [standing EXCEPT ![u] = now] /\ up' = up
    BY <1>12 DEF ChangeStanding, Noted
  <2> HIDE DEF now
  <2>2. CASE Busy(k) /\ handler[k].user = u /\ handler[k].at \in {"sync", "ask", "roles"}
    <3>1. handler[k] \in Work
      BY <1>1, <2>2, BusyIsWork
    <3> DEFINE w == Noted(u, now, k)
    <3>2. /\ w.at = handler[k].at /\ w.user = u /\ w.left = handler[k].left
          /\ w.found = handler[k].found /\ w.partner = handler[k].partner
          /\ w.answer = handler[k].answer /\ w.was = handler[k].was \cup now
          /\ w.wasnt = handler[k].wasnt \cup (Partners \ now)
      BY <2>2, <3>1 DEF Noted, Work
    <3>3. standing'[u] = now
      BY <1>1, <2>1
    <3> HIDE DEF w
    <3>4. handler'[k] = w
      BY <2>1 DEF w
    <3> QED
      BY <1>0, <1>1, <2>1, <2>2, <3>2, <3>3, <3>4 DEF Hearing, Heeded
  <2>3. CASE Busy(k) /\ ~(handler[k].user = u /\ handler[k].at \in {"sync", "ask", "roles"})
    <3>1. handler[k] \in Work /\ handler'[k] = handler[k]
      BY <1>1, <2>1, <2>3, BusyIsWork DEF Noted
    <3>2. handler[k].user \in Users
      BY <3>1 DEF Work
    <3> QED
      BY <1>0, <1>1, <2>1, <2>3, <3>1, <3>2 DEF Hearing, Heeded
  <2>4. CASE ~Busy(k)
    BY <1>1, <2>1, <2>4 DEF Noted, Hearing, Busy, At
  <2> QED
    BY <2>2, <2>3, <2>4
<1>13. ASSUME NEW p \in Partners, Outage(p)
       PROVE  Hearing(handler[k])'
  BY <1>13 DEF Outage
<1>14. ASSUME NEW u \in Users, Age(u)
       PROVE  Hearing(handler[k])'
  <2>1. Busy(k) => handler[k] \in Work
    BY <1>1, BusyIsWork
  <2>2. UNCHANGED <<standing, up>>
        /\ handler'[k] = IF Busy(k) /\ handler[k].user = u
                            THEN [handler[k] EXCEPT !.copy.fresh = FALSE] ELSE handler[k]
    BY <1>14 DEF Age
  <2>3. CASE Busy(k) /\ handler[k].user = u
    <3> DEFINE w == [handler[k] EXCEPT !.copy.fresh = FALSE]
    <3>1. /\ w.at = handler[k].at /\ w.user = handler[k].user /\ w.left = handler[k].left
          /\ w.found = handler[k].found /\ w.partner = handler[k].partner
          /\ w.answer = handler[k].answer /\ w.was = handler[k].was /\ w.wasnt = handler[k].wasnt
      BY <2>1, <2>3 DEF Work
    <3>2. handler'[k] = w
      BY <2>2, <2>3
    <3> HIDE DEF w
    <3> QED
      BY <1>0, <1>1, <2>2, <3>1, <3>2 DEF Hearing, Heeded
  <2>4. CASE ~(Busy(k) /\ handler[k].user = u)
    BY <1>2, <2>2, <2>4
  <2> QED
    BY <2>3, <2>4
<1>15. ASSUME UNCHANGED vars
       PROVE  Hearing(handler[k])'
  BY <1>2, <1>15 DEF vars
<1> QED
  BY <1>5, <1>6, <1>7, <1>8, <1>9, <1>10, <1>11, <1>12, <1>13, <1>14, <1>15 DEF Next, Step

\* What a sync stores of a partner was so at some time during the sync.
LEMMA HeardStep ==
  ASSUME Types, Hearings, [Next]_vars
  PROVE  [~env.flaky =>
            \A h \in Handlers : Store(h) =>
              \A p \in env.asked \ (IF env.threads THEN Shared ELSE {}) :
                p \in (IF p \in row'[handler[h].user].member THEN handler[h].was ELSE handler[h].wasnt)]_vars
<1> SUFFICES ASSUME ~env.flaky, NEW h \in Handlers, Store(h), NEW p \in Heeded
             PROVE  p \in (IF p \in row'[handler[h].user].member
                             THEN handler[h].was ELSE handler[h].wasnt)
  BY DEF Heeded
<1>1. handler[h] \in Work /\ handler[h].at = "sync" /\ handler[h].left = {}
  BY BusyIsWork DEF Types, Store, Busy, At
<1>2. row'[handler[h].user].member = handler[h].found
  BY <1>1 DEF Types, TypeOK, Store, Work, Row
<1>3. Hearing(handler[h])
  BY DEF Hearings
<1> QED
  BY <1>1, <1>2, <1>3 DEF Hearing

\* However syncs, edits, enrolments and changes of membership interleave, and
\* though handlers are killed: a membership is stored only if the partner confirmed
\* it during the sync, and withdrawn only if it denied it.
THEOREM MembershipHeard == Spec => MembershipIsHeard
<1>1. Init => Hearings
  BY DEF Init, Hearings, Hearing, Idle
<1>2. Types /\ Hearings /\ [Next]_vars => Hearings'
  BY HearingsPreserved
<1> QED
  BY <1>1, <1>2, AlwaysTypes, HeardStep, PTL DEF Spec, MembershipIsHeard

-------------------------------------------------------------------------------
(* Steps that leave the rows and the copies as they are.                   *)

SyncLabels == {"sync", "ask", "roles"}

SameData(r, s) ==
  s.email = r.email /\ s.emails = r.emails /\ s.overrides = r.overrides /\ s.member = r.member

Alike(w, v) ==
  /\ v.user = w.user /\ v.kind = w.kind /\ v.drop = w.drop
  /\ SameData(w.copy, v.copy)
  /\ v.at = w.at \/ (v.at \in SyncLabels /\ w.at \in SyncLabels)

Quiet ==
  /\ env' = env /\ wordpress' = wordpress
  /\ \A u \in Users : SameData(row[u], row'[u])
  /\ \A k \in Handlers : /\ Busy(k)' <=> Busy(k)
                         /\ Busy(k) => Alike(handler[k], handler'[k])

\* The same, and a sync has the partners left and found that it had.
Same(w, v) == Alike(w, v) /\ v.left = w.left /\ v.found = w.found

Silent ==
  /\ env' = env /\ wordpress' = wordpress /\ active' = active
  /\ \A u \in Users : SameData(row[u], row'[u])
  /\ \A k \in Handlers : /\ Busy(k)' <=> Busy(k)
                         /\ Busy(k) => Same(handler[k], handler'[k])

\* A sync that asks a partner, and the world, are silent.
LEMMA SilentSteps ==
  ASSUME Types,
         \/ \E h \in Handlers : Ask(h) \/ \E p \in Partners : Search(h, p)
         \/ \E u \in Users : Age(u) \/ \E p \in Partners : ChangeStanding(u, p)
         \/ \E p \in Partners : Outage(p)
         \/ UNCHANGED vars
  PROVE  Silent
<1>0. TypeOK /\ handler \in [Handlers -> {Idle} \cup Work] /\ row \in [Users -> Row]
  BY DEF Types, TypeOK
<1>1. ASSUME NEW h \in Handlers, Ask(h)
      PROVE  Silent
  <2>1. handler[h] \in Work /\ handler[h].at = "ask"
    BY <1>0, <1>1, BusyIsWork DEF Ask, Busy, At
  <2>2. PICK b : handler' = [handler EXCEPT ![h] = [handler[h] EXCEPT !.at = "roles", !.answer = b]]
    BY <1>1 DEF Ask, GoTo
  <2>3. Same(handler[h], [handler[h] EXCEPT !.at = "roles", !.answer = b])
        /\ [handler[h] EXCEPT !.at = "roles", !.answer = b].at = "roles"
    BY <2>1 DEF Same, Alike, SameData, SyncLabels, Work
  <2> QED
    BY <1>0, <1>1, <2>1, <2>2, <2>3 DEF Ask, Silent, SameData, Same, Alike, Busy, At
<1>2. ASSUME NEW h \in Handlers, NEW p \in Partners, Search(h, p)
      PROVE  Silent
  <2>1. handler[h] \in Work /\ handler[h].at = "sync"
    BY <1>0, <1>2, BusyIsWork DEF Search, Busy, At
  <2>2. PICK hit \in BOOLEAN : handler' = [j \in Handlers |-> Searched(h, p, hit, j)]
    BY <1>2, SearchStep
  <2>3. ASSUME NEW k \in Handlers
        PROVE  /\ Busy(k)' <=> Busy(k)
               /\ Busy(k) => Same(handler[k], handler'[k])
    <3>1. CASE k = h
      <4> DEFINE v == Searched(h, p, hit, h)
      <4>1. Same(handler[h], v) /\ v.at \in SyncLabels
        BY <2>1 DEF Searched, Same, Alike, SameData, SyncLabels, Work
      <4> HIDE DEF v
      <4>2. handler'[k] = v
        BY <2>2, <3>1 DEF v
      <4> QED
        BY <2>1, <3>1, <4>1, <4>2 DEF Busy, At, SyncLabels
    <3>2. CASE k # h /\ Hears(h, p, k)
      <4> DEFINE v == Searched(h, p, hit, k)
      <4>1. handler[k] \in Work /\ handler[k].at = "ask"
        BY <1>0, <3>2, BusyIsWork DEF Hears, Busy, At
      <4>2. Same(handler[k], v) /\ v.at = "ask"
        BY <3>2, <4>1 DEF Searched, Same, Alike, SameData, Work
      <4> HIDE DEF v
      <4>3. handler'[k] = v
        BY <2>2 DEF v
      <4> QED
        BY <4>1, <4>2, <4>3 DEF Busy, At
    <3>3. CASE k # h /\ ~Hears(h, p, k)
      BY <2>2, <3>3 DEF Searched, Same, Alike, SameData, Busy, At
    <3> QED
      BY <3>1, <3>2, <3>3
  <2> QED
    BY <1>2, <2>3 DEF Search, Silent, SameData
<1>3. ASSUME NEW u \in Users, Age(u)
      PROVE  Silent
  <2>1. \A v \in Users : SameData(row[v], row'[v])
    BY <1>0, <1>3 DEF Age, SameData, Row
  <2>2. ASSUME NEW k \in Handlers
        PROVE  /\ Busy(k)' <=> Busy(k)
               /\ Busy(k) => Same(handler[k], handler'[k])
    <3>1. CASE Busy(k) /\ handler[k].user = u
      <4> DEFINE v == [handler[k] EXCEPT !.copy.fresh = FALSE]
      <4>1. handler[k] \in Work
        BY <1>0, <3>1, BusyIsWork
      <4>2. Same(handler[k], v) /\ v.at = handler[k].at
        BY <4>1 DEF Same, Alike, SameData, Work, Row
      <4>3. handler'[k] = v
        BY <1>3, <3>1 DEF Age
      <4> HIDE DEF v
      <4> QED
        BY <3>1, <4>2, <4>3 DEF Busy, At
    <3>2. CASE ~(Busy(k) /\ handler[k].user = u)
      BY <1>3, <3>2 DEF Age, Same, Alike, SameData, Busy, At
    <3> QED
      BY <3>1, <3>2
  <2> QED
    BY <1>3, <2>1, <2>2 DEF Age, Silent
<1>4. ASSUME NEW u \in Users, NEW p \in Partners, ChangeStanding(u, p)
      PROVE  Silent
  <2>1. ASSUME NEW k \in Handlers
        PROVE  /\ Busy(k)' <=> Busy(k)
               /\ Busy(k) => Same(handler[k], handler'[k])
    <3> DEFINE v == Noted(u, Toggle(standing[u], p), k)
    <3>1. handler'[k] = v
      BY <1>4 DEF ChangeStanding, Noted
    <3>2. CASE Busy(k)
      <4>1. handler[k] \in Work
        BY <1>0, <3>2, BusyIsWork
      <4>2. Same(handler[k], v) /\ v.at = handler[k].at
        BY <4>1 DEF Noted, Same, Alike, SameData, Work
      <4> HIDE DEF v
      <4> QED
        BY <3>1, <3>2, <4>2 DEF Busy, At
    <3>3. CASE ~Busy(k)
      BY <3>1, <3>3 DEF Noted, Busy, At
    <3> QED
      BY <3>2, <3>3
  <2> QED
    BY <1>4, <2>1 DEF ChangeStanding, Silent, SameData
<1>5. ASSUME NEW p \in Partners, Outage(p)
      PROVE  Silent
  BY <1>5 DEF Outage, Silent, SameData, Same, Alike, Busy, At
<1>6. ASSUME UNCHANGED vars
      PROVE  Silent
  BY <1>6 DEF vars, Silent, SameData, Same, Alike, Busy, At
<1> QED
  BY <1>1, <1>2, <1>3, <1>4, <1>5, <1>6

\* A sync between its beginning and its end, and the world, are quiet.
LEMMA QuietSteps ==
  ASSUME Types,
         \/ \E h \in Handlers : Ask(h) \/ UpdateRoles(h) \/ \E p \in Partners : Search(h, p)
         \/ \E u \in Users : Age(u) \/ \E p \in Partners : ChangeStanding(u, p)
         \/ \E p \in Partners : Outage(p)
         \/ UNCHANGED vars
  PROVE  Quiet
<1>0. TypeOK /\ handler \in [Handlers -> {Idle} \cup Work]
  BY DEF Types, TypeOK
<1>1. Silent => Quiet
  BY DEF Silent, Quiet, Same
<1>2. ASSUME NEW h \in Handlers, UpdateRoles(h)
      PROVE  Quiet
  <2>1. handler[h] \in Work /\ handler[h].at = "roles"
    BY <1>0, <1>2, BusyIsWork DEF UpdateRoles, Busy, At
  <2>2. PICK found : handler' = [handler EXCEPT ![h] =
           [handler[h] EXCEPT !.at = "sync", !.found = found,
                              !.left = @ \ {handler[h].partner}, !.partner = None, !.answer = FALSE]]
    BY <1>2 DEF UpdateRoles, GoTo
  <2> DEFINE v == [handler[h] EXCEPT !.at = "sync", !.found = found,
                              !.left = @ \ {handler[h].partner}, !.partner = None, !.answer = FALSE]
  <2>3. Alike(handler[h], v) /\ v.at = "sync"
    BY <2>1 DEF Alike, SameData, SyncLabels, Work
  <2> HIDE DEF v
  <2>4. handler' = [handler EXCEPT ![h] = v]
    BY <2>2 DEF v
  <2> QED
    BY <1>0, <1>2, <2>1, <2>3, <2>4 DEF UpdateRoles, Quiet, SameData, Alike, Busy, At
<1> QED
  BY <1>1, <1>2, SilentSteps

-------------------------------------------------------------------------------
(* Nothing is lost but what a request removes.                             *)

\* Handlers overlap only as env says.
Alone ==
  /\ env.overlap = "none" => \A h, k \in Handlers : Busy(h) /\ Busy(k) => h = k
  /\ env.overlap # "all" => \A h, k \in Handlers, u \in Users :
                               HasRow(h, u) /\ HasRow(k, u) => h = k

\* What a copy lacks, its handler was asked to remove and has not saved yet.
Losing(w) == IF w.at = "save" THEN w.drop ELSE {}

Keeping(h) ==
  Busy(h) =>
    LET w == handler[h] IN
    /\ w.at = "columns" <=> w.kind \notin RowKinds
    /\ env.overlap # "all" /\ w.kind \in RowKinds /\ w.at # "tell" =>
         Known(row[w.user]) \ Losing(w) \subseteq Known(w.copy)
    /\ env.overlap = "none" /\ w.at # "tell" =>
         row[w.user].overrides \ Losing(w) \subseteq w.copy.overrides

Kept == Alone /\ \A h \in Handlers : Keeping(h)

\* A quiet step does not matter.
LEMMA QuietKeeps ==
  ASSUME Types, Kept, Quiet
  PROVE  Kept'
<1>1. \A k \in Handlers : Busy(k) => handler[k].user \in Users
  BY BusyIsWork DEF Types, Work
<1>2. \A k \in Handlers, u \in Users : HasRow(k, u)' <=> HasRow(k, u)
  BY DEF HasRow, Quiet, Alike
<1>3. Alone'
  BY <1>2 DEF Kept, Alone, Quiet
<1>4. ASSUME NEW k \in Handlers
      PROVE  Keeping(k)'
  BY <1>1 DEF Kept, Keeping, Quiet, Alike, SameData, SyncLabels, Known, Losing
<1> QED
  BY <1>3, <1>4 DEF Kept

\* Who goes on with other work for the same profile, of the same kind, or stops,
\* overlaps no more than before.
LEMMA AloneKept ==
  ASSUME Types, Alone, env' = env, NEW h \in Handlers, Busy(h), NEW w,
         handler' = [handler EXCEPT ![h] = w],
         w.at # "idle" => w.user = handler[h].user /\ w.kind = handler[h].kind
  PROVE  Alone'
<1>1. handler \in [Handlers -> {Idle} \cup Work]
  BY DEF Types, TypeOK
<1>2. \A k \in Handlers : Busy(k)' => Busy(k)
  BY <1>1 DEF Busy, At
<1>3. \A k \in Handlers, u \in Users : HasRow(k, u)' => HasRow(k, u)
  BY <1>1 DEF HasRow, Busy, At
<1> QED
  BY <1>2, <1>3 DEF Alone

\* A whole row is saved, by a handler that goes on with what it saved or stops.
SavesRow(h, r, w) ==
  /\ Busy(h) /\ handler[h].kind \in RowKinds
  /\ w.at \in {"idle", "tell", "sync"}
  /\ w.at # "idle" => w.user = handler[h].user /\ w.kind = handler[h].kind /\ w.copy = r
  /\ handler' = [handler EXCEPT ![h] = w]
  /\ row' = [row EXCEPT ![handler[h].user] = r]

\* The copies of the handlers stay complete.
LEMMA RowSaved ==
  ASSUME Types, Kept, env' = env, NEW h \in Handlers, NEW r, NEW w, SavesRow(h, r, w)
  PROVE  Kept'
<1> USE DEF SavesRow
<1>0. /\ TypeOK /\ Alone /\ \A k \in Handlers : Keeping(k)
      /\ handler \in [Handlers -> {Idle} \cup Work] /\ row \in [Users -> Row]
      /\ handler[h].user \in Users
  BY BusyIsWork DEF Types, TypeOK, Kept, Work
<1>1. Alone'
  BY <1>0, AloneKept
<1>2. Keeping(h)'
  BY <1>0 DEF Keeping, Losing, Busy, At
<1>3. ASSUME NEW k \in Handlers, k # h
      PROVE  Keeping(k)'
  <2>1. Busy(k)' <=> Busy(k)
    BY <1>0, <1>3 DEF Busy, At
  <2>2. handler'[k] = handler[k]
    BY <1>0, <1>3
  <2>3. CASE Busy(k) /\ handler[k].user # handler[h].user
    <3>1. handler[k].user \in Users
      BY <1>0, <2>3, BusyIsWork DEF Work
    <3> QED
      BY <1>0, <2>1, <2>2, <2>3, <3>1 DEF Keeping, Losing
  <2>4. CASE Busy(k) /\ handler[k].user = handler[h].user
    <3>1. env.overlap # "none" /\ (env.overlap # "all" => handler[k].kind \notin RowKinds)
      BY <1>0, <1>3, <2>4 DEF Alone, HasRow
    <3> QED
      BY <1>0, <2>1, <2>2, <3>1 DEF Keeping
  <2> QED
    BY <2>1, <2>3, <2>4 DEF Keeping
<1> QED
  BY <1>1, <1>2, <1>3 DEF Kept

\* Every step keeps the copies complete.
LEMMA KeptPreserved ==
  ASSUME Types, Kept, [Next]_vars
  PROVE  Kept'
<1>0. /\ env' = env /\ TypeOK /\ Alone /\ \A h \in Handlers : Keeping(h)
      /\ handler \in [Handlers -> {Idle} \cup Work] /\ row \in [Users -> Row]
  BY EnvStays DEF Types, TypeOK, Kept
<1>1. ASSUME NEW h \in Handlers, NEW u \in Users, BeginWork(h, u)
      PROVE  Kept'
  <2>1. PICK w : Begins(h, u, w)
    BY <1>0, <1>1, WorkBegins
  <2>2. w \in Work /\ w.user = u /\ w.at # "idle" /\ handler' = [handler EXCEPT ![h] = w]
        /\ row' = row
    BY <2>1 DEF Begins, Beginning, Work
  <2>3. \A k \in Handlers : k # h => (Busy(k)' <=> Busy(k)) /\ handler'[k] = handler[k]
    BY <1>0, <2>2 DEF Busy, At
  <2>4. \A k \in Handlers, v \in Users : k # h => (HasRow(k, v)' <=> HasRow(k, v))
    BY <2>3 DEF HasRow
  <2>5. \A v \in Users : HasRow(h, v)' => v = u /\ w.kind \in RowKinds
    BY <1>0, <2>2 DEF HasRow
  <2>6. Alone'
    BY <1>0, <2>1, <2>3, <2>4, <2>5, EnvTyped DEF Alone, Begins, TypeOK, HasRow
  <2>7. Keeping(h)'
    BY <1>0, <2>1, <2>2 DEF Begins, Beginning, Keeping, Losing
  <2>8. ASSUME NEW k \in Handlers, k # h
        PROVE  Keeping(k)'
    BY <1>0, <2>2, <2>3, <2>8 DEF Keeping
  <2> QED
    BY <2>6, <2>7, <2>8 DEF Kept
<1>2. ASSUME NEW h \in Handlers, Save(h)
      PROVE  Kept'
  <2> DEFINE w == AfterSave(handler[h])
  <2>1. handler[h] \in Work /\ Busy(h) /\ handler[h].at = "save"
    BY <1>0, <1>2, BusyIsWork DEF Save, Busy, At
  <2>2. /\ handler' = [handler EXCEPT ![h] = w]
        /\ row' = [row EXCEPT ![handler[h].user] = handler[h].copy]
    BY <1>2 DEF Save, GoTo
  <2>3. /\ w.at \in {"idle", "tell", "sync"}
        /\ w.at # "idle" => w.user = handler[h].user /\ w.kind = handler[h].kind
                            /\ w.copy = handler[h].copy
    BY <1>0, <2>1, AfterSaveGoesOn
  <2>4. handler[h].kind \in RowKinds
    BY <1>0, <2>1 DEF Keeping
  <2> HIDE DEF w
  <2>5. SavesRow(h, handler[h].copy, w)
    BY <2>1, <2>2, <2>3, <2>4 DEF SavesRow
  <2> QED
    BY <1>0, <2>5, RowSaved
<1>3. ASSUME NEW h \in Handlers, Store(h)
      PROVE  Kept'
  <2> DEFINE r == [handler[h].copy EXCEPT !.member = handler[h].found, !.fresh = TRUE]
             v == [handler[h] EXCEPT !.copy = r, !.again = FALSE]
             w == IF handler[h].again THEN Sync(v) ELSE Idle
  <2>1. handler[h] \in Work /\ Busy(h) /\ handler[h].at = "sync"
    BY <1>0, <1>3, BusyIsWork DEF Store, Busy, At
  <2>2. /\ handler' = [handler EXCEPT ![h] = w]
        /\ row' = [row EXCEPT ![handler[h].user] = r]
    BY <1>3 DEF Store, GoTo
  <2> HIDE DEF r
  <2>3. /\ w.at \in {"idle", "tell", "sync"}
        /\ w.at # "idle" => w.user = handler[h].user /\ w.kind = handler[h].kind /\ w.copy = r
    BY <2>1 DEF Idle, Sync, Work
  <2>4. handler[h].kind \in RowKinds
    BY <1>0, <2>1 DEF Keeping
  <2> HIDE DEF w
  <2>5. SavesRow(h, r, w)
    BY <2>1, <2>2, <2>3, <2>4 DEF SavesRow
  <2> QED
    BY <1>0, <2>5, RowSaved
<1>4. ASSUME NEW h \in Handlers, Tell(h) \/ Kill(h)
      PROVE  Kept'
  <2>1. Busy(h) /\ handler' = [handler EXCEPT ![h] = Idle] /\ row' = row
    BY <1>4 DEF Tell, Kill, GoTo, Busy, At
  <2>2. Alone'
    BY <1>0, <2>1, AloneKept DEF Idle
  <2>3. ASSUME NEW k \in Handlers
        PROVE  Keeping(k)'
    BY <1>0, <2>1 DEF Keeping, Idle, Busy, At
  <2> QED
    BY <2>2, <2>3 DEF Kept
<1>5. ASSUME NEW h \in Handlers, SaveColumns(h)
      PROVE  Kept'
  <2>1. /\ Busy(h) /\ handler[h].at = "columns" /\ handler[h].user \in Users
        /\ handler' = [handler EXCEPT ![h] = Idle]
    BY <1>0, <1>5, BusyIsWork DEF SaveColumns, GoTo, Busy, At, Work
  <2>2. Alone'
    BY <1>0, <2>1, AloneKept DEF Idle
  <2>3. \A u \in Users : Known(row'[u]) = Known(row[u])
    BY <1>0, <1>5 DEF SaveColumns, Known, Row
  <2>4. Keeping(h)'
    BY <1>0, <2>1 DEF Keeping, Idle, Busy, At
  <2>5. ASSUME NEW k \in Handlers, k # h
        PROVE  Keeping(k)'
    <3>1. handler'[k] = handler[k] /\ (Busy(k)' <=> Busy(k))
      BY <1>0, <2>1, <2>5 DEF Busy, At
    <3>2. CASE Busy(k)
      <4>1. env.overlap # "none" /\ handler[k].user \in Users
        BY <1>0, <2>1, <2>5, <3>2, BusyIsWork DEF Alone, Work
      <4> QED
        BY <1>0, <2>3, <3>1, <3>2, <4>1 DEF Keeping, Losing
    <3> QED
      BY <3>1, <3>2 DEF Keeping
  <2> QED
    BY <2>2, <2>4, <2>5 DEF Kept
<1> QED
  BY <1>1, <1>2, <1>3, <1>4, <1>5, QuietSteps, QuietKeeps DEF Next, Step

\* What changes the data of a row.
LEMMA RowSteps ==
  ASSUME Types, [Next]_vars
  PROVE  \/ \E h \in Handlers : Save(h) \/ Store(h) \/ SaveColumns(h)
         \/ \A u \in Users : SameData(row[u], row'[u])
<1>1. ASSUME NEW h \in Handlers, NEW u \in Users, BeginWork(h, u)
      PROVE  \A v \in Users : SameData(row[v], row'[v])
  BY <1>1, WorkBegins DEF Begins, SameData, Types
<1>2. ASSUME NEW h \in Handlers, Tell(h) \/ Kill(h)
      PROVE  \A v \in Users : SameData(row[v], row'[v])
  BY <1>2 DEF Tell, Kill, SameData
<1> QED
  BY <1>1, <1>2, QuietSteps DEF Next, Step, Quiet

\* A step loses an address only if it saves what a request removes.
LEMMA AddressesStep ==
  ASSUME Types, Kept, [Next]_vars
  PROVE  [env.overlap # "all" =>
            \A u \in Users : \A a \in Known(row[u]) \ Known(row'[u]) :
              \E h \in Handlers : At(h, "save") /\ handler[h].user = u /\ a \in handler[h].drop]_vars
<1> SUFFICES ASSUME env.overlap # "all", NEW u \in Users, NEW a \in Known(row[u]) \ Known(row'[u])
             PROVE  \E h \in Handlers : At(h, "save") /\ handler[h].user = u /\ a \in handler[h].drop
  OBVIOUS
<1>0. row \in [Users -> Row] /\ \A h \in Handlers : Keeping(h)
  BY DEF Types, TypeOK, Kept
<1>1. ASSUME NEW h \in Handlers, Save(h)
      PROVE  At(h, "save") /\ handler[h].user = u /\ a \in handler[h].drop
  BY <1>0, <1>1 DEF Save, Keeping, Losing, Busy, At
<1>2. ASSUME NEW h \in Handlers, Store(h)
      PROVE  FALSE
  <2>1. handler[h] \in Work /\ Busy(h) /\ handler[h].at = "sync"
    BY <1>2, BusyIsWork DEF Types, Store, Busy, At
  <2>2. Known(row[handler[h].user]) \subseteq Known(handler[h].copy)
    BY <1>0, <2>1 DEF Keeping, Losing
  <2>3. \A v \in Users : Known(row'[v]) = IF v = handler[h].user THEN Known(handler[h].copy)
                                                                 ELSE Known(row[v])
    BY <1>0, <1>2, <2>1 DEF Store, Known, Work, Row
  <2> QED
    BY <2>2, <2>3
<1>3. ASSUME NEW h \in Handlers, SaveColumns(h)
      PROVE  FALSE
  BY <1>0, <1>3 DEF SaveColumns, Known, Row
<1>4. ASSUME \A v \in Users : SameData(row[v], row'[v])
      PROVE  FALSE
  BY <1>4 DEF SameData, Known
<1> QED
  BY <1>1, <1>2, <1>3, <1>4, RowSteps

\* The same of networks.
LEMMA OverridesStep ==
  ASSUME Types, Kept, [Next]_vars
  PROVE  [env.overlap = "none" =>
            \A u \in Users : \A n \in row[u].overrides \ row'[u].overrides :
              \E h \in Handlers : At(h, "save") /\ handler[h].user = u /\ n \in handler[h].drop]_vars
<1> SUFFICES ASSUME env.overlap = "none", NEW u \in Users,
                    NEW n \in row[u].overrides \ row'[u].overrides
             PROVE  \E h \in Handlers : At(h, "save") /\ handler[h].user = u /\ n \in handler[h].drop
  OBVIOUS
<1>0. row \in [Users -> Row] /\ \A h \in Handlers : Keeping(h)
  BY DEF Types, TypeOK, Kept
<1>1. ASSUME NEW h \in Handlers, Save(h)
      PROVE  At(h, "save") /\ handler[h].user = u /\ n \in handler[h].drop
  BY <1>0, <1>1 DEF Save, Keeping, Losing, Busy, At
<1>2. ASSUME NEW h \in Handlers, Store(h) \/ SaveColumns(h)
      PROVE  FALSE
  <2>1. handler[h] \in Work /\ Busy(h) /\ handler[h].at \in {"sync", "columns"}
    BY <1>2, BusyIsWork DEF Types, Store, SaveColumns, Busy, At
  <2>2. row[handler[h].user].overrides \subseteq handler[h].copy.overrides
    BY <1>0, <2>1 DEF Keeping, Losing
  <2>3. \A v \in Users : row'[v].overrides \in
           IF v = handler[h].user THEN {handler[h].copy.overrides, row[v].overrides}
                                  ELSE {row[v].overrides}
    <3>1. CASE Store(h)
      BY <1>0, <2>1, <3>1 DEF Store, Work, Row
    <3>2. CASE SaveColumns(h)
      BY <1>0, <2>1, <3>2 DEF SaveColumns, Work, Row
    <3> QED
      BY <1>2, <3>1, <3>2
  <2> QED
    BY <2>2, <2>3
<1>3. ASSUME \A v \in Users : SameData(row[v], row'[v])
      PROVE  FALSE
  BY <1>3 DEF SameData
<1> QED
  BY <1>1, <1>2, <1>3, RowSteps

\* The copies of handlers are complete always.
LEMMA AlwaysKept == Spec => []Kept
<1>1. Init => Kept
  BY DEF Init, Kept, Alone, Keeping, HasRow, Busy, At, Idle
<1>2. Types /\ Kept /\ [Next]_vars => Kept'
  BY KeptPreserved
<1> QED
  BY <1>1, <1>2, AlwaysTypes, PTL DEF Spec

\* Enrolments and refreshes may run beside an edit, a login or a sync of a profile:
\* no address is lost but to the request that removes it.
THEOREM AddressesKept == Spec => AddressesSurvive
  BY AddressesStep, AlwaysTypes, AlwaysKept, PTL DEF Spec, AddressesSurvive

\* Nor is a network, while requests come one after the other: the syncs that
\* follow an edit in the same request save the edit again.
THEOREM OverridesKept == Spec => OverridesSurvive
  BY OverridesStep, AlwaysTypes, AlwaysKept, PTL DEF Spec, OverridesSurvive

-------------------------------------------------------------------------------
(* WordPress is told of every primary address.                             *)

Calm == env.overlap # "all" /\ ~env.flaky /\ ~env.kills

\* Only a request for a new primary address makes the row and WordPress differ, and
\* only between its save and its call.
Telling(h) ==
  Busy(h) /\ handler[h].kind \in RowKinds =>
    LET w == handler[h] IN
    /\ w.at = "tell" => w.kind = "primary"
    /\ w.kind = "primary" => w.at \in {"save", "tell"}
    /\ w.at # "tell" => wordpress[w.user] = row[w.user].email
    /\ w.kind # "primary" \/ w.at = "tell" => w.copy.email = row[w.user].email

Told(u) == (\A h \in Handlers : ~HasRow(h, u)) => wordpress[u] = row[u].email

Tellings == Calm => (\A h \in Handlers : Telling(h)) /\ (\A u \in Users : Told(u))

\* After the save of a new primary address comes the call, and after no other save.
LEMMA AfterSaveTells ==
  ASSUME TypeOK, NEW w \in Work
  PROVE  /\ w.kind = "primary" => AfterSave(w).at = "tell"
         /\ w.kind # "primary" => AfterSave(w).at \in {"idle", "sync"}
<1>1. CASE w.kind = "primary"
  <2>1. AfterSave(w) = [w EXCEPT !.at = "tell"]
    BY <1>1 DEF AfterSave
  <2> QED
    BY <1>1, <2>1 DEF Work
<1>2. CASE w.kind # "primary"
  <2>1. AfterSave(w) \in {Idle, Sync(w)}
    BY <1>2 DEF AfterSave
  <2>2. Sync(w).at = "sync" /\ Idle.at = "idle"
    BY DEF Sync, Work, Idle
  <2> QED
    BY <1>2, <2>1, <2>2
<1> QED
  BY <1>1, <1>2

\* Every step keeps what WordPress has been told, or is about to be.
LEMMA TellingsPreserved ==
  ASSUME Types, Kept, Tellings, [Next]_vars
  PROVE  Tellings'
<1>a. env' = env
  BY EnvStays
<1> SUFFICES ASSUME Calm
             PROVE  (\A k \in Handlers : Telling(k)') /\ (\A v \in Users : Told(v)')
  BY <1>a DEF Tellings, Calm
<1>0. /\ TypeOK /\ Alone /\ \A k \in Handlers : Keeping(k) /\ Telling(k)
      /\ \A v \in Users : Told(v)
      /\ handler \in [Handlers -> {Idle} \cup Work] /\ row \in [Users -> Row]
      /\ wordpress \in [Users -> Addresses]
      /\ env.overlap \in {"none", "columns"} /\ ~env.flaky /\ ~env.kills
      /\ \A k \in Handlers : Busy(k) => handler[k].user \in Users
  BY BusyIsWork, EnvTyped DEF Types, TypeOK, Kept, Tellings, Calm, Work
<1>1. ASSUME NEW h \in Handlers, NEW u \in Users, BeginWork(h, u)
      PROVE  (\A k \in Handlers : Telling(k)') /\ (\A v \in Users : Told(v)')
  <2>1. PICK w : Begins(h, u, w)
    BY <1>0, <1>1, WorkBegins
  <2>2. w \in Work /\ w.user = u /\ w.at \notin {"idle", "tell"} /\ ~Busy(h)
        /\ handler' = [handler EXCEPT ![h] = w] /\ row' = row /\ wordpress' = wordpress
    BY <2>1 DEF Begins, Beginning
  <2>3. \A k \in Handlers : k # h => (Busy(k)' <=> Busy(k)) /\ handler'[k] = handler[k]
    BY <1>0, <2>2 DEF Busy, At
  <2>4. \A k \in Handlers, v \in Users : HasRow(k, v) => HasRow(k, v)'
    BY <2>2, <2>3 DEF HasRow
  <2>5. w.kind \in RowKinds => wordpress[u] = row[u].email
    BY <1>0, <2>1 DEF Begins, HasRow, Told
  <2>6. Telling(h)'
    BY <1>0, <2>1, <2>2, <2>5 DEF Telling, Begins, Beginning
  <2>7. \A k \in Handlers : k # h => Telling(k)'
    BY <1>0, <2>2, <2>3 DEF Telling
  <2>8. \A v \in Users : Told(v)'
    BY <1>0, <2>2, <2>4 DEF Told
  <2> QED
    BY <2>6, <2>7, <2>8
<1>2. ASSUME NEW h \in Handlers, NEW r \in Row, NEW w, SavesRow(h, r, w), wordpress' = wordpress,
             /\ handler[h].kind = "primary" => w.at = "tell"
             /\ handler[h].kind # "primary" => w.at \in {"idle", "sync"} /\ r.email = handler[h].copy.email,
             handler[h].at # "tell"
      PROVE  (\A k \in Handlers : Telling(k)') /\ (\A v \in Users : Told(v)')
  <2> DEFINE u == handler[h].user
  <2>1. /\ Busy(h) /\ handler[h].kind \in RowKinds /\ u \in Users
        /\ handler' = [handler EXCEPT ![h] = w] /\ row' = [row EXCEPT ![u] = r]
        /\ w.at # "idle" => w.user = u /\ w.kind = handler[h].kind /\ w.copy = r
    BY <1>0, <1>2 DEF SavesRow
  <2>2. wordpress[u] = row[u].email /\ (handler[h].kind # "primary" => r.email = row[u].email)
    BY <1>0, <1>2, <2>1 DEF Telling
  <2>3. \A k \in Handlers : k # h => (Busy(k)' <=> Busy(k)) /\ handler'[k] = handler[k]
    BY <1>0, <2>1 DEF Busy, At
  <2>4. Telling(h)'
    BY <1>0, <1>2, <2>1, <2>2 DEF Telling, Busy, At
  <2>5. ASSUME NEW k \in Handlers, k # h
        PROVE  Telling(k)'
    <3>1. Busy(k) /\ handler[k].kind \in RowKinds => handler[k].user # u
      BY <1>0, <2>1, <2>5 DEF Alone, HasRow
    <3> QED
      BY <1>0, <1>2, <2>1, <2>3, <2>5, <3>1 DEF Telling
  <2>6. ASSUME NEW v \in Users
        PROVE  Told(v)'
    <3>1. CASE v = u
      <4>1. CASE handler[h].kind = "primary"
        <5>1. HasRow(h, v)'
          BY <1>0, <1>2, <2>1, <3>1, <4>1 DEF HasRow, Busy, At
        <5> QED
          BY <5>1 DEF Told
      <4>2. CASE handler[h].kind # "primary"
        BY <1>0, <1>2, <2>1, <2>2, <3>1, <4>2 DEF Told
      <4> QED
        BY <4>1, <4>2
    <3>2. CASE v # u
      <4>1. \A k \in Handlers : HasRow(k, v) => HasRow(k, v)'
        BY <2>3, <3>2 DEF HasRow
      <4> QED
        BY <1>0, <1>2, <2>1, <3>2, <4>1 DEF Told
    <3> QED
      BY <3>1, <3>2
  <2> QED
    BY <2>4, <2>5, <2>6
<1>3. ASSUME NEW h \in Handlers, Save(h)
      PROVE  (\A k \in Handlers : Telling(k)') /\ (\A v \in Users : Told(v)')
  <2> DEFINE w == AfterSave(handler[h])
  <2>1. handler[h] \in Work /\ Busy(h) /\ handler[h].at = "save"
    BY <1>0, <1>3, BusyIsWork DEF Save, Busy, At
  <2>2. /\ handler' = [handler EXCEPT ![h] = w] /\ wordpress' = wordpress
        /\ row' = [row EXCEPT ![handler[h].user] = handler[h].copy]
    BY <1>3 DEF Save, GoTo
  <2>3. /\ w.at \in {"idle", "tell", "sync"}
        /\ w.at # "idle" => w.user = handler[h].user /\ w.kind = handler[h].kind
                            /\ w.copy = handler[h].copy
    BY <1>0, <2>1, AfterSaveGoesOn
  <2>4. handler[h].kind \in RowKinds /\ handler[h].copy \in Row
    BY <1>0, <2>1 DEF Keeping, Work
  <2>5. /\ handler[h].kind = "primary" => w.at = "tell"
        /\ handler[h].kind # "primary" => w.at \in {"idle", "sync"}
    BY <1>0, <2>1, AfterSaveTells
  <2> HIDE DEF w
  <2>6. SavesRow(h, handler[h].copy, w)
    BY <2>1, <2>2, <2>3, <2>4 DEF SavesRow
  <2> QED
    BY <1>2, <2>1, <2>2, <2>4, <2>5, <2>6
<1>4. ASSUME NEW h \in Handlers, Store(h)
      PROVE  (\A k \in Handlers : Telling(k)') /\ (\A v \in Users : Told(v)')
  <2> DEFINE r == [handler[h].copy EXCEPT !.member = handler[h].found, !.fresh = TRUE]
             v == [handler[h] EXCEPT !.copy = r, !.again = FALSE]
             w == IF handler[h].again THEN Sync(v) ELSE Idle
  <2>1. handler[h] \in Work /\ Busy(h) /\ handler[h].at = "sync"
    BY <1>0, <1>4, BusyIsWork DEF Store, Busy, At
  <2>2. /\ handler' = [handler EXCEPT ![h] = w] /\ wordpress' = wordpress
        /\ row' = [row EXCEPT ![handler[h].user] = r]
    BY <1>4 DEF Store, GoTo
  <2>3. r \in Row /\ r.email = handler[h].copy.email
    BY <2>1 DEF Work, Row
  <2> HIDE DEF r
  <2>4. /\ w.at \in {"idle", "sync"}
        /\ w.at # "idle" => w.user = handler[h].user /\ w.kind = handler[h].kind /\ w.copy = r
    BY <2>1 DEF Idle, Sync, Work
  <2>5. handler[h].kind \in RowKinds /\ handler[h].kind # "primary"
    BY <1>0, <2>1 DEF Keeping, Telling
  <2> HIDE DEF w
  <2>6. SavesRow(h, r, w)
    BY <2>1, <2>2, <2>4, <2>5 DEF SavesRow
  <2> QED
    BY <1>2, <2>1, <2>2, <2>3, <2>4, <2>5, <2>6
<1>5. ASSUME NEW h \in Handlers, Tell(h)
      PROVE  (\A k \in Handlers : Telling(k)') /\ (\A v \in Users : Told(v)')
  <2> DEFINE u == handler[h].user
  <2>1. /\ Busy(h) /\ handler[h].at = "tell" /\ u \in Users
        /\ handler' = [handler EXCEPT ![h] = Idle] /\ row' = row
        /\ wordpress' = [wordpress EXCEPT ![u] = handler[h].copy.email]
    BY <1>0, <1>5 DEF Tell, GoTo, Busy, At
  <2>2. handler[h].kind \in RowKinds /\ handler[h].copy.email = row[u].email
    BY <1>0, <2>1 DEF Keeping, Telling
  <2>3. wordpress'[u] = row'[u].email /\ \A v \in Users : v # u => wordpress'[v] = wordpress[v]
    BY <1>0, <2>1, <2>2
  <2>4. \A k \in Handlers : k # h => (Busy(k)' <=> Busy(k)) /\ handler'[k] = handler[k]
    BY <1>0, <2>1 DEF Busy, At
  <2>5. ASSUME NEW k \in Handlers
        PROVE  Telling(k)'
    <3>1. CASE k = h
      BY <1>0, <2>1, <3>1 DEF Telling, Idle, Busy, At
    <3>2. CASE k # h
      <4>1. Busy(k) /\ handler[k].kind \in RowKinds => handler[k].user # u
        BY <1>0, <2>1, <2>2, <3>2 DEF Alone, HasRow
      <4> QED
        BY <1>0, <2>1, <2>3, <2>4, <3>2, <4>1 DEF Telling
    <3> QED
      BY <3>1, <3>2
  <2>6. ASSUME NEW v \in Users
        PROVE  Told(v)'
    <3>1. CASE v # u
      <4>1. \A k \in Handlers : HasRow(k, v) => HasRow(k, v)'
        BY <2>4, <3>1 DEF HasRow
      <4> QED
        BY <1>0, <2>1, <2>3, <3>1, <4>1 DEF Told
    <3> QED
      BY <2>3, <3>1 DEF Told
  <2> QED
    BY <2>5, <2>6
<1>6. ASSUME NEW h \in Handlers, SaveColumns(h)
      PROVE  (\A k \in Handlers : Telling(k)') /\ (\A v \in Users : Told(v)')
  <2>1. /\ Busy(h) /\ handler[h].at = "columns" /\ handler' = [handler EXCEPT ![h] = Idle]
        /\ wordpress' = wordpress
    BY <1>6 DEF SaveColumns, GoTo, Busy, At
  <2>2. handler[h].kind \notin RowKinds
    BY <1>0, <2>1 DEF Keeping
  <2>3. \A v \in Users : row'[v].email = row[v].email
    BY <1>0, <1>6 DEF SaveColumns, Row
  <2>4. \A k \in Handlers : k # h => (Busy(k)' <=> Busy(k)) /\ handler'[k] = handler[k]
    BY <1>0, <2>1 DEF Busy, At
  <2>5. \A k \in Handlers, v \in Users : HasRow(k, v) => HasRow(k, v)'
    BY <2>2, <2>4 DEF HasRow
  <2>6. ASSUME NEW k \in Handlers
        PROVE  Telling(k)'
    BY <1>0, <2>1, <2>3, <2>4 DEF Telling, Idle, Busy, At
  <2> QED
    BY <1>0, <2>1, <2>3, <2>5, <2>6 DEF Told
<1>7. ASSUME NEW h \in Handlers, Kill(h)
      PROVE  FALSE
  BY <1>0, <1>7 DEF Kill
<1>8. ASSUME Quiet
      PROVE  (\A k \in Handlers : Telling(k)') /\ (\A v \in Users : Told(v)')
  <2>1. \A k \in Handlers, v \in Users : HasRow(k, v)' <=> HasRow(k, v)
    BY <1>8 DEF HasRow, Quiet, Alike
  <2>2. ASSUME NEW k \in Handlers
        PROVE  Telling(k)'
    BY <1>0, <1>8 DEF Telling, Quiet, Alike, SameData, SyncLabels
  <2> QED
    BY <1>0, <1>8, <2>1, <2>2 DEF Told, Quiet, SameData
<1> QED
  BY <1>1, <1>3, <1>4, <1>5, <1>6, <1>7, <1>8, QuietSteps DEF Next, Step

\* WordPress has the primary address of every profile that no request is changing,
\* while whole-row handlers of a profile do not overlap and nothing fails.
THEOREM PrimaryTold == Spec => []WordPressHasPrimary
<1>1. Init => Tellings
  <2> SUFFICES ASSUME Init
               PROVE  (\A h \in Handlers : Telling(h)) /\ (\A u \in Users : Told(u))
    BY DEF Tellings
  <2>1. \A h \in Handlers : ~Busy(h)
    BY DEF Init, Busy, At, Idle
  <2>2. \A u \in Users : wordpress[u] = row[u].email
    BY DEF Init
  <2> QED
    BY <2>1, <2>2 DEF Telling, Told
<1>2. Types /\ Kept /\ Tellings /\ [Next]_vars => Tellings'
  BY TellingsPreserved
<1>3. Tellings => WordPressHasPrimary
  BY DEF Tellings, Told, Calm, WordPressHasPrimary
<1> QED
  BY <1>1, <1>2, <1>3, AlwaysTypes, AlwaysKept, PTL DEF Spec

-------------------------------------------------------------------------------
(* Roles and memberships agree.                                            *)

Careful == env.overlap = "none" /\ ~env.kills

\* A copy has the membership of its row; a sync has found what it made active.
Matching(h) ==
  Busy(h) =>
    LET w == handler[h] IN
    /\ w.copy.member = row[w.user].member
    /\ w.at \in SyncLabels => w.found = active[w.user] \ w.left

\* Only the sync that is under way may make the roles and the memberships differ.
Agreed(u) ==
  /\ row[u].member \subseteq env.asked /\ active[u] \subseteq env.asked
  /\ (\A h \in Handlers : ~(handler[h].at \in SyncLabels /\ handler[h].user = u)) =>
       active[u] = row[u].member

Matched == Careful => (\A h \in Handlers : Matching(h)) /\ (\A u \in Users : Agreed(u))

\* Every step keeps roles, memberships and what a sync has found together.
LEMMA MatchedPreserved ==
  ASSUME Types, Alone, Matched, [Next]_vars
  PROVE  Matched'
<1>a. env' = env
  BY EnvStays
<1> SUFFICES ASSUME Careful
             PROVE  (\A k \in Handlers : Matching(k)') /\ (\A v \in Users : Agreed(v)')
  BY <1>a DEF Matched, Careful
<1> DEFINE Goal == (\A k \in Handlers : Matching(k)') /\ (\A v \in Users : Agreed(v)')
<1>0. /\ TypeOK /\ \A k \in Handlers : Matching(k) /\ Asking(handler[k])
      /\ \A v \in Users : Agreed(v)
      /\ handler \in [Handlers -> {Idle} \cup Work] /\ row \in [Users -> Row]
      /\ active \in [Users -> SUBSET Partners]
      /\ \A h, k \in Handlers : Busy(h) /\ Busy(k) => h = k
      /\ ~env.kills
  BY DEF Types, TypeOK, Alone, Matched, Careful
<1>1. ASSUME NEW h \in Handlers, NEW u \in Users, BeginWork(h, u)
      PROVE  Goal
  <2>1. PICK w : Begins(h, u, w)
    BY <1>0, <1>1, WorkBegins
  <2>2. /\ w \in Work /\ w.user = u /\ w.at \in {"save", "columns", "sync"}
        /\ w.copy.member = row[u].member
        /\ w.at = "sync" => w.left = env.asked /\ w.found = {}
        /\ handler' = [handler EXCEPT ![h] = w] /\ UNCHANGED <<env, row, active>>
        /\ \A k \in Handlers : ~Busy(k)
    BY <2>1 DEF Begins, Beginning, Careful
  <2>3. \A k \in Handlers : handler'[k] = IF k = h THEN w ELSE handler[k]
    BY <1>0, <2>2
  <2>4. \A v \in Users : active[v] = row[v].member /\ active[v] \subseteq env.asked
    BY <1>0, <2>2 DEF Agreed, Busy, At, SyncLabels
  <2>5. \A k \in Handlers : Matching(k)'
    BY <2>2, <2>3, <2>4 DEF Matching, Busy, At, SyncLabels
  <2> QED
    BY <2>2, <2>4, <2>5 DEF Agreed
\* The one busy handler saves a row and goes on with it or stops; afterwards roles
\* and memberships agree.
<1>2. ASSUME NEW h \in Handlers, NEW u \in Users, Busy(h), NEW r, NEW w,
             row'[u] = r, \A v \in Users : v # u => row'[v] = row[v],
             handler'[h] = w, \A k \in Handlers : k # h => handler'[k] = handler[k],
             active' = active, r.member = active[u],
             \A v \in Users : v # u => active[v] = row[v].member,
             w.at # "idle" => w.user = u /\ w.copy.member = r.member,
             w.at \in SyncLabels => w.left = env.asked /\ w.found = {}
      PROVE  Goal
  <2>1. \A v \in Users : active'[v] = row'[v].member /\ active'[v] \subseteq env.asked
    BY <1>0, <1>2 DEF Agreed
  <2>2. \A k \in Handlers : k # h => ~Busy(k) /\ ~Busy(k)'
    BY <1>0, <1>2 DEF Busy, At
  <2>3. Matching(h)'
    BY <1>0, <1>2, <2>1, <1>a DEF Matching, Busy, At
  <2>4. \A k \in Handlers : k # h => Matching(k)'
    BY <2>2 DEF Matching
  <2> QED
    BY <2>1, <2>3, <2>4, <1>a DEF Agreed
<1>3. ASSUME NEW h \in Handlers, Busy(h), handler[h].at \notin SyncLabels
      PROVE  \A v \in Users : active[v] = row[v].member
  BY <1>0, <1>3 DEF Agreed, Busy, At, SyncLabels
<1>4. ASSUME NEW h \in Handlers, Save(h)
      PROVE  Goal
  <2> DEFINE w == AfterSave(handler[h])
             u == handler[h].user
  <2>1. handler[h] \in Work /\ Busy(h) /\ handler[h].at = "save" /\ u \in Users
    BY <1>0, <1>4, BusyIsWork DEF Save, Busy, At, Work
  <2>2. /\ handler' = [handler EXCEPT ![h] = w] /\ active' = active
        /\ row' = [row EXCEPT ![u] = handler[h].copy]
    BY <1>4 DEF Save, GoTo
  <2>3. /\ w.at # "idle" => w.user = u /\ w.copy = handler[h].copy
        /\ w.at \in {"idle", "tell", "sync"}
    BY <1>0, <2>1, AfterSaveGoesOn
  <2>4. w.at \in SyncLabels => w.left = env.asked /\ w.found = {}
    <3>1. CASE w = Idle
      BY <3>1 DEF Idle, SyncLabels
    <3>2. CASE w = [handler[h] EXCEPT !.at = "tell"]
      BY <2>1, <3>2 DEF Work, SyncLabels
    <3>3. CASE w = Sync(handler[h])
      BY <2>1, <3>3 DEF Sync, Work
    <3> HIDE DEF w
    <3> QED
      BY <1>0, <2>1, <3>1, <3>2, <3>3, AfterSaveCases DEF w
  <2>5. \A v \in Users : active[v] = row[v].member
    BY <1>3, <2>1 DEF SyncLabels
  <2>6. handler[h].copy.member = active[u]
    BY <1>0, <2>1, <2>5 DEF Matching
  <2> HIDE DEF w
  <2>7. /\ row'[u] = handler[h].copy /\ \A v \in Users : v # u => row'[v] = row[v]
        /\ handler'[h] = w /\ \A k \in Handlers : k # h => handler'[k] = handler[k]
    BY <1>0, <2>1, <2>2
  <2> QED
    BY <1>2, <2>1, <2>2, <2>3, <2>4, <2>5, <2>6, <2>7
<1>5. ASSUME NEW h \in Handlers, Store(h)
      PROVE  Goal
  <2> DEFINE u == handler[h].user
             r == [handler[h].copy EXCEPT !.member = handler[h].found, !.fresh = TRUE]
             s == [handler[h] EXCEPT !.copy = r, !.again = FALSE]
             w == IF handler[h].again THEN Sync(s) ELSE Idle
  <2>1. handler[h] \in Work /\ Busy(h) /\ handler[h].at = "sync" /\ handler[h].left = {}
        /\ u \in Users
    BY <1>0, <1>5, BusyIsWork DEF Store, Busy, At, Work
  <2>2. /\ handler' = [handler EXCEPT ![h] = w] /\ active' = active
        /\ row' = [row EXCEPT ![u] = r]
    BY <1>5 DEF Store, GoTo
  <2>3. r.member = handler[h].found
    BY <2>1 DEF Work, Row
  <2> HIDE DEF r
  <2>4. /\ w.at # "idle" => w.user = u /\ w.copy.member = r.member
        /\ w.at \in SyncLabels => w.left = env.asked /\ w.found = {}
    BY <2>1 DEF Idle, Sync, Work, SyncLabels
  <2> HIDE DEF w
  <2>5. r.member = active[u]
    BY <1>0, <2>1, <2>3 DEF Matching, SyncLabels
  <2>6. \A v \in Users : v # u => active[v] = row[v].member
    BY <1>0, <2>1 DEF Agreed, Busy, At, SyncLabels
  <2>7. /\ row'[u] = r /\ \A v \in Users : v # u => row'[v] = row[v]
        /\ handler'[h] = w /\ \A k \in Handlers : k # h => handler'[k] = handler[k]
    BY <1>0, <2>1, <2>2
  <2> QED
    BY <1>2, <2>1, <2>2, <2>4, <2>5, <2>6, <2>7
<1>6. ASSUME NEW h \in Handlers, SaveColumns(h) \/ Tell(h)
      PROVE  Goal
  <2> DEFINE u == handler[h].user
  <2>1. /\ handler[h] \in Work /\ Busy(h) /\ handler[h].at \in {"columns", "tell"} /\ u \in Users
        /\ handler' = [handler EXCEPT ![h] = Idle] /\ active' = active
    BY <1>0, <1>6, BusyIsWork DEF SaveColumns, Tell, GoTo, Busy, At, Work
  <2>2. \A v \in Users : active[v] = row[v].member
    BY <1>3, <2>1 DEF SyncLabels
  <2>3. handler[h].copy.member = active[u]
    BY <1>0, <2>1, <2>2 DEF Matching
  <2>4. row'[u].member = active[u] /\ \A v \in Users : v # u => row'[v] = row[v]
    <3>1. CASE Tell(h)
      BY <2>1, <2>2, <3>1 DEF Tell
    <3>2. CASE SaveColumns(h)
      BY <1>0, <2>1, <2>3, <3>2 DEF SaveColumns, Row
    <3> QED
      BY <1>6, <3>1, <3>2
  <2>5. /\ handler'[h] = Idle /\ \A k \in Handlers : k # h => handler'[k] = handler[k]
        /\ Idle.at = "idle"
    BY <1>0, <2>1 DEF Idle
  <2> QED
    BY <1>2, <2>1, <2>2, <2>4, <2>5 DEF SyncLabels
<1>7. ASSUME NEW h \in Handlers, UpdateRoles(h)
      PROVE  Goal
  <2> DEFINE u == handler[h].user
             p == handler[h].partner
             With(set) == IF handler[h].answer THEN set \cup {p} ELSE set \ {p}
             w == [handler[h] EXCEPT !.at = "sync", !.found = With(@), !.left = @ \ {p},
                                     !.partner = None, !.answer = FALSE]
  <2>1. /\ handler[h] \in Work /\ Busy(h) /\ handler[h].at = "roles" /\ u \in Users
        /\ p \in handler[h].left /\ p \in env.asked
    BY <1>0, <1>7, BusyIsWork DEF UpdateRoles, Busy, At, Work, Asking
  <2>2. handler[h].found = active[u] \ handler[h].left
        /\ handler[h].copy.member = row[u].member
    BY <1>0, <2>1 DEF Matching, SyncLabels
  <2>3. /\ handler' = [handler EXCEPT ![h] = w] /\ row' = row
        /\ active' = [active EXCEPT ![u] = With(@)]
    BY <1>7 DEF UpdateRoles, GoTo
  <2>4. /\ w.at = "sync" /\ w.user = u /\ w.copy = handler[h].copy
        /\ w.found = With(handler[h].found) /\ w.left = handler[h].left \ {p}
    BY <2>1 DEF Work
  <2>5. active'[u] = With(active[u]) /\ \A v \in Users : v # u => active'[v] = active[v]
    BY <1>0, <2>1, <2>3
  <2>6. With(handler[h].found) = With(active[u]) \ (handler[h].left \ {p})
    BY <2>1, <2>2
  <2> HIDE DEF w
  <2>7. handler'[h] = w /\ \A k \in Handlers : k # h => handler'[k] = handler[k]
    BY <1>0, <2>3
  <2>8. Matching(h)'
    BY <2>2, <2>3, <2>4, <2>5, <2>6, <2>7 DEF Matching
  <2>9. \A k \in Handlers : k # h => Matching(k)'
    BY <1>0, <2>1, <2>7 DEF Matching, Busy, At
  <2>10. ASSUME NEW v \in Users
         PROVE  Agreed(v)'
    <3>1. CASE v = u
      BY <1>0, <1>a, <2>1, <2>3, <2>4, <2>5, <2>7, <3>1 DEF Agreed, SyncLabels
    <3>2. CASE v # u
      BY <1>0, <1>a, <2>1, <2>3, <2>4, <2>5, <2>7, <3>2 DEF Agreed
    <3> QED
      BY <3>1, <3>2
  <2> QED
    BY <2>8, <2>9, <2>10
<1>8. ASSUME NEW h \in Handlers, Kill(h)
      PROVE  FALSE
  BY <1>0, <1>8 DEF Kill
<1>9. ASSUME Silent
      PROVE  Goal
  <2>1. \A k \in Handlers : Busy(k) => handler[k].user \in Users
    BY <1>0, BusyIsWork DEF Work
  <2>2. ASSUME NEW k \in Handlers
        PROVE  Matching(k)'
    BY <1>0, <1>9, <2>1 DEF Matching, Silent, Same, Alike, SameData, SyncLabels
  <2>3. \A k \in Handlers : (handler'[k].at \in SyncLabels <=> handler[k].at \in SyncLabels)
                         /\ (handler[k].at \in SyncLabels => handler'[k].user = handler[k].user)
    BY <1>9 DEF Silent, Same, Alike, SyncLabels, Busy, At
  <2>4. ASSUME NEW v \in Users
        PROVE  Agreed(v)'
    BY <1>0, <1>9, <2>3 DEF Agreed, Silent, SameData
  <2> QED
    BY <2>2, <2>4
<1> QED
  BY <1>1, <1>4, <1>5, <1>6, <1>7, <1>8, <1>9, SilentSteps DEF Next, Step

\* The roles and the memberships of every profile agree between requests, also if
\* partners fail, while handlers neither overlap nor are killed.
THEOREM RolesMatch == Spec => []RolesAgree
<1>1. Init => Matched
  <2> SUFFICES ASSUME Init
               PROVE  (\A h \in Handlers : Matching(h)) /\ (\A u \in Users : Agreed(u))
    BY DEF Matched
  <2>1. \A h \in Handlers : ~Busy(h)
    BY DEF Init, Busy, At, Idle
  <2>2. \A u \in Users : row[u].member = {} /\ active[u] = {}
    BY DEF Init
  <2> QED
    BY <2>1, <2>2 DEF Matching, Agreed
<1>2. Types /\ Kept /\ Matched /\ [Next]_vars => Matched'
  BY MatchedPreserved DEF Kept
<1>3. Matched => RolesAgree
  BY DEF Matched, Agreed, Careful, RolesAgree, Busy, At, SyncLabels
<1> QED
  BY <1>1, <1>2, <1>3, AlwaysTypes, AlwaysKept, PTL DEF Spec
===============================================================================
